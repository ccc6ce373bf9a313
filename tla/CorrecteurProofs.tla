-------------------------- MODULE CorrecteurProofs --------------------------
(***************************************************************************)
(* Proofs about the error-correcting code, for every byte and every bit    *)
(* that the noise may hit.  The sum of the two registers of crcGeneration  *)
(* evolves on its own, by a linear step that sends only 0 to 0; eight such *)
(* steps make the checksum, which is therefore linear and injective.  What *)
(* the server's check does with a damaged byte follows from that.          *)
(***************************************************************************)
EXTENDS Correcteur, FiniteSetTheorems, WellFoundedInduction, TLAPS

LEMMA StepIs ==
  \A s : CrcStep(s) = [crc |-> IF 7 \in SymDiff(s.crc, s.m)
                              THEN SymDiff(ShiftLeft(s.crc), POLYNOMIAL)
                              ELSE ShiftLeft(s.crc),
                      m   |-> ShiftLeft(s.m)]
BY DEF CrcStep

LEMMA Bits == Bit = 0..7 /\ WORD_SIZE = 8
BY DEF Bit, WORD_SIZE

\* The least and the greatest element.
LEMMA MinNat ==
  ASSUME NEW S \in SUBSET Nat, S # {}
  PROVE  Min(S) \in S /\ \A y \in S : Min(S) <= y
<1> DEFINE R == OpToRel(<, Nat)
<1>1. IsWellFoundedOn(R, Nat)
  BY NatLessThanWellFounded
<1>2. \A x, y \in Nat : y < x => <<y, x>> \in R
  BY DEF OpToRel
<1> HIDE DEF R
<1>3. PICK x \in S : \A y \in S : <<y, x>> \notin R
  BY <1>1, WFMin
<1>4. \A y \in S : x <= y
  <2> SUFFICES ASSUME NEW y \in S PROVE x <= y
    OBVIOUS
  <2>1. x \in Nat /\ y \in Nat /\ <<y, x>> \notin R
    BY <1>3
  <2>2. ~ (y < x)
    BY <1>2, <2>1
  <2> QED
    BY <2>1, <2>2
<1> QED
  BY <1>4 DEF Min

LEMMA ShiftIn == \A m \in Byte : \A i : i \in ShiftLeft(m) <=> i \in 1..7 /\ i - 1 \in m
<1> SUFFICES ASSUME NEW m \in Byte, NEW i PROVE i \in ShiftLeft(m) <=> i \in 1..7 /\ i - 1 \in m
  OBVIOUS
<1>1. m \in SUBSET (0..7)
  BY Bits DEF Byte
<1>2. ShiftLeft(m) = {j + 1 : j \in m} \cap (0..7)
  BY Bits DEF ShiftLeft
<1> QED
  BY <1>1, <1>2

LEMMA DiffIn == \A a, b, i : i \in SymDiff(a, b) <=> ~(i \in a <=> i \in b)
BY DEF SymDiff

\* The loop of crcGeneration, unrolled: the function it is defined by exists.
Registers(m) ==
  CrcStep(CrcStep(CrcStep(CrcStep(CrcStep(CrcStep(CrcStep(CrcStep(
    [crc |-> {}, m |-> m]))))))))

LEMMA Loop == \A m : crcGeneration(m) = Registers(m).crc
<1> SUFFICES ASSUME NEW m PROVE crcGeneration(m) = Registers(m).crc
  OBVIOUS
<1> DEFINE s0 == [crc |-> {}, m |-> m]
           s1 == CrcStep(s0)
           s2 == CrcStep(s1)
           s3 == CrcStep(s2)
           s4 == CrcStep(s3)
           s5 == CrcStep(s4)
           s6 == CrcStep(s5)
           s7 == CrcStep(s6)
           s8 == CrcStep(s7)
           g == [i \in 0..8 |->
                   CASE i = 0 -> s0 [] i = 1 -> s1 [] i = 2 -> s2 [] i = 3 -> s3
                     [] i = 4 -> s4 [] i = 5 -> s5 [] i = 6 -> s6 [] i = 7 -> s7
                     [] OTHER -> s8]
           Unfold(f) == [i \in 0..8 |-> IF i = 0 THEN [crc |-> {}, m |-> m]
                                                 ELSE CrcStep(f[i - 1])]
           h == CHOOSE f : f = Unfold(f)
<1>1. g = Unfold(g)
  <2> HIDE DEF s0, s1, s2, s3, s4, s5, s6, s7, s8
  <2>1. /\ s0 = [crc |-> {}, m |-> m]
        /\ s1 = CrcStep(s0) /\ s2 = CrcStep(s1) /\ s3 = CrcStep(s2)
        /\ s4 = CrcStep(s3) /\ s5 = CrcStep(s4) /\ s6 = CrcStep(s5)
        /\ s7 = CrcStep(s6) /\ s8 = CrcStep(s7)
    BY DEF s0, s1, s2, s3, s4, s5, s6, s7, s8
  <2>2. \A i \in 0..8 : g[i] = Unfold(g)[i]
    BY <2>1
  <2> QED
    BY <2>2
<1>2. h = Unfold(h)
  BY <1>1
<1>3. crcGeneration(m) = h[8].crc
  BY DEF crcGeneration, WORD_SIZE
<1>4. h[8] = s8
  <2> HIDE DEF h
  <2>1. \A i \in 0..8 : h[i] = IF i = 0 THEN [crc |-> {}, m |-> m] ELSE CrcStep(h[i - 1])
    BY <1>2
  <2>2. /\ h[0] = s0 /\ h[1] = CrcStep(h[0]) /\ h[2] = CrcStep(h[1])
        /\ h[3] = CrcStep(h[2]) /\ h[4] = CrcStep(h[3]) /\ h[5] = CrcStep(h[4])
        /\ h[6] = CrcStep(h[5]) /\ h[7] = CrcStep(h[6]) /\ h[8] = CrcStep(h[7])
    BY <2>1
  <2> QED
    BY <2>2 DEF s1, s2, s3, s4, s5, s6, s7, s8
<1> QED
  BY <1>3, <1>4 DEF Registers

-----------------------------------------------------------------------------
\* What one iteration makes of the sum of the two registers.
Advance(t) == IF 7 \in t THEN SymDiff(ShiftLeft(t), POLYNOMIAL) ELSE ShiftLeft(t)

LEMMA DiffByte == \A a, b \in Byte : SymDiff(a, b) \in Byte
BY DEF SymDiff, Byte

LEMMA DiffLaws ==
  /\ \A a, b : SymDiff(a, b) = {} <=> a = b
  /\ \A a : SymDiff({}, a) = a /\ SymDiff(a, {}) = a
  /\ \A a, b : SymDiff(SymDiff(a, b), b) = a
  /\ \A a, b : SymDiff(a, b) = SymDiff(b, a)
BY DEF SymDiff

LEMMA AdvanceIn ==
  \A t \in Byte :
    /\ Advance(t) \in Byte
    /\ \A i \in Bit : i \in Advance(t) <=>
         ~((i # 0 /\ i - 1 \in t) <=> (7 \in t /\ i \in POLYNOMIAL))
<1> SUFFICES ASSUME NEW t \in Byte
             PROVE  /\ Advance(t) \in Byte
                    /\ \A i \in Bit : i \in Advance(t) <=>
                         ~((i # 0 /\ i - 1 \in t) <=> (7 \in t /\ i \in POLYNOMIAL))
  OBVIOUS
<1>1. ShiftLeft(t) \in Byte /\ POLYNOMIAL \in Byte
  BY Bits DEF ShiftLeft, POLYNOMIAL, Byte
<1>2. \A i \in Bit : i \in ShiftLeft(t) <=> (i # 0 /\ i - 1 \in t)
  <2> SUFFICES ASSUME NEW i \in Bit PROVE i \in ShiftLeft(t) <=> (i # 0 /\ i - 1 \in t)
    OBVIOUS
  <2>1. i \in 1..7 <=> i # 0
    BY Bits
  <2> QED
    BY <2>1, ShiftIn
<1>3. Advance(t) \in Byte
  BY <1>1, DiffByte DEF Advance
<1>4. \A i \in Bit : i \in Advance(t) <=>
        ~(i \in ShiftLeft(t) <=> (7 \in t /\ i \in POLYNOMIAL))
  BY DiffIn DEF Advance
<1> QED
  BY <1>2, <1>3, <1>4

\* Bytes are equal when their bits are.
LEMMA ByteExt == \A a, b \in Byte : (\A i \in Bit : i \in a <=> i \in b) => a = b
BY DEF Byte

LEMMA AdvanceLinear ==
  \A a, b \in Byte : Advance(SymDiff(a, b)) = SymDiff(Advance(a), Advance(b))
<1> SUFFICES ASSUME NEW a \in Byte, NEW b \in Byte
             PROVE  Advance(SymDiff(a, b)) = SymDiff(Advance(a), Advance(b))
  OBVIOUS
<1>1. /\ SymDiff(a, b) \in Byte /\ Advance(SymDiff(a, b)) \in Byte
      /\ SymDiff(Advance(a), Advance(b)) \in Byte
  BY DiffByte, AdvanceIn
<1>2. ASSUME NEW i \in Bit
      PROVE  i \in Advance(SymDiff(a, b)) <=> i \in SymDiff(Advance(a), Advance(b))
  <2>1. i \in Advance(SymDiff(a, b)) <=>
          ~((i # 0 /\ i - 1 \in SymDiff(a, b)) <=> (7 \in SymDiff(a, b) /\ i \in POLYNOMIAL))
    BY <1>1, AdvanceIn
  <2>2. /\ i - 1 \in SymDiff(a, b) <=> ~(i - 1 \in a <=> i - 1 \in b)
        /\ 7 \in SymDiff(a, b) <=> ~(7 \in a <=> 7 \in b)
    BY DiffIn
  <2>3. i \in SymDiff(Advance(a), Advance(b)) <=> ~(i \in Advance(a) <=> i \in Advance(b))
    BY DiffIn
  <2>4. /\ i \in Advance(a) <=> ~((i # 0 /\ i - 1 \in a) <=> (7 \in a /\ i \in POLYNOMIAL))
        /\ i \in Advance(b) <=> ~((i # 0 /\ i - 1 \in b) <=> (7 \in b /\ i \in POLYNOMIAL))
    BY AdvanceIn
  <2> QED
    BY <2>1, <2>2, <2>3, <2>4
<1> QED
  BY <1>1, <1>2, ByteExt

LEMMA AdvanceKernel == \A t \in Byte : Advance(t) = {} => t = {}
<1> SUFFICES ASSUME NEW t \in Byte, Advance(t) = {} PROVE t = {}
  OBVIOUS
<1>1. 7 \notin t
  <2>1. 0 \in Bit /\ 0 \in POLYNOMIAL
    BY Bits DEF POLYNOMIAL
  <2> QED
    BY <2>1, AdvanceIn
<1>2. \A j \in 0..6 : j \notin t
  <2> SUFFICES ASSUME NEW j \in 0..6 PROVE j \notin t
    OBVIOUS
  <2>1. j + 1 \in Bit /\ j + 1 # 0 /\ (j + 1) - 1 = j
    BY Bits
  <2> QED
    BY <1>1, <2>1, AdvanceIn
<1> QED
  BY <1>1, <1>2, Bits DEF Byte

\* One iteration on the two registers, and how much of m it has consumed.
LEMMA StepAdvances ==
  ASSUME NEW s \in [crc : Byte, m : Byte], NEW n \in 0..7, \A j \in s.m : j >= n
  PROVE  /\ CrcStep(s) \in [crc : Byte, m : Byte]
         /\ \A j \in CrcStep(s).m : j >= n + 1
         /\ SymDiff(CrcStep(s).crc, CrcStep(s).m) = Advance(SymDiff(s.crc, s.m))
<1> DEFINE c == s.crc
           d == s.m
           x == ShiftLeft(c)
           y == ShiftLeft(d)
           t == SymDiff(c, d)
<1>1. c \in Byte /\ d \in Byte /\ x \in Byte /\ y \in Byte /\ POLYNOMIAL \in Byte /\ t \in Byte
  BY Bits, DiffByte DEF ShiftLeft, Byte, POLYNOMIAL
<1>2. /\ CrcStep(s).crc = IF 7 \in t THEN SymDiff(x, POLYNOMIAL) ELSE x
      /\ CrcStep(s).m = y
      /\ CrcStep(s) \in [crc : Byte, m : Byte]
  <2>1. CrcStep(s) = [crc |-> IF 7 \in t THEN SymDiff(x, POLYNOMIAL) ELSE x, m |-> y]
    BY StepIs
  <2> HIDE DEF x, y, t
  <2>2. SymDiff(x, POLYNOMIAL) \in Byte
    BY <1>1, DiffByte
  <2> QED
    BY <1>1, <2>1, <2>2
<1>3. \A j \in y : j >= n + 1
  <2> SUFFICES ASSUME NEW j \in y PROVE j >= n + 1
    OBVIOUS
  <2>1. j \in 1..7 /\ j - 1 \in d
    BY <1>1, ShiftIn
  <2>2. j - 1 >= n
    BY <2>1
  <2> QED
    BY <2>1, <2>2
<1>4. ShiftLeft(t) = SymDiff(x, y)
  <2>1. ShiftLeft(t) \in Byte /\ SymDiff(x, y) \in Byte
    BY <1>1, DiffByte, Bits DEF ShiftLeft, Byte
  <2>2. ASSUME NEW i \in Bit PROVE i \in ShiftLeft(t) <=> i \in SymDiff(x, y)
    <3> HIDE DEF t
    <3>1. i \in ShiftLeft(t) <=> i \in 1..7 /\ i - 1 \in t
      BY <1>1, ShiftIn
    <3>2. i - 1 \in t <=> ~(i - 1 \in c <=> i - 1 \in d)
      BY DiffIn DEF t
    <3>3. /\ i \in x <=> i \in 1..7 /\ i - 1 \in c
          /\ i \in y <=> i \in 1..7 /\ i - 1 \in d
      BY <1>1, ShiftIn
    <3>4. i \in SymDiff(x, y) <=> ~(i \in x <=> i \in y)
      BY DiffIn
    <3> HIDE DEF x, y, c, d
    <3> QED
      BY ONLY <3>1, <3>2, <3>3, <3>4
  <2> QED
    BY <2>1, <2>2, ByteExt
<1>5. SymDiff(SymDiff(x, POLYNOMIAL), y) = SymDiff(SymDiff(x, y), POLYNOMIAL)
  BY DEF SymDiff
<1> HIDE DEF x, y, t
<1>6. SymDiff(CrcStep(s).crc, CrcStep(s).m) = Advance(t)
  BY <1>2, <1>4, <1>5 DEF Advance
<1> QED
  BY <1>2, <1>3, <1>6 DEF t

\* A byte after the eight iterations.
Advances(t) == Advance(Advance(Advance(Advance(Advance(Advance(Advance(Advance(t))))))))

\* The checksum is the sum of the registers when m has been consumed.
LEMMA CrcAdvances ==
  \A m \in Byte : crcGeneration(m) \in Byte /\ crcGeneration(m) = Advances(m)
<1> SUFFICES ASSUME NEW m \in Byte
             PROVE  crcGeneration(m) \in Byte /\ crcGeneration(m) = Advances(m)
  OBVIOUS
<1> DEFINE Sum(s) == SymDiff(s.crc, s.m)
           After(s, n) == s \in [crc : Byte, m : Byte] /\ \A j \in s.m : j >= n
           s0 == [crc |-> {}, m |-> m]
           s1 == CrcStep(s0)
           s2 == CrcStep(s1)
           s3 == CrcStep(s2)
           s4 == CrcStep(s3)
           s5 == CrcStep(s4)
           s6 == CrcStep(s5)
           s7 == CrcStep(s6)
           s8 == CrcStep(s7)
<1>1. \A s : \A n \in 0..7 :
        After(s, n) => After(CrcStep(s), n + 1) /\ Sum(CrcStep(s)) = Advance(Sum(s))
  BY StepAdvances
<1>2. After(s0, 0) /\ Sum(s0) = m
  BY DiffLaws, Bits DEF Byte
<1>3. Registers(m) = s8
  BY DEF Registers
<1> HIDE DEF Sum, After, s0, s1, s2, s3, s4, s5, s6, s7, s8
<1>4. After(s1, 1) /\ Sum(s1) = Advance(Sum(s0))
  BY <1>1, <1>2 DEF s1
<1>5. After(s2, 2) /\ Sum(s2) = Advance(Sum(s1))
  BY <1>1, <1>4 DEF s2
<1>6. After(s3, 3) /\ Sum(s3) = Advance(Sum(s2))
  BY <1>1, <1>5 DEF s3
<1>7. After(s4, 4) /\ Sum(s4) = Advance(Sum(s3))
  BY <1>1, <1>6 DEF s4
<1>8. After(s5, 5) /\ Sum(s5) = Advance(Sum(s4))
  BY <1>1, <1>7 DEF s5
<1>9. After(s6, 6) /\ Sum(s6) = Advance(Sum(s5))
  BY <1>1, <1>8 DEF s6
<1>10. After(s7, 7) /\ Sum(s7) = Advance(Sum(s6))
  BY <1>1, <1>9 DEF s7
<1>11. After(s8, 8) /\ Sum(s8) = Advance(Sum(s7))
  BY <1>1, <1>10 DEF s8
<1>12. Sum(s8) = Advances(m)
  BY <1>2, <1>4, <1>5, <1>6, <1>7, <1>8, <1>9, <1>10, <1>11 DEF Advances
<1>13. s8.crc \in Byte /\ s8.m = {}
  BY <1>11, Bits DEF After, Byte
<1>14. Sum(s8) = s8.crc
  BY <1>13, DiffLaws DEF Sum
<1> QED
  BY <1>3, <1>12, <1>13, <1>14, Loop

LEMMA AdvancesLinear ==
  \A a, b \in Byte : Advances(SymDiff(a, b)) = SymDiff(Advances(a), Advances(b))
BY AdvanceIn, AdvanceLinear DEF Advances

LEMMA AdvancesKernel == \A t \in Byte : Advances(t) = {} => t = {}
BY AdvanceIn, AdvanceKernel DEF Advances

\* The checksum of a sum of two bytes is the sum of their checksums.
LEMMA CrcLinear ==
  \A a, b \in Byte :
    crcGeneration(SymDiff(a, b)) = SymDiff(crcGeneration(a), crcGeneration(b))
BY CrcAdvances, AdvancesLinear, DiffByte

\* Two bytes never have the same checksum: crcVerif takes no damaged byte but 0 for
\* the one that was sent (crcGeneration).
THEOREM CrcInjective ==
  \A a, b \in Byte : crcGeneration(a) = crcGeneration(b) => a = b
<1> SUFFICES ASSUME NEW a \in Byte, NEW b \in Byte, crcGeneration(a) = crcGeneration(b)
             PROVE  a = b
  OBVIOUS
<1>1. SymDiff(a, b) \in Byte
  BY DiffByte
<1>2. crcGeneration(SymDiff(a, b)) = {}
  BY CrcLinear, DiffLaws
<1>3. SymDiff(a, b) = {}
  BY <1>1, <1>2, CrcAdvances, AdvancesKernel
<1> QED
  BY <1>3, DiffLaws

LEMMA CrcOfZero == crcGeneration({}) = {}
<1>1. {} \in Byte
  BY DEF Byte
<1> QED
  BY <1>1, CrcAdvances, CrcLinear, DiffLaws

-----------------------------------------------------------------------------
LEMMA Concat == \A m, k \in Byte : HighByte(concat(m, k)) = m /\ LowByte(concat(m, k)) = k
<1> SUFFICES ASSUME NEW m \in Byte, NEW k \in Byte
             PROVE  HighByte(concat(m, k)) = m /\ LowByte(concat(m, k)) = k
  OBVIOUS
<1>1. m \in SUBSET (0..7) /\ k \in SUBSET (0..7)
  BY Bits DEF Byte
<1>2. concat(m, k) = {i + 8 : i \in m} \cup k
  BY Bits DEF concat
<1>3. \A i \in Bit : /\ i + 8 \in concat(m, k) <=> i \in m
                     /\ i \in concat(m, k) <=> i \in k
  BY <1>1, <1>2, Bits
<1>4. HighByte(concat(m, k)) \in Byte /\ LowByte(concat(m, k)) \in Byte
  BY DEF HighByte, LowByte, Byte
<1>5. \A i \in Bit : /\ i \in HighByte(concat(m, k)) <=> i \in m
                     /\ i \in LowByte(concat(m, k)) <=> i \in k
  BY <1>3, Bits DEF HighByte, LowByte
<1> QED
  BY <1>4, <1>5, ByteExt

\* Flipping a data bit of a word.
LEMMA Flipped ==
  ASSUME NEW m \in Byte, NEW k \in Byte, NEW i \in Bit,
         NEW w, w = chg_nth_bit(i + WORD_SIZE, concat(m, k))
  PROVE  HighByte(w) = SymDiff(m, {i}) /\ LowByte(w) = k
<1> DEFINE v == concat(m, k)
<1>1. HighByte(v) = m /\ LowByte(v) = k
  BY Concat
<1>2. \A j : j \in w <=> ~(j \in v <=> j = i + 8)
  BY Bits, DiffIn DEF chg_nth_bit
<1> HIDE DEF v
<1>3. \A j \in Bit : /\ j \in HighByte(w) <=> ~(j \in m <=> j = i)
                     /\ j \in LowByte(w) <=> j \in k
  <2> SUFFICES ASSUME NEW j \in Bit
               PROVE  /\ j \in HighByte(w) <=> ~(j \in m <=> j = i)
                      /\ j \in LowByte(w) <=> j \in k
    OBVIOUS
  <2>1. i \in 0..7 /\ j \in 0..7
    BY Bits
  <2>2. /\ j \in m <=> j + 8 \in v
        /\ j \in HighByte(w) <=> j + 8 \in w
        /\ j \in k <=> j \in v
        /\ j \in LowByte(w) <=> j \in w
    BY <1>1, Bits DEF HighByte, LowByte
  <2> QED
    BY <1>2, <2>1, <2>2
<1>4. /\ HighByte(w) \in Byte /\ LowByte(w) \in Byte
      /\ {i} \in Byte /\ SymDiff(m, {i}) \in Byte
  BY DiffByte DEF HighByte, LowByte, Byte
<1>5. \A j \in Bit : j \in HighByte(w) <=> j \in SymDiff(m, {i})
  BY <1>3, DiffIn
<1> QED
  BY <1>3, <1>4, <1>5, ByteExt

\* A byte d that travels with the checksum of o passes for correct when it is o,
\* or 0.
LEMMA Verified ==
  ASSUME NEW o \in Byte, NEW w, HighByte(w) \in Byte, LowByte(w) = crcGeneration(o)
  PROVE  crcVerif(w) = {} <=> HighByte(w) \in {o, {}}
<1> DEFINE d == HighByte(w)
<1>1. {} \in Byte
  BY DEF Byte
<1>2. /\ crcGeneration(d) = crcGeneration(o) <=> d = o
      /\ crcGeneration(d) = {} <=> d = {}
  BY <1>1, CrcInjective, CrcOfZero
<1> QED
  BY <1>2 DEF crcVerif

\* The bits whose flip makes d pass.
Candidates(o, d) == {i \in Bit : SymDiff(d, {i}) \in {o, {}}}

LEMMA Suspected ==
  ASSUME NEW o \in Byte, NEW d \in Byte
  PROVE  Suspects(concat(d, crcGeneration(o))) = Candidates(o, d)
<1> DEFINE v == concat(d, crcGeneration(o))
           w(i) == chg_nth_bit(i + WORD_SIZE, v)
<1>1. ASSUME NEW i \in Bit
      PROVE  crcVerif(w(i)) = {} <=> SymDiff(d, {i}) \in {o, {}}
  <2>1. crcGeneration(o) \in Byte /\ {i} \in Byte
    BY CrcAdvances DEF Byte
  <2>2. HighByte(w(i)) = SymDiff(d, {i}) /\ LowByte(w(i)) = crcGeneration(o)
    BY <2>1, Flipped
  <2>3. SymDiff(d, {i}) \in Byte
    BY <2>1, DiffByte
  <2> QED
    BY <2>2, <2>3, Verified
<1> QED
  BY <1>1 DEF Suspects, Candidates

\* What the server makes of the noise: nothing when the byte passes for correct,
\* else the first suspect is flipped.
LEMMA Corrected ==
  ASSUME NEW o \in Byte, NEW b \in Bit, NEW d, d = SymDiff(o, {b})
  PROVE  LET t == test_and_correct_crc(d, crcGeneration(o))
             i == Min(Candidates(o, d))
         IN  /\ d \in Byte /\ d # o /\ b \in Candidates(o, d)
             /\ t.ret = 0 /\ t.crc = crcGeneration(o)
             /\ d = {} => t.m = {}
             /\ d # {} => t.m = SymDiff(d, {i})
             /\ i \in Candidates(o, d) /\ \A j \in Candidates(o, d) : i <= j
<1> DEFINE t == test_and_correct_crc(d, crcGeneration(o))
           S == Candidates(o, d)
           k == crcGeneration(o)
           v == concat(d, k)
           e == crc_error_amount(v)
           f == chg_nth_bit(e + WORD_SIZE, v)
<1>1. {b} \in Byte /\ k \in Byte /\ d \in Byte
  BY CrcAdvances, DiffByte DEF Byte
<1>2. d # o /\ b \in S
  <2>1. SymDiff(d, {b}) = o
    BY DiffLaws
  <2>2. d # o
    BY DiffIn
  <2> QED
    BY <2>1, <2>2 DEF Candidates
<1>3. Min(S) \in S /\ \A i \in S : Min(S) <= i
  <2>1. S \in SUBSET Nat
    BY Bits DEF Candidates
  <2> QED
    BY <1>2, <2>1, MinNat
<1>4. crcVerif(v) = {} <=> d = {}
  <2>1. HighByte(v) = d /\ LowByte(v) = k
    BY <1>1, Concat
  <2> QED
    BY <1>1, <1>2, <2>1, Verified
<1>5. e = Min(S) /\ e # -1
  <2>1. Suspects(v) = S
    BY <1>1, Suspected
  <2>2. e = Min(S)
    BY <1>2, <2>1 DEF crc_error_amount
  <2> QED
    BY <1>3, <2>2, Bits DEF Candidates
<1>6. HighByte(f) = SymDiff(d, {e}) /\ LowByte(f) = k
  <2>1. e \in Bit
    BY <1>3, <1>5 DEF Candidates
  <2> QED
    BY <1>1, <2>1, Flipped
<1>7. test_and_correct_crc(d, k) =
          IF crcVerif(v) = {} THEN [ret |-> 0, m |-> d, crc |-> k]
          ELSE IF e = -1 THEN [ret |-> -1, m |-> d, crc |-> k]
          ELSE [ret |-> 0, m |-> HighByte(f), crc |-> LowByte(f)]
  BY DEF test_and_correct_crc
<1>0. k = crcGeneration(o) /\ t = test_and_correct_crc(d, k)
  OBVIOUS
<1> HIDE DEF k, v, e, f, t, S
<1>8. /\ t.ret = 0 /\ t.crc = k
      /\ d = {} => t.m = {}
      /\ d # {} => t.m = SymDiff(d, {Min(S)})
  <2>1. CASE d = {}
    <3>1. t = [ret |-> 0, m |-> d, crc |-> k]
      BY <1>0, <1>4, <1>7, <2>1
    <3> QED
      BY <2>1, <3>1
  <2>2. CASE d # {}
    <3>1. t = [ret |-> 0, m |-> SymDiff(d, {Min(S)}), crc |-> k]
      BY <1>0, <1>4, <1>5, <1>6, <1>7, <2>2
    <3> QED
      BY <2>2, <3>1
  <2> QED
    BY <2>1, <2>2
<1> QED
  BY <1>1, <1>2, <1>3, <1>8 DEF t, S, k

-----------------------------------------------------------------------------
(* The specification.                                                      *)

LEMMA Flips == \A m \in Byte, b \in Bit : bruiter(m, b) = SymDiff(m, {b})
BY DEF bruiter, chg_nth_bit, Byte, SymDiff

LEMMA CodeInit == Init => CodeInv
BY CrcAdvances DEF Init, CodeInv, TypeOK

LEMMA CodeNoise == CodeInv /\ Noise => CodeInv'
<1> SUFFICES ASSUME CodeInv, Noise PROVE CodeInv'
  OBVIOUS
<1>1. PICK b \in Bit : data' = bruiter(data, b)
  BY DEF Noise
<1>2. data = original /\ original \in Byte /\ {b} \in Byte
  BY DEF Noise, CodeInv, TypeOK, Byte
<1>3. data' = bruiter(original, b) /\ data' \in Byte
  BY <1>1, <1>2, Flips, DiffByte
<1> QED
  BY <1>3 DEF Noise, CodeInv, TypeOK

LEMMA CodeCheck == CodeInv /\ Check => CodeInv'
<1> SUFFICES ASSUME CodeInv, Check PROVE CodeInv'
  OBVIOUS
<1>1. PICK b \in Bit : data = SymDiff(original, {b})
  BY Flips DEF Check, CodeInv, TypeOK
<1> DEFINE t == test_and_correct_crc(data, crcGeneration(original))
           i == Min(Candidates(original, data))
<1>2. original \in Byte /\ crc = crcGeneration(original)
  BY DEF CodeInv, TypeOK
<1>3. ret' = t.ret /\ data' = t.m /\ crc' = t.crc /\ at' = "server" /\ original' = original
  BY <1>2 DEF Check
<1>4. /\ t.ret = 0 /\ t.crc = crcGeneration(original)
      /\ data = {} => t.m = {}
      /\ data # {} => t.m = SymDiff(data, {i})
      /\ i \in Candidates(original, data)
  BY <1>1, <1>2, Corrected
<1> HIDE DEF t
<1>5. t.m \in {original, {}}
  BY <1>4 DEF Candidates
<1>6. t.m \in Byte
  BY <1>2, <1>5 DEF Byte
<1> QED
  BY <1>2, <1>3, <1>4, <1>5, <1>6 DEF CodeInv, TypeOK

\* On its way the byte differs from the one that was sent by one bit, and the check
\* finds a bit to flip (CodeInv).
THEOREM Invariance == Spec => []CodeInv
<1>1. CodeInv /\ [Next]_vars => CodeInv'
  <2>1. CodeInv /\ UNCHANGED vars => CodeInv'
    BY DEF CodeInv, TypeOK, vars
  <2> QED
    BY <2>1, CodeNoise, CodeCheck DEF Next
<1> QED
  BY <1>1, CodeInit, PTL DEF Spec

\* Data and checksum stay within their eight bits (TypeOK).
THEOREM TypeCorrect == Spec => []TypeOK
<1>1. CodeInv => TypeOK
  BY DEF CodeInv
<1> QED
  BY <1>1, Invariance, PTL

\* After the check the byte is the one the client sent, or 0 (CorrectedOrErased).
THEOREM Corrects == Spec => []CorrectedOrErased
<1>1. CodeInv => CorrectedOrErased
  BY DEF CodeInv, CorrectedOrErased
<1> QED
  BY <1>1, Invariance, PTL

\* With the noise of the proxy no packet is refused: the candidates for the damaged
\* bit are never exhausted (NeverGivesUp).
THEOREM AlwaysAnswers == Spec => []NeverGivesUp
<1>1. CodeInv => NeverGivesUp
  BY DEF CodeInv, NeverGivesUp
<1> QED
  BY <1>1, Invariance, PTL

-----------------------------------------------------------------------------
(* The erased bytes.                                                       *)

LEMMA MaxBit ==
  ASSUME NEW S \in Byte, S # {}
  PROVE  Max(S) \in S /\ \A y \in S : Max(S) >= y
<1> DEFINE T == {7 - x : x \in S}
<1>1. S \in SUBSET (0..7)
  BY Bits DEF Byte
<1>2. T \in SUBSET Nat /\ T # {}
  <2>1. \A x \in S : 7 - x \in Nat
    BY <1>1
  <2> QED
    BY <2>1
<1>3. Min(T) \in T /\ \A y \in T : Min(T) <= y
  BY <1>2, MinNat
<1>4. PICK x \in S : Min(T) = 7 - x
  BY <1>3
<1>5. \A y \in S : x >= y
  <2> SUFFICES ASSUME NEW y \in S PROVE x >= y
    OBVIOUS
  <2>1. 7 - x <= 7 - y /\ x \in 0..7 /\ y \in 0..7
    BY <1>1, <1>3, <1>4
  <2> QED
    BY <2>1
<1> QED
  BY <1>5 DEF Max

LEMMA Pair ==
  ASSUME NEW o \in Byte
  PROVE  /\ \A a, b \in Bit : a # b /\ o = {a, b} => Cardinality(o) = 2
         /\ \A b \in o : Cardinality(o) = 2 => \E a \in o : a # b /\ o = {a, b}
<1>1. IsFiniteSet(o)
  <2>1. IsFiniteSet(0..7)
    BY 0 \in Int, 7 \in Int, FS_Interval
  <2> QED
    BY <2>1, Bits, FS_Subset DEF Byte
<1>2. ASSUME NEW a \in Bit, NEW b \in Bit, a # b, o = {a, b} PROVE Cardinality(o) = 2
  <2>1. IsFiniteSet({a}) /\ Cardinality({a}) = 1
    BY FS_Singleton
  <2>2. Cardinality({a} \cup {b}) = Cardinality({a}) + 1
    <3>1. b \notin {a}
      BY <1>2
    <3> QED
      BY <2>1, <3>1, FS_AddElement
  <2>3. o = {a} \cup {b}
    BY <1>2
  <2> QED
    BY <2>1, <2>2, <2>3
<1>3. ASSUME NEW b \in o, Cardinality(o) = 2 PROVE \E a \in o : a # b /\ o = {a, b}
  <2>1. IsFiniteSet(o \ {b}) /\ Cardinality(o \ {b}) = 1
    BY <1>1, <1>3, FS_RemoveElement
  <2>2. PICK a : o \ {b} = {a}
    BY <2>1, FS_Singleton
  <2> QED
    BY <2>2
<1> QED
  BY <1>2, <1>3

\* The byte d is o with bit b flipped; sent is what the server makes of it.
LEMMA Erased ==
  ASSUME NEW o \in Byte, NEW b \in Bit, NEW d, d = SymDiff(o, {b})
  PROVE  test_and_correct_crc(d, crcGeneration(o)).m # o <=>
           \/ o = {b}
           \/ Cardinality(o) = 2 /\ b = Max(o)
<1> DEFINE sent == test_and_correct_crc(d, crcGeneration(o)).m
           i == Min(Candidates(o, d))
<1>1. /\ d \in Byte /\ d # o /\ b \in Candidates(o, d)
      /\ d = {} => sent = {}
      /\ d # {} => sent = SymDiff(d, {i})
      /\ i \in Candidates(o, d) /\ \A j \in Candidates(o, d) : i <= j
  BY Corrected
<1> HIDE DEF sent, i
<1>2. \A j : j \in d <=> ~(j \in o <=> j = b)
  BY DiffIn
<1>3. \A j \in Bit : /\ SymDiff(d, {j}) = o <=> j = b
                     /\ SymDiff(d, {j}) = {} <=> d = {j}
  <2> SUFFICES ASSUME NEW j \in Bit
               PROVE  (SymDiff(d, {j}) = o <=> j = b) /\ (SymDiff(d, {j}) = {} <=> d = {j})
    OBVIOUS
  <2>1. SymDiff(d, {b}) = o
    BY DiffLaws
  <2>2. SymDiff(d, {j}) = {} <=> d = {j}
    BY ONLY DiffLaws
  <2>3. SymDiff(d, {j}) = o => j = b
    <3>1. j \in SymDiff(d, {j}) <=> j \notin d
      BY DiffIn
    <3> QED
      BY <1>2, <3>1
  <2> QED
    BY <2>1, <2>2, <2>3
<1>4. b \in o => Max(o) \in o /\ \A y \in o : Max(o) >= y
  BY MaxBit
<1>5. CASE d = {}
  <2>1. o = {b}
    BY <1>2, <1>5
  <2> QED
    BY <1>1, <1>5, <2>1 DEF sent
<1>6. CASE \E a \in Bit : d = {a} /\ a # b
  <2>1. PICK a \in Bit : d = {a} /\ a # b
    BY <1>6
  <2>2. o = {a, b} /\ o # {b}
    BY <1>2, <2>1
  <2>3. i \in {a, b} /\ i <= a /\ i <= b
    <3>1. Candidates(o, d) = {a, b}
      BY <1>3, <2>1 DEF Candidates
    <3> QED
      BY <1>1, <3>1
  <2>4. Cardinality(o) = 2
    BY <2>1, <2>2, Pair
  <2>5. b = Max(o) <=> i = a
    <3>1. a \in 0..7 /\ b \in 0..7
      BY <2>1, Bits
    <3>2. Max(o) \in {a, b} /\ Max(o) >= a /\ Max(o) >= b
      BY <1>4, <2>2
    <3> QED
      BY <2>1, <2>3, <3>1, <3>2
  <2>6. sent # o <=> i = a
    <3>1. sent = SymDiff(d, {i}) /\ o # {}
      BY <1>1, <2>1, <2>2
    <3>2. i = a => sent = {}
      BY <1>3, <2>1, <3>1
    <3>3. i = b => sent = o
      BY <1>3, <3>1
    <3> QED
      BY <2>3, <3>1, <3>2, <3>3
  <2> QED
    BY <2>2, <2>4, <2>5, <2>6 DEF sent
<1>7. CASE d # {} /\ ~ \E a \in Bit : d = {a} /\ a # b
  <2>1. o # {b}
    BY <1>2, <1>7
  <2>2. sent = o
    <3>1. i \in Bit /\ (SymDiff(d, {i}) = o \/ SymDiff(d, {i}) = {})
      BY <1>1 DEF Candidates
    <3>2. i = b
      BY <1>3, <1>7, <3>1
    <3> QED
      BY <1>1, <1>3, <1>7, <3>2
  <2>3. ~(Cardinality(o) = 2 /\ b = Max(o))
    <3> SUFFICES ASSUME Cardinality(o) = 2, b = Max(o) PROVE FALSE
      OBVIOUS
    <3>1. o # {}
      BY FS_EmptySet
    <3>2. b \in o
      BY <3>1, MaxBit
    <3>3. PICK a \in o : a # b /\ o = {a, b}
      BY <3>2, Pair
    <3>4. d = {a} /\ a \in Bit
      BY <1>2, <3>3 DEF Byte
    <3> QED
      BY <1>7, <3>3, <3>4
  <2> QED
    BY <2>1, <2>2, <2>3 DEF sent
<1> QED
  BY <1>1, <1>5, <1>6, <1>7, Bits DEF Byte

\* The bytes that the server hands on as 0 are exactly those of one character bit,
\* when it is hit, and of two, when the higher one is (ErasedBytes).
THEOREM ErasesExactly == Spec => []ErasedBytes
<1>1. CodeInv => ErasedBytes
  <2> SUFFICES ASSUME CodeInv, at = "proxy"
               PROVE  test_and_correct_crc(data, crc).m # original <=>
                        \/ original = {Max(SymDiff(data, original))}
                        \/ /\ Cardinality(original) = 2
                           /\ Max(SymDiff(data, original)) = Max(original)
    BY DEF ErasedBytes
  <2>1. original \in Byte /\ crc = crcGeneration(original)
    BY DEF CodeInv, TypeOK
  <2>2. PICK b \in Bit : data = SymDiff(original, {b})
    BY <2>1, Flips DEF CodeInv
  <2>3. SymDiff(data, original) = {b}
    BY <2>2 DEF SymDiff
  <2>4. Max({b}) = b
    <3>1. {b} \in Byte
      BY DEF Byte
    <3> QED
      BY <3>1, MaxBit
  <2> QED
    BY <2>1, <2>2, <2>3, <2>4, Erased
<1> QED
  BY <1>1, Invariance, PTL

-----------------------------------------------------------------------------
(* The distance of the code.                                               *)

LEMMA ConcatLinear ==
  \A a, b, c, d \in Byte :
    SymDiff(concat(a, c), concat(b, d)) = concat(SymDiff(a, b), SymDiff(c, d))
<1> SUFFICES ASSUME NEW a \in Byte, NEW b \in Byte, NEW c \in Byte, NEW d \in Byte
             PROVE  SymDiff(concat(a, c), concat(b, d)) = concat(SymDiff(a, b), SymDiff(c, d))
  OBVIOUS
<1>1. \A m, k \in Byte : \A j : j \in concat(m, k) <=>
                               (j \in 8..15 /\ j - 8 \in m) \/ j \in k
  <2> SUFFICES ASSUME NEW m \in Byte, NEW k \in Byte, NEW j
               PROVE  j \in concat(m, k) <=> (j \in 8..15 /\ j - 8 \in m) \/ j \in k
    OBVIOUS
  <2>1. m \in SUBSET (0..7) /\ concat(m, k) = {i + 8 : i \in m} \cup k
    BY Bits DEF Byte, concat
  <2> QED
    BY <2>1
<1>2. SymDiff(a, b) \in Byte /\ SymDiff(c, d) \in Byte
  BY DiffByte
<1>3. \A j : j \in SymDiff(concat(a, c), concat(b, d)) <=>
              j \in concat(SymDiff(a, b), SymDiff(c, d))
  <2> SUFFICES ASSUME NEW j
               PROVE  j \in SymDiff(concat(a, c), concat(b, d)) <=>
                      j \in concat(SymDiff(a, b), SymDiff(c, d))
    OBVIOUS
  <2>1. j \in 8..15 => j \notin c /\ j \notin d
    BY Bits DEF Byte
  <2>2. /\ j \in concat(a, c) <=> (j \in 8..15 /\ j - 8 \in a) \/ j \in c
        /\ j \in concat(b, d) <=> (j \in 8..15 /\ j - 8 \in b) \/ j \in d
        /\ j \in concat(SymDiff(a, b), SymDiff(c, d)) <=>
              (j \in 8..15 /\ j - 8 \in SymDiff(a, b)) \/ j \in SymDiff(c, d)
    BY <1>1, <1>2
  <2>3. /\ j \in SymDiff(concat(a, c), concat(b, d)) <=>
             ~(j \in concat(a, c) <=> j \in concat(b, d))
        /\ j - 8 \in SymDiff(a, b) <=> ~(j - 8 \in a <=> j - 8 \in b)
        /\ j \in SymDiff(c, d) <=> ~(j \in c <=> j \in d)
    BY DiffIn
  <2> QED
    BY ONLY <2>1, <2>2, <2>3
<1> QED
  BY <1>3

LEMMA WordSize ==
  \A m \in Byte : IsFiniteSet(CodeWord(m)) /\ Cardinality(CodeWord(m)) \in Nat
<1> SUFFICES ASSUME NEW m \in Byte
             PROVE  IsFiniteSet(CodeWord(m)) /\ Cardinality(CodeWord(m)) \in Nat
  OBVIOUS
<1>1. CodeWord(m) \subseteq 0..15
  <2>1. m \in SUBSET (0..7) /\ crcGeneration(m) \in SUBSET (0..7)
    BY CrcAdvances, Bits DEF Byte
  <2> QED
    BY <2>1, Bits DEF CodeWord, concat
<1>2. IsFiniteSet(0..15)
  BY 0 \in Int, 15 \in Int, FS_Interval
<1>3. IsFiniteSet(CodeWord(m))
  BY <1>1, <1>2, FS_Subset
<1> QED
  BY <1>3, FS_CardinalityType

\* The code words are closed under the sum, so that the least weight is the least
\* distance.
LEMMA Distance ==
  ASSUME NEW o \in Byte, NEW m \in Byte, CodeWord(m) # CodeWord(o)
  PROVE  Cardinality(SymDiff(CodeWord(m), CodeWord(o))) >= hamming_distance
<1> DEFINE x == SymDiff(m, o)
           W == {cardinal_bit(CodeWord(y)) : y \in Byte \ {{}}}
<1>1. x \in Byte \ {{}}
  BY DiffByte, DiffLaws
<1>2. SymDiff(CodeWord(m), CodeWord(o)) = CodeWord(x)
  BY CrcAdvances, CrcLinear, ConcatLinear DEF CodeWord
<1>3. W \in SUBSET Nat
  BY WordSize DEF cardinal_bit
<1>4. Cardinality(CodeWord(x)) \in W
  BY <1>1 DEF cardinal_bit
<1>5. hamming_distance = Min(W)
  BY DEF hamming_distance
<1> HIDE DEF W, x
<1>6. Min(W) \in Nat /\ Min(W) <= Cardinality(CodeWord(x)) /\ Cardinality(CodeWord(x)) \in Nat
  BY <1>3, <1>4, MinNat
<1> QED
  BY <1>2, <1>5, <1>6

\* hamming_distance, the least weight of a code word, is the least number of bits
\* between the word a client sends and any other (DistanceIsMinimal).
THEOREM LeastDistance == Spec => []DistanceIsMinimal
<1>1. CodeInv => DistanceIsMinimal
  <2> SUFFICES ASSUME CodeInv, at = "client", NEW w \in CodeWords \ {concat(data, crc)}
               PROVE  Cardinality(SymDiff(w, concat(data, crc))) >= hamming_distance
    BY DEF DistanceIsMinimal
  <2>1. original \in Byte /\ concat(data, crc) = CodeWord(original)
    BY DEF CodeInv, TypeOK, CodeWord
  <2>2. PICK m \in Byte : w = CodeWord(m)
    BY DEF CodeWords
  <2> QED
    BY <2>1, <2>2, Distance
<1> QED
  BY <1>1, Invariance, PTL
=============================================================================
