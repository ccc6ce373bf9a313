----------------------------- MODULE Correcteur -----------------------------
(***************************************************************************)
(* The error-correcting code of src/correcteur.c and the byte it carries:  *)
(* the client computes the CRC (crcGeneration), the proxy flips one data   *)
(* bit (bruiter), the server checks and corrects (test_and_correct_crc).   *)
(*                                                                         *)
(* A machine word is the set of the positions of its 1 bits: uint8_t is    *)
(* SUBSET (0..7), uint16_t is SUBSET (0..15), ^ is the symmetric           *)
(* difference, | the union, and bits shifted beyond the width are dropped. *)
(*                                                                         *)
(* X_Slip, defined next to X, is a plausible slip in X: it shows which     *)
(* property notices it and is used nowhere else.                           *)
(***************************************************************************)
EXTENDS Integers, FiniteSets, FiniteSetsExt

WORD_SIZE == 8
Bit   == 0..(WORD_SIZE - 1)
Byte  == SUBSET Bit                \* uint8_t
Word  == SUBSET (0..(2 * WORD_SIZE - 1))  \* uint16_t

POLYNOMIAL == {7, 6, 4, 2, 0}      \* 0xD5, i.e. x^8 + x^7 + x^6 + x^4 + x^2 + 1

chg_nth_bit_Or(n, m) == m \cup {n}
chg_nth_bit(n, m) == SymDiff(m, {n})

\* m << 1 kept in 8 bits.
ShiftLeft_Wide(m) == {i + 1 : i \in m}
ShiftLeft(m) == {i + 1 : i \in m} \cap Bit

\* m << 8 in 16 bits, and back.
concat(m, crc) == {i + WORD_SIZE : i \in m} \cup crc
HighByte(w) == {i \in Bit : i + WORD_SIZE \in w}
LowByte(w)  == w \cap Bit

CrcStep_Or(s) ==
  [crc |-> IF 7 \in s.crc \cup s.m
           THEN SymDiff(ShiftLeft(s.crc), POLYNOMIAL)
           ELSE ShiftLeft(s.crc),
   m   |-> ShiftLeft(s.m)]

\* One iteration of the loop of crcGeneration on its two registers.
CrcStep(s) ==
  [crc |-> IF 7 \in SymDiff(s.crc, s.m)
           THEN SymDiff(ShiftLeft(s.crc), POLYNOMIAL)
           ELSE ShiftLeft(s.crc),
   m   |-> ShiftLeft(s.m)]

crcGeneration(m) ==
  LET loop[i \in 0..WORD_SIZE] ==
        IF i = 0 THEN [crc |-> {}, m |-> m] ELSE CrcStep(loop[i - 1])
  IN  loop[WORD_SIZE].crc

\* 0 is "no error"; otherwise the recomputed CRC is returned, not the syndrome.
crcVerif(w) ==
  LET new_crc == crcGeneration(HighByte(w))
  IN  IF new_crc = LowByte(w) THEN {} ELSE new_crc

\* The data bits whose flip makes crcVerif return 0, and the first one, or -1.
Suspects(w) == {i \in Bit : crcVerif(chg_nth_bit(i + WORD_SIZE, w)) = {}}

crc_error_amount_Last(w) == IF Suspects(w) = {} THEN -1 ELSE Max(Suspects(w))
crc_error_amount_SkipLast(w) ==
  IF Suspects(w) \ {7} = {} THEN -1 ELSE Min(Suspects(w) \ {7})
crc_error_amount(w) == IF Suspects(w) = {} THEN -1 ELSE Min(Suspects(w))

\* The return code and the two bytes written back through the pointers.
test_and_correct_crc(m, crc) ==
  LET message == concat(m, crc)
      error_index == crc_error_amount(message)
      fixed == chg_nth_bit(error_index + WORD_SIZE, message)
  IN  IF crcVerif(message) = {} THEN [ret |-> 0, m |-> m, crc |-> crc]
      ELSE IF error_index = -1  THEN [ret |-> -1, m |-> m, crc |-> crc]
      ELSE [ret |-> 0, m |-> HighByte(fixed), crc |-> LowByte(fixed)]

\* The noise: bit is rand() % 8.
bruiter(m, bit) == chg_nth_bit(bit, m) \cap Bit

\* hamming_distance: the least weight of a non-zero code word.
cardinal_bit(w) == Cardinality(w)
CodeWord(m) == concat(m, crcGeneration(m))
hamming_distance == Min({cardinal_bit(CodeWord(m)) : m \in Byte \ {{}}})
-----------------------------------------------------------------------------
(***************************************************************************)
(* The life of one byte: original is what the client sends; data and crc   *)
(* are the fields of the packet; at is the program that holds it; ret is   *)
(* what the server's test_and_correct_crc returned.                        *)
(***************************************************************************)
VARIABLES original, data, crc, at, ret
vars == <<original, data, crc, at, ret>>

\* client.c: the packet leaves with the CRC of its byte.
Init ==
  /\ original \in Byte
  /\ data = original
  /\ crc = crcGeneration(original)
  /\ at = "client"
  /\ ret = 0

\* proxy.c: the noise hits the data byte, never its CRC.
Noise ==
  /\ at = "client"
  /\ at' = "proxy"
  /\ \E bit \in Bit : data' = bruiter(data, bit)
  /\ UNCHANGED <<original, crc, ret>>

\* server.c: test_data_integrity writes the corrected bytes back.
Check ==
  /\ at = "proxy"
  /\ at' = "server"
  /\ LET t == test_and_correct_crc(data, crc)
     IN  /\ ret' = t.ret
         /\ data' = t.m
         /\ crc' = t.crc
  /\ UNCHANGED original

Next == Noise \/ Check
Spec == Init /\ [][Next]_vars
-----------------------------------------------------------------------------
\* The registers keep the width of their C types: shifts lose the bits a uint8_t
\* loses.
TypeOK ==
  /\ original \in Byte
  /\ data \in Byte
  /\ crc \in Byte
  /\ at \in {"client", "proxy", "server"}
  /\ ret \in {0, -1}

\* Between two programs the byte differs from the one sent by what the noise has
\* flipped, the checksum never; no check has failed.
CodeInv ==
  /\ TypeOK
  /\ crc = crcGeneration(original)
  /\ at = "client" => data = original
  /\ at = "proxy"  => \E b \in Bit : data = bruiter(original, b)
  /\ at = "server" => data \in {original, {}}
  /\ ret = 0

\* After the server's check the byte is the one the client sent, or it was
\* erased to 0: correction never turns a character into another visible one
\* (test_and_correct_crc over bruiter's noise).
CorrectedOrErased == at = "server" => data \in {original, {}}

\* The erased bytes are exactly those with one bit set, when that bit is hit,
\* and those with two bits set, when the higher one is hit: what the loop order
\* of crc_error_amount and the 0 returned by crcVerif for a zero byte amount to.
ErasedBytes ==
  at = "proxy" =>
    LET hit == Max(SymDiff(data, original))
        sent == test_and_correct_crc(data, crc).m
    IN  sent # original <=>
          \/ original = {hit}
          \/ Cardinality(original) = 2 /\ hit = Max(original)

\* One flipped data bit never makes the server give up: with the noise of the
\* proxy, test_data_integrity never turns a packet into DT_NAK.
NeverGivesUp == ret = 0

CodeWords == {CodeWord(m) : m \in Byte}

\* hamming_distance, computed from the weights of the code words alone, is the
\* least number of bits in which two code words differ: no two packets a client
\* sends are closer than what the function announces.
DistanceIsMinimal ==
  at = "client" =>
    LET distance == hamming_distance
    IN  \A w \in CodeWords \ {concat(data, crc)} :
          Cardinality(SymDiff(w, concat(data, crc))) >= distance
=============================================================================
