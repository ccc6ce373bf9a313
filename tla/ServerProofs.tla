---------------------------- MODULE ServerProofs ----------------------------
(***************************************************************************)
(* Spec => []TypeOK and Spec => []OneAnswerEach, from the inductive        *)
(* invariant of ServerInvariant.                                           *)
(***************************************************************************)
EXTENDS ServerInvariant, FiniteSetTheorems, TLAPS

LEMMA BufferTypes ==
  /\ Zero \in Buffer
  /\ \A b \in Buffer : [b EXCEPT !.type = "NAK"] \in Buffer /\ [b EXCEPT !.type = "ACK"] \in Buffer
  /\ {"fin", "rst", "dead", "none", "open"} \subseteq LinkState
BY ConstantsOK, SMT DEF Zero, Buffer, Data_type, NoPacket, Garbage, LinkState

\* The exchanges sent, when the first n packets are exchanges.
LEMMA ExchangesBound ==
  ASSUME NEW s \in Seq({"CEX", "EOJ"}), NEW n \in 0..Len(s),
         \A k \in 1..n : s[k] = "CEX"
  PROVE  n <= Cardinality({k \in 1..Len(s) : s[k] = "CEX"})
<1>1. IsFiniteSet(1..Len(s)) /\ IsFiniteSet({k \in 1..Len(s) : s[k] = "CEX"})
  <2>1. IsFiniteSet(1..Len(s))
    BY FS_Interval
  <2>2. {k \in 1..Len(s) : s[k] = "CEX"} \in SUBSET (1..Len(s))
    OBVIOUS
  <2> QED BY <2>1, <2>2, FS_Subset
<1>2. 1..n \subseteq {k \in 1..Len(s) : s[k] = "CEX"}
  BY SMT
<1>3. Cardinality(1..n) = n
  BY FS_Interval, SMT
<1> QED BY <1>1, <1>2, <1>3, FS_Subset

LEMMA ExchangesType ==
  ASSUME NEW s \in Seq({"CEX", "EOJ"})
  PROVE  /\ Cardinality({k \in 1..Len(s) : s[k] = "CEX"}) \in Nat
         /\ Cardinality({k \in 1..Len(s) : s[k] = "CEX"}) <= Len(s)
<1>1. Len(s) \in Nat
  OBVIOUS
<1>2. IsFiniteSet(1..Len(s)) /\ Cardinality(1..Len(s)) = Len(s)
  BY <1>1, FS_Interval, SMT
<1>3. {k \in 1..Len(s) : s[k] = "CEX"} \in SUBSET (1..Len(s))
  OBVIOUS
<1> QED BY <1>2, <1>3, FS_Subset, FS_CardinalityType

LEMMA ExchangesNat == TypeOK => Exchanges \in Nat /\ Exchanges <= Len(sent)
BY ExchangesType DEF TypeOK, Exchanges

LEMMA ExchangesNatNext == TypeOK' => Exchanges' \in Nat /\ Exchanges' <= Len(sent')
BY ExchangesType DEF TypeOK, Exchanges

\* What SubSeq leaves of a sequence.
LEMMA Rest ==
  ASSUME NEW S, NEW s \in Seq(S), NEW n \in 1..Len(s)
  PROVE  /\ SubSeq(s, n + 1, Len(s)) \in Seq(S)
         /\ Len(SubSeq(s, n + 1, Len(s))) = Len(s) - n
         /\ \A j \in 1..(Len(s) - n) : SubSeq(s, n + 1, Len(s))[j] = s[n + j]
         /\ SubSeq(s, n + 1, Len(s)) = <<>> <=> Len(s) = n
<1> DEFINE t == SubSeq(s, n + 1, Len(s))
<1>1. t \in Seq(S) /\ Len(t) = Len(s) - n
  OBVIOUS
<1>2. \A j \in 1..(Len(s) - n) : t[j] = s[n + j]
  OBVIOUS
<1>3. t = <<>> <=> Len(t) = 0
  <2> HIDE DEF t
  <2> QED BY <1>1
<1>4. Len(s) - n = 0 <=> Len(s) = n
  OBVIOUS
<1> QED BY <1>1, <1>2, <1>3, <1>4

\* The cell after the last of a packet, and its number.
LEMMA PairNext ==
  ASSUME in[1][1] \in Int, in'[1] = <<in[1][1] + 1, 1>>
  PROVE  in'[1][1] = in[1][1] + 1 /\ in'[1][2] = 1
OBVIOUS

LEMMA CountNext ==
  ASSUME in[1][1] \in Int, in'[1][1] = in[1][1] + 1
  PROVE  in'[1][1] - 1 = in[1][1] /\ in[1][1] - 1 + 1 = in[1][1]
OBVIOUS

LEMMA NextPacket ==
  ASSUME NEW a \in Int, NEW c, c = <<a, PSIZE>>, PSIZE \in Nat
  PROVE  Following(c) = <<a + 1, 1>>
BY DEF Following

LEMMA InitInv == Init => ServerInv
<1> SUFFICES ASSUME Init PROVE ServerInv
  OBVIOUS
<1>1. TypeOK
  <2>1. /\ status \in {"running", "ended", "failed", "sigpipe", "segv"}
        /\ pc \in {"listen", "accept", "recv", "send", "ack"}
        /\ continue_job \in BOOLEAN /\ reset \in BOOLEAN /\ torn \in BOOLEAN
    BY DEF Init
  <2>2. buffer \in Buffer /\ link \in LinkState
    BY BufferTypes DEF Init
  <2>3. in = <<>> /\ out = <<>> /\ sent = <<>> /\ 0 <= MaxPackets
    BY ConstantsOK DEF Init
  <2> QED BY <2>1, <2>2, <2>3 DEF TypeOK
<1>2. Exchanges \in Nat
  BY <1>1, ExchangesNat
<1> QED BY <1>1, <1>2 DEF Init, ServerInv, StartInv, StreamInv, AnswerInv, Received

LEMMA ListenStep == ServerInv /\ Listen => ServerInv'
<1> SUFFICES ASSUME ServerInv, Listen PROVE ServerInv'
  OBVIOUS
<1>1. UNCHANGED <<continue_job, buffer, link, in, reset, out, sent, torn>>
      /\ pc \in {"listen"} /\ pc' \in {"listen", "accept"}
      /\ status' \in {"running", "failed"}
  BY DEF Listen
<1>2. TypeOK' /\ StartInv' /\ StreamInv'
  BY <1>1 DEF ServerInv, TypeOK, StartInv, StreamInv, Following
<1>3. AnswerInv'
  BY <1>1 DEF ServerInv, AnswerInv, StartInv, Received, Exchanges
<1> QED BY <1>2, <1>3 DEF ServerInv

LEMMA AcceptStep == ServerInv /\ Accept => ServerInv'
<1> SUFFICES ASSUME ServerInv, Accept PROVE ServerInv'
  OBVIOUS
<1>1. TypeOK' /\ StartInv' /\ StreamInv'
  BY DEF Accept, ServerInv, TypeOK, StartInv, StreamInv, Following, LinkState
<1>2. in' = <<>> /\ sent' = <<>> /\ out' = <<>> /\ pc' = "recv"
  BY DEF Accept, ServerInv, StartInv
<1>3. Exchanges' \in Nat
  BY <1>1, ExchangesNatNext
<1>4. Received' = 0 /\ Len(out') = 0
  BY <1>2 DEF Received
<1>5. AnswerInv'
  <2>1. \A k \in 1..0 : FALSE
    OBVIOUS
  <2>2. Len(out') <= 2 * Exchanges' /\ Len(out') = 2 * Received'
    BY <1>2, <1>3 DEF Exchanges, Received
  <2> QED BY <1>2, <1>4, <2>1, <2>2 DEF AnswerInv
<1> QED BY <1>1, <1>5 DEF ServerInv
-----------------------------------------------------------------------------
(* recv.                                                                   *)

\* A recv that returns a whole packet returns the next one, and what is left starts
\* with another.
LEMMA WholeReading ==
  ASSUME ServerInv, in # <<>>,
         NEW n \in 1..(IF Len(in) < PSIZE THEN Len(in) ELSE PSIZE),
         Whole(SubSeq(in, 1, n)), in' = SubSeq(in, n + 1, Len(in)), sent' = sent
  PROVE  /\ n = PSIZE /\ in[1][1] \in 1..Len(sent)
         /\ Received' = in[1][1] /\ Received' = Received + 1
         /\ in' # <<>> => in'[1][2] = 1
<1>1. in \in Seq((1..MaxPackets) \X (1..PSIZE)) /\ Len(in) \in Nat \ {0} /\ PSIZE \in Nat \ {0, 1}
      /\ Len(sent) \in Nat
  BY ConstantsOK DEF ServerInv, TypeOK
<1>2. SubSeq(in, 1, n) = Cells(in[1][1]) /\ Len(SubSeq(in, 1, n)) = n
  BY <1>1 DEF Whole
<1>3. Len(Cells(in[1][1])) = PSIZE /\ \A k \in 1..PSIZE : Cells(in[1][1])[k] = <<in[1][1], k>>
  BY <1>1 DEF Cells
<1>4. n = PSIZE
  BY <1>2, <1>3
<1>5. in[PSIZE] = <<in[1][1], PSIZE>>
  BY <1>1, <1>2, <1>3, <1>4
<1>6. in[1] \in (1..Len(sent)) \X (1..PSIZE)
  BY <1>1 DEF ServerInv, StreamInv
<1>7. CASE Len(in) = PSIZE
  <2>1. in' = <<>>
    BY <1>1, <1>4, <1>7
  <2>2. in[Len(in)] = <<Len(sent), PSIZE>>
    BY DEF ServerInv, StreamInv
  <2> QED BY <1>1, <1>4, <1>5, <1>6, <1>7, <2>1, <2>2 DEF Received
<1>8. CASE Len(in) > PSIZE
  <2>1. in' # <<>> /\ in'[1] = in[PSIZE + 1]
    <3>1. n \in 1..Len(in) /\ Len(in) # n /\ 1 \in 1..(Len(in) - n)
      BY <1>1, <1>4, <1>8
    <3>2. /\ \A j \in 1..(Len(in) - n) : in'[j] = in[n + j]
          /\ in' = <<>> <=> Len(in) = n
      <4>1. in \in Seq((1..MaxPackets) \X (1..PSIZE))
        BY <1>1
      <4> QED BY <3>1, <4>1, Rest, Zenon
    <3>3. in'[1] = in[n + 1] /\ in' # <<>>
      BY <3>1, <3>2
    <3> QED BY <1>4, <3>3, Zenon
  <2>2. in[PSIZE + 1] = Following(in[PSIZE])
    BY <1>1, <1>8 DEF ServerInv, StreamInv
  <2>3. in'[1] = <<in[1][1] + 1, 1>>
    <3>1. in[1][1] \in Int /\ PSIZE \in Nat
      BY <1>1, <1>6
    <3>2. Following(in[PSIZE]) = <<in[1][1] + 1, 1>>
      BY <1>5, <3>1, NextPacket, Zenon
    <3> QED BY <2>1, <2>2, <3>2, Zenon
  <2>4. in'[1][1] = in[1][1] + 1 /\ in'[1][2] = 1
    <3>1. in[1][1] \in Int
      BY <1>6
    <3> QED BY <2>3, <3>1, PairNext, Zenon
  <2>5. in[1][1] \in Int
    BY <1>6
  <2>6. Received' = in'[1][1] - 1 /\ Received = in[1][1] - 1
    BY <2>1, Zenon DEF Received
  <2>7. in[1][1] \in 1..Len(sent)
    BY <1>6
  <2>8. in'[1][1] - 1 = in[1][1] /\ in[1][1] - 1 + 1 = in[1][1]
    BY <2>4, <2>5, CountNext, Zenon
  <2> QED BY <1>4, <2>4, <2>6, <2>7, <2>8, Zenon
<1>9. Len(in) >= PSIZE
  BY <1>1, <1>4
<1> QED BY <1>1, <1>7, <1>8, <1>9

\* What is left is still the end of the stream.
LEMMA RestOfStream ==
  ASSUME ServerInv, in # <<>>,
         NEW n \in 1..(IF Len(in) < PSIZE THEN Len(in) ELSE PSIZE),
         in' = SubSeq(in, n + 1, Len(in)), sent' = sent,
         ~torn' /\ in' # <<>> => in'[1][2] = 1
  PROVE  StreamInv' /\ in' \in Seq((1..MaxPackets) \X (1..PSIZE))
<1>1. in \in Seq((1..MaxPackets) \X (1..PSIZE)) /\ Len(in) \in Nat \ {0} /\ n \in 1..Len(in)
  BY ConstantsOK DEF ServerInv, TypeOK
<1>2. in' \in Seq((1..MaxPackets) \X (1..PSIZE)) /\ Len(in') = Len(in) - n
      /\ \A j \in 1..(Len(in) - n) : in'[j] = in[n + j]
  BY <1>1, Rest
<1>3. ASSUME NEW j \in 1..Len(in') PROVE in'[j] \in (1..Len(sent)) \X (1..PSIZE)
  <2>1. n + j \in 1..Len(in) /\ in'[j] = in[n + j]
    BY <1>1, <1>2
  <2> QED BY <2>1 DEF ServerInv, StreamInv
<1>4. ASSUME NEW j \in 1..(Len(in') - 1) PROVE in'[j + 1] = Following(in'[j])
  <2>1. in[n + j + 1] = Following(in[n + j])
    BY <1>1, <1>2 DEF ServerInv, StreamInv
  <2> QED BY <1>1, <1>2, <2>1
<1>5. in' # <<>> => in'[Len(in')] = <<Len(sent), PSIZE>>
  <2>1. in[Len(in)] = <<Len(sent), PSIZE>>
    BY DEF ServerInv, StreamInv
  <2>2. ASSUME in' # <<>> PROVE in'[Len(in')] = in[Len(in)]
    <3>1. Len(in') \in 1..(Len(in) - n) /\ n + Len(in') = Len(in)
      BY <1>1, <1>2, <2>2
    <3> QED BY <1>2, <3>1
  <2> QED BY <2>1, <2>2
<1> QED BY <1>2, <1>3, <1>4, <1>5 DEF ServerInv, StreamInv, Following

\* What recv may store fits the buffer.
LEMMA ReadingTypes ==
  ASSUME ServerInv, in # <<>>,
         NEW n \in 1..(IF Len(in) < PSIZE THEN Len(in) ELSE PSIZE),
         NEW b \in Readings(SubSeq(in, 1, n))
  PROVE  b \in Buffer /\ Checked(b) \subseteq Buffer
<1> DEFINE cells == SubSeq(in, 1, n)
<1>1. in \in Seq((1..MaxPackets) \X (1..PSIZE)) /\ Len(in) \in Nat \ {0} /\ n \in 1..Len(in)
      /\ sent \in Seq({"CEX", "EOJ"}) /\ Len(sent) <= MaxPackets /\ MaxPackets \in Nat
  BY ConstantsOK DEF ServerInv, TypeOK
<1>2. cells[1] = in[1]
  BY <1>1
<1>3. in[1] \in (1..Len(sent)) \X (1..PSIZE)
  BY <1>1 DEF ServerInv, StreamInv
<1>4. cells[1][1] \in 1..Len(sent)
  BY <1>2, <1>3
<1>5. sent[cells[1][1]] \in {"CEX", "EOJ"} /\ cells[1][1] \in 0..MaxPackets /\ 0 \in 0..MaxPackets
  BY <1>1, <1>4
<1>6. b \in Buffer
  <2>1. CASE Whole(cells)
    BY <1>5, <2>1 DEF Readings, Buffer, Data_type
  <2>2. CASE ~Whole(cells) /\ cells[1][2] = 1
    BY <1>5, <2>2 DEF Readings, Buffer, Data_type, NoPacket
  <2>3. CASE ~Whole(cells) /\ cells[1][2] # 1
    BY <1>5, <2>3 DEF Readings, Buffer, Data_type, NoPacket, Garbage
  <2> QED BY <2>1, <2>2, <2>3
<1> QED BY <1>6, BufferTypes DEF Checked

LEMMA RecvStep == ServerInv /\ Recv => ServerInv'
<1> SUFFICES ASSUME ServerInv, Recv PROVE ServerInv'
  OBVIOUS
<1>1. in # <<>> /\ status = "running" /\ pc = "recv" /\ UNCHANGED <<link, reset, out, sent>>
  BY DEF Recv
<1>2. PICK n \in 1..(IF Len(in) < PSIZE THEN Len(in) ELSE PSIZE) :
        /\ in' = SubSeq(in, n + 1, Len(in))
        /\ torn' = (torn \/ ~Whole(SubSeq(in, 1, n)))
        /\ \E b \in Readings(SubSeq(in, 1, n)) : ServerRead(b)
  BY DEF Recv
<1>3. PICK b \in Readings(SubSeq(in, 1, n)) : ServerRead(b)
  BY <1>2
<1>4. b \in Buffer /\ Checked(b) \subseteq Buffer
  BY <1>1, <1>3, ReadingTypes
<1>5. ~torn' => /\ n = PSIZE /\ in[1][1] \in 1..Len(sent) /\ Whole(SubSeq(in, 1, n))
                /\ Received' = in[1][1] /\ Received' = Received + 1
                /\ (in' # <<>> => in'[1][2] = 1)
  BY <1>1, <1>2, WholeReading
<1>6. StreamInv' /\ in' \in Seq((1..MaxPackets) \X (1..PSIZE))
  BY <1>1, <1>2, <1>5, RestOfStream
<1>7. TypeOK'
  <2>1. status' \in {"running", "segv"} /\ pc' \in {"recv", "send"} /\ continue_job' \in BOOLEAN
        /\ buffer' \in Buffer
    BY <1>1, <1>3, <1>4 DEF ServerRead, ServerInv, TypeOK
  <2>2. torn' \in BOOLEAN
    BY <1>2 DEF ServerInv, TypeOK
  <2> QED BY <1>1, <1>6, <2>1, <2>2 DEF ServerInv, TypeOK
<1>8. StartInv'
  BY <1>1, <1>3 DEF ServerRead, StartInv
<1>9. AnswerInv'
  <2> SUFFICES ASSUME ~torn' PROVE AnswerInv'
    BY DEF AnswerInv
  <2>1. ~torn
    BY <1>2 DEF ServerInv, TypeOK
  <2>2. b = [type |-> sent[in[1][1]], of |-> in[1][1]]
    <3>1. SubSeq(in, 1, n)[1] = in[1]
      BY <1>1, ConstantsOK DEF ServerInv, TypeOK
    <3> QED BY <1>3, <1>5, <3>1 DEF Readings
  <2>3. in[1][1] \in 1..Len(sent) /\ sent \in Seq({"CEX", "EOJ"}) /\ Len(sent) \in Nat
    BY <1>5 DEF ServerInv, TypeOK
  <2>4. b.type \in {"CEX", "EOJ"} /\ b.of # NoPacket /\ b.type # Garbage
    BY <2>2, <2>3 DEF NoPacket, Garbage
  <2>5. buffer' = b /\ pc' = "send" /\ continue_job' = (continue_job /\ b.type # "EOJ")
    BY <1>3, <2>4 DEF ServerRead, Checked
  <2>6. Exchanges' = Exchanges
    BY <1>1 DEF Exchanges
  <2>7. ASSUME link = "open"
        PROVE  /\ Len(out) = 2 * Received
               /\ \A k \in 1..Received : sent[k] = "CEX"
    BY <1>1, <2>1, <2>7 DEF ServerInv, AnswerInv
  <2>8. Received' \in Nat \ {0} /\ Received = Received' - 1
    BY <1>5, <2>3, ConstantsOK DEF ServerInv, TypeOK, Received
  <2>9. link' = "open" => \A k \in 1..Received' : sent'[k] = "CEX" \/ ~continue_job'
    <3> SUFFICES ASSUME link = "open", continue_job', NEW k \in 1..Received' PROVE sent[k] = "CEX"
      BY <1>1
    <3>1. sent[in[1][1]] = "CEX"
      <4>1. sent[in[1][1]] \in {"CEX", "EOJ"} /\ b.type = sent[in[1][1]]
        BY <2>2, <2>3
      <4>2. b.type # "EOJ"
        BY <2>5
      <4> QED BY <4>1, <4>2
    <3>2. \A j \in 1..Received : sent[j] = "CEX"
      BY <2>7
    <3> QED BY <1>5, <2>8, <3>1, <3>2 DEF Received
  <2>10. continue_job' => buffer' = [type |-> "CEX", of |-> Received']
    <3>1. sent[in[1][1]] \in {"CEX", "EOJ"} /\ b.type = sent[in[1][1]]
      BY <2>2, <2>3
    <3> QED BY <1>2, <1>5, <2>2, <2>5, <3>1
  <2>11. link' = "open" => Len(out') = 2 * Received' - 2
    BY <1>1, <2>7, <2>8 DEF Received
  <2>12. /\ Len(out') <= 2 * Exchanges'
         /\ \A k \in 1..Len(out') :
              out'[k] = [type |-> IF k % 2 = 1 THEN "CEX" ELSE "ACK", of |-> (k + 1) \div 2]
    BY <1>1, <2>1, <2>6 DEF ServerInv, AnswerInv
  <2>13. Received' > 0
    <3>1. in[1][1] > 0
      BY <2>3
    <3> QED BY <1>5, <3>1, Zenon
  <2> QED BY <2>5, <2>9, <2>10, <2>11, <2>12, <2>13 DEF AnswerInv
<1> QED BY <1>6, <1>7, <1>8, <1>9 DEF ServerInv

LEMMA RecvEndStep == ServerInv /\ RecvEnd => ServerInv'
<1> SUFFICES ASSUME ServerInv, RecvEnd PROVE ServerInv'
  OBVIOUS
<1>1. UNCHANGED <<link, in, reset, out, sent, torn>> /\ link # "open"
      /\ buffer' \in Checked(Zero) \cup {buffer} /\ continue_job' \in BOOLEAN
      /\ pc = "recv" /\ pc' \in {"recv", "send"} /\ status' \in {"running", "segv"}
  BY DEF RecvEnd, ServerRead, EndOfStream, ServerInv, TypeOK
<1>2. buffer' \in Buffer
  BY <1>1, BufferTypes DEF Checked, ServerInv, TypeOK
<1>3. TypeOK' /\ StartInv' /\ StreamInv'
  BY <1>1, <1>2 DEF ServerInv, TypeOK, StartInv, StreamInv, Following
<1>4. AnswerInv'
  BY <1>1 DEF ServerInv, AnswerInv, Exchanges
<1> QED BY <1>3, <1>4 DEF ServerInv

LEMMA RecvErrorStep == ServerInv /\ RecvError => ServerInv'
<1> SUFFICES ASSUME ServerInv, RecvError PROVE ServerInv'
  OBVIOUS
<1>1. TypeOK' /\ StartInv' /\ StreamInv'
  BY DEF RecvError, ServerInv, TypeOK, StartInv, StreamInv, Following
<1>2. AnswerInv'
  BY DEF RecvError, ServerInv, AnswerInv, Exchanges, Received
<1> QED BY <1>1, <1>2 DEF ServerInv
-----------------------------------------------------------------------------
(* The answers.                                                            *)

LEMMA SendType ==
  ASSUME ServerInv, NEW b \in Buffer, Send(b)
  PROVE  /\ status' \in {"running", "failed", "ended", "sigpipe", "segv"}
         /\ link' \in LinkState /\ reset' \in BOOLEAN /\ out' \in Seq(Buffer)
         /\ link' = "open" => link = "open"
         /\ out' = out \/ (link = "open" /\ ~torn /\ out' = Append(out, b))
         /\ link = "open" /\ ~torn => out' = Append(out, b) /\ link' = "open"
<1>1. status = "running" \/ status \in {"running", "failed", "ended", "sigpipe", "segv"}
  BY DEF ServerInv, TypeOK
<1>2. out \in Seq(Buffer) /\ link \in LinkState /\ reset \in BOOLEAN /\ torn \in BOOLEAN
  BY DEF ServerInv, TypeOK
<1>3. CASE link = "dead"
  BY <1>1, <1>2, <1>3 DEF Send
<1>4. CASE link # "dead"
  <2>1. link' = (IF link = "rst" THEN "dead" ELSE link) /\ reset' = (reset \/ link = "fin")
        /\ out' = (IF link = "open" /\ ~torn THEN Append(out, b) ELSE out) /\ status' = status
    BY <1>4 DEF Send
  <2>2. out' \in Seq(Buffer)
    BY <1>2, <2>1
  <2> QED BY <1>1, <1>2, <2>1, <2>2, BufferTypes
<1> QED BY <1>3, <1>4

\* An answer in its turn keeps the answers in order and no more than two for each
\* exchange.
LEMMA AnswerAdded ==
  ASSUME ServerInv, ~torn, link = "open", sent' = sent,
         NEW b \in Buffer, NEW n \in Nat, n = Len(out) + 1,
         b = [type |-> IF n % 2 = 1 THEN "CEX" ELSE "ACK", of |-> (n + 1) \div 2],
         n <= 2 * Received, Received \in 0..Len(sent),
         \A k \in 1..Received : sent[k] = "CEX",
         out' = Append(out, b)
  PROVE  /\ Len(out') = n /\ n <= 2 * Exchanges'
         /\ \A k \in 1..Len(out') :
              out'[k] = [type |-> IF k % 2 = 1 THEN "CEX" ELSE "ACK", of |-> (k + 1) \div 2]
<1>1. out \in Seq(Buffer) /\ sent \in Seq({"CEX", "EOJ"})
  BY DEF ServerInv, TypeOK
<1>2. Received <= Exchanges /\ Exchanges' = Exchanges /\ Exchanges \in Nat
  BY <1>1, ExchangesBound, ExchangesNat DEF Exchanges, ServerInv
<1>3. Len(out') = n /\ out'[n] = b /\ \A k \in 1..(n - 1) : out'[k] = out[k]
  BY <1>1
<1>4. \A k \in 1..(n - 1) :
        out[k] = [type |-> IF k % 2 = 1 THEN "CEX" ELSE "ACK", of |-> (k + 1) \div 2]
  <2>1. 1..(n - 1) = 1..Len(out)
    BY <1>1
  <2> QED BY <2>1 DEF ServerInv, AnswerInv
<1>5. n <= 2 * Exchanges'
  BY <1>2
<1>6. ASSUME NEW k \in 1..n
      PROVE  out'[k] = [type |-> IF k % 2 = 1 THEN "CEX" ELSE "ACK", of |-> (k + 1) \div 2]
  <2>1. CASE k = n
    BY <1>3, <2>1
  <2>2. CASE k # n
    <3>1. k \in 1..(n - 1)
      BY <2>2
    <3> QED BY <1>3, <1>4, <3>1
  <2> QED BY <2>1, <2>2
<1> QED BY <1>3, <1>5, <1>6

LEMMA ReceivedBound == ServerInv => Received \in 0..Len(sent)
<1> SUFFICES ASSUME ServerInv PROVE Received \in 0..Len(sent)
  OBVIOUS
<1>1. Len(sent) \in Nat /\ Len(in) \in Nat /\ (in # <<>> => 1 \in 1..Len(in))
  BY DEF ServerInv, TypeOK
<1>2. in # <<>> => in[1] \in (1..Len(sent)) \X (1..PSIZE)
  BY <1>1 DEF ServerInv, StreamInv
<1>3. in # <<>> => in[1][1] \in 1..Len(sent)
  BY <1>2
<1> QED BY <1>1, <1>3 DEF Received

LEMMA ServerSendStep == ServerInv /\ ServerSend => ServerInv'
<1> SUFFICES ASSUME ServerInv, ServerSend PROVE ServerInv'
  OBVIOUS
<1>1. status = "running" /\ pc = "send" /\ continue_job /\ Send(buffer) /\ buffer \in Buffer
      /\ pc' = (IF buffer.type \in {"CEX", "FEX"} THEN "ack" ELSE "recv")
      /\ UNCHANGED <<continue_job, buffer, in, sent, torn>>
  BY DEF ServerSend, ServerInv, TypeOK
<1>2. TypeOK' /\ StartInv' /\ StreamInv'
  BY <1>1, SendType DEF ServerInv, TypeOK, StartInv, StreamInv, Following
<1>3. Received' = Received /\ Exchanges' = Exchanges
  BY <1>1 DEF Received, Exchanges
<1>4. AnswerInv'
  <2> SUFFICES ASSUME ~torn PROVE AnswerInv'
    BY <1>1 DEF AnswerInv
  <2>1. CASE link = "open"
    <3>1. Received > 0 /\ buffer = [type |-> "CEX", of |-> Received] /\ Len(out) = 2 * Received - 2
          /\ \A k \in 1..Received : sent[k] = "CEX"
      BY <1>1, <2>1 DEF ServerInv, AnswerInv
    <3>2. out' = Append(out, buffer) /\ link' = "open" /\ pc' = "ack"
      BY <1>1, <2>1, <3>1, SendType
    <3> DEFINE n == 2 * Received - 1
    <3>3. Received \in 0..Len(sent) /\ Received \in Nat \ {0}
      BY <3>1, ReceivedBound DEF ServerInv, TypeOK
    <3>4. n \in Nat /\ n = Len(out) + 1 /\ n % 2 = 1 /\ (n + 1) \div 2 = Received /\ n <= 2 * Received
      BY <3>1, <3>3
    <3>5. buffer = [type |-> IF n % 2 = 1 THEN "CEX" ELSE "ACK", of |-> (n + 1) \div 2]
      BY <3>1, <3>4
    <3> HIDE DEF n
    <3>6. /\ Len(out') = n /\ n <= 2 * Exchanges'
          /\ \A k \in 1..Len(out') :
               out'[k] = [type |-> IF k % 2 = 1 THEN "CEX" ELSE "ACK", of |-> (k + 1) \div 2]
      BY <1>1, <2>1, <3>1, <3>2, <3>3, <3>4, <3>5, AnswerAdded
    <3>7. Len(out') = 2 * Received' - 1 /\ Received' > 0
      BY <1>3, <3>1, <3>6 DEF n
    <3> QED BY <1>1, <1>3, <3>1, <3>2, <3>6, <3>7 DEF AnswerInv
  <2>2. CASE link # "open"
    BY <1>1, <1>3, <2>2, SendType DEF ServerInv, AnswerInv
  <2> QED BY <2>1, <2>2
<1> QED BY <1>2, <1>4 DEF ServerInv

LEMMA ServerAckStep == ServerInv /\ ServerAck => ServerInv'
<1> SUFFICES ASSUME ServerInv, ServerAck PROVE ServerInv'
  OBVIOUS
<1> DEFINE b == [buffer EXCEPT !.type = "ACK"]
<1>1. status = "running" /\ pc = "ack" /\ Send(b) /\ pc' = "recv" /\ buffer' = b
      /\ UNCHANGED <<continue_job, in, sent, torn>>
  BY DEF ServerAck
<1>2. b \in Buffer
  BY BufferTypes DEF ServerInv, TypeOK
<1>3. Received' = Received /\ Exchanges' = Exchanges
  BY <1>1 DEF Received, Exchanges
<1>4. TypeOK' /\ StartInv' /\ StreamInv'
  <2> HIDE DEF b
  <2> QED BY <1>1, <1>2, SendType DEF ServerInv, TypeOK, StartInv, StreamInv, Following
<1>5. AnswerInv'
  <2> SUFFICES ASSUME ~torn PROVE AnswerInv'
    BY <1>1 DEF AnswerInv
  <2>1. CASE link = "open"
    <3>1. Received > 0 /\ buffer = [type |-> "CEX", of |-> Received] /\ Len(out) = 2 * Received - 1
          /\ \A k \in 1..Received : sent[k] = "CEX"
      BY <1>1, <2>1 DEF ServerInv, AnswerInv
    <3>2. b = [type |-> "ACK", of |-> Received]
      BY <3>1
    <3> HIDE DEF b
    <3>3. out' = Append(out, b) /\ link' = "open"
      BY <1>1, <1>2, <2>1, SendType
    <3> DEFINE n == 2 * Received
    <3>4. Received \in 0..Len(sent) /\ Received \in Nat \ {0}
      BY <3>1, ReceivedBound DEF ServerInv, TypeOK
    <3>5. n \in Nat /\ n = Len(out) + 1 /\ n % 2 # 1 /\ (n + 1) \div 2 = Received /\ n <= 2 * Received
      BY <3>1, <3>4
    <3>6. b = [type |-> IF n % 2 = 1 THEN "CEX" ELSE "ACK", of |-> (n + 1) \div 2]
      BY <3>2, <3>5
    <3> HIDE DEF n
    <3>7. /\ Len(out') = n /\ n <= 2 * Exchanges'
          /\ \A k \in 1..Len(out') :
               out'[k] = [type |-> IF k % 2 = 1 THEN "CEX" ELSE "ACK", of |-> (k + 1) \div 2]
      BY <1>1, <1>2, <2>1, <3>1, <3>3, <3>4, <3>5, <3>6, AnswerAdded
    <3>8. Len(out') = 2 * Received'
      BY <1>3, <3>7 DEF n
    <3> QED BY <1>1, <1>3, <3>1, <3>3, <3>7, <3>8 DEF AnswerInv
  <2>2. CASE link # "open"
    <3> HIDE DEF b
    <3> QED BY <1>1, <1>2, <1>3, <2>2, SendType DEF ServerInv, AnswerInv
  <2> QED BY <2>1, <2>2
<1> QED BY <1>4, <1>5 DEF ServerInv

LEMMA EndStep == ServerInv /\ End => ServerInv'
<1> SUFFICES ASSUME ServerInv, End PROVE ServerInv'
  OBVIOUS
<1>1. TypeOK' /\ StartInv' /\ StreamInv'
  BY DEF End, ServerInv, TypeOK, StartInv, StreamInv, Following, LinkState
<1>2. AnswerInv'
  BY DEF End, ServerInv, AnswerInv, Exchanges
<1> QED BY <1>1, <1>2 DEF ServerInv
-----------------------------------------------------------------------------
(* The environment.                                                        *)

LEMMA ProxySendsStep == ServerInv /\ ProxySends => ServerInv'
<1> SUFFICES ASSUME ServerInv, ProxySends PROVE ServerInv'
  OBVIOUS
<1>1. link = "open" /\ Len(sent) < MaxPackets /\ \A k \in 1..Len(sent) : sent[k] # "EOJ"
  BY DEF ProxySends
<1>2. PICK t \in {"CEX", "EOJ"} : sent' = Append(sent, t)
  BY DEF ProxySends
<1>3. in' = in \o Cells(Len(sent) + 1)
      /\ UNCHANGED <<status, pc, continue_job, buffer, link, reset, out, torn>>
  BY DEF ProxySends
<1> DEFINE m == Len(sent) + 1
           new == Cells(m)
<1>4. sent \in Seq({"CEX", "EOJ"}) /\ Len(sent) \in Nat /\ MaxPackets \in Nat
      /\ PSIZE \in Nat \ {0, 1} /\ in \in Seq((1..MaxPackets) \X (1..PSIZE)) /\ Len(in) \in Nat
  BY ConstantsOK DEF ServerInv, TypeOK
<1>5. Len(sent') = m /\ sent' \in Seq({"CEX", "EOJ"}) /\ m \in 1..MaxPackets
      /\ \A k \in 1..Len(sent) : sent'[k] = sent[k] /\ sent[k] = "CEX"
  BY <1>1, <1>2, <1>4
<1>6. new \in Seq((1..MaxPackets) \X (1..PSIZE)) /\ Len(new) = PSIZE
      /\ \A k \in 1..PSIZE : new[k] = <<m, k>>
  BY <1>4, <1>5 DEF Cells
<1> HIDE DEF new, m
<1>7. in' \in Seq((1..MaxPackets) \X (1..PSIZE)) /\ in' # <<>>
      /\ Len(in') \in Nat /\ Len(in') = Len(in) + PSIZE
      /\ (\A j \in 1..Len(in) : in'[j] = in[j])
      /\ \A k \in 1..PSIZE : in'[Len(in) + k] = <<m, k>>
  <2>1. in' = in \o new
    BY <1>3 DEF new, m
  <2>2. Len(in \o new) = Len(in) + PSIZE
        /\ in \o new \in Seq((1..MaxPackets) \X (1..PSIZE)) /\ Len(in) + PSIZE \in Nat
    BY <1>4, <1>6
  <2>3. \A j \in 1..Len(in) : (in \o new)[j] = in[j]
    BY <1>4, <1>6
  <2>4. \A k \in 1..PSIZE : (in \o new)[Len(in) + k] = new[k]
    BY <1>4, <1>6
  <2>5. in \o new # <<>>
    BY <1>4, <2>2
  <2> QED BY <1>6, <2>1, <2>2, <2>3, <2>4, <2>5
<1>8. TypeOK'
  BY <1>3, <1>5, <1>7 DEF ServerInv, TypeOK
<1>9. StartInv'
  BY <1>1, <1>3 DEF ServerInv, StartInv
<1>10. in # <<>> => in[Len(in)] = <<Len(sent), PSIZE>>
  BY DEF ServerInv, StreamInv
<1>11. StreamInv'
  <2>1. \A k \in 1..(Len(sent') - 1) : sent'[k] = "CEX"
    <3>1. 1..(Len(sent') - 1) = 1..Len(sent)
      BY <1>4, <1>5 DEF m
    <3> QED BY <1>5, <3>1
  <2>2. ASSUME NEW j \in 1..Len(in') PROVE in'[j] \in (1..Len(sent')) \X (1..PSIZE)
    <3>1. CASE j <= Len(in)
      <4>1. in[j] \in (1..Len(sent)) \X (1..PSIZE)
        BY <1>4, <3>1 DEF ServerInv, StreamInv
      <4>2. 1..Len(sent) \subseteq 1..Len(sent')
        BY <1>4, <1>5 DEF m
      <4>3. in'[j] = in[j]
        <5>1. j \in 1..Len(in)
          BY <1>4, <1>7, <3>1
        <5> QED BY <1>7, <5>1, Zenon
      <4> QED BY <4>1, <4>2, <4>3
    <3>2. CASE j > Len(in)
      <4>1. j - Len(in) \in 1..PSIZE
        BY <1>4, <1>7, <3>2
      <4>2. in'[Len(in) + (j - Len(in))] = <<m, j - Len(in)>>
        BY <1>7, <4>1
      <4>3. Len(in) + (j - Len(in)) = j
        BY <1>4, <1>7
      <4>4. in'[j] = <<m, j - Len(in)>>
        BY <4>2, <4>3, Zenon
      <4> QED BY <1>5, <4>1, <4>4
    <3> QED BY <1>4, <1>7, <3>1, <3>2
  <2>3. ASSUME NEW j \in 1..(Len(in') - 1) PROVE in'[j + 1] = Following(in'[j])
    <3>1. CASE j < Len(in)
      <4>1. in[j + 1] = Following(in[j])
        BY <1>4, <3>1 DEF ServerInv, StreamInv
      <4>2. j \in 1..Len(in) /\ j + 1 \in 1..Len(in)
        <5>1. j \in Nat \ {0} /\ j < Len(in)
          BY <1>7, <3>1
        <5> QED BY <1>4, <5>1
      <4> QED BY <1>7, <4>1, <4>2, Zenon
    <3>2. CASE j = Len(in)
      <4>1. in # <<>> /\ in'[j] = <<Len(sent), PSIZE>>
        BY <1>4, <1>7, <1>10, <3>2
      <4>2. in'[j + 1] = <<m, 1>>
        BY <1>4, <1>7, <3>2
      <4> QED BY <1>4, <4>1, <4>2 DEF Following, m
    <3>3. CASE j > Len(in)
      <4>1. j - Len(in) \in 1..PSIZE /\ j - Len(in) + 1 \in 1..PSIZE
        <5>1. j \in Int /\ j + 1 <= Len(in) + PSIZE /\ j > Len(in)
          BY <1>4, <1>7, <3>3
        <5> QED BY <1>4, <5>1
      <4>2. in'[Len(in) + (j - Len(in))] = <<m, j - Len(in)>>
            /\ in'[Len(in) + (j - Len(in) + 1)] = <<m, j - Len(in) + 1>>
        BY <1>7, <4>1
      <4>3. in'[j] = <<m, j - Len(in)>> /\ in'[j + 1] = <<m, j - Len(in) + 1>>
        BY <1>4, <4>2
      <4> QED BY <1>4, <4>1, <4>3 DEF Following
    <3> QED BY <1>4, <1>7, <3>1, <3>2, <3>3
  <2>4. in'[Len(in')] = <<Len(sent'), PSIZE>>
    BY <1>4, <1>5, <1>7
  <2>5. ~torn' => in'[1][2] = 1
    <3>1. CASE in = <<>>
      <4>1. in'[0 + 1] = <<m, 1>>
        BY <1>4, <1>7, <3>1
      <4> QED BY <4>1
    <3>2. CASE in # <<>>
      BY <1>3, <1>4, <1>7, <3>2 DEF ServerInv, StreamInv
    <3> QED BY <3>1, <3>2
  <2> QED BY <2>1, <2>2, <2>3, <2>4, <2>5 DEF StreamInv, Following
<1>12. Received' = Received
  <2>1. CASE in = <<>>
    <3>1. in'[0 + 1] = <<m, 1>>
      BY <1>4, <1>7, <2>1
    <3> QED BY <1>4, <1>7, <2>1, <3>1 DEF Received, m
  <2>2. CASE in # <<>>
    <3>1. 1 \in 1..Len(in)
      BY <1>4, <2>2
    <3>2. in'[1] = in[1]
      BY <1>7, <3>1
    <3> QED BY <1>7, <2>2, <3>2, Zenon DEF Received
  <2> QED BY <2>1, <2>2
<1>13. Received \in 0..Len(sent)
  BY ReceivedBound
<1>14. AnswerInv'
  <2> SUFFICES ASSUME ~torn PROVE AnswerInv'
    BY <1>3 DEF AnswerInv
  <2>1. Exchanges <= Exchanges'
    <3>1. Exchanges <= Len(sent)
      BY ExchangesNat DEF ServerInv
    <3>2. Len(sent) \in 0..Len(sent') /\ \A k \in 1..Len(sent) : sent'[k] = "CEX"
      <4>1. \A k \in 1..Len(sent) : sent'[k] = "CEX"
        BY <1>5, Zenon
      <4>2. Len(sent) \in 0..Len(sent')
        <5>1. Len(sent') = Len(sent) + 1
          BY <1>5 DEF m
        <5> QED BY <1>4, <5>1
      <4> QED BY <4>1, <4>2
    <3>3. Len(sent) <= Exchanges'
      BY <1>5, <3>2, ExchangesBound DEF Exchanges
    <3>4. Exchanges \in Nat /\ Exchanges' \in Nat
      BY <1>8, ExchangesNat, ExchangesNatNext DEF ServerInv
    <3> QED BY <1>4, <3>1, <3>3, <3>4
  <2>2. Len(out) <= 2 * Exchanges'
    <3>1. Exchanges \in Nat /\ Exchanges' \in Nat /\ Len(out) \in Nat
      BY <1>8, ExchangesNat, ExchangesNatNext DEF ServerInv, TypeOK
    <3>2. Len(out) <= 2 * Exchanges
      BY DEF ServerInv, AnswerInv
    <3> QED BY <2>1, <3>1, <3>2
  <2>3. \A k \in 1..Received' : sent'[k] = "CEX"
    <3>1. \A k \in 1..Received : k \in 1..Len(sent)
      BY <1>4, <1>13
    <3> QED BY <1>5, <1>12, <3>1, Zenon
  <2> QED BY <1>3, <1>12, <2>2, <2>3 DEF ServerInv, AnswerInv
<1> QED BY <1>8, <1>9, <1>11, <1>14 DEF ServerInv

LEMMA ProxyClosesStep == ServerInv /\ ProxyCloses => ServerInv'
<1> SUFFICES ASSUME ServerInv, ProxyCloses PROVE ServerInv'
  OBVIOUS
<1>1. TypeOK' /\ StartInv' /\ StreamInv'
  BY DEF ProxyCloses, ServerInv, TypeOK, StartInv, StreamInv, Following, LinkState
<1>2. AnswerInv'
  BY DEF ProxyCloses, ServerInv, AnswerInv, Exchanges
<1> QED BY <1>1, <1>2 DEF ServerInv

LEMMA ResetArrivesStep == ServerInv /\ ResetArrives => ServerInv'
<1> SUFFICES ASSUME ServerInv, ResetArrives PROVE ServerInv'
  OBVIOUS
<1>1. TypeOK' /\ StartInv' /\ StreamInv'
  BY DEF ResetArrives, ServerInv, TypeOK, StartInv, StreamInv, Following, LinkState
<1>2. AnswerInv'
  BY DEF ResetArrives, ServerInv, AnswerInv, Exchanges
<1> QED BY <1>1, <1>2 DEF ServerInv

LEMMA StutterStep == ServerInv /\ UNCHANGED vars => ServerInv'
<1> SUFFICES ASSUME ServerInv, UNCHANGED vars PROVE ServerInv'
  OBVIOUS
<1>1. TypeOK' /\ StartInv' /\ StreamInv'
  BY DEF vars, ServerInv, TypeOK, StartInv, StreamInv, Following
<1>2. AnswerInv'
  BY DEF vars, ServerInv, AnswerInv, Exchanges, Received
<1> QED BY <1>1, <1>2 DEF ServerInv
-----------------------------------------------------------------------------
\* ServerInv holds in every reachable state of the server, for every size of a
\* packet and any number of them.
THEOREM Invariance == Spec => []ServerInv
<1>1. ServerInv /\ [Next]_vars => ServerInv'
  BY ListenStep, AcceptStep, RecvStep, RecvEndStep, RecvErrorStep, ServerSendStep,
     ServerAckStep, EndStep, ProxySendsStep, ProxyClosesStep, ResetArrivesStep, StutterStep
  DEF Next, Server
<1> QED BY InitInv, <1>1, PTL DEF Spec

\* Whatever recv stores, the buffer holds a type, and the stream packets (TypeOK).
THEOREM TypeCorrect == Spec => []TypeOK
<1>1. ServerInv => TypeOK
  BY DEF ServerInv
<1> QED BY Invariance, <1>1, PTL

\* Each exchange is answered by itself and its acknowledgement, in order, once, as
\* long as recv returns whole packets (OneAnswerEach).
THEOREM AnsweredOnce == Spec => []OneAnswerEach
<1>1. ServerInv => OneAnswerEach
  <2> SUFFICES ASSUME ServerInv, ~torn, pc = "recv", in = <<>>, link = "open"
               PROVE  Len(out) = 2 * Exchanges
    BY DEF ServerInv, AnswerInv, OneAnswerEach
  <2>1. Received = Len(sent) /\ Len(out) = 2 * Received /\ \A k \in 1..Received : sent[k] = "CEX"
    BY DEF ServerInv, AnswerInv, Received
  <2>2. sent \in Seq({"CEX", "EOJ"}) /\ Len(sent) \in Nat
    BY DEF ServerInv, TypeOK
  <2>3. Len(sent) <= Exchanges
    BY <2>1, <2>2, ExchangesBound DEF Exchanges
  <2>4. Exchanges \in Nat /\ Exchanges <= Len(sent)
    BY ExchangesNat DEF ServerInv
  <2> QED BY <2>1, <2>2, <2>3, <2>4
<1> QED BY Invariance, <1>1, PTL
=============================================================================
