-------------------------- MODULE ServerInvariant --------------------------
(***************************************************************************)
(* The inductive invariant of the server: what is in the stream, and how   *)
(* far its answers have got.                                               *)
(***************************************************************************)
EXTENDS Server

\* Before the connection there is no stream.
StartInv ==
  pc \in {"listen", "accept"} =>
    link = "none" /\ in = <<>> /\ sent = <<>> /\ out = <<>>

Following(cell) == IF cell[2] < PSIZE THEN <<cell[1], cell[2] + 1>>
                                      ELSE <<cell[1] + 1, 1>>

\* What is left to read is the end of what was sent, from the start of a packet
\* as long as none has been torn.
StreamInv ==
  /\ \A k \in 1..(Len(sent) - 1) : sent[k] = "CEX"
  /\ \A j \in 1..Len(in) : in[j] \in (1..Len(sent)) \X (1..PSIZE)
  /\ \A j \in 1..(Len(in) - 1) : in[j + 1] = Following(in[j])
  /\ in # <<>> => in[Len(in)] = <<Len(sent), PSIZE>>
  /\ ~torn /\ in # <<>> => in[1][2] = 1

\* The packets read.
Received == IF in = <<>> THEN Len(sent) ELSE in[1][1] - 1

\* As long as none has been torn: all of them but the one being answered have
\* had their two answers.
AnswerInv ==
  ~torn =>
    /\ Len(out) <= 2 * Exchanges
    /\ \A k \in 1..Len(out) :
         out[k] = [type |-> IF k % 2 = 1 THEN "CEX" ELSE "ACK", of |-> (k + 1) \div 2]
    /\ link = "open" =>
         /\ \A k \in 1..Received : sent[k] = "CEX" \/ (pc = "send" /\ ~continue_job)
         /\ pc = "recv" => Len(out) = 2 * Received
         /\ pc \in {"send", "ack"} /\ continue_job =>
              /\ Received > 0 /\ buffer = [type |-> "CEX", of |-> Received]
              /\ Len(out) = 2 * Received - (IF pc = "send" THEN 2 ELSE 1)
         /\ pc = "ack" => continue_job

ServerInv == TypeOK /\ StartInv /\ StreamInv /\ AnswerInv
=============================================================================
