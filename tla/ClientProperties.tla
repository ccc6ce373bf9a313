-------------------------- MODULE ClientProperties --------------------------
(***************************************************************************)
(* What the runs check of the client besides TypeOK, and what the comments *)
(* of src/client.c say that the code does not do.                          *)
(***************************************************************************)
EXTENDS Client

InChat == sender.pc # "none"

\* The places in out of what the sender has sent; the first, the last, the next.
Sent     == {k \in 1..Len(out) : out[k].by = "sender"}
First(k) == \A j \in Sent : k <= j
Last(k)  == \A j \in Sent : j <= k
Follows(j, k) == j < k /\ \A i \in Sent : i <= j \/ k <= i

\* The sender transmits lines whole: the characters 0 to size-1 in order,
\* whatever main publishes meanwhile, again from 0 only after a complete one,
\* and a connected sender that is back at the condition has sent the last.
WholeLines ==
  /\ \A k \in Sent : First(k) => out[k].byte = 0
  /\ \A j, k \in Sent : Follows(j, k) =>
       out[k].byte = IF out[j].byte = shm.size - 1 THEN 0 ELSE out[j].byte + 1
  /\ sender.pc \in {"cwait", "waiting", "woken"} /\ link = "open" =>
       \A k \in Sent : Last(k) => out[k].byte = shm.size - 1

\* What a client may send after a packet of type before (at first, none).
Turn(before, p) ==
  CASE p.type = "CON"  -> before = "none"
    [] p.type = "name" -> before \in {"CON", "GET"}
    [] p.type = "GET"  -> before = "name"
    [] p.type = "BOC"  -> before = "name"
    [] p.type = "CEX"  -> before \in {"BOC", "CEX"} /\ p.id = p.byte
    [] OTHER           -> FALSE

\* The packets of a client that has not been told to quit, as the proxy may rely
\* on them: DT_CON and the pseudo, then queries, DT_BOC, exchanges numbered by
\* the characters they carry.  (A recognised /q writes the sender's packet.)
PeerProtocol ==
  ~quit => \A k \in 1..Len(out) :
             Turn(IF k = 1 THEN "none" ELSE out[k - 1].type, out[k])

\* The receiver closes the socket under the mutex, hence never under a batch:
\* the sender does not send on a closed descriptor and end the process for it,
\* unless a recognised /q has unlocked the mutex behind its back.
NoSendAfterClose ==
  sender.pc \in {"copy", "send"} /\ link = "none" => quit

Over == sender.pc = "done" \/ status # "running"

\* Once something arrives, or the connection ends, the sending thread ends too:
\* it does not sleep on its condition for ever (a recognised /q apart).
CloseWakesSender ==
  InChat /\ (down # <<>> \/ link \in {"fin", "rst", "dead"}) ~> Over \/ quit

Wants(t) ==
  CASE t = "main"     -> main.pc \in {"enter", "publish"}
    [] t = "sender"   -> sender.pc \in {"lock", "woken"}
    [] t = "receiver" -> receiver.pc = "handle"

\* A thread that asks for the mutex gets it or the process ends: the batches
\* end, and every thread that leaves gives the mutex back.
LocksGranted ==
  \A t \in Thread : Wants(t) ~> ~Wants(t) \/ status # "running"
-----------------------------------------------------------------------------
\* client.c:82 "If we received all the ACK, we can write again": when the sender
\* is in no batch, no send was lost to a closed connection and the receiver has
\* dealt with as many acknowledgements as exchanges were sent, the window is open.
AcknowledgedReopens ==
  /\ ~quit /\ receiver.pc \in {"test", "done"}
  /\ sender.pc \notin {"batch", "copy", "send"} /\ Sent # {}
  /\ link \notin EndOfStream
  /\ Len(SelectSeq(read, LAMBDA p : p.type = "ACK")) = Cardinality(Sent)
  => shm.can_write = 1

\* client.c:206-208 "which allow him to ... quit at anytime without having to
\* wait that the data has been correctly sent": after /q the chat returns (main
\* connects again) or the process ends.
QuitReturns == quit ~> session = 2 \/ status # "running"
=============================================================================
