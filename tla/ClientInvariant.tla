-------------------------- MODULE ClientInvariant --------------------------
(***************************************************************************)
(* The inductive invariant of the client: what ties the phase main is in,  *)
(* the mutex, the socket and what the sender may do.                       *)
(***************************************************************************)
EXTENDS ClientProperties

\* main before the threads exist, or after they have been joined.
Alone   == {"connect", "auth", "name", "dest", "query", "answer", "menu", "chat"}
Leaving == {"stamp", "eoc", "unlock"}
Holding == {"test", "cwait", "batch", "copy", "send", "unlock"}

\* The threads live within chat; the socket is connected until then; and main
\* leaves chat only after /q or on a closed socket, so that a second connection
\* is given up or meets the end of the input.
PhaseInv ==
  /\ main.pc \in Alone => sender.pc = "none" /\ receiver.pc = "none"
  /\ main.pc \in Alone \ {"connect"} => link # "none"
  /\ main.pc \notin Alone /\ shm.state # "CHAT" => quit \/ link = "none"
  /\ main.pc \in {"stamp", "eoc"} => quit \/ link = "none"
  /\ main.pc \in {"unlock", "joinSender", "joinReceiver"} /\ status = "running" => eof
  /\ session = 2 => /\ main.pc \in {"connect", "auth", "name", "dest"}
                    /\ eof \/ (main.pc = "connect" /\ link # "none")

\* A recognised /q is the last thing read.
QuitInv ==
  /\ quit => eof /\ main.pc \notin {"query", "answer", "menu", "chat", "begin", "boc",
                                    "enter", "input", "publish"}
  /\ main.pc = "broadcast" => quit

\* Until then the mutex is locked for the thread that has locked it.
MutexInv ==
  ~quit => /\ sender.pc \in Holding => mutex = "sender"
           /\ main.pc \in Leaving => mutex = "main"

\* Once the receiver has closed the socket the sender finds nothing to send.
CloseInv ==
  /\ receiver.received = Zero
  /\ main.pc \in {"begin", "boc"} => shm.size = 0
  /\ sender.pc \in {"copy", "send"} => sender.i < shm.size
  /\ status = "running" /\ ~quit /\ link = "none" /\ main.pc \notin Alone =>
       /\ shm.state = "QUIT" \/ (main.pc \in {"begin", "boc"} /\ shm.size = 0)
       /\ sender.pc = "batch" => shm.size = 0

\* The window closes when the first line is sent and nothing opens it again.
WindowInv ==
  /\ main.pc \in Alone \ {"connect"} => \A k \in 1..Len(out) : out[k].by # "sender"
  /\ \/ sender.pc \in {"batch", "copy", "send"}
     \/ \E k \in 1..Len(out) : out[k].by = "sender"
     => main.pc \in Alone \/ shm.can_write = 0
  /\ \A k \in 1..Len(out) : out[k].by = "sender" => out[k].line = shm.line
  /\ sender.pc = "send" => shm.data.line = shm.line

ClientInv ==
  /\ TypeOK /\ PhaseInv /\ QuitInv /\ MutexInv /\ CloseInv /\ NoSendAfterClose
  /\ WindowInv
-----------------------------------------------------------------------------
(* What the client has put on its socket, while it is connected.           *)

Batch == {"batch", "copy", "send"}

\* How far the line has been sent: up to i in a batch that has begun to send,
\* else to its end.
Reached == IF sender.pc \in Batch /\ sender.i > 0 THEN sender.i ELSE shm.size

LineInv ==
  /\ main.pc = "joinReceiver" => sender.pc = "done"
  /\ shm.ack_until = 0
  /\ sender.pc = "send" => shm.data.byte = sender.i
  /\ \A k \in Sent : out[k].byte < shm.size
  /\ \A k \in Sent : First(k) => out[k].byte = 0
  /\ \A j, k \in Sent : Follows(j, k) =>
       out[k].byte = IF out[j].byte = shm.size - 1 THEN 0 ELSE out[j].byte + 1
  /\ link = "open" =>
       /\ sender.pc \in Batch /\ sender.i > 0 => Sent # {}
       /\ \A k \in Sent : Last(k) => out[k].byte = Reached - 1

\* What main may have sent last when it is at pc.
LastType == IF out = <<>> THEN "none" ELSE out[Len(out)].type
Expected(pc) ==
  CASE pc = "auth"  -> {"none"}
    [] pc = "name"  -> {"CON"}
    [] pc = "query" -> {"GET"}
    [] pc \in {"dest", "answer", "menu", "chat", "begin", "boc"} -> {"name"}
    [] OTHER        -> {"BOC", "CEX"}

TurnInv ==
  /\ PeerProtocol
  /\ ~quit /\ link = "open" =>
       /\ main.pc # "connect" => LastType \in Expected(main.pc)
       /\ main.pc = "boc" => shm.data.type = "BOC"
       /\ sender.pc \in {"copy", "send"} => shm.data.type = "CEX" /\ shm.data.id = sender.i

\* Everything the theorems about the client are derived from.
ChatInv == ClientInv /\ LineInv /\ TurnInv
=============================================================================
