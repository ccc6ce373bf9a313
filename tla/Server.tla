------------------------------- MODULE Server -------------------------------
(***************************************************************************)
(* src/server.c: wait_for_proxy, then the loop of server_read and          *)
(* server_send until DT_EOJ.  The proxy at the other end of the one        *)
(* connection is the environment.  Proxy's action Serve is one turn of     *)
(* this loop on a packet that recv returned whole.                         *)
(*                                                                         *)
(* recv may return less than a Data: the stream is a sequence of cells,    *)
(* PSIZE to a packet, the type and what follows it in the last.  A packet  *)
(* is named by its number in the stream.                                   *)
(*                                                                         *)
(* X_Slip, defined next to X, is a plausible slip in X: it shows which     *)
(* property notices it and is used nowhere else.                           *)
(***************************************************************************)
EXTENDS Base, FiniteSets

CONSTANTS
  PSIZE,      \* cells of a Data
  MaxPackets  \* bound: packets the proxy sends

ASSUME ConstantsOK == PSIZE \in Nat \ {0, 1} /\ MaxPackets \in Nat

VARIABLES
  status,        \* of the process
  pc,            \* of its only thread
  continue_job,
  buffer,        \* s->buffer: its type, and the packet that fills it whole
  link, in,      \* proxy_sock_fd: its state, the cells not read yet
  reset,         \* the reset that answers a send after the close is under way
  out,           \* the packets sent on it, until torn
  sent,          \* the types of the packets the proxy has sent
  torn           \* a recv has returned part of a packet

vars == <<status, pc, continue_job, buffer, link, in, reset, out, sent, torn>>

\* A type read from bytes that are not a type: DT_TEXT has no entry for it.
Garbage == "garbage"
NoPacket == 0

\* of is the number of the packet read whole, NoPacket for anything else.
Buffer == [type : Data_type \cup {Garbage}, of : 0..MaxPackets]
Zero   == [type |-> "CLO", of |-> NoPacket]

Init ==
  /\ status = "running" /\ pc = "listen"
  /\ continue_job = TRUE
  /\ buffer = Zero
  /\ link = "none" /\ in = <<>> /\ reset = FALSE /\ out = <<>>
  /\ sent = <<>> /\ torn = FALSE
-----------------------------------------------------------------------------
\* wait_for_proxy: socket, bind and listen may fail; accept waits.
Listen ==
  /\ status = "running" /\ pc = "listen"
  /\ \/ status' = "failed" /\ UNCHANGED pc
     \/ pc' = "accept" /\ UNCHANGED status
  /\ UNCHANGED <<continue_job, buffer, link, in, reset, out, sent, torn>>

Accept ==
  /\ status = "running" /\ pc = "accept"
  /\ pc' = "recv" /\ link' = "open"
  /\ UNCHANGED <<status, continue_job, buffer, in, reset, out, sent, torn>>

\* A Data; both programs must agree on its size.
Cells_Longer(n) == [k \in 1..(PSIZE + 1) |-> <<n, k>>]
Cells(n)        == [k \in 1..PSIZE |-> <<n, k>>]

\* What a recv of these cells makes of the zeroed buffer: a packet, the start of
\* one (cut before or after its type), or bytes out of place.
Whole(cells) == cells = Cells(cells[1][1])
Readings(cells) ==
  LET n == cells[1][1]
  IN  CASE Whole(cells) -> {[type |-> sent[n], of |-> n]}
        [] ~Whole(cells) /\ cells[1][2] = 1 ->
             [type : {"CLO", sent[n]}, of : {NoPacket}]
        [] OTHER -> [type : Data_type \cup {Garbage}, of : {NoPacket}]

\* test_data_integrity: a packet read whole is never given up (Correcteur,
\* NeverGivesUp); other bytes may be.
Checked(b) ==
  {b} \cup IF b.type \in {"CEX", "FEX"} /\ b.of = NoPacket
           THEN {[b EXCEPT !.type = "NAK"]} ELSE {}

\* server_read with what recv has stored: print_data first, then DT_EOJ.
ServerRead_KeepsOn(b) ==
  /\ buffer' \in Checked(b)
  /\ pc' = "send"
  /\ UNCHANGED <<status, continue_job>>

ServerRead(b) ==
  \/ /\ b.type = Garbage             \* out of the bounds of DT_TEXT
     /\ status' = "segv" /\ UNCHANGED <<pc, buffer, continue_job>>
  \/ /\ buffer' \in Checked(b)
     /\ continue_job' = (continue_job /\ b.type # "EOJ")
     /\ pc' = "send"
     /\ UNCHANGED status

\* recv returns what has arrived, at most sizeof(Data).
Recv ==
  /\ status = "running" /\ pc = "recv" /\ in # <<>>
  /\ \E n \in 1..(IF Len(in) < PSIZE THEN Len(in) ELSE PSIZE) :
       LET cells == SubSeq(in, 1, n)
       IN  /\ in' = SubSeq(in, n + 1, Len(in))
           /\ torn' = (torn \/ ~Whole(cells))
           /\ \E b \in Readings(cells) : ServerRead(b)
  /\ UNCHANGED <<link, reset, out, sent>>

\* recv returns 0: a zeroed packet, like any other.
RecvEnd_Again ==
  /\ status = "running" /\ pc = "recv" /\ in = <<>> /\ link \in EndOfStream
  /\ buffer' = Zero
  /\ UNCHANGED <<status, pc, continue_job, link, in, reset, out, sent, torn>>

RecvEnd ==
  /\ status = "running" /\ pc = "recv" /\ in = <<>> /\ link \in EndOfStream
  /\ ServerRead(Zero)
  /\ UNCHANGED <<link, in, reset, out, sent, torn>>

RecvError ==
  /\ status = "running" /\ pc = "recv" /\ in = <<>> /\ link = "rst"
  /\ status' = "failed"
  /\ UNCHANGED <<pc, continue_job, buffer, link, in, reset, out, sent, torn>>

\* The unchecked send of b: only a connection that has been reset is fatal.
Send(b) ==
  \/ /\ link = "dead"
     /\ status' = "sigpipe"
     /\ UNCHANGED <<link, reset, out>>
  \/ /\ link # "dead"
     /\ link' = IF link = "rst" THEN "dead" ELSE link
     /\ reset' = (reset \/ link = "fin")
     /\ out' = IF link = "open" /\ ~torn THEN Append(out, b) ELSE out
     /\ UNCHANGED status

\* server_send: nothing after DT_EOJ, else the packet itself...
ServerSend_Always ==
  /\ status = "running" /\ pc = "send"
  /\ Send(buffer)
  /\ pc' = IF buffer.type \in {"CEX", "FEX"} THEN "ack" ELSE "recv"
  /\ UNCHANGED <<continue_job, buffer, in, sent, torn>>

ServerSend ==
  /\ status = "running" /\ pc = "send" /\ continue_job
  /\ Send(buffer)
  /\ pc' = IF buffer.type \in {"CEX", "FEX"} THEN "ack" ELSE "recv"
  /\ UNCHANGED <<continue_job, buffer, in, sent, torn>>

\* ...and the acknowledgement of an exchange.
ServerAck ==
  /\ status = "running" /\ pc = "ack"
  /\ buffer' = [buffer EXCEPT !.type = "ACK"]
  /\ Send(buffer')
  /\ pc' = "recv"
  /\ UNCHANGED <<continue_job, in, sent, torn>>

\* The loop ends; the socket is closed.
End ==
  /\ status = "running" /\ pc = "send" /\ ~continue_job
  /\ status' = "ended" /\ link' = "none"
  /\ UNCHANGED <<pc, continue_job, buffer, in, reset, out, sent, torn>>

Server == \/ Recv \/ RecvEnd \/ RecvError \/ ServerSend \/ ServerAck \/ End
-----------------------------------------------------------------------------
(* The environment: handlers of the proxy forward exchanges, its main      *)
(* thread sends DT_EOJ last (Proxy, EojLast), it closes or dies; and the   *)
(* network delivers the reset that answers a send after the close.         *)

ProxySends ==
  /\ status = "running" /\ link = "open" /\ Len(sent) < MaxPackets
  /\ \A k \in 1..Len(sent) : sent[k] # "EOJ"
  /\ \E t \in {"CEX", "EOJ"} : sent' = Append(sent, t)
  /\ in' = in \o Cells(Len(sent) + 1)
  /\ UNCHANGED <<status, pc, continue_job, buffer, link, reset, out, torn>>

ProxyCloses ==
  /\ status = "running" /\ link = "open"
  /\ link' \in {"fin", "rst"}
  /\ UNCHANGED <<status, pc, continue_job, buffer, in, reset, out, sent, torn>>

ResetArrives ==
  /\ status = "running" /\ link = "fin" /\ reset
  /\ link' = "dead"
  /\ UNCHANGED <<status, pc, continue_job, buffer, in, reset, out, sent, torn>>

Next == Listen \/ Accept \/ Server \/ ProxySends \/ ProxyCloses \/ ResetArrives

Spec == Init /\ [][Next]_vars

\* The scheduler runs the server once it listens; a reset under way arrives.
FairSpec == Spec /\ WF_vars(Server) /\ WF_vars(ResetArrives)
-----------------------------------------------------------------------------
\* Whatever bytes recv stores, the buffer holds a type and at most one packet.
TypeOK ==
  /\ status \in {"running", "ended", "failed", "sigpipe", "segv"}
  /\ pc \in {"listen", "accept", "recv", "send", "ack"}
  /\ continue_job \in BOOLEAN
  /\ buffer \in Buffer
  /\ link \in LinkState
  /\ in \in Seq((1..MaxPackets) \X (1..PSIZE))
  /\ reset \in BOOLEAN
  /\ out \in Seq(Buffer)
  /\ sent \in Seq({"CEX", "EOJ"}) /\ Len(sent) <= MaxPackets
  /\ torn \in BOOLEAN

Exchanges == Cardinality({k \in 1..Len(sent) : sent[k] = "CEX"})

\* As long as recv returns whole packets the server answers each exchange with
\* itself and then its acknowledgement, in the order they came, and nothing
\* else: no answer to DT_EOJ, none to the end of the stream; and when it waits
\* again with nothing to read, none is missing.
OneAnswerEach ==
  ~torn =>
    /\ Len(out) <= 2 * Exchanges
    /\ \A k \in 1..Len(out) :
         out[k] = [type |-> IF k % 2 = 1 THEN "CEX" ELSE "ACK", of |-> (k + 1) \div 2]
    /\ pc = "recv" /\ in = <<>> /\ link = "open" => Len(out) = 2 * Exchanges

\* A server that has lost its proxy comes to an end, however the connection
\* ended and whatever was read before: not by testing what recv returned, but
\* because its answers to zeroed packets end in SIGPIPE.
EndsAfterProxy == link \notin {"none", "open"} ~> status # "running"

\* DT_EOJ ends the server: as long as recv returns whole packets, no packet
\* before it or answer to it keeps the loop going.
EndsOnEoj ==
  (\E k \in 1..Len(sent) : sent[k] = "EOJ") ~> status # "running" \/ torn
=============================================================================
