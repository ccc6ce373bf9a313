-------------------------------- MODULE Base --------------------------------
(***************************************************************************)
(* What include/base.h gives the three programs: the packet types and the  *)
(* states of a TCP connection as the program that did not close it sees    *)
(* it.  Both sockets of the system (client-proxy and proxy-server) are     *)
(* SOCK_STREAM sockets without options, and no program handles SIGPIPE.    *)
(***************************************************************************)
EXTENDS Integers, Sequences

\* enum Data_type; DT_CLO is 0, hence the type of a zeroed packet.
Data_type == {"CLO", "CON", "GET", "BOC", "CEX", "EOC", "BOF", "FEX", "EOF",
              "EOJ", "ACK", "NAK", "INE", "AEU"}

(***************************************************************************)
(* A connection, as seen by the program that still holds its end:          *)
(*   none  no connection yet                                               *)
(*   open  the peer holds its end                                          *)
(*   fin   the peer closed with nothing left unread: recv returns 0        *)
(*   rst   the peer closed with unread bytes, so its kernel sent a reset:  *)
(*         one pending error, reported by the next recv or send            *)
(*   dead  a reset was received and reported (or answered a send on a fin  *)
(*         connection): recv returns 0, send raises SIGPIPE                *)
(***************************************************************************)
LinkState == {"none", "open", "fin", "rst", "dead"}

\* The states in which recv on a drained connection returns 0.
EndOfStream == {"fin", "dead"}

\* What a send on a connection in state l may leave it in.
AfterSend(l) ==
  CASE l = "fin" -> {"fin", "dead"}   \* the answering reset may be in flight
    [] l = "rst" -> {"dead"}          \* ECONNRESET, the packet is lost
    [] OTHER     -> {l}

\* How the peer's close looks from here: a reset when it left bytes unread.
AfterClose(unread) == IF unread THEN "rst" ELSE "fin"

\* What arrives of q, which the peer has sent and nobody has read, when its close
\* looks like l: all of it, but a reset discards what its kernel still holds.
Delivered(q, l) == IF l = "rst" THEN {SubSeq(q, 1, k) : k \in 0..Len(q)} ELSE {q}
=============================================================================
