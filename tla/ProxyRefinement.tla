-------------------------- MODULE ProxyRefinement --------------------------
(***************************************************************************)
(* The proxy implements ChatService.  An exchange and its acknowledgement  *)
(* are due from the moment the client has sent the exchange until the      *)
(* relay sends them on (or drops them): on the client's socket, in its     *)
(* handler, on the way to the server, in the server, on the way back, in   *)
(* the relay.  These are the places of Way but the first and the last.     *)
(***************************************************************************)
EXTENDS ProxyInvariant

nextBar == [c \in Slot |-> IF peer[c].pc = "gone" THEN MaxCex ELSE peer[c].sent]

dueBar == [c \in Slot |-> Carried(relay, c) \cup AllKeys(returning, c)
                             \cup AllBoth(toServer, c) \cup HeldBy(handler[c])
                             \cup BothIn(up[c], c)]

Sealed(p) == [type |-> p.type, from |-> p.from, id |-> p.id]
mailBar   == [c \in Slot |-> [k \in DOMAIN inbox[c] |-> Sealed(inbox[c][k])]]

Service == INSTANCE ChatService
           WITH Clients <- Slot, Exchanges <- MaxCex,
                Notices <- {Sealed(Typed("INE")), Sealed(Found(NoAddr))},
                next <- nextBar, due <- dueBar, mail <- mailBar

\* The proxy, its relays and the servers deal with the exchanges and their
\* acknowledgements as ChatService does, in order, each once, and an exchange is
\* never lost alone, over all interleavings of the threads, departures, failures
\* (of a server between its two sends, with unread or unsent packets) and the
\* shutdown.
ImplementsService == Service!Spec
-----------------------------------------------------------------------------
(* What the proof of it needs besides SafetyInv.                           *)

\* A relay carries an exchange or an acknowledgement, returned or not, which it
\* has dealt with before it receives again, or the zeroed packet of an ended
\* stream, which is addressed to nobody.
Resting == {"none", "test", "recv"}

RoutedInv ==
  \A s \in Line :
    LET p == relay[s].data
    IN  IF p.from = NoSlot THEN p.dest = NoAddr /\ p.origin = NoAddr
                           ELSE /\ p.type \in {"CEX", "EOC", "ACK", "EOF"}
                                /\ relay[s].pc \notin Resting

\* A client that has gone does not come back: its slot is not used again.
GoneInv ==
  \A c \in Slot : peer[c].pc = "gone" => link[c] \notin {"none", "open"}

ServiceInv == RoutedInv /\ GoneInv

\* Everything the theorems about the proxy are derived from besides ProxyInv.
RefinementInv == SafetyInv /\ ServiceInv
=============================================================================
