--------------------------- MODULE ProxyFindings ---------------------------
(***************************************************************************)
(* What the documentation and the comments say of src/proxy.c and the code *)
(* does not do.  Each property states one sentence, quoted above it; a run *)
(* shows how the modelled code breaks it.                                  *)
(***************************************************************************)
EXTENDS Proxy

\* Readme.md:99 "il regarde[r] a quel client correspond l'adresse ip et lui envoie
\* le paquet par la socket qui lui est associee": what a client receives is for
\* its address, or was sent by it and came back.
DeliveredToAddressee ==
  \A c \in Slot : \A i \in 1..Len(inbox[c]) :
    LET p == inbox[c][i]
    IN  /\ p.type \in {"CEX", "ACK"} => p.dest = client[c].addr
        /\ p.type = "EOC" => p.origin = client[c].addr

\* proxy.c:434 "when all clients are disconnected, we send a message to all
\* servers": no client is still connected when DT_EOJ goes out.
EojOnlyWhenAllGone ==
  mpc \in {"eoj", "cancel"} => \A c \in Slot : link[c] # "open"

Routing(s) == relay[s].pc \in {"lookup", "check", "origin", "send", "write"}

\* Readme.md:99-100: a packet that comes back from a server is sent on to a
\* client; it does not wait for ever in the proxy.
ReturnedPacketDelivered ==
  \A s \in Line : Routing(s) ~> ~Routing(s) \/ status # "running"
=============================================================================
