--------------------------- MODULE ProxyInvariant ---------------------------
(***************************************************************************)
(* The inductive strengthening of the proxy's type invariant (ProxyInv,    *)
(* proved in ProxyProofs) and of its safety properties (SafetyInv, proved  *)
(* in ProxySafety, ProxyRelaying and ProxyOrder), which TLC checks as      *)
(* invariants of a run of MCProxy.                                         *)
(***************************************************************************)
EXTENDS ProxyProperties

Server == 0..(nb_servers - 1)

\* main from accept on, and from where the slot has its server on.
Filling  == {"scan", "add", "assigned", "again", "spawn", "count"}
Placed   == {"assigned", "again", "spawn", "count"}

\* Slot c is published, or main is filling it and has reached one of pcs.
Has(c, pcs) == c < nb_clients \/ (c = nb_clients /\ mpc \in pcs)

\* What bounds the loops of main.
MainInv ==
  /\ mpc \in {"open", "publish"} =>
       nb_clients = 0 /\ nb_servers <= mi /\ mi <= NLINES
  /\ mpc = "publish" => mi < NLINES
  /\ mpc \notin {"open", "publish"} => nb_servers > 0
  /\ mpc \in Filling => nb_clients < BUFLEN
  /\ mpc = "scan" => mi <= nb_servers

\* What a slot has, and from when on: its address, its server, at last its
\* handler (if it was created).
SlotInv ==
  \A c \in Slot :
    /\ IF Has(c, Filling)
       THEN client[c].addr \in Addr ELSE client[c].sock_fd = NoFd
    /\ IF Has(c, Placed)
       THEN client[c].server \in Server ELSE client[c].server = NoLine
    /\ handler[c].pc # "none" => Has(c, {"count"})

\* A load grows by two per client, so it stays below INT_MAX, and so do the
\* values read to be written back...
Most == 2 * nb_clients + (IF mpc \in {"assigned", "again"} THEN 1
                          ELSE IF mpc \in {"spawn", "count"} THEN 2
                          ELSE 0)

LoadBound ==
  /\ \A s \in Line : load[s] <= Most
  /\ \A c \in Slot : handler[c].pc = "give" => handler[c].cnt \in 0..Most
  /\ mpc \in {"add", "again"} => reg <= Most

\* ...and the scan has found a server after its first step.
ScanInv ==
  IF mpc = "add" \/ (mpc = "scan" /\ mi > 0)
  THEN best.server \in Server
  ELSE best = [server |-> NoLine, min |-> MaxLoad]

\* A slot is marked closed before its descriptor is given back.
MarkedFirst ==
  \A c \in Slot :
    handler[c].pc \in Departed => client[c].sock_fd = NoFd

\* The entries that lookups stop at are published.
LookupInv ==
  /\ \A c \in Slot : handler[c].pc = "found" => handler[c].i < nb_clients
  /\ \A s \in Line :
       relay[s].pc \in {"check", "send", "write"} => relay[s].i < nb_clients

\* The inductive invariant of the proxy: types, the bounds of main's loops, the
\* slots' progress, the loads, the scan and the lookups.
ProxyInv ==
  /\ TypeOK
  /\ MainInv
  /\ SlotInv
  /\ LoadBound
  /\ ScanInv
  /\ LookupInv

\* Inductive given ProxyInv: a handler marks its slot before it closes the
\* descriptor, and an open slot's descriptor is its own.
OwnInv == MarkedFirst /\ OpenSlotOwnsFd

\* main, or the handler of c, is between reading the load of s and writing it.
MainAdds(s)    == \/ mpc = "add" /\ best.server = s
                  \/ mpc = "again" /\ client[nb_clients].server = s
Releases(c, s) == handler[c].pc = "give" /\ client[c].server = s

\* Until its relay fails, server_mutex does what it is for: only one thread is
\* about to write the load, it holds the mutex, and what it has read stands.
ExclusionInv ==
  \A s \in Line : ~Failed(s) =>
    /\ MainAdds(s) => server_mutex[s] /\ reg = load[s]
    /\ \A c \in Slot : Releases(c, s) =>
         /\ server_mutex[s] /\ handler[c].cnt = load[s]
         /\ ~MainAdds(s)
         /\ \A d \in Slot : Releases(d, s) => d = c

\* While nobody has left, so that main alone writes loads: they differ by at
\* most a client, the scan holds the least load it has seen, and main's
\* increments go to a server that was the least loaded before the first.
BalanceInv ==
  (\A c \in Slot : handler[c].pc # "closed") =>
    /\ \A s, t \in Server : load[s] <= load[t] + 2
    /\ mpc = "scan" /\ mi > 0 =>
         /\ best.min = load[best.server]
         /\ \A t \in Server : t < mi => best.min <= load[t]
    /\ mpc = "add" =>
         /\ reg = load[best.server]
         /\ \A t \in Server : load[best.server] <= load[t]
    /\ mpc \in {"assigned", "again"} =>
         \A t \in Server : load[client[nb_clients].server] <= load[t] + 1
    /\ mpc = "again" => reg = load[client[nb_clients].server]
-----------------------------------------------------------------------------
(* What the theorems of ProxyRelaying need besides.                        *)

\* Where the lookup of a relay in state r may stand: no earlier entry matches,
\* and it does not run past the published ones.
Walks(r) ==
  /\ r.pc \in {"lookup", "origin"} =>
       /\ r.i <= nb_clients
       /\ \A j \in Slot : j < r.i => client[j].addr # Sought(r)
  /\ r.pc \in {"check", "send", "write"} =>
       /\ client[r.i].addr \in {r.data.dest, r.data.origin}
       /\ \A j \in Slot : j < r.i => client[j].addr # client[r.i].addr

WalkInv == \A s \in Line : Walks(relay[s])

\* From accept on a slot has a descriptor, until its handler marks it closed.
OpenUntilMarked ==
  \A c \in Slot :
    /\ Has(c, Filling)
    /\ handler[c].pc \notin Departed
    => client[c].sock_fd # NoFd

\* main gets past the handlers when all that were created have ended.
JoinInv ==
  /\ mpc = "join" =>
       nb_clients = BUFLEN /\ \A c \in Slot : c < mi => Joined(c)
  /\ mpc \in {"eoj", "cancel"} => \A c \in Slot : Joined(c)

\* What handlers forward is no DT_EOJ; main sends it to one server after the
\* other.
EojInv ==
  /\ EojLast
  /\ \A c \in Slot : handler[c].pc = "forward" => handler[c].data.type # "EOJ"
  /\ \A s \in Line : \A i \in 1..Len(toServer[s]) :
       toServer[s][i].type = "EOJ" =>
         mpc \in {"eoj", "cancel"} /\ (s < mi \/ (s = mi /\ mpc = "cancel"))

\* Only the relay of the first server can test nb_servers before it is 1.
LaterInv ==
  /\ LaterRelaysRead
  /\ \A s \in Line : relay[s].pc # "none" => s <= nb_servers

-----------------------------------------------------------------------------
(* What the theorems of ProxyOrder need besides: the exchanges of a client *)
(* on their way, from its user to an inbox, in the order of their keys.    *)
(* What a server has answered is on its way back, written or not.          *)

returning == [s \in Line |-> Returning(s)]

\* An exchange comes before its own acknowledgement, both before the next.
Key(p) == 2 * p.id + (IF p.type \in {"ACK", "EOF"} THEN 1 ELSE 0)

\* What a server makes of an exchange it has not read yet.
Keys(p) == {2 * p.id, 2 * p.id + 1}

From(q, c)     == {i \in DOMAIN q : q[i].from = c}
KeysIn(q, c)   == {Key(q[i]) : i \in From(q, c)}
BothIn(q, c)   == UNION {Keys(q[i]) : i \in From(q, c)}
AllKeys(f, c)  == UNION {KeysIn(f[e], c) : e \in DOMAIN f}
AllBoth(f, c)  == UNION {BothIn(f[e], c) : e \in DOMAIN f}
Carried(f, c)  == {Key(f[s].data) : s \in {t \in DOMAIN f : f[t].data.from = c}}
HeldBy(h)      == IF h.pc = "forward" THEN Keys(h.data) ELSE {}
ToCome(l, sent) == IF l \in {"none", "open"} THEN (2 * sent)..(2 * MaxCex + 1)
                                             ELSE {}

\* The places on the way, the last one first: the inboxes, the relays, the
\* streams from and to the servers, the handler, the socket, the user.
Way(c) == <<AllKeys(inbox, c), Carried(relay, c), AllKeys(returning, c),
            AllBoth(toServer, c), HeldBy(handler[c]), BothIn(up[c], c),
            ToCome(link[c], peer[c].sent)>>

InOrder(c) ==
  LET way == Way(c)
  IN  \A i, j \in 1..7 : i < j => \A k \in way[i], l \in way[j] : k < l

\* The order inside a queue.
Increasing(q, c) ==
  \A i, j \in DOMAIN q :
    i < j /\ q[i].from = c /\ q[j].from = c => Key(q[i]) < Key(q[j])

Ordered(c) ==
  /\ InOrder(c)
  /\ Increasing(up[c], c)
  /\ \A s \in Line : Increasing(toServer[s], c) /\ Increasing(returning[s], c)
  /\ \A e \in Slot : Increasing(inbox[e], c)

\* A packet names the client it comes from, and is only at that client's server.
Said(p, c) == IF p.from = NoSlot THEN p.type \notin {"CEX", "FEX"}
                                 ELSE p.from = c /\ p.type = "CEX"
At(p, s)   == p.from \in Slot /\ client[p.from].server = s
Sent(p, s) == IF p.type = "CEX" THEN At(p, s)
                                ELSE p.type = "EOJ" /\ p.from = NoSlot
Back(p, s) == p.type \in {"CEX", "ACK"} /\ At(p, s)
Held(h, c) == h.pc = "forward" => h.data.type = "CEX" /\ h.data.from = c
Kept(r, s) ==
  IF r.data.from = NoSlot THEN r.data.type \in {"CLO", "EOF"}
  ELSE At(r.data, s) /\ (r.pc \in {"lookup", "check"} => Back(r.data, s))

NamedInv ==
  /\ \A c \in Slot :
       /\ \A i \in DOMAIN up[c] : Said(up[c][i], c)
       /\ Held(handler[c], c)
  /\ \A s \in Line :
       /\ \A i \in DOMAIN toServer[s] : Sent(toServer[s][i], s)
       /\ \A i \in DOMAIN returning[s] : Back(returning[s][i], s)
       /\ Kept(relay[s], s)

\* No connection before its slot.
LinkInv ==
  \A c \in Slot :
    ~Has(c, Filling) => link[c] = "none"

OrderInv == LinkInv /\ NamedInv /\ \A c \in Slot : Ordered(c)
-----------------------------------------------------------------------------
\* Everything the safety theorems are derived from besides ProxyInv.
SafetyInv ==
  /\ OwnInv
  /\ ExclusionInv
  /\ BalanceInv
  /\ WalkInv
  /\ OpenUntilMarked
  /\ JoinInv
  /\ EojInv
  /\ LaterInv
  /\ OrderInv
=============================================================================
