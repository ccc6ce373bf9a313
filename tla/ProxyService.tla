---------------------------- MODULE ProxyService ----------------------------
(***************************************************************************)
(* The proxy implements ChatService.  What is due of a client is in the    *)
(* places of its Way (ProxyInvariant) but the first and the last, which    *)
(* are in order (OrderInv): most steps leave it where it is or move it to  *)
(* the next place (DueStep), a write of a relay deals with the least item  *)
(* (WriteDeals), and a loss leaves no acknowledgement without its exchange *)
(* because the items of a place are lost from its end on, or an exchange   *)
(* with the acknowledgement that it does not have yet (PartLeft).          *)
(***************************************************************************)
EXTENDS ProxyOrder, ProxyRefinement, SequenceTheorems

\* The keys of one packet.
Mark(p, c) == IF p.from = c THEN {Key(p)} ELSE {}
Both(p, c) == IF p.from = c THEN Keys(p) ELSE {}
-----------------------------------------------------------------------------
(* The keys of queues that grow and shrink. *)

LEMMA KeysOfAppend ==
  ASSUME NEW q \in Seq(Packet), NEW p \in Packet, NEW c
  PROVE  KeysIn(Append(q, p), c) = KeysIn(q, c) \cup Mark(p, c)
<1> DEFINE r == Append(q, p)
<1>1. /\ Len(r) = Len(q) + 1 /\ Len(q) \in Nat
      /\ DOMAIN q = 1..Len(q) /\ DOMAIN r = 1..Len(r)
      /\ \A i \in 1..Len(q) : r[i] = q[i]
      /\ r[Len(r)] = p
  OBVIOUS
<1> HIDE DEF r
<1>2. ASSUME NEW k \in KeysIn(r, c) PROVE k \in KeysIn(q, c) \cup Mark(p, c)
  <2>1. PICK i \in DOMAIN r : r[i].from = c /\ k = Key(r[i])
    BY <1>2, KeysMember
  <2> QED
    BY <1>1, <2>1, KeysMember DEF Mark
<1>3. ASSUME NEW k \in KeysIn(q, c) \cup Mark(p, c) PROVE k \in KeysIn(r, c)
  <2>1. CASE k \in KeysIn(q, c)
    <3>1. PICK i \in DOMAIN q : q[i].from = c /\ k = Key(q[i])
      BY <2>1, KeysMember
    <3>2. i \in DOMAIN r /\ r[i] = q[i]
      BY <1>1
    <3> QED
      BY <3>1, <3>2, KeysMember
  <2>2. CASE k \in Mark(p, c)
    <3>1. Len(r) \in DOMAIN r
      BY <1>1
    <3> QED
      BY <1>1, <2>2, <3>1, KeysMember DEF Mark
  <2> QED
    BY <1>3, <2>1, <2>2
<1> QED
  BY <1>2, <1>3 DEF r

LEMMA BothOfAppend ==
  ASSUME NEW q \in Seq(Packet), NEW p \in Packet, NEW c
  PROVE  BothIn(Append(q, p), c) = BothIn(q, c) \cup Both(p, c)
<1> DEFINE r == Append(q, p)
<1>1. /\ Len(r) = Len(q) + 1 /\ Len(q) \in Nat
      /\ DOMAIN q = 1..Len(q) /\ DOMAIN r = 1..Len(r)
      /\ \A i \in 1..Len(q) : r[i] = q[i]
      /\ r[Len(r)] = p
  OBVIOUS
<1> HIDE DEF r
<1>2. ASSUME NEW k \in BothIn(r, c) PROVE k \in BothIn(q, c) \cup Both(p, c)
  <2>1. PICK i \in DOMAIN r : r[i].from = c /\ k \in Keys(r[i])
    BY <1>2, BothMember
  <2> QED
    BY <1>1, <2>1, BothMember DEF Both
<1>3. ASSUME NEW k \in BothIn(q, c) \cup Both(p, c) PROVE k \in BothIn(r, c)
  <2>1. CASE k \in BothIn(q, c)
    <3>1. PICK i \in DOMAIN q : q[i].from = c /\ k \in Keys(q[i])
      BY <2>1, BothMember
    <3>2. i \in DOMAIN r /\ r[i] = q[i]
      BY <1>1
    <3> QED
      BY <3>1, <3>2, BothMember
  <2>2. CASE k \in Both(p, c)
    <3>1. Len(r) \in DOMAIN r
      BY <1>1
    <3> QED
      BY <1>1, <2>2, <3>1, BothMember DEF Both
  <2> QED
    BY <1>3, <2>1, <2>2
<1> QED
  BY <1>2, <1>3 DEF r

LEMMA KeysOfTail ==
  ASSUME NEW q \in Seq(Packet), q # <<>>, NEW c
  PROVE  KeysIn(q, c) = KeysIn(Tail(q), c) \cup Mark(Head(q), c)
<1> DEFINE r == Tail(q)
<1>1. /\ Len(r) = Len(q) - 1 /\ Len(q) \in Nat \ {0}
      /\ DOMAIN q = 1..Len(q) /\ DOMAIN r = 1..Len(r)
      /\ \A i \in 1..Len(r) : r[i] = q[i + 1]
      /\ Head(q) = q[1]
  OBVIOUS
<1> HIDE DEF r
<1>2. ASSUME NEW k \in KeysIn(r, c) \cup Mark(Head(q), c) PROVE k \in KeysIn(q, c)
  <2>1. CASE k \in KeysIn(r, c)
    <3>1. PICK i \in DOMAIN r : r[i].from = c /\ k = Key(r[i])
      BY <2>1, KeysMember
    <3>2. i + 1 \in DOMAIN q /\ r[i] = q[i + 1]
      BY <1>1
    <3> QED
      BY <3>1, <3>2, KeysMember
  <2>2. CASE k \in Mark(Head(q), c)
    <3>1. 1 \in DOMAIN q
      BY <1>1
    <3> QED
      BY <1>1, <2>2, <3>1, KeysMember DEF Mark
  <2> QED
    BY <1>2, <2>1, <2>2
<1>3. ASSUME NEW k \in KeysIn(q, c) PROVE k \in KeysIn(r, c) \cup Mark(Head(q), c)
  <2>1. PICK i \in DOMAIN q : q[i].from = c /\ k = Key(q[i])
    BY <1>3, KeysMember
  <2>2. CASE i = 1
    BY <1>1, <2>1, <2>2 DEF Mark
  <2>3. CASE i # 1
    <3>1. i - 1 \in DOMAIN r /\ r[i - 1] = q[i]
      BY <1>1, <2>3
    <3> QED
      BY <2>1, <3>1, KeysMember
  <2> QED
    BY <2>2, <2>3
<1> QED
  BY <1>2, <1>3 DEF r

LEMMA BothOfTail ==
  ASSUME NEW q \in Seq(Packet), q # <<>>, NEW c
  PROVE  BothIn(q, c) = BothIn(Tail(q), c) \cup Both(Head(q), c)
<1> DEFINE r == Tail(q)
<1>1. /\ Len(r) = Len(q) - 1 /\ Len(q) \in Nat \ {0}
      /\ DOMAIN q = 1..Len(q) /\ DOMAIN r = 1..Len(r)
      /\ \A i \in 1..Len(r) : r[i] = q[i + 1]
      /\ Head(q) = q[1]
  OBVIOUS
<1> HIDE DEF r
<1>2. ASSUME NEW k \in BothIn(r, c) \cup Both(Head(q), c) PROVE k \in BothIn(q, c)
  <2>1. CASE k \in BothIn(r, c)
    <3>1. PICK i \in DOMAIN r : r[i].from = c /\ k \in Keys(r[i])
      BY <2>1, BothMember
    <3>2. i + 1 \in DOMAIN q /\ r[i] = q[i + 1]
      BY <1>1
    <3> QED
      BY <3>1, <3>2, BothMember
  <2>2. CASE k \in Both(Head(q), c)
    <3>1. 1 \in DOMAIN q
      BY <1>1
    <3> QED
      BY <1>1, <2>2, <3>1, BothMember DEF Both
  <2> QED
    BY <1>2, <2>1, <2>2
<1>3. ASSUME NEW k \in BothIn(q, c) PROVE k \in BothIn(r, c) \cup Both(Head(q), c)
  <2>1. PICK i \in DOMAIN q : q[i].from = c /\ k \in Keys(q[i])
    BY <1>3, BothMember
  <2>2. CASE i = 1
    BY <1>1, <2>1, <2>2 DEF Both
  <2>3. CASE i # 1
    <3>1. i - 1 \in DOMAIN r /\ r[i - 1] = q[i]
      BY <1>1, <2>3
    <3> QED
      BY <2>1, <3>1, BothMember
  <2> QED
    BY <2>2, <2>3
<1> QED
  BY <1>2, <1>3 DEF r

\* Queues that a packet has joined, or whose first packet has left.
LEMMA JoinsExactly ==
  ASSUME NEW D, NEW f, NEW g, NEW d, NEW p, Joins(D, f, g, d, p), NEW c
  PROVE  /\ AllKeys(g, c) = AllKeys(f, c) \cup Mark(p, c)
         /\ AllBoth(g, c) = AllBoth(f, c) \cup Both(p, c)
<1>1. f \in [D -> Seq(Packet)] /\ f[d] \in Seq(Packet) /\ d \in D /\ p \in Packet
  BY DEF Joins
<1>2. /\ DOMAIN f = D /\ DOMAIN g = D /\ g[d] = Append(f[d], p)
      /\ \A e \in D : e # d => g[e] = f[e]
  BY <1>1 DEF Joins
<1>3. /\ KeysIn(g[d], c) = KeysIn(f[d], c) \cup Mark(p, c)
      /\ BothIn(g[d], c) = BothIn(f[d], c) \cup Both(p, c)
  BY <1>1, <1>2, KeysOfAppend, BothOfAppend
<1>4. ASSUME NEW k
      PROVE  k \in AllKeys(g, c) <=> k \in AllKeys(f, c) \cup Mark(p, c)
  BY <1>1, <1>2, <1>3, AllKeysMember
<1>5. ASSUME NEW k
      PROVE  k \in AllBoth(g, c) <=> k \in AllBoth(f, c) \cup Both(p, c)
  BY <1>1, <1>2, <1>3, AllBothMember
<1> QED
  BY <1>4, <1>5

LEMMA LeavesExactly ==
  ASSUME NEW D, NEW f, NEW g, NEW d, Leaves(D, f, g, d), NEW c
  PROVE  /\ AllKeys(f, c) = AllKeys(g, c) \cup Mark(Head(f[d]), c)
         /\ AllBoth(f, c) = AllBoth(g, c) \cup Both(Head(f[d]), c)
<1> DEFINE p == Head(f[d])
<1>1. f \in [D -> Seq(Packet)] /\ f[d] \in Seq(Packet) /\ d \in D /\ f[d] # <<>>
  BY DEF Leaves
<1>2. /\ DOMAIN f = D /\ DOMAIN g = D /\ g[d] = Tail(f[d])
      /\ \A e \in D : e # d => f[e] = g[e]
  BY <1>1 DEF Leaves
<1>3. /\ KeysIn(f[d], c) = KeysIn(g[d], c) \cup Mark(p, c)
      /\ BothIn(f[d], c) = BothIn(g[d], c) \cup Both(p, c)
  BY <1>1, <1>2, KeysOfTail, BothOfTail
<1> HIDE DEF p
<1>4. ASSUME NEW k
      PROVE  k \in AllKeys(f, c) <=> k \in AllKeys(g, c) \cup Mark(p, c)
  BY <1>1, <1>2, <1>3, AllKeysMember
<1>5. ASSUME NEW k
      PROVE  k \in AllBoth(f, c) <=> k \in AllBoth(g, c) \cup Both(p, c)
  BY <1>1, <1>2, <1>3, AllBothMember
<1> QED
  BY <1>4, <1>5 DEF p

\* A relay that gets a packet of its own, keeps its packet's key, or loses it.
LEMMA CarriedGets ==
  ASSUME NEW r \in [Line -> RelayThread], NEW q \in [Line -> RelayThread],
         NEW s \in Line, NEW c, r[s].data.from # c,
         \A t \in Line \ {s} : q[t].data = r[t].data
  PROVE  Carried(q, c) = Carried(r, c) \cup Mark(q[s].data, c)
<1>1. DOMAIN r = Line /\ DOMAIN q = Line
  OBVIOUS
<1>2. ASSUME NEW k
      PROVE  k \in Carried(q, c) <=> k \in Carried(r, c) \cup Mark(q[s].data, c)
  BY <1>1, CarriedMember DEF Mark
<1> QED
  BY <1>2

\* An acknowledgement that is still to come is there with its exchange.
Paired(K) == \A k \in K : k % 2 = 1 => k - 1 \in K

LEMMA KeysPaired ==
  ASSUME NEW p \in Packet
  PROVE  Paired(Keys(p))
<1>1. p.id \in Nat
  BY DEF Packet
<1> QED
  BY <1>1 DEF Paired, Keys

LEMMA BothPaired ==
  ASSUME NEW q \in Seq(Packet), NEW c
  PROVE  Paired(BothIn(q, c))
<1> SUFFICES ASSUME NEW k \in BothIn(q, c), k % 2 = 1 PROVE k - 1 \in BothIn(q, c)
  BY DEF Paired
<1>1. PICK i \in DOMAIN q : q[i].from = c /\ k \in Keys(q[i])
  BY BothMember
<1>2. k - 1 \in Keys(q[i])
  BY <1>1, KeysPaired DEF Paired
<1> QED
  BY <1>1, <1>2, BothMember

LEMMA AllBothPaired ==
  ASSUME NEW D, NEW f \in [D -> Seq(Packet)], NEW c
  PROVE  Paired(AllBoth(f, c))
<1> SUFFICES ASSUME NEW k \in AllBoth(f, c), k % 2 = 1 PROVE k - 1 \in AllBoth(f, c)
  BY DEF Paired
<1>1. PICK e \in D : k \in BothIn(f[e], c)
  BY AllBothMember
<1>2. k - 1 \in BothIn(f[e], c)
  BY <1>1, BothPaired DEF Paired
<1> QED
  BY <1>2, AllBothMember

LEMMA HeldPaired ==
  ASSUME NEW h \in HandlerThread
  PROVE  Paired(HeldBy(h))
BY KeysPaired DEF HeldBy, HandlerThread, Paired

LEMMA PairedUnion ==
  ASSUME NEW K, NEW L, Paired(K), Paired(L)
  PROVE  Paired(K \cup L)
BY DEF Paired

\* What is left when a place X between the places L and U loses what is not in Y.
LEMMA PartLeft ==
  ASSUME NEW L \in SUBSET Int, NEW X \in SUBSET Int, NEW U \in SUBSET Int,
         NEW Y \in SUBSET X,
         \A k \in L, l \in X : k < l,
         Paired(U), \A k \in Y : k % 2 = 1 /\ k - 1 \in X => k - 1 \in Y
  PROVE  Service!Remains(L \cup X \cup U, L \cup Y \cup U)
<1> SUFFICES ASSUME NEW k \in L \cup Y \cup U, k % 2 = 1, k - 1 \in X
             PROVE  k - 1 \in Y \cup U
  BY DEF Service!Remains
<1>1. CASE k \in L
  <2>1. k < k - 1
    BY <1>1
  <2>2. k \in Int
    BY <1>1
  <2> QED
    BY <2>1, <2>2
<1>2. CASE k \in Y
  BY <1>2
<1>3. CASE k \in U
  BY <1>3 DEF Paired
<1> QED
  BY <1>1, <1>2, <1>3

LEMMA AllLeft ==
  ASSUME NEW K
  PROVE  Service!Remains(K, K)
BY DEF Service!Remains
-----------------------------------------------------------------------------
(* What a relay carries, and the clients that have gone. *)

\* A relay that is about to receive has dealt with its packet.
LEMMA RestStep ==
  ASSUME ProxyInv, NamedInv, [Next]_vars, NEW s \in Line,
         relay'[s].pc \in Resting
  PROVE  \/ relay[s].pc \in Resting /\ relay'[s].data = relay[s].data
         \/ relay[s].data.from = NoSlot /\ relay'[s].data = relay[s].data
         \/ relay'[s].data = Zero
<1> DEFINE x(t, p) == [relay[t] EXCEPT !.pc = p]
<1>1. /\ relay \in [Line -> RelayThread]
      /\ \A t \in Line : \A p : x(t, p).pc = p /\ x(t, p).data = relay[t].data
  BY DEF ProxyInv, TypeOK, RelayThread
<1>2. CASE relay'[s] = relay[s]
  BY <1>2
<1>3. CASE RelayTest(s)
  BY <1>1, <1>3 DEF RelayTest, Resting
<1>4. CASE RelayReceive(s)
  <2> DEFINE y(p) == [relay[s] EXCEPT !.pc = "lookup", !.i = 0, !.data = p]
  <2>1. PICK p : relay' = [relay EXCEPT ![s] = y(p)]
    BY <1>4 DEF RelayReceive
  <2>2. y(p).pc = "lookup"
    BY <1>1 DEF RelayThread
  <2>3. relay'[s].pc = "lookup"
    <3> HIDE DEF y
    <3> QED
      BY <1>1, <2>1, <2>2
  <2> QED
    BY <2>3 DEF Resting
<1>5. CASE RelayError(s) \/ RelayCancelled(s)
  <2>1. relay' = [relay EXCEPT ![s] = x(s, "exit")]
    BY <1>5 DEF RelayError, RelayCancelled
  <2>2. relay'[s].pc = "exit"
    <3> HIDE DEF x
    <3> QED
      BY <1>1, <2>1
  <2> QED
    BY <2>2 DEF Resting
<1>6. CASE RelayLookup(s)
  <2> DEFINE y == [relay[s] EXCEPT !.i = relay[s].i + 1]
  <2>1. y.pc = relay[s].pc /\ relay[s].pc \in {"lookup", "origin"}
    BY <1>1, <1>6 DEF RelayThread, RelayLookup
  <2>2. PICK p \in {"check", "send"} :
          \/ relay' = [relay EXCEPT ![s] = x(s, p)]
          \/ relay' = [relay EXCEPT ![s] = y]
    BY <1>6 DEF RelayLookup
  <2>3. relay'[s].pc \in {"lookup", "origin", "check", "send"}
    <3> HIDE DEF x, y
    <3> QED
      BY <1>1, <2>1, <2>2
  <2> QED
    BY <2>3 DEF Resting
<1>7. CASE RelayCheck(s)
  <2> DEFINE y == Returned(relay[s])
  <2>1. y.pc = "origin" /\ relay'[s] \in {x(s, "send"), y}
    BY <1>1, <1>7 DEF Returned, RelayCheck, RelayThread
  <2>2. relay'[s].pc \in {"origin", "send"}
    <3> HIDE DEF x, y
    <3> QED
      BY <1>1, <2>1
  <2> QED
    BY <2>2 DEF Resting
<1>8. CASE RelayReadFd(s)
  <2> DEFINE r == [relay[s] EXCEPT !.pc = "write", !.fd = client[relay[s].i].sock_fd]
  <2>1. r.pc = "write" /\ relay' = [relay EXCEPT ![s] = r]
    BY <1>1, <1>8 DEF RelayReadFd, RelayThread
  <2>2. relay'[s].pc = "write"
    <3> HIDE DEF r
    <3> QED
      BY <1>1, <2>1
  <2> QED
    BY <2>2 DEF Resting
<1>9. CASE \E t \in Line \ {s} : Relay(t)
  <2>1. relay'[s] = relay[s]
    BY <1>1, <1>9
    DEF Relay, RelayTest, RelayReceive, RelayError, RelayLookup, RelayNull,
        RelayCheck, RelayReadFd, RelayWrite, RelayCancelled
  <2> QED
    BY <1>2, <2>1
<1>10. CASE OpenServer
  <2>1. PICK p \in {"test", "none"} :
          relay' = [relay EXCEPT ![nb_servers] = x(nb_servers, p)]
    BY <1>10 DEF OpenServer, Created
  <2>2. CASE s = nb_servers
    <3>1. \A c \in Slot : client[c].server = NoLine
      <4>1. \A c \in Slot : ~Has(c, Placed)
        BY <1>10 DEF OpenServer, Has, Placed, ProxyInv, MainInv, Slot
      <4> QED
        BY <4>1 DEF ProxyInv, SlotInv
    <3>2. relay[s].data.from = NoSlot
      BY <3>1 DEF NamedInv, Kept, At, Line, NoLine
    <3>3. relay'[s].data = relay[s].data
      <4> HIDE DEF x
      <4> QED
        BY <1>1, <2>1, <2>2
    <3> QED
      BY <3>2, <3>3
  <2>3. CASE s # nb_servers
    BY <1>1, <1>2, <2>1, <2>3
  <2> QED
    BY <2>2, <2>3
<1>11. CASE RelayWrite(s)
  BY <1>11, DataWrite
<1>12. CASE RelayNull(s)
  BY <1>2, <1>12 DEF RelayNull
<1>13. Relay(s) => \/ RelayTest(s) \/ RelayReceive(s) \/ RelayError(s)
                   \/ RelayLookup(s) \/ RelayNull(s) \/ RelayCheck(s)
                   \/ RelayReadFd(s) \/ RelayWrite(s) \/ RelayCancelled(s)
  BY DEF Relay
<1> QED
  BY <1>2, <1>3, <1>4, <1>5, <1>6, <1>7, <1>8, <1>9, <1>10, <1>11, <1>12, <1>13,
     RelayChangers

LEMMA RoutedInit == Init => RoutedInv
BY DEF Init, RoutedInv, Zero

LEMMA RoutedNext == ProxyInv /\ NamedInv /\ RoutedInv /\ [Next]_vars => RoutedInv'
<1> SUFFICES ASSUME ProxyInv, NamedInv, RoutedInv, [Next]_vars, NEW s \in Line
             PROVE  IF relay'[s].data.from = NoSlot
                    THEN relay'[s].data.dest = NoAddr /\ relay'[s].data.origin = NoAddr
                    ELSE /\ relay'[s].data.type \in {"CEX", "EOC", "ACK", "EOF"}
                         /\ relay'[s].pc \notin Resting
  BY DEF RoutedInv
<1> DEFINE p == relay[s].data
<1>1. /\ p \in Packet /\ Kept(relay[s], s)
      /\ IF p.from = NoSlot THEN p.dest = NoAddr /\ p.origin = NoAddr
                            ELSE /\ p.type \in {"CEX", "EOC", "ACK", "EOF"}
                                 /\ relay[s].pc \notin Resting
  BY DEF ProxyInv, TypeOK, RelayThread, NamedInv, RoutedInv
<1> SUFFICES IF relay'[s].data.from = NoSlot
             THEN relay'[s].data.dest = NoAddr /\ relay'[s].data.origin = NoAddr
             ELSE relay'[s].data.type \in {"CEX", "EOC", "ACK", "EOF"}
  <2>1. relay'[s].pc \in Resting => relay'[s].data.from = NoSlot
    BY <1>1, RestStep DEF Zero
  <2> QED
    BY <2>1
<1>2. CASE relay'[s].data = p
  BY <1>1, <1>2
<1>3. CASE relay'[s].data = Zero
  BY <1>3 DEF Zero
<1>4. CASE RelayReceive(s)
  <2>1. CASE returning[s] # <<>> /\ relay'[s].data = Head(returning[s])
    <3>1. returning[s] \in Seq(Packet)
      BY ReturningType
    <3>2. Back(Head(returning[s]), s)
      BY <2>1, <3>1, TailItems DEF NamedInv
    <3> QED
      BY <2>1, <3>2 DEF Back, At, Slot, NoSlot
  <2> QED
    BY <1>3, <1>4, <2>1, DataReceive
<1>5. CASE RelayCheck(s)
  <2>1. relay[s].pc = "check" /\ relay'[s].data \in {p, Bounced(p)}
    BY <1>5, DataCheck
  <2>2. CASE p.from = NoSlot
    <3>1. /\ Bounced(p).from = p.from /\ Bounced(p).dest = p.dest
          /\ Bounced(p).origin = p.origin
      BY <1>1 DEF Bounced, Packet
    <3> QED
      BY <1>1, <2>1, <2>2, <3>1
  <2>3. CASE p.from # NoSlot
    <3>1. /\ Bounced(p).from = p.from
          /\ Bounced(p).type = IF p.type = "CEX" THEN "EOC" ELSE "EOF"
      BY <1>1, BouncedPacket
    <3> HIDE DEF p
    <3> QED
      BY <1>1, <2>1, <2>3, <3>1
  <2> QED
    BY <2>2, <2>3
<1>6. CASE RelayWrite(s)
  BY <1>3, <1>6, DataWrite
<1> QED
  BY <1>2, <1>4, <1>5, <1>6, DataStep

\* What a client has still to say: it counts its exchanges until it has gone.
LEMMA PeerStep ==
  ASSUME ProxyInv, LinkInv, GoneInv, [Next]_vars, NEW c \in Slot
  PROVE  \/ /\ peer'[c].sent = peer[c].sent
            /\ peer'[c].pc = "gone" <=> peer[c].pc = "gone"
         \/ PeerSend(c) \/ PeerClose(c)
<1>1. /\ peer \in [Slot -> PeerState]
      /\ \A d \in Slot : peer[d] \in PeerState
  BY DEF ProxyInv, TypeOK
<1>2. CASE peer' = peer
  BY <1>2
<1>3. ASSUME NEW d \in Slot, NEW x, peer' = [peer EXCEPT ![d] = x],
             x.sent = peer[d].sent, x.pc = "gone" <=> peer[d].pc = "gone"
      PROVE  peer'[c].sent = peer[c].sent /\ (peer'[c].pc = "gone" <=> peer[c].pc = "gone")
  BY <1>1, <1>3
<1> DEFINE a(d, pc) == [peer[d] EXCEPT !.pc = pc]
           b(d, g) == [peer[d] EXCEPT !.pc = "ask", !.gets = g]
           e(d, n) == [peer[d] EXCEPT !.pc = "menu", !.seen = n]
           f(d, to) == [peer[d] EXCEPT !.pc = "chat", !.dest = to]
<1>4. \A d \in Slot : \A x :
        /\ a(d, x).sent = peer[d].sent /\ a(d, x).pc = x
        /\ b(d, x).sent = peer[d].sent /\ b(d, x).pc = "ask"
        /\ e(d, x).sent = peer[d].sent /\ e(d, x).pc = "menu"
        /\ f(d, x).sent = peer[d].sent /\ f(d, x).pc = "chat"
  BY <1>1 DEF PeerState
<1>5. CASE Accept
  <2>1. nb_clients \in Slot
    BY <1>5, ConstantsOK DEF Accept, TableFull, ProxyInv, TypeOK, Slot
  <2>2. peer[nb_clients].pc # "gone"
    <3>1. ~Has(nb_clients, Filling)
      BY <1>5, ConstantsOK DEF Accept, Has, Filling, ProxyInv, TypeOK
    <3>2. link[nb_clients] = "none"
      BY <2>1, <3>1 DEF LinkInv
    <3> QED
      BY <2>1, <3>2 DEF GoneInv
  <2>3. peer' = [peer EXCEPT ![nb_clients] = a(nb_clients, "auth")]
    BY <1>5 DEF Accept
  <2> HIDE DEF a
  <2> QED
    BY <1>3, <1>4, <2>1, <2>2, <2>3
<1>6. CASE \E d \in Slot : Peer(d)
  <2>1. PICK d \in Slot : Peer(d)
    BY <1>6
  <2>2. CASE PeerAuth(d) \/ PeerName(d) \/ PeerEnd(d)
    <3>1. PICK pc \in {"pseudo", "menu", "wait", "over"} :
            peer' = [peer EXCEPT ![d] = a(d, pc)]
      BY <2>2 DEF PeerAuth, PeerName, PeerEnd, Says
    <3>2. peer[d].pc # "gone"
      BY <2>2 DEF PeerAuth, PeerName, PeerEnd
    <3> HIDE DEF a
    <3> QED
      BY <1>3, <1>4, <3>1, <3>2
  <2>3. CASE PeerAsk(d)
    <3>1. peer' = [peer EXCEPT ![d] = b(d, peer[d].gets + 1)] /\ peer[d].pc = "menu"
      BY <2>3 DEF PeerAsk
    <3> HIDE DEF b
    <3> QED
      BY <1>3, <1>4, <3>1
  <2>4. CASE PeerAnswered(d)
    <3>1. peer' = [peer EXCEPT ![d] = e(d, peer[d].seen + 1)] /\ peer[d].pc = "wait"
      BY <2>4 DEF PeerAnswered
    <3> HIDE DEF e
    <3> QED
      BY <1>3, <1>4, <3>1
  <2>5. CASE PeerBegin(d)
    <3>1. PICK to : peer' = [peer EXCEPT ![d] = f(d, to)]
      BY <2>5 DEF PeerBegin
    <3>2. peer[d].pc = "menu"
      BY <2>5 DEF PeerBegin
    <3> HIDE DEF f
    <3> QED
      BY <1>3, <1>4, <3>1, <3>2
  <2>6. CASE (PeerSend(d) \/ PeerClose(d)) /\ d # c
    BY <1>1, <2>6 DEF PeerSend, PeerClose
  <2> QED
    BY <2>1, <2>2, <2>3, <2>4, <2>5, <2>6 DEF Peer
<1>7. CASE \E d \in Slot : Handler(d)
  BY <1>2, <1>7
  DEF Handler, Enter, Increment, LoopTest, LockToReceive, Receive, ReceiveEnd,
      ReceiveError, ReceiveName, SearchName, Answer, Forward, MarkClosed,
      Uncount, Decrement, CloseSocket, LockToRelease, ReleaseLoad, ReadCount,
      WriteCount
<1>8. CASE \/ \E s \in Line : Relay(s) \/ Serve(s) \/ ServerDies(s)
           \/ UNCHANGED vars
  BY <1>2, <1>8
  DEF Relay, RelayTest, RelayReceive, RelayError, RelayLookup, RelayNull,
      RelayCheck, RelayReadFd, RelayWrite, RelayCancelled, Serve, ServerReads,
      ServerWrites, ServerDies, vars
<1>9. CASE Proceed
  BY <1>2, <1>9
  DEF Proceed, OpenServer, SkipServer, PublishServer, EndOfFile, Scan,
      LockLeast, Assign, LockAssigned, AddLoad, Spawn, CountClient,
      JoinHandlers, SendEoj, JoinRelay, JoinUnstarted, Stop
<1> QED
  BY <1>5, <1>6, <1>7, <1>8, <1>9 DEF Next

LEMMA GoneInit == Init => GoneInv
BY DEF Init, GoneInv, NoPeer

LEMMA GoneNext == ProxyInv /\ LinkInv /\ GoneInv /\ [Next]_vars => GoneInv'
<1> SUFFICES ASSUME ProxyInv, LinkInv, GoneInv, [Next]_vars,
                    NEW c \in Slot, peer'[c].pc = "gone"
             PROVE  link'[c] \notin {"none", "open"}
  BY DEF GoneInv
<1>1. CASE PeerClose(c)
  BY <1>1 DEF PeerClose, AfterClose, ProxyInv, TypeOK
<1>2. CASE PeerSend(c)
  <2> DEFINE x == [peer[c] EXCEPT !.sent = peer[c].sent + 1]
  <2>1. peer' = [peer EXCEPT ![c] = x] /\ peer[c].pc = "chat"
    BY <1>2 DEF PeerSend
  <2>2. x.pc = peer[c].pc
    BY DEF ProxyInv, TypeOK, PeerState
  <2> HIDE DEF x
  <2> QED
    BY <2>1, <2>2 DEF ProxyInv, TypeOK
<1>3. CASE peer[c].pc = "gone"
  <2>1. link[c] \notin {"none", "open"}
    BY <1>3 DEF GoneInv
  <2>2. ~(Accept /\ c = nb_clients)
    <3> SUFFICES ASSUME Accept, c = nb_clients PROVE FALSE
      OBVIOUS
    <3>1. ~Has(c, Filling)
      BY ConstantsOK DEF Accept, Has, Filling, ProxyInv, TypeOK
    <3> QED
      BY <2>1, <3>1 DEF LinkInv
  <2> QED
    BY <2>1, <2>2, LinkStep
<1> QED
  BY <1>1, <1>2, <1>3, PeerStep
-----------------------------------------------------------------------------
(* Where the items due are. *)

LEMMA DueMember ==
  ASSUME NEW c \in Slot, NEW k
  PROVE  /\ k \in dueBar[c] <=>
              \/ k \in Carried(relay, c) \/ k \in AllKeys(returning, c)
              \/ k \in AllBoth(toServer, c) \/ k \in HeldBy(handler[c])
              \/ k \in BothIn(up[c], c)
         /\ k \in dueBar'[c] <=>
              \/ k \in Carried(relay', c) \/ k \in AllKeys(returning', c)
              \/ k \in AllBoth(toServer', c) \/ k \in HeldBy(handler'[c])
              \/ k \in BothIn(up'[c], c)
BY DEF dueBar

LEMMA SameDue ==
  ASSUME NEW c \in Slot, \A k : k \in dueBar'[c] <=> k \in dueBar[c]
  PROVE  dueBar'[c] = dueBar[c]
<1> DEFINE D == dueBar[c]
           E == dueBar'[c]
<1>1. \A k : k \in E <=> k \in D
  OBVIOUS
<1> HIDE DEF D, E
<1>2. E = D
  BY <1>1
<1> QED
  BY <1>2 DEF D, E

\* A handler holds a packet from its receive to its forward.
LEMMA HandledStep ==
  ASSUME ProxyInv, [Next]_vars, NEW c \in Slot
  PROVE  \/ HeldBy(handler'[c]) = HeldBy(handler[c])
         \/ Receive(c) \/ Forward(c)
<1>1. CASE handler'[c] = handler[c]
  BY <1>1
<1>2. CASE handler[c].pc # "forward" /\ handler'[c].pc # "forward"
  BY <1>2 DEF HeldBy
<1>3. CASE handler[c].pc = "forward" /\ handler'[c] # handler[c]
  <2>1. CASE Spawn
    <3>1. PICK pc : handler' = [handler EXCEPT ![nb_clients].pc = pc]
      BY <2>1 DEF Spawn
    <3>2. c = nb_clients /\ mpc = "spawn"
      BY <1>3, <2>1, <3>1 DEF Spawn, ProxyInv, TypeOK
    <3>3. ~Has(c, {"count"})
      BY <3>2, ConstantsOK DEF Has, ProxyInv, TypeOK
    <3> QED
      BY <1>3, <3>3 DEF ProxyInv, SlotInv
  <2>2. CASE Handler(c)
    BY <1>3, <2>2
    DEF Handler, Enter, Increment, LoopTest, LockToReceive, Receive, ReceiveEnd,
        ReceiveError, ReceiveName, SearchName, Answer, MarkClosed, Uncount,
        Decrement, CloseSocket, LockToRelease, ReleaseLoad, ReadCount,
        WriteCount, Step, Resume
  <2>3. CASE \E e \in Slot \ {c} : Handler(e)
    BY <1>3, <2>3
    DEF Handler, Enter, Increment, LoopTest, LockToReceive, Receive, ReceiveEnd,
        ReceiveError, ReceiveName, SearchName, Answer, Forward, MarkClosed,
        Uncount, Decrement, CloseSocket, LockToRelease, ReleaseLoad, ReadCount,
        WriteCount, Step, Resume, ProxyInv, TypeOK
  <2> QED
    BY <1>3, <2>1, <2>2, <2>3
    DEF Next, Proceed, Accept, OpenServer, SkipServer, PublishServer, EndOfFile,
     Scan, LockLeast, Assign, LockAssigned, AddLoad, CountClient, JoinHandlers,
     SendEoj, JoinRelay, JoinUnstarted, Stop, vars, Relay, RelayTest,
     RelayReceive, RelayError, RelayLookup, RelayNull, RelayCheck, RelayReadFd,
     RelayWrite, RelayCancelled, Serve, ServerReads, ServerWrites, ServerDies,
     Peer, PeerAuth, PeerAsk, PeerName, PeerAnswered, PeerBegin, PeerSend,
     PeerEnd, PeerClose
<1>4. CASE handler'[c].pc = "forward" /\ handler'[c] # handler[c]
  BY <1>4, ForwardReceived
<1> QED
  BY <1>1, <1>2, <1>3, <1>4

\* A relay keeps the key of its packet until it has sent it.
LEMMA CarriedStep ==
  ASSUME ProxyInv, NamedInv, [Next]_vars, relay' \in [Line -> RelayThread],
         NEW c \in Slot, \A s \in Line : ~RelayReceive(s) /\ ~RelayWrite(s)
  PROVE  Carried(relay', c) = Carried(relay, c)
<1>1. relay \in [Line -> RelayThread] /\ DOMAIN relay = Line /\ DOMAIN relay' = Line
  BY DEF ProxyInv, TypeOK
<1>2. ASSUME NEW s \in Line
      PROVE  LET p == relay[s].data
                 q == relay'[s].data
             IN  /\ q.from = c <=> p.from = c
                 /\ p.from = c => Key(q) = Key(p)
  <2> DEFINE p == relay[s].data
             q == relay'[s].data
  <2>1. CASE q = p
    BY <2>1
  <2>2. CASE RelayCheck(s) /\ q = Bounced(p)
    <3>1. p \in Packet
      BY <1>1 DEF RelayThread
    <3>2. p.from = c => p.type \in {"CEX", "ACK"}
      BY <2>2, DataCheck DEF NamedInv, Kept, Back, Slot, NoSlot
    <3> HIDE DEF p, q
    <3> QED
      BY <2>2, <3>1, <3>2, BouncedPacket DEF Key, p, q
  <2> QED
    BY <2>1, <2>2, DataStep, DataCheck
<1>3. ASSUME NEW k PROVE k \in Carried(relay', c) <=> k \in Carried(relay, c)
  BY <1>1, <1>2, CarriedMember
<1> QED
  BY <1>3

LEMMA RelayReceiveKeeps ==
  ASSUME ProxyInv, NamedInv, RoutedInv, relay' \in [Line -> RelayThread],
         NEW s \in Line, RelayReceive(s), NEW c \in Slot
  PROVE  dueBar'[c] = dueBar[c]
<1>1. /\ relay \in [Line -> RelayThread]
      /\ returning \in [Line -> Seq(Packet)] /\ DOMAIN returning = Line
  BY ReturningType DEF ProxyInv, TypeOK
<1>2. toServer' = toServer /\ handler' = handler /\ up' = up
  BY DEF RelayReceive, netVars
<1>3. relay[s].data.from # c
  BY DEF RelayReceive, RoutedInv, Resting, Slot, NoSlot
<1>4. \A t \in Line \ {s} : relay'[t] = relay[t]
  BY <1>1 DEF RelayReceive
<1>5. Carried(relay', c) = Carried(relay, c) \cup Mark(relay'[s].data, c)
  <2> DEFINE q == relay'
  <2>1. relay \in [Line -> RelayThread] /\ q \in [Line -> RelayThread]
    BY <1>1
  <2>2. \A t \in Line \ {s} : q[t].data = relay[t].data
    BY <1>4
  <2> HIDE DEF q
  <2>3. Carried(q, c) = Carried(relay, c) \cup Mark(q[s].data, c)
    BY <1>3, <2>1, <2>2, CarriedGets
  <2> QED
    BY <2>3 DEF q
<1>6. AllKeys(returning, c) = AllKeys(returning', c) \cup Mark(relay'[s].data, c)
  <2>1. CASE /\ returning[s] # <<>> /\ relay'[s].data = Head(returning[s])
             /\ returning' = [returning EXCEPT ![s] = Tail(@)]
    <3>1. Leaves(Line, returning, returning', s)
      BY <1>1, <2>1 DEF Leaves
    <3> QED
      BY <2>1, <3>1, LeavesExactly
  <2>2. CASE relay'[s].data = Zero /\ returning' = returning
    <3>1. Mark(Zero, c) = {}
      BY DEF Mark, Zero, Slot, NoSlot
    <3> QED
      BY <2>2, <3>1
  <2> QED
    BY <2>1, <2>2, DataReceive
<1>7. \A k : k \in dueBar'[c] <=> k \in dueBar[c]
  BY <1>2, <1>5, <1>6, DueMember
<1> QED
  BY <1>7, SameDue

LEMMA ServerReadsKeeps ==
  ASSUME ProxyInv, NamedInv, NEW t \in Line, ServerReads(t), NEW c \in Slot
  PROVE  dueBar'[c] = dueBar[c]
<1> DEFINE p == Head(toServer[t])
           a == Ack(p)
<1>1. /\ toServer \in [Line -> Seq(Packet)] /\ DOMAIN toServer = Line
      /\ returning \in [Line -> Seq(Packet)] /\ DOMAIN returning = Line
  BY ReturningType DEF ProxyInv, TypeOK
<1>2. relay' = relay /\ handler' = handler /\ up' = up
  BY DEF ServerReads, netVars
<1>3. /\ toServer[t] # <<>> /\ p \in Packet
      /\ toServer' = [toServer EXCEPT ![t] = Tail(@)]
      /\ \/ returning' = returning /\ p.from = NoSlot
         \/ /\ p.type = "CEX" /\ a \in Packet
            /\ returning' = [returning EXCEPT ![t] = Append(Append(@, p), a)]
  BY Served
<1>4. AllBoth(toServer, c) = AllBoth(toServer', c) \cup Both(p, c)
  <2>1. Leaves(Line, toServer, toServer', t)
    BY <1>1, <1>3 DEF Leaves
  <2> QED
    BY <2>1, LeavesExactly
<1>5. AllKeys(returning', c) = AllKeys(returning, c) \cup Both(p, c)
  <2>1. CASE returning' = returning /\ p.from = NoSlot
    BY <2>1 DEF Both, Slot, NoSlot
  <2>2. CASE /\ p.type = "CEX" /\ a \in Packet
             /\ returning' = [returning EXCEPT ![t] = Append(Append(@, p), a)]
    <3>1. Both(p, c) = Mark(p, c) \cup Mark(a, c)
      <4>1. a.from = p.from /\ a.id = p.id /\ a.type = "ACK" /\ p.id \in Nat
        BY <1>3 DEF Ack, Packet
      <4> HIDE DEF a, p
      <4>2. Key(p) = 2 * p.id /\ Key(a) = 2 * p.id + 1
        BY <2>2, <4>1 DEF Key
      <4> QED
        BY <4>1, <4>2 DEF Both, Mark, Keys
    <3> DEFINE f == [returning EXCEPT ![t] = Append(@, p)]
    <3>2. returning' = [f EXCEPT ![t] = Append(@, a)]
      BY <1>1, <2>2
    <3> HIDE DEF a, p
    <3>3. Joins(Line, returning, f, t, p)
      BY <1>1, <1>3 DEF Joins
    <3> HIDE DEF f
    <3>4. /\ f \in [Line -> Seq(Packet)]
          /\ AllKeys(f, c) = AllKeys(returning, c) \cup Mark(p, c)
      BY <3>3, JoinsKeys, JoinsExactly
    <3>5. Joins(Line, f, returning', t, a)
      BY <2>2, <3>2, <3>4 DEF Joins
    <3>6. AllKeys(returning', c) = AllKeys(f, c) \cup Mark(a, c)
      BY <3>5, JoinsExactly
    <3> QED
      BY <3>1, <3>4, <3>6
  <2> QED
    BY <1>3, <2>1, <2>2
<1> HIDE DEF p, a
<1>6. \A k : k \in dueBar'[c] <=> k \in dueBar[c]
  BY <1>2, <1>4, <1>5, DueMember
<1> QED
  BY <1>6, SameDue

LEMMA ReceiveKeeps ==
  ASSUME ProxyInv, NamedInv, NEW d \in Slot, Receive(d), NEW c \in Slot
  PROVE  dueBar'[c] = dueBar[c]
<1>1. relay' = relay /\ toServer' = toServer /\ returning' = returning
  BY DEF Receive, srvVars, returning, Returning
<1>2. CASE c # d
  <2>1. handler'[c] = handler[c] /\ up'[c] = up[c]
    BY <1>2 DEF Receive, ProxyInv, TypeOK
  <2>2. \A k : k \in dueBar'[c] <=> k \in dueBar[c]
    BY <1>1, <2>1, DueMember
  <2> QED
    BY <2>2, SameDue
<1>3. CASE c = d
  <2> DEFINE p == Head(up[c])
             x == [p EXCEPT !.origin = client[c].addr]
             h == [handler[c] EXCEPT !.pc = Branch(p.type), !.data = x]
  <2>1. /\ up[c] \in Seq(Packet) /\ up[c] # <<>> /\ up'[c] = Tail(up[c])
        /\ handler[c].pc = "recv"
        /\ handler'[c] = IF Branch(p.type) = "loop" THEN Idle ELSE h
    BY <1>3 DEF Receive, ProxyInv, TypeOK
  <2>2. p \in Packet /\ Said(p, c)
    BY <2>1, TailItems DEF NamedInv
  <2>3. /\ h.pc = Branch(p.type) /\ h.data = x /\ x.id = p.id
        /\ Idle.pc = "loop"
    BY <2>2 DEF ProxyInv, TypeOK, HandlerThread, Packet, Idle
  <2>4. BothIn(up[c], c) = BothIn(up'[c], c) \cup Both(p, c)
    BY <2>1, BothOfTail
  <2> HIDE DEF h, x, p
  <2>5. HeldBy(handler'[c]) = Both(p, c)
    <3>1. CASE p.from = NoSlot
      <4>1. Branch(p.type) # "forward"
        BY <2>2, <3>1 DEF Said, Branch
      <4>2. handler'[c].pc # "forward"
        BY <2>1, <2>3, <4>1
      <4>3. p.from # c
        BY <3>1 DEF Slot, NoSlot
      <4> QED
        BY <4>2, <4>3 DEF HeldBy, Both
    <3>2. CASE p.from # NoSlot
      <4>1. p.from = c /\ Branch(p.type) = "forward"
        BY <2>2, <3>2 DEF Said, Branch
      <4>2. handler'[c].pc = "forward" /\ handler'[c].data.id = p.id
        BY <2>1, <2>3, <4>1
      <4> QED
        BY <4>1, <4>2 DEF HeldBy, Both, Keys
    <3> QED
      BY <3>1, <3>2
  <2>6. HeldBy(handler[c]) = {}
    BY <2>1 DEF HeldBy
  <2>7. \A k : k \in dueBar'[c] <=> k \in dueBar[c]
    BY <1>1, <2>4, <2>5, <2>6, DueMember
  <2> QED
    BY <2>7, SameDue
<1> QED
  BY <1>2, <1>3

LEMMA EojKeeps ==
  ASSUME ProxyInv, SendEoj, NEW c \in Slot
  PROVE  dueBar'[c] = dueBar[c]
<1>1. /\ relay' = relay /\ returning' = returning /\ handler' = handler
      /\ up' = up
  BY DEF SendEoj, netVars, returning, Returning
<1>2. mi \in Line /\ SendServer(mi, Typed("EOJ"))
  BY ConstantsOK DEF SendEoj, ProxyInv, TypeOK, Line
<1>3. Typed("EOJ") \in Packet /\ Typed("EOJ").from # c
  BY DEF Typed, Zero, Packet, Data_type, Slot, NoSlot
<1>4. AllBoth(toServer', c) = AllBoth(toServer, c)
  <2>1. CASE toServer' = toServer
    BY <2>1
  <2>2. CASE toServer' = [toServer EXCEPT ![mi] = Append(@, Typed("EOJ"))]
    <3>1. Joins(Line, toServer, toServer', mi, Typed("EOJ"))
      BY <1>2, <1>3, <2>2 DEF Joins, ProxyInv, TypeOK
    <3>2. Both(Typed("EOJ"), c) = {}
      BY <1>3 DEF Both
    <3> QED
      BY <3>1, <3>2, JoinsExactly
  <2> QED
    BY <1>2, <2>1, <2>2 DEF SendServer
<1>5. \A k : k \in dueBar'[c] <=> k \in dueBar[c]
  BY <1>1, <1>4, DueMember
<1> QED
  BY <1>5, SameDue

LEMMA OtherSaidKeeps ==
  ASSUME ProxyInv, NEW d \in Slot,
         PeerAuth(d) \/ PeerAsk(d) \/ PeerName(d) \/ PeerBegin(d) \/ PeerEnd(d),
         NEW c \in Slot
  PROVE  dueBar'[c] = dueBar[c]
<1>1. /\ relay' = relay /\ returning' = returning /\ toServer' = toServer
      /\ handler' = handler
  BY DEF PeerAuth, PeerAsk, PeerName, PeerBegin, PeerEnd, srvVars, returning,
         Returning
<1>2. PICK p \in Packet : p.from = NoSlot /\ up' = [up EXCEPT ![d] = Append(@, p)]
  BY OtherSaid
<1>3. BothIn(up'[c], c) = BothIn(up[c], c)
  <2>1. up[c] \in Seq(Packet) /\ (up'[c] = up[c] \/ up'[c] = Append(up[c], p))
    BY <1>2 DEF ProxyInv, TypeOK
  <2>2. Both(p, c) = {}
    BY <1>2 DEF Both, Slot, NoSlot
  <2>3. BothIn(Append(up[c], p), c) = BothIn(up[c], c) \cup Both(p, c)
    BY <2>1, BothOfAppend
  <2> QED
    BY <2>1, <2>2, <2>3
<1>4. \A k : k \in dueBar'[c] <=> k \in dueBar[c]
  BY <1>1, <1>3, DueMember
<1> QED
  BY <1>4, SameDue

\* Which steps change what is due.
LEMMA DueStep ==
  ASSUME ProxyInv, ProxyInv', NamedInv, RoutedInv, [Next]_vars
  PROVE  \/ \A c \in Slot : dueBar'[c] = dueBar[c]
         \/ \E s \in Line : RelayWrite(s) \/ ServerDies(s)
         \/ \E c \in Slot : \/ ReceiveName(c) \/ Forward(c)
                            \/ PeerSend(c) \/ PeerClose(c)
<1> SUFFICES ASSUME \A s \in Line : ~RelayWrite(s) /\ ~ServerDies(s),
                    \A c \in Slot : /\ ~ReceiveName(c) /\ ~Forward(c)
                                    /\ ~PeerSend(c) /\ ~PeerClose(c),
                    NEW c \in Slot
             PROVE  dueBar'[c] = dueBar[c]
  OBVIOUS
<1>1. relay' \in [Line -> RelayThread]
  BY DEF ProxyInv, TypeOK
<1>2. CASE \E s \in Line : RelayReceive(s) \/ ServerReads(s)
  BY <1>1, <1>2, RelayReceiveKeeps, ServerReadsKeeps
<1>3. CASE SendEoj
  BY <1>3, EojKeeps
<1>4. CASE \E d \in Slot : \/ Receive(d) \/ PeerAuth(d) \/ PeerAsk(d)
                         \/ PeerName(d) \/ PeerBegin(d) \/ PeerEnd(d)
  BY <1>4, ReceiveKeeps, OtherSaidKeeps
<1>5. CASE /\ \A s \in Line : ~RelayReceive(s) /\ ~ServerReads(s)
           /\ ~SendEoj
           /\ \A d \in Slot : /\ ~Receive(d) /\ ~PeerAuth(d) /\ ~PeerAsk(d)
                             /\ ~PeerName(d) /\ ~PeerBegin(d) /\ ~PeerEnd(d)
  <2>1. Carried(relay', c) = Carried(relay, c)
    BY <1>1, <1>5, CarriedStep
  <2>2. returning' = returning
    BY <1>5, ReturningStep
  <2>3. toServer' = toServer
    BY <1>5, QueueStep
  <2>4. HeldBy(handler'[c]) = HeldBy(handler[c])
    BY <1>5, HandledStep
  <2>5. up' = up
    BY <1>5, UpStep
  <2>6. \A k : k \in dueBar'[c] <=> k \in dueBar[c]
    BY <2>1, <2>2, <2>3, <2>4, <2>5, DueMember
  <2> QED
    BY <2>6, SameDue
<1> QED
  BY <1>2, <1>3, <1>4, <1>5
-----------------------------------------------------------------------------
(* The variables of ChatService, one client at a time. *)

OverSlots(f) == f = [c \in Slot |-> f[c]]

LEMMA Bars == OverSlots(nextBar) /\ OverSlots(dueBar) /\ OverSlots(mailBar)
BY DEF OverSlots, nextBar, dueBar, mailBar

LEMMA BarsNext == OverSlots(nextBar)' /\ OverSlots(dueBar)' /\ OverSlots(mailBar)'
BY Bars, PTL

LEMMA SameOver ==
  ASSUME NEW f, NEW g, OverSlots(f), OverSlots(g), \A c \in Slot : g[c] = f[c]
  PROVE  g = f
BY DEF OverSlots

LEMMA OneOver ==
  ASSUME NEW f, NEW g, OverSlots(f), OverSlots(g), NEW d \in Slot, NEW x, g[d] = x,
         \A c \in Slot \ {d} : g[c] = f[c]
  PROVE  g = [f EXCEPT ![d] = x]
BY DEF OverSlots

LEMMA NextSame ==
  ASSUME ProxyInv, LinkInv, GoneInv, [Next]_vars,
         \A c \in Slot : ~PeerSend(c) /\ ~PeerClose(c)
  PROVE  nextBar' = nextBar
<1>1. \A c \in Slot : nextBar'[c] = nextBar[c]
  BY PeerStep DEF nextBar
<1> QED
  BY <1>1, Bars, BarsNext, SameOver

LEMMA DueSame ==
  ASSUME \A c \in Slot : dueBar'[c] = dueBar[c]
  PROVE  dueBar' = dueBar
BY Bars, BarsNext, SameOver

LEMMA MailSame ==
  ASSUME inbox' = inbox
  PROVE  mailBar' = mailBar
BY DEF mailBar

LEMMA SealedAppend ==
  ASSUME NEW q \in Seq(Packet), NEW p \in Packet
  PROVE  LET r == Append(q, p)
         IN  [k \in DOMAIN r |-> Sealed(r[k])]
               = Append([k \in DOMAIN q |-> Sealed(q[k])], Sealed(p))
<1> DEFINE r == Append(q, p)
           S == {Sealed(e) : e \in Packet}
           f == [k \in DOMAIN q |-> Sealed(q[k])]
           g == [k \in DOMAIN r |-> Sealed(r[k])]
<1>1. /\ Len(q) \in Nat /\ DOMAIN q = 1..Len(q) /\ DOMAIN r = 1..(Len(q) + 1)
      /\ \A k \in 1..Len(q) : r[k] = q[k] /\ q[k] \in Packet
      /\ r[Len(q) + 1] = p
  OBVIOUS
<1> HIDE DEF r, S
<1>2. f \in Seq(S) /\ Len(f) = Len(q)
  <2>1. f \in [1..Len(q) -> S]
    BY <1>1 DEF S
  <2> QED
    BY <1>1, <2>1
<1>3. /\ DOMAIN Append(f, Sealed(p)) = 1..(Len(q) + 1)
      /\ \A k \in 1..Len(q) : Append(f, Sealed(p))[k] = f[k]
      /\ Append(f, Sealed(p))[Len(q) + 1] = Sealed(p)
  <2>1. Sealed(p) \in S
    BY DEF S
  <2> HIDE DEF f
  <2> QED
    BY <1>1, <1>2, <2>1
<1>4. Append(f, Sealed(p)) = [k \in 1..(Len(q) + 1) |-> Append(f, Sealed(p))[k]]
  <2> DEFINE h == Append(f, Sealed(p))
  <2>1. Sealed(p) \in S
    BY DEF S
  <2> HIDE DEF f
  <2>2. h \in Seq(S)
    BY <1>2, <2>1
  <2> HIDE DEF h
  <2>3. h \in [1..Len(h) -> S]
    BY <2>2, LenProperties, Zenon
  <2>4. h = [k \in DOMAIN h |-> h[k]]
    BY <2>3
  <2>5. DOMAIN h = 1..(Len(q) + 1)
    BY <1>3 DEF h
  <2> QED
    BY <2>4, <2>5 DEF h
<1>5. \A k \in 1..(Len(q) + 1) : g[k] = Append(f, Sealed(p))[k]
  <2> SUFFICES ASSUME NEW k \in 1..(Len(q) + 1) PROVE g[k] = Append(f, Sealed(p))[k]
    OBVIOUS
  <2>1. CASE k = Len(q) + 1
    BY <1>1, <1>3, <2>1
  <2>2. CASE k \in 1..Len(q)
    BY <1>1, <1>3, <2>2
  <2> QED
    BY <1>1, <2>1, <2>2
<1>6. g = [k \in 1..(Len(q) + 1) |-> g[k]]
  BY <1>1
<1> HIDE DEF f, g
<1>7. g = Append(f, Sealed(p))
  BY <1>4, <1>5, <1>6
<1> QED
  BY <1>7 DEF f, g, r

LEMMA MailPosted ==
  ASSUME TypeOK, NEW d \in Slot, NEW p \in Packet, NEW L, Sealed(p) \in L,
         \/ inbox' = inbox
         \/ inbox' = [inbox EXCEPT ![d] = Append(@, p)]
  PROVE  Service!Posted(L)
<1>1. CASE inbox' = inbox
  BY <1>1, MailSame DEF Service!Posted
<1>2. CASE inbox' = [inbox EXCEPT ![d] = Append(@, p)]
  <2>1. inbox[d] \in Seq(Packet)
    BY DEF TypeOK
  <2>2. /\ inbox'[d] = Append(inbox[d], p)
        /\ \A c \in Slot \ {d} : inbox'[c] = inbox[c]
    BY <1>2 DEF TypeOK
  <2>3. mailBar'[d] = Append(mailBar[d], Sealed(p))
    BY <2>1, <2>2, SealedAppend DEF mailBar
  <2>4. \A c \in Slot \ {d} : mailBar'[c] = mailBar[c]
    BY <2>2 DEF mailBar
  <2>5. mailBar' = [mailBar EXCEPT ![d] = Append(mailBar[d], Sealed(p))]
    BY <2>3, <2>4, Bars, BarsNext, OneOver
  <2> QED
    BY <2>5 DEF Service!Posted
<1> QED
  BY <1>1, <1>2
-----------------------------------------------------------------------------
(* Every step of the proxy is one of ChatService, or none. *)

LEMMA AnswerPosts ==
  ASSUME ProxyInv, NEW c \in Slot, Answer(c)
  PROVE  Service!Posted({Sealed(Typed("INE")), Sealed(Found(NoAddr))})
<1> DEFINE L == {Sealed(Typed("INE")), Sealed(Found(NoAddr))}
           i == handler[c].i
<1>1. PICK p \in Packet : Send(c, p) /\ Sealed(p) \in L
  <2>1. CASE Send(c, Typed("INE"))
    <3>1. Typed("INE") \in Packet
      BY DEF Typed, Zero, Packet, Data_type
    <3> QED
      BY <2>1, <3>1
  <2>2. CASE handler[c].pc = "found" /\ Send(c, Found(client[i].addr))
    <3>1. i < nb_clients
      BY <2>2 DEF ProxyInv, LookupInv
    <3>2. i \in Nat /\ nb_clients \in 0..BUFLEN
      BY DEF ProxyInv, TypeOK, HandlerThread
    <3>3. i \in Slot
      BY <3>1, <3>2, ConstantsOK DEF Slot
    <3>4. client[i].addr \in Addr \cup {NoAddr}
      BY <3>3 DEF ProxyInv, TypeOK, ClientSlot
    <3>5. /\ Found(client[i].addr) \in Packet
          /\ Sealed(Found(client[i].addr)) = Sealed(Found(NoAddr))
      BY <3>4 DEF Found, Zero, Packet, Data_type, Sealed
    <3> QED
      BY <2>2, <3>5
  <2> QED
    BY <2>1, <2>2 DEF Answer, Resume
<1>2. inbox' = inbox \/ inbox' = [inbox EXCEPT ![c] = Append(@, p)]
  BY <1>1 DEF Send
<1> HIDE DEF L
<1>3. Service!Posted(L)
  BY <1>1, <1>2, MailPosted DEF ProxyInv
<1> QED
  BY <1>3 DEF L

LEMMA RestIsNotify ==
  ASSUME ProxyInv, nextBar' = nextBar, \A c \in Slot : dueBar'[c] = dueBar[c],
         inbox' = inbox \/ \E c \in Slot : Answer(c)
  PROVE  Service!Notify \/ UNCHANGED Service!vars
<1>1. dueBar' = dueBar
  BY DueSame
<1>2. CASE inbox' = inbox
  BY <1>1, <1>2, MailSame DEF Service!vars
<1>3. CASE \E c \in Slot : Answer(c)
  BY <1>1, <1>3, AnswerPosts DEF Service!Notify
<1> QED
  BY <1>2, <1>3

\* A client says an exchange.
LEMMA SendIsSay ==
  ASSUME ProxyInv, NEW c \in Slot, PeerSend(c)
  PROVE  Service!Say(c)
<1> DEFINE n == peer[c].sent
<1>1. /\ n \in Nat /\ n < MaxCex /\ peer[c].pc = "chat"
      /\ peer'[c].sent = n + 1 /\ peer'[c].pc = "chat"
      /\ \A d \in Slot \ {c} : peer'[d] = peer[d]
  BY DEF PeerSend, ProxyInv, TypeOK, PeerState
<1>2. nextBar[c] = n /\ nextBar' = [nextBar EXCEPT ![c] = n + 1]
  <2>1. /\ nextBar[c] = n /\ nextBar'[c] = n + 1
        /\ \A d \in Slot \ {c} : nextBar'[d] = nextBar[d]
    BY <1>1 DEF nextBar
  <2> QED
    BY <2>1, Bars, BarsNext, OneOver
<1>3. /\ relay' = relay /\ returning' = returning /\ toServer' = toServer
      /\ handler' = handler /\ inbox' = inbox
  BY DEF PeerSend, srvVars, returning, Returning
<1>4. PICK p \in Packet : /\ p.from = c /\ p.id = n
                         /\ up' = [up EXCEPT ![c] = Append(@, p)]
  BY SaidExchange
<1>5. BothIn(up'[c], c) = BothIn(up[c], c) \cup {2 * n, 2 * n + 1}
  <2>1. up[c] \in Seq(Packet) /\ up'[c] = Append(up[c], p)
    BY <1>4 DEF ProxyInv, TypeOK
  <2>2. BothIn(Append(up[c], p), c) = BothIn(up[c], c) \cup Both(p, c)
    BY <2>1, BothOfAppend
  <2> QED
    BY <1>4, <2>1, <2>2 DEF Both, Keys
<1>6. \A d \in Slot \ {c} : up'[d] = up[d]
  BY <1>4 DEF ProxyInv, TypeOK
<1> HIDE DEF n
<1>7. dueBar'[c] = dueBar[c] \cup {2 * n, 2 * n + 1}
  <2>1. \A k : k \in dueBar'[c] <=> k \in dueBar[c] \/ k \in {2 * n, 2 * n + 1}
    BY <1>3, <1>5, DueMember
  <2> DEFINE D == dueBar[c]
             E == dueBar'[c]
  <2>2. \A k : k \in E <=> k \in D \/ k \in {2 * n, 2 * n + 1}
    BY <2>1
  <2> HIDE DEF D, E
  <2>3. E = D \cup {2 * n, 2 * n + 1}
    BY <2>2
  <2> QED
    BY <2>3 DEF D, E
<1>8. ASSUME NEW d \in Slot \ {c} PROVE dueBar'[d] = dueBar[d]
  <2>1. \A k : k \in dueBar'[d] <=> k \in dueBar[d]
    BY <1>3, <1>6, DueMember
  <2> QED
    BY <2>1, SameDue
<1>9. dueBar' = [dueBar EXCEPT ![c] = dueBar[c] \cup {2 * n, 2 * n + 1}]
  BY <1>7, <1>8, Bars, BarsNext, OneOver
<1>10. mailBar' = mailBar
  BY <1>3, MailSame
<1> QED
  BY <1>1, <1>2, <1>9, <1>10 DEF Service!Say, n
-----------------------------------------------------------------------------
(* What is left of the items due when some are lost. *)

\* The places of the items due are in order, an exchange in a place before the
\* server with its acknowledgement.
LEMMA DuePlaces ==
  ASSUME ProxyInv, OrderInv, NEW c \in Slot
  PROVE  LET C == Carried(relay, c)
             R == AllKeys(returning, c)
             T == AllBoth(toServer, c)
             H == HeldBy(handler[c])
             B == BothIn(up[c], c)
         IN  /\ C \subseteq Int /\ R \subseteq Int /\ T \subseteq Int
             /\ H \subseteq Int /\ B \subseteq Int
             /\ \A k \in C, l \in R \cup T \cup H \cup B : k < l
             /\ \A k \in C \cup R \cup T, l \in H : k < l
             /\ \A k \in C \cup R \cup T \cup H, l \in B : k < l
             /\ Paired(T) /\ Paired(H) /\ Paired(B)
<1>1. /\ inbox \in [Slot -> Seq(Packet)] /\ relay \in [Line -> RelayThread]
      /\ returning \in [Line -> Seq(Packet)] /\ toServer \in [Line -> Seq(Packet)]
      /\ handler[c] \in HandlerThread /\ up[c] \in Seq(Packet)
      /\ peer[c].sent \in Nat
  BY ReturningType DEF ProxyInv, TypeOK, PeerState
<1>2. /\ Paired(AllBoth(toServer, c)) /\ Paired(HeldBy(handler[c]))
      /\ Paired(BothIn(up[c], c))
  BY <1>1, AllBothPaired, HeldPaired, BothPaired
<1>3. /\ Carried(relay, c) \subseteq Int /\ AllKeys(returning, c) \subseteq Int
      /\ AllBoth(toServer, c) \subseteq Int /\ HeldBy(handler[c]) \subseteq Int
      /\ BothIn(up[c], c) \subseteq Int
  BY <1>1, WayNumbers
<1> DEFINE w == Way(c)
<1>4. \A i, j \in 1..7 : i < j => \A k \in w[i], l \in w[j] : k < l
  BY DEF OrderInv, Ordered, InOrder
<1>5. /\ w[2] = Carried(relay, c) /\ w[3] = AllKeys(returning, c)
      /\ w[4] = AllBoth(toServer, c) /\ w[5] = HeldBy(handler[c])
      /\ w[6] = BothIn(up[c], c)
  BY DEF Way
<1> HIDE DEF w
<1>6. /\ \A k \in w[2], l \in w[3] \cup w[4] \cup w[5] \cup w[6] : k < l
      /\ \A k \in w[2] \cup w[3] \cup w[4], l \in w[5] : k < l
      /\ \A k \in w[2] \cup w[3] \cup w[4] \cup w[5], l \in w[6] : k < l
  BY <1>4
<1> QED
  BY <1>2, <1>3, <1>5, <1>6

LEMMA LeftOver ==
  ASSUME NEW c \in Slot, NEW L \in SUBSET Int, NEW X \in SUBSET Int,
         NEW U \in SUBSET Int, NEW Y \in SUBSET X,
         \A k \in L, l \in X : k < l,
         Paired(U), \A k \in Y : k % 2 = 1 /\ k - 1 \in X => k - 1 \in Y,
         \A k : k \in dueBar[c] <=> k \in L \cup X \cup U,
         \A k : k \in dueBar'[c] <=> k \in L \cup Y \cup U
  PROVE  Service!Remains(dueBar[c], dueBar'[c])
<1> DEFINE D == dueBar[c]
           E == dueBar'[c]
<1>1. /\ \A k : k \in D <=> k \in L \cup X \cup U
      /\ \A k : k \in E <=> k \in L \cup Y \cup U
  OBVIOUS
<1> HIDE DEF D, E
<1>2. D = L \cup X \cup U /\ E = L \cup Y \cup U
  BY <1>1
<1>3. Service!Remains(L \cup X \cup U, L \cup Y \cup U)
  BY PartLeft
<1> QED
  BY <1>2, <1>3 DEF D, E

LEMMA AllThere ==
  ASSUME NEW c \in Slot, dueBar'[c] = dueBar[c]
  PROVE  Service!Remains(dueBar[c], dueBar'[c])
BY AllLeft

\* The last place, the socket, loses packets.
LEMMA UpLeft ==
  ASSUME ProxyInv, ProxyInv', OrderInv, NEW c \in Slot,
         relay' = relay, returning' = returning, toServer' = toServer,
         HeldBy(handler'[c]) = HeldBy(handler[c]),
         BothIn(up'[c], c) \subseteq BothIn(up[c], c)
  PROVE  Service!Remains(dueBar[c], dueBar'[c])
<1> DEFINE C == Carried(relay, c)
           R == AllKeys(returning, c)
           T == AllBoth(toServer, c)
           H == HeldBy(handler[c])
           B == BothIn(up[c], c)
           Y == BothIn(up'[c], c)
           L == C \cup R \cup T \cup H
<1>1. /\ C \subseteq Int /\ R \subseteq Int /\ T \subseteq Int
      /\ H \subseteq Int /\ B \subseteq Int
      /\ \A k \in C \cup R \cup T \cup H, l \in B : k < l
  BY DuePlaces
<1>2. Paired(Y)
  <2>1. up'[c] \in Seq(Packet)
    BY DEF ProxyInv, TypeOK
  <2> QED
    BY <2>1, BothPaired
<1>3. Y \subseteq B
  OBVIOUS
<1>4. /\ \A k : k \in dueBar[c] <=> k \in C \cup R \cup T \cup H \cup B
      /\ \A k : k \in dueBar'[c] <=> k \in C \cup R \cup T \cup H \cup Y
  BY DueMember
<1> HIDE DEF C, R, T, H, B, Y
<1>5. /\ L \in SUBSET Int /\ B \in SUBSET Int /\ {} \in SUBSET Int
      /\ Y \in SUBSET B /\ \A k \in L, l \in B : k < l
      /\ Paired({}) /\ \A k \in Y : k % 2 = 1 /\ k - 1 \in B => k - 1 \in Y
  BY <1>1, <1>2, <1>3 DEF Paired
<1>6. /\ \A k : k \in dueBar[c] <=> k \in L \cup B \cup {}
      /\ \A k : k \in dueBar'[c] <=> k \in L \cup Y \cup {}
  BY <1>4
<1> HIDE DEF L
<1> QED
  BY <1>5, <1>6, LeftOver

LEMMA NameLeft ==
  ASSUME ProxyInv, ProxyInv', OrderInv, NEW d \in Slot, ReceiveName(d),
         NEW c \in Slot
  PROVE  Service!Remains(dueBar[c], dueBar'[c])
<1>1. relay' = relay /\ toServer' = toServer /\ returning' = returning
  BY DEF ReceiveName, srvVars, returning, Returning
<1>2. HeldBy(handler'[c]) = HeldBy(handler[c])
  <2>1. CASE c # d
    <3>1. handler'[c] = handler[c]
      BY <2>1 DEF ReceiveName, Resume, ProxyInv, TypeOK
    <3> QED
      BY <3>1
  <2>2. CASE c = d
    <3>1. handler[c].pc # "forward"
      BY <2>2 DEF ReceiveName
    <3>2. handler'[c].pc # "forward"
      <4>1. CASE Resume(c, "name")
        BY <4>1 DEF Resume, Idle, ProxyInv, TypeOK
      <4>2. CASE handler'[c].pc = "search"
        BY <4>2
      <4>3. ASSUME NEW x, handler' = [handler EXCEPT ![c].pc = "search", ![c].i = 0,
                                                    ![c].data = x]
            PROVE  handler'[c].pc = "search"
        BY <4>3 DEF ProxyInv, TypeOK, HandlerThread
      <4> QED
        BY <2>2, <4>1, <4>2, <4>3 DEF ReceiveName
    <3> QED
      BY <3>1, <3>2 DEF HeldBy
  <2> QED
    BY <2>1, <2>2
<1>3. BothIn(up'[c], c) \subseteq BothIn(up[c], c)
  <2>1. CASE up'[c] = up[c]
    BY <2>1
  <2>2. CASE up[c] # <<>> /\ up'[c] = Tail(up[c])
    <3>1. BothIn(up[c], c) = BothIn(Tail(up[c]), c) \cup Both(Head(up[c]), c)
      BY <2>2, BothOfTail DEF ProxyInv, TypeOK
    <3> QED
      BY <2>2, <3>1
  <2>3. /\ up' = up \/ (up[d] # <<>> /\ up' = [up EXCEPT ![d] = Tail(up[d])])
        /\ DOMAIN up = Slot
    BY DEF ReceiveName, ProxyInv, TypeOK
  <2> QED
    BY <2>1, <2>2, <2>3
<1> QED
  BY <1>1, <1>2, <1>3, UpLeft

LEMMA CloseLeft ==
  ASSUME ProxyInv, ProxyInv', OrderInv, NEW d \in Slot, PeerClose(d)
  PROVE  /\ Service!Remains(dueBar[d], dueBar'[d])
         /\ \A c \in Slot \ {d} : dueBar'[c] = dueBar[c]
<1>1. /\ relay' = relay /\ toServer' = toServer /\ returning' = returning
      /\ handler' = handler
  BY DEF PeerClose, srvVars, returning, Returning
<1>2. PICK k \in 0..Len(up[d]) : up' = [up EXCEPT ![d] = SubSeq(up[d], 1, k)]
  BY SaidCut
<1>3. up[d] \in Seq(Packet) /\ up'[d] = SubSeq(up[d], 1, k)
      /\ \A c \in Slot \ {d} : up'[c] = up[c]
  BY <1>2 DEF ProxyInv, TypeOK
<1>4. BothIn(up'[d], d) \subseteq BothIn(up[d], d)
  BY <1>3, CutKeys
<1>5. Service!Remains(dueBar[d], dueBar'[d])
  BY <1>1, <1>4, UpLeft
<1>6. ASSUME NEW c \in Slot \ {d} PROVE dueBar'[c] = dueBar[c]
  <2>1. \A j : j \in dueBar'[c] <=> j \in dueBar[c]
    BY <1>1, <1>3, DueMember
  <2> QED
    BY <2>1, SameDue
<1> QED
  BY <1>5, <1>6

LEMMA ForwardLeft ==
  ASSUME ProxyInv, ProxyInv', OrderInv, NEW d \in Slot, Forward(d),
         NEW c \in Slot
  PROVE  Service!Remains(dueBar[c], dueBar'[c])
<1> DEFINE p == handler[d].data
           s == client[d].server
<1>1. relay' = relay /\ returning' = returning /\ up' = up
  BY DEF Forward, netVars, returning, Returning
<1>2. /\ handler[d].pc = "forward" /\ handler'[d].pc # "forward"
      /\ \A e \in Slot \ {d} : handler'[e] = handler[e]
  BY DEF Forward, Resume, Idle, ProxyInv, TypeOK
<1>3. p \in Packet /\ p.type = "CEX" /\ p.from = d
  BY <1>2 DEF OrderInv, NamedInv, Held, ProxyInv, TypeOK, HandlerThread
<1>4. SendServer(s, p)
  BY DEF Forward
<1>5. CASE toServer' = toServer
  <2>1. CASE c # d
    <3>1. handler'[c] = handler[c]
      BY <1>2, <2>1
    <3>2. \A k : k \in dueBar'[c] <=> k \in dueBar[c]
      BY <1>1, <1>5, <3>1, DueMember
    <3>3. dueBar'[c] = dueBar[c]
      BY <3>2, SameDue
    <3> QED
      BY <3>3, AllThere
  <2>2. CASE c = d
    <3> DEFINE C == Carried(relay, c)
               R == AllKeys(returning, c)
               T == AllBoth(toServer, c)
               H == HeldBy(handler[c])
               B == BothIn(up[c], c)
               L == C \cup R \cup T
               Y == {}
    <3>1. /\ C \subseteq Int /\ R \subseteq Int /\ T \subseteq Int
          /\ H \subseteq Int /\ B \subseteq Int
          /\ \A k \in C \cup R \cup T, l \in H : k < l
          /\ Paired(B)
      BY DuePlaces
    <3>2. HeldBy(handler'[c]) = {}
      BY <1>2, <2>2 DEF HeldBy
    <3>3. /\ \A k : k \in dueBar[c] <=> k \in C \cup R \cup T \cup H \cup B
          /\ \A k : k \in dueBar'[c] <=> k \in C \cup R \cup T \cup B
      BY <1>1, <1>5, <3>2, DueMember
    <3> HIDE DEF C, R, T, H, B
    <3>4. /\ L \in SUBSET Int /\ H \in SUBSET Int /\ B \in SUBSET Int
          /\ Y \in SUBSET H /\ \A k \in L, l \in H : k < l
          /\ \A k \in Y : k % 2 = 1 /\ k - 1 \in H => k - 1 \in Y
      BY <3>1
    <3>5. /\ \A k : k \in dueBar[c] <=> k \in L \cup H \cup B
          /\ \A k : k \in dueBar'[c] <=> k \in L \cup Y \cup B
      BY <3>3
    <3> HIDE DEF L, Y
    <3> QED
      BY <3>1, <3>4, <3>5, LeftOver
  <2> QED
    BY <2>1, <2>2
<1>6. CASE toServer' = [toServer EXCEPT ![s] = Append(@, p)]
  <2>1. s \in Line
    <3>1. client[d].server \in Line \cup {NoLine}
      BY DEF ProxyInv, TypeOK, ClientSlot
    <3>2. Has(d, {"count"})
      BY <1>2 DEF ProxyInv, SlotInv
    <3>3. Has(d, Placed)
      BY <3>2 DEF Has, Placed
    <3>4. s \in Server
      BY <3>3 DEF ProxyInv, SlotInv
    <3> QED
      BY <3>4, ServersAreLines
  <2>2. Joins(Line, toServer, toServer', s, p)
    BY <1>3, <1>6, <2>1 DEF Joins, ProxyInv, TypeOK
  <2>3. AllBoth(toServer', c) = AllBoth(toServer, c) \cup Both(p, c)
    BY <2>2, JoinsExactly
  <2>4. HeldBy(handler[c]) = Both(p, c) \cup HeldBy(handler'[c])
    <3>1. CASE c # d
      BY <1>2, <1>3, <3>1 DEF Both
    <3>2. CASE c = d
      BY <1>2, <1>3, <3>2 DEF Both, HeldBy
    <3> QED
      BY <3>1, <3>2
  <2> HIDE DEF p, s
  <2>5. \A k : k \in dueBar'[c] <=> k \in dueBar[c]
    BY <1>1, <2>3, <2>4, DueMember
  <2>6. dueBar'[c] = dueBar[c]
    BY <2>5, SameDue
  <2> QED
    BY <2>6, AllThere
<1> QED
  BY <1>4, <1>5, <1>6 DEF SendServer

\* What a server that dies leaves of its answers to a client is all up to one of
\* them, so an acknowledgement only with its exchange.
LEMMA DeadLeft ==
  ASSUME ProxyInv, ProxyInv', OrderInv, NEW s \in Line, ServerDies(s),
         NEW c \in Slot
  PROVE  Service!Remains(dueBar[c], dueBar'[c])
<1> DEFINE C == Carried(relay, c)
           R == AllKeys(returning, c)
           T == AllBoth(toServer, c)
           H == HeldBy(handler[c])
           B == BothIn(up[c], c)
           Y == AllKeys(returning', c)
           U == T \cup H \cup B
<1>1. relay' = relay /\ toServer' = toServer /\ handler' = handler /\ up' = up
  BY DEF ServerDies, netVars
<1>2. returning \in [Line -> Seq(Packet)] /\ DOMAIN returning = Line
  BY ReturningType
<1>3. PICK n \in 0..Len(returning[s]) :
        returning' = [returning EXCEPT ![s] = SubSeq(@, 1, n)]
  BY ReturningCut
<1> DEFINE q == returning[s]
           r == SubSeq(q, 1, n)
<1>4. /\ q \in Seq(Packet) /\ DOMAIN q = 1..Len(q) /\ n \in 0..Len(q)
      /\ DOMAIN returning' = Line /\ returning'[s] = r
      /\ \A t \in Line \ {s} : returning'[t] = returning[t]
      /\ DOMAIN r = 1..n /\ \A i \in 1..n : i \in DOMAIN q /\ r[i] = q[i]
  BY <1>2, <1>3
<1> HIDE DEF q, r
<1>5. Y \subseteq R
  <2>1. Cuts(Line, returning, returning', s)
    BY <1>2, <1>3 DEF Cuts
  <2> QED
    BY <2>1, CutsKeys
<1>6. ASSUME NEW k \in Y, k % 2 = 1, k - 1 \in R PROVE k - 1 \in Y
  <2>1. PICK t \in Line : k \in KeysIn(returning'[t], c)
    BY <1>4, <1>6, AllKeysMember
  <2>2. PICK u \in Line : k - 1 \in KeysIn(returning[u], c)
    BY <1>2, <1>6, AllKeysMember
  <2>3. CASE u # s
    <3>1. k - 1 \in KeysIn(returning'[u], c)
      BY <1>4, <2>2, <2>3
    <3> QED
      BY <1>4, <3>1, AllKeysMember
  <2>4. CASE u = s
    <3>1. PICK j \in DOMAIN q : q[j].from = c /\ k - 1 = Key(q[j])
      BY <2>2, <2>4, KeysMember DEF q
    <3>2. At(q[j], s)
      BY <3>1 DEF q, OrderInv, NamedInv, Back
    <3>3. t = s
      <4> SUFFICES ASSUME t # s PROVE FALSE
        OBVIOUS
      <4>1. \A i \in DOMAIN returning[t] : returning[t][i].from # c
        BY <3>1, <3>2, OneServer DEF OrderInv
      <4> QED
        BY <1>4, <2>1, <4>1, KeysMember
    <3>4. PICK i \in 1..n : r[i].from = c /\ k = Key(r[i])
      BY <1>4, <2>1, <3>3, KeysMember
    <3>5. i \in DOMAIN q /\ r[i] = q[i] /\ q[i] \in Packet /\ q[j] \in Packet
      BY <1>4, <3>1, <3>4
    <3>6. Key(q[i]) \in Int /\ Key(q[j]) \in Int
      BY <3>5, KeyTypes
    <3>7. i \in Int /\ j \in Int /\ ~(i < j)
      <4>1. Increasing(q, c)
        BY DEF OrderInv, Ordered, q
      <4>2. i < j => Key(q[i]) < Key(q[j])
        BY <3>1, <3>4, <3>5, <4>1 DEF Increasing
      <4> QED
        BY <1>4, <3>1, <3>4, <3>5, <3>6, <4>2
    <3>8. j \in 1..n
      BY <1>4, <3>1, <3>4, <3>7
    <3>9. k - 1 \in KeysIn(r, c)
      BY <1>4, <3>1, <3>8, KeysMember
    <3> QED
      BY <1>4, <3>9, AllKeysMember
  <2> QED
    BY <2>3, <2>4
<1>7. /\ C \subseteq Int /\ R \subseteq Int /\ T \subseteq Int
      /\ H \subseteq Int /\ B \subseteq Int
      /\ \A k \in C, l \in R \cup T \cup H \cup B : k < l
      /\ Paired(T) /\ Paired(H) /\ Paired(B)
  BY DuePlaces
<1>8. /\ \A k : k \in dueBar[c] <=> k \in C \cup R \cup T \cup H \cup B
      /\ \A k : k \in dueBar'[c] <=> k \in C \cup Y \cup T \cup H \cup B
  BY <1>1, DueMember
<1> HIDE DEF C, R, T, H, B, Y
<1>9. /\ C \in SUBSET Int /\ R \in SUBSET Int /\ U \in SUBSET Int
      /\ Y \in SUBSET R /\ (\A k \in C, l \in R : k < l) /\ Paired(U)
  BY <1>5, <1>7, PairedUnion
<1>10. /\ \A k : k \in dueBar[c] <=> k \in C \cup R \cup U
       /\ \A k : k \in dueBar'[c] <=> k \in C \cup Y \cup U
  BY <1>8
<1> HIDE DEF U
<1> QED
  BY <1>6, <1>9, <1>10, LeftOver

LEMMA LossIsLose ==
  ASSUME nextBar' = nextBar, inbox' = inbox,
         \A c \in Slot : Service!Remains(dueBar[c], dueBar'[c])
  PROVE  Service!Lose
<1>1. dueBar' = [c \in Slot |-> dueBar'[c]]
  BY BarsNext DEF OverSlots
<1> QED
  BY <1>1, MailSame DEF Service!Lose

LEMMA CloseIsLeave ==
  ASSUME ProxyInv, ProxyInv', OrderInv, NEW c \in Slot, PeerClose(c)
  PROVE  Service!Leave(c)
<1>1. /\ peer'[c].pc = "gone"
      /\ \A d \in Slot \ {c} : peer'[d] = peer[d]
      /\ inbox' = inbox
  BY DEF PeerClose, NoPeer, ProxyInv, TypeOK
<1>2. nextBar' = [nextBar EXCEPT ![c] = MaxCex]
  <2>1. /\ nextBar'[c] = MaxCex
        /\ \A d \in Slot \ {c} : nextBar'[d] = nextBar[d]
    BY <1>1 DEF nextBar
  <2> QED
    BY <2>1, Bars, BarsNext, OneOver
<1>3. /\ Service!Remains(dueBar[c], dueBar'[c])
      /\ \A d \in Slot \ {c} : dueBar'[d] = dueBar[d]
  BY CloseLeft
<1>4. dueBar' = [dueBar EXCEPT ![c] = dueBar'[c]]
  BY <1>3, Bars, BarsNext, OneOver
<1> QED
  BY <1>1, <1>2, <1>3, <1>4, MailSame DEF Service!Leave
-----------------------------------------------------------------------------
(* A relay deals with the least item. *)

\* Only a client's packet gets as far as the send.
LEMMA WriteFrom ==
  ASSUME ProxyInv, WalkInv, NamedInv, RoutedInv, NEW s \in Line, relay[s].pc = "write"
  PROVE  relay[s].data.from \in Slot
<1> DEFINE i == relay[s].i
           p == relay[s].data
<1>1. i < nb_clients /\ client[i].addr \in {p.dest, p.origin}
  BY DEF ProxyInv, LookupInv, WalkInv, Walks
<1>2. i \in Slot
  BY <1>1, ConstantsOK DEF ProxyInv, TypeOK, RelayThread, Slot
<1>3. client[i].addr \in Addr
  BY <1>1, <1>2 DEF ProxyInv, SlotInv, Has
<1>4. p.from # NoSlot
  BY <1>1, <1>3, ConstantsOK DEF RoutedInv
<1> QED
  BY <1>4 DEF ProxyInv, TypeOK, RelayThread, Packet

LEMMA RelayPosts ==
  ASSUME ProxyInv, NEW s \in Line, RelayWrite(s), NEW L, Sealed(relay[s].data) \in L
  PROVE  Service!Posted(L)
<1> DEFINE p == relay[s].data
           d == fds[relay[s].fd]
<1>1. p \in Packet
  BY DEF ProxyInv, TypeOK, RelayThread
<1>2. CASE inbox' = inbox
  BY <1>2, MailSame DEF Service!Posted
<1>3. CASE relay[s].fd \in Fd /\ d # NoSlot /\ Send(d, p)
  <2>1. d \in Slot
    BY <1>3 DEF ProxyInv, TypeOK
  <2>2. inbox' = inbox \/ inbox' = [inbox EXCEPT ![d] = Append(@, p)]
    BY <1>3 DEF Send
  <2> HIDE DEF d, p
  <2> QED
    BY <1>1, <2>1, <2>2, MailPosted DEF ProxyInv, p
<1>4. inbox' = inbox \/ (relay[s].fd \in Fd /\ d # NoSlot /\ Send(d, p))
  BY DEF RelayWrite
<1> QED
  BY <1>2, <1>3, <1>4

LEMMA WriteDeals ==
  ASSUME ProxyInv, ProxyInv', WalkInv, OrderInv, RoutedInv, NEW s \in Line,
         RelayWrite(s), nextBar' = nextBar
  PROVE  \E c \in Slot : Service!Deal(c)
<1> DEFINE p == relay[s].data
           c == p.from
           k == Key(p)
<1>1. c \in Slot
  BY WriteFrom DEF RelayWrite, OrderInv
<1>2. /\ relay \in [Line -> RelayThread] /\ DOMAIN relay = Line
      /\ DOMAIN relay' = Line
      /\ relay'[s].data = Zero /\ \A t \in Line \ {s} : relay'[t] = relay[t]
  BY DEF RelayWrite, ProxyInv, TypeOK
<1>3. p \in Packet /\ p.type \in {"CEX", "EOC", "ACK", "EOF"} /\ At(p, s)
  <2>1. c # NoSlot
    BY <1>1 DEF Slot, NoSlot
  <2>2. Kept(relay[s], s)
    BY DEF OrderInv, NamedInv
  <2> QED
    BY <1>2, <2>1, <2>2 DEF RoutedInv, Kept, RelayThread
<1>4. /\ toServer' = toServer /\ returning' = returning /\ handler' = handler
      /\ up' = up
  BY DEF RelayWrite, srvVars, returning, Returning
<1>5. Zero.from \notin Slot
  BY DEF Zero, Slot, NoSlot
<1>6. \A t \in Line \ {s} : relay[t].data.from # c
  <2>1. \A t \in Line \ {s} : relay[t].data.from # p.from
    BY <1>1, <1>3, OneServer DEF OrderInv
  <2> QED
    BY <2>1
<1> HIDE DEF k, c
<1>7. \A j : j \in Carried(relay, c) <=> j = k
  BY <1>2, <1>6, CarriedMember DEF k, c
<1>8. \A j : j \notin Carried(relay', c)
  BY <1>1, <1>2, <1>5, <1>6, CarriedMember
<1>9. ASSUME NEW d \in Slot \ {c} PROVE dueBar'[d] = dueBar[d]
  <2>1. \A j : j \in Carried(relay', d) <=> j \in Carried(relay, d)
    BY <1>2, <1>5, CarriedMember DEF c
  <2>2. \A j : j \in dueBar'[d] <=> j \in dueBar[d]
    BY <1>4, <2>1, DueMember
  <2> QED
    BY <2>2, SameDue
<1>10. /\ k \in dueBar[c] /\ \A l \in dueBar[c] : k <= l
       /\ \A j : j \in dueBar'[c] <=> j \in dueBar[c] /\ j # k
  <2> DEFINE C == Carried(relay, c)
             O == AllKeys(returning, c) \cup AllBoth(toServer, c)
                    \cup HeldBy(handler[c]) \cup BothIn(up[c], c)
  <2>1. C \subseteq Int /\ O \subseteq Int /\ \A j \in C, l \in O : j < l
    BY <1>1, DuePlaces
  <2>2. /\ \A j : j \in dueBar[c] <=> j \in C \/ j \in O
        /\ \A j : j \in dueBar'[c] <=> j \in Carried(relay', c) \/ j \in O
    BY <1>1, <1>4, DueMember
  <2> HIDE DEF C, O
  <2>3. \A j : j \in C <=> j = k
    BY <1>7 DEF C
  <2>4. k \in Int /\ (\A l \in O : k < l) /\ k \notin O
    <3>1. k \in C
      BY <2>3
    <3>2. k \in Int /\ ~(k < k)
      BY <2>1, <3>1
    <3> QED
      BY <2>1, <3>1, <3>2
  <2>5. \A j : j \in dueBar[c] <=> j = k \/ j \in O
    BY <2>2, <2>3
  <2>6. \A j : j \in dueBar'[c] <=> j \in O
    BY <1>8, <2>2
  <2> DEFINE D == dueBar[c]
             E == dueBar'[c]
  <2>7. (\A j : j \in D <=> j = k \/ j \in O) /\ (\A j : j \in E <=> j \in O)
    BY <2>5, <2>6
  <2> HIDE DEF D, E
  <2>8. k \in D /\ \A j : j \in E <=> j \in D /\ j # k
    BY <2>4, <2>7
  <2>9. ASSUME NEW l \in D PROVE k <= l
    <3>1. l = k \/ l \in O
      BY <2>7
    <3>2. l \in Int
      BY <2>1, <2>4, <3>1
    <3> QED
      BY <2>4, <3>1, <3>2
  <2> QED
    BY <2>8, <2>9 DEF D, E
<1>11. dueBar'[c] = dueBar[c] \ {k}
  <2> DEFINE D == dueBar[c]
             E == dueBar'[c]
  <2>1. \A j : j \in E <=> j \in D /\ j # k
    BY <1>10
  <2> HIDE DEF D, E
  <2>2. E = D \ {k}
    BY <2>1
  <2> QED
    BY <2>2 DEF D, E
<1>12. dueBar' = [dueBar EXCEPT ![c] = dueBar[c] \ {k}]
  BY <1>1, <1>9, <1>11, Bars, BarsNext, OneOver
<1>13. Sealed(p) \in Service!Letters(c, k)
  <2>1. p.id \in Nat
    BY <1>3 DEF Packet
  <2>2. Sealed(p) = Service!Letter(p.type, c, p.id)
    BY DEF Sealed, Service!Letter, c
  <2>3. k \div 2 = p.id /\ p.type \in Service!Forms(k)
    <3>1. CASE p.type \in {"CEX", "EOC"}
      <4>1. k = 2 * p.id
        BY <2>1, <3>1 DEF k, Key
      <4>2. k \div 2 = p.id /\ k % 2 = 0
        BY <2>1, <4>1
      <4> QED
        BY <3>1, <4>2 DEF Service!Forms
    <3>2. CASE p.type \in {"ACK", "EOF"}
      <4>1. k = 2 * p.id + 1
        BY <2>1, <3>2 DEF k, Key
      <4>2. k \div 2 = p.id /\ k % 2 = 1
        BY <2>1, <4>1
      <4> QED
        BY <3>2, <4>2 DEF Service!Forms
    <3> QED
      BY <1>3, <3>1, <3>2
  <2> QED
    BY <2>2, <2>3 DEF Service!Letters
<1>14. Service!Posted(Service!Letters(c, k))
  BY <1>13, RelayPosts
<1> QED
  BY <1>1, <1>10, <1>12, <1>14 DEF Service!Deal
-----------------------------------------------------------------------------
LEMMA StepRefines ==
  ProxyInv /\ ProxyInv' /\ WalkInv /\ OrderInv /\ ServiceInv /\ [Next]_vars
    => [Service!Next]_Service!vars
<1> SUFFICES ASSUME ProxyInv, ProxyInv', WalkInv, OrderInv, ServiceInv, [Next]_vars
             PROVE  Service!Next \/ UNCHANGED Service!vars
  OBVIOUS
<1>1. LinkInv /\ NamedInv /\ RoutedInv /\ GoneInv
  BY DEF OrderInv, ServiceInv
<1>2. CASE \E c \in Slot : PeerSend(c) \/ PeerClose(c)
  BY <1>2, SendIsSay, CloseIsLeave DEF Service!Next
<1>3. CASE \A c \in Slot : ~PeerSend(c) /\ ~PeerClose(c)
  <2>1. nextBar' = nextBar
    BY <1>1, <1>3, NextSame
  <2>2. CASE \E s \in Line : RelayWrite(s)
    BY <1>1, <2>1, <2>2, WriteDeals DEF Service!Next
  <2>3. CASE \E s \in Line : ServerDies(s)
    <3>1. inbox' = inbox
      BY <2>3 DEF ServerDies, netVars
    <3> QED
      BY <2>1, <2>3, <3>1, DeadLeft, LossIsLose DEF Service!Next
  <2>4. CASE \E d \in Slot : ReceiveName(d) \/ Forward(d)
    <3>1. inbox' = inbox
      BY <2>4 DEF ReceiveName, Forward, netVars
    <3> QED
      BY <2>1, <2>4, <3>1, NameLeft, ForwardLeft, LossIsLose DEF Service!Next
  <2>5. CASE /\ \A s \in Line : ~RelayWrite(s)
             /\ \A c \in Slot : dueBar'[c] = dueBar[c]
    <3>1. inbox' = inbox \/ \E c \in Slot : Answer(c)
      BY <2>5, InboxStep
    <3> QED
      BY <2>1, <2>5, <3>1, RestIsNotify DEF Service!Next
  <2> QED
    BY <1>1, <1>3, <2>2, <2>3, <2>4, <2>5, DueStep
<1> QED
  BY <1>2, <1>3

LEMMA InitRefines == Init => Service!Init
<1> SUFFICES ASSUME Init PROVE Service!Init
  OBVIOUS
<1>1. \A s \in Line : returning[s] = <<>>
  BY DEF Init, returning, Returning
<1>2. ASSUME NEW c \in Slot
      PROVE  nextBar[c] = 0 /\ dueBar[c] = {} /\ mailBar[c] = <<>>
  <2>1. nextBar[c] = 0
    BY DEF Init, NoPeer, nextBar
  <2>2. c # NoSlot
    BY DEF Slot, NoSlot
  <2>3. /\ Carried(relay, c) = {} /\ AllKeys(returning, c) = {}
        /\ AllBoth(toServer, c) = {} /\ HeldBy(handler[c]) = {}
        /\ BothIn(up[c], c) = {}
    BY <1>1, <2>2
    DEF Init, AllKeys, AllBoth, Carried, HeldBy, KeysIn, BothIn, From, Zero,
        returning
  <2>4. dueBar[c] = {}
    BY <2>3 DEF dueBar
  <2>5. mailBar[c] = <<>>
    BY DEF Init, mailBar
  <2> QED
    BY <2>1, <2>4, <2>5
<1>3. /\ nextBar = [c \in Slot |-> 0] /\ dueBar = [c \in Slot |-> {}]
      /\ mailBar = [c \in Slot |-> <<>>]
  BY <1>2, Bars DEF OverSlots
<1> QED
  BY <1>3 DEF Service!Init
-----------------------------------------------------------------------------
\* What the refinement rests on holds in every reachable state: relays carry
\* what they may and have dealt with it before they receive again, clients do
\* not come back, besides the strengthenings of the other safety theorems; also
\* when threads cannot be created and servers die between their two sends.
THEOREM RefinementInvariance == Spec => []RefinementInv
<1>1. Init => ServiceInv
  BY RoutedInit, GoneInit DEF ServiceInv
<1>2. ProxyInv /\ OrderInv /\ ServiceInv /\ [Next]_vars => ServiceInv'
  BY RoutedNext, GoneNext DEF ServiceInv, OrderInv
<1> QED
  BY <1>1, <1>2, Invariance, AlwaysInOrder, SafetyInvariance, PTL
  DEF Spec, RefinementInv

\* The proxy, its threads and the servers implement the service the clients see:
\* a client's exchanges and acknowledgements are dealt with in order, each at most
\* once, and what a departure, a failed send or a dying server loses never
\* includes an exchange whose acknowledgement is still to come.
THEOREM Implements == Spec => ImplementsService
<1>1. RefinementInv => ServiceInv
  BY DEF RefinementInv
<1> QED
  BY <1>1, InitRefines, StepRefines, Invariance, WalksInTable, AlwaysInOrder,
     RefinementInvariance, PTL
  DEF Spec, ImplementsService, Service!Spec
=============================================================================
