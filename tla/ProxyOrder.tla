----------------------------- MODULE ProxyOrder -----------------------------
(***************************************************************************)
(* The exchanges of a client stay in order on their whole way: its socket, *)
(* its handler, the stream to the server, the stream back, the relay, the  *)
(* inboxes.  Each step moves the first exchange of one place to the next   *)
(* place, or drops it.  What is relayed is therefore in order, and an      *)
(* acknowledgement comes after its exchange.                               *)
(***************************************************************************)
EXTENDS ProxyRelaying

-----------------------------------------------------------------------------
(* Places in general. *)

\* Numbered places, the last one first, whose numbers increase from one to the
\* next: they still do when each place has lost numbers, or got some of the
\* next place that are below what is left there.
LEMMA Moving ==
  ASSUME NEW W, NEW V,
         \A i \in 1..7 : W[i] \subseteq Int /\ V[i] \subseteq Int,
         \A i, j \in 1..7 : i < j => \A k \in W[i], l \in W[j] : k < l,
         \A i \in 1..7 : \A k \in V[i] :
           \/ k \in W[i]
           \/ i < 7 /\ k \in W[i + 1] /\ \A l \in V[i + 1] : k < l
  PROVE  \A i, j \in 1..7 : i < j => \A k \in V[i], l \in V[j] : k < l
<1> SUFFICES ASSUME NEW i \in 1..7, NEW j \in 1..7, i < j,
                    NEW k \in V[i], NEW l \in V[j]
             PROVE  k < l
  OBVIOUS
<1>1. l \in W[j] \/ (j < 7 /\ l \in W[j + 1])
  OBVIOUS
<1>2. CASE k \in W[i]
  <2>1. CASE l \in W[j]
    BY <1>2, <2>1
  <2>2. CASE j < 7 /\ l \in W[j + 1]
    <3>1. j + 1 \in 1..7 /\ i < j + 1
      BY <2>2
    <3> QED
      BY <1>2, <2>2, <3>1
  <2> QED
    BY <1>1, <2>1, <2>2
<1>3. CASE i < 7 /\ k \in W[i + 1] /\ \A m \in V[i + 1] : k < m
  <2>1. CASE j = i + 1
    BY <1>3, <2>1
  <2>2. CASE i + 1 < j
    <3>1. i + 1 \in 1..7 /\ (j < 7 => j + 1 \in 1..7 /\ i + 1 < j + 1)
      BY <2>2
    <3> QED
      BY <1>1, <1>3, <2>2, <3>1
  <2> QED
    BY <2>1, <2>2
<1> QED
  BY <1>2, <1>3

\* The keys a queue holds.
LEMMA KeysMember ==
  ASSUME NEW q, NEW c, NEW k
  PROVE  k \in KeysIn(q, c) <=>
           \E i \in DOMAIN q : q[i].from = c /\ k = Key(q[i])
BY DEF KeysIn, From

LEMMA BothMember ==
  ASSUME NEW q, NEW c, NEW k
  PROVE  k \in BothIn(q, c) <=>
           \E i \in DOMAIN q : q[i].from = c /\ k \in Keys(q[i])
BY DEF BothIn, From

LEMMA AllKeysMember ==
  ASSUME NEW f, NEW c, NEW k
  PROVE  k \in AllKeys(f, c) <=> \E e \in DOMAIN f : k \in KeysIn(f[e], c)
BY DEF AllKeys

LEMMA AllBothMember ==
  ASSUME NEW f, NEW c, NEW k
  PROVE  k \in AllBoth(f, c) <=> \E e \in DOMAIN f : k \in BothIn(f[e], c)
BY DEF AllBoth

LEMMA CarriedMember ==
  ASSUME NEW f, NEW c, NEW k
  PROVE  k \in Carried(f, c) <=>
           \E s \in DOMAIN f : f[s].data.from = c /\ k = Key(f[s].data)
BY DEF Carried

LEMMA KeyTypes ==
  ASSUME NEW p \in Packet
  PROVE  /\ Key(p) \in Nat /\ Key(p) \in Keys(p) /\ Keys(p) \subseteq Nat
         /\ p.id \in Nat
BY DEF Key, Keys, Packet

LEMMA AppendKeys ==
  ASSUME NEW q \in Seq(Packet), NEW p \in Packet, NEW c
  PROVE  /\ \A k \in KeysIn(Append(q, p), c) :
              k \in KeysIn(q, c) \/ (p.from = c /\ k = Key(p))
         /\ \A k \in BothIn(Append(q, p), c) :
              k \in BothIn(q, c) \/ (p.from = c /\ k \in Keys(p))
         /\ Increasing(q, c) /\ (p.from = c => \A k \in KeysIn(q, c) : k < Key(p))
              => Increasing(Append(q, p), c)
<1> DEFINE r == Append(q, p)
<1>1. /\ Len(q) \in Nat /\ Len(r) = Len(q) + 1
      /\ DOMAIN q = 1..Len(q) /\ DOMAIN r = 1..Len(r)
      /\ \A i \in 1..Len(q) : r[i] = q[i]
      /\ r[Len(r)] = p
  OBVIOUS
<1> HIDE DEF r
<1>2. \A i \in DOMAIN r : i \in DOMAIN q \/ i = Len(r)
  BY <1>1
<1>3. \A k \in KeysIn(r, c) : k \in KeysIn(q, c) \/ (p.from = c /\ k = Key(p))
  BY <1>1, <1>2, KeysMember
<1>4. \A k \in BothIn(r, c) : k \in BothIn(q, c) \/ (p.from = c /\ k \in Keys(p))
  BY <1>1, <1>2, BothMember
<1>5. ASSUME Increasing(q, c), p.from = c => \A k \in KeysIn(q, c) : k < Key(p)
      PROVE  Increasing(r, c)
  <2> SUFFICES ASSUME NEW i \in DOMAIN r, NEW j \in DOMAIN r, i < j,
                      r[i].from = c, r[j].from = c
               PROVE  Key(r[i]) < Key(r[j])
    BY DEF Increasing
  <2>1. i \in DOMAIN q /\ r[i] = q[i]
    BY <1>1
  <2>2. CASE j \in DOMAIN q
    BY <1>1, <1>5, <2>1, <2>2 DEF Increasing
  <2>3. CASE j = Len(r)
    <3>1. Key(q[i]) \in KeysIn(q, c)
      BY <2>1, KeysMember
    <3> QED
      BY <1>1, <1>5, <2>1, <2>3, <3>1
  <2> QED
    BY <1>2, <2>2, <2>3
<1> QED
  BY <1>3, <1>4, <1>5 DEF r

LEMMA TailKeys ==
  ASSUME NEW q \in Seq(Packet), q # <<>>, NEW c
  PROVE  /\ KeysIn(Tail(q), c) \subseteq KeysIn(q, c)
         /\ BothIn(Tail(q), c) \subseteq BothIn(q, c)
         /\ Increasing(q, c) => Increasing(Tail(q), c)
         /\ Head(q).from = c =>
              /\ Key(Head(q)) \in KeysIn(q, c)
              /\ Keys(Head(q)) \subseteq BothIn(q, c)
              /\ Increasing(q, c) =>
                   \A k \in KeysIn(Tail(q), c) : Key(Head(q)) < k
<1> DEFINE r == Tail(q)
<1>1. /\ Len(q) \in Nat /\ Len(r) = Len(q) - 1
      /\ DOMAIN q = 1..Len(q) /\ DOMAIN r = 1..Len(r)
      /\ \A i \in 1..Len(r) : r[i] = q[i + 1]
      /\ 1 \in DOMAIN q /\ Head(q) = q[1]
  OBVIOUS
<1> HIDE DEF r
<1>2. \A i \in DOMAIN r : i + 1 \in DOMAIN q /\ 1 < i + 1 /\ r[i] = q[i + 1]
  BY <1>1
<1>3. KeysIn(r, c) \subseteq KeysIn(q, c)
  BY <1>2, KeysMember
<1>4. BothIn(r, c) \subseteq BothIn(q, c)
  BY <1>2, BothMember
<1>5. ASSUME Increasing(q, c) PROVE Increasing(r, c)
  <2> SUFFICES ASSUME NEW i \in DOMAIN r, NEW j \in DOMAIN r, i < j,
                      r[i].from = c, r[j].from = c
               PROVE  Key(r[i]) < Key(r[j])
    BY DEF Increasing
  <2>1. i + 1 < j + 1
    BY <1>1
  <2> QED
    BY <1>2, <1>5, <2>1 DEF Increasing
<1>6. ASSUME Head(q).from = c
      PROVE  /\ Key(Head(q)) \in KeysIn(q, c)
             /\ Keys(Head(q)) \subseteq BothIn(q, c)
             /\ Increasing(q, c) => \A k \in KeysIn(r, c) : Key(Head(q)) < k
  <2>1. Key(Head(q)) \in KeysIn(q, c)
    BY <1>1, <1>6, KeysMember
  <2>2. Keys(Head(q)) \subseteq BothIn(q, c)
    BY <1>1, <1>6, BothMember
  <2>3. ASSUME Increasing(q, c), NEW k \in KeysIn(r, c) PROVE Key(Head(q)) < k
    <3>1. PICK i \in DOMAIN r : r[i].from = c /\ k = Key(r[i])
      BY <2>3, KeysMember
    <3> QED
      BY <1>1, <1>2, <1>6, <2>3, <3>1 DEF Increasing
  <2> QED
    BY <2>1, <2>2, <2>3
<1> QED
  BY <1>3, <1>4, <1>5, <1>6 DEF r

\* In a queue of exchanges not read yet both keys of the first come first.
LEMMA TailBoth ==
  ASSUME NEW q \in Seq(Packet), q # <<>>, NEW c, Head(q).from = c,
         Increasing(q, c), \A i \in DOMAIN q : q[i].from = c => q[i].type = "CEX"
  PROVE  \A k \in Keys(Head(q)), l \in BothIn(Tail(q), c) : k < l
<1> SUFFICES ASSUME NEW k \in Keys(Head(q)), NEW l \in BothIn(Tail(q), c)
             PROVE  k < l
  OBVIOUS
<1>1. /\ Len(q) \in Nat /\ Len(Tail(q)) = Len(q) - 1
      /\ DOMAIN q = 1..Len(q) /\ DOMAIN Tail(q) = 1..Len(Tail(q))
      /\ \A i \in 1..Len(Tail(q)) : Tail(q)[i] = q[i + 1]
      /\ 1 \in DOMAIN q /\ Head(q) = q[1]
  OBVIOUS
<1>2. PICK i \in DOMAIN Tail(q) : Tail(q)[i].from = c /\ l \in Keys(Tail(q)[i])
  BY BothMember
<1>3. /\ i + 1 \in DOMAIN q /\ 1 < i + 1 /\ q[i + 1].from = c
      /\ l \in Keys(q[i + 1])
  BY <1>1, <1>2
<1> DEFINE a == q[1]
           b == q[i + 1]
<1>4. Key(a) < Key(b)
  BY <1>1, <1>3 DEF Increasing
<1>5. a.type = "CEX" /\ b.type = "CEX"
  BY <1>1, <1>3
<1>6. a.id \in Nat /\ b.id \in Nat
  BY <1>1, <1>3, KeyTypes
<1>7. k \in Keys(a) /\ l \in Keys(b)
  BY <1>1, <1>3
<1> HIDE DEF a, b
<1> QED
  BY <1>4, <1>5, <1>6, <1>7 DEF Key, Keys

\* What a close leaves of a queue.
LEMMA CutItems ==
  ASSUME NEW q \in Seq(Packet), NEW k \in 0..Len(q)
  PROVE  /\ SubSeq(q, 1, k) \in Seq(Packet)
         /\ \A i \in DOMAIN SubSeq(q, 1, k) :
              i \in DOMAIN q /\ SubSeq(q, 1, k)[i] = q[i]
OBVIOUS

LEMMA CutKeys ==
  ASSUME NEW q \in Seq(Packet), NEW k \in 0..Len(q), NEW c
  PROVE  /\ KeysIn(SubSeq(q, 1, k), c) \subseteq KeysIn(q, c)
         /\ BothIn(SubSeq(q, 1, k), c) \subseteq BothIn(q, c)
         /\ Increasing(q, c) => Increasing(SubSeq(q, 1, k), c)
<1> DEFINE r == SubSeq(q, 1, k)
<1>1. \A i \in DOMAIN r : i \in DOMAIN q /\ r[i] = q[i]
  BY CutItems
<1> HIDE DEF r
<1>2. KeysIn(r, c) \subseteq KeysIn(q, c)
  BY <1>1, KeysMember
<1>3. BothIn(r, c) \subseteq BothIn(q, c)
  BY <1>1, BothMember
<1>4. Increasing(q, c) => Increasing(r, c)
  BY <1>1 DEF Increasing
<1> QED
  BY <1>2, <1>3, <1>4 DEF r

LEMMA DeliveredCut ==
  ASSUME NEW q \in Seq(Packet), NEW l, NEW r \in Delivered(q, l)
  PROVE  \E k \in 0..Len(q) : r = SubSeq(q, 1, k)
<1>1. Len(q) \in 0..Len(q) /\ q = SubSeq(q, 1, Len(q))
  OBVIOUS
<1> QED
  BY <1>1 DEF Delivered
-----------------------------------------------------------------------------
(* Who changes which place. *)

LEMMA InboxStep ==
  ASSUME [Next]_vars
  PROVE  \/ inbox' = inbox
         \/ \E c \in Slot : Answer(c)
         \/ \E s \in Line : RelayWrite(s)
<1>1. CASE \E c \in Slot : Handler(c)
  BY <1>1
  DEF Handler, Enter, Increment, LoopTest, LockToReceive, Receive, ReceiveEnd,
      ReceiveError, ReceiveName, SearchName, Forward, MarkClosed, Uncount,
      Decrement, CloseSocket, LockToRelease, ReleaseLoad, ReadCount, WriteCount,
      netVars
<1>2. CASE \E c \in Slot : Peer(c)
  BY <1>2
  DEF Peer, PeerAuth, PeerAsk, PeerName, PeerAnswered, PeerBegin, PeerSend,
      PeerEnd, PeerClose, netVars
<1>3. CASE \/ \E s \in Line : Relay(s) \/ Serve(s) \/ ServerDies(s)
           \/ UNCHANGED vars
  BY <1>3
  DEF Relay, RelayTest, RelayReceive, RelayError, RelayLookup, RelayNull,
      RelayCheck, RelayReadFd, RelayCancelled, Serve, ServerReads, ServerWrites,
      ServerDies, vars, netVars
<1>4. CASE Accept \/ Proceed
  BY <1>4
  DEF Accept, Proceed, OpenServer, SkipServer, PublishServer, EndOfFile, Scan,
      LockLeast, Assign, LockAssigned, AddLoad, Spawn, CountClient,
      JoinHandlers, SendEoj, JoinRelay, JoinUnstarted, Stop, netVars
<1> QED
  BY <1>1, <1>2, <1>3, <1>4 DEF Next

LEMMA FromServerStep ==
  ASSUME [Next]_vars
  PROVE  \/ fromServer' = fromServer /\ answers' = answers
         \/ \E s \in Line : RelayReceive(s) \/ Serve(s) \/ ServerDies(s)
<1>1. CASE \E c \in Slot : Handler(c)
  BY <1>1
  DEF Handler, Enter, Increment, LoopTest, LockToReceive, Receive, ReceiveEnd,
      ReceiveError, ReceiveName, SearchName, Answer, Forward, MarkClosed,
      Uncount, Decrement, CloseSocket, LockToRelease, ReleaseLoad, ReadCount,
      WriteCount, srvVars
<1>2. CASE \E c \in Slot : Peer(c)
  BY <1>2
  DEF Peer, PeerAuth, PeerAsk, PeerName, PeerAnswered, PeerBegin, PeerSend,
      PeerEnd, PeerClose, srvVars
<1>3. CASE \/ \E s \in Line : Relay(s) \/ Serve(s) \/ ServerDies(s)
           \/ UNCHANGED vars
  BY <1>3
  DEF Relay, RelayTest, RelayError, RelayLookup, RelayNull, RelayCheck,
      RelayReadFd, RelayWrite, RelayCancelled, vars, srvVars
<1>4. CASE Accept \/ Proceed
  BY <1>4
  DEF Accept, Proceed, OpenServer, SkipServer, PublishServer, EndOfFile, Scan,
      LockLeast, Assign, LockAssigned, AddLoad, Spawn, CountClient,
      JoinHandlers, SendEoj, JoinRelay, JoinUnstarted, Stop, srvVars
<1> QED
  BY <1>1, <1>2, <1>3, <1>4 DEF Next

LEMMA ReturningType ==
  ASSUME ProxyInv
  PROVE  /\ returning \in [Line -> Seq(Packet)]
         /\ \A s \in Line : /\ returning[s] = fromServer[s] \o answers[s]
                            /\ fromServer[s] \in Seq(Packet)
                            /\ answers[s] \in Seq(Packet)
<1>1. \A s \in Line : fromServer[s] \in Seq(Packet) /\ answers[s] \in Seq(Packet)
  BY DEF ProxyInv, TypeOK
<1>2. \A s \in Line : fromServer[s] \o answers[s] \in Seq(Packet)
  BY <1>1, QueueTypes
<1> QED
  BY <1>1, <1>2 DEF returning, Returning

LEMMA ReturningIs ==
  ASSUME NEW t \in Line, NEW q, returning \in [Line -> Seq(Packet)],
         \A s \in Line \ {t} :
           fromServer'[s] = fromServer[s] /\ answers'[s] = answers[s],
         fromServer'[t] \o answers'[t] = q
  PROVE  returning' = [returning EXCEPT ![t] = q]
BY DEF returning, Returning

\* The relay takes the first packet, which the server has sent.
LEMMA ReturningTaken ==
  ASSUME ProxyInv, NEW t \in Line, fromServer[t] # <<>>, answers' = answers,
         fromServer' = [fromServer EXCEPT ![t] = Tail(@)]
  PROVE  /\ returning[t] # <<>> /\ Head(returning[t]) = Head(fromServer[t])
         /\ returning' = [returning EXCEPT ![t] = Tail(@)]
<1>1. \A q, a \in Seq(Packet) :
        q # <<>> => /\ q \o a # <<>> /\ Head(q \o a) = Head(q)
                    /\ Tail(q \o a) = Tail(q) \o a
  OBVIOUS
<1>2. /\ fromServer'[t] = Tail(fromServer[t]) /\ answers'[t] = answers[t]
      /\ \A s \in Line \ {t} :
           fromServer'[s] = fromServer[s] /\ answers'[s] = answers[s]
  BY DEF ProxyInv, TypeOK
<1>3. returning' = [returning EXCEPT ![t] = Tail(fromServer[t]) \o answers[t]]
  BY <1>2, ReturningType, ReturningIs
<1>4. /\ returning[t] # <<>> /\ Head(returning[t]) = Head(fromServer[t])
      /\ Tail(returning[t]) = Tail(fromServer[t]) \o answers[t]
  <2>1. fromServer[t] \in Seq(Packet) /\ answers[t] \in Seq(Packet)
        /\ returning[t] = fromServer[t] \o answers[t]
    BY ReturningType
  <2> QED
    BY <1>1, <2>1
<1> QED
  BY <1>3, <1>4

\* A send of the server changes nothing: the packet was already counted.
LEMMA ReturningWritten ==
  ASSUME ProxyInv, NEW t \in Line, ServerWrites(t)
  PROVE  returning' = returning
<1>1. \A q, a \in Seq(Packet) :
        a # <<>> => Append(q, Head(a)) \o Tail(a) = q \o a
  OBVIOUS
<1>2. /\ answers[t] # <<>>
      /\ fromServer'[t] = Append(fromServer[t], Head(answers[t]))
      /\ answers'[t] = Tail(answers[t])
      /\ \A s \in Line \ {t} :
           fromServer'[s] = fromServer[s] /\ answers'[s] = answers[s]
  BY DEF ServerWrites, ProxyInv, TypeOK
<1>3. fromServer'[t] \o answers'[t] = returning[t]
  BY <1>1, <1>2, ReturningType
<1>4. returning' = [returning EXCEPT ![t] = returning[t]]
  BY <1>2, <1>3, ReturningType, ReturningIs
<1> QED
  BY <1>4, ReturningType

\* A server that dies leaves a part of what it has answered.
LEMMA ReturningCut ==
  ASSUME ProxyInv, NEW t \in Line, ServerDies(t)
  PROVE  \E k \in 0..Len(returning[t]) :
           returning' = [returning EXCEPT ![t] = SubSeq(@, 1, k)]
<1>1. PICK r \in Delivered(fromServer[t], slink'[t]) :
        fromServer' = [fromServer EXCEPT ![t] = r]
  BY DEF ServerDies
<1>2. PICK k \in 0..Len(fromServer[t]) : r = SubSeq(fromServer[t], 1, k)
  BY <1>1, DeliveredCut DEF ProxyInv, TypeOK
<1>3. \A q, a \in Seq(Packet) : \A n \in 0..Len(q) :
        /\ n \in 0..Len(q \o a) /\ SubSeq(q, 1, n) \o <<>> = SubSeq(q, 1, n)
        /\ SubSeq(q, 1, n) = SubSeq(q \o a, 1, n)
  OBVIOUS
<1>4. /\ fromServer'[t] = r /\ answers'[t] = <<>>
      /\ \A s \in Line \ {t} :
           fromServer'[s] = fromServer[s] /\ answers'[s] = answers[s]
  BY <1>1 DEF ServerDies, ProxyInv, TypeOK
<1>5. /\ k \in 0..Len(returning[t])
      /\ fromServer'[t] \o answers'[t] = SubSeq(returning[t], 1, k)
  <2>1. SubSeq(fromServer[t], 1, k) = SubSeq(returning[t], 1, k)
        /\ SubSeq(fromServer[t], 1, k) \o <<>> = SubSeq(fromServer[t], 1, k)
        /\ k \in 0..Len(returning[t])
    BY <1>2, <1>3, ReturningType
  <2> QED
    BY <1>2, <1>4, <2>1
<1> QED
  BY <1>4, <1>5, ReturningType, ReturningIs

LEMMA ReturningStep ==
  ASSUME ProxyInv, [Next]_vars
  PROVE  \/ returning' = returning
         \/ \E s \in Line : RelayReceive(s) \/ ServerReads(s) \/ ServerDies(s)
<1>1. CASE fromServer' = fromServer /\ answers' = answers
  BY <1>1 DEF returning, Returning
<1> QED
  BY <1>1, FromServerStep, ReturningWritten DEF Serve

LEMMA UpStep ==
  ASSUME [Next]_vars
  PROVE  \/ up' = up
         \/ \E c \in Slot : \/ Receive(c) \/ ReceiveName(c) \/ PeerAuth(c)
                            \/ PeerAsk(c) \/ PeerName(c) \/ PeerBegin(c)
                            \/ PeerSend(c) \/ PeerEnd(c) \/ PeerClose(c)
<1>1. CASE \E c \in Slot : Handler(c)
  BY <1>1
  DEF Handler, Enter, Increment, LoopTest, LockToReceive, ReceiveEnd,
      ReceiveError, SearchName, Answer, Forward, MarkClosed, Uncount, Decrement,
      CloseSocket, LockToRelease, ReleaseLoad, ReadCount, WriteCount, netVars
<1>2. CASE \E c \in Slot : Peer(c)
  BY <1>2 DEF Peer, PeerAnswered, netVars
<1>3. CASE \/ \E s \in Line : Relay(s) \/ Serve(s) \/ ServerDies(s)
           \/ UNCHANGED vars
  BY <1>3
  DEF Relay, RelayTest, RelayReceive, RelayError, RelayLookup, RelayNull,
      RelayCheck, RelayReadFd, RelayWrite, RelayCancelled, Serve, ServerReads,
      ServerWrites, ServerDies, vars, netVars
<1>4. CASE Accept \/ Proceed
  BY <1>4
  DEF Accept, Proceed, OpenServer, SkipServer, PublishServer, EndOfFile, Scan,
      LockLeast, Assign, LockAssigned, AddLoad, Spawn, CountClient,
      JoinHandlers, SendEoj, JoinRelay, JoinUnstarted, Stop, netVars
<1> QED
  BY <1>1, <1>2, <1>3, <1>4 DEF Next

\* A relay's packet changes when it receives one, sends it back or has sent it.
LEMMA DataStep ==
  ASSUME ProxyInv, [Next]_vars, NEW s \in Line
  PROVE  \/ /\ relay'[s].data = relay[s].data
            /\ relay'[s].pc \in {"lookup", "check"}
                 => relay[s].pc \in {"lookup", "check"}
         \/ RelayReceive(s) \/ RelayCheck(s) \/ RelayWrite(s)
<1> DEFINE x(t, p) == [relay[t] EXCEPT !.pc = p]
<1>1. \A t \in Line : \A p : x(t, p).pc = p /\ x(t, p).data = relay[t].data
  BY DEF ProxyInv, TypeOK, RelayThread
<1>2. CASE \E t \in Line : Relay(t)
  <2>1. PICK t \in Line : Relay(t)
    BY <1>2
  <2>2. CASE t # s
    BY <2>1, <2>2
    DEF Relay, RelayTest, RelayReceive, RelayError, RelayLookup, RelayNull,
        RelayCheck, RelayReadFd, RelayWrite, RelayCancelled, ProxyInv, TypeOK
  <2>3. CASE t = s
    <3>1. CASE RelayTest(s) \/ RelayError(s) \/ RelayCancelled(s)
      <4>1. PICK p \in {"recv", "exit"} : relay' = [relay EXCEPT ![s] = x(s, p)]
        BY <3>1 DEF RelayTest, RelayError, RelayCancelled
      <4>2. x(s, p).pc \notin {"lookup", "check"} /\ x(s, p).data = relay[s].data
        BY <1>1
      <4> HIDE DEF x
      <4>3. relay'[s] = x(s, p)
        BY <4>1 DEF ProxyInv, TypeOK
      <4> QED
        BY <4>2, <4>3
    <3>2. CASE RelayLookup(s)
      <4> DEFINE y == [relay[s] EXCEPT !.i = relay[s].i + 1]
      <4>1. y.pc = relay[s].pc /\ y.data = relay[s].data
        BY DEF ProxyInv, TypeOK, RelayThread
      <4>2. \/ relay[s].pc = "lookup" /\ relay' = [relay EXCEPT ![s] = x(s, "check")]
            \/ relay' = [relay EXCEPT ![s] = x(s, "send")]
            \/ relay' = [relay EXCEPT ![s] = y]
        BY <3>2 DEF RelayLookup
      <4>3. x(s, "send").pc \notin {"lookup", "check"}
        BY <1>1
      <4> HIDE DEF x, y
      <4> QED
        BY <1>1, <4>1, <4>2, <4>3 DEF ProxyInv, TypeOK
    <3>3. CASE RelayNull(s)
      BY <3>3 DEF RelayNull
    <3>4. CASE RelayReadFd(s)
      <4> DEFINE r == [relay[s] EXCEPT !.pc = "write",
                                       !.fd = client[relay[s].i].sock_fd]
      <4>1. /\ r.pc = "write" /\ r.data = relay[s].data
            /\ relay' = [relay EXCEPT ![s] = r]
        BY <3>4 DEF RelayReadFd, ProxyInv, TypeOK, RelayThread
      <4> HIDE DEF r
      <4> QED
        BY <4>1 DEF ProxyInv, TypeOK
    <3> QED
      BY <2>1, <2>3, <3>1, <3>2, <3>3, <3>4 DEF Relay
  <2> QED
    BY <2>2, <2>3
<1>3. CASE OpenServer
  <2>1. PICK p \in {"test", "none"} :
          relay' = [relay EXCEPT ![nb_servers] = x(nb_servers, p)]
    BY <1>3 DEF OpenServer, Created
  <2>2. nb_servers \in Line /\ x(nb_servers, p).pc \in {"test", "none"}
    BY <1>1, <1>3, <2>1, ConstantsOK
    DEF OpenServer, ProxyInv, TypeOK, MainInv, Line
  <2> HIDE DEF x
  <2> QED
    BY <1>1, <2>1, <2>2 DEF ProxyInv, TypeOK
<1>4. CASE relay' = relay
  BY <1>4
<1> QED
  BY <1>2, <1>3, <1>4, RelayChangers

\* What a send does to a connection.
LEMMA LinkSend ==
  ASSUME ProxyInv, NEW d \in Slot, NEW p, Send(d, p), NEW c \in Slot
  PROVE  \/ link'[c] = link[c]
         \/ link[c] # "none" /\ link'[c] \notin {"none", "open"}
<1>1. PICK l \in AfterSend(link[d]) \cup {link[d]} : link' = [link EXCEPT ![d] = l]
  BY DEF Send, ProxyInv, TypeOK
<1>2. l = link[d] \/ (link[d] # "none" /\ l \notin {"none", "open"})
  BY <1>1 DEF AfterSend
<1> QED
  BY <1>1, <1>2 DEF ProxyInv, TypeOK

\* A connection is opened by accept, once, and then only ever falls.
LEMMA LinkStep ==
  ASSUME ProxyInv, [Next]_vars, NEW c \in Slot
  PROVE  \/ link'[c] = link[c]
         \/ link[c] # "none" /\ link'[c] \notin {"none", "open"}
         \/ Accept /\ c = nb_clients /\ peer'[c].sent = peer[c].sent
<1>1. CASE Accept
  <2> DEFINE x == [peer[nb_clients] EXCEPT !.pc = "auth"]
  <2>1. nb_clients \in Slot /\ x.sent = peer[nb_clients].sent
    BY <1>1, ConstantsOK DEF Accept, TableFull, ProxyInv, TypeOK, Slot,
         PeerState
  <2>2. /\ link' = [link EXCEPT ![nb_clients] = "open"]
        /\ peer' = [peer EXCEPT ![nb_clients] = x]
    BY <1>1 DEF Accept
  <2> HIDE DEF x
  <2> QED
    BY <1>1, <2>1, <2>2 DEF ProxyInv, TypeOK
<1>2. CASE \E d \in Slot : ReceiveError(d) \/ ReceiveName(d) \/ PeerClose(d)
  <2>1. PICK d \in Slot : ReceiveError(d) \/ ReceiveName(d) \/ PeerClose(d)
    BY <1>2
  <2>2. PICK l \in {"dead", "fin", "rst", link[d]} : link' = [link EXCEPT ![d] = l]
    BY <2>1 DEF ReceiveError, ReceiveName, PeerClose, AfterClose, ProxyInv,
         TypeOK
  <2>3. l = link[d] \/ link[d] # "none"
    BY <2>1, <2>2 DEF ReceiveError, ReceiveName, PeerClose, ProxyInv, TypeOK
  <2> QED
    BY <2>2, <2>3 DEF ProxyInv, TypeOK
<1>3. CASE \E d \in Slot : Answer(d)
  BY <1>3, LinkSend DEF Answer
<1>4. CASE \E s \in Line : RelayWrite(s)
  <2>1. PICK s \in Line : RelayWrite(s)
    BY <1>4
  <2>2. CASE relay[s].fd \in Fd /\ fds[relay[s].fd] # NoSlot
    <3>1. fds[relay[s].fd] \in Slot
      BY <2>2 DEF ProxyInv, TypeOK
    <3> QED
      BY <2>1, <2>2, <3>1, LinkSend DEF RelayWrite
  <2>3. CASE ~(relay[s].fd \in Fd /\ fds[relay[s].fd] # NoSlot)
    BY <2>1, <2>3 DEF RelayWrite
  <2> QED
    BY <2>2, <2>3
<1>5. \/ link' = link \/ Accept
      \/ \E d \in Slot : \/ ReceiveError(d) \/ ReceiveName(d) \/ PeerClose(d)
                         \/ Answer(d)
      \/ \E s \in Line : RelayWrite(s)
  BY DEF Next, Proceed, OpenServer, SkipServer, PublishServer, EndOfFile, Scan,
     LockLeast, Assign, LockAssigned, AddLoad, Spawn, CountClient, JoinHandlers,
     SendEoj, JoinRelay, JoinUnstarted, Stop, vars, netVars, Relay, RelayTest,
     RelayReceive, RelayError, RelayLookup, RelayNull, RelayCheck, RelayReadFd,
     RelayCancelled, Serve, ServerReads, ServerWrites, ServerDies, Peer,
     PeerAuth, PeerAsk, PeerName, PeerAnswered, PeerBegin, PeerSend, PeerEnd,
     Says, CanSay, Handler, Enter, Increment, LoopTest, LockToReceive, Receive,
     ReceiveEnd, SearchName, Forward, MarkClosed, Uncount, Decrement,
     CloseSocket, LockToRelease, ReleaseLoad, ReadCount, WriteCount, loadVars
<1> QED
  BY <1>1, <1>2, <1>3, <1>4, <1>5

\* Slots are filled one after the other and never given back.
LEMMA HasKept ==
  ASSUME ProxyInv, [Next]_vars, NEW c \in Slot,
         Has(c, Filling)
  PROVE  Has(c, Filling)'
<1>1. CASE \E d \in Slot : Handler(d)
  BY <1>1, HandlerMain DEF Has, Filling, mainVars
<1>2. CASE \/ \E s \in Line : Relay(s) \/ Serve(s) \/ ServerDies(s)
           \/ \E d \in Slot : Peer(d)
           \/ UNCHANGED vars
  BY <1>2, OutsideMain DEF Has, Filling, mainVars
<1>3. c \in Nat /\ nb_clients \in Nat
  BY ConstantsOK DEF ProxyInv, TypeOK, Slot
<1>4. CASE \/ Accept \/ LockLeast \/ Assign \/ LockAssigned \/ AddLoad
           \/ Spawn \/ CountClient
  <2>1. \/ mpc' \in Filling /\ nb_clients' = nb_clients
        \/ nb_clients' = nb_clients + 1
    BY <1>4
    DEF Accept, LockLeast, Assign, LockAssigned, AddLoad, Spawn, CountClient,
        countVars, Filling
  <2> QED
    BY <1>3, <2>1 DEF Has
<1>5. CASE \/ OpenServer \/ SkipServer \/ PublishServer \/ EndOfFile \/ Scan
           \/ JoinHandlers \/ SendEoj \/ JoinRelay \/ JoinUnstarted \/ Stop
  BY <1>5
  DEF OpenServer, SkipServer, PublishServer, EndOfFile, Scan, JoinHandlers,
      SendEoj, JoinRelay, JoinUnstarted, Stop, countVars, mainVars, Has,
      Filling, ProxyInv, MainInv
<1> QED
  BY <1>1, <1>2, <1>4, <1>5 DEF Next, Proceed

LEMMA LinkInit == Init => LinkInv
BY DEF Init, LinkInv

LEMMA LinkNext == ProxyInv /\ LinkInv /\ [Next]_vars => LinkInv'
<1> SUFFICES ASSUME ProxyInv, LinkInv, [Next]_vars, NEW c \in Slot,
                    ~Has(c, Filling)'
             PROVE  link'[c] = "none"
  BY DEF LinkInv
<1>1. ~Has(c, Filling) /\ link[c] = "none"
  BY HasKept DEF LinkInv
<1>2. ~(Accept /\ c = nb_clients)
  BY DEF Accept, Has, Filling, countVars
<1> QED
  BY <1>1, <1>2, LinkStep

\* A client's server is chosen once.
LEMMA ServerKept ==
  ASSUME ProxyInv, [Next]_vars, NEW c \in Slot, client[c].server \in Line
  PROVE  client'[c].server = client[c].server
<1>1. CASE Quiet
  BY <1>1 DEF Quiet
<1>2. CASE \E d \in Slot : MarkClosed(d)
  <2>1. PICK d \in Slot : MarkClosed(d)
    BY <1>2
  <2> DEFINE x == [client[d] EXCEPT !.sock_fd = NoFd]
  <2>2. client' = [client EXCEPT ![d] = x] /\ x.server = client[d].server
    BY <2>1 DEF MarkClosed, ProxyInv, TypeOK, ClientSlot
  <2> HIDE DEF x
  <2> QED
    BY <2>2 DEF ProxyInv, TypeOK
<1>3. CASE \/ LockLeast \/ LockAssigned \/ AddLoad
           \/ \E d \in Slot : CloseSocket(d) \/ ReleaseLoad(d)
  BY <1>3 DEF LockLeast, LockAssigned, AddLoad, CloseSocket, ReleaseLoad
<1>4. CASE Accept \/ Assign
  <2>1. c # nb_clients
    <3>1. mpc \in {"accept", "add"}
      BY <1>4 DEF Accept, Assign
    <3>2. nb_clients \in Nat /\ ~Has(nb_clients, Placed)
      BY <3>1, ConstantsOK DEF Has, Placed, ProxyInv, TypeOK
    <3>3. NoLine \notin Line
      BY DEF NoLine, Line
    <3> QED
      BY <1>4, <3>2, <3>3 DEF ProxyInv, SlotInv
  <2>2. PICK x : client' = [client EXCEPT ![nb_clients] = x]
    BY <1>4 DEF Accept, Assign
  <2> QED
    BY <2>1, <2>2 DEF ProxyInv, TypeOK
<1>5. CASE \E d \in Slot : Handler(d)
  BY <1>1, <1>2, <1>3, <1>5, QuietHandler DEF ProxyInv
<1>6. CASE Spawn
  BY <1>1, <1>6, QuietSpawn
<1>7. CASE \/ \E s \in Line : Relay(s) \/ Serve(s) \/ ServerDies(s)
           \/ \E d \in Slot : Peer(d)
           \/ UNCHANGED vars
  BY <1>1, <1>7, QuietOutside
<1>8. CASE \/ OpenServer \/ SkipServer \/ PublishServer \/ EndOfFile \/ Scan
           \/ CountClient \/ JoinHandlers \/ SendEoj \/ JoinRelay
           \/ JoinUnstarted \/ Stop
  BY <1>1, <1>8, QuietMain
<1> QED
  BY <1>3, <1>4, <1>5, <1>6, <1>7, <1>8 DEF Next, Proceed

LEMMA AtKept ==
  ASSUME ProxyInv, [Next]_vars, NEW p, NEW s \in Line, At(p, s)
  PROVE  At(p, s)'
BY ServerKept DEF At

LEMMA AppendItems ==
  ASSUME NEW q \in Seq(Packet), NEW p \in Packet
  PROVE  \A i \in DOMAIN Append(q, p) :
           \/ Append(q, p)[i] = p
           \/ i \in DOMAIN q /\ Append(q, p)[i] = q[i]
OBVIOUS

LEMMA TailItems ==
  ASSUME NEW q \in Seq(Packet), q # <<>>
  PROVE  /\ \A i \in DOMAIN Tail(q) : i + 1 \in DOMAIN q /\ Tail(q)[i] = q[i + 1]
         /\ 1 \in DOMAIN q /\ Head(q) = q[1] /\ Head(q) \in Packet
         /\ Tail(q) \in Seq(Packet)
OBVIOUS

\* What clients say besides exchanges has no number.
LEMMA OtherSaid ==
  ASSUME ProxyInv, NEW d \in Slot,
         \/ PeerAuth(d) \/ PeerAsk(d) \/ PeerName(d) \/ PeerBegin(d)
         \/ PeerEnd(d)
  PROVE  \E p \in Packet : /\ p.from = NoSlot /\ p.type \notin {"CEX", "FEX"}
                           /\ up' = [up EXCEPT ![d] = Append(@, p)]
<1> DEFINE Other == {p \in Packet : p.from = NoSlot /\ p.type \notin {"CEX", "FEX"}}
<1>1. up[d] \in Seq(Packet) /\ peer[d].dest \in Addr \cup {NoAddr}
  BY DEF ProxyInv, TypeOK, PeerState
<1>2. /\ \A t \in Data_type \ {"CEX", "FEX"} :
            Typed(t) \in Packet /\ Typed(t).from = NoSlot
            /\ Typed(t).type \notin {"CEX", "FEX"}
      /\ \A n \in Names :
            Pseudo(n) \in Packet /\ Pseudo(n).from = NoSlot
            /\ Pseudo(n).type \notin {"CEX", "FEX"}
      /\ \A a \in Addr \cup {NoAddr} :
           /\ [Typed("EOC") EXCEPT !.dest = a] \in Packet
           /\ [Typed("EOC") EXCEPT !.dest = a].from = NoSlot
           /\ [Typed("EOC") EXCEPT !.dest = a].type \notin {"CEX", "FEX"}
  BY DEF Typed, Pseudo, Zero, Packet, Data_type
<1>3. \A t \in {"CON", "GET", "BOC"} : Typed(t) \in Other
  BY <1>2 DEF Data_type
<1>4. /\ \A n \in Names : Pseudo(n) \in Other
      /\ \A a \in Addr \cup {NoAddr} : [Typed("EOC") EXCEPT !.dest = a] \in Other
  BY <1>2
<1> SUFFICES \E p \in Other : up' = [up EXCEPT ![d] = Append(@, p)]
  OBVIOUS
<1>5. \A p \in Other : up[d] \o <<p>> = Append(up[d], p)
  BY <1>1
<1> HIDE DEF Other
<1>6. CASE PeerAuth(d) \/ PeerName(d)
  <2>1. PICK p \in {Typed("CON")} \cup {Pseudo(n) : n \in Names} :
          up' = [up EXCEPT ![d] = @ \o <<p>>]
    BY <1>6 DEF PeerAuth, PeerName, Says
  <2>2. p \in Other
    BY <1>3, <1>4, <2>1
  <2> QED
    BY <1>5, <2>1, <2>2
<1>7. CASE PeerAsk(d) \/ PeerBegin(d)
  BY <1>3, <1>7 DEF PeerAsk, PeerBegin
<1>8. CASE PeerEnd(d)
  <2> DEFINE p == [Typed("EOC") EXCEPT !.dest = peer[d].dest]
  <2>1. p \in Other
    BY <1>1, <1>4
  <2>2. up' = [up EXCEPT ![d] = @ \o <<p>>]
    BY <1>8 DEF PeerEnd, Says
  <2> HIDE DEF p
  <2> QED
    BY <1>5, <2>1, <2>2
<1> QED
  BY <1>6, <1>7, <1>8

\* What a client's end leaves of what it has said.
LEMMA SaidCut ==
  ASSUME ProxyInv, NEW d \in Slot, PeerClose(d)
  PROVE  \E k \in 0..Len(up[d]) : up' = [up EXCEPT ![d] = SubSeq(up[d], 1, k)]
<1>1. up[d] \in Seq(Packet)
  BY DEF ProxyInv, TypeOK
<1>2. PICK q \in Delivered(up[d], link'[d]) : up' = [up EXCEPT ![d] = q]
  BY DEF PeerClose
<1> QED
  BY <1>1, <1>2, DeliveredCut

\* What a client says of an exchange.
LEMMA SaidExchange ==
  ASSUME ProxyInv, NEW d \in Slot, PeerSend(d)
  PROVE  \E p \in Packet :
           /\ p.type = "CEX" /\ p.from = d /\ p.id = peer[d].sent
           /\ up' = [up EXCEPT ![d] = Append(@, p)]
           /\ peer' = [peer EXCEPT ![d].sent = peer[d].sent + 1]
           /\ link[d] = "open" /\ link' = link /\ peer[d].sent < MaxCex
<1> DEFINE p == [Typed("CEX") EXCEPT !.dest = peer[d].dest, !.from = d,
                                     !.id = peer[d].sent]
<1>1. peer[d].dest \in Addr \cup {NoAddr} /\ peer[d].sent \in Nat
  BY DEF ProxyInv, TypeOK, PeerState
<1>2. p \in Packet /\ p.type = "CEX" /\ p.from = d /\ p.id = peer[d].sent
  BY <1>1 DEF Typed, Zero, Packet, Data_type
<1>3. up' = [up EXCEPT ![d] = Append(@, p)]
  BY DEF PeerSend
<1> HIDE DEF p
<1> QED
  BY <1>2, <1>3 DEF PeerSend, CanSay, netVars, loadVars

\* Every packet of an exchange on a socket names its client.
LEMMA NamedUp ==
  ASSUME ProxyInv, [Next]_vars, NEW c \in Slot,
         \A i \in DOMAIN up[c] : Said(up[c][i], c)
  PROVE  \A i \in DOMAIN up'[c] : Said(up'[c][i], c)
<1>1. CASE up'[c] = up[c]
  BY <1>1
<1>2. CASE up'[c] # up[c]
  <2>1. PICK d \in Slot : \/ Receive(d) \/ ReceiveName(d) \/ PeerAuth(d)
                          \/ PeerAsk(d) \/ PeerName(d) \/ PeerBegin(d)
                          \/ PeerSend(d) \/ PeerEnd(d) \/ PeerClose(d)
    BY <1>2, UpStep
  <2>2. CASE Receive(d) \/ ReceiveName(d)
    <3>1. up[d] # <<>> /\ up' = [up EXCEPT ![d] = Tail(@)]
      BY <1>2, <2>2 DEF Receive, ReceiveName
    <3>2. d = c /\ up'[c] = Tail(up[c]) /\ up[c] \in Seq(Packet)
      BY <1>2, <3>1 DEF ProxyInv, TypeOK
    <3> QED
      BY <3>1, <3>2, TailItems
  <2>3. CASE \/ PeerAuth(d) \/ PeerAsk(d) \/ PeerName(d) \/ PeerBegin(d)
             \/ PeerEnd(d)
    <3>1. PICK p \in Packet : /\ p.from = NoSlot /\ p.type \notin {"CEX", "FEX"}
                              /\ up' = [up EXCEPT ![d] = Append(@, p)]
      BY <2>3, OtherSaid
    <3>2. d = c /\ up'[c] = Append(up[c], p) /\ up[c] \in Seq(Packet)
      BY <1>2, <3>1 DEF ProxyInv, TypeOK
    <3>3. Said(p, c)
      BY <3>1 DEF Said
    <3> QED
      BY <3>1, <3>2, <3>3, AppendItems
  <2>4. CASE PeerSend(d)
    <3>1. PICK p \in Packet : /\ p.type = "CEX" /\ p.from = d
                              /\ up' = [up EXCEPT ![d] = Append(@, p)]
      BY <2>4, SaidExchange
    <3>2. d = c /\ up'[c] = Append(up[c], p) /\ up[c] \in Seq(Packet)
      BY <1>2, <3>1 DEF ProxyInv, TypeOK
    <3>3. Said(p, c)
      BY <3>1, <3>2 DEF Said, Slot, NoSlot
    <3> QED
      BY <3>1, <3>2, <3>3, AppendItems
  <2>5. CASE PeerClose(d)
    <3>1. PICK k \in 0..Len(up[d]) : up' = [up EXCEPT ![d] = SubSeq(up[d], 1, k)]
      BY <2>5, SaidCut
    <3>2. d = c /\ up'[c] = SubSeq(up[c], 1, k) /\ up[c] \in Seq(Packet)
      BY <1>2, <3>1 DEF ProxyInv, TypeOK
    <3> QED
      BY <3>1, <3>2, CutItems
  <2> QED
    BY <2>1, <2>2, <2>3, <2>4, <2>5
<1> QED
  BY <1>1, <1>2

LEMMA NamedHeld ==
  ASSUME ProxyInv, [Next]_vars, NEW c \in Slot, Held(handler[c], c),
         \A i \in DOMAIN up[c] : Said(up[c][i], c)
  PROVE  Held(handler'[c], c)
<1>1. CASE handler'[c] = handler[c]
  BY <1>1
<1>2. CASE handler'[c] # handler[c] /\ handler'[c].pc = "forward"
  <2>1. /\ Receive(c) /\ Head(up[c]).type \in {"CEX", "FEX"}
        /\ handler'[c].data = [Head(up[c]) EXCEPT !.origin = client[c].addr]
    BY <1>2, ForwardReceived
  <2>2. up[c] \in Seq(Packet) /\ up[c] # <<>>
    BY <2>1 DEF Receive, ProxyInv, TypeOK
  <2>3. Said(Head(up[c]), c) /\ Head(up[c]) \in Packet
    BY <2>2, TailItems
  <2>4. Head(up[c]).type = "CEX" /\ Head(up[c]).from = c
    BY <2>1, <2>3 DEF Said
  <2> QED
    BY <2>1, <2>3, <2>4 DEF Held, Packet
<1> QED
  BY <1>1, <1>2 DEF Held

\* What a send does to the stream to a server.
LEMMA SentItems ==
  ASSUME ProxyInv, NEW t \in Line, NEW p \in Packet, SendServer(t, p),
         NEW s \in Line
  PROVE  \/ toServer'[s] = toServer[s]
         \/ s = t /\ toServer'[s] = Append(toServer[s], p)
BY DEF SendServer, ProxyInv, TypeOK

LEMMA NamedTo ==
  ASSUME ProxyInv, NamedInv, [Next]_vars, NEW s \in Line
  PROVE  (\A i \in DOMAIN toServer[s] : Sent(toServer[s][i], s))'
<1> DEFINE S == {p \in Packet : Sent(p, s)'}
<1>1. toServer[s] \in Seq(Packet)
  BY DEF ProxyInv, TypeOK
<1>2. \A p \in Packet : Sent(p, s) => p \in S
  BY AtKept DEF Sent
<1>3. \A i \in DOMAIN toServer[s] : toServer[s][i] \in S
  BY <1>1, <1>2 DEF NamedInv
<1> SUFFICES \A i \in DOMAIN toServer'[s] : toServer'[s][i] \in S
  OBVIOUS
<1> HIDE DEF S
<1>4. CASE toServer'[s] = toServer[s]
  BY <1>3, <1>4
<1>5. CASE \E p \in Packet : p \in S /\ toServer'[s] = Append(toServer[s], p)
  BY <1>1, <1>3, <1>5, AppendItems
<1>6. CASE SendEoj
  <2>1. /\ mi \in Line /\ SendServer(mi, Typed("EOJ"))
    BY <1>6, ConstantsOK DEF SendEoj, ProxyInv, TypeOK, Line
  <2>2. Typed("EOJ") \in Packet /\ Sent(Typed("EOJ"), s)
    BY DEF Typed, Zero, Sent, Packet, Data_type
  <2> QED
    BY <1>2, <1>4, <1>5, <2>1, <2>2, SentItems
<1>7. CASE \E c \in Slot : Forward(c)
  <2>1. PICK c \in Slot : Forward(c)
    BY <1>7
  <2> DEFINE t == client[c].server
             p == handler[c].data
  <2>2. SendServer(t, p) /\ handler[c].pc = "forward"
    BY <2>1 DEF Forward, Resume
  <2>3. p \in Packet /\ p.type = "CEX" /\ p.from = c /\ Sent(p, t)
    BY <2>2 DEF NamedInv, Held, At, Sent, ProxyInv, TypeOK, HandlerThread
  <2>4. t \in Line
    BY <2>2, ServerOfRunning
  <2> HIDE DEF t, p
  <2>5. t = s => p \in S
    BY <1>2, <2>3
  <2> QED
    BY <1>4, <1>5, <2>2, <2>3, <2>4, <2>5, SentItems
<1>8. CASE \E t \in Line : ServerReads(t)
  <2>1. PICK t \in Line : ServerReads(t)
    BY <1>8
  <2>2. CASE t = s
    <3>1. toServer[s] # <<>> /\ toServer'[s] = Tail(toServer[s])
      BY <2>1, <2>2 DEF ServerReads, ProxyInv, TypeOK
    <3> QED
      BY <1>1, <1>3, <3>1, TailItems
  <2>3. CASE t # s
    BY <1>4, <2>1, <2>3 DEF ServerReads, ProxyInv, TypeOK
  <2> QED
    BY <2>2, <2>3
<1> QED
  BY <1>4, <1>6, <1>7, <1>8, QueueStep

\* What a turn of the server adds to the stream back.
LEMMA Served ==
  ASSUME ProxyInv, NamedInv, NEW t \in Line, ServerReads(t)
  PROVE  LET p == Head(toServer[t])
         IN  /\ toServer[t] # <<>> /\ p \in Packet
             /\ toServer' = [toServer EXCEPT ![t] = Tail(@)]
             /\ \/ returning' = returning /\ p.type = "EOJ" /\ p.from = NoSlot
                \/ /\ p.type = "CEX" /\ At(p, t)
                   /\ Ack(p) \in Packet
                   /\ returning' =
                        [returning EXCEPT ![t] = Append(Append(@, p), Ack(p))]
<1> DEFINE p == Head(toServer[t])
<1>1. toServer[t] \in Seq(Packet) /\ toServer[t] # <<>>
  BY DEF ServerReads, ProxyInv, TypeOK
<1>2. p \in Packet /\ Sent(p, t)
  BY <1>1, TailItems DEF NamedInv
<1>3. CASE p.type = "EOJ"
  BY <1>1, <1>2, <1>3 DEF ServerReads, Sent, returning, Returning
<1>4. CASE p.type = "CEX"
  <2>1. /\ answers[t] = <<>> /\ fromServer' = fromServer
        /\ answers' = [answers EXCEPT ![t] = server_send(p)]
    BY <1>4 DEF ServerReads
  <2>2. server_send(p) = <<p, Ack(p)>>
    BY <1>4 DEF server_send
  <2>3. Ack(p) \in Packet
    BY <1>2 DEF Ack, Packet, Data_type
  <2> DEFINE a == Ack(p)
  <2> HIDE DEF p, a
  <2>4. \A q \in Seq(Packet) :
          q \o <<>> = q /\ q \o <<p, a>> = Append(Append(q, p), a)
    BY <1>2, <2>3 DEF a
  <2>5. /\ returning[t] = fromServer[t] /\ fromServer[t] \in Seq(Packet)
        /\ returning \in [Line -> Seq(Packet)]
    BY <2>1, <2>4, ReturningType
  <2>6. /\ answers'[t] = <<p, a>>
        /\ \A s \in Line \ {t} : answers'[s] = answers[s]
    BY <2>1, <2>2 DEF a, ProxyInv, TypeOK
  <2>7. fromServer'[t] \o answers'[t] = Append(Append(fromServer[t], p), a)
    BY <2>1, <2>4, <2>5, <2>6
  <2>8. returning' =
          [returning EXCEPT ![t] = Append(Append(fromServer[t], p), a)]
    BY <2>1, <2>5, <2>6, <2>7, ReturningIs
  <2> QED
    BY <1>1, <1>2, <1>4, <2>3, <2>5, <2>8 DEF ServerReads, Sent, p, a
<1> QED
  BY <1>2, <1>3, <1>4 DEF Sent

\* What a packet becomes when it goes back to its client.
LEMMA BouncedPacket ==
  ASSUME NEW p \in Packet
  PROVE  /\ Bounced(p) \in Packet
         /\ Bounced(p).from = p.from /\ Bounced(p).id = p.id
         /\ Bounced(p).type = IF p.type = "CEX" THEN "EOC" ELSE "EOF"
BY DEF Bounced, Packet, Data_type

\* The outcomes of the steps of a relay that change its packet.
LEMMA DataReceive ==
  ASSUME ProxyInv, NEW s \in Line, RelayReceive(s)
  PROVE  \/ /\ returning[s] # <<>> /\ relay'[s].data = Head(returning[s])
            /\ returning' = [returning EXCEPT ![s] = Tail(@)]
         \/ relay'[s].data = Zero /\ returning' = returning
<1> DEFINE x(p) == [relay[s] EXCEPT !.pc = "lookup", !.i = 0, !.data = p]
<1>1. \A p : x(p).data = p
  BY DEF ProxyInv, TypeOK, RelayThread
<1>2. answers' = answers
  BY DEF RelayReceive
<1>3. CASE /\ fromServer[s] # <<>>
           /\ relay' = [relay EXCEPT ![s] = x(Head(fromServer[s]))]
           /\ fromServer' = [fromServer EXCEPT ![s] = Tail(@)]
  <2>1. relay'[s] = x(Head(fromServer[s]))
    BY <1>3 DEF ProxyInv, TypeOK
  <2> HIDE DEF x
  <2> QED
    BY <1>1, <1>2, <1>3, <2>1, ReturningTaken
<1>4. CASE relay' = [relay EXCEPT ![s] = x(Zero)] /\ fromServer' = fromServer
  <2>1. relay'[s] = x(Zero)
    BY <1>4 DEF ProxyInv, TypeOK
  <2>2. returning' = returning
    BY <1>2, <1>4 DEF returning, Returning
  <2> HIDE DEF x
  <2> QED
    BY <1>1, <2>1, <2>2
<1> QED
  BY <1>3, <1>4 DEF RelayReceive

LEMMA NamedFrom ==
  ASSUME ProxyInv, NamedInv, [Next]_vars, NEW s \in Line
  PROVE  (\A i \in DOMAIN returning[s] : Back(returning[s][i], s))'
<1> DEFINE S == {p \in Packet : Back(p, s)'}
<1>1. returning[s] \in Seq(Packet) /\ DOMAIN returning = Line
  BY ReturningType
<1>2. \A p \in Packet : Back(p, s) => p \in S
  BY AtKept DEF Back
<1>3. \A i \in DOMAIN returning[s] : returning[s][i] \in S
  BY <1>1, <1>2 DEF NamedInv
<1> SUFFICES \A i \in DOMAIN returning'[s] : returning'[s][i] \in S
  OBVIOUS
<1> HIDE DEF S
<1>4. CASE returning'[s] = returning[s]
  BY <1>3, <1>4
<1>5. CASE \E t \in Line : RelayReceive(t)
  <2>1. PICK t \in Line : RelayReceive(t)
    BY <1>5
  <2>2. \/ returning' = returning
        \/ /\ returning[t] # <<>>
           /\ returning' = [returning EXCEPT ![t] = Tail(@)]
    BY <2>1, DataReceive
  <2>3. CASE t = s /\ returning[s] # <<>> /\ returning'[s] = Tail(returning[s])
    BY <1>1, <1>3, <2>3, TailItems
  <2> QED
    BY <1>1, <1>4, <2>2, <2>3
<1>6. CASE \E t \in Line : ServerReads(t)
  <2>1. PICK t \in Line : ServerReads(t)
    BY <1>6
  <2> DEFINE p == Head(toServer[t])
             a == Ack(p)
  <2>2. /\ p \in Packet
        /\ \/ returning' = returning
           \/ /\ p.type = "CEX" /\ At(p, t) /\ a \in Packet
              /\ returning' = [returning EXCEPT ![t] = Append(Append(@, p), a)]
    BY <2>1, Served
  <2>3. p.type = "CEX" /\ At(p, t) => Back(p, t) /\ Back(a, t)
    BY <2>2 DEF Back, Ack, At, Packet
  <2> HIDE DEF p, a
  <2>4. CASE /\ t = s /\ p \in S /\ a \in S /\ a \in Packet
             /\ returning'[s] = Append(Append(returning[s], p), a)
    <3> DEFINE q == Append(returning[s], p)
    <3>1. q \in Seq(Packet) /\ \A i \in DOMAIN q : q[i] \in S
      BY <1>1, <1>3, <2>2, <2>4, AppendItems
    <3> HIDE DEF q
    <3>2. \A i \in DOMAIN Append(q, a) : Append(q, a)[i] \in S
      BY <2>4, <3>1, AppendItems
    <3> QED
      BY <2>4, <3>2 DEF q
  <2>5. CASE t # s
    BY <1>1, <1>4, <2>2, <2>5
  <2> QED
    BY <1>1, <1>2, <1>4, <2>2, <2>3, <2>4, <2>5
<1>7. CASE \E t \in Line : ServerDies(t)
  <2>1. PICK t \in Line : ServerDies(t)
    BY <1>7
  <2>2. PICK k \in 0..Len(returning[t]) :
          returning' = [returning EXCEPT ![t] = SubSeq(@, 1, k)]
    BY <2>1, ReturningCut
  <2>3. CASE t = s
    BY <1>1, <1>3, <2>2, <2>3, CutItems
  <2> QED
    BY <1>1, <1>4, <2>2, <2>3
<1> QED
  BY <1>4, <1>5, <1>6, <1>7, ReturningStep

LEMMA DataCheck ==
  ASSUME ProxyInv, NEW s \in Line, RelayCheck(s)
  PROVE  /\ relay[s].pc = "check" /\ relay'[s].pc \notin {"lookup", "check"}
         /\ \/ relay'[s].data = relay[s].data
            \/ relay'[s].data = Bounced(relay[s].data)
<1> DEFINE x == [relay[s] EXCEPT !.pc = "send"]
           y == Returned(relay[s])
<1>1. /\ x.pc = "send" /\ x.data = relay[s].data
      /\ y.pc = "origin" /\ y.data = Bounced(relay[s].data)
  BY DEF Returned, ProxyInv, TypeOK, RelayThread
<1>2. relay[s].pc = "check" /\ relay'[s] \in {x, y}
  BY DEF RelayCheck, ProxyInv, TypeOK
<1> HIDE DEF x, y
<1> QED
  BY <1>1, <1>2

LEMMA DataWrite ==
  ASSUME ProxyInv, NEW s \in Line, RelayWrite(s)
  PROVE  relay'[s].data = Zero /\ \A t \in Line \ {s} : relay'[t] = relay[t]
BY DEF RelayWrite, ProxyInv, TypeOK

LEMMA NamedData ==
  ASSUME ProxyInv, NamedInv, [Next]_vars, NEW s \in Line
  PROVE  Kept(relay[s], s)'
<1> DEFINE S == {p \in Packet : At(p, s)'}
<1>1. relay[s].data \in Packet /\ returning[s] \in Seq(Packet)
  BY ReturningType DEF ProxyInv, TypeOK, RelayThread
<1>2. \A p \in Packet : At(p, s) => p \in S
  BY AtKept
<1>3. Kept(relay[s], s)
  BY DEF NamedInv
<1>4. \A p \in S : p.from # NoSlot
  BY DEF At, Slot, NoSlot
<1> SUFFICES IF relay'[s].data.from = NoSlot
             THEN relay'[s].data.type \in {"CLO", "EOF"}
             ELSE /\ relay'[s].data \in S
                  /\ relay'[s].pc \in {"lookup", "check"} =>
                       relay'[s].data.type \in {"CEX", "ACK"}
  BY DEF Kept, Back
<1> HIDE DEF S
<1>5. CASE /\ relay'[s].data = relay[s].data
           /\ relay'[s].pc \in {"lookup", "check"}
                => relay[s].pc \in {"lookup", "check"}
  BY <1>1, <1>2, <1>3, <1>5 DEF Kept, Back
<1>6. CASE relay'[s].data = Zero
  BY <1>6 DEF Zero
<1>7. CASE RelayReceive(s)
  <2>1. CASE returning[s] # <<>> /\ relay'[s].data = Head(returning[s])
    <3>1. Back(Head(returning[s]), s) /\ Head(returning[s]) \in Packet
      BY <1>1, <2>1, TailItems DEF NamedInv
    <3> QED
      BY <1>2, <1>4, <2>1, <3>1 DEF Back
  <2> QED
    BY <1>6, <1>7, <2>1, DataReceive
<1>8. CASE RelayCheck(s)
  <2> DEFINE p == relay[s].data
  <2>1. /\ relay[s].pc = "check" /\ relay'[s].pc \notin {"lookup", "check"}
        /\ relay'[s].data \in {p, Bounced(p)}
    BY <1>8, DataCheck
  <2>2. /\ Bounced(p) \in Packet /\ Bounced(p).from = p.from
        /\ Bounced(p).type = IF p.type = "CEX" THEN "EOC" ELSE "EOF"
    BY <1>1, BouncedPacket
  <2>3. p.from # NoSlot => At(p, s) /\ At(Bounced(p), s)
    BY <1>3, <2>2 DEF Kept, At
  <2>4. p.from = NoSlot => p.type \in {"CLO", "EOF"}
    BY <1>3 DEF Kept
  <2> HIDE DEF p
  <2>5. p \in Packet
    BY <1>1 DEF p
  <2> QED
    BY <1>2, <2>1, <2>2, <2>3, <2>4, <2>5
<1>9. CASE RelayWrite(s)
  BY <1>6, <1>9, DataWrite
<1> QED
  BY <1>5, <1>7, <1>8, <1>9, DataStep

LEMMA NamedInit == Init => NamedInv
BY DEF Init, NamedInv, Held, Kept, Zero, returning, Returning

LEMMA NamedNext == ProxyInv /\ NamedInv /\ [Next]_vars => NamedInv'
<1> SUFFICES ASSUME ProxyInv, NamedInv, [Next]_vars
             PROVE  NamedInv'
  OBVIOUS
<1>1. ASSUME NEW c \in Slot
      PROVE  /\ \A i \in DOMAIN up'[c] : Said(up'[c][i], c)
             /\ Held(handler'[c], c)
  BY NamedUp, NamedHeld DEF NamedInv
<1>2. ASSUME NEW s \in Line
      PROVE  /\ (\A i \in DOMAIN toServer[s] : Sent(toServer[s][i], s))'
             /\ (\A i \in DOMAIN returning[s] : Back(returning[s][i], s))'
             /\ Kept(relay[s], s)'
  BY NamedTo, NamedFrom, NamedData
<1> QED
  BY <1>1, <1>2 DEF NamedInv
-----------------------------------------------------------------------------
(* Several queues at once. *)

LEMMA KeysInBoth ==
  ASSUME NEW q \in Seq(Packet), NEW c
  PROVE  KeysIn(q, c) \subseteq BothIn(q, c) /\ BothIn(q, c) \subseteq Int
<1>1. \A i \in DOMAIN q : q[i] \in Packet
  OBVIOUS
<1>2. \A i \in DOMAIN q : Key(q[i]) \in Keys(q[i]) /\ Keys(q[i]) \subseteq Nat
  BY <1>1, KeyTypes
<1> QED
  BY <1>2, KeysMember, BothMember

LEMMA AllKeysInBoth ==
  ASSUME NEW D, NEW f \in [D -> Seq(Packet)], NEW c
  PROVE  AllKeys(f, c) \subseteq AllBoth(f, c) /\ AllBoth(f, c) \subseteq Int
<1>1. \A e \in D : f[e] \in Seq(Packet)
  OBVIOUS
<1>2. \A e \in D : KeysIn(f[e], c) \subseteq BothIn(f[e], c)
                   /\ BothIn(f[e], c) \subseteq Int
  BY <1>1, KeysInBoth
<1>3. DOMAIN f = D
  OBVIOUS
<1> QED
  BY <1>2, <1>3, AllKeysMember, AllBothMember

\* g is the queues f when p has joined the one of d, or when its first is gone.
Joins(D, f, g, d, p) ==
  /\ f \in [D -> Seq(Packet)] /\ d \in D /\ p \in Packet
  /\ g = [f EXCEPT ![d] = Append(@, p)]

Leaves(D, f, g, d) ==
  /\ f \in [D -> Seq(Packet)] /\ d \in D /\ f[d] # <<>>
  /\ g = [f EXCEPT ![d] = Tail(@)]

LEMMA JoinsKeys ==
  ASSUME NEW D, NEW f, NEW g, NEW d, NEW p, Joins(D, f, g, d, p), NEW c
  PROVE  /\ g \in [D -> Seq(Packet)]
         /\ \A k \in AllKeys(g, c) :
              k \in AllKeys(f, c) \/ (p.from = c /\ k = Key(p))
         /\ \A k \in AllBoth(g, c) :
              k \in AllBoth(f, c) \/ (p.from = c /\ k \in Keys(p))
         /\ (\A e \in D : Increasing(f[e], c))
              /\ (p.from = c => \A k \in AllKeys(f, c) : k < Key(p))
            => \A e \in D : Increasing(g[e], c)
<1>1. /\ f[d] \in Seq(Packet) /\ DOMAIN f = D /\ d \in D /\ p \in Packet
      /\ \A e \in D : f[e] \in Seq(Packet)
  BY DEF Joins
<1>2. Append(f[d], p) \in Seq(Packet)
  BY <1>1, QueueTypes
<1>3. /\ g \in [D -> Seq(Packet)] /\ DOMAIN g = D /\ g[d] = Append(f[d], p)
      /\ \A e \in D : e # d => g[e] = f[e]
  BY <1>1, <1>2 DEF Joins
<1>4. ASSUME NEW k \in AllKeys(g, c)
      PROVE  k \in AllKeys(f, c) \/ (p.from = c /\ k = Key(p))
  <2>1. PICK e \in D : k \in KeysIn(g[e], c)
    BY <1>3, AllKeysMember
  <2>2. k \in KeysIn(f[e], c) \/ (p.from = c /\ k = Key(p))
    BY <1>1, <1>3, <2>1, AppendKeys
  <2> QED
    BY <1>1, <2>2, AllKeysMember
<1>5. ASSUME NEW k \in AllBoth(g, c)
      PROVE  k \in AllBoth(f, c) \/ (p.from = c /\ k \in Keys(p))
  <2>1. PICK e \in D : k \in BothIn(g[e], c)
    BY <1>3, AllBothMember
  <2>2. k \in BothIn(f[e], c) \/ (p.from = c /\ k \in Keys(p))
    BY <1>1, <1>3, <2>1, AppendKeys
  <2> QED
    BY <1>1, <2>2, AllBothMember
<1>6. ASSUME \A e \in D : Increasing(f[e], c),
             p.from = c => \A k \in AllKeys(f, c) : k < Key(p),
             NEW e \in D
      PROVE  Increasing(g[e], c)
  <2>1. p.from = c => \A k \in KeysIn(f[d], c) : k < Key(p)
    BY <1>1, <1>6, AllKeysMember
  <2>2. CASE e = d
    <3>1. Increasing(f[d], c)
      BY <1>1, <1>6
    <3>2. Increasing(Append(f[d], p), c)
      BY <1>1, <2>1, <3>1, AppendKeys
    <3> QED
      BY <1>3, <2>2, <3>2
  <2>3. CASE e # d
    BY <1>3, <1>6, <2>3
  <2> QED
    BY <2>2, <2>3
<1> QED
  BY <1>3, <1>4, <1>5, <1>6

LEMMA JoinsInOrder ==
  ASSUME NEW D, NEW f, NEW g, NEW d, NEW p, Joins(D, f, g, d, p), NEW c,
         \A e \in D : Increasing(f[e], c),
         p.from = c => \A k \in AllKeys(f, c) : k < Key(p)
  PROVE  \A e \in D : Increasing(g[e], c)
BY JoinsKeys

LEMMA HeadFirst ==
  ASSUME NEW q \in Seq(Packet), q # <<>>, NEW c, Head(q).from = c,
         Increasing(q, c)
  PROVE  \A k \in KeysIn(Tail(q), c) : Key(Head(q)) < k
BY TailKeys

LEMMA LeavesKeys ==
  ASSUME NEW D, NEW f, NEW g, NEW d, Leaves(D, f, g, d), NEW c
  PROVE  /\ g \in [D -> Seq(Packet)]
         /\ AllKeys(g, c) \subseteq AllKeys(f, c)
         /\ AllBoth(g, c) \subseteq AllBoth(f, c)
         /\ (\A e \in D : Increasing(f[e], c)) => \A e \in D : Increasing(g[e], c)
<1>1. f[d] \in Seq(Packet) /\ DOMAIN f = D /\ d \in D /\ f[d] # <<>>
  BY DEF Leaves
<1>2. Tail(f[d]) \in Seq(Packet)
  BY <1>1, QueueTypes
<1>3. /\ g \in [D -> Seq(Packet)] /\ DOMAIN g = D /\ g[d] = Tail(f[d])
      /\ \A e \in D : e # d => g[e] = f[e]
  BY <1>1, <1>2 DEF Leaves
<1>4. \A e \in D : /\ KeysIn(g[e], c) \subseteq KeysIn(f[e], c)
                   /\ BothIn(g[e], c) \subseteq BothIn(f[e], c)
                   /\ Increasing(f[e], c) => Increasing(g[e], c)
  BY <1>1, <1>3, TailKeys
<1> QED
  BY <1>1, <1>3, <1>4, AllKeysMember, AllBothMember

\* g is the queues f when only a part of the one of d is left.
Cuts(D, f, g, d) ==
  /\ f \in [D -> Seq(Packet)] /\ d \in D
  /\ \E k \in 0..Len(f[d]) : g = [f EXCEPT ![d] = SubSeq(@, 1, k)]

LEMMA CutsKeys ==
  ASSUME NEW D, NEW f, NEW g, NEW d, Cuts(D, f, g, d), NEW c
  PROVE  /\ g \in [D -> Seq(Packet)]
         /\ AllKeys(g, c) \subseteq AllKeys(f, c)
         /\ AllBoth(g, c) \subseteq AllBoth(f, c)
         /\ (\A e \in D : Increasing(f[e], c)) => \A e \in D : Increasing(g[e], c)
<1>1. f[d] \in Seq(Packet) /\ DOMAIN f = D /\ d \in D
  BY DEF Cuts
<1>2. PICK k \in 0..Len(f[d]) : g = [f EXCEPT ![d] = SubSeq(@, 1, k)]
  BY DEF Cuts
<1>3. SubSeq(f[d], 1, k) \in Seq(Packet)
  BY <1>1, CutItems
<1>4. /\ g \in [D -> Seq(Packet)] /\ DOMAIN g = D /\ g[d] = SubSeq(f[d], 1, k)
      /\ \A e \in D : e # d => g[e] = f[e]
  BY <1>1, <1>2, <1>3 DEF Cuts
<1>5. \A e \in D : /\ KeysIn(g[e], c) \subseteq KeysIn(f[e], c)
                   /\ BothIn(g[e], c) \subseteq BothIn(f[e], c)
                   /\ Increasing(f[e], c) => Increasing(g[e], c)
  BY <1>1, <1>4, CutKeys
<1> QED
  BY <1>1, <1>4, <1>5, AllKeysMember, AllBothMember

\* The place before an exchange that moves is behind it.
LEMMA Adjacent ==
  ASSUME NEW c, InOrder(c)
  PROVE  /\ \A k \in AllKeys(inbox, c), l \in Carried(relay, c) : k < l
         /\ \A k \in AllKeys(returning, c), l \in AllBoth(toServer, c) : k < l
         /\ \A k \in AllBoth(toServer, c), l \in HeldBy(handler[c]) : k < l
         /\ \A k \in BothIn(up[c], c), l \in ToCome(link[c], peer[c].sent) : k < l
<1> DEFINE w == Way(c)
<1>1. \A i, j \in 1..7 : i < j => \A k \in w[i], l \in w[j] : k < l
  BY DEF InOrder
<1>2. /\ w[1] = AllKeys(inbox, c) /\ w[2] = Carried(relay, c)
      /\ w[3] = AllKeys(returning, c) /\ w[4] = AllBoth(toServer, c)
      /\ w[5] = HeldBy(handler[c]) /\ w[6] = BothIn(up[c], c)
      /\ w[7] = ToCome(link[c], peer[c].sent)
  BY DEF Way
<1> HIDE DEF w
<1>3. /\ \A k \in w[1], l \in w[2] : k < l
      /\ \A k \in w[3], l \in w[4] : k < l
      /\ \A k \in w[4], l \in w[5] : k < l
      /\ \A k \in w[6], l \in w[7] : k < l
  BY <1>1
<1> QED
  BY <1>2, <1>3

\* Only one server and its relay have packets of a client.
LEMMA OneServer ==
  ASSUME NamedInv, NEW c \in Slot, NEW s \in Line, NEW t \in Line, s # t,
         NEW p, p.from = c, At(p, s)
  PROVE  /\ relay[t].data.from # c
         /\ \A i \in DOMAIN returning[t] : returning[t][i].from # c
         /\ \A i \in DOMAIN toServer[t] : toServer[t][i].from # c
<1>1. client[c].server = s /\ c # NoSlot
  BY DEF At, Slot, NoSlot
<1>2. \A r : r.from = c => ~At(r, t)
  BY <1>1 DEF At
<1>3. relay[t].data.from # c
  BY <1>1, <1>2 DEF NamedInv, Kept
<1>4. \A i \in DOMAIN returning[t] : returning[t][i].from # c
  BY <1>2 DEF NamedInv, Back
<1>5. \A i \in DOMAIN toServer[t] : toServer[t][i].from # c
  BY <1>1, <1>2 DEF NamedInv, Sent
<1> QED
  BY <1>3, <1>4, <1>5
-----------------------------------------------------------------------------
(* One place after the other: what it holds after a step it held before, or *)
(* has got from the next place, where only greater keys are left.           *)

LEMMA InboxMoves ==
  ASSUME ProxyInv, NamedInv, [Next]_vars, NEW c \in Slot, Ordered(c)
  PROVE  /\ \A k \in AllKeys(inbox', c) :
              \/ k \in AllKeys(inbox, c)
              \/ /\ k \in Carried(relay, c)
                 /\ \A l \in Carried(relay', c) : k < l
         /\ \A e \in Slot : Increasing(inbox'[e], c)
<1>1. inbox \in [Slot -> Seq(Packet)] /\ relay \in [Line -> RelayThread]
  BY DEF ProxyInv, TypeOK
<1>2. \A e \in Slot : Increasing(inbox[e], c)
  BY DEF Ordered
<1>3. c # NoSlot
  BY DEF Slot, NoSlot
<1>4. CASE inbox' = inbox
  BY <1>2, <1>4
<1>5. CASE \E d \in Slot : Answer(d)
  <2>1. PICK d \in Slot, p \in Packet : Send(d, p) /\ p.from = NoSlot
    <3>1. PICK d \in Slot : Answer(d)
      BY <1>5
    <3>2. Typed("INE") \in Packet /\ Typed("INE").from = NoSlot
      BY DEF Typed, Zero, Packet, Data_type
    <3>3. \A a \in Addr \cup {NoAddr} : Found(a) \in Packet /\ Found(a).from = NoSlot
      BY DEF Found, Zero, Packet, Data_type
    <3>4. CASE Send(d, Typed("INE"))
      BY <3>2, <3>4
    <3>5. CASE handler[d].pc = "found" /\ Send(d, Found(client[handler[d].i].addr))
      <4>1. handler[d].i < nb_clients
        BY <3>5 DEF ProxyInv, LookupInv
      <4>2. handler[d].i \in Slot
        <5>1. handler[d].i \in Nat /\ nb_clients \in 0..BUFLEN
          BY DEF ProxyInv, TypeOK, HandlerThread
        <5> QED
          BY <4>1, <5>1, ConstantsOK DEF Slot
      <4>3. client[handler[d].i].addr \in Addr \cup {NoAddr}
        BY <4>2 DEF ProxyInv, TypeOK, ClientSlot
      <4> QED
        BY <3>3, <3>5, <4>3
    <3> QED
      BY <3>1, <3>4, <3>5 DEF Answer, Resume
  <2>2. CASE inbox' = [inbox EXCEPT ![d] = Append(@, p)]
    <3>1. Joins(Slot, inbox, inbox', d, p)
      BY <1>1, <2>2 DEF Joins
    <3>2. p.from # c
      BY <1>3, <2>1
    <3>3. \A k \in AllKeys(inbox', c) : k \in AllKeys(inbox, c)
      BY <3>1, <3>2, JoinsKeys
    <3>4. \A e \in Slot : Increasing(inbox'[e], c)
      BY <1>2, <3>1, <3>2, JoinsInOrder
    <3> QED
      BY <3>3, <3>4
  <2> QED
    BY <1>4, <2>1, <2>2 DEF Send
<1>6. CASE \E s \in Line : RelayWrite(s)
  <2>1. PICK s \in Line : RelayWrite(s)
    BY <1>6
  <2> DEFINE p == relay[s].data
  <2>2. p \in Packet
    BY <1>1 DEF RelayThread
  <2>3. \/ inbox' = inbox
        \/ \E d \in Slot : inbox' = [inbox EXCEPT ![d] = Append(@, p)]
    <3>1. CASE relay[s].fd \in Fd /\ fds[relay[s].fd] # NoSlot
      <4>1. fds[relay[s].fd] \in Slot
        BY <3>1 DEF ProxyInv, TypeOK
      <4> QED
        BY <2>1, <3>1, <4>1 DEF RelayWrite, Send
    <3> QED
      BY <2>1, <3>1 DEF RelayWrite
  <2>4. ASSUME p.from = c
        PROVE  /\ Key(p) \in Carried(relay, c)
               /\ \A l \in Carried(relay', c) : Key(p) < l
               /\ \A k \in AllKeys(inbox, c) : k < Key(p)
    <3>1. Key(p) \in Carried(relay, c)
      BY <1>1, <2>4, CarriedMember
    <3>2. At(p, s)
      BY <1>3, <2>4 DEF NamedInv, Kept
    <3>3. \A t \in Line \ {s} : relay[t].data.from # c
      BY <2>4, <3>2, OneServer
    <3>4. /\ relay'[s].data = Zero /\ \A t \in Line \ {s} : relay'[t] = relay[t]
          /\ DOMAIN relay' = Line
      BY <1>1, <2>1, DataWrite DEF RelayWrite
    <3>5. \A t \in Line : relay'[t].data.from # c
      BY <1>3, <3>3, <3>4 DEF Zero
    <3>6. Carried(relay', c) = {}
      BY <3>4, <3>5, CarriedMember
    <3> QED
      BY <3>1, <3>6, Adjacent DEF Ordered
  <2> HIDE DEF p
  <2>5. CASE \E d \in Slot : inbox' = [inbox EXCEPT ![d] = Append(@, p)]
    <3>1. PICK d \in Slot : Joins(Slot, inbox, inbox', d, p)
      BY <1>1, <2>2, <2>5 DEF Joins
    <3>2. \A k \in AllKeys(inbox', c) :
            k \in AllKeys(inbox, c) \/ (p.from = c /\ k = Key(p))
      BY <3>1, JoinsKeys
    <3>3. \A e \in Slot : Increasing(inbox'[e], c)
      BY <1>2, <2>4, <3>1, JoinsInOrder
    <3> QED
      BY <2>4, <3>2, <3>3
  <2> QED
    BY <1>4, <2>3, <2>5
<1> QED
  BY <1>4, <1>5, <1>6, InboxStep

LEMMA CarriedMoves ==
  ASSUME ProxyInv, NamedInv, [Next]_vars, NEW c \in Slot, Ordered(c),
         relay' \in [Line -> RelayThread]
  PROVE  \A k \in Carried(relay', c) :
           \/ k \in Carried(relay, c)
           \/ /\ k \in AllKeys(returning, c)
              /\ \A l \in AllKeys(returning', c) : k < l
<1>1. /\ relay \in [Line -> RelayThread]
      /\ returning \in [Line -> Seq(Packet)]
  BY ReturningType DEF ProxyInv, TypeOK
<1> SUFFICES ASSUME NEW k \in Carried(relay', c)
             PROVE  \/ k \in Carried(relay, c)
                    \/ /\ k \in AllKeys(returning, c)
                       /\ \A l \in AllKeys(returning', c) : k < l
  OBVIOUS
<1>2. PICK s \in Line : relay'[s].data.from = c /\ k = Key(relay'[s].data)
  BY CarriedMember
<1>3. Zero.from # c
  BY DEF Zero, Slot, NoSlot
<1>4. CASE relay'[s].data = relay[s].data
  BY <1>1, <1>2, <1>4, CarriedMember
<1>5. CASE RelayReceive(s)
  <2>1. /\ returning[s] # <<>> /\ relay'[s].data = Head(returning[s])
        /\ returning' = [returning EXCEPT ![s] = Tail(@)]
    BY <1>2, <1>3, <1>5, DataReceive
  <2> DEFINE q == returning[s]
             p == Head(q)
  <2>2. q \in Seq(Packet) /\ p \in Packet /\ p.from = c /\ k = Key(p)
    BY <1>1, <1>2, <2>1, TailItems
  <2>3. At(p, s)
    BY <2>1, <2>2, TailItems DEF NamedInv, Back
  <2>4. k \in AllKeys(returning, c)
    BY <1>1, <2>1, <2>2, TailKeys, AllKeysMember
  <2>5. ASSUME NEW l \in AllKeys(returning', c) PROVE k < l
    <3>1. PICK t \in Line : l \in KeysIn(returning'[t], c)
      BY <1>1, <2>1, AllKeysMember
    <3>2. CASE t = s
      <4>1. returning'[t] = Tail(q) /\ Increasing(q, c)
        BY <1>1, <2>1, <3>2 DEF Ordered
      <4>2. \A m \in KeysIn(Tail(q), c) : Key(p) < m
        BY <2>1, <2>2, <4>1, HeadFirst
      <4> QED
        BY <2>2, <3>1, <4>1, <4>2
    <3>3. CASE t # s
      <4>1. returning'[t] = returning[t]
        BY <1>1, <2>1, <3>3
      <4>2. \A i \in DOMAIN returning[t] : returning[t][i].from # c
        BY <2>2, <2>3, <3>3, OneServer
      <4> QED
        BY <3>1, <4>1, <4>2, KeysMember
    <3> QED
      BY <3>2, <3>3
  <2> QED
    BY <2>4, <2>5
<1>6. CASE RelayCheck(s)
  <2> DEFINE p == relay[s].data
  <2>1. /\ relay[s].pc = "check"
        /\ relay'[s].data = p \/ relay'[s].data = Bounced(p)
    BY <1>6, DataCheck
  <2>2. p \in Packet
    BY <1>1 DEF RelayThread
  <2>3. CASE relay'[s].data = Bounced(p)
    <3>1. p.from = c
      BY <1>2, <2>2, <2>3, BouncedPacket
    <3>2. p.type \in {"CEX", "ACK"}
      BY <2>1, <3>1 DEF NamedInv, Kept, Back, Slot, NoSlot
    <3>3. Key(Bounced(p)) = Key(p)
      BY <2>2, <3>2, BouncedPacket DEF Key
    <3> QED
      BY <1>1, <1>2, <2>3, <3>1, <3>3, CarriedMember
  <2> QED
    BY <1>4, <2>1, <2>3
<1>7. CASE RelayWrite(s)
  BY <1>2, <1>3, <1>7, DataWrite
<1> QED
  BY <1>4, <1>5, <1>6, <1>7, DataStep

LEMMA FromMoves ==
  ASSUME ProxyInv, NamedInv, [Next]_vars, NEW c \in Slot, Ordered(c)
  PROVE  /\ \A k \in AllKeys(returning', c) :
              \/ k \in AllKeys(returning, c)
              \/ /\ k \in AllBoth(toServer, c)
                 /\ \A l \in AllBoth(toServer', c) : k < l
         /\ \A s \in Line : Increasing(returning'[s], c)
<1>1. /\ returning \in [Line -> Seq(Packet)]
      /\ toServer \in [Line -> Seq(Packet)]
  BY ReturningType DEF ProxyInv, TypeOK
<1>2. \A s \in Line : Increasing(returning[s], c)
  BY DEF Ordered
<1>3. CASE returning' = returning
  BY <1>2, <1>3
<1>4. CASE \E t \in Line : RelayReceive(t)
  <2>1. PICK t \in Line : RelayReceive(t)
    BY <1>4
  <2>2. CASE /\ returning[t] # <<>>
             /\ returning' = [returning EXCEPT ![t] = Tail(@)]
    <3>1. Leaves(Line, returning, returning', t)
      BY <1>1, <2>2 DEF Leaves
    <3> QED
      BY <1>2, <3>1, LeavesKeys
  <2> QED
    BY <1>3, <2>1, <2>2, DataReceive
<1>5. CASE \E t \in Line : ServerReads(t)
  <2>1. PICK t \in Line : ServerReads(t)
    BY <1>5
  <2> DEFINE q == toServer[t]
             p == Head(q)
             a == Ack(p)
  <2>2. /\ q # <<>> /\ q \in Seq(Packet) /\ p \in Packet
        /\ toServer' = [toServer EXCEPT ![t] = Tail(@)]
        /\ \/ returning' = returning
           \/ /\ p.type = "CEX" /\ At(p, t) /\ a \in Packet
              /\ returning' = [returning EXCEPT ![t] = Append(Append(@, p), a)]
    BY <1>1, <2>1, Served
  <2>3. CASE /\ p.type = "CEX" /\ At(p, t) /\ a \in Packet
             /\ returning' = [returning EXCEPT ![t] = Append(Append(@, p), a)]
    <3>1. /\ a.from = p.from /\ Key(a) = Key(p) + 1 /\ Key(p) \in Int
          /\ Key(p) \in Keys(p) /\ Key(a) \in Keys(p)
      BY <2>2, <2>3 DEF Ack, Key, Keys, Packet
    <3>2. ASSUME p.from = c
          PROVE  /\ Keys(p) \subseteq AllBoth(toServer, c)
                 /\ \A k \in Keys(p), l \in AllBoth(toServer', c) : k < l
      <4>1. Keys(p) \subseteq AllBoth(toServer, c)
        BY <1>1, <2>2, <3>2, TailKeys, AllBothMember
      <4>2. ASSUME NEW k \in Keys(p), NEW l \in AllBoth(toServer', c)
            PROVE  k < l
        <5>1. PICK s \in Line : l \in BothIn(toServer'[s], c)
          BY <1>1, <2>2, AllBothMember
        <5>2. CASE s = t
          <6>1. toServer'[s] = Tail(q) /\ Increasing(q, c)
            BY <1>1, <2>2, <5>2 DEF Ordered
          <6>2. \A i \in DOMAIN q : q[i].from = c => q[i].type = "CEX"
            BY DEF NamedInv, Sent, Slot, NoSlot
          <6> QED
            BY <2>2, <3>2, <4>2, <5>1, <6>1, <6>2, TailBoth
        <5>3. CASE s # t
          <6>1. toServer'[s] = toServer[s]
            BY <1>1, <2>2, <5>3
          <6>2. \A i \in DOMAIN toServer[s] : toServer[s][i].from # c
            BY <2>3, <3>2, <5>3, OneServer
          <6> QED
            BY <5>1, <6>1, <6>2, BothMember
        <5> QED
          BY <5>2, <5>3
      <4> QED
        BY <4>1, <4>2
    <3> DEFINE f == [returning EXCEPT ![t] = Append(@, p)]
    <3>3. returning' = [f EXCEPT ![t] = Append(@, a)]
      BY <1>1, <2>3
    <3> HIDE DEF a, p, f
    <3>4. /\ f \in [Line -> Seq(Packet)]
          /\ \A k \in AllKeys(f, c) :
               k \in AllKeys(returning, c) \/ (p.from = c /\ k = Key(p))
          /\ \A s \in Line : Increasing(f[s], c)
      <4>1. p.from = c => \A k \in AllKeys(returning, c) : k < Key(p)
        BY <3>1, <3>2, Adjacent DEF Ordered
      <4>2. Joins(Line, returning, f, t, p)
        BY <1>1, <2>2 DEF Joins, f
      <4>3. f \in [Line -> Seq(Packet)]
        BY <4>2, JoinsKeys
      <4>4. \A k \in AllKeys(f, c) :
              k \in AllKeys(returning, c) \/ (p.from = c /\ k = Key(p))
        BY <4>2, JoinsKeys
      <4>5. \A s \in Line : Increasing(f[s], c)
        BY <1>2, <4>1, <4>2, JoinsInOrder
      <4> QED
        BY <4>3, <4>4, <4>5
    <3>5. p.from = c => \A k \in AllKeys(f, c) : k < Key(a)
      <4>1. p.from = c => \A k \in AllKeys(returning, c) : k < Key(a)
        BY <3>1, <3>2, Adjacent DEF Ordered
      <4> QED
        BY <3>1, <3>4, <4>1
    <3>6. /\ \A k \in AllKeys(returning', c) :
               k \in AllKeys(f, c) \/ (a.from = c /\ k = Key(a))
          /\ \A s \in Line : Increasing(returning'[s], c)
      <4>1. Joins(Line, f, returning', t, a)
        BY <2>3, <3>3, <3>4 DEF Joins
      <4>2. \A k \in AllKeys(returning', c) :
              k \in AllKeys(f, c) \/ (a.from = c /\ k = Key(a))
        BY <4>1, JoinsKeys
      <4>3. a.from = c => \A k \in AllKeys(f, c) : k < Key(a)
        BY <3>1, <3>5
      <4>4. \A s \in Line : Increasing(f[s], c)
        BY <3>4
      <4>5. \A s \in Line : Increasing(returning'[s], c)
        BY <4>1, <4>3, <4>4, JoinsInOrder
      <4> QED
        BY <4>2, <4>5
    <3> QED
      BY <3>1, <3>2, <3>4, <3>6
  <2> QED
    BY <1>3, <2>2, <2>3
<1>6. CASE \E t \in Line : ServerDies(t)
  <2>1. PICK t \in Line : ServerDies(t)
    BY <1>6
  <2>2. Cuts(Line, returning, returning', t)
    BY <1>1, <2>1, ReturningCut DEF Cuts
  <2> QED
    BY <1>2, <2>2, CutsKeys
<1> QED
  BY <1>3, <1>4, <1>5, <1>6, ReturningStep

LEMMA ToMoves ==
  ASSUME ProxyInv, NamedInv, [Next]_vars, NEW c \in Slot, Ordered(c)
  PROVE  /\ \A k \in AllBoth(toServer', c) :
              \/ k \in AllBoth(toServer, c)
              \/ /\ k \in HeldBy(handler[c])
                 /\ \A l \in HeldBy(handler'[c]) : k < l
         /\ \A s \in Line : Increasing(toServer'[s], c)
<1>1. toServer \in [Line -> Seq(Packet)]
  BY DEF ProxyInv, TypeOK
<1>2. \A s \in Line : Increasing(toServer[s], c)
  BY DEF Ordered
<1>3. CASE toServer' = toServer
  BY <1>2, <1>3
<1>4. ASSUME NEW t \in Line, NEW p \in Packet, SendServer(t, p),
             p.from = c => /\ Keys(p) \subseteq HeldBy(handler[c])
                           /\ HeldBy(handler'[c]) = {}
      PROVE  /\ \A k \in AllBoth(toServer', c) :
                  \/ k \in AllBoth(toServer, c)
                  \/ /\ k \in HeldBy(handler[c])
                     /\ \A l \in HeldBy(handler'[c]) : k < l
             /\ \A s \in Line : Increasing(toServer'[s], c)
  <2>1. CASE toServer' = [toServer EXCEPT ![t] = Append(@, p)]
    <3>1. Joins(Line, toServer, toServer', t, p)
      BY <1>1, <2>1 DEF Joins
    <3>2. \A k \in AllBoth(toServer', c) :
            k \in AllBoth(toServer, c) \/ (p.from = c /\ k \in Keys(p))
      BY <3>1, JoinsKeys
    <3>3. p.from = c => \A k \in AllKeys(toServer, c) : k < Key(p)
      <4>1. AllKeys(toServer, c) \subseteq AllBoth(toServer, c)
        BY <1>1, AllKeysInBoth
      <4>2. Key(p) \in Keys(p)
        BY KeyTypes
      <4> QED
        BY <1>4, <4>1, <4>2, Adjacent DEF Ordered
    <3>4. \A s \in Line : Increasing(toServer'[s], c)
      BY <1>2, <3>1, <3>3, JoinsInOrder
    <3> QED
      BY <1>4, <3>2, <3>4
  <2> QED
    BY <1>3, <1>4, <2>1 DEF SendServer
<1>5. CASE SendEoj
  <2>1. /\ mi \in Line /\ SendServer(mi, Typed("EOJ"))
    BY <1>5, ConstantsOK DEF SendEoj, ProxyInv, TypeOK, Line
  <2>2. Typed("EOJ") \in Packet /\ Typed("EOJ").from # c
    BY DEF Typed, Zero, Packet, Data_type, Slot, NoSlot
  <2> QED
    BY <1>4, <2>1, <2>2
<1>6. CASE \E d \in Slot : Forward(d)
  <2>1. PICK d \in Slot : Forward(d)
    BY <1>6
  <2> DEFINE t == client[d].server
             p == handler[d].data
  <2>2. /\ SendServer(t, p) /\ handler[d].pc = "forward"
        /\ handler' = [handler EXCEPT ![d] = Idle]
    BY <2>1 DEF Forward, Resume
  <2>3. p \in Packet /\ p.from = d
    BY <2>2 DEF NamedInv, Held, ProxyInv, TypeOK, HandlerThread
  <2>4. t \in Line
    BY <2>2, ServerOfRunning
  <2>5. p.from = c => /\ Keys(p) \subseteq HeldBy(handler[c])
                      /\ HeldBy(handler'[c]) = {}
    BY <2>2, <2>3, IdleType DEF HeldBy, ProxyInv, TypeOK
  <2> HIDE DEF t, p
  <2> QED
    BY <1>4, <2>2, <2>3, <2>4, <2>5
<1>7. CASE \E t \in Line : ServerReads(t)
  <2>1. PICK t \in Line : ServerReads(t)
    BY <1>7
  <2>2. Leaves(Line, toServer, toServer', t)
    BY <1>1, <2>1 DEF Leaves, ServerReads
  <2> QED
    BY <1>2, <2>2, LeavesKeys
<1> QED
  BY <1>3, <1>5, <1>6, <1>7, QueueStep

LEMMA HeldMoves ==
  ASSUME ProxyInv, NamedInv, [Next]_vars, NEW c \in Slot, Ordered(c)
  PROVE  \A k \in HeldBy(handler'[c]) :
           \/ k \in HeldBy(handler[c])
           \/ k \in BothIn(up[c], c) /\ \A l \in BothIn(up'[c], c) : k < l
<1>1. CASE handler'[c] = handler[c]
  BY <1>1
<1>2. CASE handler'[c].pc # "forward"
  BY <1>2 DEF HeldBy
<1>3. CASE handler'[c].pc = "forward" /\ handler'[c] # handler[c]
  <2> DEFINE q == up[c]
             p == Head(q)
  <2>1. /\ Receive(c) /\ p.type \in {"CEX", "FEX"}
        /\ handler'[c].data = [p EXCEPT !.origin = client[c].addr]
    BY <1>3, ForwardReceived
  <2>2. q \in Seq(Packet) /\ q # <<>> /\ up'[c] = Tail(q)
    BY <2>1 DEF Receive, ProxyInv, TypeOK
  <2>3. p \in Packet /\ Said(p, c)
    BY <2>2, TailItems DEF NamedInv
  <2>4. p.from = c
    BY <2>1, <2>3 DEF Said
  <2>5. HeldBy(handler'[c]) = Keys(p)
    BY <1>3, <2>1, <2>3 DEF HeldBy, Keys, Packet
  <2>6. \A i \in DOMAIN q : q[i].from = c => q[i].type = "CEX"
    BY DEF NamedInv, Said, Slot, NoSlot
  <2>7. Increasing(q, c)
    BY DEF Ordered
  <2> HIDE DEF p, q
  <2>8. Keys(p) \subseteq BothIn(q, c)
    BY <2>2, <2>4, TailKeys DEF p
  <2>9. \A k \in Keys(p), l \in BothIn(Tail(q), c) : k < l
    BY <2>2, <2>4, <2>6, <2>7, TailBoth DEF p
  <2> QED
    BY <2>2, <2>5, <2>8, <2>9 DEF q
<1> QED
  BY <1>1, <1>2, <1>3

LEMMA UpMoves ==
  ASSUME ProxyInv, NamedInv, [Next]_vars, NEW c \in Slot, Ordered(c)
  PROVE  /\ \A k \in BothIn(up'[c], c) :
              \/ k \in BothIn(up[c], c)
              \/ /\ k \in ToCome(link[c], peer[c].sent)
                 /\ \A l \in ToCome(link'[c], peer'[c].sent) : k < l
         /\ Increasing(up'[c], c)
<1>1. up[c] \in Seq(Packet) /\ Increasing(up[c], c) /\ c # NoSlot
  <2>1. up[c] \in Seq(Packet)
    BY DEF ProxyInv, TypeOK
  <2>2. Increasing(up[c], c)
    BY DEF Ordered
  <2>3. c # NoSlot
    BY DEF Slot, NoSlot
  <2> QED
    BY <2>1, <2>2, <2>3
<1>2. CASE up'[c] = up[c]
  BY <1>1, <1>2
<1>3. CASE up'[c] # up[c]
  <2>1. PICK d \in Slot : \/ Receive(d) \/ ReceiveName(d) \/ PeerAuth(d)
                          \/ PeerAsk(d) \/ PeerName(d) \/ PeerBegin(d)
                          \/ PeerSend(d) \/ PeerEnd(d) \/ PeerClose(d)
    BY <1>3, UpStep
  <2>2. CASE Receive(d) \/ ReceiveName(d)
    <3>1. up[d] # <<>> /\ up' = [up EXCEPT ![d] = Tail(@)]
      BY <1>3, <2>2 DEF Receive, ReceiveName
    <3>2. d = c /\ up'[c] = Tail(up[c])
      BY <1>3, <3>1 DEF ProxyInv, TypeOK
    <3> QED
      BY <1>1, <3>1, <3>2, TailKeys
  <2>3. CASE \/ PeerAuth(d) \/ PeerAsk(d) \/ PeerName(d) \/ PeerBegin(d)
             \/ PeerEnd(d)
    <3>1. PICK p \in Packet : /\ p.from = NoSlot
                              /\ up' = [up EXCEPT ![d] = Append(@, p)]
      BY <2>3, OtherSaid
    <3>2. up'[c] = Append(up[c], p)
      BY <1>3, <3>1 DEF ProxyInv, TypeOK
    <3> QED
      BY <1>1, <3>1, <3>2, AppendKeys
  <2>4. CASE PeerSend(d)
    <3> DEFINE n == peer[d].sent
    <3>1. PICK p \in Packet :
            /\ p.type = "CEX" /\ p.from = d /\ p.id = n
            /\ up' = [up EXCEPT ![d] = Append(@, p)]
            /\ peer' = [peer EXCEPT ![d].sent = n + 1]
            /\ link[d] = "open" /\ link' = link /\ n < MaxCex
      BY <2>4, SaidExchange
    <3>2. d = c /\ up'[c] = Append(up[c], p)
      BY <1>3, <3>1 DEF ProxyInv, TypeOK
    <3>3. n \in Nat /\ peer'[c].sent = n + 1
      <4> DEFINE x == [peer[c] EXCEPT !.sent = n + 1]
      <4>1. n \in Nat /\ x.sent = n + 1
        BY <3>2 DEF ProxyInv, TypeOK, PeerState
      <4>2. peer'[c] = x
        BY <3>1, <3>2 DEF ProxyInv, TypeOK
      <4> HIDE DEF n, x
      <4> QED
        BY <4>1, <4>2
    <3> HIDE DEF n
    <3>4. /\ ToCome(link[c], n) = (2 * n)..(2 * MaxCex + 1)
          /\ ToCome(link'[c], n + 1) = (2 * (n + 1))..(2 * MaxCex + 1)
      BY <3>1, <3>2 DEF ToCome
    <3>5. Keys(p) = {2 * n, 2 * n + 1} /\ Key(p) = 2 * n
      BY <3>1, <3>3 DEF Keys, Key
    <3>6. \A k \in Keys(p) : /\ k \in ToCome(link[c], n)
                             /\ \A l \in ToCome(link'[c], n + 1) : k < l
      BY <3>1, <3>3, <3>4, <3>5, ConstantsOK
    <3>7. \A k \in BothIn(up[c], c) : k < Key(p)
      <4>1. Key(p) \in ToCome(link[c], peer[c].sent)
        BY <3>2, <3>5, <3>6 DEF n
      <4> QED
        BY <4>1, Adjacent DEF Ordered
    <3>8. \A k \in KeysIn(up[c], c) : k < Key(p)
      BY <1>1, <3>7, KeysInBoth
    <3>9. Increasing(Append(up[c], p), c)
      BY <1>1, <3>8, AppendKeys
    <3>10. \A k \in BothIn(Append(up[c], p), c) :
             k \in BothIn(up[c], c) \/ k \in Keys(p)
      BY <1>1, AppendKeys
    <3> QED
      BY <3>2, <3>3, <3>6, <3>9, <3>10 DEF n
  <2>5. CASE PeerClose(d)
    <3>1. PICK k \in 0..Len(up[d]) : up' = [up EXCEPT ![d] = SubSeq(up[d], 1, k)]
      BY <2>5, SaidCut
    <3>2. d = c /\ up'[c] = SubSeq(up[c], 1, k)
      BY <1>3, <3>1 DEF ProxyInv, TypeOK
    <3> QED
      BY <1>1, <3>1, <3>2, CutKeys
  <2> QED
    BY <2>1, <2>2, <2>3, <2>4, <2>5
<1> QED
  BY <1>2, <1>3

\* A client counts what it sends, until it is gone.
LEMMA SentStep ==
  ASSUME ProxyInv, [Next]_vars, NEW c \in Slot
  PROVE  \/ peer'[c].sent \in Nat /\ peer'[c].sent >= peer[c].sent
         \/ PeerClose(c)
<1>1. /\ peer \in [Slot -> PeerState]
      /\ \A d \in Slot : peer[d] \in PeerState /\ peer[d].sent \in Nat
  BY DEF ProxyInv, TypeOK, PeerState
<1>2. CASE peer' = peer
  BY <1>1, <1>2
<1>3. ASSUME NEW d \in Slot, NEW x, peer' = [peer EXCEPT ![d] = x],
             x.sent \in Nat, x.sent >= peer[d].sent
      PROVE  peer'[c].sent \in Nat /\ peer'[c].sent >= peer[c].sent
  BY <1>1, <1>3
<1>4. CASE Accept
  <2> DEFINE x == [peer[nb_clients] EXCEPT !.pc = "auth"]
  <2>1. nb_clients \in Slot
    BY <1>4, ConstantsOK DEF Accept, TableFull, ProxyInv, TypeOK, Slot
  <2>2. x.sent = peer[nb_clients].sent /\ peer' = [peer EXCEPT ![nb_clients] = x]
    BY <1>1, <1>4, <2>1 DEF Accept, PeerState
  <2> HIDE DEF x
  <2> QED
    BY <1>1, <1>3, <2>1, <2>2
<1>5. CASE \E d \in Slot : Peer(d)
  <2>1. PICK d \in Slot : Peer(d)
    BY <1>5
  <2> DEFINE a(pc) == [peer[d] EXCEPT !.pc = pc]
             b(g) == [peer[d] EXCEPT !.pc = "ask", !.gets = g]
             e(n) == [peer[d] EXCEPT !.pc = "menu", !.seen = n]
             f(to) == [peer[d] EXCEPT !.pc = "chat", !.dest = to]
             h == [peer[d] EXCEPT !.sent = peer[d].sent + 1]
  <2>2. /\ \A x : /\ a(x).sent = peer[d].sent /\ b(x).sent = peer[d].sent
                  /\ e(x).sent = peer[d].sent /\ f(x).sent = peer[d].sent
        /\ h.sent = peer[d].sent + 1
    BY <1>1 DEF PeerState
  <2>3. CASE PeerAuth(d) \/ PeerName(d) \/ PeerEnd(d)
    <3>1. PICK pc : peer' = [peer EXCEPT ![d] = a(pc)]
      BY <2>3 DEF PeerAuth, PeerName, PeerEnd, Says
    <3> HIDE DEF a
    <3> QED
      BY <1>1, <1>3, <2>2, <3>1
  <2>4. CASE PeerAsk(d)
    <3>1. peer' = [peer EXCEPT ![d] = b(peer[d].gets + 1)]
      BY <2>4 DEF PeerAsk
    <3> HIDE DEF b
    <3> QED
      BY <1>1, <1>3, <2>2, <3>1
  <2>5. CASE PeerAnswered(d)
    <3>1. peer' = [peer EXCEPT ![d] = e(peer[d].seen + 1)]
      BY <2>5 DEF PeerAnswered
    <3> HIDE DEF e
    <3> QED
      BY <1>1, <1>3, <2>2, <3>1
  <2>6. CASE PeerBegin(d)
    <3>1. PICK to : peer' = [peer EXCEPT ![d] = f(to)]
      BY <2>6 DEF PeerBegin
    <3> HIDE DEF f
    <3> QED
      BY <1>1, <1>3, <2>2, <3>1
  <2>7. CASE PeerSend(d)
    <3>1. peer' = [peer EXCEPT ![d] = h]
      BY <2>7 DEF PeerSend
    <3>2. h.sent \in Nat /\ h.sent >= peer[d].sent
      BY <1>1, <2>2
    <3> HIDE DEF h
    <3> QED
      BY <1>3, <3>1, <3>2
  <2>8. CASE PeerClose(d) /\ d # c
    BY <1>1, <2>8 DEF PeerClose
  <2> QED
    BY <2>1, <2>3, <2>4, <2>5, <2>6, <2>7, <2>8 DEF Peer
<1>6. CASE \E d \in Slot : Handler(d)
  BY <1>2, <1>6
  DEF Handler, Enter, Increment, LoopTest, LockToReceive, Receive, ReceiveEnd,
      ReceiveError, ReceiveName, SearchName, Answer, Forward, MarkClosed,
      Uncount, Decrement, CloseSocket, LockToRelease, ReleaseLoad, ReadCount,
      WriteCount
<1>7. CASE \/ \E s \in Line : Relay(s) \/ Serve(s) \/ ServerDies(s)
           \/ UNCHANGED vars
  BY <1>2, <1>7
  DEF Relay, RelayTest, RelayReceive, RelayError, RelayLookup, RelayNull,
      RelayCheck, RelayReadFd, RelayWrite, RelayCancelled, Serve, ServerReads,
      ServerWrites, ServerDies, vars
<1>8. CASE Proceed
  BY <1>2, <1>8
  DEF Proceed, OpenServer, SkipServer, PublishServer, EndOfFile, Scan,
      LockLeast, Assign, LockAssigned, AddLoad, Spawn, CountClient,
      JoinHandlers, SendEoj, JoinRelay, JoinUnstarted, Stop
<1> QED
  BY <1>4, <1>5, <1>6, <1>7, <1>8 DEF Next

LEMMA ToComeMoves ==
  ASSUME ProxyInv, LinkInv, [Next]_vars, NEW c \in Slot
  PROVE  ToCome(link'[c], peer'[c].sent) \subseteq ToCome(link[c], peer[c].sent)
<1>1. peer[c].sent \in Nat /\ MaxCex \in Nat
  BY ConstantsOK DEF ProxyInv, TypeOK, PeerState
<1>2. CASE link'[c] \notin {"none", "open"}
  BY <1>2 DEF ToCome
<1>3. CASE link'[c] \in {"none", "open"}
  <2>1. link[c] \in {"none", "open"}
    <3>1. CASE Accept /\ c = nb_clients
      <4>1. ~Has(c, Filling)
        <5>1. mpc = "accept"
          BY <3>1 DEF Accept
        <5> QED
          BY <3>1, <5>1, ConstantsOK DEF Has, Filling, ProxyInv, TypeOK
      <4> QED
        BY <4>1 DEF LinkInv
    <3> QED
      BY <1>3, <3>1, LinkStep
  <2>2. ~PeerClose(c)
    BY <1>3 DEF PeerClose, AfterClose, ProxyInv, TypeOK
  <2>3. peer'[c].sent \in Nat /\ peer'[c].sent >= peer[c].sent
    BY <2>2, SentStep
  <2> QED
    BY <1>1, <1>3, <2>1, <2>3 DEF ToCome
<1> QED
  BY <1>2, <1>3
-----------------------------------------------------------------------------
(* Together. *)

LEMMA WayNumbers ==
  ASSUME NEW c, NEW i \in [Slot -> Seq(Packet)], NEW r \in [Line -> RelayThread],
         NEW f \in [Line -> Seq(Packet)], NEW t \in [Line -> Seq(Packet)],
         NEW h \in HandlerThread, NEW u \in Seq(Packet), NEW l, NEW n \in Nat
  PROVE  /\ AllKeys(i, c) \subseteq Int /\ Carried(r, c) \subseteq Int
         /\ AllKeys(f, c) \subseteq Int /\ AllBoth(t, c) \subseteq Int
         /\ HeldBy(h) \subseteq Int /\ BothIn(u, c) \subseteq Int
         /\ ToCome(l, n) \subseteq Int
<1>1. /\ AllKeys(i, c) \subseteq Int /\ AllKeys(f, c) \subseteq Int
      /\ AllBoth(t, c) \subseteq Int
  BY AllKeysInBoth
<1>2. Carried(r, c) \subseteq Int
  <2>1. \A s \in Line : r[s].data \in Packet
    BY DEF RelayThread
  <2>2. \A s \in Line : Key(r[s].data) \in Int
    BY <2>1, KeyTypes
  <2> QED
    BY <2>2, CarriedMember
<1>3. HeldBy(h) \subseteq Int
  BY KeyTypes DEF HeldBy, HandlerThread
<1>4. BothIn(u, c) \subseteq Int
  BY KeysInBoth
<1>5. ToCome(l, n) \subseteq Int
  BY ConstantsOK DEF ToCome
<1> QED
  BY <1>1, <1>2, <1>3, <1>4, <1>5

LEMMA ReturningTypeNext ==
  ASSUME ProxyInv'
  PROVE  returning' \in [Line -> Seq(Packet)]
<1>1. ASSUME NEW s \in Line PROVE fromServer'[s] \o answers'[s] \in Seq(Packet)
  <2>1. fromServer'[s] \in Seq(Packet) /\ answers'[s] \in Seq(Packet)
    BY DEF ProxyInv, TypeOK
  <2> QED
    BY <2>1, QueueTypes
<1> QED
  BY <1>1 DEF returning, Returning

\* The numbers of the places before and after a step.
LEMMA WayTypes ==
  ASSUME ProxyInv, ProxyInv', NEW c \in Slot
  PROVE  \A i \in 1..7 : Way(c)[i] \subseteq Int /\ Way(c)'[i] \subseteq Int
<1>1. /\ inbox \in [Slot -> Seq(Packet)] /\ relay \in [Line -> RelayThread]
      /\ returning \in [Line -> Seq(Packet)] /\ toServer \in [Line -> Seq(Packet)]
      /\ handler[c] \in HandlerThread /\ up[c] \in Seq(Packet)
      /\ peer[c].sent \in Nat
  BY ReturningType DEF ProxyInv, TypeOK, PeerState
<1>2. /\ inbox' \in [Slot -> Seq(Packet)] /\ relay' \in [Line -> RelayThread]
      /\ returning' \in [Line -> Seq(Packet)] /\ toServer' \in [Line -> Seq(Packet)]
      /\ handler'[c] \in HandlerThread /\ up'[c] \in Seq(Packet)
      /\ peer'[c].sent \in Nat
  BY ReturningTypeNext DEF ProxyInv, TypeOK, PeerState
<1>3. /\ AllKeys(inbox, c) \subseteq Int /\ Carried(relay, c) \subseteq Int
      /\ AllKeys(returning, c) \subseteq Int /\ AllBoth(toServer, c) \subseteq Int
      /\ HeldBy(handler[c]) \subseteq Int /\ BothIn(up[c], c) \subseteq Int
      /\ ToCome(link[c], peer[c].sent) \subseteq Int
  BY <1>1, WayNumbers
<1>4. /\ AllKeys(inbox', c) \subseteq Int /\ Carried(relay', c) \subseteq Int
      /\ AllKeys(returning', c) \subseteq Int /\ AllBoth(toServer', c) \subseteq Int
      /\ HeldBy(handler'[c]) \subseteq Int /\ BothIn(up'[c], c) \subseteq Int
      /\ ToCome(link'[c], peer'[c].sent) \subseteq Int
  BY <1>2, WayNumbers
<1> QED
  BY <1>3, <1>4 DEF Way

LEMMA OrderedNext ==
  ASSUME ProxyInv, LinkInv, NamedInv, [Next]_vars, NEW c \in Slot, Ordered(c)
  PROVE  Ordered(c)'
<1>1. ProxyInv' /\ relay' \in [Line -> RelayThread]
  BY NextInv DEF ProxyInv, TypeOK
<1>2. /\ Increasing(up'[c], c)
      /\ \A s \in Line : /\ Increasing(toServer'[s], c)
                         /\ Increasing(returning'[s], c)
      /\ \A e \in Slot : Increasing(inbox'[e], c)
  BY UpMoves, ToMoves, FromMoves, InboxMoves
<1> DEFINE w == Way(c)
           v == Way(c)'
<1>3. /\ w[1] = AllKeys(inbox, c) /\ w[2] = Carried(relay, c)
      /\ w[3] = AllKeys(returning, c) /\ w[4] = AllBoth(toServer, c)
      /\ w[5] = HeldBy(handler[c]) /\ w[6] = BothIn(up[c], c)
      /\ w[7] = ToCome(link[c], peer[c].sent)
  BY DEF Way
<1>4. /\ v[1] = AllKeys(inbox', c) /\ v[2] = Carried(relay', c)
      /\ v[3] = AllKeys(returning', c) /\ v[4] = AllBoth(toServer', c)
      /\ v[5] = HeldBy(handler'[c]) /\ v[6] = BothIn(up'[c], c)
      /\ v[7] = ToCome(link'[c], peer'[c].sent)
  BY DEF Way
<1>5. \A i \in 1..7 : w[i] \subseteq Int /\ v[i] \subseteq Int
  BY <1>1, WayTypes
<1>6. \A i, j \in 1..7 : i < j => \A k \in w[i], l \in w[j] : k < l
  BY DEF Ordered, InOrder
<1> HIDE DEF w, v
<1>7. /\ \A k \in v[1] : k \in w[1] \/ (k \in w[2] /\ \A l \in v[2] : k < l)
      /\ \A k \in v[2] : k \in w[2] \/ (k \in w[3] /\ \A l \in v[3] : k < l)
      /\ \A k \in v[3] : k \in w[3] \/ (k \in w[4] /\ \A l \in v[4] : k < l)
  BY <1>1, <1>3, <1>4, InboxMoves, CarriedMoves, FromMoves
<1>8. /\ \A k \in v[4] : k \in w[4] \/ (k \in w[5] /\ \A l \in v[5] : k < l)
      /\ \A k \in v[5] : k \in w[5] \/ (k \in w[6] /\ \A l \in v[6] : k < l)
      /\ \A k \in v[6] : k \in w[6] \/ (k \in w[7] /\ \A l \in v[7] : k < l)
      /\ \A k \in v[7] : k \in w[7]
  BY <1>3, <1>4, ToMoves, HeldMoves, UpMoves, ToComeMoves
<1>9. \A i \in 1..7 : \A k \in v[i] :
        k \in w[i] \/ (i < 7 /\ k \in w[i + 1] /\ \A l \in v[i + 1] : k < l)
  BY <1>7, <1>8
<1>10. \A i, j \in 1..7 : i < j => \A k \in v[i], l \in v[j] : k < l
  BY <1>5, <1>6, <1>9, Moving
<1> QED
  BY <1>2, <1>10 DEF Ordered, InOrder, w, v

LEMMA OrderInit == Init => OrderInv
<1> SUFFICES ASSUME Init PROVE OrderInv
  OBVIOUS
<1>0. \A s \in Line : returning[s] = <<>>
  BY DEF Init, returning, Returning
<1>1. ASSUME NEW c \in Slot PROVE Ordered(c)
  <2>1. c # NoSlot
    BY DEF Slot, NoSlot
  <2>2. /\ AllKeys(inbox, c) = {} /\ Carried(relay, c) = {}
        /\ AllKeys(returning, c) = {} /\ AllBoth(toServer, c) = {}
        /\ HeldBy(handler[c]) = {} /\ BothIn(up[c], c) = {}
    BY <1>0, <2>1
    DEF Init, AllKeys, AllBoth, Carried, HeldBy, KeysIn, BothIn, From, Zero,
        returning
  <2> DEFINE w == Way(c)
  <2>3. /\ w[1] = {} /\ w[2] = {} /\ w[3] = {} /\ w[4] = {} /\ w[5] = {}
        /\ w[6] = {}
    BY <2>2 DEF Way
  <2> HIDE DEF w
  <2>4. \A i, j \in 1..7 : i < j => w[i] = {}
    BY <2>3
  <2>5. InOrder(c)
    BY <2>4 DEF InOrder, w
  <2> QED
    BY <1>0, <2>5 DEF Init, Ordered, Increasing
<1> QED
  BY <1>1, LinkInit, NamedInit DEF OrderInv

LEMMA OrderNext == ProxyInv /\ OrderInv /\ [Next]_vars => OrderInv'
BY LinkNext, NamedNext, OrderedNext DEF OrderInv

\* The places on the way of every client's exchanges are in order, whatever the
\* numbers of clients, servers and exchanges.
THEOREM AlwaysInOrder == Spec => []OrderInv
<1>1. ProxyInv /\ ProxyInv' /\ OrderInv /\ [Next]_vars => OrderInv'
  BY OrderNext
<1> QED
  BY <1>1, OrderInit, Invariance, PTL DEF Spec

\* Whatever the relays do, the exchanges of a client reach an inbox in the
\* order they were sent and at most once, and so do their acknowledgements.
THEOREM RelaysKeepOrder == Spec => []RelayedInOrder
<1>1. ASSUME ProxyInv, OrderInv PROVE RelayedInOrder
  <2> SUFFICES ASSUME NEW c \in Slot, NEW i \in 1..Len(inbox[c]),
                      NEW j \in 1..Len(inbox[c]), i < j,
                      inbox[c][i].type = inbox[c][j].type,
                      inbox[c][i].from = inbox[c][j].from,
                      inbox[c][i].from # NoSlot
               PROVE  inbox[c][i].id < inbox[c][j].id
    BY DEF RelayedInOrder
  <2> DEFINE p == inbox[c][i]
             q == inbox[c][j]
  <2>1. /\ inbox[c] \in Seq(Packet) /\ DOMAIN inbox[c] = 1..Len(inbox[c])
        /\ p \in Packet /\ q \in Packet
    BY <1>1 DEF ProxyInv, TypeOK
  <2>2. p.from \in Slot
    BY <2>1 DEF Packet
  <2>3. Increasing(inbox[c], p.from)
    BY <1>1, <2>2 DEF OrderInv, Ordered
  <2>4. Key(p) < Key(q)
    BY <2>1, <2>3 DEF Increasing
  <2>5. p.id \in Nat /\ q.id \in Nat /\ p.type = q.type
    BY <2>1, KeyTypes
  <2> HIDE DEF p, q
  <2>6. p.id < q.id
    BY <2>4, <2>5 DEF Key
  <2> QED
    BY <2>6 DEF p, q
<1> QED
  BY <1>1, AlwaysInOrder, Invariance, PTL

LEMMA Transit ==
  ASSUME ProxyInv, NEW s \in Line, NEW p \in InTransit(s)
  PROVE  \/ \E k \in DOMAIN toServer[s] : p = toServer[s][k]
         \/ \E k \in DOMAIN returning[s] : p = returning[s][k]
         \/ p = relay[s].data
BY DEF InTransit, Range, returning

\* A client that has the acknowledgement of an exchange can rely on it: the
\* exchange has left every queue between the client and the inboxes.
THEOREM AckComesLast == Spec => []AckAfterRelay
<1>1. ASSUME ProxyInv, OrderInv PROVE AckAfterRelay
  <2> SUFFICES ASSUME NEW c \in Slot, NEW i \in 1..Len(inbox[c]),
                      inbox[c][i].type = "ACK",
                      NEW s \in Line, NEW p \in InTransit(s),
                      p.type \in {"CEX", "EOC"},
                      p.from = inbox[c][i].from, p.id = inbox[c][i].id
               PROVE  FALSE
    BY DEF AckAfterRelay
  <2> DEFINE a == inbox[c][i]
             d == p.from
             w == Way(d)
  <2>1. /\ inbox[c] \in Seq(Packet) /\ DOMAIN inbox[c] = 1..Len(inbox[c])
        /\ DOMAIN inbox = Slot /\ DOMAIN relay = Line
        /\ DOMAIN returning = Line /\ DOMAIN toServer = Line
        /\ returning[s] \in Seq(Packet) /\ toServer[s] \in Seq(Packet)
        /\ relay[s].data \in Packet
    <3>1. returning \in [Line -> Seq(Packet)]
      BY <1>1, ReturningType
    <3> QED
      BY <1>1, <3>1 DEF ProxyInv, TypeOK, RelayThread
  <2>2. ASSUME \E k \in DOMAIN toServer[s] : p = toServer[s][k]
        PROVE  d \in Slot /\ p.id \in Nat /\ 2 * p.id \in w[4]
    <3>1. At(p, s) /\ p \in Packet
      BY <1>1, <2>1, <2>2 DEF OrderInv, NamedInv, Sent
    <3>2. 2 * p.id \in AllBoth(toServer, d)
      BY <2>1, <2>2, BothMember, AllBothMember DEF Keys
    <3> QED
      BY <3>1, <3>2, KeyTypes DEF At, Way
  <2>3. ASSUME \E k \in DOMAIN returning[s] : p = returning[s][k]
        PROVE  d \in Slot /\ p.id \in Nat /\ 2 * p.id \in w[3]
    <3>1. At(p, s) /\ p \in Packet
      BY <1>1, <2>1, <2>3 DEF OrderInv, NamedInv, Back
    <3>2. Key(p) \in AllKeys(returning, d)
      BY <2>1, <2>3, KeysMember, AllKeysMember
    <3> QED
      BY <3>1, <3>2, KeyTypes DEF At, Way, Key
  <2>4. ASSUME p = relay[s].data
        PROVE  d \in Slot /\ p.id \in Nat /\ 2 * p.id \in w[2]
    <3>1. At(p, s) /\ p \in Packet
      BY <1>1, <2>1, <2>4 DEF OrderInv, NamedInv, Kept
    <3>2. Key(p) \in Carried(relay, d)
      BY <2>1, <2>4, CarriedMember
    <3> QED
      BY <3>1, <3>2, KeyTypes DEF At, Way, Key
  <2>5. d \in Slot /\ p.id \in Nat /\ \E n \in {2, 3, 4} : 2 * p.id \in w[n]
    BY <1>1, <2>2, <2>3, <2>4, Transit
  <2>6. 2 * p.id + 1 \in w[1]
    <3>1. Key(a) = 2 * p.id + 1 /\ a.from = d
      BY DEF Key
    <3>2. Key(a) \in KeysIn(inbox[c], d)
      BY <2>1, <3>1, KeysMember
    <3>3. Key(a) \in AllKeys(inbox, d)
      BY <2>1, <3>2, AllKeysMember
    <3> QED
      BY <3>1, <3>3 DEF Way
  <2>7. \A m, n \in 1..7 : m < n => \A k \in w[m], l \in w[n] : k < l
    BY <1>1, <2>5 DEF OrderInv, Ordered, InOrder
  <2> HIDE DEF w
  <2> QED
    BY <2>5, <2>6, <2>7
<1> QED
  BY <1>1, AlwaysInOrder, Invariance, PTL

\* Every strengthening the safety theorems use, all at once, as a run of MCProxy
\* checks them.
THEOREM SafetyInvariance == Spec => []SafetyInv
BY DescriptorsOwned, LoadsExclusive, BalanceInit, BalanceNext, WalksInTable,
   OpenInit, OpenNext, JoinInit, JoinNext, EojInit, EojNext, LaterInit,
   LaterNext, AlwaysInOrder, Invariance, PTL
DEF Spec, SafetyInv
=============================================================================
