---------------------------- MODULE ProxySafety ----------------------------
(***************************************************************************)
(* Safety of the proxy's shared tables: every descriptor a slot records is *)
(* the slot's own, no server looks idler than it is, and clients are spread*)
(* evenly.  Each follows from ProxyInv by an invariant that few steps      *)
(* touch: Quiet describes the others.                                      *)
(***************************************************************************)
EXTENDS ProxyProofs

\* A step that opens, closes, assigns and releases nothing.
Quiet ==
  /\ UNCHANGED <<fds, load>>
  /\ \A c \in Slot : /\ client'[c].sock_fd = client[c].sock_fd
                     /\ client'[c].server = client[c].server
                     /\ handler'[c].pc \in Departed => handler[c].pc \in Departed
                     /\ handler'[c].pc = "closed" <=> handler[c].pc = "closed"

LEMMA QuietOwn ==
  ASSUME OwnInv, Quiet
  PROVE  OwnInv'
BY DEF OwnInv, MarkedFirst, OpenSlotOwnsFd, Quiet, Departed

\* A step of handler c that leaves the tables alone and does not close.
LEMMA HandlerQuiet ==
  ASSUME TypeOK, NEW c \in Slot, NEW h,
         handler' = [handler EXCEPT ![c] = h],
         handler[c].pc # "closed", h.pc # "closed",
         h.pc \in Departed => handler[c].pc \in Departed,
         UNCHANGED <<fds, load, client>>
  PROVE  Quiet
BY DEF TypeOK, Quiet

LEMMA QuietStep ==
  ASSUME TypeOK, NEW c \in Slot, NEW from, NEW to, Step(c, from, to),
         from # "closed", to # "closed", to \notin Departed,
         UNCHANGED <<fds, load, client>>
  PROVE  Quiet
<1> DEFINE h == [handler[c] EXCEPT !.pc = to]
<1>1. h.pc = to
  BY DEF TypeOK, HandlerThread
<1>2. handler' = [handler EXCEPT ![c] = h] /\ handler[c].pc = from
  BY DEF Step
<1> HIDE DEF h
<1> QED
  BY <1>1, <1>2, HandlerQuiet

LEMMA QuietCount ==
  ASSUME TypeOK, NEW c \in Slot,
         Enter(c) \/ Increment(c) \/ Uncount(c) \/ Decrement(c)
  PROVE  Quiet
<1>1. PICK from \in {"start", "increment", "uncount", "decrement"},
           to \in {"increment", "loop", "decrement", "shut"},
           n \in {0, nb_clients_connected} :
        /\ handler[c].pc = from
        /\ handler' = [handler EXCEPT ![c] = [handler[c] EXCEPT !.pc = to, !.cnt = n]]
        /\ to \in {"decrement", "shut"} => from \in {"uncount", "decrement"}
  <2>1. CASE Enter(c)
    BY <2>1 DEF Enter, ReadCount
  <2>2. CASE Increment(c)
    BY <2>2 DEF Increment, WriteCount
  <2>3. CASE Uncount(c)
    BY <2>3 DEF Uncount, ReadCount
  <2>4. CASE Decrement(c)
    BY <2>4 DEF Decrement, WriteCount
  <2> QED
    BY <2>1, <2>2, <2>3, <2>4
<1> DEFINE h == [handler[c] EXCEPT !.pc = to, !.cnt = n]
<1>2. h.pc = to
  BY DEF TypeOK, HandlerThread
<1>3. handler' = [handler EXCEPT ![c] = h]
  BY <1>1
<1>4. UNCHANGED <<fds, load, client>>
  BY DEF Enter, Increment, Uncount, Decrement, ReadCount, WriteCount, loadVars
<1> HIDE DEF h
<1> QED
  BY <1>1, <1>2, <1>3, <1>4, HandlerQuiet DEF Departed

LEMMA QuietReceive ==
  ASSUME TypeOK, NEW c \in Slot, Receive(c)
  PROVE  Quiet
<1> DEFINE b == Branch(Head(up[c]).type)
           d == [Head(up[c]) EXCEPT !.origin = client[c].addr]
           g == [handler[c] EXCEPT !.pc = b, !.data = d]
           h == IF b = "loop" THEN Idle ELSE g
<1>1. b \in {"close", "con", "get", "forward", "loop"}
  BY DEF Branch
<1>2. g.pc = b
  BY DEF TypeOK, HandlerThread
<1>3. handler' = [handler EXCEPT ![c] = h] /\ handler[c].pc = "recv"
  BY DEF Receive
<1> HIDE DEF b, d, g
<1>4. h.pc \in {"close", "con", "get", "forward", "loop"}
  BY <1>1, <1>2, IdleType
<1> HIDE DEF h
<1> QED
  BY <1>3, <1>4, HandlerQuiet DEF Receive, Departed, loadVars

\* The DT_CON branch writes the name of the slot and nothing else of it.
LEMMA QuietReceiveName ==
  ASSUME TypeOK, NEW c \in Slot, ReceiveName(c)
  PROVE  Quiet
<1> DEFINE name == IF up[c] = <<>> THEN NoName ELSE Head(up[c]).name
<1>1. CASE handler[c].pc = "name"
  <2>1. handler' = [handler EXCEPT ![c] = Idle]
    BY <1>1 DEF ReceiveName, Resume
  <2>2. client' = client \/ client' = [client EXCEPT ![c].name = name]
    BY <1>1 DEF ReceiveName
  <2>3. \A e \in Slot : /\ client'[e].sock_fd = client[e].sock_fd
                        /\ client'[e].server = client[e].server
    <3> DEFINE x == [client[c] EXCEPT !.name = name]
    <3>1. x.sock_fd = client[c].sock_fd /\ x.server = client[c].server
      BY DEF TypeOK, ClientSlot
    <3>2. client' = client \/ client' = [client EXCEPT ![c] = x]
      BY <2>2
    <3> HIDE DEF x
    <3> QED
      BY <3>1, <3>2 DEF TypeOK
  <2>4. \A e \in Slot : /\ handler'[e].pc \in Departed => handler[e].pc \in Departed
                        /\ handler'[e].pc = "closed" <=> handler[e].pc = "closed"
    BY <1>1, <2>1, IdleType DEF TypeOK, Departed
  <2> QED
    BY <2>3, <2>4 DEF ReceiveName, Quiet, loadVars
<1>2. CASE handler[c].pc = "query"
  <2> DEFINE h == [handler[c] EXCEPT !.pc = "search", !.i = 0,
                                     !.data = Pseudo(name)]
  <2>1. h.pc = "search"
    BY DEF TypeOK, HandlerThread
  <2>2. handler' = [handler EXCEPT ![c] = h] /\ client' = client
    BY <1>2 DEF ReceiveName, Resume
  <2> HIDE DEF h
  <2> QED
    BY <1>2, <2>1, <2>2, HandlerQuiet DEF ReceiveName, Departed, loadVars
<1> QED
  BY <1>1, <1>2 DEF ReceiveName

LEMMA QuietSearchName ==
  ASSUME TypeOK, NEW c \in Slot, SearchName(c)
  PROVE  Quiet
<1> DEFINE f == [handler[c] EXCEPT !.pc = "found"]
           n == [handler[c] EXCEPT !.i = handler[c].i + 1]
<1>1. f.pc = "found" /\ n.pc = "search"
  BY DEF SearchName, TypeOK, HandlerThread
<1>2. PICK h \in {f, n} : handler' = [handler EXCEPT ![c] = h]
  BY DEF SearchName
<1>3. h.pc \in {"found", "search"} /\ handler[c].pc = "search"
  BY <1>1, <1>2 DEF SearchName
<1> HIDE DEF f, n
<1> QED
  BY <1>2, <1>3, HandlerQuiet DEF SearchName, Departed, loadVars

LEMMA QuietLockToRelease ==
  ASSUME TypeOK, NEW c \in Slot, LockToRelease(c)
  PROVE  Quiet
<1> DEFINE l == load[client[c].server]
           h == [handler[c] EXCEPT !.pc = "give", !.cnt = l]
<1>1. h.pc = "give"
  BY DEF TypeOK, HandlerThread
<1>2. handler' = [handler EXCEPT ![c] = h] /\ handler[c].pc = "release"
  BY DEF LockToRelease
<1> HIDE DEF h, l
<1> QED
  BY <1>1, <1>2, HandlerQuiet DEF LockToRelease, LockLoad, Departed

LEMMA QuietHandler ==
  ASSUME TypeOK, NEW c \in Slot, Handler(c),
         ~MarkClosed(c), ~CloseSocket(c), ~ReleaseLoad(c)
  PROVE  Quiet
<1>1. CASE Enter(c) \/ Increment(c) \/ Uncount(c) \/ Decrement(c)
  BY <1>1, QuietCount
<1>2. CASE LoopTest(c)
  <2>1. PICK to \in {"lock", "left"} : Step(c, "loop", to)
    BY <1>2 DEF LoopTest
  <2> QED
    BY <1>2, <2>1, QuietStep DEF LoopTest, Departed, loadVars
<1>3. CASE LockToReceive(c)
  <2>1. PICK from \in {"lock", "con", "get"}, to \in {"recv", "name", "query"} :
          Step(c, from, to)
    BY <1>3 DEF LockToReceive
  <2> QED
    BY <1>3, <2>1, QuietStep DEF LockToReceive, Departed, loadVars
<1>4. CASE Receive(c)
  BY <1>4, QuietReceive
<1>5. CASE ReceiveEnd(c)
  BY <1>5, QuietStep DEF ReceiveEnd, Departed, loadVars
<1>6. CASE ReceiveError(c)
  BY <1>6, QuietStep DEF ReceiveError, Departed, loadVars
<1>7. CASE ReceiveName(c)
  BY <1>7, QuietReceiveName
<1>8. CASE SearchName(c)
  BY <1>8, QuietSearchName
<1>9. CASE Answer(c) \/ Forward(c)
  BY <1>9, HandlerQuiet, IdleType
  DEF Answer, Forward, Resume, Departed, loadVars
<1>10. CASE LockToRelease(c)
  BY <1>10, QuietLockToRelease
<1> QED
  BY <1>1, <1>2, <1>3, <1>4, <1>5, <1>6, <1>7, <1>8, <1>9, <1>10 DEF Handler

LEMMA QuietOutside ==
  ASSUME ProxyInv,
         \/ \E s \in Line : Relay(s) \/ Serve(s) \/ ServerDies(s)
         \/ \E c \in Slot : Peer(c)
         \/ UNCHANGED vars
  PROVE  Quiet
BY DEF Quiet, Relay, RelayTest, RelayReceive, RelayError, RelayLookup,
       RelayNull, RelayCheck, RelayReadFd, RelayWrite, RelayCancelled, Serve,
       ServerReads, ServerWrites, ServerDies, Peer, PeerAuth, PeerAsk,
       PeerName, PeerAnswered, PeerBegin, PeerSend, PeerEnd, PeerClose, vars,
       loadVars

LEMMA QuietMain ==
  ASSUME ProxyInv,
         \/ OpenServer \/ SkipServer \/ PublishServer \/ EndOfFile \/ Scan
         \/ LockLeast \/ LockAssigned \/ CountClient \/ JoinHandlers
         \/ SendEoj \/ JoinRelay \/ JoinUnstarted \/ Stop
  PROVE  Quiet
BY DEF Quiet, OpenServer, SkipServer, PublishServer, EndOfFile, Scan,
       LockLeast, LockAssigned, LockLoad, CountClient, JoinHandlers, SendEoj,
       JoinRelay, JoinUnstarted, Stop, loadVars

\* pthread_create: the handler, if it starts, is at the top of its code.
LEMMA QuietSpawn ==
  ASSUME ProxyInv, Spawn
  PROVE  Quiet
<1>1. nb_clients \in Slot /\ handler[nb_clients] \in HandlerThread
  BY ConstantsOK DEF Spawn, ProxyInv, TypeOK, MainInv, Filling, Slot
<1>2. ~Has(nb_clients, {"count"})
  BY ConstantsOK DEF Has, Spawn, ProxyInv, TypeOK
<1>3. handler[nb_clients].pc = "none"
  BY <1>1, <1>2 DEF ProxyInv, SlotInv
<1>4. PICK pc \in {"start", "none"} :
        handler' = [handler EXCEPT ![nb_clients].pc = pc]
  BY DEF Spawn, Created
<1> DEFINE h == [handler[nb_clients] EXCEPT !.pc = pc]
<1>5. handler' = [handler EXCEPT ![nb_clients] = h] /\ h.pc = pc
  BY <1>1, <1>4 DEF HandlerThread
<1> HIDE DEF h
<1> QED
  BY <1>1, <1>3, <1>4, <1>5, HandlerQuiet DEF Spawn, Departed, ProxyInv, loadVars

-----------------------------------------------------------------------------
(* Descriptors. *)

LEMMA OwnAccept ==
  ASSUME ProxyInv, OwnInv, Accept
  PROVE  OwnInv'
<1>1. nb_clients \in Slot /\ nb_clients \in Nat
  BY ConstantsOK DEF Accept, TableFull, ProxyInv, TypeOK, Slot
<1>2. PICK a \in Addr, fd \in Fd :
        /\ fds[fd] = NoSlot
        /\ fds' = [fds EXCEPT ![fd] = nb_clients]
        /\ client' = [client EXCEPT ![nb_clients] =
                        [EmptySlot EXCEPT !.sock_fd = fd, !.addr = a]]
  BY DEF Accept
<1>3. client'[nb_clients].sock_fd = fd
  BY <1>1, <1>2 DEF ProxyInv, TypeOK, EmptySlot
<1>4. \A c \in Slot \ {nb_clients} : client'[c] = client[c]
  BY <1>2 DEF ProxyInv, TypeOK
<1>5. OpenSlotOwnsFd'
  <2> SUFFICES ASSUME NEW c \in Slot, client'[c].sock_fd # NoFd
               PROVE  fds'[client'[c].sock_fd] = c
    BY DEF OpenSlotOwnsFd
  <2>1. CASE c = nb_clients
    BY <1>2, <1>3, <2>1 DEF ProxyInv, TypeOK
  <2>2. CASE c # nb_clients
    <3>1. /\ client[c].sock_fd \in Fd /\ client'[c].sock_fd = client[c].sock_fd
          /\ fds[client[c].sock_fd] = c
      BY <1>4, <2>2 DEF ProxyInv, TypeOK, ClientSlot, OwnInv, OpenSlotOwnsFd
    <3>2. client[c].sock_fd # fd
      BY <1>2, <3>1 DEF Slot, NoSlot
    <3> QED
      BY <1>2, <3>1, <3>2 DEF ProxyInv, TypeOK
  <2> QED
    BY <2>1, <2>2
<1>6. MarkedFirst'
  <2>1. handler' = handler
    BY DEF Accept
  <2>2. handler[nb_clients].pc = "none"
    BY <1>1 DEF ProxyInv, SlotInv, Has, Accept
  <2> QED
    BY <1>4, <2>1, <2>2 DEF OwnInv, MarkedFirst, Departed
<1> QED
  BY <1>5, <1>6 DEF OwnInv

LEMMA OwnMarkClosed ==
  ASSUME ProxyInv, OwnInv, NEW c \in Slot, MarkClosed(c)
  PROVE  OwnInv'
<1> DEFINE x == [client[c] EXCEPT !.sock_fd = NoFd]
<1>1. x.sock_fd = NoFd
  BY DEF ProxyInv, TypeOK, ClientSlot
<1>2. client' = [client EXCEPT ![c] = x] /\ fds' = fds
  BY DEF MarkClosed
<1>3. \A e \in Slot \ {c} : handler'[e] = handler[e]
  BY DEF MarkClosed, Step, ProxyInv, TypeOK
<1> HIDE DEF x
<1> QED
  BY <1>1, <1>2, <1>3
  DEF OwnInv, MarkedFirst, OpenSlotOwnsFd, ProxyInv, TypeOK

\* close gives back descriptors no slot records any more.
LEMMA OwnCloseSocket ==
  ASSUME ProxyInv, OwnInv, NEW c \in Slot, CloseSocket(c)
  PROVE  OwnInv'
<1>1. /\ client' = client
      /\ fds' = [f \in Fd |-> IF fds[f] = c THEN NoSlot ELSE fds[f]]
      /\ handler[c].pc = "shut"
      /\ \A e \in Slot \ {c} : handler'[e] = handler[e]
  BY DEF CloseSocket, Step, ProxyInv, TypeOK
<1>2. client[c].sock_fd = NoFd
  BY <1>1 DEF OwnInv, MarkedFirst, Departed
<1>3. MarkedFirst'
  BY <1>1, <1>2 DEF OwnInv, MarkedFirst
<1>4. OpenSlotOwnsFd'
  BY <1>1, <1>2
  DEF OwnInv, OpenSlotOwnsFd, ProxyInv, TypeOK, ClientSlot
<1> QED
  BY <1>3, <1>4 DEF OwnInv

LEMMA OwnReleaseLoad ==
  ASSUME ProxyInv, OwnInv, NEW c \in Slot, ReleaseLoad(c)
  PROVE  OwnInv'
<1>1. /\ client' = client /\ fds' = fds
      /\ handler[c].pc = "give"
      /\ \A e \in Slot \ {c} : handler'[e] = handler[e]
  BY DEF ReleaseLoad, ProxyInv, TypeOK
<1> QED
  BY <1>1 DEF OwnInv, MarkedFirst, OpenSlotOwnsFd, Departed

\* get_server_with_min_load and the second increment touch no descriptor.
LEMMA OwnAssign ==
  ASSUME ProxyInv, OwnInv, Assign \/ AddLoad
  PROVE  OwnInv'
<1>1. fds' = fds /\ handler' = handler
  BY DEF Assign, AddLoad
<1>2. \A c \in Slot : client'[c].sock_fd = client[c].sock_fd
  <2> DEFINE x == [client[nb_clients] EXCEPT !.server = best.server]
  <2>1. nb_clients \in Slot => x.sock_fd = client[nb_clients].sock_fd
    BY DEF ProxyInv, TypeOK, ClientSlot
  <2>2. client' = client \/ client' = [client EXCEPT ![nb_clients] = x]
    BY DEF Assign, AddLoad
  <2> HIDE DEF x
  <2> QED
    BY <2>1, <2>2 DEF ProxyInv, TypeOK
<1> QED
  BY <1>1, <1>2 DEF OwnInv, MarkedFirst, OpenSlotOwnsFd

LEMMA OwnInit == Init => OwnInv
BY DEF Init, OwnInv, MarkedFirst, OpenSlotOwnsFd, Departed, EmptySlot

LEMMA OwnNext == ProxyInv /\ OwnInv /\ [Next]_vars => OwnInv'
<1> SUFFICES ASSUME ProxyInv, OwnInv, [Next]_vars PROVE OwnInv'
  OBVIOUS
<1>1. CASE \E c \in Slot : Handler(c)
  <2>1. PICK c \in Slot : Handler(c)
    BY <1>1
  <2>2. CASE MarkClosed(c) \/ CloseSocket(c) \/ ReleaseLoad(c)
    BY <2>2, OwnMarkClosed, OwnCloseSocket, OwnReleaseLoad
  <2>3. CASE ~(MarkClosed(c) \/ CloseSocket(c) \/ ReleaseLoad(c))
    BY <2>1, <2>3, QuietHandler, QuietOwn DEF ProxyInv
  <2> QED
    BY <2>2, <2>3
<1>2. CASE Accept
  BY <1>2, OwnAccept
<1>3. CASE Assign \/ AddLoad
  BY <1>3, OwnAssign
<1>4. CASE Spawn
  BY <1>4, QuietSpawn, QuietOwn
<1>5. CASE \/ OpenServer \/ SkipServer \/ PublishServer \/ EndOfFile \/ Scan
           \/ LockLeast \/ LockAssigned \/ CountClient \/ JoinHandlers
           \/ SendEoj \/ JoinRelay \/ JoinUnstarted \/ Stop
  BY <1>5, QuietMain, QuietOwn
<1>6. CASE \/ \E s \in Line : Relay(s) \/ Serve(s) \/ ServerDies(s)
           \/ \E c \in Slot : Peer(c)
           \/ UNCHANGED vars
  BY <1>6, QuietOutside, QuietOwn
<1> QED
  BY <1>1, <1>2, <1>3, <1>4, <1>5, <1>6 DEF Next, Proceed

\* A slot marked open records a descriptor of its own, whatever the order in
\* which handlers close sockets and main accepts new ones on the same numbers.
THEOREM DescriptorsOwned == Spec => []OwnInv
BY OwnInit, OwnNext, InitInv, NextInv, Invariance, PTL DEF Spec

\* The part of it that the runs of the relay check.
THEOREM OpenSlotsOwn == Spec => []OpenSlotOwnsFd
<1>1. OwnInv => OpenSlotOwnsFd
  BY DEF OwnInv
<1> QED
  BY <1>1, DescriptorsOwned, PTL
-----------------------------------------------------------------------------
(* The mutexes of the loads. *)

LEMMA HandlerMain ==
  ASSUME NEW c \in Slot, Handler(c)
  PROVE  UNCHANGED <<mainVars, nb_clients, nb_servers, relay>>
BY DEF Handler, Enter, Increment, LoopTest, LockToReceive, Receive, ReceiveEnd,
       ReceiveError, ReceiveName, SearchName, Answer, Forward, MarkClosed,
       Uncount, Decrement, CloseSocket, LockToRelease, ReleaseLoad, ReadCount,
       WriteCount, mainVars, countVars, loadVars

LEMMA OutsideMain ==
  ASSUME \/ \E s \in Line : Relay(s) \/ Serve(s) \/ ServerDies(s)
         \/ \E c \in Slot : Peer(c)
         \/ UNCHANGED vars
  PROVE  UNCHANGED <<mainVars, nb_clients, nb_servers, client, handler, load>>
BY DEF Relay, RelayTest, RelayReceive, RelayError, RelayLookup, RelayNull,
       RelayCheck, RelayReadFd, RelayWrite, RelayCancelled, Serve, ServerReads,
       ServerWrites, ServerDies, Peer, PeerAuth, PeerAsk, PeerName,
       PeerAnswered, PeerBegin, PeerSend, PeerEnd, PeerClose, vars, mainVars,
       countVars, loadVars

\* A relay that has failed does not come back, nor does its connection.
LEMMA FailedStays ==
  ASSUME TypeOK, [Next]_vars, ~OpenServer, NEW s \in Line, Failed(s)
  PROVE  Failed(s)'
<1>1. relay[s].pc = "exit" /\ slink[s] = "dead"
  BY DEF Failed
<1>2. ASSUME NEW t, NEW p, SendServer(t, p)
      PROVE  slink'[s] = "dead"
  <2>1. CASE slink[t] = "dead"
    BY <1>1, <1>2, <2>1 DEF SendServer
  <2>2. CASE slink[t] # "dead"
    <3>1. PICK l : slink' = [slink EXCEPT ![t] = l]
      BY <1>2, <2>2 DEF SendServer
    <3> QED
      BY <1>1, <2>2, <3>1 DEF TypeOK
  <2> QED
    BY <2>1, <2>2
<1>3. CASE \E c \in Slot : Handler(c)
  <2>1. PICK c \in Slot : Handler(c)
    BY <1>3
  <2>2. relay' = relay
    BY <2>1, HandlerMain
  <2>3. CASE Forward(c)
    BY <1>1, <1>2, <2>2, <2>3 DEF Forward, Failed
  <2>4. CASE ~Forward(c)
    <3>1. slink' = slink
      BY <2>1, <2>4
      DEF Handler, Enter, Increment, LoopTest, LockToReceive, Receive,
          ReceiveEnd, ReceiveError, ReceiveName, SearchName, Answer,
          MarkClosed, Uncount, Decrement, CloseSocket, LockToRelease,
          ReleaseLoad, ReadCount, WriteCount, srvVars
    <3> QED
      BY <1>1, <2>2, <3>1 DEF Failed
  <2> QED
    BY <2>3, <2>4
<1>4. CASE SendEoj
  <2>1. slink'[s] = "dead" /\ relay' = relay
    BY <1>2, <1>4 DEF SendEoj
  <2> QED
    BY <1>1, <2>1 DEF Failed
<1>5. CASE \E t \in Line : Relay(t)
  <2>1. PICK t \in Line : Relay(t)
    BY <1>5
  <2>2. t # s
    BY <1>1, <2>1
    DEF Relay, RelayTest, RelayReceive, RelayError, RelayLookup, RelayNull,
        RelayCheck, RelayReadFd, RelayWrite, RelayCancelled
  <2>3. relay'[s] = relay[s]
    BY <2>1, <2>2
    DEF Relay, RelayTest, RelayReceive, RelayError, RelayLookup, RelayNull,
        RelayCheck, RelayReadFd, RelayWrite, RelayCancelled, TypeOK
  <2>4. slink'[s] = slink[s]
    BY <2>1, <2>2
    DEF Relay, RelayTest, RelayReceive, RelayError, RelayLookup, RelayNull,
        RelayCheck, RelayReadFd, RelayWrite, RelayCancelled, TypeOK, srvVars
  <2> QED
    BY <1>1, <2>3, <2>4 DEF Failed
<1>6. CASE \E t \in Line : Serve(t) \/ ServerDies(t)
  <2>1. PICK t \in Line : Serve(t) \/ ServerDies(t)
    BY <1>6
  <2>2. relay' = relay /\ slink'[s] = slink[s]
    BY <1>1, <2>1 DEF Serve, ServerReads, ServerWrites, ServerDies, TypeOK
  <2> QED
    BY <1>1, <2>2 DEF Failed
<1>7. CASE \/ \E c \in Slot : Peer(c)
           \/ UNCHANGED vars
           \/ Accept \/ SkipServer \/ PublishServer \/ EndOfFile \/ Scan
           \/ LockLeast \/ Assign \/ LockAssigned \/ AddLoad \/ Spawn
           \/ CountClient \/ JoinHandlers \/ JoinRelay \/ JoinUnstarted \/ Stop
  <2>1. relay' = relay /\ slink' = slink
    BY <1>7
    DEF Peer, PeerAuth, PeerAsk, PeerName, PeerAnswered, PeerBegin, PeerSend,
        PeerEnd, PeerClose, vars, srvVars, Accept, SkipServer, PublishServer,
        EndOfFile, Scan, LockLeast, Assign, LockAssigned, AddLoad, Spawn,
        CountClient, JoinHandlers, JoinRelay, JoinUnstarted, Stop
  <2> QED
    BY <1>1, <2>1 DEF Failed
<1> QED
  BY <1>3, <1>4, <1>5, <1>6, <1>7 DEF Next, Proceed

LEMMA NobodyYet ==
  ASSUME ProxyInv, mpc \in {"open", "publish"}
  PROVE  \A c \in Slot : handler[c].pc = "none" /\ client[c].server = NoLine
<1> SUFFICES ASSUME NEW c \in Slot
             PROVE  handler[c].pc = "none" /\ client[c].server = NoLine
  OBVIOUS
<1>1. nb_clients = 0 /\ c >= 0
  BY ConstantsOK DEF ProxyInv, MainInv, Slot
<1>2. ~Has(c, {"count"}) /\ ~Has(c, Placed)
  BY <1>1 DEF Has, Placed, Slot
<1> QED
  BY <1>2 DEF ProxyInv, SlotInv

LEMMA AcceptedSlot ==
  ASSUME ProxyInv, Accept
  PROVE  /\ nb_clients \in Slot /\ handler[nb_clients].pc = "none"
         /\ client[nb_clients].server = NoLine
<1>1. nb_clients \in Slot /\ mpc = "accept"
  BY ConstantsOK DEF Accept, TableFull, ProxyInv, TypeOK, Slot
<1>2. ~Has(nb_clients, {"count"}) /\ ~Has(nb_clients, Placed)
  BY <1>1 DEF Has, Placed, Slot
<1> QED
  BY <1>1, <1>2 DEF ProxyInv, SlotInv

LEMMA PlacedSlot ==
  ASSUME ProxyInv, mpc \in {"add", "assigned", "again", "spawn"}
  PROVE  /\ nb_clients \in Slot /\ handler[nb_clients].pc = "none"
         /\ mpc = "add" => client[nb_clients].server = NoLine
         /\ mpc # "add" => client[nb_clients].server \in Server
<1>1. nb_clients \in Slot
  BY ConstantsOK DEF ProxyInv, TypeOK, MainInv, Filling, Slot
<1>2. ~Has(nb_clients, {"count"})
  BY <1>1 DEF Has, Slot
<1>3. Has(nb_clients, Placed) <=> mpc # "add"
  BY <1>1 DEF Has, Slot, Placed
<1> QED
  BY <1>1, <1>2, <1>3 DEF ProxyInv, SlotInv

\* A client whose handler runs has its server.
LEMMA ServerOfRunning ==
  ASSUME ProxyInv, NEW c \in Slot, handler[c].pc # "none"
  PROVE  client[c].server \in Server /\ client[c].server \in Line
<1>1. Has(c, {"count"})
  BY DEF ProxyInv, SlotInv
<1>2. Has(c, Placed)
  BY <1>1 DEF Has, Placed
<1> QED
  BY <1>2, ServersAreLines DEF ProxyInv, SlotInv

\* Only LockToRelease brings a handler to the write of a load.
LEMMA HandlerTo ==
  ASSUME TypeOK, NEW c \in Slot, Handler(c), ~LockToRelease(c)
  PROVE  /\ handler'[c].pc # "give"
         /\ \A d \in Slot \ {c} : handler'[d] = handler[d]
<1>1. PICK moved : handler' = [handler EXCEPT ![c] = moved]
  BY DEF Handler, Enter, Increment, LoopTest, LockToReceive, Receive,
         ReceiveEnd, ReceiveError, ReceiveName, SearchName, Answer, Forward,
         MarkClosed, Uncount, Decrement, CloseSocket, ReleaseLoad, ReadCount,
         WriteCount, Step, Resume
<1>2. \A d \in Slot \ {c} : handler'[d] = handler[d]
  BY <1>1 DEF TypeOK
<1>3. ASSUME NEW from, NEW to, Step(c, from, to) PROVE handler'[c].pc = to
  BY <1>3 DEF Step, TypeOK, HandlerThread
<1>4. CASE \/ LoopTest(c) \/ LockToReceive(c) \/ ReceiveEnd(c)
           \/ ReceiveError(c) \/ MarkClosed(c) \/ CloseSocket(c)
  <2>1. PICK from, to : Step(c, from, to) /\ to # "give"
    <3>1. CASE LoopTest(c)
      BY <3>1 DEF LoopTest
    <3>2. CASE LockToReceive(c)
      BY <3>2 DEF LockToReceive
    <3>3. CASE ReceiveEnd(c) \/ ReceiveError(c) \/ MarkClosed(c) \/ CloseSocket(c)
      BY <3>3 DEF ReceiveEnd, ReceiveError, MarkClosed, CloseSocket
    <3> QED
      BY <1>4, <3>1, <3>2, <3>3
  <2> QED
    BY <1>2, <1>3, <2>1
<1>5. CASE Enter(c) \/ Increment(c) \/ Uncount(c) \/ Decrement(c)
  BY <1>2, <1>5
  DEF Enter, Increment, Uncount, Decrement, ReadCount, WriteCount, TypeOK,
      HandlerThread
<1>6. CASE Answer(c) \/ Forward(c)
  BY <1>2, <1>6, IdleType DEF Answer, Forward, Resume, TypeOK
<1>7. CASE Receive(c)
  <2> DEFINE b == Branch(Head(up[c]).type)
             d == [Head(up[c]) EXCEPT !.origin = client[c].addr]
             g == [handler[c] EXCEPT !.pc = b, !.data = d]
  <2>1. b # "give"
    BY DEF Branch
  <2>2. g.pc = b
    BY DEF TypeOK, HandlerThread
  <2>3. handler' = [handler EXCEPT ![c] = IF b = "loop" THEN Idle ELSE g]
    BY <1>7 DEF Receive
  <2> HIDE DEF b, d, g
  <2> QED
    BY <1>2, <2>1, <2>2, <2>3, IdleType DEF TypeOK
<1>8. CASE ReceiveName(c)
  <2> DEFINE name == IF up[c] = <<>> THEN NoName ELSE Head(up[c]).name
             g == [handler[c] EXCEPT !.pc = "search", !.i = 0,
                                     !.data = Pseudo(name)]
  <2>1. handler' = [handler EXCEPT ![c] = Idle]
          \/ handler' = [handler EXCEPT ![c] = g]
    BY <1>8 DEF ReceiveName, Resume
  <2>2. g.pc = "search"
    BY DEF TypeOK, HandlerThread
  <2> HIDE DEF name, g
  <2> QED
    BY <1>2, <2>1, <2>2, IdleType DEF TypeOK
<1>9. CASE SearchName(c)
  <2> DEFINE f == [handler[c] EXCEPT !.pc = "found"]
             n == [handler[c] EXCEPT !.i = handler[c].i + 1]
  <2>1. f.pc = "found" /\ n.pc = "search"
    BY <1>9 DEF SearchName, TypeOK, HandlerThread
  <2>2. PICK h \in {f, n} : handler' = [handler EXCEPT ![c] = h]
    BY <1>9 DEF SearchName
  <2> HIDE DEF f, n
  <2> QED
    BY <1>2, <2>1, <2>2 DEF TypeOK
<1>10. CASE ReleaseLoad(c)
  BY <1>2, <1>10 DEF ReleaseLoad, TypeOK, HandlerThread
<1> QED
  BY <1>4, <1>5, <1>6, <1>7, <1>8, <1>9, <1>10 DEF Handler

LEMMA HandlerLoads ==
  ASSUME NEW c \in Slot, Handler(c), ~LockToRelease(c), ~ReleaseLoad(c)
  PROVE  UNCHANGED loadVars
BY DEF Handler, Enter, Increment, LoopTest, LockToReceive, Receive, ReceiveEnd,
       ReceiveError, ReceiveName, SearchName, Answer, Forward, MarkClosed,
       Uncount, Decrement, CloseSocket, ReadCount, WriteCount, loadVars

LEMMA MarkBooks ==
  ASSUME ProxyInv, NEW c \in Slot, MarkClosed(c)
  PROVE  /\ load' = load
         /\ \A e \in Slot :
              /\ client'[e].server = client[e].server
              /\ handler'[e].pc = "closed" <=> handler[e].pc = "closed"
<1> DEFINE x == [client[c] EXCEPT !.sock_fd = NoFd]
           h == [handler[c] EXCEPT !.pc = "uncount"]
<1>1. x.server = client[c].server /\ h.pc = "uncount"
  BY DEF ProxyInv, TypeOK, ClientSlot, HandlerThread
<1>2. /\ client' = [client EXCEPT ![c] = x] /\ load' = load
      /\ handler' = [handler EXCEPT ![c] = h] /\ handler[c].pc = "close"
  BY DEF MarkClosed, Step, loadVars
<1> HIDE DEF x, h
<1> QED
  BY <1>1, <1>2 DEF ProxyInv, TypeOK

LEMMA CloseBooks ==
  ASSUME ProxyInv, NEW c \in Slot, CloseSocket(c)
  PROVE  /\ load' = load /\ client' = client
         /\ \A e \in Slot :
              handler'[e].pc = "closed" <=> handler[e].pc = "closed"
<1> DEFINE h == [handler[c] EXCEPT !.pc = "release"]
<1>1. h.pc = "release"
  BY DEF ProxyInv, TypeOK, HandlerThread
<1>2. /\ client' = client /\ load' = load
      /\ handler' = [handler EXCEPT ![c] = h] /\ handler[c].pc = "shut"
  BY DEF CloseSocket, Step, loadVars
<1> HIDE DEF h
<1> QED
  BY <1>1, <1>2 DEF ProxyInv, TypeOK

\* What a handler's step leaves of the books, when it releases no load.
LEMMA HandlerBooks ==
  ASSUME ProxyInv, NEW c \in Slot, Handler(c), ~ReleaseLoad(c)
  PROVE  /\ load' = load
         /\ \A e \in Slot :
              /\ client'[e].server = client[e].server
              /\ handler'[e].pc = "closed" <=> handler[e].pc = "closed"
<1>1. CASE MarkClosed(c)
  BY <1>1, MarkBooks
<1>2. CASE CloseSocket(c)
  BY <1>2, CloseBooks
<1>3. CASE ~(MarkClosed(c) \/ CloseSocket(c))
  BY <1>3, QuietHandler DEF Quiet, ProxyInv
<1> QED
  BY <1>1, <1>2, <1>3

\* Steps outside the sections that change loads.
LEMMA ExclusionKept ==
  ASSUME ProxyInv, ExclusionInv, UNCHANGED <<load, server_mutex>>,
         \A s \in Line : Failed(s) => Failed(s)',
         \A c \in Slot :
           /\ client'[c].server = client[c].server
           /\ handler'[c].pc = "give" => handler'[c] = handler[c],
         \/ mpc' \notin {"add", "again"}
         \/ UNCHANGED <<mpc, best, reg, nb_clients>>
  PROVE  ExclusionInv'
<1> SUFFICES ASSUME NEW s \in Line, ~Failed(s)
             PROVE  /\ MainAdds(s)' => server_mutex[s] /\ reg' = load[s]
                    /\ \A c \in Slot : Releases(c, s)' =>
                         /\ server_mutex[s] /\ handler'[c].cnt = load[s]
                         /\ ~MainAdds(s)'
                         /\ \A d \in Slot : Releases(d, s)' => d = c
  BY DEF ExclusionInv
<1>1. MainAdds(s)' => MainAdds(s) /\ reg' = reg
  <2>1. mpc = "again" => nb_clients \in Slot
    BY PlacedSlot
  <2> QED
    BY <2>1 DEF MainAdds
<1>2. \A c \in Slot : Releases(c, s)' => Releases(c, s) /\ handler'[c] = handler[c]
  BY DEF Releases
<1> QED
  BY <1>1, <1>2 DEF ExclusionInv

\* The lock of a load, by main or a handler: nobody is in the section yet.
LEMMA Unlocked ==
  ASSUME ExclusionInv, NEW s \in Line, ~server_mutex[s], ~Failed(s)
  PROVE  ~MainAdds(s) /\ \A c \in Slot : ~Releases(c, s)
BY DEF ExclusionInv

LEMMA LockToReleaseExcl ==
  ASSUME ProxyInv, ExclusionInv, NEW c \in Slot, LockToRelease(c)
  PROVE  ExclusionInv'
<1> DEFINE h == [handler[c] EXCEPT !.pc = "give", !.cnt = load[client[c].server]]
<1>1. h.pc = "give" /\ h.cnt = load[client[c].server]
  BY DEF ProxyInv, TypeOK, HandlerThread
<1>2. /\ handler[c].pc = "release" /\ ~server_mutex[client[c].server]
      /\ server_mutex' = [server_mutex EXCEPT ![client[c].server] = TRUE]
      /\ handler' = [handler EXCEPT ![c] = h]
      /\ UNCHANGED <<mpc, best, reg, nb_clients, load, client, relay, slink>>
  BY DEF LockToRelease, LockLoad, mainVars, countVars, srvVars
<1> HIDE DEF h
<1>3. client[c].server \in Line
  BY <1>2, ServerOfRunning
<1>4. /\ \A d \in Slot \ {c} : handler'[d] = handler[d]
      /\ handler'[c].pc = "give" /\ handler'[c].cnt = load[client[c].server]
      /\ \A s \in Line : server_mutex'[s] =
           IF s = client[c].server THEN TRUE ELSE server_mutex[s]
  BY <1>1, <1>2, <1>3 DEF ProxyInv, TypeOK
<1> SUFFICES ASSUME NEW s \in Line, ~Failed(s)
             PROVE  /\ MainAdds(s)' => server_mutex'[s] /\ reg' = load'[s]
                    /\ \A d \in Slot : Releases(d, s)' =>
                         /\ server_mutex'[s] /\ handler'[d].cnt = load'[s]
                         /\ ~MainAdds(s)'
                         /\ \A e \in Slot : Releases(e, s)' => e = d
  BY <1>2 DEF ExclusionInv, Failed
<1>5. MainAdds(s)' = MainAdds(s)
  BY <1>2 DEF MainAdds
<1>6. CASE s = client[c].server
  <2>1. ~MainAdds(s) /\ \A d \in Slot : ~Releases(d, s)
    BY <1>2, <1>6, Unlocked
  <2>2. \A d \in Slot : Releases(d, s)' => d = c
    BY <1>2, <1>4, <2>1 DEF Releases
  <2> QED
    BY <1>2, <1>4, <1>5, <1>6, <2>1, <2>2
<1>7. CASE s # client[c].server
  <2>1. \A d \in Slot : Releases(d, s)' => Releases(d, s) /\ d # c
    BY <1>2, <1>4, <1>7 DEF Releases
  <2> QED
    BY <1>2, <1>4, <1>5, <1>7, <2>1 DEF ExclusionInv
<1> QED
  BY <1>6, <1>7

LEMMA LockMainExcl ==
  ASSUME ProxyInv, ExclusionInv, LockLeast \/ LockAssigned
  PROVE  ExclusionInv'
<1>1. PICK b \in Line :
        /\ ~server_mutex[b] /\ reg' = load[b]
        /\ server_mutex' = [server_mutex EXCEPT ![b] = TRUE]
        /\ \/ mpc' = "add" /\ b = best.server
           \/ mpc' = "again" /\ b = client[nb_clients].server
  <2>1. CASE LockLeast
    <3>1. best.server \in Line
      BY <2>1, ScanEnd, ServersAreLines DEF LockLeast
    <3> QED
      BY <2>1, <3>1 DEF LockLeast, LockLoad
  <2>2. CASE LockAssigned
    <3>1. client[nb_clients].server \in Line
      BY <2>2, PlacedSlot, ServersAreLines DEF LockAssigned
    <3> QED
      BY <2>2, <3>1 DEF LockAssigned, LockLoad
  <2> QED
    BY <2>1, <2>2
<1>2. UNCHANGED <<best, nb_clients, client, handler, load, relay, slink>>
  BY DEF LockLeast, LockAssigned, LockLoad, countVars, srvVars
<1>3. \A s \in Line : MainAdds(s)' <=> s = b
  BY <1>1, <1>2 DEF MainAdds
<1>4. \A s \in Line : server_mutex'[s] = IF s = b THEN TRUE ELSE server_mutex[s]
  BY <1>1 DEF ProxyInv, TypeOK
<1>5. \A s \in Line, c \in Slot : Releases(c, s)' = Releases(c, s)
  BY <1>2 DEF Releases
<1> SUFFICES ASSUME NEW s \in Line, ~Failed(s)
             PROVE  /\ MainAdds(s)' => server_mutex'[s] /\ reg' = load'[s]
                    /\ \A d \in Slot : Releases(d, s)' =>
                         /\ server_mutex'[s] /\ handler'[d].cnt = load'[s]
                         /\ ~MainAdds(s)'
                         /\ \A e \in Slot : Releases(e, s)' => e = d
  BY <1>2 DEF ExclusionInv, Failed
<1>6. CASE s = b
  BY <1>1, <1>2, <1>3, <1>4, <1>5, <1>6, Unlocked
<1>7. CASE s # b
  BY <1>2, <1>3, <1>4, <1>5, <1>7 DEF ExclusionInv
<1> QED
  BY <1>6, <1>7

\* The write of a load: nobody else was in the section, so nobody is.
LEMMA MainStoreExcl ==
  ASSUME ProxyInv, ExclusionInv, Assign \/ AddLoad
  PROVE  ExclusionInv'
<1>1. PICK b \in Line : MainAdds(b) /\ StoreLoad(b, reg + 1)
  <2>1. CASE Assign
    <3>1. best.server \in Line /\ MainAdds(best.server)
      BY <2>1, ServersAreLines DEF Assign, ProxyInv, ScanInv, MainAdds
    <3> QED
      BY <2>1, <3>1 DEF Assign
  <2>2. CASE AddLoad
    <3>1. client[nb_clients].server \in Line
      BY <2>2, PlacedSlot, ServersAreLines DEF AddLoad
    <3> QED
      BY <2>2, <3>1 DEF AddLoad, MainAdds
  <2> QED
    BY <2>1, <2>2
<1>2. UNCHANGED <<handler, relay, slink>> /\ mpc' \notin {"add", "again"}
  BY DEF Assign, AddLoad, srvVars
<1>3. \A c \in Slot : handler[c].pc = "give" => client'[c] = client[c]
  <2>1. CASE Assign
    <3>1. nb_clients \in Slot /\ handler[nb_clients].pc = "none"
      BY <2>1, PlacedSlot DEF Assign
    <3>2. \A c \in Slot \ {nb_clients} : client'[c] = client[c]
      BY <2>1 DEF Assign, ProxyInv, TypeOK
    <3> QED
      BY <3>1, <3>2
  <2>2. CASE AddLoad
    BY <2>2 DEF AddLoad
  <2> QED
    BY <2>1, <2>2
<1>4. \A s \in Line \ {b} : load'[s] = load[s] /\ server_mutex'[s] = server_mutex[s]
  BY <1>1 DEF StoreLoad, ProxyInv, TypeOK
<1>5. \A s \in Line : ~MainAdds(s)'
  BY <1>2 DEF MainAdds
<1>6. \A s \in Line, c \in Slot : Releases(c, s)' => Releases(c, s)
  BY <1>2, <1>3 DEF Releases
<1> SUFFICES ASSUME NEW s \in Line, ~Failed(s), NEW c \in Slot, Releases(c, s)'
             PROVE  /\ server_mutex'[s] /\ handler'[c].cnt = load'[s]
                    /\ \A d \in Slot : Releases(d, s)' => d = c
  BY <1>2, <1>5 DEF ExclusionInv, Failed
<1>7. s # b
  BY <1>1, <1>6 DEF ExclusionInv
<1> QED
  BY <1>2, <1>4, <1>6, <1>7 DEF ExclusionInv

LEMMA ReleaseLoadExcl ==
  ASSUME ProxyInv, ExclusionInv, NEW c \in Slot, ReleaseLoad(c)
  PROVE  ExclusionInv'
<1>1. PICK b \in Line : /\ Releases(c, b)
                        /\ StoreLoad(b, Released(handler[c].cnt))
  BY ServerOfRunning DEF ReleaseLoad, Releases
<1>2. UNCHANGED <<mpc, best, reg, nb_clients, client, relay, slink>>
  BY DEF ReleaseLoad, mainVars, countVars, srvVars
<1>3. /\ \A d \in Slot \ {c} : handler'[d] = handler[d]
      /\ handler'[c].pc = "closed"
  BY DEF ReleaseLoad, ProxyInv, TypeOK, HandlerThread
<1>4. \A s \in Line \ {b} : load'[s] = load[s] /\ server_mutex'[s] = server_mutex[s]
  BY <1>1 DEF StoreLoad, ProxyInv, TypeOK
<1>5. \A s \in Line : MainAdds(s)' = MainAdds(s)
  BY <1>2 DEF MainAdds
<1>6. \A s \in Line, d \in Slot :
        Releases(d, s)' => Releases(d, s) /\ d # c /\ handler'[d] = handler[d]
  BY <1>2, <1>3 DEF Releases
<1> SUFFICES ASSUME NEW s \in Line, ~Failed(s)
             PROVE  /\ MainAdds(s)' => server_mutex'[s] /\ reg' = load'[s]
                    /\ \A d \in Slot : Releases(d, s)' =>
                         /\ server_mutex'[s] /\ handler'[d].cnt = load'[s]
                         /\ ~MainAdds(s)'
                         /\ \A e \in Slot : Releases(e, s)' => e = d
  BY <1>2 DEF ExclusionInv, Failed
<1>7. CASE s = b
  BY <1>1, <1>5, <1>6, <1>7 DEF ExclusionInv
<1>8. CASE s # b
  BY <1>2, <1>4, <1>5, <1>6, <1>8 DEF ExclusionInv
<1> QED
  BY <1>7, <1>8

\* The relay that frees a mutex it does not hold fails with it.
LEMMA RelayErrorExcl ==
  ASSUME ProxyInv, ExclusionInv, NEW s \in Line, RelayError(s)
  PROVE  ExclusionInv'
<1>1. /\ UNCHANGED <<mpc, best, reg, nb_clients, client, handler, load>>
      /\ \A t \in Line \ {s} : /\ server_mutex'[t] = server_mutex[t]
                               /\ relay'[t] = relay[t] /\ slink'[t] = slink[t]
  BY DEF RelayError, mainVars, countVars, ProxyInv, TypeOK
<1>2. Failed(s)'
  BY DEF RelayError, Failed, ProxyInv, TypeOK, RelayThread
<1>3. \A t \in Line : /\ MainAdds(t)' = MainAdds(t)
                      /\ \A c \in Slot : Releases(c, t)' = Releases(c, t)
  BY <1>1 DEF MainAdds, Releases
<1>4. \A t \in Line : ~Failed(t)' => t # s /\ ~Failed(t)
  BY <1>1, <1>2 DEF Failed
<1> QED
  BY <1>1, <1>3, <1>4 DEF ExclusionInv

LEMMA ExclusionInit == Init => ExclusionInv
BY DEF Init, ExclusionInv, MainAdds, Releases

LEMMA ExclusionNext == ProxyInv /\ ExclusionInv /\ [Next]_vars => ExclusionInv'
<1> SUFFICES ASSUME ProxyInv, ExclusionInv, [Next]_vars PROVE ExclusionInv'
  OBVIOUS
<1>1. ~OpenServer => \A s \in Line : Failed(s) => Failed(s)'
  BY FailedStays DEF ProxyInv
<1>2. CASE \E c \in Slot : Handler(c)
  <2>1. PICK c \in Slot : Handler(c)
    BY <1>2
  <2>2. CASE LockToRelease(c)
    BY <2>2, LockToReleaseExcl
  <2>3. CASE ReleaseLoad(c)
    BY <2>3, ReleaseLoadExcl
  <2>4. CASE ~LockToRelease(c) /\ ~ReleaseLoad(c)
    <3>1. UNCHANGED <<mpc, best, reg, nb_clients>> /\ UNCHANGED <<load, server_mutex>>
      BY <2>1, <2>4, HandlerMain, HandlerLoads DEF mainVars, loadVars
    <3>2. \A d \in Slot : /\ client'[d].server = client[d].server
                          /\ handler'[d].pc = "give" => handler'[d] = handler[d]
      BY <2>1, <2>4, HandlerTo, HandlerBooks DEF ProxyInv
    <3>3. ~OpenServer
      BY <3>1 DEF OpenServer
    <3> QED
      BY <1>1, <3>1, <3>2, <3>3, ExclusionKept
  <2> QED
    BY <2>2, <2>3, <2>4
<1>3. CASE LockLeast \/ LockAssigned
  BY <1>3, LockMainExcl
<1>4. CASE Assign \/ AddLoad
  BY <1>4, MainStoreExcl
<1>5. CASE \E s \in Line : RelayError(s)
  BY <1>5, RelayErrorExcl
<1>6. CASE /\ \/ \E s \in Line : Relay(s) \/ Serve(s) \/ ServerDies(s)
              \/ \E c \in Slot : Peer(c)
              \/ UNCHANGED vars
           /\ ~\E s \in Line : RelayError(s)
  <2>1. UNCHANGED <<mainVars, nb_clients, client, handler, load>>
    BY <1>6, OutsideMain
  <2>2. server_mutex' = server_mutex
    BY <1>6
    DEF Relay, RelayTest, RelayReceive, RelayLookup, RelayNull, RelayCheck,
        RelayReadFd, RelayWrite, RelayCancelled, Serve, ServerReads,
        ServerWrites, ServerDies, Peer, PeerAuth, PeerAsk, PeerName,
        PeerAnswered, PeerBegin, PeerSend, PeerEnd, PeerClose, vars, loadVars
  <2>3. ~OpenServer
    BY <2>1 DEF OpenServer, mainVars
  <2> QED
    BY <1>1, <2>1, <2>2, <2>3, ExclusionKept DEF mainVars
<1>7. CASE OpenServer
  <2>1. \A c \in Slot : handler'[c].pc # "give"
    BY <1>7, NobodyYet DEF OpenServer
  <2>2. mpc' = "publish"
    BY <1>7 DEF OpenServer
  <2> QED
    BY <2>1, <2>2 DEF ExclusionInv, MainAdds, Releases
<1>8. CASE Accept
  <2>1. nb_clients \in Slot /\ handler[nb_clients].pc = "none"
    BY <1>8, AcceptedSlot
  <2>2. \A c \in Slot \ {nb_clients} : client'[c] = client[c]
    BY <1>8 DEF Accept, ProxyInv, TypeOK
  <2>3. UNCHANGED <<load, server_mutex, handler, relay, slink>> /\ mpc' = "scan"
    BY <1>8 DEF Accept, loadVars, srvVars
  <2> QED
    BY <2>1, <2>2, <2>3 DEF ExclusionInv, Failed, MainAdds, Releases
<1>9. CASE Spawn
  <2>1. nb_clients \in Slot /\ handler[nb_clients].pc = "none"
    BY <1>9, PlacedSlot DEF Spawn
  <2>2. /\ UNCHANGED <<load, server_mutex, client, relay, slink>>
        /\ mpc' = "count"
    BY <1>9 DEF Spawn, loadVars, srvVars
  <2>3. \A c \in Slot : handler'[c].pc = "give" => handler'[c] = handler[c]
    <3>1. PICK pc \in {"start", "none"} :
            handler' = [handler EXCEPT ![nb_clients].pc = pc]
      BY <1>9 DEF Spawn, Created
    <3> QED
      BY <2>1, <3>1 DEF ProxyInv, TypeOK, HandlerThread
  <2> QED
    BY <2>2, <2>3 DEF ExclusionInv, Failed, MainAdds, Releases
<1>10. CASE \/ SkipServer \/ PublishServer \/ EndOfFile \/ Scan \/ CountClient
            \/ JoinHandlers \/ SendEoj \/ JoinRelay \/ JoinUnstarted \/ Stop
  <2>1. UNCHANGED <<load, server_mutex, client, handler>> /\ ~OpenServer
    BY <1>10
    DEF SkipServer, PublishServer, EndOfFile, Scan, CountClient, JoinHandlers,
        SendEoj, JoinRelay, JoinUnstarted, Stop, OpenServer, mainVars, loadVars
  <2>2. mpc' \notin {"add", "again"} \/ UNCHANGED <<mpc, best, reg, nb_clients>>
    BY <1>10
    DEF SkipServer, PublishServer, EndOfFile, Scan, CountClient, JoinHandlers,
        SendEoj, JoinRelay, JoinUnstarted, Stop, mainVars, countVars
  <2> QED
    BY <1>1, <2>1, <2>2, ExclusionKept
<1> QED
  BY <1>2, <1>3, <1>4, <1>5, <1>6, <1>7, <1>8, <1>9, <1>10 DEF Next, Proceed

\* Until its relay fails, the mutex of a server excludes main's increments and
\* the handlers' decrements of its load from each other, across the two steps
\* that each of them takes.
THEOREM LoadsExclusive == Spec => []ExclusionInv
BY ExclusionInit, ExclusionNext, InitInv, NextInv, Invariance, PTL DEF Spec
-----------------------------------------------------------------------------
(* Loads. *)

LEMMA MostBefore ==
  ASSUME ProxyInv, mpc = "open"
  PROVE  Most = 2 * nb_clients
BY DEF Most, ProxyInv, TypeOK

LEMMA SlotCounts ==
  \A s : /\ IsFiniteSet(Assigned(s)) /\ Cardinality(Assigned(s)) \in Nat
         /\ IsFiniteSet(Serving(s)) /\ Cardinality(Serving(s)) \in Nat
<1>1. IsFiniteSet(Slot)
  BY ConstantsOK, FS_Interval DEF Slot
<1>2. \A s : Assigned(s) \subseteq Slot /\ Serving(s) \subseteq Slot
  BY DEF Assigned, Serving
<1> QED
  BY <1>1, <1>2, FS_Subset, FS_CardinalityType

\* Steps that assign and release nothing, outside main's two increments.
LEMMA BooksKept ==
  ASSUME ProxyInv, LoadLedger, load' = load,
         \A s \in Line : Failed(s) => Failed(s)',
         \A c \in Slot : /\ client'[c].server = client[c].server
                         /\ handler'[c].pc = "closed" <=> handler[c].pc = "closed",
         mpc' \in {"assigned", "again"} <=> mpc \in {"assigned", "again"},
         mpc \in {"assigned", "again"} => nb_clients' = nb_clients
  PROVE  LoadLedger'
<1>1. \A s \in Line : Assigned(s)' = Assigned(s) /\ Serving(s)' = Serving(s)
  BY DEF Assigned, Serving
<1>2. mpc \in {"assigned", "again"} => nb_clients \in Slot
  BY PlacedSlot
<1>3. \A s \in Line : Pending(s)' = Pending(s)
  BY <1>2 DEF Pending
<1> QED
  BY <1>1, <1>3 DEF LoadLedger

LEMMA AcceptLedger ==
  ASSUME ProxyInv, LoadLedger, Accept
  PROVE  LoadLedger'
<1>1. nb_clients \in Slot /\ client[nb_clients].server = NoLine
  BY AcceptedSlot
<1>2. PICK a \in Addr, fd \in Fd :
        client' = [client EXCEPT ![nb_clients] =
                    [EmptySlot EXCEPT !.sock_fd = fd, !.addr = a]]
  BY DEF Accept
<1>3. \A c \in Slot : client'[c].server = client[c].server
  BY <1>1, <1>2 DEF ProxyInv, TypeOK, EmptySlot
<1>4. /\ UNCHANGED <<load, handler, relay, slink>>
      /\ mpc = "accept" /\ mpc' = "scan"
  BY DEF Accept, loadVars, srvVars
<1> QED
  BY <1>3, <1>4, BooksKept DEF Failed

LEMMA AssignLedger ==
  ASSUME ProxyInv, ExclusionInv, LoadLedger, Assign
  PROVE  LoadLedger'
<1> PICK b \in Line : b = best.server
  BY ServersAreLines DEF Assign, ProxyInv, ScanInv
<1> DEFINE x == [client[nb_clients] EXCEPT !.server = b]
<1>1. /\ nb_clients \in Slot /\ nb_clients' = nb_clients
      /\ mpc = "add" /\ mpc' = "assigned"
      /\ UNCHANGED <<relay, slink>>
  BY PlacedSlot DEF Assign, countVars, srvVars
<1>2. MainAdds(b)
  BY <1>1 DEF MainAdds
<1>3. client[nb_clients].server = NoLine /\ handler[nb_clients].pc = "none"
  BY <1>1, PlacedSlot
<1>4. x.server = b
  BY <1>1 DEF ProxyInv, TypeOK, ClientSlot
<1>5. client' = [client EXCEPT ![nb_clients] = x] /\ handler' = handler
  BY DEF Assign
<1> HIDE DEF x
<1>6. /\ load' = [load EXCEPT ![b] = reg + 1] /\ load \in [Line -> Nat]
  BY DEF Assign, StoreLoad, ProxyInv, TypeOK
<1>7. \A s \in Line : s # b => /\ Assigned(s)' = Assigned(s)
                               /\ Serving(s)' = Serving(s)
                               /\ Pending(s)' = Pending(s)
  BY <1>1, <1>3, <1>4, <1>5 DEF Assigned, Serving, Pending, ProxyInv, TypeOK, NoLine, Line
<1>8. /\ Assigned(b)' = Assigned(b) \cup {nb_clients}
      /\ nb_clients \notin Assigned(b)
  BY <1>1, <1>3, <1>4, <1>5
  DEF Assigned, ProxyInv, TypeOK, NoLine, Line
<1>9. /\ Serving(b)' = Serving(b) \cup {nb_clients}
      /\ nb_clients \notin Serving(b)
  BY <1>1, <1>3, <1>4, <1>5
  DEF Serving, ProxyInv, TypeOK, NoLine, Line
<1>10. client'[nb_clients].server = b
  BY <1>1, <1>4, <1>5 DEF ProxyInv, TypeOK
<1>11. Pending(b) = 0 /\ Pending(b)' = 1
  BY <1>1, <1>10 DEF Pending
<1>12. /\ Cardinality(Assigned(b)') = Cardinality(Assigned(b)) + 1
       /\ Cardinality(Serving(b)') = Cardinality(Serving(b)) + 1
  BY <1>8, <1>9, SlotCounts, FS_AddElement
<1> SUFFICES ASSUME NEW s \in Line, ~Failed(s)
             PROVE  load'[s] = Cardinality(Assigned(s)') + Cardinality(Serving(s)')
                                 - Pending(s)'
  BY <1>1 DEF LoadLedger, Failed
<1>13. load[s] = Cardinality(Assigned(s)) + Cardinality(Serving(s)) - Pending(s)
  BY DEF LoadLedger
<1>14. CASE s = b
  <2>1. reg = load[b]
    BY <1>2, <1>14 DEF ExclusionInv
  <2>2. load'[b] = load[b] + 1
    BY <1>6, <2>1
  <2> QED
    BY <1>11, <1>12, <1>13, <1>14, <2>2, SlotCounts
<1>15. CASE s # b
  <2>1. load'[s] = load[s]
    BY <1>6, <1>15
  <2> QED
    BY <1>7, <1>13, <1>15, <2>1
<1> QED
  BY <1>14, <1>15

LEMMA AddLoadLedger ==
  ASSUME ProxyInv, ExclusionInv, LoadLedger, AddLoad
  PROVE  LoadLedger'
<1>1. /\ nb_clients \in Slot /\ nb_clients' = nb_clients
      /\ mpc = "again" /\ mpc' = "spawn"
      /\ UNCHANGED <<client, handler, relay, slink>>
  BY PlacedSlot DEF AddLoad, countVars, srvVars
<1>2. PICK b \in Line : b = client[nb_clients].server
  BY <1>1, PlacedSlot, ServersAreLines
<1>3. load' = [load EXCEPT ![b] = reg + 1] /\ load \in [Line -> Nat]
  BY <1>2 DEF AddLoad, StoreLoad, ProxyInv, TypeOK
<1>4. \A s \in Line : /\ Assigned(s)' = Assigned(s)
                      /\ Serving(s)' = Serving(s)
                      /\ Pending(s) = IF s = b THEN 1 ELSE 0
                      /\ Pending(s)' = 0
  BY <1>1, <1>2 DEF Assigned, Serving, Pending
<1>5. \A s \in Line : load'[s] = IF s = b THEN reg + 1 ELSE load[s]
  BY <1>3
<1>6. ~Failed(b) => reg = load[b]
  BY <1>1, <1>2 DEF ExclusionInv, MainAdds
<1>7. \A s \in Line : Failed(s)' = Failed(s)
  BY <1>1 DEF Failed
<1> QED
  BY <1>4, <1>5, <1>6, <1>7, SlotCounts DEF LoadLedger

LEMMA ReleaseLoadLedger ==
  ASSUME ProxyInv, ExclusionInv, LoadLedger, NEW c \in Slot, ReleaseLoad(c)
  PROVE  LoadLedger'
<1> DEFINE h == [handler[c] EXCEPT !.pc = "closed", !.cnt = 0]
<1>1. /\ handler[c].pc = "give" /\ client' = client
      /\ mpc' = mpc /\ nb_clients' = nb_clients
      /\ handler' = [handler EXCEPT ![c] = h]
      /\ UNCHANGED <<relay, slink>>
  BY DEF ReleaseLoad, mainVars, countVars, srvVars
<1>2. h.pc = "closed"
  BY DEF ProxyInv, TypeOK, HandlerThread
<1> HIDE DEF h
<1>3. PICK b \in Line : b = client[c].server
  BY <1>1, ServerOfRunning
<1>4. load' = [load EXCEPT ![b] = Released(handler[c].cnt)] /\ load \in [Line -> Nat]
  BY <1>3 DEF ReleaseLoad, StoreLoad, ProxyInv, TypeOK
<1>5. \A s \in Line : /\ Assigned(s)' = Assigned(s)
                      /\ Pending(s)' = Pending(s)
                      /\ s # b => Serving(s)' = Serving(s)
  BY <1>1, <1>2, <1>3 DEF Assigned, Serving, Pending, ProxyInv, TypeOK
<1>6. /\ c \in Assigned(b) /\ c \in Serving(b)
      /\ Serving(b)' = Serving(b) \ {c}
  BY <1>1, <1>2, <1>3 DEF Assigned, Serving, ProxyInv, TypeOK
<1>7. /\ Cardinality(Serving(b)') = Cardinality(Serving(b)) - 1
      /\ Cardinality(Serving(b)) > 0 /\ Cardinality(Assigned(b)) > 0
  <2>1. Cardinality(Serving(b) \ {c}) = Cardinality(Serving(b)) - 1
    BY <1>6, SlotCounts, FS_RemoveElement
  <2>2. Serving(b) # {} /\ Assigned(b) # {}
    BY <1>6
  <2>3. Cardinality(Serving(b)) # 0 /\ Cardinality(Assigned(b)) # 0
    BY <2>2, SlotCounts, FS_EmptySet
  <2> QED
    BY <1>6, <2>1, <2>3, SlotCounts
<1>8. \A s \in Line : Pending(s) \in {0, 1}
  BY DEF Pending
<1> SUFFICES ASSUME NEW s \in Line, ~Failed(s)
             PROVE  load'[s] = Cardinality(Assigned(s)') + Cardinality(Serving(s)')
                                 - Pending(s)'
  BY <1>1 DEF LoadLedger, Failed
<1>9. load[s] = Cardinality(Assigned(s)) + Cardinality(Serving(s)) - Pending(s)
  BY DEF LoadLedger
<1>10. CASE s = b
  <2>1. handler[c].cnt = load[b]
    BY <1>1, <1>3, <1>10 DEF ExclusionInv, Releases
  <2>2. load[b] > 0
    BY <1>7, <1>8, <1>9, <1>10, SlotCounts
  <2>3. load'[b] = load[b] - 1
    BY <1>4, <2>1, <2>2 DEF Released
  <2> QED
    BY <1>5, <1>7, <1>8, <1>9, <1>10, <2>3, SlotCounts
<1>11. CASE s # b
  BY <1>4, <1>5, <1>9, <1>11
<1> QED
  BY <1>10, <1>11

LEMMA LedgerInit == Init => LoadLedger
<1> SUFFICES ASSUME Init, NEW s \in Line
             PROVE  load[s] = Cardinality(Assigned(s)) + Cardinality(Serving(s))
                                - Pending(s)
  BY DEF LoadLedger
<1>1. Assigned(s) = {} /\ Serving(s) = {} /\ Pending(s) = 0 /\ load[s] = 0
  BY DEF Init, Assigned, Serving, Pending, EmptySlot, NoLine, Line
<1> QED
  BY <1>1, FS_EmptySet

\* Before the first client there is nothing in the books.
LEMMA OpenServerLedger ==
  ASSUME ProxyInv, OpenServer
  PROVE  LoadLedger'
<1>1. /\ UNCHANGED <<nb_clients, client, load>>
      /\ mpc = "open" /\ mpc' = "publish"
  BY DEF OpenServer, countVars, loadVars
<1> SUFFICES ASSUME NEW s \in Line
             PROVE  load[s] = Cardinality(Assigned(s)') + Cardinality(Serving(s)')
                                - Pending(s)'
  BY <1>1 DEF LoadLedger
<1>2. Assigned(s)' = {} /\ Serving(s)' = {} /\ Pending(s)' = 0
  BY <1>1, NobodyYet DEF Assigned, Serving, Pending, NoLine, Line
<1>3. load[s] <= 2 * nb_clients /\ load[s] \in Nat /\ nb_clients = 0
  BY <1>1, MostBefore DEF ProxyInv, LoadBound, TypeOK, MainInv
<1> QED
  BY <1>2, <1>3, FS_EmptySet

LEMMA LedgerNext ==
  ProxyInv /\ ExclusionInv /\ LoadLedger /\ [Next]_vars => LoadLedger'
<1> SUFFICES ASSUME ProxyInv, ExclusionInv, LoadLedger, [Next]_vars
             PROVE  LoadLedger'
  OBVIOUS
<1>1. ~OpenServer => \A s \in Line : Failed(s) => Failed(s)'
  BY FailedStays DEF ProxyInv
<1>2. CASE \E c \in Slot : Handler(c)
  <2>1. PICK c \in Slot : Handler(c)
    BY <1>2
  <2>2. UNCHANGED <<mpc, nb_clients>> /\ ~OpenServer
    BY <2>1, HandlerMain DEF mainVars, OpenServer
  <2>3. CASE ReleaseLoad(c)
    BY <2>3, ReleaseLoadLedger
  <2>4. CASE ~ReleaseLoad(c)
    BY <1>1, <2>1, <2>2, <2>4, HandlerBooks, BooksKept
  <2> QED
    BY <2>3, <2>4
<1>3. CASE Accept
  BY <1>3, AcceptLedger
<1>4. CASE Assign
  BY <1>4, AssignLedger
<1>5. CASE AddLoad
  BY <1>5, AddLoadLedger
<1>6. CASE OpenServer
  BY <1>6, OpenServerLedger
<1>7. CASE Spawn
  <2>1. ~OpenServer /\ mpc = "spawn" /\ mpc' = "count"
    BY <1>7 DEF Spawn, OpenServer
  <2> QED
    BY <1>1, <1>7, <2>1, QuietSpawn, BooksKept DEF Quiet
<1>8. CASE \/ SkipServer \/ PublishServer \/ EndOfFile \/ Scan
           \/ LockLeast \/ LockAssigned \/ CountClient \/ JoinHandlers
           \/ SendEoj \/ JoinRelay \/ JoinUnstarted \/ Stop
  <2>1. Quiet
    BY <1>8, QuietMain
  <2>2. /\ mpc' \in {"assigned", "again"} <=> mpc \in {"assigned", "again"}
        /\ mpc \in {"assigned", "again"} => nb_clients' = nb_clients
    BY <1>8 DEF SkipServer, PublishServer, EndOfFile, Scan, LockLeast,
                LockAssigned, CountClient, JoinHandlers, SendEoj, JoinRelay,
                JoinUnstarted, Stop, mainVars, countVars
  <2>3. ~OpenServer
    BY <1>8 DEF SkipServer, PublishServer, EndOfFile, Scan, LockLeast,
                LockAssigned, CountClient, JoinHandlers, SendEoj, JoinRelay,
                JoinUnstarted, Stop, OpenServer, mainVars
  <2> QED
    BY <1>1, <2>1, <2>2, <2>3, BooksKept DEF Quiet
<1>9. CASE \/ \E s \in Line : Relay(s) \/ Serve(s) \/ ServerDies(s)
           \/ \E c \in Slot : Peer(c)
           \/ UNCHANGED vars
  <2>1. UNCHANGED <<mainVars, nb_clients, client, handler, load>>
    BY <1>9, OutsideMain
  <2>2. ~OpenServer
    BY <2>1 DEF OpenServer, mainVars
  <2> QED
    BY <1>1, <2>1, <2>2, BooksKept DEF mainVars
<1> QED
  BY <1>2, <1>3, <1>4, <1>5, <1>6, <1>7, <1>8, <1>9 DEF Next, Proceed

\* The books of a server's load balance in every state until its relay fails (it
\* then frees a mutex others may hold): a load is twice the clients ever assigned,
\* minus those that have left, minus main's increment under way.
THEOREM LedgerBalances == Spec => []LoadLedger
BY LedgerInit, LedgerNext, Invariance, LoadsExclusive, PTL DEF Spec

\* Until its relay fails, a server in use never looks idler than it is, with any
\* number of clients leaving while main assigns others.
THEOREM LoadsCover == Spec => []LoadCoversConnected
<1>1. ProxyInv /\ LoadLedger => LoadCoversConnected
  <2> SUFFICES ASSUME ProxyInv, LoadLedger, NEW s \in Line, ~Failed(s)
               PROVE  Cardinality(Serving(s)) <= load[s]
    BY DEF LoadCoversConnected
  <2>1. CASE Pending(s) = 0
    BY <2>1, SlotCounts DEF LoadLedger
  <2>2. CASE Pending(s) # 0
    <3>1. Pending(s) = 1 /\ nb_clients \in Assigned(s)
      BY <2>2, PlacedSlot DEF Pending, Assigned
    <3>2. Cardinality(Assigned(s)) > 0
      BY <3>1, SlotCounts, FS_EmptySet
    <3> QED
      BY <3>1, <3>2, SlotCounts DEF LoadLedger
  <2> QED
    BY <2>1, <2>2
<1> QED
  BY <1>1, Invariance, LedgerBalances, PTL
-----------------------------------------------------------------------------
(* Balance. *)

\* Steps that change no load, of the servers or in what main knows of them.
LEMMA BalanceKept ==
  ASSUME BalanceInv, load' = load, nb_servers' = nb_servers,
         \A c \in Slot : handler[c].pc = "closed" => handler'[c].pc = "closed",
         \/ mpc' \notin {"scan", "add", "assigned", "again"}
         \/ /\ UNCHANGED <<mainVars, nb_clients>>
            /\ mpc \in {"assigned", "again"} =>
                 client'[nb_clients].server = client[nb_clients].server
  PROVE  BalanceInv'
BY DEF BalanceInv, Server, mainVars

\* Before the first client every load is 0.
LEMMA BalancePublish ==
  ASSUME ProxyInv, PublishServer
  PROVE  BalanceInv'
<1>1. nb_clients = 0 /\ load' = load /\ mpc' = "open"
  BY DEF PublishServer, ProxyInv, MainInv, loadVars
<1>2. \A s \in Line : load[s] = 0
  <2> SUFFICES ASSUME NEW s \in Line PROVE load[s] = 0
    OBVIOUS
  <2>1. load[s] <= 2 * nb_clients /\ load[s] \in Nat
    BY DEF PublishServer, ProxyInv, LoadBound, Most, TypeOK
  <2> QED
    BY <1>1, <2>1
<1>3. Server' \subseteq Line
  BY ConstantsOK DEF PublishServer, ProxyInv, TypeOK, MainInv, Server, Line
<1>4. \A s, t \in Server' : load'[s] <= load'[t] + 2
  BY <1>1, <1>2, <1>3
<1> QED
  BY <1>1, <1>4 DEF BalanceInv

LEMMA BalanceScan ==
  ASSUME ProxyInv, BalanceInv, Scan
  PROVE  BalanceInv'
<1>1. /\ mpc = "scan" /\ mpc' = "scan" /\ mi \in Server /\ mi' = mi + 1
      /\ load' = load /\ Server' = Server /\ handler' = handler
  BY DEF Scan, ProxyInv, TypeOK, Server, countVars, loadVars
<1>2. \A t \in Server : load[t] \in Nat /\ load[t] < MaxLoad
  <2> SUFFICES ASSUME NEW t \in Server
               PROVE  load[t] \in Nat /\ load[t] < MaxLoad
    OBVIOUS
  <2>1. t \in Line
    BY ServersAreLines
  <2>2. load[t] <= 2 * nb_clients /\ load[t] \in Nat
    BY <1>1, <2>1 DEF ProxyInv, LoadBound, Most, TypeOK
  <2> QED
    BY <2>2, ConstantsOK DEF ProxyInv, TypeOK
<1> SUFFICES ASSUME \A c \in Slot : handler[c].pc # "closed"
             PROVE  /\ best'.min = load[best'.server]
                    /\ \A t \in Server : t < mi + 1 => best'.min <= load[t]
  BY <1>1 DEF BalanceInv, Server
<1>3. mi > 0 => /\ best.min = load[best.server]
                /\ \A t \in Server : t < mi => best.min <= load[t]
  BY <1>1 DEF BalanceInv
<1>4. mi = 0 => best.min = MaxLoad
  BY <1>1 DEF ProxyInv, ScanInv
<1>5. \A t \in Server : t < mi + 1 => t < mi \/ t = mi
  BY <1>1 DEF Server
<1>6. best.min \in Nat /\ mi \in Nat
  BY <1>1, ConstantsOK DEF ProxyInv, TypeOK
<1>7. CASE load[mi] < best.min
  <2>1. best' = [server |-> mi, min |-> load[mi]]
    BY <1>7 DEF Scan, Better
  <2>2. \A t \in Server : t < mi => load[mi] <= load[t]
    <3> SUFFICES ASSUME NEW t \in Server, t < mi PROVE load[mi] <= load[t]
      OBVIOUS
    <3>1. mi > 0
      BY <1>6 DEF Server
    <3>2. best.min <= load[t]
      BY <1>3, <3>1
    <3>3. load[mi] \in Nat /\ load[t] \in Nat
      BY <1>1, <1>2
    <3> QED
      BY <1>6, <1>7, <3>2, <3>3
  <2> QED
    BY <1>1, <1>2, <1>5, <2>1, <2>2
<1>8. CASE ~(load[mi] < best.min)
  <2>1. best' = best
    BY <1>8 DEF Scan, Better
  <2>2. mi > 0
    BY <1>1, <1>2, <1>4, <1>6, <1>8
  <2>3. best.min <= load[mi]
    BY <1>1, <1>2, <1>6, <1>8
  <2> QED
    BY <1>3, <1>5, <2>1, <2>2, <2>3
<1> QED
  BY <1>7, <1>8

LEMMA BalanceLockLeast ==
  ASSUME ProxyInv, BalanceInv, LockLeast
  PROVE  BalanceInv'
<1>1. /\ mpc = "scan" /\ mpc' = "add" /\ mi = nb_servers
      /\ reg' = load[best.server] /\ best' = best
      /\ load' = load /\ Server' = Server /\ handler' = handler
      /\ nb_servers > 0 /\ nb_servers \in Nat
  BY DEF LockLeast, LockLoad, Server, countVars, ProxyInv, MainInv, TypeOK
<1> SUFFICES ASSUME \A c \in Slot : handler[c].pc # "closed"
             PROVE  \A t \in Server : load[best.server] <= load[t]
  BY <1>1 DEF BalanceInv
<1> QED
  BY <1>1 DEF BalanceInv, Server

LEMMA BalanceLockAssigned ==
  ASSUME ProxyInv, BalanceInv, LockAssigned
  PROVE  BalanceInv'
<1>1. /\ mpc = "assigned" /\ mpc' = "again"
      /\ reg' = load[client[nb_clients].server]
      /\ load' = load /\ Server' = Server
      /\ UNCHANGED <<handler, client, nb_clients>>
  BY DEF LockAssigned, LockLoad, Server, countVars
<1> QED
  BY <1>1 DEF BalanceInv

LEMMA BalanceAssign ==
  ASSUME ProxyInv, BalanceInv, Assign
  PROVE  BalanceInv'
<1> PICK b \in Server : b = best.server
  BY DEF Assign, ProxyInv, ScanInv
<1>1. /\ mpc = "add" /\ mpc' = "assigned"
      /\ Server' = Server /\ handler' = handler
      /\ nb_clients' = nb_clients /\ nb_clients \in Slot
  BY PlacedSlot DEF Assign, Server, countVars
<1>2. /\ load' = [load EXCEPT ![b] = reg + 1]
      /\ \A t \in Server : t \in Line /\ load[t] \in Nat
  BY ServersAreLines DEF Assign, StoreLoad, ProxyInv, TypeOK
<1>3. client'[nb_clients].server = b
  BY <1>1 DEF Assign, ProxyInv, TypeOK, ClientSlot
<1> SUFFICES ASSUME \A c \in Slot : handler[c].pc # "closed"
             PROVE  /\ \A s, t \in Server : load'[s] <= load'[t] + 2
                    /\ \A t \in Server : load'[b] <= load'[t] + 1
  BY <1>1, <1>3 DEF BalanceInv
<1>4. /\ \A s, t \in Server : load[s] <= load[t] + 2
      /\ reg = load[b]
      /\ \A t \in Server : load[b] <= load[t]
  BY <1>1 DEF BalanceInv
<1>5. \A t \in Server : load'[t] = IF t = b THEN load[b] + 1 ELSE load[t]
  BY <1>2, <1>4 DEF ProxyInv, TypeOK
<1> QED
  BY <1>2, <1>4, <1>5

LEMMA BalanceAddLoad ==
  ASSUME ProxyInv, BalanceInv, AddLoad
  PROVE  BalanceInv'
<1>1. /\ mpc = "again" /\ mpc' = "spawn" /\ Server' = Server
      /\ handler' = handler
  BY DEF AddLoad, Server, countVars
<1> PICK b \in Server : b = client[nb_clients].server
  BY <1>1, PlacedSlot
<1>2. /\ load' = [load EXCEPT ![b] = reg + 1]
      /\ \A t \in Server : t \in Line /\ load[t] \in Nat
  BY ServersAreLines DEF AddLoad, StoreLoad, ProxyInv, TypeOK
<1> SUFFICES ASSUME \A c \in Slot : handler[c].pc # "closed"
             PROVE  \A s, t \in Server : load'[s] <= load'[t] + 2
  BY <1>1 DEF BalanceInv
<1>3. /\ \A s, t \in Server : load[s] <= load[t] + 2
      /\ \A t \in Server : load[b] <= load[t] + 1
      /\ reg = load[b]
  BY <1>1 DEF BalanceInv
<1>4. \A t \in Server : load'[t] = IF t = b THEN load[b] + 1 ELSE load[t]
  BY <1>2, <1>3 DEF ProxyInv, TypeOK
<1> QED
  BY <1>2, <1>3, <1>4

LEMMA BalanceHandler ==
  ASSUME ProxyInv, BalanceInv, NEW c \in Slot, Handler(c)
  PROVE  BalanceInv'
<1>1. UNCHANGED <<mainVars, nb_clients, nb_servers>>
  BY HandlerMain
<1>2. mpc \in {"assigned", "again"} => nb_clients \in Slot
  BY PlacedSlot
<1>3. CASE ReleaseLoad(c)
  <2> DEFINE h == [handler[c] EXCEPT !.pc = "closed", !.cnt = 0]
  <2>1. handler' = [handler EXCEPT ![c] = h] /\ h.pc = "closed"
    BY <1>3 DEF ReleaseLoad, ProxyInv, TypeOK, HandlerThread
  <2> HIDE DEF h
  <2>2. handler'[c].pc = "closed"
    BY <2>1 DEF ProxyInv, TypeOK
  <2> QED
    BY <2>2 DEF BalanceInv
<1>4. CASE ~ReleaseLoad(c)
  BY <1>1, <1>2, <1>4, HandlerBooks, BalanceKept
<1> QED
  BY <1>3, <1>4

LEMMA BalanceInit == Init => BalanceInv
BY ConstantsOK DEF Init, BalanceInv, Server, Line

LEMMA BalanceNext == ProxyInv /\ BalanceInv /\ [Next]_vars => BalanceInv'
<1> SUFFICES ASSUME ProxyInv, BalanceInv, [Next]_vars PROVE BalanceInv'
  OBVIOUS
<1>1. CASE \E c \in Slot : Handler(c)
  BY <1>1, BalanceHandler
<1>2. CASE PublishServer
  BY <1>2, BalancePublish
<1>3. CASE Scan
  BY <1>3, BalanceScan
<1>4. CASE LockLeast \/ LockAssigned
  BY <1>4, BalanceLockLeast, BalanceLockAssigned
<1>5. CASE Assign \/ AddLoad
  BY <1>5, BalanceAssign, BalanceAddLoad
<1>6. CASE Accept
  <2>1. /\ load' = load /\ nb_servers' = nb_servers /\ handler' = handler
        /\ Server' = Server /\ mpc' = "scan" /\ mi' = 0
    BY <1>6 DEF Accept, Server, countVars, loadVars
  <2> QED
    BY <2>1 DEF BalanceInv
<1>7. CASE Spawn
  <2>1. Quiet
    BY <1>7, QuietSpawn
  <2> QED
    BY <1>7, <2>1, BalanceKept DEF Quiet, Spawn, countVars
<1>8. CASE \/ OpenServer \/ SkipServer \/ EndOfFile \/ CountClient
           \/ JoinHandlers \/ SendEoj \/ JoinRelay \/ JoinUnstarted \/ Stop
  <2>1. /\ load' = load /\ nb_servers' = nb_servers /\ handler' = handler
        /\ mpc' \notin {"scan", "add", "assigned", "again"}
    BY <1>8
    DEF OpenServer, SkipServer, EndOfFile, CountClient, JoinHandlers, SendEoj,
        JoinRelay, JoinUnstarted, Stop, mainVars, countVars, loadVars
  <2> QED
    BY <2>1, BalanceKept
<1>9. CASE \/ \E s \in Line : Relay(s) \/ Serve(s) \/ ServerDies(s)
           \/ \E c \in Slot : Peer(c)
           \/ UNCHANGED vars
  BY <1>9, OutsideMain, BalanceKept
<1> QED
  BY <1>1, <1>2, <1>3, <1>4, <1>5, <1>6, <1>7, <1>8, <1>9 DEF Next, Proceed

\* Until a client leaves, no server is given two clients more than another.
THEOREM LoadsBalanced == Spec => []Balanced
<1>1. BalanceInv => Balanced
  BY DEF BalanceInv, Balanced, Server
<1> QED
  BY <1>1, BalanceInit, BalanceNext, InitInv, NextInv, Invariance, PTL DEF Spec
=============================================================================
