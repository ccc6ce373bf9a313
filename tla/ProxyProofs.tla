---------------------------- MODULE ProxyProofs ----------------------------
(***************************************************************************)
(* Proofs about the proxy, for every size of the table, every number of    *)
(* servers, every set of addresses and names and every bound.  ProxyInv is *)
(* shown inductive: the lemmas of the first part give the types of the     *)
(* records and of the sends, those of the second part say that the steps   *)
(* of the handlers, relays, clients and servers leave what main relies on  *)
(* alone, and the third part goes through the actions.                     *)
(***************************************************************************)
EXTENDS ProxyInvariant, FiniteSetTheorems, TLAPS

LEMMA PacketTypes ==
  /\ Zero \in Packet
  /\ \A t \in Data_type : Typed(t) \in Packet
  /\ \A n \in Names \cup {NoName} : Pseudo(n) \in Packet
  /\ \A a \in Addr \cup {NoAddr} : Found(a) \in Packet
  /\ \A p \in Packet : Bounced(p) \in Packet
  /\ \A p \in Packet, a \in Addr \cup {NoAddr} :
       /\ [p EXCEPT !.origin = a] \in Packet
       /\ [p EXCEPT !.dest = a] \in Packet
BY DEF Zero, Typed, Pseudo, Found, Bounced, Packet, Data_type

LEMMA HandlerUpdates ==
  ASSUME NEW h \in HandlerThread, NEW p \in HandlerPc, NEW n \in Int,
         NEW k \in Nat, NEW d \in Packet
  PROVE  /\ [h EXCEPT !.pc = p] \in HandlerThread
         /\ [h EXCEPT !.i = k] \in HandlerThread
         /\ [h EXCEPT !.pc = p, !.cnt = n] \in HandlerThread
         /\ [h EXCEPT !.pc = p, !.data = d] \in HandlerThread
         /\ [h EXCEPT !.pc = p, !.i = k, !.data = d] \in HandlerThread
BY DEF HandlerThread

LEMMA IdleType == Idle \in HandlerThread /\ Idle.pc = "loop"
BY PacketTypes DEF Idle, HandlerThread, HandlerPc

LEMMA RelayUpdates ==
  ASSUME NEW r \in RelayThread, NEW p \in RelayPc, NEW k \in Nat,
         NEW f \in Fd \cup {NoFd}, NEW d \in Packet
  PROVE  /\ [r EXCEPT !.pc = p] \in RelayThread
         /\ [r EXCEPT !.i = k] \in RelayThread
         /\ [r EXCEPT !.pc = p, !.fd = f] \in RelayThread
         /\ [r EXCEPT !.pc = p, !.i = k, !.data = d] \in RelayThread
         /\ [pc |-> p, i |-> k, fd |-> f, data |-> d] \in RelayThread
BY DEF RelayThread

LEMMA ClientUpdates ==
  ASSUME NEW x \in ClientSlot
  PROVE  /\ [x EXCEPT !.sock_fd = NoFd] \in ClientSlot
         /\ \A s \in Line \cup {NoLine} : [x EXCEPT !.server = s] \in ClientSlot
         /\ \A n \in Names \cup {NoName} : [x EXCEPT !.name = n] \in ClientSlot
BY DEF ClientSlot

LEMMA EmptySlotType ==
  /\ EmptySlot \in ClientSlot
  /\ \A fd \in Fd, a \in Addr :
       [EmptySlot EXCEPT !.sock_fd = fd, !.addr = a] \in ClientSlot
BY DEF EmptySlot, ClientSlot

LEMMA PeerUpdates ==
  ASSUME NEW e \in PeerState, NEW p \in PeerPc
  PROVE  /\ [e EXCEPT !.pc = p] \in PeerState
         /\ \A a \in Addr : [e EXCEPT !.pc = p, !.dest = a] \in PeerState
         /\ \A k \in Nat :
              /\ [e EXCEPT !.pc = p, !.gets = k] \in PeerState
              /\ [e EXCEPT !.pc = p, !.seen = k] \in PeerState
              /\ [e EXCEPT !.sent = k] \in PeerState
         /\ [NoPeer EXCEPT !.pc = p] \in PeerState
BY DEF PeerState, NoPeer

LEMMA LinkTypes ==
  /\ \A l \in LinkState : AfterSend(l) \subseteq LinkState
  /\ \A b \in BOOLEAN : AfterClose(b) \in LinkState
BY DEF AfterSend, AfterClose, LinkState

\* A queue stays a queue of packets.
LEMMA QueueTypes ==
  ASSUME NEW q \in Seq(Packet)
  PROVE  /\ \A p \in Packet : Append(q, p) \in Seq(Packet)
         /\ \A r \in Seq(Packet) : q \o r \in Seq(Packet)
         /\ q # <<>> => Head(q) \in Packet /\ Tail(q) \in Seq(Packet)
OBVIOUS

LEMMA DeliveredType ==
  ASSUME NEW q \in Seq(Packet), NEW l, NEW r \in Delivered(q, l)
  PROVE  r \in Seq(Packet)
<1>1. \A k \in 0..Len(q) : SubSeq(q, 1, k) \in Seq(Packet)
  OBVIOUS
<1> QED
  BY <1>1 DEF Delivered

LEMMA SendType ==
  ASSUME TypeOK, NEW c \in Slot, NEW p \in Packet, Send(c, p)
  PROVE  /\ status' \in Status
         /\ link' \in [Slot -> LinkState]
         /\ inbox' \in [Slot -> Seq(Packet)]
<1>1. CASE link[c] = "dead"
  BY <1>1 DEF Send, TypeOK, Status
<1>2. CASE link[c] # "dead"
  <2>1. link[c] \in LinkState /\ inbox[c] \in Seq(Packet)
    BY DEF TypeOK
  <2>2. Append(inbox[c], p) \in Seq(Packet)
    BY <2>1, QueueTypes
  <2>3. PICK l \in AfterSend(link[c]) : link' = [link EXCEPT ![c] = l]
    BY <1>2 DEF Send
  <2>4. l \in LinkState
    BY <2>1, LinkTypes
  <2> QED
    BY <1>2, <2>2, <2>3, <2>4 DEF Send, TypeOK
<1> QED
  BY <1>1, <1>2

LEMMA SendServerType ==
  ASSUME TypeOK, NEW s \in Line, NEW p \in Packet, SendServer(s, p)
  PROVE  /\ status' \in Status
         /\ slink' \in [Line -> LinkState]
         /\ toServer' \in [Line -> Seq(Packet)]
<1>1. CASE slink[s] = "dead"
  BY <1>1 DEF SendServer, TypeOK, Status
<1>2. CASE slink[s] # "dead"
  <2>1. slink[s] \in LinkState /\ toServer[s] \in Seq(Packet)
    BY DEF TypeOK
  <2>2. Append(toServer[s], p) \in Seq(Packet)
    BY <2>1, QueueTypes
  <2>3. PICK l \in AfterSend(slink[s]) : slink' = [slink EXCEPT ![s] = l]
    BY <1>2 DEF SendServer
  <2>4. l \in LinkState
    BY <2>1, LinkTypes
  <2> QED
    BY <1>2, <2>2, <2>3, <2>4 DEF SendServer, TypeOK
<1> QED
  BY <1>1, <1>2
-----------------------------------------------------------------------------
LEMMA InitInv == Init => ProxyInv
BY ConstantsOK, PacketTypes
DEF Init, ProxyInv, TypeOK, MainInv, SlotInv, LoadBound, ScanInv, LookupInv,
    Has, Filling, Placed, Most, EmptySlot, NoPeer, Server, Slot, Line, Fd, NoFd, NoLine, NoSlot,
    Status, MainPc, ClientSlot, HandlerThread, RelayThread, PeerState,
    HandlerPc, RelayPc, PeerPc, LinkState, Ended
-----------------------------------------------------------------------------
\* What the steps of everything but main leave alone of what main relies on.
Frame ==
  /\ UNCHANGED <<mainVars, nb_clients, nb_servers>>
  /\ \A c \in Slot :
       /\ client'[c].addr = client[c].addr
       /\ client'[c].server = client[c].server
       /\ client'[c].sock_fd \in {client[c].sock_fd, NoFd}
       /\ handler'[c].pc # "none" <=> handler[c].pc # "none"
       /\ handler'[c].pc = "give" => handler'[c].cnt \in 0..Most
  /\ \A s \in Line : load'[s] <= Most

LEMMA SmallNumbers ==
  ASSUME TypeOK
  PROVE  /\ NLINES \in Nat /\ nb_servers \in Nat /\ nb_servers <= NLINES
         /\ BUFLEN \in Nat /\ nb_clients \in Nat /\ nb_clients <= BUFLEN
         /\ Most \in Nat /\ mi \in Nat
BY ConstantsOK DEF TypeOK, Most

LEMMA ServersAreLines == ProxyInv => Server \subseteq Line
BY ConstantsOK DEF ProxyInv, TypeOK, Server, Line

LEMMA FrameInv ==
  ASSUME TypeOK, TypeOK', MainInv, SlotInv, LoadBound, ScanInv, Frame
  PROVE  MainInv' /\ SlotInv' /\ LoadBound' /\ ScanInv'
<1>1. MainInv'
  BY DEF MainInv, Frame, mainVars
<1>2. SlotInv'
  BY DEF SlotInv, Frame, mainVars, Has, Server
<1>3. LoadBound'
  BY DEF LoadBound, Most, Frame, mainVars
<1>4. ScanInv'
  BY DEF ScanInv, Frame, mainVars, Server
<1> QED
  BY <1>1, <1>2, <1>3, <1>4

\* What keeps LookupInv: no entry becomes unpublished, and a lookup that stops
\* does so at an entry that is published.
LookupFrame ==
  /\ nb_clients <= nb_clients'
  /\ \A c \in Slot :
       handler'[c].pc = "found" =>
         handler'[c] = handler[c] \/ handler'[c].i < nb_clients
  /\ \A s \in Line :
       relay'[s].pc \in {"check", "send", "write"} =>
         \/ relay'[s].i < nb_clients
         \/ relay'[s].i = relay[s].i /\ relay[s].pc \in {"check", "send", "write"}

LEMMA LookupFrameInv ==
  ASSUME TypeOK, TypeOK', LookupInv, LookupFrame
  PROVE  LookupInv'
<1>1. \A c \in Slot : handler'[c].i \in Nat /\ handler[c].i \in Nat
  BY DEF TypeOK, HandlerThread
<1>2. \A s \in Line : relay'[s].i \in Nat /\ relay[s].i \in Nat
  BY DEF TypeOK, RelayThread
<1>3. nb_clients \in Nat /\ nb_clients' \in Nat
  BY ConstantsOK DEF TypeOK
<1> QED
  BY <1>1, <1>2, <1>3 DEF LookupInv, LookupFrame

LEMMA ProxyFrame ==
  ASSUME ProxyInv, TypeOK', Frame, LookupFrame
  PROVE  ProxyInv'
BY FrameInv, LookupFrameInv DEF ProxyInv
-----------------------------------------------------------------------------
(* The handlers. *)

\* A step of handler c that changes its pc and nothing main looks at.
LEMMA HandlerFrame ==
  ASSUME ProxyInv, TypeOK', NEW c \in Slot, NEW h,
         handler' = [handler EXCEPT ![c] = h],
         handler[c].pc # "none", h.pc # "none",
         h.pc = "found" => h.i < nb_clients, h.pc # "give",
         UNCHANGED <<mainVars, nb_clients, nb_servers, client, load, relay>>
  PROVE  ProxyInv'
<1>1. Frame
  BY DEF ProxyInv, TypeOK, LoadBound, Frame, mainVars
<1>2. LookupFrame
  BY ConstantsOK DEF ProxyInv, TypeOK, LookupFrame, LookupInv
<1> QED
  BY <1>1, <1>2, ProxyFrame

LEMMA StepInv ==
  ASSUME ProxyInv, NEW c \in Slot, NEW from, NEW to \in HandlerPc,
         Step(c, from, to), from # "none", to \notin {"none", "found", "give"},
         UNCHANGED <<status, mainVars, countVars, client, loadVars, relay, fds,
                     netVars, srvVars, peer>>
  PROVE  ProxyInv'
<1> DEFINE h == [handler[c] EXCEPT !.pc = to]
<1>1. handler[c] \in HandlerThread
  BY DEF ProxyInv, TypeOK
<1>2. h \in HandlerThread /\ h.pc = to
  BY <1>1, HandlerUpdates DEF HandlerThread
<1>3. handler' = [handler EXCEPT ![c] = h] /\ handler[c].pc = from
  BY DEF Step
<1> HIDE DEF h
<1>4. TypeOK'
  BY <1>2, <1>3 DEF ProxyInv, TypeOK, mainVars, countVars, netVars, srvVars,
                    loadVars
<1> QED
  BY <1>2, <1>3, <1>4, HandlerFrame DEF countVars, loadVars

LEMMA ReadCountInv ==
  ASSUME ProxyInv, NEW c \in Slot, Enter(c) \/ Uncount(c)
  PROVE  ProxyInv'
<1>1. PICK from \in {"start", "uncount"}, to \in {"increment", "decrement"} :
        ReadCount(c, from, to)
  BY DEF Enter, Uncount
<1> DEFINE h == [handler[c] EXCEPT !.pc = to, !.cnt = nb_clients_connected]
<1>2. handler[c] \in HandlerThread /\ nb_clients_connected \in Int
  BY DEF ProxyInv, TypeOK
<1>3. h \in HandlerThread /\ h.pc = to
  BY <1>2, HandlerUpdates DEF HandlerThread, HandlerPc
<1>4. handler' = [handler EXCEPT ![c] = h] /\ handler[c].pc = from
  BY <1>1 DEF ReadCount
<1> HIDE DEF h
<1>5. TypeOK'
  BY <1>1, <1>3, <1>4
  DEF ReadCount, ProxyInv, TypeOK, mainVars, countVars, netVars, srvVars,
      loadVars
<1> QED
  BY <1>1, <1>3, <1>4, <1>5, HandlerFrame DEF ReadCount, countVars, loadVars

LEMMA WriteCountInv ==
  ASSUME ProxyInv, NEW c \in Slot, Increment(c) \/ Decrement(c)
  PROVE  ProxyInv'
<1>1. PICK from \in {"increment", "decrement"}, to \in {"loop", "shut"},
           d \in {1, -1} : WriteCount(c, from, to, d)
  BY DEF Increment, Decrement
<1> DEFINE h == [handler[c] EXCEPT !.pc = to, !.cnt = 0]
<1>2. handler[c] \in HandlerThread /\ handler[c].cnt \in Int
  BY DEF ProxyInv, TypeOK, HandlerThread
<1>3. h \in HandlerThread /\ h.pc = to
  <2>1. to \in HandlerPc /\ 0 \in Int
    BY DEF HandlerPc
  <2> QED
    BY <1>2, <2>1, HandlerUpdates DEF HandlerThread
<1>4. handler' = [handler EXCEPT ![c] = h] /\ handler[c].pc = from
  BY <1>1 DEF WriteCount
<1> HIDE DEF h
<1>5. nb_clients_connected' \in Int
  BY <1>1, <1>2 DEF WriteCount
<1>6. TypeOK'
  BY <1>1, <1>3, <1>4, <1>5
  DEF WriteCount, ProxyInv, TypeOK, mainVars, netVars, srvVars, loadVars
<1> QED
  BY <1>1, <1>3, <1>4, <1>6, HandlerFrame DEF WriteCount, loadVars

LEMMA LoopTestInv ==
  ASSUME ProxyInv, NEW c \in Slot, LoopTest(c)
  PROVE  ProxyInv'
<1>1. PICK to \in {"lock", "left"} : Step(c, "loop", to)
  BY DEF LoopTest
<1> QED
  BY <1>1, StepInv DEF LoopTest, HandlerPc, Ended

LEMMA LockToReceiveInv ==
  ASSUME ProxyInv, NEW c \in Slot, LockToReceive(c)
  PROVE  ProxyInv'
<1>1. PICK from \in {"lock", "con", "get"}, to \in {"recv", "name", "query"} :
        Step(c, from, to)
  BY DEF LockToReceive
<1> QED
  BY <1>1, StepInv DEF LockToReceive, HandlerPc

LEMMA ReceiveEndInv ==
  ASSUME ProxyInv, NEW c \in Slot, ReceiveEnd(c)
  PROVE  ProxyInv'
BY StepInv DEF ReceiveEnd, HandlerPc

LEMMA ReceiveInv ==
  ASSUME ProxyInv, NEW c \in Slot, Receive(c)
  PROVE  ProxyInv'
<1> DEFINE p == Head(up[c])
           h == IF Branch(p.type) = "loop" THEN Idle
                ELSE [handler[c] EXCEPT !.pc = Branch(p.type),
                                        !.data = [p EXCEPT !.origin = client[c].addr]]
<1>1. handler[c] \in HandlerThread /\ up[c] \in Seq(Packet)
  BY DEF ProxyInv, TypeOK
<1>2. p \in Packet /\ Tail(up[c]) \in Seq(Packet)
  BY <1>1, QueueTypes DEF Receive
<1>3. [p EXCEPT !.origin = client[c].addr] \in Packet
  BY <1>2, PacketTypes DEF ProxyInv, TypeOK, ClientSlot
<1>4. Branch(p.type) \in {"close", "con", "get", "forward", "loop"}
  BY DEF Branch
<1>5. h \in HandlerThread /\ h.pc \notin {"none", "found", "give"}
  BY <1>1, <1>3, <1>4, HandlerUpdates, IdleType DEF HandlerThread, HandlerPc, Idle
<1>6. handler' = [handler EXCEPT ![c] = h] /\ handler[c].pc = "recv"
  BY DEF Receive
<1>7. up' = [up EXCEPT ![c] = Tail(up[c])]
  BY DEF Receive
<1> HIDE DEF h, p
<1>8. TypeOK'
  BY <1>2, <1>5, <1>6, <1>7
  DEF Receive, ProxyInv, TypeOK, mainVars, countVars, srvVars, loadVars
<1> QED
  BY <1>5, <1>6, <1>8, HandlerFrame DEF Receive, countVars, loadVars

LEMMA ReceiveErrorInv ==
  ASSUME ProxyInv, NEW c \in Slot, ReceiveError(c)
  PROVE  ProxyInv'
<1> DEFINE h == [handler[c] EXCEPT !.pc = "broken"]
<1>1. handler[c] \in HandlerThread
  BY DEF ProxyInv, TypeOK
<1>2. h \in HandlerThread /\ h.pc = "broken"
  BY <1>1, HandlerUpdates DEF HandlerThread, HandlerPc, Ended
<1>3. handler' = [handler EXCEPT ![c] = h] /\ handler[c].pc = "recv"
  BY DEF ReceiveError, Step
<1> HIDE DEF h
<1>4. TypeOK'
  BY <1>2, <1>3
  DEF ReceiveError, ProxyInv, TypeOK, mainVars, countVars, srvVars, LinkState,
      loadVars
<1> QED
  BY <1>2, <1>3, <1>4, HandlerFrame DEF ReceiveError, countVars, loadVars

LEMMA ReceiveNameInv ==
  ASSUME ProxyInv, NEW c \in Slot, ReceiveName(c)
  PROVE  ProxyInv'
<1>1. /\ handler[c] \in HandlerThread /\ up[c] \in Seq(Packet)
      /\ client[c] \in ClientSlot /\ link[c] \in LinkState
  BY DEF ProxyInv, TypeOK
<1>2. /\ up' \in [Slot -> Seq(Packet)]
      /\ link' \in [Slot -> LinkState]
  <2>1. \/ up' = [up EXCEPT ![c] = Tail(@)] /\ up[c] # <<>>
        \/ up' = up
    BY DEF ReceiveName
  <2>2. up' \in [Slot -> Seq(Packet)]
    BY <1>1, <2>1, QueueTypes DEF ProxyInv, TypeOK
  <2>3. link' = [link EXCEPT ![c] = IF @ = "rst" THEN "dead" ELSE @] \/ link' = link
    BY DEF ReceiveName
  <2> QED
    BY <1>1, <2>2, <2>3 DEF ProxyInv, TypeOK, LinkState
<1> DEFINE name == IF up[c] = <<>> THEN NoName ELSE Head(up[c]).name
<1>3. name \in Names \cup {NoName}
  BY <1>1, QueueTypes DEF Packet
<1>4. CASE handler[c].pc = "name"
  <2>1. handler' = [handler EXCEPT ![c] = Idle]
    BY <1>4 DEF ReceiveName, Resume
  <2>2. client' = client \/ client' = [client EXCEPT ![c].name = name]
    BY <1>4 DEF ReceiveName
  <2>3. client' \in [Slot -> ClientSlot]
    <3>1. [client[c] EXCEPT !.name = name] \in ClientSlot
      BY <1>1, <1>3, ClientUpdates
    <3> QED
      BY <2>2, <3>1 DEF ProxyInv, TypeOK
  <2>4. TypeOK'
    BY <1>2, <2>1, <2>3, IdleType
    DEF ReceiveName, ProxyInv, TypeOK, mainVars, countVars, srvVars, loadVars
  <2>5. Frame
    <3>1. UNCHANGED <<mainVars, countVars, load>>
      BY DEF ReceiveName, loadVars
    <3>2. \A d \in Slot : /\ client'[d].addr = client[d].addr
                          /\ client'[d].server = client[d].server
                          /\ client'[d].sock_fd = client[d].sock_fd
      <4> DEFINE x == [client[c] EXCEPT !.name = name]
      <4>1. /\ x.addr = client[c].addr /\ x.server = client[c].server
            /\ x.sock_fd = client[c].sock_fd
        BY <1>1 DEF ClientSlot
      <4>2. client' = client \/ client' = [client EXCEPT ![c] = x]
        BY <2>2
      <4> HIDE DEF x
      <4>3. client \in [Slot -> ClientSlot]
        BY DEF ProxyInv, TypeOK
      <4> QED
        BY <4>1, <4>2, <4>3
    <3>3. \A d \in Slot : /\ handler'[d].pc # "none" <=> handler[d].pc # "none"
                          /\ handler'[d].pc = "give" => handler'[d] = handler[d]
      BY <1>4, <2>1, IdleType DEF ProxyInv, TypeOK
    <3> QED
      BY <3>1, <3>2, <3>3 DEF ProxyInv, LoadBound, Frame, countVars
  <2>6. LookupFrame
    BY <2>1 DEF ReceiveName, ProxyInv, TypeOK, LookupFrame, LookupInv,
                countVars, Idle, loadVars
  <2> QED
    BY <2>4, <2>5, <2>6, ProxyFrame
<1>5. CASE handler[c].pc = "query"
  <2> DEFINE h == [handler[c] EXCEPT !.pc = "search", !.i = 0,
                                     !.data = Pseudo(name)]
  <2>1. Pseudo(name) \in Packet
    BY <1>3, PacketTypes
  <2>2. "search" \in HandlerPc /\ 0 \in Nat
    BY DEF HandlerPc
  <2>3. h \in HandlerThread /\ h.pc = "search"
    BY <1>1, <2>1, <2>2, HandlerUpdates DEF HandlerThread
  <2>4. handler' = [handler EXCEPT ![c] = h] /\ client' = client
    BY <1>5 DEF ReceiveName, Resume
  <2> HIDE DEF h
  <2>5. TypeOK'
    BY <1>2, <2>3, <2>4
    DEF ReceiveName, ProxyInv, TypeOK, mainVars, countVars, srvVars, loadVars
  <2> QED
    BY <1>5, <2>3, <2>4, <2>5, HandlerFrame DEF ReceiveName, countVars, loadVars
<1> QED
  BY <1>4, <1>5 DEF ReceiveName

LEMMA SearchNameInv ==
  ASSUME ProxyInv, NEW c \in Slot, SearchName(c)
  PROVE  ProxyInv'
<1> DEFINE i == handler[c].i
           h == IF client[i].name = handler[c].data.name
                THEN [handler[c] EXCEPT !.pc = "found"]
                ELSE [handler[c] EXCEPT !.i = i + 1]
<1>1. handler[c] \in HandlerThread /\ i \in Nat /\ i < nb_clients
  BY DEF ProxyInv, TypeOK, HandlerThread, SearchName
<1>2. handler' = [handler EXCEPT ![c] = h] /\ handler[c].pc = "search"
  BY DEF SearchName
<1>3. "found" \in HandlerPc /\ i + 1 \in Nat
  BY <1>1 DEF HandlerPc
<1>4. h \in HandlerThread /\ h.pc \in {"search", "found"}
  BY <1>1, <1>2, <1>3, HandlerUpdates DEF HandlerThread
<1>5. h.pc = "found" => h.i < nb_clients
  BY <1>1, <1>2 DEF HandlerThread
<1> HIDE DEF h
<1>6. TypeOK'
  BY <1>2, <1>4
  DEF SearchName, ProxyInv, TypeOK, mainVars, countVars, netVars, srvVars,
      loadVars
<1> QED
  BY <1>2, <1>4, <1>5, <1>6, HandlerFrame DEF SearchName, countVars, loadVars

LEMMA AnswerInv ==
  ASSUME ProxyInv, NEW c \in Slot, Answer(c)
  PROVE  ProxyInv'
<1>1. handler[c] \in HandlerThread /\ TypeOK
  BY DEF ProxyInv, TypeOK
<1>2. PICK p \in Packet : Send(c, p)
  <2>1. CASE Send(c, Typed("INE"))
    BY <2>1, PacketTypes DEF Data_type
  <2>2. CASE handler[c].pc = "found" /\ Send(c, Found(client[handler[c].i].addr))
    <3>1. handler[c].i \in Nat /\ handler[c].i < nb_clients
      BY <1>1, <2>2 DEF ProxyInv, LookupInv, HandlerThread
    <3>2. handler[c].i \in Slot
      BY <1>1, <3>1, ConstantsOK DEF Slot, TypeOK
    <3> QED
      BY <2>2, <3>2, PacketTypes DEF ProxyInv, TypeOK, ClientSlot
  <2> QED
    BY <2>1, <2>2 DEF Answer, Resume
<1>3. /\ handler' = [handler EXCEPT ![c] = Idle]
      /\ handler[c].pc \in {"search", "found"}
  BY DEF Answer, Resume
<1>4. /\ status' \in Status /\ link' \in [Slot -> LinkState]
      /\ inbox' \in [Slot -> Seq(Packet)]
  BY <1>1, <1>2, SendType
<1>5. TypeOK'
  BY <1>3, <1>4, IdleType
  DEF Answer, ProxyInv, TypeOK, mainVars, countVars, srvVars, loadVars
<1> QED
  BY <1>3, <1>5, IdleType, HandlerFrame DEF Answer, countVars, loadVars

LEMMA ForwardInv ==
  ASSUME ProxyInv, NEW c \in Slot, Forward(c)
  PROVE  ProxyInv'
<1>1. handler[c] \in HandlerThread /\ handler[c].data \in Packet /\ TypeOK
  BY DEF ProxyInv, TypeOK, HandlerThread
<1>2. handler' = [handler EXCEPT ![c] = Idle] /\ handler[c].pc = "forward"
  BY DEF Forward, Resume
<1>3. client[c].server \in Line
  BY <1>2, ServersAreLines DEF ProxyInv, SlotInv, Has, Placed
<1>4. /\ status' \in Status /\ slink' \in [Line -> LinkState]
      /\ toServer' \in [Line -> Seq(Packet)]
  BY <1>1, <1>3, SendServerType DEF Forward
<1>5. TypeOK'
  BY <1>2, <1>4, IdleType
  DEF Forward, ProxyInv, TypeOK, mainVars, countVars, netVars, loadVars
<1> QED
  BY <1>2, <1>5, IdleType, HandlerFrame DEF Forward, countVars, loadVars

LEMMA MarkClosedInv ==
  ASSUME ProxyInv, NEW c \in Slot, MarkClosed(c)
  PROVE  ProxyInv'
<1>1. handler[c] \in HandlerThread /\ client[c] \in ClientSlot
  BY DEF ProxyInv, TypeOK
<1> DEFINE h == [handler[c] EXCEPT !.pc = "uncount"]
           x == [client[c] EXCEPT !.sock_fd = NoFd]
<1>2. /\ handler' = [handler EXCEPT ![c] = h] /\ handler[c].pc = "close"
      /\ client' = [client EXCEPT ![c] = x]
  BY DEF MarkClosed, Step
<1>3. h \in HandlerThread /\ h.pc = "uncount"
  BY <1>1, HandlerUpdates DEF HandlerThread, HandlerPc
<1>4. /\ x \in ClientSlot /\ x.sock_fd = NoFd
      /\ x.addr = client[c].addr /\ x.server = client[c].server
  BY <1>1, ClientUpdates DEF ClientSlot
<1> HIDE DEF h, x
<1>5. TypeOK'
  BY <1>2, <1>3, <1>4
  DEF MarkClosed, ProxyInv, TypeOK, mainVars, countVars, netVars, srvVars,
      loadVars
<1>6. Frame
  BY <1>2, <1>3, <1>4
  DEF MarkClosed, ProxyInv, TypeOK, LoadBound, Frame, mainVars, countVars, loadVars
<1>7. LookupFrame
  BY <1>2, <1>3
  DEF MarkClosed, ProxyInv, TypeOK, LookupFrame, LookupInv, countVars, loadVars
<1> QED
  BY <1>5, <1>6, <1>7, ProxyFrame

LEMMA CloseSocketInv ==
  ASSUME ProxyInv, NEW c \in Slot, CloseSocket(c)
  PROVE  ProxyInv'
<1>1. handler[c] \in HandlerThread
  BY DEF ProxyInv, TypeOK
<1> DEFINE h == [handler[c] EXCEPT !.pc = "release"]
<1>2. handler' = [handler EXCEPT ![c] = h] /\ handler[c].pc = "shut"
  BY DEF CloseSocket, Step
<1>3. h \in HandlerThread /\ h.pc = "release"
  BY <1>1, HandlerUpdates DEF HandlerThread, HandlerPc
<1> HIDE DEF h
<1>4. fds' \in [Fd -> Slot \cup {NoSlot}]
  BY DEF CloseSocket, ProxyInv, TypeOK
<1>5. TypeOK'
  BY <1>2, <1>3, <1>4
  DEF CloseSocket, ProxyInv, TypeOK, mainVars, countVars, netVars, srvVars,
      loadVars
<1> QED
  BY <1>2, <1>3, <1>5, HandlerFrame DEF CloseSocket, countVars, loadVars

LEMMA LockToReleaseInv ==
  ASSUME ProxyInv, NEW c \in Slot, LockToRelease(c)
  PROVE  ProxyInv'
<1> DEFINE s == client[c].server
           h == [handler[c] EXCEPT !.pc = "give", !.cnt = load[s]]
<1>1. handler[c] \in HandlerThread /\ handler[c].pc = "release"
  BY DEF ProxyInv, TypeOK, LockToRelease
<1>2. s \in Line
  BY <1>1, ServersAreLines DEF ProxyInv, SlotInv, Has, Placed
<1>3. load[s] \in 0..Most
  BY <1>2 DEF ProxyInv, TypeOK, LoadBound
<1>4. load[s] \in Int /\ "give" \in HandlerPc
  BY <1>2 DEF ProxyInv, TypeOK, HandlerPc
<1>5. h \in HandlerThread /\ h.pc = "give" /\ h.cnt = load[s]
  BY <1>1, <1>4, HandlerUpdates DEF HandlerThread
<1>6. handler' = [handler EXCEPT ![c] = h] /\ load' = load
  BY DEF LockToRelease, LockLoad
<1>7. server_mutex' \in [Line -> BOOLEAN]
  BY <1>2 DEF LockToRelease, LockLoad, ProxyInv, TypeOK
<1> HIDE DEF h, s
<1>8. TypeOK'
  BY <1>5, <1>6, <1>7
  DEF LockToRelease, ProxyInv, TypeOK, mainVars, countVars, netVars, srvVars
<1>9. Frame
  BY <1>1, <1>3, <1>5, <1>6
  DEF LockToRelease, ProxyInv, TypeOK, LoadBound, Frame, mainVars, countVars
<1>10. LookupFrame
  BY <1>5, <1>6
  DEF LockToRelease, ProxyInv, TypeOK, LookupFrame, LookupInv, countVars
<1> QED
  BY <1>8, <1>9, <1>10, ProxyFrame

LEMMA ReleaseLoadInv ==
  ASSUME ProxyInv, NEW c \in Slot, ReleaseLoad(c)
  PROVE  ProxyInv'
<1> DEFINE s == client[c].server
           n == Released(handler[c].cnt)
           h == [handler[c] EXCEPT !.pc = "closed", !.cnt = 0]
<1>1. handler[c] \in HandlerThread /\ handler[c].pc = "give"
  BY DEF ProxyInv, TypeOK, ReleaseLoad
<1>2. s \in Line
  BY <1>1, ServersAreLines DEF ProxyInv, SlotInv, Has, Placed
<1>3. n \in Nat /\ n <= Most
  <2>1. handler[c].cnt \in 0..Most /\ Most \in Nat
    BY <1>1, SmallNumbers DEF ProxyInv, LoadBound
  <2>2. \A k \in 0..Most : Released(k) \in Nat /\ Released(k) <= Most
    BY <2>1 DEF Released
  <2> QED
    BY <2>1, <2>2
<1>4. "closed" \in HandlerPc
  BY DEF HandlerPc, Ended
<1>5. h \in HandlerThread /\ h.pc = "closed"
  <2>1. 0 \in Int
    OBVIOUS
  <2> QED
    BY <1>1, <1>4, <2>1, HandlerUpdates DEF HandlerThread
<1>6. /\ handler' = [handler EXCEPT ![c] = h]
      /\ load' = [load EXCEPT ![s] = n]
  BY DEF ReleaseLoad, StoreLoad
<1>7. server_mutex' \in [Line -> BOOLEAN]
  BY <1>2 DEF ReleaseLoad, StoreLoad, ProxyInv, TypeOK
<1> HIDE DEF h, n, s
<1>8. load' \in [Line -> Nat] /\ \A t \in Line : load'[t] <= Most
  BY <1>3, <1>6 DEF ProxyInv, TypeOK, LoadBound
<1>9. TypeOK'
  BY <1>5, <1>6, <1>7, <1>8
  DEF ReleaseLoad, ProxyInv, TypeOK, mainVars, countVars, netVars, srvVars
<1>10. Frame
  BY <1>1, <1>5, <1>6, <1>8
  DEF ReleaseLoad, ProxyInv, TypeOK, LoadBound, Frame, mainVars, countVars
<1>11. LookupFrame
  BY <1>5, <1>6
  DEF ReleaseLoad, ProxyInv, TypeOK, LookupFrame, LookupInv, countVars
<1> QED
  BY <1>9, <1>10, <1>11, ProxyFrame

LEMMA HandlerInv ==
  ASSUME ProxyInv, NEW c \in Slot, Handler(c)
  PROVE  ProxyInv'
BY ReadCountInv, WriteCountInv, LoopTestInv, LockToReceiveInv, ReceiveInv,
   ReceiveEndInv, ReceiveErrorInv, ReceiveNameInv, SearchNameInv, AnswerInv,
   ForwardInv, MarkClosedInv, CloseSocketInv, LockToReleaseInv, ReleaseLoadInv
DEF Handler

-----------------------------------------------------------------------------
(* The relays. *)

\* A step of relay s; if it leaves the lookup it stops at a published entry.
LEMMA RelayFrame ==
  ASSUME ProxyInv, TypeOK', NEW s \in Line, NEW r,
         relay' = [relay EXCEPT ![s] = r],
         r.pc \in {"check", "send", "write"} =>
           \/ r.i < nb_clients
           \/ r.i = relay[s].i /\ relay[s].pc \in {"check", "send", "write"},
         UNCHANGED <<mainVars, nb_clients, nb_servers, client, load, handler>>
  PROVE  ProxyInv'
<1>1. Frame
  BY DEF ProxyInv, TypeOK, LoadBound, Frame, mainVars
<1>2. LookupFrame
  BY ConstantsOK DEF ProxyInv, TypeOK, LookupFrame
<1> QED
  BY <1>1, <1>2, ProxyFrame

\* The relay steps that change nothing but the pc.
LEMMA RelayStepInv ==
  ASSUME ProxyInv, NEW s \in Line, NEW to \in RelayPc,
         relay' = [relay EXCEPT ![s].pc = to],
         to \notin {"check", "send", "write"},
         UNCHANGED <<status, mainVars, countVars, client, load, handler, fds,
                     netVars, toServer, answers, fromServer, peer>>,
         slink' \in [Line -> LinkState], server_mutex' \in [Line -> BOOLEAN]
  PROVE  ProxyInv'
<1> DEFINE r == [relay[s] EXCEPT !.pc = to]
<1>1. relay[s] \in RelayThread
  BY DEF ProxyInv, TypeOK
<1>2. r \in RelayThread /\ r.pc = to
  BY <1>1, RelayUpdates DEF RelayThread
<1>3. relay' = [relay EXCEPT ![s] = r]
  OBVIOUS
<1> HIDE DEF r
<1>4. TypeOK'
  BY <1>2, <1>3 DEF ProxyInv, TypeOK, mainVars, countVars, netVars, loadVars
<1> QED
  BY <1>2, <1>3, <1>4, RelayFrame DEF countVars, loadVars

LEMMA RelayTestInv ==
  ASSUME ProxyInv, NEW s \in Line, RelayTest(s)
  PROVE  ProxyInv'
<1>1. PICK to \in {"recv", "exit"} : relay' = [relay EXCEPT ![s].pc = to]
  BY DEF RelayTest
<1>2. slink' \in [Line -> LinkState] /\ server_mutex' \in [Line -> BOOLEAN]
  BY DEF RelayTest, srvVars, ProxyInv, TypeOK, loadVars
<1> QED
  BY <1>1, <1>2, RelayStepInv DEF RelayTest, RelayPc, srvVars, loadVars

LEMMA RelayErrorInv ==
  ASSUME ProxyInv, NEW s \in Line, RelayError(s)
  PROVE  ProxyInv'
<1>1. slink' \in [Line -> LinkState] /\ server_mutex' \in [Line -> BOOLEAN]
  BY DEF RelayError, ProxyInv, TypeOK, LinkState
<1> QED
  BY <1>1, RelayStepInv DEF RelayError, RelayPc

LEMMA RelayCancelledInv ==
  ASSUME ProxyInv, NEW s \in Line, RelayCancelled(s)
  PROVE  ProxyInv'
<1>1. slink' \in [Line -> LinkState] /\ server_mutex' \in [Line -> BOOLEAN]
  BY DEF RelayCancelled, srvVars, ProxyInv, TypeOK, loadVars
<1> QED
  BY <1>1, RelayStepInv DEF RelayCancelled, RelayPc, srvVars, loadVars

LEMMA RelayReceiveInv ==
  ASSUME ProxyInv, NEW s \in Line, RelayReceive(s)
  PROVE  ProxyInv'
<1>1. relay[s] \in RelayThread /\ fromServer[s] \in Seq(Packet)
  BY DEF ProxyInv, TypeOK
<1>2. PICK d \in Packet :
        relay' = [relay EXCEPT ![s].pc = "lookup", ![s].i = 0, ![s].data = d]
  BY <1>1, QueueTypes, PacketTypes DEF RelayReceive
<1>3. \/ fromServer' = fromServer
      \/ fromServer[s] # <<>> /\ fromServer' = [fromServer EXCEPT ![s] = Tail(@)]
  BY DEF RelayReceive
<1>4. fromServer' \in [Line -> Seq(Packet)]
  BY <1>1, <1>3, QueueTypes DEF ProxyInv, TypeOK
<1> DEFINE r == [relay[s] EXCEPT !.pc = "lookup", !.i = 0, !.data = d]
<1>5. r \in RelayThread /\ r.pc = "lookup"
  <2>1. "lookup" \in RelayPc /\ 0 \in Nat
    BY DEF RelayPc
  <2> QED
    BY <1>1, <2>1, RelayUpdates DEF RelayThread
<1>6. relay' = [relay EXCEPT ![s] = r]
  BY <1>2
<1> HIDE DEF r
<1>7. TypeOK'
  BY <1>4, <1>5, <1>6
  DEF RelayReceive, ProxyInv, TypeOK, mainVars, countVars, netVars, loadVars
<1> QED
  BY <1>5, <1>6, <1>7, RelayFrame DEF RelayReceive, countVars, loadVars

LEMMA RelayLookupInv ==
  ASSUME ProxyInv, NEW s \in Line, RelayLookup(s)
  PROVE  ProxyInv'
<1> DEFINE i == relay[s].i
<1>1. relay[s] \in RelayThread /\ i \in Nat /\ i < nb_clients
  BY DEF ProxyInv, TypeOK, RelayThread, RelayLookup
<1>2. relay[s].pc \in {"lookup", "origin"}
  BY DEF RelayLookup
<1>3. PICK to \in {"check", "send"} :
        \/ relay' = [relay EXCEPT ![s].i = i + 1]
        \/ relay' = [relay EXCEPT ![s].pc = to]
  BY DEF RelayLookup
<1>4. PICK r \in {[relay[s] EXCEPT !.i = i + 1], [relay[s] EXCEPT !.pc = to]} :
        relay' = [relay EXCEPT ![s] = r]
  BY <1>3
<1>5. i + 1 \in Nat /\ to \in RelayPc
  BY <1>1 DEF RelayPc
<1>6. r \in RelayThread
  <2>1. [relay[s] EXCEPT !.i = i + 1] \in RelayThread
    BY <1>1, <1>5, RelayUpdates DEF RelayThread
  <2>2. [relay[s] EXCEPT !.pc = to] \in RelayThread
    BY <1>1, <1>5, RelayUpdates DEF RelayThread
  <2> QED
    BY <1>4, <2>1, <2>2
<1>7. r.pc \in {"check", "send", "write"} => r.i < nb_clients
  BY <1>1, <1>2, <1>4 DEF RelayThread
<1>8. TypeOK'
  BY <1>4, <1>6
  DEF RelayLookup, ProxyInv, TypeOK, mainVars, countVars, netVars, srvVars,
      loadVars
<1> QED
  BY <1>4, <1>7, <1>8, RelayFrame DEF RelayLookup, countVars, loadVars

LEMMA RelayNullInv ==
  ASSUME ProxyInv, NEW s \in Line, RelayNull(s)
  PROVE  ProxyInv'
<1>1. TypeOK'
  BY DEF RelayNull, ProxyInv, TypeOK, mainVars, countVars, netVars, srvVars,
         Status, loadVars
<1>2. Frame /\ LookupFrame
  BY ConstantsOK DEF RelayNull, ProxyInv, TypeOK, LoadBound, Frame, loadVars, LookupFrame, countVars,
                     loadVars
<1> QED
  BY <1>1, <1>2, ProxyFrame

LEMMA RelayCheckInv ==
  ASSUME ProxyInv, NEW s \in Line, RelayCheck(s)
  PROVE  ProxyInv'
<1> DEFINE d == Bounced(relay[s].data)
           r1 == [relay[s] EXCEPT !.pc = "send"]
           r2 == [relay[s] EXCEPT !.pc = "origin", !.i = 0, !.data = d]
<1>1. relay[s] \in RelayThread /\ relay[s].pc = "check" /\ relay[s].data \in Packet
  BY DEF RelayCheck, ProxyInv, TypeOK, RelayThread
<1>2. d \in Packet
  BY <1>1, PacketTypes
<1>3. "send" \in RelayPc /\ "origin" \in RelayPc /\ 0 \in Nat
  BY DEF RelayPc
<1>4. /\ r1 \in RelayThread /\ r1.i = relay[s].i
      /\ r2 \in RelayThread /\ r2.pc = "origin"
  BY <1>1, <1>2, <1>3, RelayUpdates DEF RelayThread
<1>5. PICK r \in {r1, r2} : relay' = [relay EXCEPT ![s] = r]
  BY DEF RelayCheck, Returned
<1> HIDE DEF r1, r2
<1>6. r \in RelayThread
  BY <1>4, <1>5
<1>7. TypeOK'
  <2>1. UNCHANGED <<status, mainVars, countVars, client, loadVars, handler, fds,
                    netVars, srvVars, peer>>
    BY DEF RelayCheck
  <2> QED
    BY <1>5, <1>6, <2>1
    DEF ProxyInv, TypeOK, mainVars, countVars, netVars, srvVars, loadVars
<1>8. r.pc \in {"check", "send", "write"} => r.i = relay[s].i
  BY <1>4, <1>5
<1> QED
  BY <1>1, <1>5, <1>7, <1>8, RelayFrame DEF RelayCheck, countVars, loadVars

LEMMA RelayReadFdInv ==
  ASSUME ProxyInv, NEW s \in Line, RelayReadFd(s)
  PROVE  ProxyInv'
<1> DEFINE f == client[relay[s].i].sock_fd
           r == [relay[s] EXCEPT !.pc = "write", !.fd = f]
<1>1. /\ relay[s] \in RelayThread /\ relay[s].pc = "send"
      /\ relay[s].i \in Nat /\ relay[s].i < nb_clients
  BY DEF RelayReadFd, ProxyInv, TypeOK, RelayThread, LookupInv
<1>2. relay[s].i \in Slot
  BY <1>1, ConstantsOK DEF ProxyInv, TypeOK, Slot
<1>3. f \in Fd \cup {NoFd} /\ "write" \in RelayPc
  BY <1>2 DEF ProxyInv, TypeOK, ClientSlot, RelayPc
<1>4. r \in RelayThread /\ r.i = relay[s].i
  BY <1>1, <1>3, RelayUpdates DEF RelayThread
<1>5. relay' = [relay EXCEPT ![s] = r]
  BY DEF RelayReadFd
<1> HIDE DEF r
<1>6. TypeOK'
  BY <1>4, <1>5
  DEF RelayReadFd, ProxyInv, TypeOK, mainVars, countVars, netVars, srvVars,
      loadVars
<1> QED
  BY <1>1, <1>4, <1>5, <1>6, RelayFrame DEF RelayReadFd, countVars, loadVars

LEMMA RelayWriteInv ==
  ASSUME ProxyInv, NEW s \in Line, RelayWrite(s)
  PROVE  ProxyInv'
<1> DEFINE r == [pc |-> "test", i |-> 0, fd |-> NoFd, data |-> Zero]
<1>1. relay[s] \in RelayThread /\ relay[s].data \in Packet /\ TypeOK
  BY DEF ProxyInv, TypeOK, RelayThread
<1>2. r \in RelayThread /\ r.pc = "test" /\ relay' = [relay EXCEPT ![s] = r]
  BY PacketTypes DEF RelayThread, RelayPc, RelayWrite
<1>3. /\ status' \in Status /\ link' \in [Slot -> LinkState]
      /\ inbox' \in [Slot -> Seq(Packet)]
  <2>1. CASE relay[s].fd \in Fd /\ fds[relay[s].fd] # NoSlot
    <3>1. fds[relay[s].fd] \in Slot
      BY <2>1 DEF ProxyInv, TypeOK
    <3>2. Send(fds[relay[s].fd], relay[s].data)
      BY <2>1 DEF RelayWrite
    <3> QED
      BY <1>1, <3>1, <3>2, SendType
  <2>2. CASE ~(relay[s].fd \in Fd /\ fds[relay[s].fd] # NoSlot)
    BY <2>2 DEF RelayWrite, ProxyInv, TypeOK
  <2> QED
    BY <2>1, <2>2
<1> HIDE DEF r
<1>4. TypeOK'
  BY <1>2, <1>3
  DEF RelayWrite, ProxyInv, TypeOK, mainVars, countVars, srvVars, loadVars
<1> QED
  BY <1>2, <1>4, RelayFrame DEF RelayWrite, countVars, loadVars

LEMMA RelayInv ==
  ASSUME ProxyInv, NEW s \in Line, Relay(s)
  PROVE  ProxyInv'
BY RelayTestInv, RelayReceiveInv, RelayErrorInv, RelayLookupInv, RelayNullInv,
   RelayCheckInv, RelayReadFdInv, RelayWriteInv, RelayCancelledInv DEF Relay

-----------------------------------------------------------------------------
(* The clients and the servers. *)

\* They change the connections and nothing of the proxy's own state.
LEMMA OutsideFrame ==
  ASSUME ProxyInv, TypeOK',
         UNCHANGED <<mainVars, countVars, client, load, handler, relay>>
  PROVE  ProxyInv'
<1>1. Frame /\ LookupFrame
  BY ConstantsOK
  DEF ProxyInv, TypeOK, LoadBound, Frame, LookupFrame, mainVars, countVars, loadVars
<1> QED
  BY <1>1, ProxyFrame

\* What a client sends is appended to the bytes of its connection.
LEMMA SaysType ==
  ASSUME TypeOK, NEW c \in Slot, NEW items \in Seq(Packet),
         up' = [up EXCEPT ![c] = @ \o items]
  PROVE  up' \in [Slot -> Seq(Packet)]
BY QueueTypes DEF TypeOK

\* The singletons and pairs of packets that are sent at once.
LEMMA Batches ==
  ASSUME NEW p \in Packet, NEW q \in Packet
  PROVE  <<p>> \in Seq(Packet) /\ <<p, q>> \in Seq(Packet)
OBVIOUS

LEMMA PeerInv ==
  ASSUME ProxyInv, NEW c \in Slot, Peer(c)
  PROVE  ProxyInv'
<1> DEFINE e == peer[c]
<1>1. /\ TypeOK /\ e \in PeerState /\ up[c] \in Seq(Packet)
      /\ e.sent \in Nat /\ e.gets \in Nat /\ e.seen \in Nat
      /\ e.dest \in Addr \cup {NoAddr}
  BY DEF ProxyInv, TypeOK, PeerState
<1>2. PeerPc = {"none", "auth", "pseudo", "menu", "ask", "wait", "chat",
                "over", "gone"}
  BY DEF PeerPc
<1>3. CASE PeerAuth(c)
  <2>1. PICK pc \in {"pseudo", "menu"}, p \in Packet : Says(c, pc, <<p>>)
    BY <1>3, PacketTypes DEF PeerAuth, Data_type
  <2>2. up' \in [Slot -> Seq(Packet)]
    BY <1>1, <2>1, Batches, SaysType DEF Says
  <2>3. [e EXCEPT !.pc = pc] \in PeerState
    BY <1>1, <1>2, PeerUpdates
  <2>4. peer' \in [Slot -> PeerState]
    BY <1>1, <2>1, <2>3 DEF Says, TypeOK
  <2>5. TypeOK'
    BY <1>1, <1>3, <2>2, <2>4
    DEF PeerAuth, TypeOK, mainVars, countVars, srvVars, loadVars
  <2> QED
    BY <1>3, <2>5, OutsideFrame DEF PeerAuth, loadVars
<1>4. CASE PeerAsk(c)
  <2>1. Typed("GET") \in Packet
    BY PacketTypes DEF Data_type
  <2>2. up' \in [Slot -> Seq(Packet)]
    BY <1>1, <1>4, <2>1, QueueTypes DEF PeerAsk, TypeOK
  <2>3. e.gets + 1 \in Nat
    BY <1>1
  <2>4. [e EXCEPT !.pc = "ask", !.gets = e.gets + 1] \in PeerState
    BY <1>1, <1>2, <2>3, PeerUpdates
  <2>5. peer' \in [Slot -> PeerState]
    BY <1>1, <1>4, <2>4 DEF PeerAsk, TypeOK
  <2>6. TypeOK'
    BY <1>1, <1>4, <2>2, <2>5
    DEF PeerAsk, TypeOK, mainVars, countVars, srvVars, loadVars
  <2> QED
    BY <1>4, <2>6, OutsideFrame DEF PeerAsk, loadVars
<1>5. CASE PeerAnswered(c)
  <2>1. e.seen + 1 \in Nat
    BY <1>1
  <2>2. [e EXCEPT !.pc = "menu", !.seen = e.seen + 1] \in PeerState
    BY <1>1, <1>2, <2>1, PeerUpdates
  <2>3. peer' \in [Slot -> PeerState]
    BY <1>1, <1>5, <2>2 DEF PeerAnswered, TypeOK
  <2>4. TypeOK'
    BY <1>1, <1>5, <2>3
    DEF PeerAnswered, TypeOK, mainVars, countVars, netVars, srvVars, loadVars
  <2> QED
    BY <1>5, <2>4, OutsideFrame DEF PeerAnswered, loadVars
<1>6. CASE PeerBegin(c)
  <2>1. PICK a \in Dests :
          peer' = [peer EXCEPT ![c].pc = "chat", ![c].dest = a]
    BY <1>6 DEF PeerBegin
  <2>2. [e EXCEPT !.pc = "chat", !.dest = a] \in PeerState
    BY <1>1, <1>2, ConstantsOK, PeerUpdates
  <2>3. peer' \in [Slot -> PeerState]
    BY <1>1, <2>1, <2>2 DEF TypeOK
  <2>4. Typed("BOC") \in Packet
    BY PacketTypes DEF Data_type
  <2>5. up' \in [Slot -> Seq(Packet)]
    BY <1>1, <1>6, <2>4, QueueTypes DEF PeerBegin, TypeOK
  <2>6. TypeOK'
    BY <1>1, <1>6, <2>3, <2>5
    DEF PeerBegin, TypeOK, mainVars, countVars, srvVars, loadVars
  <2> QED
    BY <1>6, <2>6, OutsideFrame DEF PeerBegin, loadVars
<1>7. CASE PeerSend(c)
  <2> DEFINE p == [Typed("CEX") EXCEPT !.dest = e.dest, !.from = c, !.id = e.sent]
  <2>1. p \in Packet
    BY <1>1 DEF Packet, Typed, Zero, Data_type
  <2>2. up' = [up EXCEPT ![c] = Append(@, p)]
    BY <1>7 DEF PeerSend
  <2> HIDE DEF p
  <2>3. up' \in [Slot -> Seq(Packet)]
    BY <1>1, <2>1, <2>2, QueueTypes DEF TypeOK
  <2>4. e.sent + 1 \in Nat
    BY <1>1
  <2>5. [e EXCEPT !.sent = e.sent + 1] \in PeerState
    BY <1>1, <1>2, <2>4, PeerUpdates
  <2>6. peer' \in [Slot -> PeerState]
    BY <1>1, <1>7, <2>5 DEF PeerSend, TypeOK
  <2>7. TypeOK'
    BY <1>1, <1>7, <2>3, <2>6
    DEF PeerSend, TypeOK, mainVars, countVars, srvVars, loadVars
  <2> QED
    BY <1>7, <2>7, OutsideFrame DEF PeerSend, loadVars
<1>8. CASE PeerEnd(c)
  <2> DEFINE p == [Typed("EOC") EXCEPT !.dest = e.dest]
  <2>1. p \in Packet
    BY <1>1, PacketTypes DEF Data_type
  <2>2. Says(c, "over", <<p>>)
    BY <1>8 DEF PeerEnd
  <2> HIDE DEF p
  <2>3. up' \in [Slot -> Seq(Packet)]
    BY <1>1, <2>1, <2>2, Batches, SaysType DEF Says
  <2>4. [e EXCEPT !.pc = "over"] \in PeerState
    BY <1>1, <1>2, PeerUpdates
  <2>5. peer' \in [Slot -> PeerState]
    BY <1>1, <2>2, <2>4 DEF Says, TypeOK
  <2>6. TypeOK'
    BY <1>1, <1>8, <2>3, <2>5
    DEF PeerEnd, TypeOK, mainVars, countVars, srvVars, loadVars
  <2> QED
    BY <1>8, <2>6, OutsideFrame DEF PeerEnd, loadVars
<1>10. CASE PeerName(c)
  <2>1. PICK n \in Names : Says(c, "wait", <<Pseudo(n)>>)
    BY <1>10 DEF PeerName
  <2>2. up' \in [Slot -> Seq(Packet)]
    BY <1>1, <2>1, PacketTypes, Batches, SaysType DEF Says
  <2>3. [e EXCEPT !.pc = "wait"] \in PeerState
    BY <1>1, <1>2, PeerUpdates
  <2>4. peer' \in [Slot -> PeerState]
    BY <1>1, <2>1, <2>3 DEF Says, TypeOK
  <2>5. TypeOK'
    BY <1>1, <1>10, <2>2, <2>4
    DEF PeerName, TypeOK, mainVars, countVars, srvVars, loadVars
  <2> QED
    BY <1>10, <2>5, OutsideFrame DEF PeerName, loadVars
<1>9. CASE PeerClose(c)
  <2>1. PICK l \in {"rst", "fin"} : link' = [link EXCEPT ![c] = l]
    BY <1>9 DEF PeerClose, AfterClose
  <2>6. up' \in [Slot -> Seq(Packet)]
    <3>1. PICK q \in Delivered(up[c], link'[c]) : up' = [up EXCEPT ![c] = q]
      BY <1>9 DEF PeerClose
    <3>2. q \in Seq(Packet)
      BY <1>1, DeliveredType
    <3> QED
      BY <1>1, <3>1, <3>2 DEF TypeOK
  <2>2. link' \in [Slot -> LinkState]
    BY <1>1, <2>1 DEF TypeOK, LinkState
  <2>3. [NoPeer EXCEPT !.pc = "gone"] \in PeerState
    BY <1>1, <1>2, PeerUpdates
  <2>4. peer' \in [Slot -> PeerState]
    BY <1>1, <1>9, <2>3 DEF PeerClose, TypeOK
  <2>5. TypeOK'
    BY <1>1, <1>9, <2>2, <2>4, <2>6
    DEF PeerClose, TypeOK, mainVars, countVars, srvVars, loadVars
  <2> QED
    BY <1>9, <2>5, OutsideFrame DEF PeerClose, loadVars
<1> QED
  BY <1>3, <1>4, <1>5, <1>6, <1>7, <1>8, <1>9, <1>10 DEF Peer

LEMMA ServerReadsInv ==
  ASSUME ProxyInv, NEW s \in Line, ServerReads(s)
  PROVE  ProxyInv'
<1> DEFINE p == Head(toServer[s])
<1>1. TypeOK /\ toServer[s] \in Seq(Packet) /\ toServer[s] # <<>>
  BY DEF ProxyInv, TypeOK, ServerReads
<1>2. p \in Packet /\ toServer' \in [Line -> Seq(Packet)]
  BY <1>1, QueueTypes DEF ServerReads, TypeOK
<1>3. server_send(p) \in Seq(Packet)
  BY <1>2, Batches DEF server_send, Ack, Packet, Data_type
<1>4. answers' \in [Line -> Seq(Packet)]
  BY <1>1, <1>3 DEF ServerReads, TypeOK
<1>5. PICK b \in BOOLEAN :
        slink' = slink \/ slink' = [slink EXCEPT ![s] = AfterClose(b)]
  BY DEF ServerReads
<1>6. slink' \in [Line -> LinkState]
  BY <1>1, <1>5, LinkTypes DEF TypeOK
<1>7. TypeOK'
  BY <1>1, <1>2, <1>4, <1>6
  DEF ServerReads, TypeOK, mainVars, countVars, netVars, loadVars
<1> QED
  BY <1>7, OutsideFrame DEF ServerReads, loadVars

LEMMA ServerWritesInv ==
  ASSUME ProxyInv, NEW s \in Line, ServerWrites(s)
  PROVE  ProxyInv'
<1>1. /\ TypeOK /\ answers[s] \in Seq(Packet) /\ fromServer[s] \in Seq(Packet)
      /\ answers[s] # <<>>
  BY DEF ProxyInv, TypeOK, ServerWrites
<1>2. /\ Tail(answers[s]) \in Seq(Packet)
      /\ Append(fromServer[s], Head(answers[s])) \in Seq(Packet)
  BY <1>1, QueueTypes
<1>3. answers' \in [Line -> Seq(Packet)] /\ fromServer' \in [Line -> Seq(Packet)]
  BY <1>1, <1>2 DEF ServerWrites, TypeOK
<1>4. TypeOK'
  BY <1>1, <1>3 DEF ServerWrites, TypeOK, mainVars, countVars, netVars, loadVars
<1> QED
  BY <1>4, OutsideFrame DEF ServerWrites, loadVars

LEMMA ServerDiesInv ==
  ASSUME ProxyInv, NEW s \in Line, ServerDies(s)
  PROVE  ProxyInv'
<1>1. PICK b \in BOOLEAN : slink' = [slink EXCEPT ![s] = AfterClose(b)]
  BY DEF ServerDies
<1>2. slink' \in [Line -> LinkState]
  BY <1>1, LinkTypes DEF ProxyInv, TypeOK
<1>3. PICK q \in Delivered(fromServer[s], slink'[s]) :
        fromServer' = [fromServer EXCEPT ![s] = q]
  BY DEF ServerDies
<1>4. q \in Seq(Packet) /\ <<>> \in Seq(Packet)
  BY DeliveredType DEF ProxyInv, TypeOK
<1>5. answers' \in [Line -> Seq(Packet)] /\ fromServer' \in [Line -> Seq(Packet)]
  BY <1>3, <1>4 DEF ServerDies, ProxyInv, TypeOK
<1>6. TypeOK'
  BY <1>2, <1>5
  DEF ServerDies, ProxyInv, TypeOK, mainVars, countVars, netVars, loadVars
<1> QED
  BY <1>6, OutsideFrame DEF ServerDies, loadVars

-----------------------------------------------------------------------------
(* The main thread. *)

LEMMA OpenServerInv ==
  ASSUME ProxyInv, OpenServer
  PROVE  ProxyInv'
<1>0. PICK pc \in {"test", "none"} : relay' = [relay EXCEPT ![nb_servers].pc = pc]
  BY DEF OpenServer, Created
<1> DEFINE r == [relay[nb_servers] EXCEPT !.pc = pc]
<1>1. nb_servers \in Line
  BY ConstantsOK DEF OpenServer, ProxyInv, TypeOK, MainInv, Line
<1>2. relay[nb_servers] \in RelayThread /\ pc \in RelayPc
  BY <1>1 DEF ProxyInv, TypeOK, RelayPc
<1>3. r \in RelayThread /\ r.pc = pc
  BY <1>2, RelayUpdates DEF RelayThread
<1>4. relay' = [relay EXCEPT ![nb_servers] = r]
  BY <1>0
<1> HIDE DEF r
<1>5. slink' \in [Line -> LinkState]
  BY DEF OpenServer, ProxyInv, TypeOK, LinkState
<1>6. TypeOK'
  BY <1>3, <1>4, <1>5
  DEF OpenServer, ProxyInv, TypeOK, MainPc, countVars, netVars, loadVars
<1>7. MainInv'
  BY DEF OpenServer, ProxyInv, MainInv, Filling, countVars, loadVars
<1>8. SlotInv'
  BY DEF OpenServer, ProxyInv, SlotInv, Has, Filling, Placed, Server, countVars, loadVars
<1>9. LoadBound' /\ ScanInv'
  BY DEF OpenServer, ProxyInv, LoadBound, Most, ScanInv, countVars, loadVars
<1>10. LookupInv'
  BY <1>3, <1>4 DEF OpenServer, ProxyInv, TypeOK, LookupInv, countVars, loadVars
<1> QED
  BY <1>6, <1>7, <1>8, <1>9, <1>10 DEF ProxyInv

\* The steps of main that only move mpc and mi, outside the filling of a slot.
LEMMA MainStepInv ==
  ASSUME ProxyInv, TypeOK', MainInv',
         UNCHANGED <<best, nb_clients, client, load, handler, relay>>,
         nb_servers <= nb_servers',
         mpc \notin Filling,
         mpc' \notin Filling
  PROVE  ProxyInv'
<1>1. SlotInv'
  <2>1. nb_servers \in Nat /\ nb_servers' \in Nat
    BY ConstantsOK DEF ProxyInv, TypeOK
  <2> QED
    BY <2>1 DEF ProxyInv, SlotInv, Has, Filling, Placed, Server
<1>2. LoadBound' /\ ScanInv' /\ LookupInv'
  BY DEF ProxyInv, LoadBound, Most, ScanInv, LookupInv, Filling
<1> QED
  BY <1>1, <1>2 DEF ProxyInv

LEMMA SkipServerInv ==
  ASSUME ProxyInv, SkipServer
  PROVE  ProxyInv'
<1>1. TypeOK'
  BY DEF SkipServer, ProxyInv, TypeOK, countVars, netVars, srvVars, loadVars
<1>2. MainInv'
  BY ConstantsOK DEF SkipServer, ProxyInv, TypeOK, MainInv, Filling, countVars, loadVars
<1>3. /\ UNCHANGED <<best, nb_clients, client, load, handler, relay>>
      /\ mpc \notin Filling /\ mpc' \notin Filling
  BY DEF SkipServer, Filling, mainVars, countVars, loadVars
<1>4. nb_servers <= nb_servers'
  BY ConstantsOK DEF SkipServer, ProxyInv, TypeOK, countVars
<1> QED
  BY <1>1, <1>2, <1>3, <1>4, MainStepInv

LEMMA PublishServerInv ==
  ASSUME ProxyInv, PublishServer
  PROVE  ProxyInv'
<1>1. TypeOK'
  BY ConstantsOK
  DEF PublishServer, ProxyInv, TypeOK, MainInv, Filling, MainPc, netVars, srvVars,
      loadVars
<1>2. MainInv'
  BY ConstantsOK DEF PublishServer, ProxyInv, TypeOK, MainInv
<1>3. /\ UNCHANGED <<best, nb_clients, client, load, handler, relay>>
      /\ mpc \notin Filling /\ mpc' \notin Filling
  BY DEF PublishServer, Filling, mainVars, countVars, loadVars
<1>4. nb_servers <= nb_servers'
  BY ConstantsOK DEF PublishServer, ProxyInv, TypeOK, countVars
<1> QED
  BY <1>1, <1>2, <1>3, <1>4, MainStepInv

LEMMA EndOfFileInv ==
  ASSUME ProxyInv, EndOfFile
  PROVE  ProxyInv'
<1>1. TypeOK'
  BY DEF EndOfFile, ProxyInv, TypeOK, MainPc, Status, countVars, netVars, srvVars,
         loadVars
<1>2. MainInv'
  BY DEF EndOfFile, ProxyInv, MainInv, Filling, countVars, loadVars
<1>3. /\ UNCHANGED <<best, nb_clients, client, load, handler, relay>>
      /\ mpc \notin Filling /\ mpc' \notin Filling
  BY DEF EndOfFile, Filling, mainVars, countVars, loadVars
<1>4. nb_servers <= nb_servers'
  BY ConstantsOK DEF EndOfFile, ProxyInv, TypeOK, countVars
<1> QED
  BY <1>1, <1>2, <1>3, <1>4, MainStepInv

LEMMA JoinHandlersInv ==
  ASSUME ProxyInv, JoinHandlers
  PROVE  ProxyInv'
<1>1. TypeOK'
  BY DEF JoinHandlers, ProxyInv, TypeOK, MainPc, countVars, netVars, srvVars,
         loadVars
<1>2. MainInv'
  BY DEF JoinHandlers, ProxyInv, MainInv, Filling, countVars, loadVars
<1>3. /\ UNCHANGED <<best, nb_clients, nb_servers, client, load, handler, relay>>
      /\ mpc \in {"accept", "join", "cancel"} /\ mpc' \in {"join", "eoj"}
  BY DEF JoinHandlers, countVars, loadVars
<1>4. nb_servers <= nb_servers'
  BY <1>3, ConstantsOK DEF ProxyInv, TypeOK
<1> QED
  BY <1>1, <1>2, <1>3, <1>4, MainStepInv DEF Filling

LEMMA SendEojInv ==
  ASSUME ProxyInv, SendEoj
  PROVE  ProxyInv'
<1>1. TypeOK /\ mi \in Line
  BY SmallNumbers DEF SendEoj, ProxyInv, TypeOK, Line
<1>2. /\ status' \in Status /\ slink' \in [Line -> LinkState]
      /\ toServer' \in [Line -> Seq(Packet)]
  BY <1>1, PacketTypes, SendServerType DEF SendEoj, Data_type
<1>3. TypeOK'
  BY <1>1, <1>2 DEF SendEoj, TypeOK, MainPc, countVars, netVars, loadVars
<1>4. MainInv'
  BY DEF SendEoj, ProxyInv, MainInv, Filling, countVars, loadVars
<1> QED
  BY <1>3, <1>4, MainStepInv, ConstantsOK
  DEF SendEoj, ProxyInv, TypeOK, Filling, countVars, loadVars

LEMMA JoinRelayInv ==
  ASSUME ProxyInv, JoinRelay
  PROVE  ProxyInv'
<1>1. TypeOK'
  BY DEF JoinRelay, ProxyInv, TypeOK, MainPc, countVars, netVars, srvVars,
         loadVars
<1>2. MainInv'
  BY DEF JoinRelay, ProxyInv, MainInv, Filling, countVars, loadVars
<1>3. /\ UNCHANGED <<best, nb_clients, nb_servers, client, load, handler, relay>>
      /\ mpc \in {"accept", "join", "cancel"} /\ mpc' \in {"join", "eoj"}
  BY DEF JoinRelay, countVars, loadVars
<1>4. nb_servers <= nb_servers'
  BY <1>3, ConstantsOK DEF ProxyInv, TypeOK
<1> QED
  BY <1>1, <1>2, <1>3, <1>4, MainStepInv DEF Filling

LEMMA JoinUnstartedInv ==
  ASSUME ProxyInv, JoinUnstarted
  PROVE  ProxyInv'
<1>1. TypeOK'
  BY DEF JoinUnstarted, ProxyInv, TypeOK, Status, mainVars, countVars, netVars,
         srvVars, loadVars
<1>2. MainInv'
  BY DEF JoinUnstarted, ProxyInv, MainInv, Filling, mainVars, countVars
<1>3. /\ UNCHANGED <<best, nb_clients, client, load, handler, relay>>
      /\ mpc \notin Filling /\ mpc' \notin Filling
  BY DEF JoinUnstarted, Filling, mainVars, countVars, loadVars
<1>4. nb_servers <= nb_servers'
  BY ConstantsOK DEF JoinUnstarted, ProxyInv, TypeOK, countVars
<1> QED
  BY <1>1, <1>2, <1>3, <1>4, MainStepInv

LEMMA StopInv ==
  ASSUME ProxyInv, Stop
  PROVE  ProxyInv'
<1>1. TypeOK'
  BY DEF Stop, ProxyInv, TypeOK, Status, mainVars, countVars, netVars, srvVars,
         loadVars
<1>2. MainInv'
  BY DEF Stop, ProxyInv, MainInv, Filling, mainVars, countVars, loadVars
<1> QED
  BY <1>1, <1>2, MainStepInv, ConstantsOK
  DEF Stop, ProxyInv, TypeOK, Filling, mainVars, countVars, loadVars

LEMMA AcceptInv ==
  ASSUME ProxyInv, Accept
  PROVE  ProxyInv'
<1>1. PICK a \in Addr, fd \in Fd :
        /\ fds' = [fds EXCEPT ![fd] = nb_clients]
        /\ client' = [client EXCEPT ![nb_clients] =
                        [EmptySlot EXCEPT !.sock_fd = fd, !.addr = a]]
  BY DEF Accept
<1> DEFINE x == [EmptySlot EXCEPT !.sock_fd = fd, !.addr = a]
<1>2. x \in ClientSlot /\ x.addr = a /\ x.server = NoLine /\ x.sock_fd = fd
  BY EmptySlotType DEF EmptySlot, ClientSlot
<1>3. nb_clients \in Slot /\ nb_clients \in Nat
  BY ConstantsOK DEF Accept, TableFull, ProxyInv, TypeOK, Slot
<1>4. [peer[nb_clients] EXCEPT !.pc = "auth"] \in PeerState
  BY <1>3, PeerUpdates DEF ProxyInv, TypeOK, PeerPc
<1>5. client' = [client EXCEPT ![nb_clients] = x]
  BY <1>1
<1> HIDE DEF x
<1>6. TypeOK'
  <2>1. client' \in [Slot -> ClientSlot]
    BY <1>2, <1>5 DEF ProxyInv, TypeOK
  <2>2. fds' \in [Fd -> Slot \cup {NoSlot}]
    BY <1>1, <1>3 DEF ProxyInv, TypeOK
  <2>3. peer' \in [Slot -> PeerState]
    BY <1>4 DEF Accept, ProxyInv, TypeOK
  <2>4. link' \in [Slot -> LinkState]
    BY DEF Accept, ProxyInv, TypeOK, LinkState
  <2>5. UNCHANGED <<status, best, reg, countVars, loadVars, handler, relay, up, inbox,
                    srvVars>> /\ mpc' = "scan" /\ mi' = 0
    BY DEF Accept
  <2> QED
    BY <2>1, <2>2, <2>3, <2>4, <2>5
    DEF ProxyInv, TypeOK, MainPc, countVars, srvVars, loadVars
<1>7. MainInv'
  BY ConstantsOK DEF Accept, TableFull, ProxyInv, TypeOK, MainInv, Filling, countVars,
                     loadVars
<1>8. SlotInv'
  <2>1. UNCHANGED <<nb_clients, nb_servers, handler>> /\ mpc = "accept" /\ mpc' = "scan"
    BY DEF Accept, countVars, loadVars
  <2> QED
    BY <1>2, <1>3, <1>5, <2>1 DEF ProxyInv, TypeOK, SlotInv, Has, Filling, Placed, Server, Slot
<1>9. LoadBound' /\ ScanInv' /\ LookupInv'
  BY DEF Accept, ProxyInv, LoadBound, Most, ScanInv, LookupInv, countVars, loadVars
<1> QED
  BY <1>6, <1>7, <1>8, <1>9 DEF ProxyInv

LEMMA ScanStepInv ==
  ASSUME ProxyInv, Scan
  PROVE  ProxyInv'
<1>1. /\ mi \in Line /\ mi \in Server /\ mi + 1 \in Nat
      /\ load[mi] \in Nat /\ load[mi] < MaxLoad
  <2>1. mi \in Line /\ mi \in Server /\ mi \in Nat
    BY ConstantsOK DEF Scan, ProxyInv, TypeOK, Line, Server
  <2>2. load[mi] \in Nat /\ load[mi] <= 2 * nb_clients
    BY <2>1 DEF Scan, ProxyInv, TypeOK, LoadBound, Most
  <2> QED
    BY <2>1, <2>2, ConstantsOK DEF ProxyInv, TypeOK
<1>2. \/ best' = [server |-> mi, min |-> load[mi]]
      \/ best' = best /\ load[mi] >= best.min
  BY <1>1 DEF Scan, Better, ProxyInv, TypeOK
<1>3. best' \in [server : Line \cup {NoLine}, min : 0..MaxLoad]
  BY <1>1, <1>2, ConstantsOK DEF ProxyInv, TypeOK
<1>4. /\ UNCHANGED <<status, mpc, reg, countVars, client, loadVars, handler, relay, fds,
                     netVars, srvVars, peer>>
      /\ mi' = mi + 1 /\ mpc = "scan" /\ mi < nb_servers
  BY DEF Scan
<1>5. TypeOK'
  BY <1>1, <1>3, <1>4 DEF ProxyInv, TypeOK, countVars, netVars, srvVars,
                          loadVars
<1>6. MainInv'
  BY <1>4, ConstantsOK DEF ProxyInv, TypeOK, MainInv, Filling, countVars, loadVars
<1>7. SlotInv' /\ LoadBound' /\ LookupInv'
  BY <1>4 DEF ProxyInv, SlotInv, Has, Server, LoadBound, Most, LookupInv, countVars,
              loadVars
<1>8. ScanInv'
  <2>1. best'.server \in Server
    <3>1. CASE mi > 0
      BY <1>1, <1>2, <1>4, <3>1 DEF ProxyInv, ScanInv
    <3>2. CASE mi = 0
      BY <1>1, <1>2, <1>4, <3>2, ConstantsOK DEF ProxyInv, ScanInv
    <3> QED
      BY <1>1, <3>1, <3>2 DEF Line
  <2> QED
    BY <1>1, <1>4, <2>1 DEF ScanInv, Server, countVars, Line, loadVars
<1> QED
  BY <1>5, <1>6, <1>7, <1>8 DEF ProxyInv

\* At the end of the scan a server has been found.
LEMMA ScanEnd ==
  ASSUME ProxyInv, mpc = "scan", mi = nb_servers
  PROVE  best.server \in Server
BY DEF ProxyInv, MainInv, ScanInv

LEMMA LockLeastInv ==
  ASSUME ProxyInv, LockLeast
  PROVE  ProxyInv'
<1> DEFINE b == best.server
<1>1. b \in Server /\ b \in Line
  BY ScanEnd, ServersAreLines DEF LockLeast
<1>2. /\ UNCHANGED <<status, mi, best, countVars, client, load, handler, relay, fds,
                     netVars, srvVars, peer>>
      /\ mpc = "scan" /\ mpc' = "add" /\ reg' = load[b]
  BY DEF LockLeast, LockLoad
<1>3. server_mutex' \in [Line -> BOOLEAN]
  BY <1>1 DEF LockLeast, LockLoad, ProxyInv, TypeOK
<1>4. reg' \in Nat /\ reg' <= Most /\ Most' = Most
  BY <1>1, <1>2 DEF ProxyInv, TypeOK, LoadBound, Most, countVars
<1> HIDE DEF b
<1>5. TypeOK'
  BY <1>2, <1>3, <1>4 DEF ProxyInv, TypeOK, MainPc, countVars, netVars, srvVars
<1>6. MainInv' /\ SlotInv'
  BY <1>2
  DEF ProxyInv, MainInv, SlotInv, Has, Server, Filling, Placed, countVars
<1>7. LoadBound'
  BY <1>2, <1>4 DEF ProxyInv, LoadBound
<1>8. ScanInv' /\ LookupInv'
  BY <1>1, <1>2 DEF ProxyInv, ScanInv, LookupInv, Server, countVars, b
<1> QED
  BY <1>5, <1>6, <1>7, <1>8 DEF ProxyInv

LEMMA AssignInv ==
  ASSUME ProxyInv, Assign
  PROVE  ProxyInv'
<1> DEFINE b == best.server
           x == [client[nb_clients] EXCEPT !.server = b]
<1>1. b \in Server /\ b \in Line
  BY ServersAreLines DEF Assign, ProxyInv, ScanInv
<1>2. /\ nb_clients \in Slot /\ nb_clients \in Nat
      /\ client[nb_clients] \in ClientSlot
  BY ConstantsOK DEF Assign, ProxyInv, TypeOK, MainInv, Filling, Slot
<1>3. /\ x \in ClientSlot /\ x.server = b
      /\ x.addr = client[nb_clients].addr
      /\ x.sock_fd = client[nb_clients].sock_fd
  BY <1>1, <1>2, ClientUpdates DEF ClientSlot
<1>4. /\ UNCHANGED <<status, mi, countVars, handler, relay, fds, netVars,
                     srvVars, peer>>
      /\ mpc = "add" /\ mpc' = "assigned" /\ reg' = 0
      /\ best' = [server |-> NoLine, min |-> MaxLoad]
      /\ load' = [load EXCEPT ![b] = reg + 1]
      /\ client' = [client EXCEPT ![nb_clients] = x]
  BY DEF Assign, StoreLoad
<1>5. server_mutex' \in [Line -> BOOLEAN]
  BY <1>1 DEF Assign, StoreLoad, ProxyInv, TypeOK
<1>6. reg \in Nat /\ reg <= Most /\ Most' = Most + 1 /\ Most \in Nat
  BY <1>2, <1>4 DEF ProxyInv, TypeOK, LoadBound, Most, countVars
<1> HIDE DEF x, b
<1>7. TypeOK'
  <2>1. client' \in [Slot -> ClientSlot]
    BY <1>2, <1>3, <1>4 DEF ProxyInv, TypeOK
  <2>2. load' \in [Line -> Nat]
    BY <1>1, <1>4, <1>6 DEF ProxyInv, TypeOK
  <2>3. best' \in [server : Line \cup {NoLine}, min : 0..MaxLoad]
    <3>1. MaxLoad \in 0..MaxLoad
      BY ConstantsOK
    <3> QED
      BY <1>4, <3>1
  <2> QED
    BY <1>4, <1>5, <2>1, <2>2, <2>3
    DEF ProxyInv, TypeOK, MainPc, countVars, netVars, srvVars
<1>8. MainInv'
  BY <1>4 DEF ProxyInv, MainInv, Filling, countVars
<1>9. SlotInv'
  BY <1>1, <1>2, <1>3, <1>4
  DEF ProxyInv, TypeOK, SlotInv, Has, Filling, Placed, Server, Slot, countVars
<1>10. LoadBound'
  <2>1. \A s \in Line : load'[s] <= Most'
    BY <1>4, <1>6 DEF ProxyInv, TypeOK, LoadBound
  <2>2. \A c \in Slot : handler'[c].pc = "give" => handler'[c].cnt \in 0..Most'
    BY <1>4, <1>6 DEF ProxyInv, LoadBound
  <2> QED
    BY <1>4, <2>1, <2>2 DEF LoadBound
<1>11. ScanInv' /\ LookupInv'
  BY <1>4 DEF ProxyInv, ScanInv, LookupInv, countVars
<1> QED
  BY <1>7, <1>8, <1>9, <1>10, <1>11 DEF ProxyInv

LEMMA LockAssignedInv ==
  ASSUME ProxyInv, LockAssigned
  PROVE  ProxyInv'
<1> DEFINE b == client[nb_clients].server
<1>1. nb_clients \in Slot /\ nb_clients \in Nat
  BY ConstantsOK DEF LockAssigned, ProxyInv, TypeOK, MainInv, Filling, Slot
<1>2. b \in Line
  BY <1>1, ServersAreLines DEF LockAssigned, ProxyInv, SlotInv, Has, Placed
<1>3. /\ UNCHANGED <<status, mi, best, countVars, client, load, handler, relay, fds,
                     netVars, srvVars, peer>>
      /\ mpc = "assigned" /\ mpc' = "again" /\ reg' = load[b]
  BY DEF LockAssigned, LockLoad
<1>4. server_mutex' \in [Line -> BOOLEAN]
  BY <1>2 DEF LockAssigned, LockLoad, ProxyInv, TypeOK
<1>5. reg' \in Nat /\ reg' <= Most /\ Most' = Most
  BY <1>2, <1>3 DEF ProxyInv, TypeOK, LoadBound, Most, countVars
<1> HIDE DEF b
<1>6. TypeOK'
  BY <1>3, <1>4, <1>5 DEF ProxyInv, TypeOK, MainPc, countVars, netVars, srvVars
<1>7. MainInv' /\ SlotInv'
  BY <1>3
  DEF ProxyInv, MainInv, SlotInv, Has, Server, Filling, Placed, countVars
<1>8. LoadBound'
  BY <1>3, <1>5 DEF ProxyInv, LoadBound
<1>9. ScanInv' /\ LookupInv'
  BY <1>3 DEF ProxyInv, ScanInv, LookupInv, countVars
<1> QED
  BY <1>6, <1>7, <1>8, <1>9 DEF ProxyInv

LEMMA AddLoadInv ==
  ASSUME ProxyInv, AddLoad
  PROVE  ProxyInv'
<1> DEFINE b == client[nb_clients].server
<1>1. nb_clients \in Slot /\ nb_clients \in Nat
  BY ConstantsOK DEF AddLoad, ProxyInv, TypeOK, MainInv, Filling, Slot
<1>2. b \in Line
  BY <1>1, ServersAreLines DEF AddLoad, ProxyInv, SlotInv, Has, Placed
<1>3. /\ UNCHANGED <<status, mi, best, countVars, client, handler, relay, fds,
                     netVars, srvVars, peer>>
      /\ mpc = "again" /\ mpc' = "spawn" /\ reg' = 0
      /\ load' = [load EXCEPT ![b] = reg + 1]
  BY DEF AddLoad, StoreLoad
<1>4. server_mutex' \in [Line -> BOOLEAN]
  BY <1>2 DEF AddLoad, StoreLoad, ProxyInv, TypeOK
<1>5. reg \in Nat /\ reg <= Most /\ Most' = Most + 1 /\ Most \in Nat
  BY <1>1, <1>3 DEF ProxyInv, TypeOK, LoadBound, Most, countVars
<1> HIDE DEF b
<1>6. load' \in [Line -> Nat]
  BY <1>2, <1>3, <1>5 DEF ProxyInv, TypeOK
<1>7. TypeOK'
  BY <1>3, <1>4, <1>6 DEF ProxyInv, TypeOK, MainPc, countVars, netVars, srvVars
<1>8. MainInv' /\ ScanInv' /\ LookupInv'
  BY <1>3 DEF ProxyInv, MainInv, Filling, ScanInv, LookupInv, countVars
<1>9. SlotInv'
  BY <1>3 DEF ProxyInv, SlotInv, Has, Filling, Placed, Server, countVars
<1>10. LoadBound'
  <2>1. \A s \in Line : load'[s] <= Most'
    BY <1>3, <1>5 DEF ProxyInv, TypeOK, LoadBound
  <2>2. \A c \in Slot : handler'[c].pc = "give" => handler'[c].cnt \in 0..Most'
    BY <1>3, <1>5 DEF ProxyInv, LoadBound
  <2> QED
    BY <1>3, <2>1, <2>2 DEF LoadBound
<1> QED
  BY <1>7, <1>8, <1>9, <1>10 DEF ProxyInv

LEMMA SpawnInv ==
  ASSUME ProxyInv, Spawn
  PROVE  ProxyInv'
<1>1. PICK pc \in {"start", "none"} : handler' = [handler EXCEPT ![nb_clients].pc = pc]
  BY DEF Spawn, Created
<1> DEFINE h == [handler[nb_clients] EXCEPT !.pc = pc]
<1>2. /\ nb_clients \in Slot /\ nb_clients \in Nat
      /\ handler[nb_clients] \in HandlerThread /\ pc \in HandlerPc
  BY ConstantsOK DEF Spawn, ProxyInv, TypeOK, MainInv, Filling, Slot, HandlerPc
<1>3. h \in HandlerThread /\ h.pc = pc
  BY <1>2, HandlerUpdates DEF HandlerThread
<1>4. /\ UNCHANGED <<status, mi, best, reg, countVars, client, loadVars, relay,
                     fds, netVars, srvVars, peer>>
      /\ mpc = "spawn" /\ mpc' = "count"
      /\ handler' = [handler EXCEPT ![nb_clients] = h]
  BY <1>1 DEF Spawn
<1> HIDE DEF h
<1>5. TypeOK'
  BY <1>3, <1>4
  DEF ProxyInv, TypeOK, MainPc, countVars, netVars, srvVars, loadVars
<1>6. MainInv' /\ ScanInv'
  BY <1>4 DEF ProxyInv, MainInv, Filling, ScanInv, countVars
<1>7. SlotInv'
  BY <1>2, <1>3, <1>4
  DEF ProxyInv, TypeOK, SlotInv, Has, Filling, Placed, Server, Slot, countVars
<1>8. LoadBound'
  BY <1>3, <1>4 DEF ProxyInv, TypeOK, LoadBound, Most, countVars, loadVars
<1>9. LookupInv'
  BY <1>3, <1>4 DEF ProxyInv, TypeOK, LookupInv, countVars
<1> QED
  BY <1>5, <1>6, <1>7, <1>8, <1>9 DEF ProxyInv

LEMMA CountClientInv ==
  ASSUME ProxyInv, CountClient
  PROVE  ProxyInv'
<1>1. nb_clients \in Nat /\ nb_clients < BUFLEN
  BY ConstantsOK DEF CountClient, ProxyInv, TypeOK, MainInv, Filling
<1>2. /\ UNCHANGED <<status, mi, best, reg, nb_clients_connected, nb_servers, client,
                     loadVars, handler, relay, fds, netVars, srvVars, peer>>
      /\ mpc = "count" /\ mpc' = "accept" /\ nb_clients' = nb_clients + 1
  BY DEF CountClient
<1>3. TypeOK'
  BY <1>1, <1>2, ConstantsOK
  DEF ProxyInv, TypeOK, MainPc, netVars, srvVars, loadVars
<1>4. MainInv' /\ ScanInv'
  BY <1>2 DEF ProxyInv, MainInv, Filling, ScanInv
<1>5. SlotInv'
  BY <1>1, <1>2 DEF ProxyInv, SlotInv, Has, Filling, Placed, Server, Slot
<1>6. LoadBound'
  BY <1>1, <1>2, <1>3 DEF ProxyInv, TypeOK, LoadBound, Most, loadVars
<1>7. LookupInv'
  <2>1. LookupFrame
    BY <1>1, <1>2 DEF LookupFrame
  <2> QED
    BY <1>3, <2>1, LookupFrameInv DEF ProxyInv
<1> QED
  BY <1>3, <1>4, <1>5, <1>6, <1>7 DEF ProxyInv

LEMMA StutterInv ==
  ASSUME ProxyInv, UNCHANGED vars
  PROVE  ProxyInv'
BY DEF ProxyInv, TypeOK, MainInv, SlotInv, Has, Server, LoadBound, Most, ScanInv,
       LookupInv, vars, mainVars, countVars, netVars, srvVars, loadVars

LEMMA NextInv == ProxyInv /\ [Next]_vars => ProxyInv'
BY OpenServerInv, SkipServerInv, PublishServerInv, EndOfFileInv, AcceptInv,
   ScanStepInv, LockLeastInv, AssignInv, LockAssignedInv,
   AddLoadInv, SpawnInv, CountClientInv,
   JoinHandlersInv, SendEojInv, JoinRelayInv, JoinUnstartedInv, StopInv, HandlerInv, PeerInv,
   RelayInv, ServerReadsInv, ServerWritesInv, ServerDiesInv, StutterInv
DEF Next, Proceed, Serve
-----------------------------------------------------------------------------
(* The theorems. *)

\* ProxyInv holds in every state of the proxy.
THEOREM Invariance == Spec => []ProxyInv
BY InitInv, NextInv, PTL DEF Spec

\* The type invariant: every thread's registers, every table entry and every
\* queue of the proxy keep their types, whatever the interleaving.
THEOREM TypeCorrect == Spec => []TypeOK
<1>1. ProxyInv => TypeOK
  BY DEF ProxyInv
<1> QED
  BY <1>1, Invariance, PTL

\* get_server_with_min_load never returns NULL: the error path of
\* accept_new_client is dead, whatever BUFLEN, as long as INT_MAX > 2 * BUFLEN.
THEOREM AlwaysFound == Spec => []ServerAlwaysFound
<1>1. ProxyInv => ServerAlwaysFound
  BY ScanEnd DEF ServerAlwaysFound, Server, NoLine, ProxyInv, TypeOK
<1> QED
  BY <1>1, Invariance, PTL
=============================================================================
