--------------------------- MODULE ProxyRelaying ---------------------------
(***************************************************************************)
(* What a relay may rely on when it routes a packet: its lookup stops at   *)
(* the first entry that matches, a NULL entry means an unknown address,    *)
(* the descriptor it sends to is the client's unless the client is         *)
(* leaving, DT_EOJ is the last packet of a server, and every relay but the *)
(* first runs until its connection ends.                                   *)
(***************************************************************************)
EXTENDS ProxySafety

-----------------------------------------------------------------------------
(* Lookups. *)

\* Published entries keep their address; no step takes one back.
AddrKept ==
  /\ nb_clients <= nb_clients' /\ nb_clients' \in Nat
  /\ \A j \in Slot : j < nb_clients => client'[j].addr = client[j].addr

LEMMA TableKept ==
  ASSUME ProxyInv, client' = client, nb_clients' = nb_clients
  PROVE  AddrKept
BY ConstantsOK DEF AddrKept, ProxyInv, TypeOK

LEMMA AddrAccept ==
  ASSUME ProxyInv, Accept
  PROVE  AddrKept
<1>1. nb_clients \in Nat /\ nb_clients' = nb_clients
  BY ConstantsOK DEF Accept, ProxyInv, TypeOK, countVars, loadVars
<1>2. PICK x : client' = [client EXCEPT ![nb_clients] = x]
  BY DEF Accept
<1> QED
  BY <1>1, <1>2 DEF AddrKept, ProxyInv, TypeOK

LEMMA AddrUpdate ==
  ASSUME ProxyInv, nb_clients' = nb_clients,
         NEW c \in Slot, NEW x,
         client' = [client EXCEPT ![c] = x], x.addr = client[c].addr
  PROVE  AddrKept
BY ConstantsOK DEF AddrKept, ProxyInv, TypeOK

LEMMA AddrHandler ==
  ASSUME ProxyInv, NEW c \in Slot, Handler(c)
  PROVE  AddrKept
<1>1. nb_clients' = nb_clients
  BY HandlerMain
<1> DEFINE x == [client[c] EXCEPT !.sock_fd = NoFd]
           n == IF up[c] = <<>> THEN NoName ELSE Head(up[c]).name
           y == [client[c] EXCEPT !.name = n]
<1>2. x.addr = client[c].addr /\ y.addr = client[c].addr
  BY DEF ProxyInv, TypeOK, ClientSlot
<1>3. CASE MarkClosed(c)
  <2>1. client' = [client EXCEPT ![c] = x]
    BY <1>3 DEF MarkClosed
  <2> HIDE DEF x
  <2> QED
    BY <1>1, <1>2, <2>1, AddrUpdate
<1>4. CASE ReceiveName(c)
  <2>1. client' = client \/ client' = [client EXCEPT ![c] = y]
    BY <1>4 DEF ReceiveName
  <2> HIDE DEF y
  <2> QED
    BY <1>1, <1>2, <2>1, AddrUpdate, TableKept
<1>5. CASE ~(MarkClosed(c) \/ ReceiveName(c))
  <2>1. client' = client
    BY <1>5 DEF Handler, Enter, Increment, LoopTest, LockToReceive, Receive,
       ReceiveEnd, ReceiveError, SearchName, Answer, Forward, Uncount,
       Decrement, CloseSocket, LockToRelease, ReleaseLoad, ReadCount, WriteCount
  <2> QED
    BY <1>1, <2>1, TableKept
<1> QED
  BY <1>3, <1>4, <1>5

LEMMA AddrNext ==
  ASSUME ProxyInv, [Next]_vars
  PROVE  AddrKept
<1>1. CASE \E c \in Slot : Handler(c)
  BY <1>1, AddrHandler
<1>2. CASE Accept
  BY <1>2, AddrAccept
<1>3. CASE Assign
  <2> DEFINE x == [client[nb_clients] EXCEPT !.server = best.server]
  <2>1. nb_clients \in Slot /\ nb_clients' = nb_clients
    BY <1>3, PlacedSlot DEF Assign, countVars
  <2>2. client' = [client EXCEPT ![nb_clients] = x]
    BY <1>3 DEF Assign
  <2>3. x.addr = client[nb_clients].addr
    BY <2>1 DEF ProxyInv, TypeOK, ClientSlot
  <2> HIDE DEF x
  <2> QED
    BY <2>1, <2>2, <2>3, AddrUpdate
<1>4. CASE CountClient
  BY <1>4, ConstantsOK DEF CountClient, AddrKept, ProxyInv, TypeOK
<1>5. CASE \/ OpenServer \/ SkipServer \/ PublishServer \/ EndOfFile \/ Scan
           \/ LockLeast \/ LockAssigned \/ AddLoad \/ Spawn \/ JoinHandlers
           \/ SendEoj \/ JoinRelay \/ JoinUnstarted \/ Stop \/ UNCHANGED vars
  <2>1. client' = client /\ nb_clients' = nb_clients
    BY <1>5
    DEF OpenServer, SkipServer, PublishServer, EndOfFile, Scan, LockLeast,
        LockAssigned, AddLoad, Spawn, JoinHandlers, SendEoj, JoinRelay,
        JoinUnstarted, Stop, vars, countVars, loadVars
  <2> QED
    BY <2>1, TableKept
<1>6. CASE \/ \E s \in Line : Relay(s) \/ Serve(s) \/ ServerDies(s)
           \/ \E c \in Slot : Peer(c)
  <2>1. client' = client /\ nb_clients' = nb_clients
    BY <1>6
    DEF Relay, RelayTest, RelayReceive, RelayError, RelayLookup, RelayNull,
        RelayCheck, RelayReadFd, RelayWrite, RelayCancelled, Serve, ServerReads,
        ServerWrites, ServerDies, Peer, PeerAuth, PeerAsk, PeerName,
        PeerAnswered, PeerBegin, PeerSend, PeerEnd, PeerClose, countVars,
        loadVars
  <2> QED
    BY <2>1, TableKept
<1> QED
  BY <1>1, <1>2, <1>3, <1>4, <1>5, <1>6 DEF Next, Proceed

\* The steps of everybody else keep what a lookup knows.
LEMMA WalkKept ==
  ASSUME ProxyInv, AddrKept, NEW s \in Line, Walks(relay[s]),
         relay'[s] = relay[s]
  PROVE  Walks(relay[s])'
<1> DEFINE r == relay[s]
<1>1. r \in RelayThread /\ r.i \in Nat /\ nb_clients \in Nat
  BY ConstantsOK DEF ProxyInv, TypeOK, RelayThread
<1>2. CASE r.pc \in {"lookup", "origin"}
  <2>1. /\ r.i <= nb_clients
        /\ \A j \in Slot : j < r.i => client[j].addr # Sought(r)
    BY <1>2 DEF Walks
  <2>2. r.i <= nb_clients'
    BY <1>1, <2>1 DEF AddrKept
  <2>3. \A j \in Slot : j < r.i => client'[j].addr # Sought(r)
    BY <1>1, <2>1, ConstantsOK DEF AddrKept, Slot
  <2> QED
    BY <1>2, <2>2, <2>3 DEF Walks, Sought
<1>3. CASE r.pc \in {"check", "send", "write"}
  <2>1. r.i < nb_clients /\ r.i \in Slot
    BY <1>1, <1>3, ConstantsOK DEF ProxyInv, LookupInv, TypeOK, Slot
  <2>2. /\ client[r.i].addr \in {r.data.dest, r.data.origin}
        /\ \A j \in Slot : j < r.i => client[j].addr # client[r.i].addr
    BY <1>3 DEF Walks
  <2>3. client'[r.i].addr = client[r.i].addr
    BY <2>1 DEF AddrKept
  <2>4. \A j \in Slot : j < r.i => client'[j].addr = client[j].addr
    BY <1>1, <2>1, ConstantsOK DEF AddrKept, Slot
  <2> QED
    BY <1>3, <2>2, <2>3, <2>4 DEF Walks
<1>4. CASE r.pc \notin {"lookup", "origin", "check", "send", "write"}
  BY <1>4 DEF Walks
<1> QED
  BY <1>2, <1>3, <1>4

\* A relay's step that leads to a state the table agrees with.
LEMMA WalkStep ==
  ASSUME ProxyInv, NEW s \in Line, NEW r, relay' = [relay EXCEPT ![s] = r],
         Walks(r), client' = client, nb_clients' = nb_clients, WalkInv
  PROVE  WalkInv'
<1>1. \A t \in Line : relay'[t] = IF t = s THEN r ELSE relay[t]
  BY DEF ProxyInv, TypeOK
<1>2. \A t \in Line : Walks(relay'[t])
  BY <1>1 DEF WalkInv
<1> QED
  BY <1>2 DEF WalkInv, Walks, Sought

LEMMA WalkReceive ==
  ASSUME ProxyInv, WalkInv, NEW s \in Line, RelayReceive(s)
  PROVE  WalkInv'
<1>1. PICK d :
        relay' = [relay EXCEPT ![s].pc = "lookup", ![s].i = 0, ![s].data = d]
  BY DEF RelayReceive
<1> DEFINE r == [relay[s] EXCEPT !.pc = "lookup", !.i = 0, !.data = d]
<1>2. r.pc = "lookup" /\ r.i = 0
  BY DEF ProxyInv, TypeOK, RelayThread
<1>3. relay' = [relay EXCEPT ![s] = r]
  BY <1>1
<1> HIDE DEF r
<1>4. Walks(r)
  BY <1>2, ConstantsOK DEF Walks, Slot, ProxyInv, TypeOK
<1> QED
  BY <1>3, <1>4, WalkStep DEF RelayReceive, countVars, loadVars

LEMMA WalkLookup ==
  ASSUME ProxyInv, WalkInv, NEW s \in Line, RelayLookup(s)
  PROVE  WalkInv'
<1> DEFINE i == relay[s].i
           n == [relay[s] EXCEPT !.i = i + 1]
           to == IF relay[s].pc = "lookup" THEN "check" ELSE "send"
           f == [relay[s] EXCEPT !.pc = to]
<1>1. /\ relay[s] \in RelayThread /\ i \in Nat /\ i < nb_clients
      /\ nb_clients \in Nat /\ relay[s].pc \in {"lookup", "origin"}
      /\ client' = client /\ nb_clients' = nb_clients
  BY ConstantsOK
  DEF ProxyInv, TypeOK, RelayThread, RelayLookup, countVars, loadVars
<1>2. \A j \in Slot : j < i => client[j].addr # Sought(relay[s])
  BY <1>1 DEF WalkInv, Walks
<1>3. CASE client[i].addr # Sought(relay[s])
  <2>1. relay' = [relay EXCEPT ![s] = n]
    BY <1>3 DEF RelayLookup
  <2>2. /\ n.pc = relay[s].pc /\ n.i = i + 1 /\ n.data = relay[s].data
        /\ Sought(n) = Sought(relay[s])
    BY <1>1 DEF RelayThread, Sought
  <2>3. \A j \in Slot : j < i + 1 => j < i \/ j = i
    BY <1>1 DEF Slot
  <2> HIDE DEF n
  <2>4. Walks(n)
    BY <1>1, <1>2, <1>3, <2>2, <2>3 DEF Walks
  <2> QED
    BY <1>1, <2>1, <2>4, WalkStep
<1>4. CASE client[i].addr = Sought(relay[s])
  <2>1. relay' = [relay EXCEPT ![s] = f]
    BY <1>4 DEF RelayLookup
  <2>2. f.pc \in {"check", "send"} /\ f.i = i /\ f.data = relay[s].data
    BY <1>1 DEF RelayThread
  <2>3. Sought(relay[s]) \in {f.data.dest, f.data.origin}
    BY <2>2 DEF Sought
  <2> HIDE DEF f
  <2>4. Walks(f)
    BY <1>2, <1>4, <2>2, <2>3 DEF Walks
  <2> QED
    BY <1>1, <2>1, <2>4, WalkStep
<1> QED
  BY <1>3, <1>4

\* A packet that goes back is looked up from the first entry again.
LEMMA WalkCheck ==
  ASSUME ProxyInv, WalkInv, NEW s \in Line, RelayCheck(s)
  PROVE  WalkInv'
<1> DEFINE f == [relay[s] EXCEPT !.pc = "send"]
           b == Returned(relay[s])
<1>1. /\ relay[s] \in RelayThread /\ relay[s].pc = "check"
      /\ client' = client /\ nb_clients' = nb_clients
  BY DEF ProxyInv, TypeOK, RelayCheck, countVars, loadVars
<1>2. PICK r \in {f, b} : relay' = [relay EXCEPT ![s] = r]
  BY DEF RelayCheck
<1>3. Walks(f)
  <2>1. f.pc = "send" /\ f.i = relay[s].i /\ f.data = relay[s].data
    BY <1>1 DEF RelayThread
  <2> HIDE DEF f
  <2> QED
    BY <1>1, <2>1 DEF WalkInv, Walks
<1>4. Walks(b)
  <2>1. b.pc = "origin" /\ b.i = 0
    BY <1>1 DEF RelayThread, Returned
  <2> HIDE DEF b
  <2> QED
    BY <2>1, ConstantsOK DEF Walks, Slot, ProxyInv, TypeOK
<1> HIDE DEF f, b
<1> QED
  BY <1>1, <1>2, <1>3, <1>4, WalkStep

LEMMA WalkReadFd ==
  ASSUME ProxyInv, WalkInv, NEW s \in Line, RelayReadFd(s)
  PROVE  WalkInv'
<1> DEFINE fd == client[relay[s].i].sock_fd
           r == [relay[s] EXCEPT !.pc = "write", !.fd = fd]
<1>1. /\ relay[s] \in RelayThread /\ relay[s].pc = "send"
      /\ client' = client /\ nb_clients' = nb_clients
      /\ relay' = [relay EXCEPT ![s] = r]
  BY DEF ProxyInv, TypeOK, RelayReadFd, countVars, loadVars
<1>2. r.pc = "write" /\ r.i = relay[s].i /\ r.data = relay[s].data
  BY <1>1 DEF RelayThread
<1> HIDE DEF r
<1>3. Walks(r)
  BY <1>1, <1>2 DEF WalkInv, Walks
<1> QED
  BY <1>1, <1>3, WalkStep

\* The other steps of a relay end a lookup or are taken outside one.
LEMMA WalkLeaves ==
  ASSUME ProxyInv, WalkInv, NEW s \in Line,
         RelayTest(s) \/ RelayError(s) \/ RelayWrite(s) \/ RelayCancelled(s)
  PROVE  WalkInv'
<1>1. client' = client /\ nb_clients' = nb_clients
  BY DEF RelayTest, RelayError, RelayWrite, RelayCancelled, countVars, loadVars
<1>2. PICK r : /\ relay' = [relay EXCEPT ![s] = r]
               /\ r.pc \in {"recv", "exit", "test"}
  <2> DEFINE x(p) == [relay[s] EXCEPT !.pc = p]
  <2>1. \A p : x(p).pc = p
    BY DEF ProxyInv, TypeOK, RelayThread
  <2>2. CASE RelayWrite(s)
    <3> DEFINE z == [pc |-> "test", i |-> 0, fd |-> NoFd, data |-> Zero]
    <3>1. relay' = [relay EXCEPT ![s] = z] /\ z.pc = "test"
      BY <2>2 DEF RelayWrite
    <3> HIDE DEF z
    <3> QED
      BY <3>1
  <2>3. CASE RelayTest(s) \/ RelayError(s) \/ RelayCancelled(s)
    <3>1. PICK p \in {"recv", "exit"} : relay' = [relay EXCEPT ![s] = x(p)]
      BY <2>3 DEF RelayTest, RelayError, RelayCancelled
    <3> QED
      BY <2>1, <3>1
  <2> QED
    BY <2>2, <2>3
<1>3. Walks(r)
  BY <1>2 DEF Walks
<1> QED
  BY <1>1, <1>2, <1>3, WalkStep

LEMMA WalkOpen ==
  ASSUME ProxyInv, WalkInv, OpenServer
  PROVE  WalkInv'
<1>1. PICK pc \in {"test", "none"} :
        relay' = [relay EXCEPT ![nb_servers].pc = pc]
  BY DEF OpenServer, Created
<1> DEFINE r == [relay[nb_servers] EXCEPT !.pc = pc]
<1>2. /\ nb_servers \in Line /\ relay' = [relay EXCEPT ![nb_servers] = r]
      /\ client' = client /\ nb_clients' = nb_clients
  <2>1. /\ client' = client /\ nb_clients' = nb_clients
        /\ mpc = "open" /\ mi < NLINES
    BY DEF OpenServer, countVars
  <2>2. nb_servers \in Line
    BY <2>1, ConstantsOK DEF ProxyInv, TypeOK, MainInv, Line
  <2> QED
    BY <1>1, <2>1, <2>2 DEF ProxyInv, TypeOK
<1>3. r.pc = pc
  BY <1>2 DEF ProxyInv, TypeOK, RelayThread
<1> HIDE DEF r
<1>4. Walks(r)
  BY <1>3 DEF Walks
<1> QED
  BY <1>2, <1>4, WalkStep

\* Only OpenServer and the relays themselves move a relay.
LEMMA RelayChangers ==
  ASSUME [Next]_vars
  PROVE  relay' = relay \/ OpenServer \/ \E t \in Line : Relay(t)
<1>1. CASE \E c \in Slot : Handler(c)
  BY <1>1
  DEF Handler, Enter, Increment, LoopTest, LockToReceive, Receive, ReceiveEnd,
      ReceiveError, ReceiveName, SearchName, Answer, Forward, MarkClosed,
      Uncount, Decrement, CloseSocket, LockToRelease, ReleaseLoad, ReadCount,
      WriteCount
<1>2. CASE \/ Accept \/ SkipServer \/ PublishServer \/ EndOfFile \/ Scan
           \/ LockLeast \/ Assign \/ LockAssigned \/ AddLoad \/ Spawn
           \/ CountClient \/ JoinHandlers \/ SendEoj \/ JoinRelay
           \/ JoinUnstarted \/ Stop \/ UNCHANGED vars
  BY <1>2
  DEF Accept, SkipServer, PublishServer, EndOfFile, Scan, LockLeast, Assign,
      LockAssigned, AddLoad, Spawn, CountClient, JoinHandlers, SendEoj,
      JoinRelay, JoinUnstarted, Stop, vars
<1>3. CASE \/ \E t \in Line : Serve(t) \/ ServerDies(t)
           \/ \E c \in Slot : Peer(c)
  BY <1>3
  DEF Serve, ServerReads, ServerWrites, ServerDies, Peer, PeerAuth, PeerAsk,
      PeerName, PeerAnswered, PeerBegin, PeerSend, PeerEnd, PeerClose
<1> QED
  BY <1>1, <1>2, <1>3 DEF Next, Proceed

LEMMA WalkInit == Init => WalkInv
BY DEF Init, WalkInv, Walks

LEMMA WalkNext == ProxyInv /\ WalkInv /\ [Next]_vars => WalkInv'
<1> SUFFICES ASSUME ProxyInv, WalkInv, [Next]_vars PROVE WalkInv'
  OBVIOUS
<1>1. CASE relay' = relay
  <2> SUFFICES ASSUME NEW s \in Line PROVE Walks(relay[s])'
    BY DEF WalkInv
  <2> QED
    BY <1>1, AddrNext, WalkKept DEF WalkInv
<1>2. CASE \E s \in Line : Relay(s) /\ ~RelayNull(s)
  BY <1>2, WalkReceive, WalkLookup, WalkCheck, WalkReadFd, WalkLeaves DEF Relay
<1>3. CASE OpenServer
  BY <1>3, WalkOpen
<1>4. relay' = relay \/ OpenServer \/ \E s \in Line : Relay(s) /\ ~RelayNull(s)
  BY RelayChangers DEF RelayNull
<1> QED
  BY <1>1, <1>2, <1>3, <1>4

\* get_client_by_addr skips no match and runs past no published entry, for
\* every interleaving of lookups with the entries main appends.
THEOREM WalksInTable == Spec => []WalkInv
BY WalkInit, WalkNext, Invariance, PTL DEF Spec

\* The part of it that the runs of the relay check.
THEOREM FirstMatchFound == Spec => []LookupFirstMatch
<1>1. WalkInv => LookupFirstMatch
  BY DEF WalkInv, Walks, LookupFirstMatch
<1> QED
  BY <1>1, WalksInTable, PTL
-----------------------------------------------------------------------------
(* The NULL entry. *)

\* A process that has ended takes no step.
LEMMA DeadStutters ==
  ASSUME status # "running", [Next]_vars
  PROVE  UNCHANGED vars
<1>1. ~ \E c \in Slot : Handler(c)
  BY DEF Handler, Enter, Increment, LoopTest, LockToReceive, Receive,
     ReceiveEnd, ReceiveError, ReceiveName, SearchName, Answer, Forward,
     MarkClosed, Uncount, Decrement, CloseSocket, LockToRelease, ReleaseLoad,
     ReadCount, WriteCount, Step, Resume
<1>2. ~ \E c \in Slot : Peer(c)
  BY DEF Peer, PeerAuth, PeerAsk, PeerName, PeerAnswered, PeerBegin, PeerSend,
     PeerEnd, PeerClose
<1>3. ~ \E s \in Line : Relay(s) \/ Serve(s) \/ ServerDies(s)
  BY DEF Relay, RelayTest, RelayReceive, RelayError, RelayLookup, RelayNull,
     RelayCheck, RelayReadFd, RelayWrite, RelayCancelled, Serve, ServerReads,
     ServerWrites, ServerDies
<1>4. ~(Accept \/ Proceed)
  BY DEF Accept, Proceed, OpenServer, SkipServer, PublishServer, EndOfFile,
     Scan, LockLeast, Assign, LockAssigned, AddLoad, Spawn, CountClient,
     JoinHandlers, SendEoj, JoinRelay, JoinUnstarted, Stop
<1> QED
  BY <1>1, <1>2, <1>3, <1>4 DEF Next

\* Only the relays dereference an entry that may be NULL.
LEMMA SegvOnlyNull ==
  ASSUME status = "running", status' = "segv", [Next]_vars
  PROVE  \E s \in Line : RelayNull(s)
<1>1. ~ \E c \in Slot : Handler(c)
  BY DEF Handler, Enter, Increment, LoopTest, LockToReceive, Receive,
     ReceiveEnd, ReceiveError, ReceiveName, SearchName, Answer, Forward,
     MarkClosed, Uncount, Decrement, CloseSocket, LockToRelease, ReleaseLoad,
     ReadCount, WriteCount, Send, SendServer
<1>2. ~ \E c \in Slot : Peer(c)
  BY DEF Peer, PeerAuth, PeerAsk, PeerName, PeerAnswered, PeerBegin, PeerSend,
     PeerEnd, PeerClose
<1>3. ~ \E s \in Line : (Relay(s) /\ ~RelayNull(s)) \/ Serve(s) \/ ServerDies(s)
  BY DEF Relay, RelayTest, RelayReceive, RelayError, RelayLookup, RelayCheck,
     RelayReadFd, RelayWrite, RelayCancelled, Serve, ServerReads, ServerWrites,
     ServerDies, Send
<1>4. ~(Accept \/ Proceed)
  BY DEF Accept, Proceed, OpenServer, SkipServer, PublishServer, EndOfFile,
     Scan, LockLeast, Assign, LockAssigned, AddLoad, Spawn, CountClient,
     JoinHandlers, SendEoj, JoinRelay, JoinUnstarted, Stop, SendServer
<1>5. ~ UNCHANGED vars
  BY DEF vars
<1> QED
  BY <1>1, <1>2, <1>3, <1>4, <1>5 DEF Next

LEMMA NullStep ==
  ASSUME ProxyInv, WalkInv, NEW s \in Line, RelayNull(s)
  PROVE  NullOnlyIfUnknown'
<1>1. /\ relay' = relay /\ client' = client /\ nb_clients' = nb_clients
      /\ relay[s].pc \in {"lookup", "origin"} /\ relay[s].i >= nb_clients
  BY DEF RelayNull, countVars, loadVars
<1>2. \A c \in 0..(nb_clients - 1) : c \in Slot /\ c < relay[s].i
  BY <1>1, ConstantsOK DEF ProxyInv, TypeOK, RelayThread, Slot
<1>3. \A c \in 0..(nb_clients - 1) : client[c].addr # Sought(relay[s])
  BY <1>1, <1>2 DEF WalkInv, Walks
<1> QED
  BY <1>1, <1>3 DEF NullOnlyIfUnknown, Sought

LEMMA NullNext ==
  ProxyInv /\ WalkInv /\ NullOnlyIfUnknown /\ [Next]_vars => NullOnlyIfUnknown'
<1> SUFFICES ASSUME ProxyInv, WalkInv, NullOnlyIfUnknown, [Next]_vars
             PROVE  NullOnlyIfUnknown'
  OBVIOUS
<1>1. CASE status # "running"
  <2>1. UNCHANGED vars
    BY <1>1, DeadStutters
  <2> QED
    BY <2>1 DEF NullOnlyIfUnknown, Sought, vars, countVars, loadVars
<1>2. CASE status = "running" /\ status' = "segv"
  BY <1>2, SegvOnlyNull, NullStep
<1>3. CASE status' # "segv"
  BY <1>3 DEF NullOnlyIfUnknown
<1> QED
  BY <1>1, <1>2, <1>3

\* The process dies of a NULL entry only for an address that no published entry
\* has, never because a lookup missed one.
THEOREM NullUnknown == Spec => []NullOnlyIfUnknown
<1>1. Init => NullOnlyIfUnknown
  BY DEF Init, NullOnlyIfUnknown
<1> QED
  BY <1>1, NullNext, WalksInTable, Invariance, PTL DEF Spec
-----------------------------------------------------------------------------
(* The descriptor of a send. *)

\* A handler that has begun to close, or has ended, never serves again.
LEMMA LeavingNext ==
  ASSUME ProxyInv, [Next]_vars
  PROVE  \A c \in Slot :
           /\ handler[c].pc \in Departed => handler'[c].pc \in Departed
           /\ handler[c].pc \in Ended => handler'[c].pc \in Ended
           /\ handler[c].pc = "none" /\ ~Spawn => handler'[c].pc = "none"
<1>1. CASE \E c \in Slot : Handler(c)
  <2>1. PICK c \in Slot : Handler(c)
    BY <1>1
  <2>2. \A e \in Slot \ {c} : handler'[e] = handler[e]
    BY <2>1
    DEF Handler, Enter, Increment, LoopTest, LockToReceive, Receive,
        ReceiveEnd, ReceiveError, ReceiveName, SearchName, Answer, Forward,
        MarkClosed, Uncount, Decrement, CloseSocket, LockToRelease,
        ReleaseLoad, ReadCount, WriteCount, Step, Resume, ProxyInv, TypeOK
  <2>3. handler[c].pc \notin Ended \cup {"none"}
    BY <2>1
    DEF Handler, Enter, Increment, LoopTest, LockToReceive, Receive,
        ReceiveEnd, ReceiveError, ReceiveName, SearchName, Answer, Forward,
        MarkClosed, Uncount, Decrement, CloseSocket, LockToRelease,
        ReleaseLoad, ReadCount, WriteCount, Step, Resume, Ended
  <2>4. handler[c].pc \in Departed => handler'[c].pc \in Departed
    <3>1. SUFFICES ASSUME handler[c].pc \in Departed
                   PROVE  handler'[c].pc \in Departed
      OBVIOUS
    <3>2. \/ Uncount(c) \/ Decrement(c) \/ CloseSocket(c) \/ LockToRelease(c)
          \/ ReleaseLoad(c)
      BY <2>1, <3>1
      DEF Handler, Enter, Increment, LoopTest, LockToReceive, Receive,
          ReceiveEnd, ReceiveError, ReceiveName, SearchName, Answer, Forward,
          MarkClosed, ReadCount, WriteCount, Step, Resume, Departed
    <3>3. PICK to \in {"decrement", "shut", "release", "give", "closed"} :
            \E n : handler' = [handler EXCEPT ![c] =
                                [handler[c] EXCEPT !.pc = to, !.cnt = n]]
      <4>1. CASE Uncount(c)
        BY <4>1 DEF Uncount, ReadCount
      <4>2. CASE Decrement(c)
        BY <4>2 DEF Decrement, WriteCount
      <4>3. CASE CloseSocket(c)
        <5> DEFINE h == [handler[c] EXCEPT !.pc = "release"]
        <5>1. h = [handler[c] EXCEPT !.pc = "release", !.cnt = handler[c].cnt]
          BY DEF ProxyInv, TypeOK, HandlerThread
        <5>2. handler' = [handler EXCEPT ![c] = h]
          BY <4>3 DEF CloseSocket, Step
        <5> QED
          BY <5>1, <5>2
      <4>4. CASE LockToRelease(c)
        BY <4>4 DEF LockToRelease
      <4>5. CASE ReleaseLoad(c)
        BY <4>5 DEF ReleaseLoad
      <4> QED
        BY <3>2, <4>1, <4>2, <4>3, <4>4, <4>5
    <3>4. PICK n : handler' = [handler EXCEPT ![c] =
                                [handler[c] EXCEPT !.pc = to, !.cnt = n]]
      BY <3>3
    <3> DEFINE moved == [handler[c] EXCEPT !.pc = to, !.cnt = n]
    <3>5. moved.pc = to /\ handler'[c] = moved
      BY <3>4 DEF ProxyInv, TypeOK, HandlerThread
    <3> QED
      BY <3>5 DEF Departed
  <2> QED
    BY <2>2, <2>3, <2>4
<1>2. CASE Spawn
  <2>1. nb_clients \in Slot /\ handler[nb_clients].pc = "none"
    BY <1>2, PlacedSlot DEF Spawn
  <2>2. \A e \in Slot \ {nb_clients} : handler'[e] = handler[e]
    BY <1>2 DEF Spawn, ProxyInv, TypeOK
  <2> QED
    BY <1>2, <2>1, <2>2 DEF Departed, Ended
<1>3. CASE handler' = handler
  BY <1>3
<1>4. \/ handler' = handler \/ Spawn \/ \E c \in Slot : Handler(c)
  BY DEF Next, Proceed, Accept, OpenServer, SkipServer, PublishServer,
     EndOfFile, Scan, LockLeast, Assign, LockAssigned, AddLoad, CountClient,
     JoinHandlers, SendEoj, JoinRelay, JoinUnstarted, Stop, vars, Relay,
     RelayTest, RelayReceive, RelayError, RelayLookup, RelayNull, RelayCheck,
     RelayReadFd, RelayWrite, RelayCancelled, Serve, ServerReads,
     ServerWrites, ServerDies, Peer, PeerAuth, PeerAsk, PeerName,
     PeerAnswered, PeerBegin, PeerSend, PeerEnd, PeerClose
<1> QED
  BY <1>1, <1>2, <1>3, <1>4

\* Steps that change no sock_fd and publish no slot keep the open ones open.
LEMMA OpenKept ==
  ASSUME ProxyInv, OpenUntilMarked, [Next]_vars,
         \A c \in Slot :
           /\ client'[c].sock_fd = client[c].sock_fd
           /\ Has(c, Filling)'
                => Has(c, Filling)
  PROVE  OpenUntilMarked'
<1> SUFFICES ASSUME NEW c \in Slot,
                    Has(c, Filling)',
                    handler'[c].pc \notin Departed
             PROVE  client'[c].sock_fd # NoFd
  BY DEF OpenUntilMarked
<1>1. handler[c].pc \notin Departed
  BY LeavingNext
<1> QED
  BY <1>1 DEF OpenUntilMarked

LEMMA OpenAccept ==
  ASSUME ProxyInv, OpenUntilMarked, Accept
  PROVE  OpenUntilMarked'
<1>1. nb_clients \in Slot /\ nb_clients' = nb_clients /\ handler' = handler
  BY ConstantsOK DEF Accept, TableFull, ProxyInv, TypeOK, Slot, countVars,
                     loadVars
<1>2. PICK a \in Addr, fd \in Fd :
        client' = [client EXCEPT ![nb_clients] =
                    [EmptySlot EXCEPT !.sock_fd = fd, !.addr = a]]
  BY DEF Accept
<1>3. client'[nb_clients].sock_fd = fd /\ fd # NoFd
  BY <1>1, <1>2 DEF ProxyInv, TypeOK, EmptySlot, Fd, NoFd
<1>4. \A c \in Slot \ {nb_clients} :
        /\ client'[c] = client[c]
        /\ Has(c, Filling)' => c < nb_clients
  BY <1>1, <1>2 DEF ProxyInv, TypeOK, Has
<1> QED
  BY <1>1, <1>3, <1>4 DEF OpenUntilMarked, Has

LEMMA OpenMarkClosed ==
  ASSUME ProxyInv, OpenUntilMarked, NEW c \in Slot, MarkClosed(c)
  PROVE  OpenUntilMarked'
<1> DEFINE h == [handler[c] EXCEPT !.pc = "uncount"]
<1>1. h.pc = "uncount"
  BY DEF ProxyInv, TypeOK, HandlerThread
<1>2. handler' = [handler EXCEPT ![c] = h]
  BY DEF MarkClosed, Step
<1> HIDE DEF h
<1>3. handler'[c].pc \in Departed
  BY <1>1, <1>2 DEF ProxyInv, TypeOK, Departed
<1>4. \A e \in Slot \ {c} : client'[e] = client[e] /\ handler'[e] = handler[e]
  BY <1>2 DEF MarkClosed, ProxyInv, TypeOK
<1>5. nb_clients' = nb_clients /\ mpc' = mpc
  BY DEF MarkClosed, mainVars, countVars, loadVars
<1> QED
  BY <1>3, <1>4, <1>5 DEF OpenUntilMarked, Has

LEMMA OpenInit == Init => OpenUntilMarked
BY ConstantsOK DEF Init, OpenUntilMarked, Has, Filling, Slot

LEMMA OpenNext == ProxyInv /\ OpenUntilMarked /\ [Next]_vars => OpenUntilMarked'
<1> SUFFICES ASSUME ProxyInv, OpenUntilMarked, [Next]_vars
             PROVE  OpenUntilMarked'
  OBVIOUS
<1>1. CASE \E c \in Slot : Handler(c)
  <2>1. PICK c \in Slot : Handler(c)
    BY <1>1
  <2>2. CASE MarkClosed(c)
    BY <2>2, OpenMarkClosed
  <2>3. CASE ~MarkClosed(c)
    <3>1. nb_clients' = nb_clients /\ mpc' = mpc
      BY <2>1, HandlerMain DEF mainVars
    <3>2. \A e \in Slot : client'[e].sock_fd = client[e].sock_fd
      <4>1. CASE CloseSocket(c) \/ ReleaseLoad(c)
        BY <4>1 DEF CloseSocket, LockToRelease, ReleaseLoad
      <4>2. CASE ~(CloseSocket(c) \/ ReleaseLoad(c))
        BY <2>1, <2>3, <4>2, QuietHandler DEF Quiet, ProxyInv
      <4> QED
        BY <4>1, <4>2
    <3> QED
      BY <3>1, <3>2, OpenKept DEF Has
  <2> QED
    BY <2>2, <2>3
<1>2. CASE Accept
  BY <1>2, OpenAccept
<1>3. CASE \/ LockLeast \/ Assign \/ LockAssigned \/ AddLoad \/ Spawn
           \/ CountClient
  <2>1. \A c \in Slot : Has(c, Filling)'
                          => Has(c, Filling)
    <3>1. /\ mpc \in Filling
          /\ \/ nb_clients' = nb_clients
             \/ nb_clients' = nb_clients + 1 /\ mpc' = "accept"
      BY <1>3
      DEF LockLeast, Assign, LockAssigned, AddLoad, Spawn, CountClient,
          countVars, Filling
    <3> QED
      BY <3>1 DEF Has, Filling, ProxyInv, TypeOK, Slot
  <2>2. \A c \in Slot : client'[c].sock_fd = client[c].sock_fd
    <3> DEFINE x == [client[nb_clients] EXCEPT !.server = best.server]
    <3>1. nb_clients \in Slot => x.sock_fd = client[nb_clients].sock_fd
      BY DEF ProxyInv, TypeOK, ClientSlot
    <3>2. client' = client \/ client' = [client EXCEPT ![nb_clients] = x]
      BY <1>3
      DEF LockLeast, Assign, LockAssigned, AddLoad, Spawn, CountClient
    <3> HIDE DEF x
    <3> QED
      BY <3>1, <3>2 DEF ProxyInv, TypeOK
  <2> QED
    BY <2>1, <2>2, OpenKept
<1>4. CASE \/ OpenServer \/ SkipServer \/ PublishServer \/ EndOfFile \/ Scan
           \/ JoinHandlers \/ SendEoj \/ JoinRelay \/ JoinUnstarted \/ Stop
  <2>1. \A c \in Slot : Has(c, Filling)'
                          => Has(c, Filling)
    BY <1>4
    DEF OpenServer, SkipServer, PublishServer, EndOfFile, Scan, JoinHandlers,
        SendEoj, JoinRelay, JoinUnstarted, Stop, countVars, mainVars, Has,
        Filling, ProxyInv, MainInv
  <2> QED
    BY <1>4, <2>1, QuietMain, OpenKept DEF Quiet
<1>5. CASE \/ \E s \in Line : Relay(s) \/ Serve(s) \/ ServerDies(s)
           \/ \E c \in Slot : Peer(c)
           \/ UNCHANGED vars
  BY <1>5, QuietOutside, OutsideMain, OpenKept DEF Quiet, Has, mainVars
<1> QED
  BY <1>1, <1>2, <1>3, <1>4, <1>5 DEF Next, Proceed

\* A published slot, or one whose handler runs already, is complete.
THEOREM PublishedReady == Spec => []PublishedSlotReady
<1>1. ProxyInv /\ OpenUntilMarked => PublishedSlotReady
  <2> SUFFICES ASSUME ProxyInv, OpenUntilMarked, NEW c \in Slot,
                      c < nb_clients \/ handler[c].pc # "none"
               PROVE  /\ client[c].addr \in Addr
                      /\ client[c].server \in 0..(nb_servers - 1)
                      /\ handler[c].pc \notin Departed => client[c].sock_fd # NoFd
    BY DEF PublishedSlotReady
  <2>1. Has(c, {"count"})
    BY DEF Has, ProxyInv, SlotInv
  <2>2. Has(c, Filling) /\ Has(c, Placed)
    BY <2>1 DEF Has, Filling, Placed
  <2> QED
    BY <2>2 DEF ProxyInv, SlotInv, OpenUntilMarked, Server
<1> QED
  BY <1>1, OpenInit, OpenNext, Invariance, PTL DEF Spec

\* A descriptor a slot has keeps naming it until its handler closes.
LEMMA FdKept ==
  ASSUME ProxyInv, [Next]_vars, NEW f \in Fd, NEW c \in Slot, fds[f] = c,
         handler[c].pc \notin Departed
  PROVE  fds'[f] = c
<1>1. CASE Accept
  BY <1>1 DEF Accept, ProxyInv, TypeOK, Slot, NoSlot
<1>2. CASE \E e \in Slot : CloseSocket(e)
  BY <1>2 DEF CloseSocket, Step, Departed
<1>3. CASE fds' = fds
  BY <1>3
<1>4. Accept \/ fds' = fds \/ \E e \in Slot : CloseSocket(e)
  BY DEF Next, Proceed, OpenServer, SkipServer, PublishServer, EndOfFile, Scan,
     LockLeast, Assign, LockAssigned, AddLoad, Spawn, CountClient, JoinHandlers,
     SendEoj, JoinRelay, JoinUnstarted, Stop, vars, Relay, RelayTest,
     RelayReceive, RelayError, RelayLookup, RelayNull, RelayCheck, RelayReadFd,
     RelayWrite, RelayCancelled, Serve, ServerReads, ServerWrites, ServerDies,
     Peer, PeerAuth, PeerAsk, PeerName, PeerAnswered, PeerBegin, PeerSend,
     PeerEnd, PeerClose, Handler, Enter, Increment, LoopTest, LockToReceive,
     Receive, ReceiveEnd, ReceiveError, ReceiveName, SearchName, Answer,
     Forward, MarkClosed, Uncount, Decrement, LockToRelease, ReleaseLoad,
     ReadCount, WriteCount
<1> QED
  BY <1>1, <1>2, <1>3, <1>4

\* A relay about to send has just read the descriptor, or had it before; one
\* that has ended ended at the loop's test, at an error or at a cancellation.
LEMMA RelayMoves ==
  ASSUME ProxyInv, [Next]_vars, NEW s \in Line, relay'[s] # relay[s]
  PROVE  /\ relay'[s].pc # "write" \/ RelayReadFd(s)
         /\ \/ relay'[s].pc # "exit"
            \/ RelayTest(s) \/ RelayError(s) \/ RelayCancelled(s)
<1> DEFINE x(t, p) == [relay[t] EXCEPT !.pc = p]
<1>1. \A t \in Line : \A p : x(t, p).pc = p
  BY DEF ProxyInv, TypeOK, RelayThread
<1>2. CASE \E t \in Line : Relay(t)
  <2>1. PICK t \in Line : Relay(t)
    BY <1>2
  <2>2. t # s => relay'[s] = relay[s]
    BY <2>1
    DEF Relay, RelayTest, RelayReceive, RelayError, RelayLookup, RelayNull,
        RelayCheck, RelayReadFd, RelayWrite, RelayCancelled, ProxyInv, TypeOK
  <2>3. CASE t = s
    <3>1. CASE RelayTest(s) \/ RelayError(s) \/ RelayCancelled(s)
      <4>1. PICK p \in {"recv", "exit"} : relay' = [relay EXCEPT ![s] = x(s, p)]
        BY <3>1 DEF RelayTest, RelayError, RelayCancelled
      <4>2. x(s, p).pc # "write"
        BY <1>1
      <4> HIDE DEF x
      <4>3. relay'[s] = x(s, p)
        BY <4>1 DEF ProxyInv, TypeOK
      <4> QED
        BY <3>1, <4>2, <4>3
    <3>2. CASE RelayReceive(s)
      <4>1. PICK d : relay' = [relay EXCEPT ![s] =
                       [relay[s] EXCEPT !.pc = "lookup", !.i = 0, !.data = d]]
        BY <3>2 DEF RelayReceive
      <4> QED
        BY <4>1 DEF ProxyInv, TypeOK, RelayThread
    <3>3. CASE RelayLookup(s)
      <4>1. \/ \E p \in {"check", "send"} :
                 relay' = [relay EXCEPT ![s] = x(s, p)]
            \/ relay' = [relay EXCEPT ![s] =
                             [relay[s] EXCEPT !.i = relay[s].i + 1]]
        BY <3>3 DEF RelayLookup
      <4>2. relay[s].pc \notin {"write", "exit"}
        BY <3>3 DEF RelayLookup
      <4> QED
        BY <1>1, <4>1, <4>2 DEF ProxyInv, TypeOK, RelayThread
    <3>4. CASE RelayCheck(s)
      <4>1. \/ relay' = [relay EXCEPT ![s] = x(s, "send")]
            \/ relay' = [relay EXCEPT ![s] = Returned(relay[s])]
        BY <3>4 DEF RelayCheck
      <4>2. Returned(relay[s]).pc = "origin" /\ x(s, "send").pc = "send"
        BY <1>1 DEF Returned, ProxyInv, TypeOK, RelayThread
      <4> HIDE DEF x
      <4> QED
        BY <4>1, <4>2 DEF ProxyInv, TypeOK
    <3>5. CASE RelayWrite(s)
      <4> DEFINE z == [pc |-> "test", i |-> 0, fd |-> NoFd, data |-> Zero]
      <4>1. relay' = [relay EXCEPT ![s] = z] /\ z.pc = "test"
        BY <3>5 DEF RelayWrite
      <4> HIDE DEF z
      <4> QED
        BY <4>1 DEF ProxyInv, TypeOK
    <3>6. CASE RelayNull(s)
      BY <3>6 DEF RelayNull
    <3>7. CASE RelayReadFd(s)
      <4> DEFINE r == [relay[s] EXCEPT !.pc = "write",
                                       !.fd = client[relay[s].i].sock_fd]
      <4>1. r.pc = "write" /\ relay' = [relay EXCEPT ![s] = r]
        BY <3>7 DEF RelayReadFd, ProxyInv, TypeOK, RelayThread
      <4> HIDE DEF r
      <4> QED
        BY <3>7, <4>1 DEF ProxyInv, TypeOK
    <3> QED
      BY <2>1, <2>3, <3>1, <3>2, <3>3, <3>4, <3>5, <3>6, <3>7 DEF Relay
  <2> QED
    BY <2>2, <2>3
<1>3. CASE OpenServer
  <2>1. PICK pc \in {"test", "none"} :
          relay' = [relay EXCEPT ![nb_servers].pc = pc]
    BY <1>3 DEF OpenServer, Created
  <2>2. /\ nb_servers \in Line
        /\ relay' = [relay EXCEPT ![nb_servers] = x(nb_servers, pc)]
    BY <1>3, <2>1, ConstantsOK DEF OpenServer, ProxyInv, TypeOK, MainInv, Line
  <2>3. x(nb_servers, pc).pc = pc
    BY <1>1, <2>2
  <2> HIDE DEF x
  <2> QED
    BY <2>2, <2>3 DEF ProxyInv, TypeOK
<1>4. CASE relay' = relay
  BY <1>4
<1> QED
  BY <1>2, <1>3, <1>4, RelayChangers

LEMMA SentNext ==
  /\ ProxyInv /\ OwnInv /\ OpenUntilMarked /\ SentToOwnerUnlessClosed
  /\ [Next]_vars
  => SentToOwnerUnlessClosed'
<1> SUFFICES ASSUME ProxyInv, OwnInv, OpenUntilMarked, SentToOwnerUnlessClosed,
                    [Next]_vars, NEW s \in Line, relay'[s].pc = "write"
             PROVE  \/ /\ relay'[s].fd \in Fd
                       /\ fds'[relay'[s].fd] = relay'[s].i
                    \/ handler'[relay'[s].i].pc \in Departed
  BY DEF SentToOwnerUnlessClosed
<1>1. \A i \in Nat : i < nb_clients => i \in Slot
  BY ConstantsOK DEF ProxyInv, TypeOK, Slot
<1>2. CASE relay'[s] = relay[s]
  <2> DEFINE i == relay[s].i
  <2>1. i \in Slot
    BY <1>1, <1>2 DEF ProxyInv, LookupInv, TypeOK, RelayThread
  <2>2. CASE handler[i].pc \in Departed
    BY <1>2, <2>1, <2>2, LeavingNext
  <2>3. CASE handler[i].pc \notin Departed
    <3>1. relay[s].fd \in Fd /\ fds[relay[s].fd] = i
      BY <1>2, <2>3 DEF SentToOwnerUnlessClosed
    <3> QED
      BY <1>2, <2>1, <2>3, <3>1, FdKept
  <2> QED
    BY <2>2, <2>3
<1>3. CASE RelayReadFd(s)
  <2> DEFINE i == relay[s].i
             f == client[i].sock_fd
             r == [relay[s] EXCEPT !.pc = "write", !.fd = f]
  <2>1. i < nb_clients /\ i \in Slot
    BY <1>1, <1>3 DEF RelayReadFd, ProxyInv, LookupInv, TypeOK, RelayThread
  <2>2. r.i = i /\ r.fd = f
    BY DEF ProxyInv, TypeOK, RelayThread
  <2>3. relay'[s] = r /\ fds' = fds /\ handler' = handler
    BY <1>3 DEF RelayReadFd, ProxyInv, TypeOK
  <2> HIDE DEF r
  <2>4. CASE handler[i].pc \in Departed
    BY <2>2, <2>3, <2>4
  <2>5. CASE handler[i].pc \notin Departed
    <3>1. f # NoFd
      BY <2>1, <2>5 DEF OpenUntilMarked, Has
    <3>2. f \in Fd
      BY <2>1, <3>1 DEF ProxyInv, TypeOK, ClientSlot
    <3>3. fds[f] = i
      BY <2>1, <3>1 DEF OwnInv, OpenSlotOwnsFd
    <3> QED
      BY <2>2, <2>3, <3>2, <3>3
  <2> QED
    BY <2>4, <2>5
<1> QED
  BY <1>2, <1>3, RelayMoves

\* A packet can only miss the client the relay found if that client is leaving:
\* no interleaving of the unlocked reads of sock_fd with closes and accepts
\* sends it to a client that stays.
THEOREM SentToOwner == Spec => []SentToOwnerUnlessClosed
<1>1. Init => SentToOwnerUnlessClosed
  BY DEF Init, SentToOwnerUnlessClosed
<1> QED
  BY <1>1, SentNext, OpenInit, OpenNext, DescriptorsOwned, Invariance, PTL
  DEF Spec
-----------------------------------------------------------------------------
(* The end of a server's stream. *)

\* main stays in the shutdown once it has begun it.
LEMMA ShutdownSteps ==
  ASSUME [Next]_vars
  PROVE  \/ mpc' = mpc /\ mi' = mi
         \/ mpc' \notin {"join", "eoj", "cancel"}
              /\ mpc \notin {"join", "eoj", "cancel"}
         \/ JoinHandlers \/ SendEoj \/ JoinRelay
<1>1. CASE \E c \in Slot : Handler(c)
  BY <1>1
  DEF Handler, Enter, Increment, LoopTest, LockToReceive, Receive, ReceiveEnd,
      ReceiveError, ReceiveName, SearchName, Answer, Forward, MarkClosed,
      Uncount, Decrement, CloseSocket, LockToRelease, ReleaseLoad, ReadCount,
      WriteCount, mainVars, loadVars
<1>2. CASE \/ Accept \/ OpenServer \/ SkipServer \/ PublishServer \/ EndOfFile
           \/ Scan \/ LockLeast \/ Assign \/ LockAssigned \/ AddLoad \/ Spawn
           \/ CountClient \/ JoinUnstarted \/ Stop \/ UNCHANGED vars
  BY <1>2
  DEF Accept, OpenServer, SkipServer, PublishServer, EndOfFile, Scan, LockLeast,
      Assign, LockAssigned, AddLoad, Spawn, CountClient, Stop, vars, mainVars,
      loadVars, JoinUnstarted
<1>3. CASE \/ \E s \in Line : Relay(s) \/ Serve(s) \/ ServerDies(s)
           \/ \E c \in Slot : Peer(c)
  BY <1>3
  DEF Relay, RelayTest, RelayReceive, RelayError, RelayLookup, RelayNull,
      RelayCheck, RelayReadFd, RelayWrite, RelayCancelled, Serve, ServerReads,
      ServerWrites, ServerDies, Peer, PeerAuth, PeerAsk, PeerName, PeerAnswered,
      PeerBegin, PeerSend, PeerEnd, PeerClose, mainVars, loadVars
<1> QED
  BY <1>1, <1>2, <1>3 DEF Next, Proceed

LEMMA JoinInit == Init => JoinInv
BY DEF Init, JoinInv

LEMMA JoinNext == ProxyInv /\ JoinInv /\ [Next]_vars => JoinInv'
<1> SUFFICES ASSUME ProxyInv, JoinInv, [Next]_vars PROVE JoinInv'
  OBVIOUS
<1>1. mpc \in {"join", "eoj", "cancel"} =>
        \A c \in Slot : Joined(c) => Joined(c)'
  BY LeavingNext DEF Joined, Spawn
<1>2. CASE mpc' = mpc /\ mi' = mi
  <2>1. mpc = "join" => nb_clients' = nb_clients
    <3>1. nb_clients' = nb_clients \/ CountClient
      BY HandlerMain, OutsideMain
      DEF Next, Proceed, Accept, OpenServer, SkipServer, PublishServer,
          EndOfFile, Scan, LockLeast, Assign, LockAssigned, AddLoad, Spawn,
          JoinHandlers, SendEoj, JoinRelay, JoinUnstarted, Stop, countVars,
          loadVars
    <3> QED
      BY <3>1 DEF CountClient
  <2> QED
    BY <1>1, <1>2, <2>1 DEF JoinInv
<1>3. CASE mpc' \notin {"join", "eoj", "cancel"}
  BY <1>3 DEF JoinInv
<1>4. CASE JoinHandlers
  <2>1. handler' = handler /\ nb_clients' = nb_clients /\ mi \in Nat
    BY <1>4 DEF JoinHandlers, countVars, ProxyInv, TypeOK, loadVars
  <2>2. CASE mpc = "accept"
    BY <1>4, <2>1, <2>2, ConstantsOK
    DEF JoinHandlers, TableFull, JoinInv, ProxyInv, TypeOK, Slot
  <2>3. CASE mpc = "join" /\ mi < nb_clients /\ Joined(mi) /\ mi' = mi + 1
             /\ mpc' = mpc
    <3>1. \A c \in Slot : c < mi + 1 => c < mi \/ c = mi
      BY <2>1 DEF Slot
    <3> QED
      BY <2>1, <2>3, <3>1 DEF JoinInv, Joined
  <2>4. CASE mpc = "join" /\ mi = nb_clients /\ mpc' = "eoj"
    <3>1. \A c \in Slot : c < mi
      BY <2>1, <2>4, ConstantsOK DEF JoinInv, Slot
    <3> QED
      BY <2>1, <2>4, <3>1 DEF JoinInv, Joined
  <2> QED
    BY <1>4, <2>2, <2>3, <2>4 DEF JoinHandlers
<1>5. CASE SendEoj \/ JoinRelay
  BY <1>5 DEF SendEoj, JoinRelay, JoinInv, Joined
<1> QED
  BY <1>2, <1>3, <1>4, <1>5, ShutdownSteps

\* Nothing of type DT_EOJ is queued before main sends it.
LEMMA NoEojYet ==
  ASSUME EojInv, mpc \notin {"eoj", "cancel"}, NEW s \in Line,
         NEW i \in 1..Len(toServer[s])
  PROVE  toServer[s][i].type # "EOJ"
BY DEF EojInv

\* A handler about to forward keeps main from the shutdown.
LEMMA ForwardBefore ==
  ASSUME JoinInv, NEW c \in Slot, handler[c].pc = "forward"
  PROVE  mpc \notin {"eoj", "cancel"}
BY DEF JoinInv, Joined, Ended

\* What a handler forwards it has just received, as a DT_CEX or a DT_FEX.
LEMMA ForwardReceived ==
  ASSUME ProxyInv, [Next]_vars, NEW c \in Slot,
         handler'[c].pc = "forward", handler'[c] # handler[c]
  PROVE  /\ Receive(c) /\ Head(up[c]).type \in {"CEX", "FEX"}
         /\ handler'[c].data = [Head(up[c]) EXCEPT !.origin = client[c].addr]
<1>1. CASE Receive(c)
  <2> DEFINE p == Head(up[c])
             d == [p EXCEPT !.origin = client[c].addr]
             h == IF Branch(p.type) = "loop" THEN Idle
                  ELSE [handler[c] EXCEPT !.pc = Branch(p.type), !.data = d]
  <2>1. handler' = [handler EXCEPT ![c] = h]
    BY <1>1 DEF Receive
  <2>2. h.pc = "forward" => p.type \in {"CEX", "FEX"} /\ h.data = d
    <3> DEFINE b == Branch(p.type)
    <3>1. b = "forward" => p.type \in {"CEX", "FEX"}
      BY DEF Branch
    <3> HIDE DEF b, d
    <3>2. h = IF b = "loop" THEN Idle
              ELSE [handler[c] EXCEPT !.pc = b, !.data = d]
      BY DEF b, d
    <3> QED
      BY <3>1, <3>2, IdleType DEF ProxyInv, TypeOK, HandlerThread
  <2> HIDE DEF h
  <2>3. handler'[c] = h
    BY <2>1 DEF ProxyInv, TypeOK
  <2> QED
    BY <1>1, <2>2, <2>3
<1>2. CASE ~Receive(c)
  <2>1. Spawn \/ \E e \in Slot : Handler(e)
    BY <1>2
    DEF Next, Proceed, Accept, OpenServer, SkipServer, PublishServer, EndOfFile,
     Scan, LockLeast, Assign, LockAssigned, AddLoad, CountClient, JoinHandlers,
     SendEoj, JoinRelay, JoinUnstarted, Stop, vars, Relay, RelayTest,
     RelayReceive, RelayError, RelayLookup, RelayNull, RelayCheck, RelayReadFd,
     RelayWrite, RelayCancelled, Serve, ServerReads, ServerWrites, ServerDies,
     Peer, PeerAuth, PeerAsk, PeerName, PeerAnswered, PeerBegin, PeerSend,
     PeerEnd, PeerClose
  <2> DEFINE x(p) == [handler[c] EXCEPT !.pc = p]
             y(p, n) == [handler[c] EXCEPT !.pc = p, !.cnt = n]
  <2>2. \A p, n : x(p).pc = p /\ y(p, n).pc = p
    BY DEF ProxyInv, TypeOK, HandlerThread
  <2>3. CASE Spawn
    <3>1. PICK pc \in {"start", "none"} :
            handler' = [handler EXCEPT ![nb_clients].pc = pc]
      BY <2>3 DEF Spawn, Created
    <3>2. c = nb_clients /\ handler'[c] = x(pc)
      BY <1>2, <3>1 DEF ProxyInv, TypeOK
    <3>3. x(pc).pc # "forward"
      BY <2>2
    <3> QED
      BY <3>2, <3>3
  <2>4. CASE Handler(c)
    <3>1. CASE Enter(c) \/ Increment(c) \/ Uncount(c) \/ Decrement(c)
      <4>1. PICK p \in {"increment", "loop", "decrement", "shut"},
                 n \in {0, nb_clients_connected} :
              handler' = [handler EXCEPT ![c] = y(p, n)]
        <5>1. CASE Enter(c)
          BY <5>1 DEF Enter, ReadCount
        <5>2. CASE Increment(c)
          BY <5>2 DEF Increment, WriteCount
        <5>3. CASE Uncount(c)
          BY <5>3 DEF Uncount, ReadCount
        <5>4. CASE Decrement(c)
          BY <5>4 DEF Decrement, WriteCount
        <5> QED
          BY <3>1, <5>1, <5>2, <5>3, <5>4
      <4>2. y(p, n).pc # "forward"
        BY <2>2
      <4> QED
        BY <4>1, <4>2 DEF ProxyInv, TypeOK
    <3>2. CASE \/ LoopTest(c) \/ LockToReceive(c) \/ ReceiveEnd(c)
               \/ ReceiveError(c) \/ MarkClosed(c) \/ CloseSocket(c)
      <4>1. PICK p \in {"lock", "left", "recv", "name", "query", "close",
                        "broken", "uncount", "release"} :
              handler' = [handler EXCEPT ![c] = x(p)]
        BY <3>2
        DEF LoopTest, LockToReceive, ReceiveEnd, ReceiveError, MarkClosed,
            CloseSocket, Step
      <4>2. x(p).pc # "forward"
        BY <2>2
      <4> QED
        BY <4>1, <4>2 DEF ProxyInv, TypeOK
    <3>3. CASE Answer(c) \/ Forward(c) \/ (ReceiveName(c) /\ Resume(c, "name"))
      <4>1. handler' = [handler EXCEPT ![c] = Idle]
        BY <3>3 DEF Answer, Forward, Resume
      <4> QED
        BY <4>1, IdleType DEF ProxyInv, TypeOK
    <3>4. CASE ReceiveName(c) /\ ~Resume(c, "name")
      <4>1. PICK n :
              handler' = [handler EXCEPT ![c].pc = "search", ![c].i = 0,
                                         ![c].data = Pseudo(n)]
        BY <3>4 DEF ReceiveName
      <4> DEFINE h == [handler[c] EXCEPT !.pc = "search", !.i = 0,
                                         !.data = Pseudo(n)]
      <4>2. h.pc = "search"
        BY DEF ProxyInv, TypeOK, HandlerThread
      <4>3. handler' = [handler EXCEPT ![c] = h]
        BY <4>1
      <4> HIDE DEF h
      <4> QED
        BY <4>2, <4>3 DEF ProxyInv, TypeOK
    <3>5. CASE SearchName(c)
      <4> DEFINE n == [handler[c] EXCEPT !.i = handler[c].i + 1]
      <4>1. n.pc # "forward" /\ x("found").pc # "forward"
        BY <2>2, <3>5 DEF SearchName, ProxyInv, TypeOK, HandlerThread
      <4>2. \/ handler' = [handler EXCEPT ![c] = x("found")]
            \/ handler' = [handler EXCEPT ![c] = n]
        BY <3>5 DEF SearchName
      <4> HIDE DEF n, x
      <4> QED
        BY <4>1, <4>2 DEF ProxyInv, TypeOK
    <3>6. CASE LockToRelease(c) \/ ReleaseLoad(c)
      <4>1. PICK p \in {"give", "closed"} :
              \E n : handler' = [handler EXCEPT ![c] = y(p, n)]
        BY <3>6 DEF LockToRelease, ReleaseLoad
      <4>2. PICK n : handler' = [handler EXCEPT ![c] = y(p, n)]
        BY <4>1
      <4>3. y(p, n).pc # "forward"
        BY <2>2
      <4> QED
        BY <4>2, <4>3 DEF ProxyInv, TypeOK
    <3> QED
      BY <1>2, <2>4, <3>1, <3>2, <3>3, <3>4, <3>5, <3>6 DEF Handler
  <2>5. CASE \E e \in Slot \ {c} : Handler(e)
    BY <1>2, <2>5
    DEF Handler, Enter, Increment, LoopTest, LockToReceive, Receive, ReceiveEnd,
        ReceiveError, ReceiveName, SearchName, Answer, Forward, MarkClosed,
        Uncount, Decrement, CloseSocket, LockToRelease, ReleaseLoad, ReadCount,
        WriteCount, Step, Resume, ProxyInv, TypeOK
  <2> QED
    BY <2>1, <2>3, <2>4, <2>5
<1> QED
  BY <1>1, <1>2

LEMMA ForwardNoEoj ==
  ASSUME ProxyInv, EojInv, [Next]_vars, NEW c \in Slot,
         handler'[c].pc = "forward"
  PROVE  handler'[c].data.type # "EOJ"
<1>1. CASE handler'[c] = handler[c]
  BY <1>1 DEF EojInv
<1>2. CASE handler'[c] # handler[c]
  <2>1. /\ Receive(c) /\ Head(up[c]).type \in {"CEX", "FEX"}
        /\ handler'[c].data = [Head(up[c]) EXCEPT !.origin = client[c].addr]
    BY <1>2, ForwardReceived
  <2>2. Head(up[c]) \in Packet
    BY <2>1 DEF Receive, ProxyInv, TypeOK
  <2> QED
    BY <2>1, <2>2 DEF Packet
<1> QED
  BY <1>1, <1>2

LEMMA QueueStep ==
  ASSUME ProxyInv, [Next]_vars
  PROVE  \/ toServer' = toServer
         \/ SendEoj
         \/ \E c \in Slot : Forward(c)
         \/ \E s \in Line : ServerReads(s)
<1>1. CASE \E c \in Slot : Handler(c)
  BY <1>1
  DEF Handler, Enter, Increment, LoopTest, LockToReceive, Receive, ReceiveEnd,
      ReceiveError, ReceiveName, SearchName, Answer, MarkClosed, Uncount,
      Decrement, CloseSocket, LockToRelease, ReleaseLoad, ReadCount, WriteCount,
      srvVars
<1>2. CASE \/ \E s \in Line : Relay(s) \/ Serve(s) \/ ServerDies(s)
           \/ UNCHANGED vars
  BY <1>2
  DEF vars, srvVars, Relay, RelayTest, RelayReceive, RelayError, RelayLookup,
      RelayNull, RelayCheck, RelayReadFd, RelayWrite, RelayCancelled, Serve,
      ServerWrites, ServerDies
<1>3. CASE \E c \in Slot : Peer(c)
  BY <1>3
  DEF Peer, PeerAuth, PeerAsk, PeerName, PeerAnswered, PeerBegin, PeerSend,
      PeerEnd, PeerClose, srvVars
<1>4. CASE Accept \/ Proceed
  BY <1>4
  DEF Accept, Proceed, OpenServer, SkipServer, PublishServer, EndOfFile, Scan,
      LockLeast, Assign, LockAssigned, AddLoad, Spawn, CountClient,
      JoinHandlers, JoinRelay, JoinUnstarted, Stop, srvVars
<1> QED
  BY <1>1, <1>2, <1>3, <1>4 DEF Next

\* The shutdown has passed server s by when DT_EOJ is in its queue.
Passed(s) == mpc \in {"eoj", "cancel"} /\ (s < mi \/ (s = mi /\ mpc = "cancel"))

LEMMA PassedKept ==
  ASSUME ProxyInv, [Next]_vars, NEW s \in Line, Passed(s)
  PROVE  Passed(s)'
<1>1. s \in Nat /\ mi \in Nat
  BY ConstantsOK DEF ProxyInv, TypeOK, Line
<1> QED
  BY <1>1, ShutdownSteps DEF Passed, JoinHandlers, SendEoj, JoinRelay

\* A queue that only lost packets, or got one that is no DT_EOJ before any was.
LEMMA EojKept ==
  ASSUME ProxyInv, EojInv, [Next]_vars, NEW t \in Line, NEW q \in Seq(Packet),
         toServer' = [toServer EXCEPT ![t] = q],
         \A i \in 1..Len(q) :
           q[i].type = "EOJ" => i = Len(q) /\ Passed(t)'
  PROVE  EojInv'
<1>1. \A s \in Line : toServer'[s] = IF s = t THEN q ELSE toServer[s]
  BY DEF ProxyInv, TypeOK
<1>2. \A s \in Line : \A i \in 1..Len(toServer[s]) :
        toServer[s][i].type = "EOJ" => i = Len(toServer[s]) /\ Passed(s)
  BY DEF EojInv, EojLast, Passed
<1>3. \A s \in Line : \A i \in 1..Len(toServer'[s]) :
        toServer'[s][i].type = "EOJ" => i = Len(toServer'[s]) /\ Passed(s)'
  <2> SUFFICES ASSUME NEW s \in Line, NEW i \in 1..Len(toServer'[s]),
                      toServer'[s][i].type = "EOJ"
               PROVE  i = Len(toServer'[s]) /\ Passed(s)'
    OBVIOUS
  <2>1. CASE s = t
    BY <1>1, <2>1
  <2>2. CASE s # t
    <3>1. toServer'[s] = toServer[s]
      BY <1>1, <2>2
    <3>2. i = Len(toServer[s]) /\ Passed(s)
      BY <1>2, <3>1
    <3> QED
      BY <3>1, <3>2, PassedKept
  <2> QED
    BY <2>1, <2>2
<1> QED
  BY <1>3, ForwardNoEoj DEF EojInv, EojLast, Passed

LEMMA EojInit == Init => EojInv
BY DEF Init, EojInv, EojLast

LEMMA EojNext == ProxyInv /\ JoinInv /\ EojInv /\ [Next]_vars => EojInv'
<1> SUFFICES ASSUME ProxyInv, JoinInv, EojInv, [Next]_vars PROVE EojInv'
  OBVIOUS
<1> USE DEF srvVars
<1>1. CASE toServer' = toServer
  <2>1. \A s \in Line : \A i \in 1..Len(toServer[s]) :
          toServer[s][i].type = "EOJ" => Passed(s)
    BY DEF EojInv, Passed
  <2>2. \A s \in Line : \A i \in 1..Len(toServer'[s]) :
          toServer'[s][i].type = "EOJ" => Passed(s)'
    BY <1>1, <2>1, PassedKept
  <2>3. EojLast'
    BY <1>1 DEF EojInv, EojLast
  <2> QED
    BY <2>2, <2>3, ForwardNoEoj DEF EojInv, Passed
<1>2. CASE SendEoj /\ toServer' # toServer
  <2>1. PICK m \in Line : m = mi
    BY <1>2, ConstantsOK DEF SendEoj, ProxyInv, TypeOK, Line
  <2> DEFINE o == toServer[m]
             q == Append(o, Typed("EOJ"))
  <2>2. toServer' = [toServer EXCEPT ![m] = q]
    BY <1>2, <2>1 DEF SendEoj, SendServer
  <2>3. Passed(m)'
    BY <1>2, <2>1 DEF SendEoj, Passed
  <2>4. o \in Seq(Packet) /\ Typed("EOJ") \in Packet
    BY PacketTypes DEF ProxyInv, TypeOK, Data_type
  <2>5. \A i \in 1..Len(o) : o[i].type # "EOJ"
    <3>1. ~ Passed(m)
      BY <1>2, <2>1 DEF Passed, SendEoj, ProxyInv, TypeOK
    <3>2. \A i \in 1..Len(o) : o[i].type = "EOJ" => Passed(m)
      BY DEF EojInv, Passed
    <3> QED
      BY <3>1, <3>2
  <2>6. /\ q \in Seq(Packet) /\ Len(q) = Len(o) + 1 /\ Len(o) \in Nat
        /\ \A i \in 1..Len(o) : q[i] = o[i]
    BY <2>4
  <2> HIDE DEF q, o
  <2>7. \A i \in 1..Len(q) : q[i].type = "EOJ" => i = Len(q) /\ Passed(m)'
    <3> SUFFICES ASSUME NEW i \in 1..Len(q), q[i].type = "EOJ"
                 PROVE  i = Len(q)
      BY <2>3
    <3>1. i \notin 1..Len(o)
      BY <2>5, <2>6
    <3> QED
      BY <2>6, <3>1
  <2> QED
    BY <2>2, <2>6, <2>7, EojKept
<1>3. CASE \E c \in Slot : Forward(c) /\ toServer' # toServer
  <2>1. PICK c \in Slot : Forward(c) /\ toServer' # toServer
    BY <1>3
  <2>2. handler[c].pc = "forward" /\ handler[c].data.type # "EOJ"
    BY <2>1 DEF Forward, Resume, EojInv
  <2>3. mpc \notin {"eoj", "cancel"}
    BY <2>2, ForwardBefore
  <2> DEFINE t == client[c].server
             d == handler[c].data
             q == Append(toServer[t], d)
  <2>4. t \in Line /\ d \in Packet /\ toServer[t] \in Seq(Packet)
    <3>1. t \in Line
      BY <2>2, ServerOfRunning
    <3> QED
      BY <3>1 DEF ProxyInv, TypeOK, HandlerThread
  <2>5. toServer' = [toServer EXCEPT ![t] = q]
    BY <2>1 DEF Forward, SendServer
  <2>6. \A i \in 1..Len(toServer[t]) : toServer[t][i].type # "EOJ"
    BY <2>3, <2>4, NoEojYet
  <2> DEFINE o == toServer[t]
  <2>7. /\ q \in Seq(Packet) /\ Len(q) = Len(o) + 1 /\ Len(o) \in Nat
        /\ q[Len(q)] = d /\ \A i \in 1..Len(o) : q[i] = o[i]
    <3> HIDE DEF t, d
    <3> QED
      BY <2>4
  <2> HIDE DEF q, t
  <2>8. \A i \in 1..Len(q) : q[i].type # "EOJ"
    <3> SUFFICES ASSUME NEW i \in 1..Len(q) PROVE q[i].type # "EOJ"
      OBVIOUS
    <3> HIDE DEF o, d
    <3>1. CASE i \in 1..Len(o)
      BY <2>6, <2>7, <3>1 DEF o
    <3>2. CASE i = Len(q)
      BY <2>2, <2>7, <3>2 DEF d
    <3> QED
      BY <2>7, <3>1, <3>2
  <2> QED
    BY <2>4, <2>5, <2>7, <2>8, EojKept
<1>4. CASE \E s \in Line : ServerReads(s)
  <2>1. PICK s \in Line : ServerReads(s)
    BY <1>4
  <2> DEFINE q == Tail(toServer[s])
  <2>2. toServer[s] \in Seq(Packet) /\ toServer[s] # <<>>
        /\ toServer' = [toServer EXCEPT ![s] = q]
    BY <2>1 DEF ServerReads, ProxyInv, TypeOK
  <2>3. q \in Seq(Packet) /\ Len(q) = Len(toServer[s]) - 1
        /\ \A i \in 1..Len(q) : /\ i + 1 \in 1..Len(toServer[s])
                                  /\ q[i] = toServer[s][i + 1]
    BY <2>2
  <2>4. \A i \in 1..Len(toServer[s]) :
          toServer[s][i].type = "EOJ" => i = Len(toServer[s]) /\ Passed(s)
    BY DEF EojInv, EojLast, Passed
  <2>5. Len(q) \in Nat /\ Len(toServer[s]) \in Nat
    BY <2>2, <2>3
  <2>6. \A i \in 1..Len(q) : q[i].type = "EOJ" => i = Len(q) /\ Passed(s)'
    <3> SUFFICES ASSUME NEW i \in 1..Len(q), q[i].type = "EOJ"
                 PROVE  i = Len(q) /\ Passed(s)'
      OBVIOUS
    <3> HIDE DEF q
    <3>1. i + 1 = Len(toServer[s]) /\ Passed(s)
      BY <2>3, <2>4
    <3>2. Passed(s)'
      BY <3>1, PassedKept
    <3> QED
      BY <2>3, <2>5, <3>1, <3>2
  <2> HIDE DEF q
  <2> QED
    BY <2>2, <2>3, <2>6, EojKept
<1> QED
  BY <1>1, <1>2, <1>3, <1>4, QueueStep

\* No exchange is queued behind a server's DT_EOJ: the handlers have all ended
\* when main sends it.
THEOREM EojIsLast == Spec => []EojLast
<1>1. EojInv => EojLast
  BY DEF EojInv
<1> QED
  BY <1>1, JoinInit, JoinNext, EojInit, EojNext, Invariance, PTL DEF Spec
-----------------------------------------------------------------------------
(* Relays that run on. *)

LEMMA LaterInit == Init => LaterInv
<1>1. 1..(NLINES - 1) \subseteq Line
  BY ConstantsOK DEF Line
<1> QED
  BY <1>1 DEF Init, LaterInv, LaterRelaysRead

\* A relay exists from the step that opens its server's connection.
LEMMA StartedStep ==
  ASSUME ProxyInv, LaterInv, [Next]_vars, NEW s \in Line
  PROVE  relay'[s].pc # "none" => s <= nb_servers'
<1>1. nb_servers \in Nat /\ nb_servers' \in Nat /\ nb_servers <= nb_servers'
  <2>1. nb_servers' = nb_servers \/ PublishServer
    <3>1. CASE \E c \in Slot : Handler(c)
      BY <3>1
      DEF Handler, Enter, Increment, LoopTest, LockToReceive, Receive,
          ReceiveEnd, ReceiveError, ReceiveName, SearchName, Answer, Forward,
          MarkClosed, Uncount, Decrement, CloseSocket, LockToRelease,
          ReleaseLoad, ReadCount, WriteCount, countVars, loadVars
    <3>2. CASE \/ Accept \/ Proceed \/ UNCHANGED vars
      BY <3>2
      DEF Accept, Proceed, OpenServer, SkipServer, EndOfFile, Scan, LockLeast,
          Assign, LockAssigned, AddLoad, Spawn, CountClient, JoinHandlers,
          SendEoj, JoinRelay, JoinUnstarted, Stop, vars, countVars, loadVars
    <3>3. CASE \/ \E t \in Line : Relay(t) \/ Serve(t) \/ ServerDies(t)
               \/ \E c \in Slot : Peer(c)
      BY <3>3
      DEF Relay, RelayTest, RelayReceive, RelayError, RelayLookup, RelayNull,
          RelayCheck, RelayReadFd, RelayWrite, RelayCancelled, Serve,
          ServerReads, ServerWrites, ServerDies, Peer, PeerAuth, PeerAsk,
          PeerName, PeerAnswered, PeerBegin, PeerSend, PeerEnd, PeerClose,
          countVars, loadVars
    <3> QED
      BY <3>1, <3>2, <3>3 DEF Next
  <2> QED
    BY <2>1, ConstantsOK DEF PublishServer, ProxyInv, TypeOK
<1>2. s \in Nat
  BY ConstantsOK DEF Line
<1>3. relay[s].pc # "none" => s <= nb_servers
  BY DEF LaterInv
<1>4. CASE relay'[s].pc # "none" /\ relay[s].pc = "none"
  <2>1. OpenServer
    <3>1. ~ Relay(s)
      BY <1>4 DEF Relay, RelayTest, RelayReceive, RelayError, RelayLookup,
                  RelayNull, RelayCheck, RelayReadFd, RelayWrite,
                  RelayCancelled
    <3>2. \A t \in Line \ {s} : Relay(t) => relay'[s] = relay[s]
      BY DEF Relay, RelayTest, RelayReceive, RelayError, RelayLookup,
             RelayNull, RelayCheck, RelayReadFd, RelayWrite, RelayCancelled,
             ProxyInv, TypeOK
    <3> QED
      BY <1>4, <3>1, <3>2, RelayChangers
  <2>2. PICK pc : relay' = [relay EXCEPT ![nb_servers].pc = pc]
    BY <2>1 DEF OpenServer
  <2>3. s = nb_servers
    BY <1>4, <2>2 DEF ProxyInv, TypeOK
  <2> QED
    BY <1>1, <2>3
<1> QED
  BY <1>1, <1>2, <1>3, <1>4

\* A server's connection is opened once, before its relay runs.
LEMMA ReopenedNever ==
  ASSUME ProxyInv, [Next]_vars, NEW s \in Line,
         slink[s] # "open", slink'[s] = "open"
  PROVE  OpenServer /\ s = nb_servers
<1>1. \A l \in LinkState : l # "open" => \A m \in AfterSend(l) : m # "open"
  BY DEF AfterSend, LinkState
<1>2. \A b : AfterClose(b) # "open"
  BY DEF AfterClose
<1>3. slink[s] \in LinkState
  BY DEF ProxyInv, TypeOK
<1>4. \A t \in Line : \A p :
        SendServer(t, p) => slink'[s] = slink[s] \/ slink'[s] # "open"
  BY <1>1, <1>3 DEF SendServer, ProxyInv, TypeOK
<1>5. ~ \E c \in Slot : Forward(c)
  <2> SUFFICES ASSUME NEW c \in Slot, Forward(c) PROVE FALSE
    OBVIOUS
  <2>1. client[c].server \in Line
    BY ServerOfRunning DEF Forward, Resume
  <2> QED
    BY <1>4, <2>1 DEF Forward
<1>6. ~ SendEoj
  <2>1. SendEoj => mi \in Line
    BY ConstantsOK DEF SendEoj, ProxyInv, TypeOK, Line
  <2> QED
    BY <1>4, <2>1 DEF SendEoj
<1>7. ~ \E t \in Line : Serve(t) \/ ServerDies(t) \/ RelayError(t)
  BY <1>2 DEF Serve, ServerReads, ServerWrites, ServerDies, RelayError,
       ProxyInv, TypeOK
<1>8. CASE OpenServer
  BY <1>8 DEF OpenServer, ProxyInv, TypeOK
<1>9. slink' = slink \/ OpenServer
  <2>1. CASE \E c \in Slot : Handler(c)
    BY <1>5, <2>1
    DEF Handler, Enter, Increment, LoopTest, LockToReceive, Receive, ReceiveEnd,
        ReceiveError, ReceiveName, SearchName, Answer, MarkClosed, Uncount,
        Decrement, CloseSocket, LockToRelease, ReleaseLoad, ReadCount,
        WriteCount, srvVars, loadVars
  <2>2. CASE Accept \/ Proceed \/ UNCHANGED vars
    BY <1>6, <2>2
    DEF Accept, Proceed, SkipServer, PublishServer, EndOfFile, Scan, LockLeast,
        Assign, LockAssigned, AddLoad, Spawn, CountClient, JoinHandlers,
        JoinRelay, JoinUnstarted, Stop, vars, srvVars, loadVars
  <2>3. CASE \/ \E t \in Line : Relay(t) \/ Serve(t) \/ ServerDies(t)
             \/ \E c \in Slot : Peer(c)
    BY <1>7, <2>3
    DEF Relay, RelayTest, RelayReceive, RelayLookup, RelayNull, RelayCheck,
        RelayReadFd, RelayWrite, RelayCancelled, Peer, PeerAuth, PeerAsk,
        PeerName, PeerAnswered, PeerBegin, PeerSend, PeerEnd, PeerClose,
        srvVars, loadVars
  <2> QED
    BY <2>1, <2>2, <2>3 DEF Next
<1> QED
  BY <1>8, <1>9

LEMMA LaterNext == ProxyInv /\ LaterInv /\ [Next]_vars => LaterInv'
<1> SUFFICES ASSUME ProxyInv, LaterInv, [Next]_vars PROVE LaterInv'
  OBVIOUS
<1> SUFFICES ASSUME NEW s \in 1..(NLINES - 1), slink'[s] = "open",
                    mpc' \notin {"eoj", "cancel"}, relay'[s].pc = "exit"
             PROVE  FALSE
  BY StartedStep DEF LaterInv, LaterRelaysRead
<1>1. s \in Line /\ s \in Nat /\ s > 0
  BY ConstantsOK DEF Line
<1>2. mpc \notin {"eoj", "cancel"}
  BY ShutdownSteps DEF JoinHandlers, SendEoj, JoinRelay
<1>3. CASE relay'[s] = relay[s]
  <2>1. slink[s] # "open"
    BY <1>2, <1>3 DEF LaterInv, LaterRelaysRead
  <2>2. OpenServer /\ s = nb_servers
    BY <1>1, <2>1, ReopenedNever
  <2>3. PICK pc \in {"test", "none"} :
          relay' = [relay EXCEPT ![nb_servers].pc = pc]
    BY <2>2 DEF OpenServer, Created
  <2> DEFINE r == [relay[s] EXCEPT !.pc = pc]
  <2>4. relay'[s] = r /\ r.pc = pc
    BY <1>1, <2>2, <2>3 DEF ProxyInv, TypeOK, RelayThread
  <2> QED
    BY <2>4
<1>4. CASE relay'[s] # relay[s]
  <2>1. RelayTest(s) \/ RelayError(s) \/ RelayCancelled(s)
    BY <1>1, <1>4, RelayMoves
  <2>2. ~ RelayCancelled(s)
    BY <1>2 DEF RelayCancelled
  <2>3. ~ RelayError(s)
    BY <1>1 DEF RelayError, ProxyInv, TypeOK
  <2>4. CASE RelayTest(s)
    <3>1. relay[s].pc = "test" /\ nb_servers \in Nat
      BY <2>4, ConstantsOK DEF RelayTest, ProxyInv, TypeOK
    <3>2. nb_servers > 0
      BY <1>1, <3>1 DEF LaterInv
    <3> DEFINE r == [relay[s] EXCEPT !.pc = "recv"]
    <3>3. relay' = [relay EXCEPT ![s] = r] /\ r.pc = "recv"
      BY <1>1, <2>4, <3>2 DEF RelayTest, ProxyInv, TypeOK, RelayThread
    <3> QED
      BY <1>1, <3>3 DEF ProxyInv, TypeOK
  <2> QED
    BY <2>1, <2>2, <2>3, <2>4
<1> QED
  BY <1>3, <1>4

\* Whatever main has counted when a relay starts, the relay of every server but
\* the first reads on while its connection stands and main has not ended it.
THEOREM LaterRelaysRun == Spec => []LaterRelaysRead
<1>1. LaterInv => LaterRelaysRead
  BY DEF LaterInv
<1> QED
  BY <1>1, LaterInit, LaterNext, Invariance, PTL DEF Spec
=============================================================================
