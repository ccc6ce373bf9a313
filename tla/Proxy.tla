------------------------------- MODULE Proxy --------------------------------
(***************************************************************************)
(* src/proxy.c: the main thread (initialize_proxy, then accept_new_client  *)
(* until the table is full, then the shutdown), one handle_client_stream   *)
(* thread per accepted client, one handle_server_stream thread per server. *)
(* The programs at the other ends of the sockets are the environment: they *)
(* do what src/client.c and src/server.c can do on those sockets.          *)
(*                                                                         *)
(* Atomicity: a step contains at most one access to a variable that other  *)
(* threads share without a lock (nb_clients, nb_clients_connected,         *)
(* nb_servers, sock_fd).  A critical section under a client_mutex that     *)
(* cannot block is one step and needs the mutex to be free; a handler      *)
(* blocked in recv holds its own (see Locked).  A server_mutex can be      *)
(* freed by a thread that does not hold it (RelayError), so the sections   *)
(* that change a load are two steps, lock and read, write and unlock.      *)
(*                                                                         *)
(* The character a packet carries is left to Correcteur; from and id name  *)
(* the packet: the connection that sent it and its number there.           *)
(*                                                                         *)
(* X_Slip, defined next to X, is a plausible slip in X: it shows which     *)
(* property notices it and is used nowhere else.                           *)
(***************************************************************************)
EXTENDS Base, FiniteSets

CONSTANTS
  BUFLEN,         \* size of the client table
  NLINES,         \* lines of the server file
  MaxLoad,        \* INT_MAX of get_server_with_min_load
  Addr,           \* IP:port pairs of the clients
  NoAddr,         \* the zeroed address
  Names,          \* pseudos
  NoName,         \* the zeroed name
  MaxGet,         \* bound: DT_GET queries per connection
  MaxCex,         \* bound: DT_CEX packets per connection
  MaxUp,          \* bound: items a client sends ahead of the proxy's recv
  Arrivals,       \* bound: who connects, <<as which connection, address>>
  Talkers,        \* bound: the addresses whose clients send anything,
  Chatters,       \* bound: and those whose users start a chat
  Dests,          \* bound: the destinations they give
  ServersMayFail, \* whether a server may disappear,
  ThreadsMayFail  \* and pthread_create

Slot   == 0..(BUFLEN - 1)
Line   == 0..(NLINES - 1)
Fd     == 1..BUFLEN
NoFd   == -1
NoSlot == -1
NoLine == -1

ASSUME ConstantsOK ==
  /\ BUFLEN \in Nat \ {0} /\ NLINES \in Nat
  /\ MaxLoad \in Nat /\ MaxLoad > 2 * BUFLEN
  /\ NoAddr \notin Addr /\ NoName \notin Names
  /\ MaxGet \in Nat /\ MaxCex \in Nat /\ MaxUp \in Nat \ {0}
  /\ Arrivals \subseteq Nat \X Addr
  /\ Talkers \subseteq Addr /\ Chatters \subseteq Talkers /\ Dests \subseteq Addr
  /\ ServersMayFail \in BOOLEAN /\ ThreadsMayFail \in BOOLEAN

VARIABLES
  status,               \* of the proxy process
  mpc, mi, best, reg,   \* main: pc, loop index, running minimum of the scan,
                        \* register of its ++ on a load
  nb_clients, nb_clients_connected, nb_servers,
  client,               \* shm.clients
  load, server_mutex,   \* shm.servers[s].load, whether its mutex is locked
  handler,              \* handle_client_stream threads
  relay,                \* handle_server_stream threads
  fds,                  \* the process's descriptors of client sockets
  link, up, inbox,      \* client sockets: state, bytes in, bytes out
  slink, toServer, fromServer,  \* server sockets, likewise
  answers,              \* what a server has yet to send in its turn
  peer                  \* what the client at the other end is doing

mainVars   == <<mpc, mi, best, reg>>
countVars  == <<nb_clients, nb_clients_connected, nb_servers>>
netVars    == <<link, up, inbox>>
loadVars   == <<load, server_mutex>>
srvVars    == <<slink, toServer, answers, fromServer>>
vars == <<status, mainVars, countVars, client, loadVars, handler, relay,
          fds, netVars, srvVars, peer>>

\* A Data packet, or (type "name") the MAX_PSEUDO_LENGTH raw bytes of a pseudo.
Packet == [type : Data_type \cup {"name"}, origin : Addr \cup {NoAddr},
           dest : Addr \cup {NoAddr}, from : Slot \cup {NoSlot}, id : Nat,
           name : Names \cup {NoName}]

Zero == [type |-> "CLO", origin |-> NoAddr, dest |-> NoAddr,
         from |-> NoSlot, id |-> 0, name |-> NoName]
Typed(t)   == [Zero EXCEPT !.type = t]
Pseudo(n)  == [Zero EXCEPT !.type = "name", !.name = n]
Found(a)   == [Zero EXCEPT !.type = "GET", !.origin = a]

\* The client_mutex a blocked recv is called under.
Locked(c) == handler[c].pc \in {"recv", "name", "query"}

Status == {"running", "failed", "stopped", "sigpipe", "segv", "unjoinable"}
MainPc == {"open", "publish", "accept", "scan", "add", "assigned", "again",
           "spawn", "count", "join", "eoj", "cancel"}
Ended == {"closed", "left", "broken"}
Departed == {"uncount", "decrement", "shut", "release", "give", "closed"}
HandlerPc == {"none", "start", "increment", "loop", "lock", "recv", "con",
              "name", "get", "query", "search", "found", "forward", "close",
              "uncount", "decrement", "shut", "release", "give"} \cup Ended
RelayPc == {"none", "test", "recv", "lookup", "check", "origin", "send",
            "write", "exit"}
PeerPc == {"none", "auth", "pseudo", "menu", "ask", "wait", "chat", "over",
           "gone"}

\* A handler at the top of its loop: c->data is zeroed, the rest is dead.
Idle == [pc |-> "loop", cnt |-> 0, i |-> 0, data |-> Zero]

\* send on a client's socket; only its own handler closes it, so c names it.
Send(c, p) ==
  \/ /\ link[c] = "dead"
     /\ status' = "sigpipe"
     /\ UNCHANGED <<link, inbox>>
  \/ /\ link[c] # "dead"
     /\ \E l \in AfterSend(link[c]) : link' = [link EXCEPT ![c] = l]
     /\ inbox' = IF link[c] = "open" THEN [inbox EXCEPT ![c] = Append(@, p)]
                                     ELSE inbox
     /\ UNCHANGED status

\* send on a server's socket.
SendServer(s, p) ==
  \/ /\ slink[s] = "dead"
     /\ status' = "sigpipe"
     /\ UNCHANGED <<slink, toServer>>
  \/ /\ slink[s] # "dead"
     /\ \E l \in AfterSend(slink[s]) : slink' = [slink EXCEPT ![s] = l]
     /\ toServer' = IF slink[s] = "open"
                    THEN [toServer EXCEPT ![s] = Append(@, p)] ELSE toServer
     /\ UNCHANGED status
-----------------------------------------------------------------------------
\* The slot of shm.clients as accept_new_client's memset leaves it.
EmptySlot == [sock_fd |-> NoFd, addr |-> NoAddr, server |-> NoLine,
              name |-> NoName]
NoPeer == [pc |-> "none", gets |-> 0, sent |-> 0, seen |-> 0, dest |-> NoAddr]

Init ==
  /\ status = "running"
  /\ mpc = "open" /\ mi = 0 /\ best = [server |-> NoLine, min |-> MaxLoad]
  /\ reg = 0
  /\ nb_clients = 0 /\ nb_clients_connected = 0 /\ nb_servers = 0
  /\ client = [c \in Slot |-> EmptySlot]
  /\ load = [s \in Line |-> 0] /\ server_mutex = [s \in Line |-> FALSE]
  /\ handler = [c \in Slot |-> [pc |-> "none", cnt |-> 0, i |-> 0, data |-> Zero]]
  /\ relay = [s \in Line |-> [pc |-> "none", i |-> 0, fd |-> NoFd, data |-> Zero]]
  /\ fds = [f \in Fd |-> NoSlot]
  /\ link = [c \in Slot |-> "none"]
  /\ up = [c \in Slot |-> <<>>] /\ inbox = [c \in Slot |-> <<>>]
  /\ slink = [s \in Line |-> "none"]
  /\ toServer = [s \in Line |-> <<>>] /\ answers = [s \in Line |-> <<>>]
  /\ fromServer = [s \in Line |-> <<>>]
  /\ peer = [c \in Slot |-> NoPeer]
-----------------------------------------------------------------------------
(* The main thread.  mi counts the lines read, then indexes its loops.     *)

\* pthread_create of a thread that starts at first.  When it fails it returns an
\* error number, which the test for -1 misses: main goes on without the thread.
Created(first) == {first} \cup IF ThreadsMayFail THEN {"none"} ELSE {}

\* open_new_server: connected, and the relay thread is created (it runs from
\* here on, before nb_servers counts it).
OpenServer ==
  /\ status = "running"
  /\ mpc = "open" /\ mi < NLINES
  /\ mpc' = "publish"
  /\ slink' = [slink EXCEPT ![nb_servers] = "open"]
  /\ \E pc \in Created("test") :
       relay' = [relay EXCEPT ![nb_servers].pc = pc]
  /\ UNCHANGED <<status, mi, best, reg, countVars, client, loadVars, handler,
                 fds, netVars, toServer, answers, fromServer, peer>>

\* The line is empty, or connect fails: the table entry is used again.
SkipServer ==
  /\ status = "running"
  /\ mpc = "open" /\ mi < NLINES
  /\ mi' = mi + 1
  /\ UNCHANGED <<status, mpc, best, reg, countVars, client, loadVars, handler,
                 relay, fds, netVars, srvVars, peer>>

PublishServer ==
  /\ status = "running"
  /\ mpc = "publish"
  /\ mpc' = "open" /\ mi' = mi + 1
  /\ nb_servers' = nb_servers + 1
  /\ UNCHANGED <<status, best, reg, nb_clients, nb_clients_connected, client,
                 loadVars, handler, relay, fds, netVars, srvVars, peer>>

\* End of the file: without a server the proxy gives up, and so it does when
\* the file ends with a newline (fgets returns NULL before feof is true).
EndOfFile ==
  /\ status = "running"
  /\ mpc = "open" /\ mi = NLINES
  /\ \/ status' = "failed" /\ UNCHANGED mpc
     \/ nb_servers > 0 /\ mpc' = "accept" /\ UNCHANGED status
  /\ UNCHANGED <<mi, best, reg, countVars, client, loadVars, handler, relay,
                 fds, netVars, srvVars, peer>>

\* main accepts until the table is full.
TableFull_OffByOne == nb_clients > BUFLEN
TableFull          == nb_clients >= BUFLEN

Accept_Counted ==
  /\ status = "running"
  /\ mpc = "accept" /\ ~TableFull
  /\ \E a \in Addr, fd \in Fd :
       /\ <<nb_clients, a>> \in Arrivals
       /\ \A c \in Slot : link[c] = "open" => client[c].addr # a
       /\ fds[fd] = NoSlot /\ \A g \in 1..(fd - 1) : fds[g] # NoSlot
       /\ fds' = [fds EXCEPT ![fd] = nb_clients]
       /\ client' = [client EXCEPT ![nb_clients] =
                       [EmptySlot EXCEPT !.sock_fd = fd, !.addr = a]]
  /\ link' = [link EXCEPT ![nb_clients] = "open"]
  /\ peer' = [peer EXCEPT ![nb_clients].pc = "auth"]
  /\ mpc' = "scan" /\ mi' = 0 /\ nb_clients' = nb_clients + 1
  /\ UNCHANGED <<status, best, reg, nb_clients_connected, nb_servers, loadVars,
                 handler, relay, up, inbox, srvVars>>

\* accept_new_client up to accept: a client whose address is free connects and
\* gets the lowest free descriptor.
Accept ==
  /\ status = "running"
  /\ mpc = "accept" /\ ~TableFull
  /\ \E a \in Addr, fd \in Fd :
       /\ <<nb_clients, a>> \in Arrivals
       /\ \A c \in Slot : link[c] = "open" => client[c].addr # a
       /\ fds[fd] = NoSlot /\ \A g \in 1..(fd - 1) : fds[g] # NoSlot
       /\ fds' = [fds EXCEPT ![fd] = nb_clients]
       /\ client' = [client EXCEPT ![nb_clients] =
                       [EmptySlot EXCEPT !.sock_fd = fd, !.addr = a]]
  /\ link' = [link EXCEPT ![nb_clients] = "open"]
  /\ peer' = [peer EXCEPT ![nb_clients].pc = "auth"]
  /\ mpc' = "scan" /\ mi' = 0
  /\ UNCHANGED <<status, best, reg, countVars, loadVars, handler, relay, up,
                 inbox, srvVars>>

\* lock(&servers[s].server_mutex) before a load is read to be changed, and the
\* write and unlock that follow.
LockLoad(s) ==
  /\ ~server_mutex[s]
  /\ server_mutex' = [server_mutex EXCEPT ![s] = TRUE]
  /\ UNCHANGED load

StoreLoad(s, l) ==
  /\ load' = [load EXCEPT ![s] = l]
  /\ server_mutex' = [server_mutex EXCEPT ![s] = FALSE]

\* get_server_with_min_load, one locked reading of a load at a time.
Better_Max(s)    == load[s] > best.min
Better_Static(s) == load[s] < MaxLoad
Better(s)        == load[s] < best.min

Scan ==
  /\ status = "running"
  /\ mpc = "scan" /\ mi < nb_servers /\ ~server_mutex[mi]
  /\ mi' = mi + 1
  /\ best' = IF Better(mi) THEN [server |-> mi, min |-> load[mi]] ELSE best
  /\ UNCHANGED <<status, mpc, reg, countVars, client, loadVars, handler, relay,
                 fds, netVars, srvVars, peer>>

\* The end of get_server_with_min_load: the load is incremented there...
LockLeast ==
  /\ status = "running"
  /\ mpc = "scan" /\ mi = nb_servers
  /\ mpc' = "add"
  /\ LockLoad(best.server) /\ reg' = load[best.server]
  /\ UNCHANGED <<status, mi, best, countVars, client, handler, relay, fds,
                 netVars, srvVars, peer>>

Assign ==
  /\ status = "running"
  /\ mpc = "add"
  /\ mpc' = "assigned"
  /\ StoreLoad(best.server, reg + 1) /\ reg' = 0
  /\ best' = [server |-> NoLine, min |-> MaxLoad]
  /\ client' = [client EXCEPT ![nb_clients].server = best.server]
  /\ UNCHANGED <<status, mi, countVars, handler, relay, fds, netVars,
                 srvVars, peer>>

\* ...and a second time by accept_new_client.
LockAssigned ==
  LET s == client[nb_clients].server
  IN  /\ status = "running"
      /\ mpc = "assigned"
      /\ mpc' = "again"
      /\ LockLoad(s) /\ reg' = load[s]
      /\ UNCHANGED <<status, mi, best, countVars, client, handler, relay, fds,
                     netVars, srvVars, peer>>

AddLoad_Set ==
  /\ status = "running"
  /\ mpc = "again"
  /\ mpc' = "spawn"
  /\ StoreLoad(client[nb_clients].server, 2) /\ reg' = 0
  /\ UNCHANGED <<status, mi, best, countVars, client, handler, relay, fds,
                 netVars, srvVars, peer>>

AddLoad ==
  /\ status = "running"
  /\ mpc = "again"
  /\ mpc' = "spawn"
  /\ StoreLoad(client[nb_clients].server, reg + 1) /\ reg' = 0
  /\ UNCHANGED <<status, mi, best, countVars, client, handler, relay, fds,
                 netVars, srvVars, peer>>

\* pthread_create: the handler runs before nb_clients counts its slot.
Spawn ==
  /\ status = "running"
  /\ mpc = "spawn"
  /\ mpc' = "count"
  /\ \E pc \in Created("start") :
       handler' = [handler EXCEPT ![nb_clients].pc = pc]
  /\ UNCHANGED <<status, mi, best, reg, countVars, client, loadVars, relay, fds,
                 netVars, srvVars, peer>>

CountClient_BeforeSpawn ==
  /\ status = "running"
  /\ mpc = "spawn"
  /\ mpc' = "count"
  /\ nb_clients' = nb_clients + 1
  /\ UNCHANGED <<status, mi, best, reg, nb_clients_connected, nb_servers,
                 client, loadVars, handler, relay, fds, netVars, srvVars, peer>>

CountClient ==
  /\ status = "running"
  /\ mpc = "count"
  /\ mpc' = "accept"
  /\ nb_clients' = nb_clients + 1
  /\ UNCHANGED <<status, mi, best, reg, nb_clients_connected, nb_servers,
                 client, loadVars, handler, relay, fds, netVars, srvVars, peer>>

\* pthread_join(p.thread_client[i]) returns: the thread has ended, or was never
\* created (then it may do anything, see JoinUnstarted).
Joined_NoWait(c) == TRUE
Joined(c)        == handler[c].pc \in Ended \cup {"none"}

\* The table is full: main joins the handlers one after the other,
JoinHandlers ==
  /\ status = "running"
  /\ \/ mpc = "accept" /\ TableFull /\ mpc' = "join" /\ mi' = 0
     \/ mpc = "join" /\ mi < nb_clients /\ Joined(mi)
        /\ mi' = mi + 1 /\ UNCHANGED mpc
     \/ mpc = "join" /\ mi = nb_clients /\ mpc' = "eoj" /\ mi' = 0
  /\ UNCHANGED <<status, best, reg, countVars, client, loadVars, handler, relay,
                 fds, netVars, srvVars, peer>>

\* then sends DT_EOJ to each server and cancels and joins its relay.
SendEoj ==
  /\ status = "running"
  /\ mpc = "eoj" /\ mi < nb_servers
  /\ SendServer(mi, Typed("EOJ"))
  /\ mpc' = "cancel"
  /\ UNCHANGED <<mi, best, reg, countVars, client, loadVars, handler, relay,
                 fds, netVars, answers, fromServer, peer>>

JoinRelay ==
  /\ status = "running"
  /\ mpc = "cancel" /\ relay[mi].pc \in {"exit", "none"}
  /\ mpc' = "eoj" /\ mi' = mi + 1
  /\ UNCHANGED <<status, best, reg, countVars, client, loadVars, handler, relay,
                 fds, netVars, srvVars, peer>>

\* To join or cancel a thread that was never created is undefined: with the
\* zeroed identifier that pthread_create leaves, it kills the process.
JoinUnstarted ==
  /\ status = "running"
  /\ \/ mpc = "join" /\ mi < nb_clients /\ handler[mi].pc = "none"
     \/ mpc = "cancel" /\ relay[mi].pc = "none"
  /\ status' = "unjoinable"
  /\ UNCHANGED <<mainVars, countVars, client, loadVars, handler, relay, fds,
                 netVars, srvVars, peer>>

Stop ==
  /\ status = "running"
  /\ mpc = "eoj" /\ mi = nb_servers
  /\ status' = "stopped"
  /\ UNCHANGED <<mainVars, countVars, client, loadVars, handler, relay, fds,
                 netVars, srvVars, peer>>

\* Everything but accept, which waits for a client to connect.
Proceed == OpenServer \/ SkipServer \/ PublishServer \/ EndOfFile
             \/ Scan \/ LockLeast \/ Assign \/ LockAssigned \/ AddLoad
             \/ Spawn \/ CountClient \/ JoinHandlers \/ SendEoj \/ JoinRelay
             \/ JoinUnstarted \/ Stop
-----------------------------------------------------------------------------
(* handle_client_stream(c).  cnt is the register of its ++ and -- on       *)
(* nb_clients_connected and of its -- on a load, i the index of            *)
(* get_client, data is c->data.                                            *)

Step(c, from, to) ==
  /\ status = "running"
  /\ handler[c].pc = from
  /\ handler' = [handler EXCEPT ![c].pc = to]

\* The end of an iteration: c->data is zeroed again.
Resume(c, from) ==
  /\ status = "running"
  /\ handler[c].pc = from
  /\ handler' = [handler EXCEPT ![c] = Idle]

ReadCount(c, from, to) ==
  /\ status = "running"
  /\ handler[c].pc = from
  /\ handler' = [handler EXCEPT ![c].pc = to, ![c].cnt = nb_clients_connected]
  /\ UNCHANGED <<status, mainVars, countVars, client, loadVars, relay, fds,
                 netVars, srvVars, peer>>

WriteCount(c, from, to, d) ==
  /\ status = "running"
  /\ handler[c].pc = from
  /\ handler' = [handler EXCEPT ![c].pc = to, ![c].cnt = 0]
  /\ nb_clients_connected' = handler[c].cnt + d
  /\ UNCHANGED <<status, mainVars, nb_clients, nb_servers, client, loadVars,
                 relay, fds, netVars, srvVars, peer>>

Enter(c)     == ReadCount(c, "start", "increment")
Increment(c) == WriteCount(c, "increment", "loop", 1)

\* The loop condition; then a client_mutex is taken to receive under it: the
\* packet ("lock"), the pseudo of a DT_CON, the name of a DT_GET.
LoopTest(c) ==
  /\ Step(c, "loop", IF nb_clients_connected > 0 THEN "lock" ELSE "left")
  /\ UNCHANGED <<status, mainVars, countVars, client, loadVars, relay, fds,
                 netVars, srvVars, peer>>

LockToReceive(c) ==
  /\ \/ Step(c, "lock", "recv")
     \/ Step(c, "con", "name")
     \/ Step(c, "get", "query")
  /\ UNCHANGED <<status, mainVars, countVars, client, loadVars, relay, fds,
                 netVars, srvVars, peer>>

\* What each packet type does; BOC, EOC and the others do nothing.
Branch(type) ==
  CASE type = "CLO"            -> "close"
    [] type = "CON"            -> "con"
    [] type = "GET"            -> "get"
    [] type \in {"CEX", "FEX"} -> "forward"
    [] OTHER                   -> "loop"

\* recv of a packet; the proxy writes the origin address itself.
Receive(c) ==
  /\ status = "running"
  /\ handler[c].pc = "recv" /\ up[c] # <<>>
  /\ LET pc == Branch(Head(up[c]).type)
     IN  handler' = [handler EXCEPT ![c] =
           IF pc = "loop" THEN Idle
           ELSE [@ EXCEPT !.pc = pc,
                          !.data = [Head(up[c]) EXCEPT !.origin = client[c].addr]]]
  /\ up' = [up EXCEPT ![c] = Tail(@)]
  /\ UNCHANGED <<status, mainVars, countVars, client, loadVars, relay, fds,
                 link, inbox, srvVars, peer>>

\* recv returns 0: the zeroed packet reads as DT_CLO.
ReceiveEnd_Retry(c) ==
  /\ up[c] = <<>> /\ link[c] \in EndOfStream
  /\ Step(c, "recv", "loop")
  /\ UNCHANGED <<status, mainVars, countVars, client, loadVars, relay, fds,
                 netVars, srvVars, peer>>

ReceiveEnd(c) ==
  /\ up[c] = <<>> /\ link[c] \in EndOfStream
  /\ Step(c, "recv", "close")
  /\ UNCHANGED <<status, mainVars, countVars, client, loadVars, relay, fds,
                 netVars, srvVars, peer>>

\* recv fails: the thread exits and leaves its slot, load and count as they are.
ReceiveError(c) ==
  /\ up[c] = <<>> /\ link[c] = "rst"
  /\ Step(c, "recv", "broken")
  /\ link' = [link EXCEPT ![c] = "dead"]
  /\ UNCHANGED <<status, mainVars, countVars, client, loadVars, relay, fds, up,
                 inbox, srvVars, peer>>

\* The unchecked recv of a name: raw bytes, or nothing when the client is gone
\* (c->name keeps its value; the local name of a DT_GET is zeroed before).
ReceiveName(c) ==
  /\ status = "running"
  /\ handler[c].pc \in {"name", "query"}
  /\ \/ /\ up[c] # <<>>
        /\ up' = [up EXCEPT ![c] = Tail(@)] /\ UNCHANGED link
     \/ /\ up[c] = <<>> /\ link[c] \notin {"none", "open"}
        /\ link' = [link EXCEPT ![c] = IF @ = "rst" THEN "dead" ELSE @]
        /\ UNCHANGED up
  /\ LET name == IF up[c] = <<>> THEN NoName ELSE Head(up[c]).name
     IN  \/ /\ Resume(c, "name")
            /\ client' = IF up[c] = <<>> THEN client
                         ELSE [client EXCEPT ![c].name = name]
         \/ /\ handler[c].pc = "query"
            /\ handler' = [handler EXCEPT ![c].pc = "search", ![c].i = 0,
                                          ![c].data = Pseudo(name)]
            /\ UNCHANGED client
  /\ UNCHANGED <<status, mainVars, countVars, loadVars, relay, fds, inbox,
                 srvVars, peer>>

\* get_client: the entries in table order, each compared under its mutex.
SearchName(c) ==
  LET i == handler[c].i
  IN  /\ status = "running"
      /\ handler[c].pc = "search" /\ i < nb_clients /\ ~Locked(i)
      /\ handler' = IF client[i].name = handler[c].data.name
                    THEN [handler EXCEPT ![c].pc = "found"]
                    ELSE [handler EXCEPT ![c].i = i + 1]
      /\ UNCHANGED <<status, mainVars, countVars, client, loadVars, relay, fds,
                     netVars, srvVars, peer>>

\* The answer to DT_GET: DT_INE, or the address, read under c2's mutex.
Answer(c) ==
  LET i == handler[c].i
  IN  /\ \/ /\ i >= nb_clients /\ Resume(c, "search")
            /\ Send(c, Typed("INE"))
         \/ /\ Resume(c, "found") /\ ~Locked(i)
            /\ Send(c, Found(client[i].addr))
      /\ UNCHANGED <<mainVars, countVars, client, loadVars, relay, fds, up,
                     srvVars, peer>>

\* DT_CEX (DT_FEX): noise, then the packet goes to the client's server.
Forward(c) ==
  /\ Resume(c, "forward")
  /\ SendServer(client[c].server, handler[c].data)
  /\ UNCHANGED <<mainVars, countVars, client, loadVars, relay, fds, netVars,
                 answers, fromServer, peer>>

\* DT_CLO: the slot is marked, the count decremented, the socket closed, the
\* load given back, in this order.
MarkClosed_Forgotten(c) ==
  /\ Step(c, "close", "uncount")
  /\ UNCHANGED <<status, mainVars, countVars, client, loadVars, relay, fds,
                 netVars, srvVars, peer>>

MarkClosed(c) ==
  /\ Step(c, "close", "uncount")
  /\ client' = [client EXCEPT ![c].sock_fd = NoFd]
  /\ UNCHANGED <<status, mainVars, countVars, loadVars, relay, fds, netVars,
                 srvVars, peer>>

Uncount(c)   == ReadCount(c, "uncount", "decrement")
Decrement(c) == WriteCount(c, "decrement", "shut", -1)

CloseSocket_Lowest(c) ==
  /\ Step(c, "shut", "release")
  /\ fds' = [fds EXCEPT ![1] = NoSlot]
  /\ UNCHANGED <<status, mainVars, countVars, client, loadVars, relay, netVars,
                 srvVars, peer>>

CloseSocket(c) ==
  /\ Step(c, "shut", "release")
  /\ fds' = [f \in Fd |-> IF fds[f] = c THEN NoSlot ELSE fds[f]]
  /\ UNCHANGED <<status, mainVars, countVars, client, loadVars, relay, netVars,
                 srvVars, peer>>

Released_All(l) == 0
Released(l)     == IF l > 0 THEN l - 1 ELSE 0

LockToRelease(c) ==
  LET s == client[c].server
  IN  /\ status = "running"
      /\ handler[c].pc = "release"
      /\ LockLoad(s)
      /\ handler' = [handler EXCEPT ![c].pc = "give", ![c].cnt = load[s]]
      /\ UNCHANGED <<status, mainVars, countVars, client, relay, fds, netVars,
                     srvVars, peer>>

ReleaseLoad(c) ==
  /\ status = "running"
  /\ handler[c].pc = "give"
  /\ StoreLoad(client[c].server, Released(handler[c].cnt))
  /\ handler' = [handler EXCEPT ![c].pc = "closed", ![c].cnt = 0]
  /\ UNCHANGED <<status, mainVars, countVars, client, relay, fds, netVars,
                 srvVars, peer>>

Handler(c) ==
  \/ Enter(c) \/ Increment(c) \/ LoopTest(c) \/ LockToReceive(c) \/ Receive(c)
  \/ ReceiveEnd(c) \/ ReceiveError(c) \/ ReceiveName(c) \/ SearchName(c)
  \/ Answer(c) \/ Forward(c) \/ MarkClosed(c) \/ Uncount(c) \/ Decrement(c)
  \/ CloseSocket(c) \/ LockToRelease(c) \/ ReleaseLoad(c)
-----------------------------------------------------------------------------
(* handle_server_stream(s).  i is the index of get_client_by_addr, then    *)
(* the client it found; fd the descriptor read for the send; data s->data. *)

RelayTest_Own(s) ==
  /\ status = "running"
  /\ relay[s].pc = "test"
  /\ relay' = [relay EXCEPT ![s].pc = IF nb_servers > s THEN "recv" ELSE "exit"]
  /\ UNCHANGED <<status, mainVars, countVars, client, loadVars, handler, fds,
                 netVars, srvVars, peer>>

RelayTest(s) ==
  /\ status = "running"
  /\ relay[s].pc = "test"
  /\ relay' = [relay EXCEPT ![s].pc = IF nb_servers > 0 THEN "recv" ELSE "exit"]
  /\ UNCHANGED <<status, mainVars, countVars, client, loadVars, handler, fds,
                 netVars, srvVars, peer>>

\* recv: a packet, or 0 bytes (the zeroed packet, whose dest is no client's).
RelayReceive(s) ==
  /\ status = "running"
  /\ relay[s].pc = "recv"
  /\ \/ /\ fromServer[s] # <<>>
        /\ relay' = [relay EXCEPT ![s].pc = "lookup", ![s].i = 0,
                                  ![s].data = Head(fromServer[s])]
        /\ fromServer' = [fromServer EXCEPT ![s] = Tail(@)]
     \/ /\ fromServer[s] = <<>> /\ slink[s] \in EndOfStream
        /\ relay' = [relay EXCEPT ![s].pc = "lookup", ![s].i = 0,
                                  ![s].data = Zero]
        /\ UNCHANGED fromServer
  /\ UNCHANGED <<status, mainVars, countVars, client, loadVars, handler, fds,
                 netVars, slink, toServer, answers, peer>>

\* recv fails: the thread unlocks server_mutex, which it does not hold, though
\* main or a handler may, and exits.
RelayError(s) ==
  /\ status = "running"
  /\ relay[s].pc = "recv" /\ fromServer[s] = <<>> /\ slink[s] = "rst"
  /\ relay' = [relay EXCEPT ![s].pc = "exit"]
  /\ slink' = [slink EXCEPT ![s] = "dead"]
  /\ server_mutex' = [server_mutex EXCEPT ![s] = FALSE]
  /\ UNCHANGED <<status, mainVars, countVars, client, load, handler, fds,
                 netVars, toServer, answers, fromServer, peer>>

\* get_client_by_addr, for the destination ("lookup") or, once the destination
\* is found closed, for the origin ("origin"): the first entry that matches.
Sought(r) == IF r.pc = "lookup" THEN r.data.dest ELSE r.data.origin

RelayLookup(s) ==
  LET i == relay[s].i
  IN  /\ status = "running"
      /\ relay[s].pc \in {"lookup", "origin"} /\ i < nb_clients /\ ~Locked(i)
      /\ relay' = IF client[i].addr # Sought(relay[s])
                  THEN [relay EXCEPT ![s].i = i + 1]
                  ELSE [relay EXCEPT ![s].pc = IF @ = "lookup" THEN "check"
                                                               ELSE "send"]
      /\ UNCHANGED <<status, mainVars, countVars, client, loadVars, handler,
                     fds, netVars, srvVars, peer>>

\* No entry matches: c is NULL and c->sock_fd kills the process.
RelayNull(s) ==
  /\ status = "running"
  /\ relay[s].pc \in {"lookup", "origin"} /\ relay[s].i >= nb_clients
  /\ status' = "segv"
  /\ UNCHANGED <<mainVars, countVars, client, loadVars, handler, relay, fds,
                 netVars, srvVars, peer>>

\* A closed destination: DT_CEX goes back as DT_EOC, anything else as DT_EOF.
Bounced(p) == [p EXCEPT !.type = IF @ = "CEX" THEN "EOC" ELSE "EOF"]

Returned_NoReset(r) == [r EXCEPT !.pc = "origin", !.data = Bounced(@)]
Returned(r) == [r EXCEPT !.pc = "origin", !.i = 0, !.data = Bounced(@)]

RelayCheck(s) ==
  /\ status = "running"
  /\ relay[s].pc = "check"
  /\ relay' = IF client[relay[s].i].sock_fd # NoFd
              THEN [relay EXCEPT ![s].pc = "send"]
              ELSE [relay EXCEPT ![s] = Returned(@)]
  /\ UNCHANGED <<status, mainVars, countVars, client, loadVars, handler, fds,
                 netVars, srvVars, peer>>

\* sock_fd is read again, without the mutex, as the argument of send.
RelayReadFd(s) ==
  /\ status = "running"
  /\ relay[s].pc = "send"
  /\ relay' = [relay EXCEPT ![s].pc = "write",
                            ![s].fd = client[relay[s].i].sock_fd]
  /\ UNCHANGED <<status, mainVars, countVars, client, loadVars, handler, fds,
                 netVars, srvVars, peer>>

\* The send: to the socket that has this descriptor by then, or EBADF (ignored).
RelayWrite(s) ==
  /\ status = "running"
  /\ relay[s].pc = "write"
  /\ relay' = [relay EXCEPT ![s] = [pc |-> "test", i |-> 0, fd |-> NoFd,
                                     data |-> Zero]]
  /\ IF relay[s].fd \in Fd /\ fds[relay[s].fd] # NoSlot
     THEN Send(fds[relay[s].fd], relay[s].data)
     ELSE UNCHANGED <<status, link, inbox>>
  /\ UNCHANGED <<mainVars, countVars, client, loadVars, handler, fds, up,
                 srvVars, peer>>

\* pthread_cancel takes effect at recv or send.
RelayCancelled(s) ==
  /\ status = "running"
  /\ mpc = "cancel" /\ mi = s /\ relay[s].pc \in {"recv", "write"}
  /\ relay' = [relay EXCEPT ![s].pc = "exit"]
  /\ UNCHANGED <<status, mainVars, countVars, client, loadVars, handler, fds,
                 netVars, srvVars, peer>>

Relay(s) == \/ RelayTest(s) \/ RelayReceive(s) \/ RelayError(s)
            \/ RelayLookup(s) \/ RelayNull(s) \/ RelayCheck(s)
            \/ RelayReadFd(s) \/ RelayWrite(s) \/ RelayCancelled(s)
-----------------------------------------------------------------------------
(* The environment: client.c on the other end of connection c, and the     *)
(* server.  seen counts the packets the client has read completely.        *)

CanSay(c) == link[c] = "open" /\ Len(up[c]) < MaxUp

Says(c, pc, items) ==
  /\ CanSay(c)
  /\ up' = [up EXCEPT ![c] = @ \o items]
  /\ peer' = [peer EXCEPT ![c].pc = pc]

\* auth: DT_CON, then the pseudo once the user has typed it.
PeerAuth(c) ==
  /\ status = "running"
  /\ client[c].addr \in Talkers
  /\ \/ peer[c].pc = "auth" /\ Says(c, "pseudo", <<Typed("CON")>>)
     \/ /\ peer[c].pc = "pseudo"
        /\ \E n \in Names : Says(c, "menu", <<Pseudo(n)>>)
  /\ UNCHANGED <<status, mainVars, countVars, client, loadVars, handler, relay,
                 fds, link, inbox, srvVars>>

\* get_receiver: DT_GET, then a name, then a blocking recv.
PeerAsk(c) ==
  /\ status = "running"
  /\ peer[c].pc = "menu" /\ peer[c].gets < MaxGet /\ CanSay(c)
  /\ up' = [up EXCEPT ![c] = Append(@, Typed("GET"))]
  /\ peer' = [peer EXCEPT ![c].pc = "ask", ![c].gets = @ + 1]
  /\ UNCHANGED <<status, mainVars, countVars, client, loadVars, handler, relay,
                 fds, link, inbox, srvVars>>

PeerName(c) ==
  /\ status = "running"
  /\ peer[c].pc = "ask"
  /\ \E n \in Names : Says(c, "wait", <<Pseudo(n)>>)
  /\ UNCHANGED <<status, mainVars, countVars, client, loadVars, handler, relay,
                 fds, link, inbox, srvVars>>

\* Whatever arrives first is taken for the answer.
PeerAnswered(c) ==
  /\ status = "running"
  /\ peer[c].pc = "wait" /\ peer[c].seen < Len(inbox[c]) /\ link[c] = "open"
  /\ peer' = [peer EXCEPT ![c].pc = "menu", ![c].seen = @ + 1]
  /\ UNCHANGED <<status, mainVars, countVars, client, loadVars, handler, relay,
                 fds, netVars, srvVars>>

\* chat: DT_BOC, one DT_CEX per character to a destination found or typed,
\* DT_EOC.
PeerBegin(c) ==
  /\ status = "running"
  /\ peer[c].pc = "menu" /\ client[c].addr \in Chatters /\ CanSay(c)
  /\ up' = [up EXCEPT ![c] = Append(@, Typed("BOC"))]
  /\ \E a \in Dests :
       peer' = [peer EXCEPT ![c].pc = "chat", ![c].dest = a]
  /\ UNCHANGED <<status, mainVars, countVars, client, loadVars, handler, relay,
                 fds, link, inbox, srvVars>>

PeerSend(c) ==
  /\ status = "running"
  /\ peer[c].pc = "chat" /\ peer[c].sent < MaxCex /\ CanSay(c)
  /\ up' = [up EXCEPT ![c] = Append(@,
              [Typed("CEX") EXCEPT !.dest = peer[c].dest, !.from = c,
                                   !.id = peer[c].sent])]
  /\ peer' = [peer EXCEPT ![c].sent = @ + 1]
  /\ UNCHANGED <<status, mainVars, countVars, client, loadVars, handler, relay,
                 fds, link, inbox, srvVars>>

PeerEnd(c) ==
  /\ status = "running"
  /\ peer[c].pc = "chat"
  /\ Says(c, "over", <<[Typed("EOC") EXCEPT !.dest = peer[c].dest]>>)
  /\ UNCHANGED <<status, mainVars, countVars, client, loadVars, handler, relay,
                 fds, link, inbox, srvVars>>

\* The client closes or dies, at any moment, possibly with unread packets, and
\* then possibly with packets its kernel has not sent.
PeerClose(c) ==
  /\ status = "running"
  /\ link[c] = "open"
  /\ link' = [link EXCEPT ![c] = AfterClose(peer[c].seen < Len(inbox[c]))]
  /\ \E q \in Delivered(up[c], link'[c]) : up' = [up EXCEPT ![c] = q]
  /\ peer' = [peer EXCEPT ![c] = [NoPeer EXCEPT !.pc = "gone"]]
  /\ UNCHANGED <<status, mainVars, countVars, client, loadVars, handler, relay,
                 fds, inbox, srvVars>>

Peer(c) == \/ PeerAuth(c) \/ PeerAsk(c) \/ PeerName(c) \/ PeerAnswered(c)
           \/ PeerBegin(c) \/ PeerSend(c) \/ PeerEnd(c) \/ PeerClose(c)

\* server_send on a packet whose byte is intact or corrected: the packet itself
\* and, for an exchange, its acknowledgement to the sender.
Ack(p) == [p EXCEPT !.type = "ACK", !.dest = p.origin]

server_send_Twice(p) ==
  IF p.type \in {"CEX", "FEX"} THEN <<p, p, Ack(p)>> ELSE <<p>>
server_send_AckFirst(p) ==
  IF p.type \in {"CEX", "FEX"} THEN <<Ack(p), p>> ELSE <<p>>
server_send(p) ==
  IF p.type \in {"CEX", "FEX"} THEN <<p, Ack(p)>> ELSE <<p>>

\* A turn of the server's loop: server_read, where DT_EOJ makes it close the
\* connection, then a send of server_send at a time.
ServerReads(s) ==
  /\ status = "running"
  /\ slink[s] = "open" /\ answers[s] = <<>> /\ toServer[s] # <<>>
  /\ toServer' = [toServer EXCEPT ![s] = Tail(@)]
  /\ IF Head(toServer[s]).type = "EOJ"
     THEN slink' = [slink EXCEPT ![s] = AfterClose(Tail(toServer[s]) # <<>>)]
          /\ UNCHANGED answers
     ELSE answers' = [answers EXCEPT ![s] = server_send(Head(toServer[s]))]
          /\ UNCHANGED slink
  /\ UNCHANGED <<status, mainVars, countVars, client, loadVars, handler, relay,
                 fds, netVars, fromServer, peer>>

ServerWrites(s) ==
  /\ status = "running"
  /\ answers[s] # <<>>
  /\ fromServer' = [fromServer EXCEPT ![s] = Append(@, Head(answers[s]))]
  /\ answers' = [answers EXCEPT ![s] = Tail(@)]
  /\ UNCHANGED <<status, mainVars, countVars, client, loadVars, handler, relay,
                 fds, netVars, slink, toServer, peer>>

Serve(s) == ServerReads(s) \/ ServerWrites(s)

\* The server dies, at any moment: between the two sends of an exchange, with
\* unread packets, and then possibly with packets its kernel has not sent.
ServerDies(s) ==
  /\ status = "running"
  /\ ServersMayFail /\ slink[s] = "open"
  /\ slink' = [slink EXCEPT ![s] = AfterClose(toServer[s] # <<>>)]
  /\ answers' = [answers EXCEPT ![s] = <<>>]
  /\ \E q \in Delivered(fromServer[s], slink'[s]) :
       fromServer' = [fromServer EXCEPT ![s] = q]
  /\ UNCHANGED <<status, mainVars, countVars, client, loadVars, handler, relay,
                 fds, netVars, toServer, peer>>
-----------------------------------------------------------------------------
Next ==
  \/ Accept \/ Proceed
  \/ \E c \in Slot : Handler(c) \/ Peer(c)
  \/ \E s \in Line : Relay(s) \/ Serve(s) \/ ServerDies(s)

Spec == Init /\ [][Next]_vars

\* The scheduler runs every thread of the proxy and the server processes; the
\* users at the clients and the failures of servers owe nothing.
Fairness ==
  /\ WF_vars(Proceed)
  /\ \A c \in Slot : WF_vars(Handler(c))
  /\ \A s \in Line : WF_vars(Relay(s)) /\ WF_vars(Serve(s))

FairSpec == Spec /\ Fairness
-----------------------------------------------------------------------------
ClientSlot    == [sock_fd : Fd \cup {NoFd}, addr : Addr \cup {NoAddr},
                  server : Line \cup {NoLine}, name : Names \cup {NoName}]
HandlerThread == [pc : HandlerPc, cnt : Int, i : Nat, data : Packet]
RelayThread   == [pc : RelayPc, i : Nat, fd : Fd \cup {NoFd}, data : Packet]
PeerState     == [pc : PeerPc, gets : Nat, sent : Nat, seen : Nat,
                  dest : Addr \cup {NoAddr}]

\* Every counter, register, table entry and queue holds what the code can store
\* there: table indices stay in the tables whatever the interleaving.
TypeOK ==
  /\ status \in Status
  /\ mpc \in MainPc
  /\ mi \in Nat /\ reg \in Nat
  /\ best \in [server : Line \cup {NoLine}, min : 0..MaxLoad]
  /\ nb_clients \in 0..BUFLEN
  /\ nb_clients_connected \in Int
  /\ nb_servers \in 0..NLINES
  /\ client \in [Slot -> ClientSlot]
  /\ load \in [Line -> Nat] /\ server_mutex \in [Line -> BOOLEAN]
  /\ handler \in [Slot -> HandlerThread]
  /\ relay \in [Line -> RelayThread]
  /\ fds \in [Fd -> Slot \cup {NoSlot}]
  /\ link \in [Slot -> LinkState]
  /\ up \in [Slot -> Seq(Packet)]
  /\ inbox \in [Slot -> Seq(Packet)]
  /\ slink \in [Line -> LinkState]
  /\ toServer \in [Line -> Seq(Packet)] /\ answers \in [Line -> Seq(Packet)]
  /\ fromServer \in [Line -> Seq(Packet)]
  /\ peer \in [Slot -> PeerState]
=============================================================================
