-------------------------- MODULE ProxyProperties --------------------------
(***************************************************************************)
(* What the runs check of the proxy besides TypeOK: its table and loads,   *)
(* its descriptors and lookups, the packets it relays, its shutdown.       *)
(***************************************************************************)
EXTENDS Proxy, Functions

\* A slot is complete before anybody can reach it, a lookup (accept_new_client
\* counts it last) or its own handler, which runs earlier: it has its address,
\* its server and, until the handler marks it closed, its descriptor.
PublishedSlotReady ==
  \A c \in Slot : c < nb_clients \/ handler[c].pc # "none" =>
    /\ client[c].addr \in Addr
    /\ client[c].server \in 0..(nb_servers - 1)
    /\ handler[c].pc \notin Departed => client[c].sock_fd # NoFd

\* get_server_with_min_load never returns NULL, because no load can reach
\* INT_MAX and the proxy has a server when it accepts: the error path of
\* accept_new_client (a slot left half initialized) is dead code.
ServerAlwaysFound ==
  mpc = "scan" /\ mi = nb_servers => best.server # NoLine

Serving(s) == {c \in Slot : client[c].server = s /\ handler[c].pc # "closed"}

\* The relay of s has ended on an error of recv: it has unlocked server_mutex,
\* whoever held it, and updates of the load may have been lost since.
Failed(s) == relay[s].pc = "exit" /\ slink[s] = "dead"

\* The load of a server is never less than the number of clients it still
\* serves, until its relay fails: whatever order handlers release loads in while
\* main adds to them, a server in use never looks idler than it is.
LoadCoversConnected ==
  \A s \in Line : ~Failed(s) => Cardinality(Serving(s)) <= load[s]

Assigned(s) == {c \in Slot : client[c].server = s}
Pending(s)  == IF mpc \in {"assigned", "again"} /\ client[nb_clients].server = s
               THEN 1 ELSE 0

\* The exact books, until the relay of s fails: a load is twice the number of
\* clients ever assigned to the server minus the number that have left it, in
\* whatever order main's two increments and the handlers' decrements meet, and
\* the test of proxy.c:146 for a load of 0 never bites.  Every departed client
\* thus leaves a load of 1.
LoadLedger ==
  \A s \in Line : ~Failed(s) =>
    load[s] = Cardinality(Assigned(s)) + Cardinality(Serving(s)) - Pending(s)

\* As long as no client has left, the scan spreads the clients evenly: the
\* loads of two servers differ by at most one client (counted twice).
Balanced ==
  (\A c \in Slot : handler[c].pc # "closed") =>
    \A s, t \in 0..(nb_servers - 1) : load[s] <= load[t] + 2

\* The descriptor recorded in a slot is the slot's own: no handler or relay
\* that reads sock_fd under the client's mutex finds another client's socket,
\* although descriptors are reused as soon as they are closed.
OpenSlotOwnsFd ==
  \A c \in Slot : client[c].sock_fd # NoFd => fds[client[c].sock_fd] = c

\* Only a client that has left can lose a packet to the unlocked reads of
\* sock_fd: the descriptor a relay is about to send to is that of the client it
\* found, unless that client's handler has marked the slot closed since.
SentToOwnerUnlessClosed ==
  \A s \in Line :
    relay[s].pc = "write" =>
      \/ relay[s].fd \in Fd /\ fds[relay[s].fd] = relay[s].i
      \/ handler[relay[s].i].pc \in Departed

\* get_client_by_addr examines the table in order and skips no match: the entry
\* it stops at carries the address of the packet's destination, or of its
\* origin, and no earlier entry does, while main appends entries.
LookupFirstMatch ==
  \A s \in Line :
    LET r == relay[s]
    IN  /\ r.pc \in {"lookup", "origin"} =>
             \A j \in Slot : j < r.i => client[j].addr # Sought(r)
        /\ r.pc \in {"check", "send", "write"} =>
             /\ client[r.i].addr \in {r.data.dest, r.data.origin}
             /\ \A j \in Slot : j < r.i => client[j].addr # client[r.i].addr

\* The process dies of a NULL entry only for an address that no entry has: a
\* lookup that runs while main appends entries never misses one it needed.
NullOnlyIfUnknown ==
  status = "segv" =>
    \E s \in Line :
      /\ relay[s].pc \in {"lookup", "origin"}
      /\ \A c \in 0..(nb_clients - 1) : client[c].addr # Sought(relay[s])

\* The test of nb_servers can only stop the relay of the first server (which
\* runs before nb_servers counts it): until the shutdown the relay of every
\* later one, once it was created, reads on while its connection stands.
LaterRelaysRead ==
  \A s \in 1..(NLINES - 1) :
    slink[s] = "open" /\ mpc \notin {"eoj", "cancel"} => relay[s].pc # "exit"

\* The exchanges of one sender reach a client in the order of their ids and at
\* most once each, and so do its acknowledgements and the packets that come
\* back to it as DT_EOC: relays of several threads neither reorder nor repeat.
RelayedInOrder ==
  \A c \in Slot : \A i, j \in 1..Len(inbox[c]) :
    LET p == inbox[c][i]
        q == inbox[c][j]
    IN  i < j /\ p.type = q.type /\ p.from = q.from /\ p.from # NoSlot
          => p.id < q.id

\* What the server has answered and its relay has not read, sent or not.
Returning(s) == fromServer[s] \o answers[s]

InTransit(s) == Range(toServer[s]) \cup Range(Returning(s)) \cup {relay[s].data}

\* When its sender holds the acknowledgement of an exchange, the exchange is no
\* longer queued anywhere: the relay has already sent, returned or dropped it.
AckAfterRelay ==
  \A c \in Slot : \A i \in 1..Len(inbox[c]) :
    inbox[c][i].type = "ACK" =>
      \A s \in Line : \A p \in InTransit(s) :
        p.type \in {"CEX", "EOC"} =>
          <<p.from, p.id>> # <<inbox[c][i].from, inbox[c][i].id>>

\* DT_EOJ is the last packet a server is sent: main has joined every handler,
\* so none of them sends an exchange the server would never read.
EojLast ==
  \A s \in Line : \A i \in 1..Len(toServer[s]) :
    toServer[s][i].type = "EOJ" => i = Len(toServer[s])

AllGone == \A c \in Slot : peer[c].pc = "gone"

\* When the table is full and every client has left, the proxy comes to an end:
\* no handler, relay or join waits for ever on a mutex, a recv or a thread.
ShutdownTerminates == nb_clients = BUFLEN /\ AllGone ~> status # "running"
=============================================================================
