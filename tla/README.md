# Verification of Projet_RIO

Projet_RIO is a chat between clients over a deliberately unreliable proxy: a
client sends one character per packet with its CRC, the proxy flips a bit of
it and hands it to one of several servers, the server corrects it and sends it
back together with an acknowledgement, and the proxy relays both to the right
clients. Three C programs share `include/base.h` (packets) and
`src/correcteur.c` (the code).

This directory holds TLA+ modules translated from that source, TLC
configurations that check them on small instances, and proofs checked by TLAPS.
`PROJECT.json` maps every definition to its lines.

## Inventory

| Component | State | Operations | Hard behaviour |
|---|---|---|---|
| Proxy, main thread (`proxy.c` `main`, `initialize_proxy`, `open_new_server`, `accept_new_client`) | `nb_servers`, `nb_clients`, `nb_clients_connected`, `servers[].load`, `clients[]` | connect to servers, accept until the table is full, assign the least loaded server, join everybody, DT_EOJ | threads run before the counters count them; two load increments; the shutdown order |
| Proxy, a thread per client (`handle_client_stream`, `get_client`) | `clients[c]` (mutex), a share of the counters | read a packet, register a name, answer DT_GET, forward, close | mutex held across a blocking `recv`; unlocked `++`/`--`; close and descriptor reuse; SIGPIPE |
| Proxy, a thread per server (`handle_server_stream`, `get_client_by_addr`) | `servers[s].data` | receive, find the destination, send to it or back to the sender | `sock_fd` read twice without a lock; entries never removed; NULL result |
| Code (`correcteur.c`) | none (pure) | `crcGeneration`, `crcVerif`, `crc_error_amount`, `test_and_correct_crc`, `hamming_distance`, `bruiter` | 0 means both "no error" and "CRC 0"; first accepted flip wins |
| Packets and connections (`base.h`, the kernel) | per socket: open, closed, reset | `send`, `recv`, `close` | reset when closing with unread bytes, SIGPIPE on the second send |
| Server (`server.c`) | `buffer`, `continue_job` | wait for the proxy, read, correct, answer, acknowledge, obey DT_EOJ | `recv` may return part of a packet or 0, and nothing tests how much; answers in two sends |
| Client, main thread (`client.c` `main`, `auth`, `get_receiver`, `chat`) | `shm`, the line being typed, the socket | connect, name itself, query a name, publish lines, quit | `state` and `data` written without the mutex; the unlock of a mutex it does not hold; joins of threads that sleep |
| Client, `thread_client_send` | index in the line, `shm.data` | wait, send the line character by character | waits on the condition without a predicate |
| Client, `thread_client_receive` | `received`, `shm` | receive, acknowledge, close | `recv` is given the size of a pointer; closes what the others use |
| File exchange | - | - | not implemented: `ftp` prints a message |
| `docs/` | - | - | HTML and JavaScript generated by Doxygen, not code of the programs |

The components interact through three things only: packets on TCP connections
(client-proxy, proxy-server), the proxy's tables (`clients`, `servers`, the
counters), shared by its threads, and the client's `Shared_memory`.

What makes them correct, in short. Main and handlers: every client gets a
server, servers share the load, what a lookup can reach is complete, each
descriptor belongs to one slot, everything stops when everyone has left. Relays:
a packet reaches the client its address names, once and in order, and its
acknowledgement does not overtake it. Code: a flipped bit is undone. Server: two
answers per exchange, in order, nothing else, and it ends. Client: lines are
transmitted whole and in order, the socket is not used once it is closed, no
thread waits for ever.

## Modules and how they follow the code

```
Base <- Proxy <- ProxyProperties <- ProxyInvariant
                    <- ProxyProofs <- ProxySafety <- ProxyRelaying <- ProxyOrder
            \<- ProxyFindings               ChatService <- ProxyRefinement (of Proxy)
                                            ProxyOrder + ProxyRefinement <- ProxyService
        MCProxy: ProxyInvariant + ProxyFindings + ProxyRefinement, for TLC
Base <- Client <- ClientProperties <- ClientInvariant <- ClientProofs, MCClient
Base <- Server <- ServerInvariant <- ServerProofs
Correcteur <- CorrecteurProofs
```

* `Base`: the packet types, and a TCP connection as the program that still holds
  its end sees it. `AfterSend` and `AfterClose` are what the kernel does: a send
  on a closed connection may be answered by a reset, a close with unread bytes
  sends one, and once a reset was reported the next send raises SIGPIPE. The
  programs neither ignore that signal nor pass MSG_NOSIGNAL.
* `Correcteur`: a byte is the set of the positions of its one bits. One byte
  travels from `Init` (client) through `Noise` (proxy) to `Check` (server).
  `CorrecteurProofs`: the theorems.
* `Proxy`: every thread of the proxy. A step contains at most one access to a
  variable that is shared without a lock, so `nb_clients_connected++` is
  `Enter` (read) and `Increment` (write), `open_new_server` is `OpenServer`
  (the relay exists) then `PublishServer` (`nb_servers++`), `accept_new_client`
  is `Accept`, `Scan`..., `Assign`, `AddLoad`, `Spawn`, `CountClient`, and the
  end of `handle_server_stream` is `RelayCheck` (the test of `sock_fd`),
  `RelayReadFd` (the second read) and `RelayWrite` (the send). A critical section
  that cannot block is one step, possible when the mutex is free; the mutex stays
  taken from one step to the next only while its owner is in `recv` (`Locked`).
  `fds` is the process's descriptor table: `accept` takes the lowest free
  number, `close` frees it, and a send on a number reaches whoever has it then.
  The clients and servers at the other ends are the environment: `Peer...`
  actions put on the socket what `client.c` can put there, with no obligation to
  go on, and `Serve` is a turn of `server_read`/`server_send`.
* `ChatService`: what the proxy and its servers promise the clients, in four
  variables and without threads, tables, sockets or servers. The exchanges of a
  client are settled one by one in the order it said them, each at most once and
  before its acknowledgement, which is out before the next is settled; some may
  be lost. What the proxy writes to a client of itself (the answers to queries) is
  `Notify`. `ProxyRefinement` maps `Proxy` to it: an exchange is in the
  queue from the moment its client has sent it until the relay sends it on or
  drops it (on the client's socket, in its handler, on the way to the server, on
  the way back, in the relay), an acknowledgement is owed when it is the oldest
  answer of the server that the relay has not dealt with, and a mailbox is what has
  been sent on a client's connection. Departures and dead servers are `Lose`.
  `RefinementInv` is what the proof of it needs, `ProxyService` the proof.
* `ProxyProperties`: what is checked of the proxy. `ProxyInvariant`: the
  inductive invariants. `ProxyProofs`, `ProxySafety`, `ProxyRelaying`,
  `ProxyOrder`, `ProxyService`: the theorems. `ProxyFindings`: sentences of the
  documentation as properties.
* `Server`: `wait_for_proxy` and the loop of `server_read` and `server_send`, on
  a stream of cells, `PSIZE` to a packet, that a `recv` may cut anywhere. What
  comes of a cut (`Readings`) is the start of a packet with or without its type, or
  bytes out of place with any type, a number that is not a type included, which
  `print_data` uses as an index. `torn` remembers that it happened; `out` records
  what is sent until then. `sent` and `ProxySends` are the proxy: exchanges, then
  at most one DT_EOJ, as `EojLast` shows of `Proxy`.
* `Client`: the main thread from `connect` to the end of a chat and back, the
  sender, the receiver, the mutex (`mutex` is the thread it is locked for), the
  condition (`waiting`, `woken`) and `Shared_memory`. A critical section that
  cannot block is one step; the sender's, which sends packets, is one step per
  access. What main does without the mutex (`Begin`, `Quit`, `Broadcast`, `Stamp`,
  `SendEoc`, `Unlock`) is a step per access. `Send` is `CHK(send(...))` on a
  connection in any state. Two details of the C decide much of what happens
  and are modelled by what they do: `recv(.., sizeof(&received), 0)` reads 8
  bytes (`Received`), and the byte between the pseudo and the line is never
  written (`cut`: `fgets` writes from `buffer[taille + 1]`), so that the message
  may end there.
* `ClientProperties`, `ClientInvariant`, `ClientProofs`, `MCClient` and
  `ServerInvariant`, `ServerProofs`: as for the proxy.

How they compose. `Proxy` contains the clients (`Peer...`) and the servers
(`Serve`) as seen from their sockets; `Client` and `Server` are the programs
themselves with the proxy as seen from theirs. What one side assumes is what the
other shows: `Peer...` sends in the order `PeerProtocol` states of `Client`
(`Proxy` lets a peer go at any point, which covers its other ends); `Serve`
answers as `OneAnswerEach` states of `Server` on whole packets; `Server`'s proxy
ends its stream as `EojLast` states of `Proxy`.

Definitions named `X_Slip` (`Better_Max`, `Joined_NoWait`...) stand next to the
definition they vary; they show which property notices such a slip, and nothing
uses them.

Abstractions. In `Proxy` a packet is read and written as a whole. The byte it
carries is left to `Correcteur`; `from` and `id` name a packet in its stead.
Addresses and pseudos are model values. Sockets of a departed client are named by
slot, which is unique as slots are never reused. Printing, `perror` and the exits
of failing system calls at start-up are reduced to `status = "failed"`. The
undefined unlock of an unlocked mutex is taken to have no effect in the proxy
(`proxy.c:218`, on the error exit of a relay) and to free the mutex in the client
(`client.c:259`), as the default mutex of the C library does. An unlocked `int`
access reads some earlier complete value, as on every platform the program is
built for. `pthread_cancel` acts at `recv` or `send`. In `Client`, the receiver's
`recv` takes the whole packet off the stream where the code leaves the rest of it
to be read as further packets: each of these would be taken for DT_CLO as the
first is, by a receiver that has ended then. In `get_receiver` packets are whole. The end of
the input is final. What a line says is left out, its length kept.

## Runs

| Run | Instance | What it shows |
|---|---|---|
| `noise` | all 256 bytes x 8 noises | the inductive invariant; correction returns the byte or erases it to 0, never another character; exactly which bytes are erased; the server never gives up; `hamming_distance` is the least distance between code words |
| `load` | 3 connections, 0-2 servers, clients leave at any time | a server is always found; the exact value of every load; loads are balanced while nobody leaves and always cover the connected clients; published slots are complete; only the first server's relay can miss `nb_servers` |
| `relay` | 2 connections, 1 server, one chatter, 2 exchanges | acknowledgements do not overtake, exchanges keep their order and are not repeated; lookups find the first match and miss none; open slots own their descriptor and only packets of a closing client go astray; DT_EOJ is last; `ChatService` is implemented |
| `failing` | 2 connections, 1 chatter, 1 server that may die | type correctness and the inductive invariants of all proofs about the proxy (`ProxyInv`, `RefinementInv`), in the presence of resets; `ChatService` is still implemented: exchanges are lost but never repeated, reordered or acknowledged early |
| `shutdown` | 2 connections, a name query each, `FairSpec` | with the table full and all clients gone the proxy ends |
| `client` | 1 line, the end of the input, 1 query, 1 packet of another client, `FairSpec` | the inductive invariant; one line per chat, transmitted whole; what the proxy may expect on the socket; no send on a socket the receiver has closed; the sender does not sleep for ever once something arrives; every thread that wants the mutex gets it |
| `server` | 4 packets of 3 cells, cut anywhere, `FairSpec` | the inductive invariant; two answers per exchange in order and no others while packets are whole; the server ends on DT_EOJ; it ends whenever its proxy is gone |
| `bug_addressee` | 2 connections | a stale descriptor sends a packet to another client (`proxy.c:236`) |
| `bug_eoj` | 2 connections | a lost update of `nb_clients_connected` sends DT_EOJ with a client connected (`proxy.c:102`) |
| `bug_stuck` | 2 connections, `FairSpec` | a lookup waits for ever for the mutex of a silent client (`proxy.c:112`) |
| `bug_quit` | no query, `FairSpec` | the broadcast of /q falls between the sender's test and its wait: the chat never returns (`client.c:234`) |
| `bug_ack` | 1 line | every acknowledgement is taken for DT_CLO: the window never opens again (`client.c:37`) |

Bounds, proxy. `BUFLEN`, `NLINES` size the tables; `MaxGet`, `MaxCex` and `MaxUp`
bound what each client sends and how far ahead of the proxy; `Talkers`,
`Chatters` and `Dests` restrict who does. Two slots suffice for every interference
of one client with another (descriptor reuse, reconnection, lock order, lost
updates); three slots and two servers for the choice of a server after a
departure. `MaxLoad` stands for INT_MAX and only has to exceed what the loads
reach, which `ConstantsOK` demands and `LoadBound` proves. The symmetry of `load`
exchanges addresses, none of which is named in that configuration.

Bounds, client. `PseudoLen = 0`, `LineLens = {1}`: a message is the byte after the
pseudo and a one-character line, two packets, or none when that byte is 0; two
packets are enough for a batch to be interrupted, overwritten and resumed.
`MaxLines = 1` with the end of the input, which publishes the empty line again and
again, gives a second message to overtake the first. One packet ahead of `recv`,
one spurious wakeup, one packet of another client: the receiver ends its chat
with the first packet it reads whatever it is. About 600 000 states.

Bounds, server. A packet is cut inside its type or after it with three cells; four
packets leave two to be read out of place. About 33 000 states.

`CHECK_DEADLOCK` is off everywhere: the programs stop or wait for users, the byte
of `Correcteur` arrives.

Fairness. Each assumption is that the operating system runs a thread that can run.

* `Proxy`: weak fairness of main (except `accept`, which waits for a user), every
  handler, every relay and the server processes. Mutexes need no more: a mutex is
  only held over several steps by a handler in `recv`, and that is what `bug_stuck`
  is about. Users and failures owe nothing. `shutdown` asks for termination when
  the table is full and all clients have left, the condition under which main
  leaves its accept loop and no `recv` on a client can block.
* `Client`: weak fairness of main (what it does without the user, `Main`), of the
  sender and of the receiver. That gives a thread the mutex if it is free from some
  time on, not if others take it again and again. `LocksGranted` holds all the
  same: main's critical sections leave the mutex free from one to the next, a batch
  ends with the line, and once the sender has closed the window nothing but a
  spurious wakeup brings it back. The user, the proxy and the network owe nothing;
  at the end of the input `fgets` returns at once.
* `Server`: weak fairness of the loop, and a reset under way arrives. Nothing
  obliges a proxy to connect, send or close.

## Proofs

The theorems hold for every value of the constants that satisfies the module's
`ConstantsOK`, and from nothing else. For the proxy its strongest part is
`MaxLoad > 2 * BUFLEN`, true of INT_MAX and any table; for the client that pseudo
and line fit the 256 bytes of the buffer, as `fgets` makes sure; for the server
that a packet has at least two bytes.

Proxy (`ProxyProofs`, `ProxySafety`, `ProxyRelaying`, `ProxyOrder`):

* `Invariance`: `Spec => []ProxyInv`. `TypeOK` alone is not inductive: `Assign`
  indexes the loads with the result of the scan, `Accept` the table with
  `nb_clients`. `ProxyInv` adds where main is with respect to its counters
  (`MainInv`), what a slot has and from when on (`SlotInv`), that a load is at
  most twice the clients counted (`LoadBound`), that the scan has found a server
  after its first step (`ScanInv`, which needs `LoadBound`: a load below
  INT_MAX is always better than none), and that lookups stop at published
  entries (`LookupInv`). There is one lemma per action; `StepInv`, `RelayStepInv` and
  `ProxyFrame` hold what the steps of one thread have in common.
* `TypeCorrect`, `AlwaysFound` (the error path of `accept_new_client`, which
  would leave a half-initialised slot, is dead code), `PublishedReady` follow.
* `DescriptorsOwned`, `OpenSlotsOwn`: with `MarkedFirst` (a handler marks its
  slot before it closes the descriptor) the ownership of descriptors is
  inductive. The lemmas of `ProxySafety` first collect the steps that leave slots,
  descriptors and loads alone (`Quiet`).
* `LedgerBalances`: a load is `Assigned + Serving - Pending`. It is inductive with
  `ProxyInv`; the proof counts how each step changes the two sets.
  `LoadsCover` follows, and that the `load > 0` test of `proxy.c:146` never bites.
* `LoadsBalanced`: `BalanceInv` adds that the scan holds the least load it has
  seen and that main's second increment goes to a server that was least loaded
  before the first. Nothing changes a load between the two while nobody has left.
* `WalksInTable`, `FirstMatchFound`: a published entry never changes its address
  (`WalkInv`), so what a lookup has passed stays passed. `NullUnknown`: at the
  step that finds no entry none has the address, and a dead process takes no step.
* `SentToOwner`: a slot has a descriptor until its handler marks it
  (`OpenUntilMarked`), and a handler that has departed has departed for good: the
  descriptor a relay has read is the slot's own or the slot has been marked since.
* `EojIsLast`: main passes the joins only when all handlers have ended (`JoinInv`),
  after which nothing but main writes to a server, once (`EojInv`).
* `LaterRelaysRun`: a relay other than the first starts when `nb_servers` is 1
  already (`LaterInv`).
* `AlwaysInOrder`, hence `RelaysKeepOrder` and `AckComesLast`: the exchange n of a
  client gets the number 2n and its acknowledgement 2n + 1 (`Key`), and so do the
  packets they become when they are returned. The places on their way (`Way`: the
  inboxes, the relays, the streams from and to the servers, the handler, the
  socket, what the user has yet to type) hold increasing numbers, each of them and
  from one to the next (`Ordered`); an exchange its server has not read stands
  for both its numbers. A step moves the first packet of one place to the next
  place, or drops it (`Moving`). That needs that all of a client's packets are at
  one server, whose relay is one thread (`NamedInv`, `ServerKept`), and that a
  slot's connection is opened once (`LinkInv`). Two relays never hold packets of one
  client: this is what keeps the order, not the mutexes.
* `SafetyInvariance`: `Spec => []SafetyInv`, all of these at once.

The refinement (`ProxyService`), `Implements`: `Spec => ImplementsService`, for
every number of clients, servers and exchanges. Its invariant `RefinementInv` adds
three parts to `SafetyInv`, and the `failing` run checks it.

* The variables of `ChatService` are seen through the keys of `AlwaysInOrder`: per
  client the keys the servers have answered and no relay has dealt with
  (`Answering`), and the keys on their way to a server (`Asking`). `View` says that
  `queue` and `owed` are functions of these two sets. A step then either moves
  keys (`Passes`: a server has answered, nothing changes in the service), takes
  the least answered key away (`Settle` or `Acknowledge`), drops one (`Lose`) or adds
  one (`Say`): `StepSeen`.
* `PairInv`: what is answered comes in pairs, exchange and acknowledgement, except
  that the least acknowledgement may be alone. So `Settle` finds no debt, and a
  relay that takes the least key (order again) takes the one that is owed.
* `RoutedInv`: what a relay carries is an exchange or an acknowledgement, or the
  zeroed packet of an ended stream, which has no client. So every letter is one
  `Settle`, `Acknowledge` or `Notify` may post.
* `GoneInv`: a client that has gone stays gone, so that `Leave` is final.

Server (`ServerProofs`): `Invariance`: what is left to read is a contiguous end of
what was sent, from the start of a packet as long as none was torn (`StreamInv`);
every packet read has had its two answers, except the one in `buffer`
(`AnswerInv`). `TypeCorrect`, `AnsweredOnce` follow.

Client (`ClientProofs`): `Invariance`. `PhaseInv` says that the threads live within
`chat`, that main leaves it only after /q or on a closed socket, and that a second
session never gets past `get_receiver`; `QuitInv` that a recognised /q is the last
thing read; `MutexInv` that until then the mutex is locked for the thread
that locked it; `CloseInv` that a sender that finds the socket closed finds nothing
to send; `WindowInv` that the window closes with the first line and stays closed.
`TypeCorrect`, `ClosedNotUsed` (the receiver closes under the mutex, hence never
under a batch), `SingleLine` follow.

`ChatInvariance` adds what the client has put on its socket, while it is connected.
`LineInv`: the last character sent is the one before `Reached`, the sender's index
in a batch that has begun to send and the end of the line otherwise; the size of
the line cannot change any more once something was sent, as the window is closed
(`LineFirst`). A lemma for steps that send nothing (`LineKept`) leaves `SenderSend`,
whose packet follows the last one or starts the line again. `LinesWhole` follows.
`TurnInv`: the type of the last packet is one `Expected` where main is, DT_BOC is
in the packet main is about to send although the sender uses the same packet
(nothing was published yet: the line has size 0), and the number in the sender's
packet is its index. `KeepsProtocol` follows. It ends with a recognised /q, which
writes DT_EOC over the sender's packet.

Code (`CorrecteurProofs`), for every byte and bit:

* `crcGeneration` is a recursive function over 0..8; that there is such a function
  is shown by giving it (`Loop`), as no induction is available.
* The sum of its two registers evolves by itself (`StepAdvances`): `Advance` shifts
  and adds the polynomial when a bit falls off. It is linear (`AdvanceLinear`), and
  as the polynomial has bit 0, which a shift never sets, only 0 becomes 0
  (`AdvanceKernel`). So the checksum is linear and injective (`CrcInjective`).
* With the checksum of `o`, exactly `o` and 0 pass `crcVerif` (`Verified`), and the
  bits that `crc_error_amount` may return are those that lead to one of the two
  (`Suspected`, `Corrected`). `Invariance`, `Corrects` (the byte that was sent, or
  0), `AlwaysAnswers` (never -1) and `ErasesExactly` (which bytes become 0) follow.
* `LeastDistance`: code words are closed under the sum (`ConcatLinear`), so the least
  weight is the least distance.

Only model-checked, as liveness under fairness is out of the prover's reach:
`ShutdownTerminates`, `CloseWakesSender`, `LocksGranted`, `EndsAfterProxy`,
`EndsOnEoj`. Every other property of a passing run is a theorem.

## Divergences between code and documentation

Those with a run are in the table above. Also seen, and visible in the models:

* the load is incremented twice per client (`proxy.c:88` and `278`) and
  decremented once (`146`), so each departed client leaves a load of 1 for ever:
  `LoadLedger` states the exact books;
* `crcVerif` returns 0 for "no error" (`correcteur.h:96`) and also when the
  recomputed CRC is 0: bytes with one bit set hit on it pass for correct, and the
  correction prefers a flip to 0, against `correcteur.c:169`: `ErasedBytes` gives
  the exact set, and a character with three or more one bits is always restored;
* DT_EOC is not forwarded, its branch is commented out (`proxy.c:194-197`,
  against `Readme.md:94-96`);
* entries are never removed: a client that reconnects from the same address is
  hidden by its closed entry and what is sent to it goes back (`proxy.c:64`);
* a send to a connection that has been reset kills the proxy with everyone in it
  (`proxy.c:190`, `236`: SIGPIPE is neither ignored nor masked);
* a client may chat before `nb_clients` counts it: a packet that must go back to
  it then finds no entry, and NULL is dereferenced (`proxy.c:291`);
* a relay started before `nb_servers` counts its server exits for good
  (`proxy.c:320` and `331`); `LaterRelaysRead` shows it can only be the first one;
* DT_EOJ is sent before the relay is cancelled (`proxy.c:439-440`): if the server
  closes first, the relay looks the zeroed address up and dereferences NULL, as it
  does for any address no client has (`NullOnlyIfUnknown`: a NULL entry
  always means an address that no counted entry has);
* a server list that ends with a newline makes the start fail (`proxy.c:364`);
* /q and /end are compared with their final 0, so only a last line without a
  newline is recognised (`Quit`); a recognised quit writes DT_EOC into the packet
  the sender may be filling, whose next characters may then leave as DT_EOC;
* main publishes a line over one the sender has not taken yet, and the first is
  lost; a line typed while the window is closed is dropped (`Publish`);
* DT_CLO closes descriptor 1 as if it were a file (`out_fd`): the process has no
  standard output any more, and the next socket gets that number;
* after a file transfer or an invalid choice `main` binds the port again without
  having closed the socket, and fails; a chat returns only when its socket is closed
  or after /q, the last line, and the session that follows ends with the input
  (`PhaseInv`);
* the client's own port is taken from `argv[2]` (`client.c:433`), the proxy's
  argument;
* a server whose proxy is gone never notices: it goes on answering zeroed
  packets and ends by SIGPIPE (`server.c:50`, `EndsAfterProxy`).

## Not modelled

* `thread_client_resend`: nothing starts it, its creation and its join are
  commented out (`client.c:202`, `262`). Nothing is retransmitted.
* File exchange: `ftp` prints that it is incomplete, `save_file` is never called.
* The cut of packets on the proxy's own streams: `Proxy` takes them whole. What a
  cut leads to is what `Server` shows of one, and from there on nothing is promised.
* `parity_bit` (unused, does not terminate), printing, argument parsing, the build.
* `docs/`: what Doxygen generates from the comments, its JavaScript included. It is
  no part of the programs, and a model of it would say nothing of them.

## Plan

Done: `Base`, `Correcteur`, `Proxy`, `Server` and `Client` with their invariants and
proofs, `ChatService` and the proof that the proxy implements it.

Left, in this order:

1. What `Proxy` assumes of its clients, as a specification that `Client` is shown to
   implement (today: `PeerProtocol`, by reading).
2. Cells instead of packets on the proxy's streams.
