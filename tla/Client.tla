------------------------------- MODULE Client -------------------------------
(***************************************************************************)
(* src/client.c: the main thread (connect, auth, get_receiver, the menu,   *)
(* chat) and the two threads chat creates, thread_client_send and          *)
(* thread_client_receive, over one mutex, one condition and the packet and *)
(* line they share.  The proxy at the other end of the socket and the user *)
(* are the environment.                                                    *)
(*                                                                         *)
(* Atomicity: a critical section that cannot block is one step and needs   *)
(* the mutex to be free; the sender's, which sends packets, is several.    *)
(* Every access to shared memory outside the mutex is a step of its own.   *)
(*                                                                         *)
(* X_Slip, defined next to X, is a plausible slip in X: it shows which     *)
(* property notices it and is used nowhere else.                           *)
(***************************************************************************)
EXTENDS Base, FiniteSets

CONSTANTS
  PseudoLen,   \* strlen of the pseudo, which starts every message
  LineLens,    \* strlens of the lines the user types, newline included
  MaxLines,    \* bound: lines the user types in a chat
  MaxGet,      \* bound: DT_GET queries
  MaxStray,    \* bound: packets other clients send to this one
  MaxDown,     \* bound: packets ahead of the client's recv
  MaxWakeups   \* bound: spurious wakeups of pthread_cond_wait

ASSUME ConstantsOK ==
  /\ PseudoLen \in 0..28
  /\ LineLens \subseteq 1..(254 - PseudoLen)   \* fgets(.., 255 - taille, ..)
  /\ MaxLines \in Nat /\ MaxGet \in Nat /\ MaxStray \in Nat
  /\ MaxDown \in Nat /\ MaxWakeups \in Nat

VARIABLES
  status,     \* of the process
  session,    \* turns of main's loop
  eof,        \* stdin is at its end
  stdout,     \* descriptor 1 is still open
  main,       \* main thread: pc; size and line of chat's local buffer
  cut,        \* the byte between pseudo and line, never written, is 0
  shm,        \* Shared_memory without its mutex, condition and sock_fd
  mutex,      \* the thread shm.mutex is locked for
  sender,     \* thread_client_send: pc and index i
  receiver,   \* thread_client_receive: pc and received
  link, down, \* the socket: its state ("none": closed here), bytes in
  out,        \* everything sent on it in this session
  lines,      \* lines typed in this session
  read,       \* the packets the receiver has read of
  quit,       \* /q or /end has been recognised
  proxy       \* the environment: answers, acks, strays sent, spurious wakeups

userVars  == <<eof, lines, quit>>
netVars   == <<link, down, out>>
procVars  == <<session, stdout>>
quietVars == <<procVars, userVars, cut, read, proxy>>
vars == <<status, procVars, userVars, main, cut, shm, mutex, sender, receiver,
          netVars, read, proxy>>

State  == {"UNDEFINED", "CHAT", "FTP", "QUIT"}
Thread == {"main", "sender", "receiver"}
MainPc == {"connect", "auth", "name", "dest", "query", "answer", "menu", "chat",
           "begin", "boc", "enter", "input", "publish", "broadcast", "stamp",
           "eoc", "unlock", "joinSender", "joinReceiver"}
SenderPc   == {"none", "lock", "test", "cwait", "waiting", "woken", "batch",
               "copy", "send", "unlock", "done"}
ReceiverPc == {"none", "test", "recv", "handle", "done"}

\* A Data packet: id and byte are its number and the index of its character in
\* the line it was copied from; by is the thread that sent it.
Packet == [type : Data_type \cup {"name"}, id : 0..255, byte : 0..255, line : Nat]
Zero     == [type |-> "CLO", id |-> 0, byte |-> 0, line |-> 0]
Typed(t) == [Zero EXCEPT !.type = t]
Sending  == [by : Thread, type : Data_type \cup {"name"}, id : 0..255,
             byte : 0..255, line : Nat]
By(t, p) == [by |-> t, type |-> p.type, id |-> p.id, byte |-> p.byte, line |-> p.line]

\* initialize_client: memset, then the fields set one by one.
Fresh == [state |-> "UNDEFINED", size |-> 0, ack_until |-> 0, can_write |-> 0,
          out_fd |-> -1, line |-> 0, data |-> Typed("CON")]

Init ==
  /\ status = "running" /\ session = 1
  /\ eof = FALSE /\ stdout = TRUE
  /\ main = [pc |-> "connect", size |-> 0, line |-> 0]
  /\ cut = FALSE
  /\ shm = Fresh /\ mutex = "none"
  /\ sender = [pc |-> "none", i |-> 0]
  /\ receiver = [pc |-> "none", received |-> Zero]
  /\ link = "none" /\ down = <<>> /\ out = <<>>
  /\ lines = 0 /\ read = <<>> /\ quit = FALSE
  /\ proxy = [answers |-> 0, acks |-> 0, strays |-> 0, wakeups |-> 0]
-----------------------------------------------------------------------------
\* CHK(send(...)) by thread t: a failure ends the process, a reset connection
\* kills it.
Send(t, p) ==
  \/ /\ link \in {"none", "rst"}              \* EBADF, ECONNRESET
     /\ status' = "failed"
     /\ UNCHANGED <<link, out>>
  \/ /\ link = "dead"
     /\ status' = "sigpipe"
     /\ UNCHANGED <<link, out>>
  \/ /\ link \in {"open", "fin"}
     /\ link' \in AfterSend(link)
     /\ out' = IF link = "open" THEN Append(out, By(t, p)) ELSE out
     /\ UNCHANGED status

\* Only the sender ever waits for the condition.
csignal(s)         == IF s.pc = "waiting" THEN [s EXCEPT !.pc = "woken"] ELSE s
cbroadcast_Lost(s) == s
cbroadcast(s)      == IF s.pc = "waiting" THEN [s EXCEPT !.pc = "woken"] ELSE s

At(pc) == status = "running" /\ main.pc = pc
Go(pc) == main' = [main EXCEPT !.pc = pc]
-----------------------------------------------------------------------------
(* main, before the chat.                                                  *)

\* A port that a socket of the process is still bound to cannot be bound again.
Bindable_Reuse == TRUE
Bindable       == link = "none"

\* initialize_client, connect_to_proxy.  bind or the third connect may fail;
\* with descriptor 1 closed the socket gets it, and printf before connect is a
\* write to an unconnected socket (unless stdout is buffered).
Connect ==
  /\ At("connect")
  /\ \/ status' = "failed" /\ UNCHANGED <<main, shm, mutex, netVars>>
     \/ ~stdout /\ status' = "sigpipe" /\ UNCHANGED <<main, shm, mutex, netVars>>
     \/ /\ Bindable
        /\ Go("auth")
        /\ shm' = Fresh /\ mutex' = "none"
        /\ link' = "open" /\ down' = <<>> /\ out' = <<>>
        /\ UNCHANGED status
  /\ UNCHANGED <<quietVars, sender, receiver>>

\* auth: DT_CON, then the pseudo, once it is typed or the input has ended.
SendCon ==
  /\ At("auth") /\ Go("name")
  /\ Send("main", [shm.data EXCEPT !.type = "CON"])
  /\ shm' = [shm EXCEPT !.data.type = "CON"]
  /\ UNCHANGED <<quietVars, mutex, sender, receiver, down>>

ReadName ==
  /\ At("name") /\ Go("dest")
  /\ Send("main", Typed("name"))
  /\ UNCHANGED <<quietVars, shm, mutex, sender, receiver, down>>

\* get_receiver: an address and a port, or a name; the end of input is fatal.
GiveAddress ==
  /\ At("dest") /\ ~eof
  /\ Go("menu")
  /\ shm' = [shm EXCEPT !.data.type = "CON"]     \* configure_data
  /\ UNCHANGED <<status, quietVars, mutex, sender, receiver, netVars>>

Queries == Cardinality({k \in 1..Len(out) : out[k].type = "GET"})

GiveName ==
  /\ At("dest") /\ ~eof /\ Queries < MaxGet
  /\ Send("main", [shm.data EXCEPT !.type = "GET"]) /\ Go("query")
  /\ shm' = [shm EXCEPT !.data.type = "GET"]
  /\ UNCHANGED <<quietVars, mutex, sender, receiver, down>>

SendName ==
  /\ At("query")
  /\ Send("main", Typed("name")) /\ Go("answer")
  /\ UNCHANGED <<quietVars, shm, mutex, sender, receiver, down>>

\* The first packet is taken for the answer; without one (recv returns 0) the
\* type is still DT_GET.  Anything but DT_INE is a success.
ReadAnswer ==
  /\ At("answer")
  /\ \/ /\ down # <<>> /\ down' = Tail(down)
        /\ IF Head(down).type = "INE"
           THEN Go("dest") /\ shm' = [shm EXCEPT !.data = Head(down)]
           ELSE Go("menu") /\ shm' = [shm EXCEPT !.data = [Head(down) EXCEPT !.type = "CON"]]
        /\ UNCHANGED status
     \/ /\ down = <<>> /\ link \in EndOfStream
        /\ Go("menu") /\ shm' = [shm EXCEPT !.data.type = "CON"]
        /\ UNCHANGED <<status, down>>
     \/ /\ down = <<>> /\ link = "rst"
        /\ status' = "failed" /\ UNCHANGED <<main, shm, down>>
  /\ UNCHANGED <<quietVars, mutex, sender, receiver, link, out>>

NoDestination ==
  /\ At("dest")
  /\ status' = "failed" /\ eof' = TRUE
  /\ UNCHANGED <<procVars, lines, quit, main, cut, shm, mutex, sender, receiver,
                 netVars, read, proxy>>

\* The menu: a chat, the end of the program, or (the file transfer and invalid
\* choices) another turn of the loop, which forgets the open socket.
Choose ==
  /\ At("menu")
  /\ \/ Go("chat") /\ UNCHANGED <<status, session>>
     \/ status' = "ended" /\ UNCHANGED <<main, session>>
     \/ Go("connect") /\ session' = session + 1 /\ UNCHANGED status
  /\ UNCHANGED <<stdout, userVars, cut, shm, mutex, sender, receiver, netVars,
                 read, proxy>>
-----------------------------------------------------------------------------
(* chat.                                                                   *)

\* The threads start; DT_BOC is sent without the mutex, after state has been
\* set a second time.
Chat ==
  /\ At("chat") /\ Go("begin")
  /\ shm' = [shm EXCEPT !.state = "CHAT", !.ack_until = 0, !.size = 0,
                        !.can_write = 1, !.out_fd = 1]
  /\ sender' = [pc |-> "lock", i |-> 0]
  /\ receiver' = [receiver EXCEPT !.pc = "test"]
  /\ cut' \in BOOLEAN
  /\ UNCHANGED <<status, procVars, userVars, mutex, netVars, read, proxy>>

Begin_NoType ==
  /\ At("begin") /\ Go("boc")
  /\ shm' = [shm EXCEPT !.state = "CHAT"]
  /\ UNCHANGED <<status, quietVars, mutex, sender, receiver, netVars>>

Begin ==
  /\ At("begin") /\ Go("boc")
  /\ shm' = [shm EXCEPT !.state = "CHAT", !.data.type = "BOC"]
  /\ UNCHANGED <<status, quietVars, mutex, sender, receiver, netVars>>

SendBoc ==
  /\ At("boc") /\ Go("enter")
  /\ Send("main", shm.data)
  /\ UNCHANGED <<quietVars, shm, mutex, sender, receiver, down>>

\* The loop condition, tested under the mutex, which is kept on the way out; the
\* local buffer is zeroed before it is used again.
LoopTest ==
  /\ main' = [pc |-> IF shm.state = "CHAT" THEN "input" ELSE "stamp",
              size |-> 0, line |-> 0]
  /\ mutex' = IF shm.state = "CHAT" THEN "none" ELSE "main"

Enter ==
  /\ At("enter") /\ mutex = "none"
  /\ LoopTest
  /\ UNCHANGED <<status, quietVars, shm, sender, receiver, netVars>>

\* size = strlen(buffer): pseudo, the byte never written, line.
Size(len) == IF cut THEN PseudoLen ELSE PseudoLen + 1 + len

\* fgets returns a line, or at the end of the input nothing, again and again.
TypeLine ==
  /\ At("input") /\ ~eof /\ lines < MaxLines
  /\ lines' = lines + 1
  /\ \E len \in LineLens :
       main' = [pc |-> "publish", size |-> Size(len), line |-> lines + 1]
  /\ UNCHANGED <<status, procVars, eof, quit, cut, shm, mutex, sender, receiver,
                 netVars, read, proxy>>

ReadNothing ==
  /\ At("input")
  /\ eof' = TRUE
  /\ main' = [pc |-> "publish", size |-> Size(0), line |-> 0]
  /\ UNCHANGED <<status, procVars, lines, quit, cut, shm, mutex, sender, receiver,
                 netVars, read, proxy>>

\* /q or /end: the comparison takes in the final 0, so that only a last line
\* without a newline is recognised.  state is written without the mutex.
Quit ==
  /\ At("input") /\ ~eof
  /\ eof' = TRUE /\ quit' = TRUE
  /\ shm' = [shm EXCEPT !.state = "QUIT"]
  /\ Go("broadcast")
  /\ UNCHANGED <<status, procVars, lines, cut, mutex, sender, receiver, netVars,
                 read, proxy>>

Broadcast ==
  /\ At("broadcast") /\ Go("stamp")
  /\ sender' = cbroadcast(sender)
  /\ UNCHANGED <<status, quietVars, shm, mutex, receiver, netVars>>

\* The line goes to the sender if the window is open; else it is dropped.
Publish ==
  /\ At("publish") /\ mutex = "none"
  /\ IF shm.can_write = 1
     THEN /\ shm' = [shm EXCEPT !.size = main.size, !.line = main.line]
          /\ sender' = csignal(sender)
     ELSE UNCHANGED <<shm, sender>>
  /\ LoopTest
  /\ UNCHANGED <<status, quietVars, receiver, netVars>>

\* DT_EOC, in the packet the sender may be filling; then the mutex is unlocked,
\* whoever has locked it.
Stamp ==
  /\ At("stamp") /\ Go("eoc")
  /\ shm' = [shm EXCEPT !.data.type = "EOC"]
  /\ UNCHANGED <<status, quietVars, mutex, sender, receiver, netVars>>

SendEoc ==
  /\ At("eoc") /\ Go("unlock")
  /\ Send("main", shm.data)
  /\ UNCHANGED <<quietVars, shm, mutex, sender, receiver, down>>

Unlock ==
  /\ At("unlock") /\ Go("joinSender")
  /\ mutex' = "none"
  /\ UNCHANGED <<status, quietVars, shm, sender, receiver, netVars>>

JoinSender ==
  /\ At("joinSender") /\ sender.pc = "done" /\ Go("joinReceiver")
  /\ UNCHANGED <<status, quietVars, shm, mutex, sender, receiver, netVars>>

\* chat returns, and main connects again.
JoinReceiver ==
  /\ At("joinReceiver") /\ receiver.pc = "done" /\ Go("connect")
  /\ session' = session + 1
  /\ sender' = [pc |-> "none", i |-> 0] /\ receiver' = [pc |-> "none", received |-> Zero]
  /\ cut' = FALSE
  /\ UNCHANGED <<status, stdout, userVars, shm, mutex, netVars, read, proxy>>
-----------------------------------------------------------------------------
(* thread_client_send.                                                     *)

Sends(from, to) ==
  /\ status = "running" /\ sender.pc = from
  /\ sender' = [sender EXCEPT !.pc = to]

SenderLock ==
  /\ Sends("lock", "test") /\ mutex = "none"
  /\ mutex' = "sender"
  /\ UNCHANGED <<status, quietVars, main, shm, receiver, netVars>>

SenderTest ==
  /\ Sends("test", IF shm.state = "CHAT" THEN "cwait" ELSE "unlock")
  /\ UNCHANGED <<status, quietVars, main, shm, mutex, receiver, netVars>>

SenderWait ==
  /\ Sends("cwait", "waiting")
  /\ mutex' = "none"
  /\ UNCHANGED <<status, quietVars, main, shm, receiver, netVars>>

\* cwait returns with the mutex; without a predicate, a message is sent.
SenderWoken ==
  /\ status = "running" /\ sender.pc = "woken" /\ mutex = "none"
  /\ mutex' = "sender"
  /\ IF shm.state = "CHAT"
     THEN /\ sender' = [pc |-> "batch", i |-> shm.ack_until]
          /\ shm' = [shm EXCEPT !.can_write = 0]
     ELSE /\ sender' = [sender EXCEPT !.pc = "unlock"]
          /\ UNCHANGED shm
  /\ UNCHANGED <<status, quietVars, main, receiver, netVars>>

More_OffByOne == sender.i <= shm.size
More          == sender.i < shm.size

SenderNext ==
  /\ status = "running" /\ sender.pc = "batch"
  /\ sender' = IF More THEN [sender EXCEPT !.pc = "copy"] ELSE [pc |-> "test", i |-> 0]
  /\ shm' = IF More THEN [shm EXCEPT !.data.id = sender.i, !.data.type = "CEX"]
                    ELSE shm
  /\ UNCHANGED <<status, quietVars, main, mutex, receiver, netVars>>

SenderCopy ==
  /\ Sends("copy", "send")
  /\ shm' = [shm EXCEPT !.data.byte = sender.i, !.data.line = shm.line]
  /\ UNCHANGED <<status, quietVars, main, mutex, receiver, netVars>>

SenderSend ==
  /\ status = "running" /\ sender.pc = "send"
  /\ Send("sender", shm.data)
  /\ sender' = [pc |-> "batch", i |-> sender.i + 1]
  /\ UNCHANGED <<quietVars, main, shm, mutex, receiver, down>>

SenderUnlock_Forgotten ==
  /\ Sends("unlock", "done")
  /\ UNCHANGED <<status, quietVars, main, shm, mutex, receiver, netVars>>

SenderUnlock ==
  /\ Sends("unlock", "done")
  /\ mutex' = "none"
  /\ UNCHANGED <<status, quietVars, main, shm, receiver, netVars>>

Sender == \/ SenderLock \/ SenderTest \/ SenderWait \/ SenderWoken \/ SenderNext
          \/ SenderCopy \/ SenderSend \/ SenderUnlock
-----------------------------------------------------------------------------
(* thread_client_receive.                                                  *)

ReceiverTest ==
  /\ status = "running" /\ receiver.pc = "test"
  /\ receiver' = [receiver EXCEPT !.pc = IF shm.state # "QUIT" THEN "recv" ELSE "done"]
  /\ UNCHANGED <<status, quietVars, main, shm, mutex, sender, netVars>>

\* recv is given the size of a pointer: 8 bytes, which end in origin_addr; the
\* rest of received, its type included, stays zeroed.
Received(p) == Zero

ReceiverRecv ==
  /\ status = "running" /\ receiver.pc = "recv"
  /\ \/ /\ down # <<>> /\ link # "none"
        /\ down' = Tail(down) /\ read' = Append(read, Head(down))
        /\ receiver' = [pc |-> "handle", received |-> Received(Head(down))]
        /\ UNCHANGED status
     \/ /\ down = <<>> /\ link \in EndOfStream
        /\ receiver' = [pc |-> "handle", received |-> Zero]
        /\ UNCHANGED <<status, down, read>>
     \/ /\ link = "none" \/ (down = <<>> /\ link = "rst")   \* EBADF, ECONNRESET
        /\ status' = "failed" /\ UNCHANGED <<receiver, down, read>>
  /\ UNCHANGED <<procVars, userVars, main, cut, shm, mutex, sender, link, out,
                 proxy>>

Acknowledged(m, id) ==
  LET until == IF id > m.ack_until THEN id ELSE m.ack_until
  IN  IF until + 1 >= m.size
      THEN [m EXCEPT !.ack_until = 0, !.size = 0, !.can_write = 1]
      ELSE [m EXCEPT !.ack_until = until]

\* The switch on the type: what it makes of shm (out_fd is 1 before it).
Handled(m, p) ==
  CASE p.type = "CLO" -> [m EXCEPT !.state = "QUIT"]
    [] p.type = "BOC" /\ m.state = "UNDEFINED" -> [m EXCEPT !.state = "CHAT"]
    [] p.type = "EOC" /\ m.state = "CHAT" ->
         [m EXCEPT !.out_fd = -1, !.state = "UNDEFINED"]
    [] p.type = "EOF" /\ m.state = "FTP" ->
         [m EXCEPT !.out_fd = -1, !.state = "UNDEFINED"]
    [] p.type = "ACK" -> Acknowledged(m, p.id)
    [] p.type = "NAK" -> [m EXCEPT !.ack_until = p.id]
    [] OTHER -> m

\* DT_CLO also closes the socket and descriptor 1 and wakes the sender.
HandleReceived ==
  /\ status = "running" /\ receiver.pc = "handle"
  /\ LET p == receiver.received
     IN  /\ shm' = Handled([shm EXCEPT !.out_fd = 1], p)
         /\ link' = IF p.type = "CLO" THEN "none" ELSE link
         /\ stdout' = (stdout /\ p.type # "CLO")
         /\ sender' = CASE p.type = "CLO" -> cbroadcast(sender)
                        [] p.type = "NAK" -> csignal(sender)
                        [] OTHER -> sender
  /\ receiver' = [pc |-> "test", received |-> Zero]
  /\ UNCHANGED <<status, session, userVars, main, cut, mutex, down, out, read, proxy>>

Handle_Unlocked == HandleReceived
Handle          == mutex = "none" /\ HandleReceived

Receiver == ReceiverTest \/ ReceiverRecv \/ Handle
-----------------------------------------------------------------------------
(* The environment: the condition variable, which may wake the sender for  *)
(* no reason, and the proxy.                                               *)

SpuriousWakeup ==
  /\ Sends("waiting", "woken") /\ proxy.wakeups < MaxWakeups
  /\ proxy' = [proxy EXCEPT !.wakeups = @ + 1]
  /\ UNCHANGED <<status, procVars, userVars, main, cut, shm, mutex, receiver,
                 netVars, read>>

Arrives(p) ==
  /\ status = "running" /\ link = "open" /\ Len(down) < MaxDown
  /\ down' = Append(down, p)
  /\ UNCHANGED <<status, procVars, userVars, main, cut, shm, mutex, sender,
                 receiver, link, out, read>>

\* An answer per DT_GET, the acknowledgements of the exchanges in their order
\* (some may be lost), what other clients send.  proxy.acks is the place in out of
\* the last exchange acknowledged.
ProxySends ==
  \/ /\ proxy.answers < Queries /\ main.pc = "answer"
     /\ \E t \in {"GET", "INE"} : Arrives(Typed(t))
     /\ proxy' = [proxy EXCEPT !.answers = @ + 1]
  \/ \E k \in (proxy.acks + 1)..Len(out) :
       /\ out[k].type = "CEX"
       /\ Arrives([Zero EXCEPT !.type = "ACK", !.id = out[k].id])
       /\ proxy' = [proxy EXCEPT !.acks = k]
  \/ /\ proxy.strays < MaxStray
     /\ Arrives(Typed("CEX"))
     /\ proxy' = [proxy EXCEPT !.strays = @ + 1]

\* The proxy closes the connection or dies.
ProxyCloses ==
  /\ status = "running" /\ link = "open"
  /\ link' \in {"fin", "rst"}
  /\ UNCHANGED <<status, quietVars, main, shm, mutex, sender, receiver, down, out>>
-----------------------------------------------------------------------------
\* What main does without waiting for the user.
Main == \/ Connect \/ SendCon \/ SendName \/ ReadAnswer \/ Chat  \/ Begin \/ SendBoc
        \/ Enter \/ Broadcast \/ Publish \/ Stamp \/ SendEoc \/ Unlock
        \/ JoinSender \/ JoinReceiver
        \/ eof /\ (ReadName \/ NoDestination \/ ReadNothing)

User == \/ ReadName \/ GiveAddress \/ GiveName \/ NoDestination \/ Choose
        \/ TypeLine \/ ReadNothing \/ Quit

Next == Main \/ User \/ Sender \/ Receiver
          \/ SpuriousWakeup \/ ProxySends \/ ProxyCloses

Spec == Init /\ [][Next]_vars

\* The scheduler runs the three threads; the mutex is given to a thread that
\* keeps asking.  The user, the proxy and the network owe nothing.
FairSpec == Spec /\ WF_vars(Main) /\ WF_vars(Sender) /\ WF_vars(Receiver)
-----------------------------------------------------------------------------
Shared_memory == [state : State, size : 0..255, ack_until : 0..255,
                  can_write : {0, 1}, out_fd : {-1, 1}, line : Nat, data : Packet]

\* Every field holds what the code can store there: sizes and ids fit their
\* eight bits, and main's loop never gets to a third connection.
TypeOK ==
  /\ status \in {"running", "ended", "failed", "sigpipe"}
  /\ session \in 1..2 /\ eof \in BOOLEAN /\ stdout \in BOOLEAN
  /\ main \in [pc : MainPc, size : 0..255, line : Nat]
  /\ cut \in BOOLEAN
  /\ shm \in Shared_memory
  /\ mutex \in Thread \cup {"none"}
  /\ sender \in [pc : SenderPc, i : 0..255]
  /\ receiver \in [pc : ReceiverPc, received : Packet]
  /\ link \in LinkState
  /\ down \in Seq(Packet) /\ read \in Seq(Packet)
  /\ out \in Seq(Sending)
  /\ lines \in Nat /\ quit \in BOOLEAN
  /\ proxy \in [answers : Nat, acks : Nat, strays : Nat, wakeups : Nat]
=============================================================================
