---------------------------- MODULE ClientProofs ----------------------------
(***************************************************************************)
(* Proofs about the client, for every length of the pseudo and the lines   *)
(* and every bound.  ClientInv is shown inductive: the first part gives    *)
(* the types of records and of what a send does, the second has a lemma    *)
(* per action (the types, main's phases, then the mutex and the socket,    *)
(* then the window), the third the theorems.  On top of it, LineInv (what  *)
(* the sender has sent of a line) and TurnInv (whose turn it is to send).  *)
(***************************************************************************)
EXTENDS ClientInvariant, TLAPS

LEMMA ZeroType == Zero \in Packet
BY DEF Zero, Packet, Data_type

LEMMA TypedType == \A t \in Data_type \cup {"name"} : Typed(t) \in Packet
BY ZeroType DEF Typed, Packet

LEMMA AckType == \A n \in 0..255 : [Zero EXCEPT !.type = "ACK", !.id = n] \in Packet
BY ZeroType DEF Packet, Data_type

LEMMA ChatUpdate ==
  ASSUME NEW m \in Shared_memory, NEW s \in State, NEW w \in {0, 1}, NEW o \in {-1, 1},
         NEW n \in 0..255, NEW k \in 0..255
  PROVE  [m EXCEPT !.state = s, !.ack_until = n, !.size = k,
                   !.can_write = w, !.out_fd = o] \in Shared_memory
BY DEF Shared_memory

LEMMA CloseUpdate ==
  ASSUME NEW m \in Shared_memory, NEW s \in State, NEW o \in {-1, 1}
  PROVE  [m EXCEPT !.out_fd = o, !.state = s] \in Shared_memory
BY DEF Shared_memory

LEMMA FreshType == Fresh \in Shared_memory
BY TypedType DEF Fresh, Shared_memory, State, Data_type

LEMMA LinkTypes ==
  ASSUME NEW l \in LinkState \ {"none"}, NEW k \in AfterSend(l)
  PROVE  k \in LinkState /\ k # "none"
BY DEF AfterSend, LinkState

LEMMA ByType ==
  \A t \in Thread, p \in Packet :
     By(t, p) \in Sending
BY DEF By, Packet, Sending

LEMMA InitInv == Init => ClientInv
<1> SUFFICES ASSUME Init PROVE ClientInv
  OBVIOUS
<1>1. TypeOK
  <2>1. shm \in Shared_memory /\ receiver \in [pc : ReceiverPc, received : Packet]
    BY FreshType, ZeroType DEF Init, ReceiverPc
  <2>2. /\ main \in [pc : MainPc, size : 0..255, line : Nat]
        /\ sender \in [pc : SenderPc, i : 0..255]
    BY DEF Init, MainPc, SenderPc
  <2>3. proxy \in [answers : Nat, acks : Nat, strays : Nat, wakeups : Nat]
    BY DEF Init
  <2>4. down \in Seq(Packet) /\ read \in Seq(Packet) /\ out \in Seq(Sending)
    BY DEF Init
  <2>5. /\ status = "running" /\ session \in 1..2 /\ mutex = "none" /\ lines \in Nat
        /\ link \in LinkState
    BY DEF Init, LinkState
  <2>6. eof = FALSE /\ stdout = TRUE /\ cut = FALSE /\ quit = FALSE
    BY Zenon DEF Init
  <2> QED BY <2>1, <2>2, <2>3, <2>4, <2>5, <2>6 DEF TypeOK
<1> QED BY <1>1 DEF Init, ClientInv, PhaseInv, QuitInv, MutexInv, CloseInv,
                    NoSendAfterClose, WindowInv, Alone, Leaving, Holding, Fresh, Zero

-----------------------------------------------------------------------------
\* A send keeps the types of what it changes, and the socket connected.
LEMMA SendType ==
  ASSUME TypeOK, NEW t \in Thread, NEW p \in Packet, Send(t, p)
  PROVE  /\ status' \in {"running", "ended", "failed", "sigpipe"}
         /\ link' \in LinkState
         /\ link' = "none" <=> link = "none"
         /\ out' \in Seq(Sending)
         /\ out' = out \/ out' = Append(out, By(t, p))
         /\ link = "none" => status' = "failed"
<1>1. CASE link \in {"none", "rst"}
  BY <1>1 DEF Send, TypeOK
<1>2. CASE link = "dead"
  BY <1>2 DEF Send, TypeOK
<1>3. CASE link \in {"open", "fin"}
  <2>1. link' \in LinkState /\ link' # "none"
    BY <1>3, LinkTypes DEF Send, LinkState
  <2>2. out' = out \/ out' = Append(out, By(t, p))
    BY <1>3 DEF Send
  <2>3. out \in Seq(Sending) /\ By(t, p) \in Sending
    BY ByType DEF TypeOK
  <2>4. status' = status /\ link # "none"
    BY <1>3 DEF Send
  <2>5. out' \in Seq(Sending)
    BY <2>2, <2>3
  <2> QED BY <2>1, <2>2, <2>4, <2>5 DEF TypeOK
<1> QED BY <1>1, <1>2, <1>3 DEF TypeOK, LinkState

\* What was sent keeps its place; the last packet is the new one.
LEMMA SendOut ==
  ASSUME TypeOK, NEW t \in Thread, NEW p \in Packet, Send(t, p)
  PROVE  \A k \in 1..Len(out') :
           \/ k \in 1..Len(out) /\ out'[k] = out[k]
           \/ out'[k] = By(t, p)
<1>1. CASE out' = out
  BY <1>1
<1>2. CASE out' = Append(out, By(t, p))
  <2>1. out \in Seq(Sending) /\ By(t, p) \in Sending
    BY ByType DEF TypeOK
  <2> QED BY <1>2, <2>1
<1> QED BY <1>1, <1>2, SendType

-----------------------------------------------------------------------------
LEMMA Records ==
  ASSUME TypeOK
  PROVE  /\ main \in [pc : MainPc, size : 0..255, line : Nat]
         /\ sender \in [pc : SenderPc, i : 0..255]
         /\ receiver \in [pc : ReceiverPc, received : Packet]
         /\ shm \in Shared_memory
         /\ session \in 1..2 /\ lines \in Nat /\ link \in LinkState /\ stdout \in BOOLEAN
         /\ status \in {"running", "ended", "failed", "sigpipe"}
         /\ down \in Seq(Packet) /\ read \in Seq(Packet) /\ out \in Seq(Sending)
         /\ mutex \in Thread \cup {"none"}
         /\ proxy \in [answers : Nat, acks : Nat, strays : Nat, wakeups : Nat]
BY DEF TypeOK

LEMMA ConnectStep == ClientInv /\ Connect => ClientInv'
<1> SUFFICES ASSUME ClientInv, Connect PROVE ClientInv'
  OBVIOUS
<1>0. TypeOK
  BY DEF ClientInv
<1>1. TypeOK'
  <2>1. status' \in {"running", "ended", "failed", "sigpipe"}
    BY <1>0, Records DEF Connect
  <2>2. main' \in [pc : MainPc, size : 0..255, line : Nat]
    BY <1>0, Records DEF Connect, At, Go, MainPc
  <2>3. shm' \in Shared_memory
    BY <1>0, Records, FreshType DEF Connect
  <2>4. mutex' \in Thread \cup {"none"}
    BY <1>0, Records DEF Connect, Thread
  <2>5. link' \in LinkState
    BY <1>0, Records DEF Connect, netVars, LinkState
  <2>6. down' \in Seq(Packet) /\ out' \in Seq(Sending)
    <3>1. \/ down' = <<>> /\ out' = <<>>
          \/ down' = down /\ out' = out
      BY DEF Connect, netVars
    <3>2. down \in Seq(Packet) /\ out \in Seq(Sending)
      BY <1>0, Records
    <3>3. <<>> \in Seq(Packet) /\ <<>> \in Seq(Sending)
      OBVIOUS
    <3> QED BY ONLY <3>1, <3>2, <3>3
  <2>7. UNCHANGED <<session, eof, stdout, cut, sender, receiver, lines, read, quit,
                    proxy>>
    BY DEF Connect, quietVars, procVars, userVars, netVars
  <2> QED BY <1>0, <2>1, <2>2, <2>3, <2>4, <2>5, <2>6, <2>7 DEF TypeOK
<1>2. PhaseInv' /\ QuitInv'
  BY Records, FreshType DEF ClientInv, PhaseInv, QuitInv, CloseInv, Alone,
      Shared_memory, Connect, At, Go, Bindable, LinkState, quietVars, procVars,
      userVars, netVars
<1>3. MutexInv' /\ CloseInv' /\ NoSendAfterClose'
  BY Records, FreshType DEF ClientInv, PhaseInv, QuitInv, MutexInv, CloseInv,
      NoSendAfterClose, Alone, Leaving, Holding, Shared_memory, Connect, At, Go,
      Bindable, LinkState, quietVars, procVars, userVars, netVars
<1>4. WindowInv'
  BY Records, FreshType DEF ClientInv, PhaseInv, QuitInv, MutexInv, CloseInv,
      WindowInv, Alone, Holding, Shared_memory, Connect, At, Go, Bindable,
      LinkState, quietVars, procVars, userVars, netVars
<1> QED BY <1>1, <1>2, <1>3, <1>4 DEF ClientInv

LEMMA GiveAddressStep == ClientInv /\ GiveAddress => ClientInv'
<1> SUFFICES ASSUME ClientInv, GiveAddress PROVE ClientInv'
  OBVIOUS
<1>0. TypeOK
  BY DEF ClientInv
<1>1. TypeOK'
  <2>1. main' \in [pc : MainPc, size : 0..255, line : Nat]
    BY <1>0, Records DEF GiveAddress, At, Go, MainPc
  <2>2. shm' \in Shared_memory
    <3>1. shm \in Shared_memory /\ "CON" \in Data_type
      BY <1>0, Records DEF Data_type
    <3>2. shm' = [shm EXCEPT !.data.type = "CON"]
      BY DEF GiveAddress
    <3> QED BY <3>1, <3>2 DEF Shared_memory, Packet
  <2>3. UNCHANGED <<status, session, eof, stdout, cut, mutex, sender, receiver, link,
                    down, out, lines, read, quit, proxy>>
    BY DEF GiveAddress, quietVars, procVars, userVars, netVars
  <2> QED BY <1>0, <2>1, <2>2, <2>3 DEF TypeOK
<1>2. PhaseInv' /\ QuitInv'
  BY Records DEF ClientInv, PhaseInv, QuitInv, CloseInv, Alone,
      Shared_memory, GiveAddress, At, Go, quietVars, procVars, userVars, netVars
<1>3. MutexInv' /\ CloseInv' /\ NoSendAfterClose'
  BY Records DEF ClientInv, PhaseInv, QuitInv, MutexInv, CloseInv,
      NoSendAfterClose, Alone, Leaving, Holding, Shared_memory, GiveAddress, At,
      Go, quietVars, procVars, userVars, netVars
<1>4. WindowInv'
  <2>1. /\ shm'.can_write = shm.can_write /\ shm'.line = shm.line
        /\ shm'.data.line = shm.data.line
    BY <1>0, Records DEF GiveAddress, Shared_memory, Packet
  <2>2. main.pc = "dest" /\ main'.pc = "menu" /\ UNCHANGED <<sender, out>>
    BY <1>0, Records DEF GiveAddress, At, Go, netVars
  <2> QED BY <2>1, <2>2 DEF ClientInv, WindowInv, Alone
<1> QED BY <1>1, <1>2, <1>3, <1>4 DEF ClientInv

LEMMA ChooseStep == ClientInv /\ Choose => ClientInv'
<1> SUFFICES ASSUME ClientInv, Choose PROVE ClientInv'
  OBVIOUS
<1>0. TypeOK
  BY DEF ClientInv
<1>1. TypeOK'
  <2>1. status' \in {"running", "ended", "failed", "sigpipe"}
    BY <1>0, Records DEF Choose
  <2>2. main' \in [pc : MainPc, size : 0..255, line : Nat]
    BY <1>0, Records DEF Choose, At, Go, MainPc
  <2>3. session' \in 1..2
    BY <1>0, Records DEF ClientInv, PhaseInv, Choose, At
  <2>4. UNCHANGED <<eof, stdout, cut, shm, mutex, sender, receiver, link, down, out,
                    lines, read, quit, proxy>>
    BY DEF Choose, quietVars, procVars, userVars, netVars
  <2> QED BY <1>0, <2>1, <2>2, <2>3, <2>4 DEF TypeOK
<1>2. PhaseInv' /\ QuitInv'
  BY Records DEF ClientInv, PhaseInv, QuitInv, CloseInv, Alone, Shared_memory,
      Choose, At, Go, quietVars, procVars, userVars, netVars
<1>3. MutexInv' /\ CloseInv' /\ NoSendAfterClose'
  BY Records DEF ClientInv, PhaseInv, QuitInv, MutexInv, CloseInv, NoSendAfterClose,
      Alone, Leaving, Holding, Shared_memory, Choose, At, Go, quietVars, procVars,
      userVars, netVars
<1>4. WindowInv'
  BY Records DEF ClientInv, PhaseInv, QuitInv, MutexInv, CloseInv, WindowInv, Alone,
      Holding, Shared_memory, Choose, At, Go, quietVars, procVars, userVars,
      netVars
<1> QED BY <1>1, <1>2, <1>3, <1>4 DEF ClientInv

LEMMA ChatStep == ClientInv /\ Chat => ClientInv'
<1> SUFFICES ASSUME ClientInv, Chat PROVE ClientInv'
  OBVIOUS
<1>0. TypeOK
  BY DEF ClientInv
<1>1. TypeOK'
  <2>1. main' \in [pc : MainPc, size : 0..255, line : Nat]
    BY <1>0, Records DEF Chat, At, Go, MainPc
  <2>2. shm' \in Shared_memory
    <3>1. shm \in Shared_memory /\ "CHAT" \in State /\ 0 \in 0..255 /\ 1 \in {0, 1}
          /\ 1 \in {-1, 1}
      BY <1>0, Records DEF State
    <3>2. shm' = [shm EXCEPT !.state = "CHAT", !.ack_until = 0, !.size = 0,
                             !.can_write = 1, !.out_fd = 1]
      BY DEF Chat
    <3> QED BY <3>1, <3>2, ChatUpdate
  <2>3. sender' \in [pc : SenderPc, i : 0..255]
    BY <1>0, Records DEF Chat, SenderPc
  <2>4. receiver' \in [pc : ReceiverPc, received : Packet]
    BY <1>0, Records DEF Chat, ReceiverPc
  <2>5. cut' \in BOOLEAN
    BY <1>0, Records DEF Chat
  <2>6. UNCHANGED <<status, session, eof, stdout, mutex, link, down, out, lines, read,
                    quit, proxy>>
    BY DEF Chat, quietVars, procVars, userVars, netVars
  <2> QED BY <1>0, <2>1, <2>2, <2>3, <2>4, <2>5, <2>6 DEF TypeOK
<1>2. PhaseInv' /\ QuitInv'
  BY Records DEF ClientInv, PhaseInv, QuitInv, CloseInv, Alone, Shared_memory, Chat,
      At, Go, quietVars, procVars, userVars, netVars
<1>3. MutexInv' /\ CloseInv' /\ NoSendAfterClose'
  BY Records DEF ClientInv, PhaseInv, QuitInv, MutexInv, CloseInv, NoSendAfterClose,
      Alone, Leaving, Holding, Shared_memory, Chat, At, Go, quietVars, procVars,
      userVars, netVars
<1>4. WindowInv'
  BY Records DEF ClientInv, PhaseInv, QuitInv, MutexInv, CloseInv, WindowInv, Alone,
      Holding, Shared_memory, Chat, At, Go, quietVars, procVars, userVars, netVars
<1> QED BY <1>1, <1>2, <1>3, <1>4 DEF ClientInv

LEMMA BeginStep == ClientInv /\ Begin => ClientInv'
<1> SUFFICES ASSUME ClientInv, Begin PROVE ClientInv'
  OBVIOUS
<1>0. TypeOK
  BY DEF ClientInv
<1>1. TypeOK'
  <2>1. main' \in [pc : MainPc, size : 0..255, line : Nat]
    BY <1>0, Records DEF Begin, At, Go, MainPc
  <2>2. shm' \in Shared_memory
    BY <1>0, Records DEF Begin, Shared_memory, Packet, Data_type, State
  <2>3. UNCHANGED <<status, session, eof, stdout, cut, mutex, sender, receiver, link,
                    down, out, lines, read, quit, proxy>>
    BY DEF Begin, quietVars, procVars, userVars, netVars
  <2> QED BY <1>0, <2>1, <2>2, <2>3 DEF TypeOK
<1>2. PhaseInv' /\ QuitInv'
  BY Records DEF ClientInv, PhaseInv, QuitInv, CloseInv, Alone, Shared_memory,
      Begin, At, Go, quietVars, procVars, userVars, netVars
<1>3. MutexInv' /\ CloseInv' /\ NoSendAfterClose'
  BY Records DEF ClientInv, PhaseInv, QuitInv, MutexInv, CloseInv, NoSendAfterClose,
      Alone, Leaving, Holding, Shared_memory, Begin, At, Go, quietVars, procVars,
      userVars, netVars
<1>4. WindowInv'
  <2>1. /\ shm'.can_write = shm.can_write /\ shm'.line = shm.line
        /\ shm'.data.line = shm.data.line
    BY <1>0, Records DEF Begin, Shared_memory, Packet
  <2>2. main.pc = "begin" /\ main'.pc = "boc" /\ UNCHANGED <<sender, out>>
    BY <1>0, Records DEF Begin, At, Go, netVars
  <2> QED BY <2>1, <2>2 DEF ClientInv, WindowInv, Alone
<1> QED BY <1>1, <1>2, <1>3, <1>4 DEF ClientInv

LEMMA EnterStep == ClientInv /\ Enter => ClientInv'
<1> SUFFICES ASSUME ClientInv, Enter PROVE ClientInv'
  OBVIOUS
<1>0. TypeOK
  BY DEF ClientInv
<1>1. TypeOK'
  <2>1. main' \in [pc : MainPc, size : 0..255, line : Nat]
    BY <1>0, Records DEF Enter, LoopTest, MainPc
  <2>2. mutex' \in Thread \cup {"none"}
    BY <1>0, Records DEF Enter, LoopTest, Thread
  <2>3. UNCHANGED <<status, session, eof, stdout, cut, shm, sender, receiver, link,
                    down, out, lines, read, quit, proxy>>
    BY DEF Enter, At, LoopTest, quietVars, procVars, userVars, netVars
  <2> QED BY <1>0, <2>1, <2>2, <2>3 DEF TypeOK
<1>2. PhaseInv' /\ QuitInv'
  BY Records DEF ClientInv, PhaseInv, QuitInv, CloseInv, Alone, Shared_memory,
      Enter, At, LoopTest, quietVars, procVars, userVars, netVars
<1>3. MutexInv' /\ CloseInv' /\ NoSendAfterClose'
  BY Records DEF ClientInv, PhaseInv, QuitInv, MutexInv, CloseInv, NoSendAfterClose,
      Alone, Leaving, Holding, Shared_memory, Enter, At, LoopTest, quietVars,
      procVars, userVars, netVars
<1>4. WindowInv'
  BY Records DEF ClientInv, PhaseInv, QuitInv, MutexInv, CloseInv, WindowInv, Alone,
      Holding, Shared_memory, Enter, At, LoopTest, quietVars, procVars, userVars,
      netVars
<1> QED BY <1>1, <1>2, <1>3, <1>4 DEF ClientInv

LEMMA TypeLineStep == ClientInv /\ TypeLine => ClientInv'
<1> SUFFICES ASSUME ClientInv, TypeLine PROVE ClientInv'
  OBVIOUS
<1>0. TypeOK
  BY DEF ClientInv
<1>1. TypeOK'
  <2>1. main' \in [pc : MainPc, size : 0..255, line : Nat]
    BY <1>0, Records, ConstantsOK DEF TypeLine, MainPc, Size
  <2>2. lines' \in Nat
    BY <1>0, Records DEF TypeLine
  <2>3. UNCHANGED <<status, session, eof, stdout, cut, shm, mutex, sender, receiver,
                    link, down, out, read, quit, proxy>>
    BY DEF TypeLine, quietVars, procVars, userVars, netVars
  <2> QED BY <1>0, <2>1, <2>2, <2>3 DEF TypeOK
<1>2. PhaseInv' /\ QuitInv'
  BY Records, ConstantsOK DEF ClientInv, PhaseInv, QuitInv, CloseInv, Alone,
      Shared_memory, TypeLine, At, Size, quietVars, procVars, userVars, netVars
<1>3. MutexInv' /\ CloseInv' /\ NoSendAfterClose'
  BY Records, ConstantsOK DEF ClientInv, PhaseInv, QuitInv, MutexInv, CloseInv,
      NoSendAfterClose, Alone, Leaving, Holding, Shared_memory, TypeLine, At,
      Size, quietVars, procVars, userVars, netVars
<1>4. WindowInv'
  BY Records, ConstantsOK DEF ClientInv, PhaseInv, QuitInv, MutexInv, CloseInv,
      WindowInv, Alone, Holding, Shared_memory, TypeLine, At, Size, quietVars,
      procVars, userVars, netVars
<1> QED BY <1>1, <1>2, <1>3, <1>4 DEF ClientInv

LEMMA ReadNothingStep == ClientInv /\ ReadNothing => ClientInv'
<1> SUFFICES ASSUME ClientInv, ReadNothing PROVE ClientInv'
  OBVIOUS
<1>0. TypeOK
  BY DEF ClientInv
<1>1. TypeOK'
  <2>1. main' \in [pc : MainPc, size : 0..255, line : Nat]
    BY <1>0, Records, ConstantsOK DEF ReadNothing, MainPc, Size
  <2>2. eof' \in BOOLEAN
    BY <1>0, Records DEF ReadNothing
  <2>3. UNCHANGED <<status, session, stdout, cut, shm, mutex, sender, receiver, link,
                    down, out, lines, read, quit, proxy>>
    BY DEF ReadNothing, quietVars, procVars, userVars, netVars
  <2> QED BY <1>0, <2>1, <2>2, <2>3 DEF TypeOK
<1>2. PhaseInv' /\ QuitInv'
  BY Records, ConstantsOK DEF ClientInv, PhaseInv, QuitInv, CloseInv, Alone,
      Shared_memory, ReadNothing, At, Size, quietVars, procVars, userVars, netVars
<1>3. MutexInv' /\ CloseInv' /\ NoSendAfterClose'
  BY Records, ConstantsOK DEF ClientInv, PhaseInv, QuitInv, MutexInv, CloseInv,
      NoSendAfterClose, Alone, Leaving, Holding, Shared_memory, ReadNothing, At,
      Size, quietVars, procVars, userVars, netVars
<1>4. WindowInv'
  BY Records, ConstantsOK DEF ClientInv, PhaseInv, QuitInv, MutexInv, CloseInv,
      WindowInv, Alone, Holding, Shared_memory, ReadNothing, At, Size, quietVars,
      procVars, userVars, netVars
<1> QED BY <1>1, <1>2, <1>3, <1>4 DEF ClientInv

LEMMA QuitStep == ClientInv /\ Quit => ClientInv'
<1> SUFFICES ASSUME ClientInv, Quit PROVE ClientInv'
  OBVIOUS
<1>0. TypeOK
  BY DEF ClientInv
<1>1. TypeOK'
  <2>1. main' \in [pc : MainPc, size : 0..255, line : Nat]
    BY <1>0, Records DEF Quit, At, Go, MainPc
  <2>2. shm' \in Shared_memory
    BY <1>0, Records DEF Quit, Shared_memory, State
  <2>3. eof' \in BOOLEAN /\ quit' \in BOOLEAN
    BY <1>0, Records DEF Quit
  <2>4. UNCHANGED <<status, session, stdout, cut, mutex, sender, receiver, link, down,
                    out, lines, read, proxy>>
    BY DEF Quit, quietVars, procVars, userVars, netVars
  <2> QED BY <1>0, <2>1, <2>2, <2>3, <2>4 DEF TypeOK
<1>2. PhaseInv' /\ QuitInv'
  BY Records DEF ClientInv, PhaseInv, QuitInv, CloseInv, Alone, Shared_memory, Quit,
      At, Go, quietVars, procVars, userVars, netVars
<1>3. MutexInv' /\ CloseInv' /\ NoSendAfterClose'
  BY Records DEF ClientInv, PhaseInv, QuitInv, MutexInv, CloseInv, NoSendAfterClose,
      Alone, Leaving, Holding, Shared_memory, Quit, At, Go, quietVars, procVars,
      userVars, netVars
<1>4. WindowInv'
  BY Records DEF ClientInv, PhaseInv, QuitInv, MutexInv, CloseInv, WindowInv, Alone,
      Holding, Shared_memory, Quit, At, Go, quietVars, procVars, userVars, netVars
<1> QED BY <1>1, <1>2, <1>3, <1>4 DEF ClientInv

LEMMA BroadcastStep == ClientInv /\ Broadcast => ClientInv'
<1> SUFFICES ASSUME ClientInv, Broadcast PROVE ClientInv'
  OBVIOUS
<1>0. TypeOK
  BY DEF ClientInv
<1>1. TypeOK'
  <2>1. main' \in [pc : MainPc, size : 0..255, line : Nat]
    BY <1>0, Records DEF Broadcast, At, Go, MainPc
  <2>2. sender' \in [pc : SenderPc, i : 0..255]
    BY <1>0, Records DEF Broadcast, cbroadcast, SenderPc
  <2>3. UNCHANGED <<status, session, eof, stdout, cut, shm, mutex, receiver, link,
                    down, out, lines, read, quit, proxy>>
    BY DEF Broadcast, quietVars, procVars, userVars, netVars
  <2> QED BY <1>0, <2>1, <2>2, <2>3 DEF TypeOK
<1>2. PhaseInv' /\ QuitInv'
  BY Records DEF ClientInv, PhaseInv, QuitInv, CloseInv, Alone, Shared_memory,
      Broadcast, At, Go, cbroadcast, quietVars, procVars, userVars, netVars
<1>3. MutexInv' /\ CloseInv' /\ NoSendAfterClose'
  BY Records DEF ClientInv, PhaseInv, QuitInv, MutexInv, CloseInv, NoSendAfterClose,
      Alone, Leaving, Holding, Shared_memory, Broadcast, At, Go, cbroadcast,
      quietVars, procVars, userVars, netVars
<1>4. WindowInv'
  BY Records DEF ClientInv, PhaseInv, QuitInv, MutexInv, CloseInv, WindowInv, Alone,
      Holding, Shared_memory, Broadcast, At, Go, cbroadcast, quietVars, procVars,
      userVars, netVars
<1> QED BY <1>1, <1>2, <1>3, <1>4 DEF ClientInv

LEMMA PublishStep == ClientInv /\ Publish => ClientInv'
<1> SUFFICES ASSUME ClientInv, Publish PROVE ClientInv'
  OBVIOUS
<1>0. TypeOK
  BY DEF ClientInv
<1>1. TypeOK'
  <2>1. main' \in [pc : MainPc, size : 0..255, line : Nat]
    BY <1>0, Records DEF Publish, LoopTest, MainPc
  <2>2. mutex' \in Thread \cup {"none"}
    BY <1>0, Records DEF Publish, LoopTest, Thread
  <2>3. shm' \in Shared_memory
    <3>1. shm \in Shared_memory /\ main.size \in 0..255 /\ main.line \in Nat
      BY <1>0, Records
    <3>2. \/ shm' = [shm EXCEPT !.size = main.size, !.line = main.line]
          \/ shm' = shm
      BY DEF Publish
    <3> QED BY <3>1, <3>2 DEF Shared_memory
  <2>4. sender' \in [pc : SenderPc, i : 0..255]
    BY <1>0, Records DEF Publish, csignal, SenderPc
  <2>5. UNCHANGED <<status, session, eof, stdout, cut, receiver, link, down, out,
                    lines, read, quit, proxy>>
    BY DEF Publish, At, LoopTest, csignal, quietVars, procVars, userVars, netVars
  <2> QED BY <1>0, <2>1, <2>2, <2>3, <2>4, <2>5 DEF TypeOK
<1>2. PhaseInv' /\ QuitInv'
  BY Records DEF ClientInv, PhaseInv, QuitInv, CloseInv, Alone, Shared_memory,
      Publish, At, LoopTest, csignal, quietVars, procVars, userVars, netVars
<1>3. MutexInv' /\ CloseInv' /\ NoSendAfterClose'
  <2>1. /\ main.pc = "publish" /\ mutex = "none"
        /\ UNCHANGED <<status, receiver, link, quit>>
    BY DEF Publish, At, quietVars, userVars, netVars
  <2>2. ~quit /\ sender.pc \notin Holding
    BY <2>1 DEF ClientInv, QuitInv, MutexInv, Holding
  <2>3. sender'.pc = sender.pc \/ sender'.pc = "woken"
    BY <1>0, Records DEF Publish, csignal
  <2>4. shm'.state = shm.state
    BY <1>0, Records DEF Publish, Shared_memory
  <2>5. \/ main'.pc = "input" /\ mutex' = "none"
        \/ main'.pc = "stamp" /\ mutex' = "main"
    BY DEF Publish, LoopTest
  <2> QED BY <2>1, <2>2, <2>3, <2>4, <2>5
      DEF ClientInv, CloseInv, MutexInv, NoSendAfterClose, Alone, Leaving, Holding
<1>4. WindowInv'
  BY Records DEF ClientInv, PhaseInv, QuitInv, MutexInv, CloseInv, WindowInv, Alone,
      Holding, Shared_memory, Publish, At, LoopTest, csignal, quietVars, procVars,
      userVars, netVars
<1> QED BY <1>1, <1>2, <1>3, <1>4 DEF ClientInv

LEMMA StampStep == ClientInv /\ Stamp => ClientInv'
<1> SUFFICES ASSUME ClientInv, Stamp PROVE ClientInv'
  OBVIOUS
<1>0. TypeOK
  BY DEF ClientInv
<1>1. TypeOK'
  <2>1. main' \in [pc : MainPc, size : 0..255, line : Nat]
    BY <1>0, Records DEF Stamp, At, Go, MainPc
  <2>2. shm' \in Shared_memory
    BY <1>0, Records DEF Stamp, Shared_memory, Packet, Data_type, State
  <2>3. UNCHANGED <<status, session, eof, stdout, cut, mutex, sender, receiver, link,
                    down, out, lines, read, quit, proxy>>
    BY DEF Stamp, quietVars, procVars, userVars, netVars
  <2> QED BY <1>0, <2>1, <2>2, <2>3 DEF TypeOK
<1>2. PhaseInv' /\ QuitInv'
  BY Records DEF ClientInv, PhaseInv, QuitInv, CloseInv, Alone, Shared_memory,
      Stamp, At, Go, quietVars, procVars, userVars, netVars
<1>3. MutexInv' /\ CloseInv' /\ NoSendAfterClose'
  BY Records DEF ClientInv, PhaseInv, QuitInv, MutexInv, CloseInv, NoSendAfterClose,
      Alone, Leaving, Holding, Shared_memory, Stamp, At, Go, quietVars, procVars,
      userVars, netVars
<1>4. WindowInv'
  <2>1. /\ shm'.can_write = shm.can_write /\ shm'.line = shm.line
        /\ shm'.data.line = shm.data.line
    BY <1>0, Records DEF Stamp, Shared_memory, Packet
  <2>2. main.pc = "stamp" /\ main'.pc = "eoc" /\ UNCHANGED <<sender, out>>
    BY <1>0, Records DEF Stamp, At, Go, netVars
  <2> QED BY <2>1, <2>2 DEF ClientInv, WindowInv, Alone
<1> QED BY <1>1, <1>2, <1>3, <1>4 DEF ClientInv

LEMMA UnlockStep == ClientInv /\ Unlock => ClientInv'
<1> SUFFICES ASSUME ClientInv, Unlock PROVE ClientInv'
  OBVIOUS
<1>0. TypeOK
  BY DEF ClientInv
<1>1. TypeOK'
  <2>1. main' \in [pc : MainPc, size : 0..255, line : Nat]
    BY <1>0, Records DEF Unlock, At, Go, MainPc
  <2>2. mutex' \in Thread \cup {"none"}
    BY <1>0, Records DEF Unlock, Thread
  <2>3. UNCHANGED <<status, session, eof, stdout, cut, shm, sender, receiver, link,
                    down, out, lines, read, quit, proxy>>
    BY DEF Unlock, quietVars, procVars, userVars, netVars
  <2> QED BY <1>0, <2>1, <2>2, <2>3 DEF TypeOK
<1>2. PhaseInv' /\ QuitInv'
  BY Records DEF ClientInv, PhaseInv, QuitInv, CloseInv, Alone, Shared_memory,
      Unlock, At, Go, quietVars, procVars, userVars, netVars
<1>3. MutexInv' /\ CloseInv' /\ NoSendAfterClose'
  BY Records DEF ClientInv, PhaseInv, QuitInv, MutexInv, CloseInv, NoSendAfterClose,
      Alone, Leaving, Holding, Shared_memory, Unlock, At, Go, quietVars, procVars,
      userVars, netVars
<1>4. WindowInv'
  BY Records DEF ClientInv, PhaseInv, QuitInv, MutexInv, CloseInv, WindowInv, Alone,
      Holding, Shared_memory, Unlock, At, Go, quietVars, procVars, userVars,
      netVars
<1> QED BY <1>1, <1>2, <1>3, <1>4 DEF ClientInv

LEMMA JoinSenderStep == ClientInv /\ JoinSender => ClientInv'
<1> SUFFICES ASSUME ClientInv, JoinSender PROVE ClientInv'
  OBVIOUS
<1>0. TypeOK
  BY DEF ClientInv
<1>1. TypeOK'
  <2>1. main' \in [pc : MainPc, size : 0..255, line : Nat]
    BY <1>0, Records DEF JoinSender, At, Go, MainPc
  <2>2. UNCHANGED <<status, session, eof, stdout, cut, shm, mutex, sender, receiver,
                    link, down, out, lines, read, quit, proxy>>
    BY DEF JoinSender, quietVars, procVars, userVars, netVars
  <2> QED BY <1>0, <2>1, <2>2 DEF TypeOK
<1>2. PhaseInv' /\ QuitInv'
  BY Records DEF ClientInv, PhaseInv, QuitInv, CloseInv, Alone, Shared_memory,
      JoinSender, At, Go, quietVars, procVars, userVars, netVars
<1>3. MutexInv' /\ CloseInv' /\ NoSendAfterClose'
  BY Records DEF ClientInv, PhaseInv, QuitInv, MutexInv, CloseInv, NoSendAfterClose,
      Alone, Leaving, Holding, Shared_memory, JoinSender, At, Go, quietVars,
      procVars, userVars, netVars
<1>4. WindowInv'
  BY Records DEF ClientInv, PhaseInv, QuitInv, MutexInv, CloseInv, WindowInv, Alone,
      Holding, Shared_memory, JoinSender, At, Go, quietVars, procVars, userVars,
      netVars
<1> QED BY <1>1, <1>2, <1>3, <1>4 DEF ClientInv

LEMMA JoinReceiverStep == ClientInv /\ JoinReceiver => ClientInv'
<1> SUFFICES ASSUME ClientInv, JoinReceiver PROVE ClientInv'
  OBVIOUS
<1>0. TypeOK
  BY DEF ClientInv
<1>1. TypeOK'
  <2>1. main' \in [pc : MainPc, size : 0..255, line : Nat]
    BY <1>0, Records DEF JoinReceiver, At, Go, MainPc
  <2>2. session' \in 1..2
    BY <1>0, Records DEF ClientInv, PhaseInv, JoinReceiver, At
  <2>3. sender' \in [pc : SenderPc, i : 0..255]
    BY <1>0, Records DEF JoinReceiver, SenderPc
  <2>4. receiver' \in [pc : ReceiverPc, received : Packet]
    BY <1>0, Records, ZeroType DEF JoinReceiver, ReceiverPc
  <2>5. cut' \in BOOLEAN
    BY <1>0, Records DEF JoinReceiver
  <2>6. UNCHANGED <<status, eof, stdout, shm, mutex, link, down, out, lines, read,
                    quit, proxy>>
    BY DEF JoinReceiver, quietVars, procVars, userVars, netVars
  <2> QED BY <1>0, <2>1, <2>2, <2>3, <2>4, <2>5, <2>6 DEF TypeOK
<1>2. PhaseInv' /\ QuitInv'
  BY Records DEF ClientInv, PhaseInv, QuitInv, CloseInv, Alone, Shared_memory,
      JoinReceiver, At, Go, quietVars, procVars, userVars, netVars
<1>3. MutexInv' /\ CloseInv' /\ NoSendAfterClose'
  BY Records DEF ClientInv, PhaseInv, QuitInv, MutexInv, CloseInv, NoSendAfterClose,
      Alone, Leaving, Holding, Shared_memory, JoinReceiver, At, Go, quietVars,
      procVars, userVars, netVars
<1>4. WindowInv'
  BY Records DEF ClientInv, PhaseInv, QuitInv, MutexInv, CloseInv, WindowInv, Alone,
      Holding, Shared_memory, JoinReceiver, At, Go, quietVars, procVars, userVars,
      netVars
<1> QED BY <1>1, <1>2, <1>3, <1>4 DEF ClientInv

LEMMA NoDestinationStep == ClientInv /\ NoDestination => ClientInv'
<1> SUFFICES ASSUME ClientInv, NoDestination PROVE ClientInv'
  OBVIOUS
<1>0. TypeOK
  BY DEF ClientInv
<1>1. TypeOK'
  <2>1. status' \in {"running", "ended", "failed", "sigpipe"}
    BY <1>0, Records DEF NoDestination
  <2>2. eof' \in BOOLEAN
    BY <1>0, Records DEF NoDestination
  <2>3. UNCHANGED <<session, stdout, main, cut, shm, mutex, sender, receiver, link,
                    down, out, lines, read, quit, proxy>>
    BY DEF NoDestination, quietVars, procVars, userVars, netVars
  <2> QED BY <1>0, <2>1, <2>2, <2>3 DEF TypeOK
<1>2. PhaseInv' /\ QuitInv'
  BY Records DEF ClientInv, PhaseInv, QuitInv, CloseInv, Alone, Shared_memory,
      NoDestination, At, quietVars, procVars, userVars, netVars
<1>3. MutexInv' /\ CloseInv' /\ NoSendAfterClose'
  BY Records DEF ClientInv, PhaseInv, QuitInv, MutexInv, CloseInv, NoSendAfterClose,
      Alone, Leaving, Holding, Shared_memory, NoDestination, At, quietVars,
      procVars, userVars, netVars
<1>4. WindowInv'
  BY Records DEF ClientInv, PhaseInv, QuitInv, MutexInv, CloseInv, WindowInv, Alone,
      Holding, Shared_memory, NoDestination, At, quietVars, procVars, userVars,
      netVars
<1> QED BY <1>1, <1>2, <1>3, <1>4 DEF ClientInv

LEMMA SenderLockStep == ClientInv /\ SenderLock => ClientInv'
<1> SUFFICES ASSUME ClientInv, SenderLock PROVE ClientInv'
  OBVIOUS
<1>0. TypeOK
  BY DEF ClientInv
<1>1. TypeOK'
  <2>1. sender' \in [pc : SenderPc, i : 0..255]
    BY <1>0, Records DEF SenderLock, Sends, SenderPc
  <2>2. mutex' \in Thread \cup {"none"}
    BY <1>0, Records DEF SenderLock, Thread
  <2>3. UNCHANGED <<status, session, eof, stdout, main, cut, shm, receiver, link,
                    down, out, lines, read, quit, proxy>>
    BY DEF SenderLock, Sends, quietVars, procVars, userVars, netVars
  <2> QED BY <1>0, <2>1, <2>2, <2>3 DEF TypeOK
<1>2. PhaseInv' /\ QuitInv'
  BY Records DEF ClientInv, PhaseInv, QuitInv, CloseInv, Alone, Shared_memory,
      SenderLock, Sends, quietVars, procVars, userVars, netVars
<1>3. MutexInv' /\ CloseInv' /\ NoSendAfterClose'
  BY Records DEF ClientInv, PhaseInv, QuitInv, MutexInv, CloseInv, NoSendAfterClose,
      Alone, Leaving, Holding, Shared_memory, SenderLock, Sends, quietVars,
      procVars, userVars, netVars
<1>4. WindowInv'
  BY Records DEF ClientInv, PhaseInv, QuitInv, MutexInv, CloseInv, WindowInv, Alone,
      Holding, Shared_memory, SenderLock, Sends, quietVars, procVars, userVars,
      netVars
<1> QED BY <1>1, <1>2, <1>3, <1>4 DEF ClientInv

LEMMA SenderTestStep == ClientInv /\ SenderTest => ClientInv'
<1> SUFFICES ASSUME ClientInv, SenderTest PROVE ClientInv'
  OBVIOUS
<1>0. TypeOK
  BY DEF ClientInv
<1>1. TypeOK'
  <2>1. sender' \in [pc : SenderPc, i : 0..255]
    BY <1>0, Records DEF SenderTest, Sends, SenderPc
  <2>2. UNCHANGED <<status, session, eof, stdout, main, cut, shm, mutex, receiver,
                    link, down, out, lines, read, quit, proxy>>
    BY DEF SenderTest, Sends, quietVars, procVars, userVars, netVars
  <2> QED BY <1>0, <2>1, <2>2 DEF TypeOK
<1>2. PhaseInv' /\ QuitInv'
  BY Records DEF ClientInv, PhaseInv, QuitInv, CloseInv, Alone, Shared_memory,
      SenderTest, Sends, quietVars, procVars, userVars, netVars
<1>3. MutexInv' /\ CloseInv' /\ NoSendAfterClose'
  BY Records DEF ClientInv, PhaseInv, QuitInv, MutexInv, CloseInv, NoSendAfterClose,
      Alone, Leaving, Holding, Shared_memory, SenderTest, Sends, quietVars,
      procVars, userVars, netVars
<1>4. WindowInv'
  BY Records DEF ClientInv, PhaseInv, QuitInv, MutexInv, CloseInv, WindowInv, Alone,
      Holding, Shared_memory, SenderTest, Sends, quietVars, procVars, userVars,
      netVars
<1> QED BY <1>1, <1>2, <1>3, <1>4 DEF ClientInv

LEMMA SenderWaitStep == ClientInv /\ SenderWait => ClientInv'
<1> SUFFICES ASSUME ClientInv, SenderWait PROVE ClientInv'
  OBVIOUS
<1>0. TypeOK
  BY DEF ClientInv
<1>1. TypeOK'
  <2>1. sender' \in [pc : SenderPc, i : 0..255]
    BY <1>0, Records DEF SenderWait, Sends, SenderPc
  <2>2. mutex' \in Thread \cup {"none"}
    BY <1>0, Records DEF SenderWait, Thread
  <2>3. UNCHANGED <<status, session, eof, stdout, main, cut, shm, receiver, link,
                    down, out, lines, read, quit, proxy>>
    BY DEF SenderWait, Sends, quietVars, procVars, userVars, netVars
  <2> QED BY <1>0, <2>1, <2>2, <2>3 DEF TypeOK
<1>2. PhaseInv' /\ QuitInv'
  BY Records DEF ClientInv, PhaseInv, QuitInv, CloseInv, Alone, Shared_memory,
      SenderWait, Sends, quietVars, procVars, userVars, netVars
<1>3. MutexInv' /\ CloseInv' /\ NoSendAfterClose'
  BY Records DEF ClientInv, PhaseInv, QuitInv, MutexInv, CloseInv, NoSendAfterClose,
      Alone, Leaving, Holding, Shared_memory, SenderWait, Sends, quietVars,
      procVars, userVars, netVars
<1>4. WindowInv'
  BY Records DEF ClientInv, PhaseInv, QuitInv, MutexInv, CloseInv, WindowInv, Alone,
      Holding, Shared_memory, SenderWait, Sends, quietVars, procVars, userVars,
      netVars
<1> QED BY <1>1, <1>2, <1>3, <1>4 DEF ClientInv

LEMMA SenderWokenStep == ClientInv /\ SenderWoken => ClientInv'
<1> SUFFICES ASSUME ClientInv, SenderWoken PROVE ClientInv'
  OBVIOUS
<1>0. TypeOK
  BY DEF ClientInv
<1>1. TypeOK'
  <2>1. sender' \in [pc : SenderPc, i : 0..255]
    <3>1. shm.ack_until \in 0..255
      BY <1>0, Records DEF Shared_memory
    <3>2. CASE shm.state = "CHAT"
      <4>1. sender' = [pc |-> "batch", i |-> shm.ack_until] /\ "batch" \in SenderPc
        BY <3>2 DEF SenderWoken, SenderPc
      <4> QED BY <3>1, <4>1
    <3>3. CASE shm.state # "CHAT"
      BY <1>0, <3>3, Records DEF SenderWoken, SenderPc
    <3> QED BY <3>2, <3>3
  <2>2. mutex' \in Thread \cup {"none"}
    BY <1>0, Records DEF SenderWoken, Thread
  <2>3. shm' \in Shared_memory
    <3>1. shm \in Shared_memory /\ 0 \in {0, 1}
      BY <1>0, Records
    <3>2. shm' = [shm EXCEPT !.can_write = 0] \/ shm' = shm
      BY DEF SenderWoken
    <3> QED BY <3>1, <3>2 DEF Shared_memory
  <2>4. UNCHANGED <<status, session, eof, stdout, main, cut, receiver, link, down,
                    out, lines, read, quit, proxy>>
    BY DEF SenderWoken, quietVars, procVars, userVars, netVars
  <2> QED BY <1>0, <2>1, <2>2, <2>3, <2>4 DEF TypeOK
<1>2. PhaseInv' /\ QuitInv'
  BY Records DEF ClientInv, PhaseInv, QuitInv, CloseInv, Alone, Shared_memory,
      SenderWoken, quietVars, procVars, userVars, netVars
<1>3. MutexInv' /\ CloseInv' /\ NoSendAfterClose'
  BY Records DEF ClientInv, PhaseInv, QuitInv, MutexInv, CloseInv, NoSendAfterClose,
      Alone, Leaving, Holding, Shared_memory, SenderWoken, quietVars, procVars,
      userVars, netVars
<1>4. WindowInv'
  BY Records DEF ClientInv, PhaseInv, QuitInv, MutexInv, CloseInv, WindowInv, Alone,
      Holding, Shared_memory, SenderWoken, quietVars, procVars, userVars, netVars
<1> QED BY <1>1, <1>2, <1>3, <1>4 DEF ClientInv

LEMMA SenderNextStep == ClientInv /\ SenderNext => ClientInv'
<1> SUFFICES ASSUME ClientInv, SenderNext PROVE ClientInv'
  OBVIOUS
<1>0. TypeOK
  BY DEF ClientInv
<1>1. TypeOK'
  <2>1. sender' \in [pc : SenderPc, i : 0..255]
    <3>1. CASE More
      BY <1>0, <3>1, Records DEF SenderNext, SenderPc
    <3>2. CASE ~More
      BY <1>0, <3>2, Records DEF SenderNext, SenderPc
    <3> QED BY <3>1, <3>2
  <2>2. shm' \in Shared_memory
    BY <1>0, Records DEF SenderNext, Shared_memory, Packet, Data_type, State
  <2>3. UNCHANGED <<status, session, eof, stdout, main, cut, mutex, receiver, link,
                    down, out, lines, read, quit, proxy>>
    BY DEF SenderNext, quietVars, procVars, userVars, netVars
  <2> QED BY <1>0, <2>1, <2>2, <2>3 DEF TypeOK
<1>2. PhaseInv' /\ QuitInv'
  BY Records DEF ClientInv, PhaseInv, QuitInv, CloseInv, Alone, Shared_memory,
      SenderNext, More, quietVars, procVars, userVars, netVars
<1>3. MutexInv' /\ CloseInv' /\ NoSendAfterClose'
  <2>1. shm'.size = shm.size /\ shm'.state = shm.state
    BY <1>0, Records DEF SenderNext, Shared_memory, Packet
  <2>2. /\ status = "running" /\ sender.pc = "batch"
        /\ UNCHANGED <<status, main, mutex, receiver, link, quit>>
    BY DEF SenderNext, netVars, quietVars, userVars
  <2>3. sender.i \in Nat /\ shm.size \in Nat
    <3>1. sender.i \in 0..255
      BY <1>0, Records
    <3>2. shm.size \in 0..255
      BY <1>0, Records DEF Shared_memory
    <3> QED BY <3>1, <3>2
  <2>4. CASE More
    <3>1. sender'.pc = "copy" /\ sender'.i = sender.i /\ sender.i < shm.size
      BY <1>0, <2>4, Records DEF SenderNext, More
    <3> QED BY <2>1, <2>2, <2>3, <3>1 DEF ClientInv, PhaseInv, MutexInv, CloseInv,
               NoSendAfterClose, Alone, Holding
  <2>5. CASE ~More
    <3>1. sender'.pc = "test"
      BY <2>5 DEF SenderNext
    <3> QED BY <2>1, <2>2, <3>1 DEF ClientInv, MutexInv, CloseInv, NoSendAfterClose,
               Holding
  <2> QED BY <2>4, <2>5
<1>4. WindowInv'
  BY Records DEF ClientInv, PhaseInv, QuitInv, MutexInv, CloseInv, WindowInv, Alone,
      Holding, Shared_memory, SenderNext, More, quietVars, procVars, userVars,
      netVars
<1> QED BY <1>1, <1>2, <1>3, <1>4 DEF ClientInv

LEMMA SenderCopyStep == ClientInv /\ SenderCopy => ClientInv'
<1> SUFFICES ASSUME ClientInv, SenderCopy PROVE ClientInv'
  OBVIOUS
<1>0. TypeOK
  BY DEF ClientInv
<1>1. TypeOK'
  <2>1. sender' \in [pc : SenderPc, i : 0..255]
    BY <1>0, Records DEF SenderCopy, Sends, SenderPc
  <2>2. shm' \in Shared_memory
    BY <1>0, Records DEF SenderCopy, Shared_memory, Packet, Data_type, State
  <2>3. UNCHANGED <<status, session, eof, stdout, main, cut, mutex, receiver, link,
                    down, out, lines, read, quit, proxy>>
    BY DEF SenderCopy, Sends, quietVars, procVars, userVars, netVars
  <2> QED BY <1>0, <2>1, <2>2, <2>3 DEF TypeOK
<1>2. PhaseInv' /\ QuitInv'
  BY Records DEF ClientInv, PhaseInv, QuitInv, CloseInv, Alone, Shared_memory,
      SenderCopy, Sends, quietVars, procVars, userVars, netVars
<1>3. MutexInv' /\ CloseInv' /\ NoSendAfterClose'
  BY Records DEF ClientInv, PhaseInv, QuitInv, MutexInv, CloseInv, NoSendAfterClose,
      Alone, Leaving, Holding, Shared_memory, SenderCopy, Sends, quietVars,
      procVars, userVars, netVars
<1>4. WindowInv'
  <2>1. /\ shm'.can_write = shm.can_write /\ shm'.line = shm.line
        /\ shm'.data.line = shm.line
    BY <1>0, Records DEF SenderCopy, Shared_memory, Packet
  <2>2. sender.pc = "copy" /\ sender'.pc = "send" /\ UNCHANGED <<main, out>>
    BY <1>0, Records DEF SenderCopy, Sends, netVars
  <2> QED BY <2>1, <2>2 DEF ClientInv, WindowInv
<1> QED BY <1>1, <1>2, <1>3, <1>4 DEF ClientInv

LEMMA SenderUnlockStep == ClientInv /\ SenderUnlock => ClientInv'
<1> SUFFICES ASSUME ClientInv, SenderUnlock PROVE ClientInv'
  OBVIOUS
<1>0. TypeOK
  BY DEF ClientInv
<1>1. TypeOK'
  <2>1. sender' \in [pc : SenderPc, i : 0..255]
    BY <1>0, Records DEF SenderUnlock, Sends, SenderPc
  <2>2. mutex' \in Thread \cup {"none"}
    BY <1>0, Records DEF SenderUnlock, Thread
  <2>3. UNCHANGED <<status, session, eof, stdout, main, cut, shm, receiver, link,
                    down, out, lines, read, quit, proxy>>
    BY DEF SenderUnlock, Sends, quietVars, procVars, userVars, netVars
  <2> QED BY <1>0, <2>1, <2>2, <2>3 DEF TypeOK
<1>2. PhaseInv' /\ QuitInv'
  BY Records DEF ClientInv, PhaseInv, QuitInv, CloseInv, Alone, Shared_memory,
      SenderUnlock, Sends, quietVars, procVars, userVars, netVars
<1>3. MutexInv' /\ CloseInv' /\ NoSendAfterClose'
  BY Records DEF ClientInv, PhaseInv, QuitInv, MutexInv, CloseInv, NoSendAfterClose,
      Alone, Leaving, Holding, Shared_memory, SenderUnlock, Sends, quietVars,
      procVars, userVars, netVars
<1>4. WindowInv'
  BY Records DEF ClientInv, PhaseInv, QuitInv, MutexInv, CloseInv, WindowInv, Alone,
      Holding, Shared_memory, SenderUnlock, Sends, quietVars, procVars, userVars,
      netVars
<1> QED BY <1>1, <1>2, <1>3, <1>4 DEF ClientInv

LEMMA ReceiverTestStep == ClientInv /\ ReceiverTest => ClientInv'
<1> SUFFICES ASSUME ClientInv, ReceiverTest PROVE ClientInv'
  OBVIOUS
<1>0. TypeOK
  BY DEF ClientInv
<1>1. TypeOK'
  <2>1. receiver' \in [pc : ReceiverPc, received : Packet]
    BY <1>0, Records DEF ReceiverTest, ReceiverPc
  <2>2. UNCHANGED <<status, session, eof, stdout, main, cut, shm, mutex, sender, link,
                    down, out, lines, read, quit, proxy>>
    BY DEF ReceiverTest, quietVars, procVars, userVars, netVars
  <2> QED BY <1>0, <2>1, <2>2 DEF TypeOK
<1>2. PhaseInv' /\ QuitInv'
  BY Records DEF ClientInv, PhaseInv, QuitInv, CloseInv, Alone, Shared_memory,
      ReceiverTest, quietVars, procVars, userVars, netVars
<1>3. MutexInv' /\ CloseInv' /\ NoSendAfterClose'
  BY Records DEF ClientInv, PhaseInv, QuitInv, MutexInv, CloseInv, NoSendAfterClose,
      Alone, Leaving, Holding, Shared_memory, ReceiverTest, quietVars, procVars,
      userVars, netVars
<1>4. WindowInv'
  BY Records DEF ClientInv, PhaseInv, QuitInv, MutexInv, CloseInv, WindowInv, Alone,
      Holding, Shared_memory, ReceiverTest, quietVars, procVars, userVars, netVars
<1> QED BY <1>1, <1>2, <1>3, <1>4 DEF ClientInv

LEMMA ReceiverRecvStep == ClientInv /\ ReceiverRecv => ClientInv'
<1> SUFFICES ASSUME ClientInv, ReceiverRecv PROVE ClientInv'
  OBVIOUS
<1>0. TypeOK
  BY DEF ClientInv
<1>1. TypeOK'
  <2>1. status' \in {"running", "ended", "failed", "sigpipe"}
    BY <1>0, Records DEF ReceiverRecv
  <2>2. receiver' \in [pc : ReceiverPc, received : Packet]
    BY <1>0, Records, ZeroType DEF ReceiverRecv, ReceiverPc, Received
  <2>3. down' \in Seq(Packet) /\ read' \in Seq(Packet)
    <3>1. down \in Seq(Packet) /\ read \in Seq(Packet)
      BY <1>0, Records
    <3>2. \/ down # <<>> /\ down' = Tail(down) /\ read' = Append(read, Head(down))
          \/ down' = down /\ read' = read
      BY DEF ReceiverRecv
    <3>3. CASE down # <<>> /\ down' = Tail(down) /\ read' = Append(read, Head(down))
      <4>1. Head(down) \in Packet /\ Tail(down) \in Seq(Packet)
        BY <3>1, <3>3
      <4> QED BY <3>1, <3>3, <4>1
    <3> QED BY <3>1, <3>2, <3>3
  <2>4. UNCHANGED <<session, eof, stdout, main, cut, shm, mutex, sender, link, out,
                    lines, quit, proxy>>
    BY DEF ReceiverRecv, quietVars, procVars, userVars, netVars
  <2> QED BY <1>0, <2>1, <2>2, <2>3, <2>4 DEF TypeOK
<1>2. PhaseInv' /\ QuitInv'
  BY Records DEF ClientInv, PhaseInv, QuitInv, CloseInv, Alone, Shared_memory,
      ReceiverRecv, Received, EndOfStream, quietVars, procVars, userVars, netVars
<1>3. MutexInv' /\ CloseInv' /\ NoSendAfterClose'
  BY Records DEF ClientInv, PhaseInv, QuitInv, MutexInv, CloseInv, NoSendAfterClose,
      Alone, Leaving, Holding, Shared_memory, ReceiverRecv, Received, EndOfStream,
      quietVars, procVars, userVars, netVars
<1>4. WindowInv'
  BY Records DEF ClientInv, PhaseInv, QuitInv, MutexInv, CloseInv, WindowInv, Alone,
      Holding, Shared_memory, ReceiverRecv, Received, EndOfStream, quietVars,
      procVars, userVars, netVars
<1> QED BY <1>1, <1>2, <1>3, <1>4 DEF ClientInv

\* What the receiver has read is taken for DT_CLO.
LEMMA HandleCloses ==
  ASSUME ClientInv, Handle
  PROVE  /\ shm' = [shm EXCEPT !.out_fd = 1, !.state = "QUIT"]
         /\ link' = "none" /\ stdout' = FALSE
         /\ sender' = IF sender.pc = "waiting" THEN [sender EXCEPT !.pc = "woken"]
                                               ELSE sender
<1>1. receiver.received = Zero /\ receiver.received.type = "CLO"
  BY DEF ClientInv, CloseInv, Zero
<1>2. shm \in Shared_memory
  BY DEF ClientInv, TypeOK
<1>3. shm' = [[shm EXCEPT !.out_fd = 1] EXCEPT !.state = "QUIT"]
  BY <1>1 DEF Handle, HandleReceived, Handled
<1>4. link' = "none" /\ stdout' = FALSE /\ sender' = cbroadcast(sender)
  BY <1>1 DEF Handle, HandleReceived
<1> QED BY <1>2, <1>3, <1>4 DEF Shared_memory, cbroadcast

LEMMA HandleStep == ClientInv /\ Handle => ClientInv'
<1> SUFFICES ASSUME ClientInv, Handle PROVE ClientInv'
  OBVIOUS
<1>0. TypeOK
  BY DEF ClientInv
<1>1. /\ status = "running" /\ receiver.pc = "handle" /\ mutex = "none"
      /\ receiver' = [pc |-> "test", received |-> Zero]
      /\ UNCHANGED <<status, session, eof, main, cut, mutex, down, out, lines, read,
                     quit, proxy>>
  BY DEF Handle, HandleReceived, userVars
<1>2. shm' \in Shared_memory
  <2>1. shm \in Shared_memory /\ "QUIT" \in State /\ 1 \in {-1, 1}
    BY <1>0, Records DEF State
  <2> QED BY <2>1, HandleCloses, CloseUpdate
<1>3. /\ shm'.state = "QUIT" /\ shm'.size = shm.size /\ shm'.line = shm.line
      /\ shm'.can_write = shm.can_write /\ shm'.data = shm.data
  BY <1>0, Records, HandleCloses DEF Shared_memory
<1>4. /\ sender'.pc = sender.pc \/ (sender.pc = "waiting" /\ sender'.pc = "woken")
      /\ sender'.i = sender.i
      /\ sender' \in [pc : SenderPc, i : 0..255]
  BY <1>0, Records, HandleCloses DEF SenderPc
<1>5. TypeOK'
  <2>1. receiver' \in [pc : ReceiverPc, received : Packet]
    BY <1>1, ZeroType DEF ReceiverPc
  <2>2. link' \in LinkState
    BY HandleCloses DEF LinkState
  <2> QED BY <1>0, <1>1, <1>2, <1>4, <2>1, <2>2, HandleCloses DEF TypeOK
<1>6. PhaseInv' /\ QuitInv'
  BY <1>1, <1>3, HandleCloses DEF ClientInv, PhaseInv, QuitInv, Alone
<1>7. MutexInv' /\ CloseInv' /\ NoSendAfterClose'
  BY <1>1, <1>3, <1>4, HandleCloses
  DEF ClientInv, MutexInv, CloseInv, NoSendAfterClose, Holding
<1>8. WindowInv'
  BY <1>1, <1>3, <1>4 DEF ClientInv, WindowInv
<1> QED BY <1>5, <1>6, <1>7, <1>8 DEF ClientInv

LEMMA SpuriousWakeupStep == ClientInv /\ SpuriousWakeup => ClientInv'
<1> SUFFICES ASSUME ClientInv, SpuriousWakeup PROVE ClientInv'
  OBVIOUS
<1>0. TypeOK
  BY DEF ClientInv
<1>1. TypeOK'
  <2>1. sender' \in [pc : SenderPc, i : 0..255]
    BY <1>0, Records DEF SpuriousWakeup, Sends, SenderPc
  <2>2. proxy' \in [answers : Nat, acks : Nat, strays : Nat, wakeups : Nat]
    BY <1>0, Records DEF SpuriousWakeup
  <2>3. UNCHANGED <<status, session, eof, stdout, main, cut, shm, mutex, receiver,
                    link, down, out, lines, read, quit>>
    BY DEF SpuriousWakeup, Sends, quietVars, procVars, userVars, netVars
  <2> QED BY <1>0, <2>1, <2>2, <2>3 DEF TypeOK
<1>2. PhaseInv' /\ QuitInv'
  BY Records DEF ClientInv, PhaseInv, QuitInv, CloseInv, Alone, Shared_memory,
      SpuriousWakeup, Sends, quietVars, procVars, userVars, netVars
<1>3. MutexInv' /\ CloseInv' /\ NoSendAfterClose'
  BY Records DEF ClientInv, PhaseInv, QuitInv, MutexInv, CloseInv, NoSendAfterClose,
      Alone, Leaving, Holding, Shared_memory, SpuriousWakeup, Sends, quietVars,
      procVars, userVars, netVars
<1>4. WindowInv'
  BY Records DEF ClientInv, PhaseInv, QuitInv, MutexInv, CloseInv, WindowInv, Alone,
      Holding, Shared_memory, SpuriousWakeup, Sends, quietVars, procVars,
      userVars, netVars
<1> QED BY <1>1, <1>2, <1>3, <1>4 DEF ClientInv

LEMMA ProxyClosesStep == ClientInv /\ ProxyCloses => ClientInv'
<1> SUFFICES ASSUME ClientInv, ProxyCloses PROVE ClientInv'
  OBVIOUS
<1>0. TypeOK
  BY DEF ClientInv
<1>1. TypeOK'
  <2>1. link' \in LinkState
    BY <1>0, Records DEF ProxyCloses, LinkState
  <2>2. UNCHANGED <<status, session, eof, stdout, main, cut, shm, mutex, sender,
                    receiver, down, out, lines, read, quit, proxy>>
    BY DEF ProxyCloses, quietVars, procVars, userVars, netVars
  <2> QED BY <1>0, <2>1, <2>2 DEF TypeOK
<1>2. PhaseInv' /\ QuitInv'
  BY Records DEF ClientInv, PhaseInv, QuitInv, CloseInv, Alone, Shared_memory,
      ProxyCloses, LinkState, quietVars, procVars, userVars, netVars
<1>3. MutexInv' /\ CloseInv' /\ NoSendAfterClose'
  BY Records DEF ClientInv, PhaseInv, QuitInv, MutexInv, CloseInv, NoSendAfterClose,
      Alone, Leaving, Holding, Shared_memory, ProxyCloses, LinkState, quietVars,
      procVars, userVars, netVars
<1>4. WindowInv'
  BY Records DEF ClientInv, PhaseInv, QuitInv, MutexInv, CloseInv, WindowInv, Alone,
      Holding, Shared_memory, ProxyCloses, LinkState, quietVars, procVars,
      userVars, netVars
<1> QED BY <1>1, <1>2, <1>3, <1>4 DEF ClientInv

-----------------------------------------------------------------------------
\* The packets of main do not count in WindowInv.
LEMMA MainSends ==
  ASSUME TypeOK, NEW p \in Packet, Send("main", p)
  PROVE  /\ \A k \in 1..Len(out') : out'[k].by = "sender" =>
              k \in 1..Len(out) /\ out'[k] = out[k]
         /\ "main" \in Thread
<1>1. "main" \in Thread /\ By("main", p).by # "sender"
  BY DEF Thread, By
<1> QED BY <1>1, SendOut

LEMMA SendConStep == ClientInv /\ SendCon => ClientInv'
<1> SUFFICES ASSUME ClientInv, SendCon PROVE ClientInv'
  OBVIOUS
<1>0. TypeOK
  BY DEF ClientInv
<1>1. shm \in Shared_memory /\ "CON" \in Data_type /\ shm' = [shm EXCEPT !.data.type = "CON"]
  BY <1>0, Records DEF SendCon, Data_type
<1>2. shm' \in Shared_memory /\ [shm.data EXCEPT !.type = "CON"] \in Packet
  BY <1>1 DEF Shared_memory, Packet
<1>3. /\ shm'.size = shm.size /\ shm'.state = shm.state /\ shm'.line = shm.line
      /\ shm'.can_write = shm.can_write /\ shm'.data.line = shm.data.line
  BY <1>1 DEF Shared_memory, Packet
<1>4. Send("main", [shm.data EXCEPT !.type = "CON"])
  BY DEF SendCon
<1>5. /\ status = "running" /\ main.pc = "auth" /\ main'.pc = "name"
      /\ main' \in [pc : MainPc, size : 0..255, line : Nat]
  BY <1>0, Records DEF SendCon, At, Go, MainPc
<1>6. UNCHANGED <<session, eof, stdout, cut, mutex, sender, receiver, down, lines,
                  read, quit, proxy>>
  BY DEF SendCon, quietVars, procVars, userVars
<1>7. /\ status' \in {"running", "ended", "failed", "sigpipe"} /\ link' \in LinkState
      /\ link' = "none" <=> link = "none"
      /\ link = "none" => status' = "failed"
      /\ out' \in Seq(Sending)
      /\ \A k \in 1..Len(out') : out'[k].by = "sender" =>
           k \in 1..Len(out) /\ out'[k] = out[k]
  BY <1>0, <1>2, <1>4, MainSends, SendType
<1>8. TypeOK'
  BY <1>0, <1>2, <1>5, <1>6, <1>7 DEF TypeOK
<1>9. PhaseInv' /\ QuitInv'
  BY <1>3, <1>5, <1>6, <1>7 DEF ClientInv, PhaseInv, QuitInv, Alone
<1>10. MutexInv' /\ CloseInv' /\ NoSendAfterClose'
  BY <1>3, <1>5, <1>6, <1>7
  DEF ClientInv, PhaseInv, MutexInv, CloseInv, NoSendAfterClose, Alone, Leaving, Holding
<1>11. WindowInv'
  BY <1>3, <1>5, <1>6, <1>7 DEF ClientInv, PhaseInv, WindowInv, Alone
<1> QED BY <1>8, <1>9, <1>10, <1>11 DEF ClientInv

LEMMA ReadNameStep == ClientInv /\ ReadName => ClientInv'
<1> SUFFICES ASSUME ClientInv, ReadName PROVE ClientInv'
  OBVIOUS
<1>0. TypeOK
  BY DEF ClientInv
<1>1. shm' = shm
  BY DEF ReadName
<1>2. shm' \in Shared_memory /\ Typed("name") \in Packet
  BY <1>0, <1>1, Records, TypedType
<1>3. /\ shm'.size = shm.size /\ shm'.state = shm.state /\ shm'.line = shm.line
      /\ shm'.can_write = shm.can_write /\ shm'.data.line = shm.data.line
  BY <1>1
<1>4. Send("main", Typed("name"))
  BY DEF ReadName
<1>5. /\ status = "running" /\ main.pc = "name" /\ main'.pc = "dest"
      /\ main' \in [pc : MainPc, size : 0..255, line : Nat]
  BY <1>0, Records DEF ReadName, At, Go, MainPc
<1>6. UNCHANGED <<session, eof, stdout, cut, mutex, sender, receiver, down, lines,
                  read, quit, proxy>>
  BY DEF ReadName, quietVars, procVars, userVars
<1>7. /\ status' \in {"running", "ended", "failed", "sigpipe"} /\ link' \in LinkState
      /\ link' = "none" <=> link = "none"
      /\ link = "none" => status' = "failed"
      /\ out' \in Seq(Sending)
      /\ \A k \in 1..Len(out') : out'[k].by = "sender" =>
           k \in 1..Len(out) /\ out'[k] = out[k]
  BY <1>0, <1>2, <1>4, MainSends, SendType
<1>8. TypeOK'
  BY <1>0, <1>2, <1>5, <1>6, <1>7 DEF TypeOK
<1>9. PhaseInv' /\ QuitInv'
  BY <1>3, <1>5, <1>6, <1>7 DEF ClientInv, PhaseInv, QuitInv, Alone
<1>10. MutexInv' /\ CloseInv' /\ NoSendAfterClose'
  BY <1>3, <1>5, <1>6, <1>7
  DEF ClientInv, PhaseInv, MutexInv, CloseInv, NoSendAfterClose, Alone, Leaving, Holding
<1>11. WindowInv'
  BY <1>3, <1>5, <1>6, <1>7 DEF ClientInv, PhaseInv, WindowInv, Alone
<1> QED BY <1>8, <1>9, <1>10, <1>11 DEF ClientInv

LEMMA GiveNameStep == ClientInv /\ GiveName => ClientInv'
<1> SUFFICES ASSUME ClientInv, GiveName PROVE ClientInv'
  OBVIOUS
<1>0. TypeOK
  BY DEF ClientInv
<1>1. shm \in Shared_memory /\ "GET" \in Data_type /\ shm' = [shm EXCEPT !.data.type = "GET"]
  BY <1>0, Records DEF GiveName, Data_type
<1>2. shm' \in Shared_memory /\ [shm.data EXCEPT !.type = "GET"] \in Packet
  BY <1>1 DEF Shared_memory, Packet
<1>3. /\ shm'.size = shm.size /\ shm'.state = shm.state /\ shm'.line = shm.line
      /\ shm'.can_write = shm.can_write /\ shm'.data.line = shm.data.line
  BY <1>1 DEF Shared_memory, Packet
<1>4. Send("main", [shm.data EXCEPT !.type = "GET"])
  BY DEF GiveName
<1>5. /\ status = "running" /\ main.pc = "dest" /\ main'.pc = "query" /\ ~eof
      /\ main' \in [pc : MainPc, size : 0..255, line : Nat]
  BY <1>0, Records DEF GiveName, At, Go, MainPc
<1>6. UNCHANGED <<session, eof, stdout, cut, mutex, sender, receiver, down, lines,
                  read, quit, proxy>>
  BY DEF GiveName, quietVars, procVars, userVars
<1>7. /\ status' \in {"running", "ended", "failed", "sigpipe"} /\ link' \in LinkState
      /\ link' = "none" <=> link = "none"
      /\ link = "none" => status' = "failed"
      /\ out' \in Seq(Sending)
      /\ \A k \in 1..Len(out') : out'[k].by = "sender" =>
           k \in 1..Len(out) /\ out'[k] = out[k]
  BY <1>0, <1>2, <1>4, MainSends, SendType
<1>8. TypeOK'
  BY <1>0, <1>2, <1>5, <1>6, <1>7 DEF TypeOK
<1>9. PhaseInv' /\ QuitInv'
  BY <1>3, <1>5, <1>6, <1>7 DEF ClientInv, PhaseInv, QuitInv, Alone
<1>10. MutexInv' /\ CloseInv' /\ NoSendAfterClose'
  BY <1>3, <1>5, <1>6, <1>7
  DEF ClientInv, PhaseInv, MutexInv, CloseInv, NoSendAfterClose, Alone, Leaving, Holding
<1>11. WindowInv'
  BY <1>3, <1>5, <1>6, <1>7 DEF ClientInv, PhaseInv, WindowInv, Alone
<1> QED BY <1>8, <1>9, <1>10, <1>11 DEF ClientInv

LEMMA SendNameStep == ClientInv /\ SendName => ClientInv'
<1> SUFFICES ASSUME ClientInv, SendName PROVE ClientInv'
  OBVIOUS
<1>0. TypeOK
  BY DEF ClientInv
<1>1. shm' = shm
  BY DEF SendName
<1>2. shm' \in Shared_memory /\ Typed("name") \in Packet
  BY <1>0, <1>1, Records, TypedType
<1>3. /\ shm'.size = shm.size /\ shm'.state = shm.state /\ shm'.line = shm.line
      /\ shm'.can_write = shm.can_write /\ shm'.data.line = shm.data.line
  BY <1>1
<1>4. Send("main", Typed("name"))
  BY DEF SendName
<1>5. /\ status = "running" /\ main.pc = "query" /\ main'.pc = "answer"
      /\ main' \in [pc : MainPc, size : 0..255, line : Nat]
  BY <1>0, Records DEF SendName, At, Go, MainPc
<1>6. UNCHANGED <<session, eof, stdout, cut, mutex, sender, receiver, down, lines,
                  read, quit, proxy>>
  BY DEF SendName, quietVars, procVars, userVars
<1>7. /\ status' \in {"running", "ended", "failed", "sigpipe"} /\ link' \in LinkState
      /\ link' = "none" <=> link = "none"
      /\ link = "none" => status' = "failed"
      /\ out' \in Seq(Sending)
      /\ \A k \in 1..Len(out') : out'[k].by = "sender" =>
           k \in 1..Len(out) /\ out'[k] = out[k]
  BY <1>0, <1>2, <1>4, MainSends, SendType
<1>8. TypeOK'
  BY <1>0, <1>2, <1>5, <1>6, <1>7 DEF TypeOK
<1>9. PhaseInv' /\ QuitInv'
  BY <1>3, <1>5, <1>6, <1>7 DEF ClientInv, PhaseInv, QuitInv, Alone
<1>10. MutexInv' /\ CloseInv' /\ NoSendAfterClose'
  BY <1>3, <1>5, <1>6, <1>7
  DEF ClientInv, PhaseInv, MutexInv, CloseInv, NoSendAfterClose, Alone, Leaving, Holding
<1>11. WindowInv'
  BY <1>3, <1>5, <1>6, <1>7 DEF ClientInv, PhaseInv, WindowInv, Alone
<1> QED BY <1>8, <1>9, <1>10, <1>11 DEF ClientInv

LEMMA SendBocStep == ClientInv /\ SendBoc => ClientInv'
<1> SUFFICES ASSUME ClientInv, SendBoc PROVE ClientInv'
  OBVIOUS
<1>0. TypeOK
  BY DEF ClientInv
<1>1. shm' = shm
  BY DEF SendBoc
<1>2. shm' \in Shared_memory /\ shm.data \in Packet
  BY <1>0, <1>1, Records DEF Shared_memory
<1>3. /\ shm'.size = shm.size /\ shm'.state = shm.state /\ shm'.line = shm.line
      /\ shm'.can_write = shm.can_write /\ shm'.data.line = shm.data.line
  BY <1>1
<1>4. Send("main", shm.data)
  BY DEF SendBoc
<1>5. /\ status = "running" /\ main.pc = "boc" /\ main'.pc = "enter"
      /\ main' \in [pc : MainPc, size : 0..255, line : Nat]
  BY <1>0, Records DEF SendBoc, At, Go, MainPc
<1>6. UNCHANGED <<session, eof, stdout, cut, mutex, sender, receiver, down, lines,
                  read, quit, proxy>>
  BY DEF SendBoc, quietVars, procVars, userVars
<1>7. /\ status' \in {"running", "ended", "failed", "sigpipe"} /\ link' \in LinkState
      /\ link' = "none" <=> link = "none"
      /\ link = "none" => status' = "failed"
      /\ out' \in Seq(Sending)
      /\ \A k \in 1..Len(out') : out'[k].by = "sender" =>
           k \in 1..Len(out) /\ out'[k] = out[k]
  BY <1>0, <1>2, <1>4, MainSends, SendType
<1>8. TypeOK'
  BY <1>0, <1>2, <1>5, <1>6, <1>7 DEF TypeOK
<1>9. PhaseInv' /\ QuitInv'
  BY <1>3, <1>5, <1>6, <1>7 DEF ClientInv, PhaseInv, QuitInv, Alone
<1>10. MutexInv' /\ CloseInv' /\ NoSendAfterClose'
  BY <1>3, <1>5, <1>6, <1>7
  DEF ClientInv, PhaseInv, MutexInv, CloseInv, NoSendAfterClose, Alone, Leaving, Holding
<1>11. WindowInv'
  BY <1>3, <1>5, <1>6, <1>7 DEF ClientInv, PhaseInv, WindowInv, Alone
<1> QED BY <1>8, <1>9, <1>10, <1>11 DEF ClientInv

LEMMA SendEocStep == ClientInv /\ SendEoc => ClientInv'
<1> SUFFICES ASSUME ClientInv, SendEoc PROVE ClientInv'
  OBVIOUS
<1>0. TypeOK
  BY DEF ClientInv
<1>1. shm' = shm
  BY DEF SendEoc
<1>2. shm' \in Shared_memory /\ shm.data \in Packet
  BY <1>0, <1>1, Records DEF Shared_memory
<1>3. /\ shm'.size = shm.size /\ shm'.state = shm.state /\ shm'.line = shm.line
      /\ shm'.can_write = shm.can_write /\ shm'.data.line = shm.data.line
  BY <1>1
<1>4. Send("main", shm.data)
  BY DEF SendEoc
<1>5. /\ status = "running" /\ main.pc = "eoc" /\ main'.pc = "unlock"
      /\ main' \in [pc : MainPc, size : 0..255, line : Nat]
  BY <1>0, Records DEF SendEoc, At, Go, MainPc
<1>6. UNCHANGED <<session, eof, stdout, cut, mutex, sender, receiver, down, lines,
                  read, quit, proxy>>
  BY DEF SendEoc, quietVars, procVars, userVars
<1>7. /\ status' \in {"running", "ended", "failed", "sigpipe"} /\ link' \in LinkState
      /\ link' = "none" <=> link = "none"
      /\ link = "none" => status' = "failed"
      /\ out' \in Seq(Sending)
      /\ \A k \in 1..Len(out') : out'[k].by = "sender" =>
           k \in 1..Len(out) /\ out'[k] = out[k]
  BY <1>0, <1>2, <1>4, MainSends, SendType
<1>8. TypeOK'
  BY <1>0, <1>2, <1>5, <1>6, <1>7 DEF TypeOK
<1>9. PhaseInv' /\ QuitInv'
  BY <1>3, <1>5, <1>6, <1>7 DEF ClientInv, PhaseInv, QuitInv, Alone
<1>10. MutexInv' /\ CloseInv' /\ NoSendAfterClose'
  BY <1>3, <1>5, <1>6, <1>7
  DEF ClientInv, PhaseInv, MutexInv, CloseInv, NoSendAfterClose, Alone, Leaving, Holding
<1>11. WindowInv'
  BY <1>3, <1>5, <1>6, <1>7 DEF ClientInv, PhaseInv, WindowInv, Alone
<1> QED BY <1>8, <1>9, <1>10, <1>11 DEF ClientInv

LEMMA ReadAnswerStep == ClientInv /\ ReadAnswer => ClientInv'
<1> SUFFICES ASSUME ClientInv, ReadAnswer PROVE ClientInv'
  OBVIOUS
<1>0. TypeOK
  BY DEF ClientInv
<1>1. /\ status = "running" /\ main.pc = "answer"
      /\ UNCHANGED <<session, eof, stdout, cut, mutex, sender, receiver, link, out,
                     lines, read, quit, proxy>>
  BY DEF ReadAnswer, At, quietVars, procVars, userVars
<1>2. /\ main' \in [pc : MainPc, size : 0..255, line : Nat]
      /\ main'.pc \in {"answer", "dest", "menu"}
  BY <1>0, <1>1, Records DEF ReadAnswer, Go, MainPc
<1>3. shm \in Shared_memory /\ down \in Seq(Packet)
  BY <1>0, Records
<1>4. /\ shm' \in Shared_memory /\ shm'.size = shm.size /\ shm'.state = shm.state
      /\ shm'.line = shm.line /\ shm'.can_write = shm.can_write
  <2>1. CASE shm' = shm
    BY <1>3, <2>1
  <2>2. CASE shm' = [shm EXCEPT !.data.type = "CON"]
    <3>1. "CON" \in Data_type
      BY DEF Data_type
    <3> QED BY <1>3, <2>2, <3>1 DEF Shared_memory, Packet
  <2>3. CASE /\ down # <<>>
             /\ \/ shm' = [shm EXCEPT !.data = Head(down)]
                \/ shm' = [shm EXCEPT !.data = [Head(down) EXCEPT !.type = "CON"]]
    <3>1. Head(down) \in Packet /\ [Head(down) EXCEPT !.type = "CON"] \in Packet
      <4>1. Head(down) \in Packet /\ "CON" \in Data_type
        BY <1>3, <2>3 DEF Data_type
      <4> QED BY <4>1 DEF Packet
    <3> QED BY <1>3, <2>3, <3>1 DEF Shared_memory
  <2> QED BY <2>1, <2>2, <2>3 DEF ReadAnswer
<1>5. down' \in Seq(Packet) /\ status' \in {"running", "ended", "failed", "sigpipe"}
  <2>1. \/ down' = down
        \/ down # <<>> /\ down' = Tail(down)
    BY DEF ReadAnswer
  <2>2. down' \in Seq(Packet)
    BY <1>3, <2>1
  <2> QED BY <1>1, <2>2 DEF ReadAnswer
<1>6. TypeOK'
  BY <1>0, <1>1, <1>2, <1>4, <1>5 DEF TypeOK
<1>7. PhaseInv' /\ QuitInv'
  BY <1>1, <1>2, <1>4 DEF ClientInv, PhaseInv, QuitInv, Alone
<1>8. MutexInv' /\ CloseInv' /\ NoSendAfterClose'
  BY <1>1, <1>2, <1>4
  DEF ClientInv, PhaseInv, MutexInv, CloseInv, NoSendAfterClose, Alone, Leaving, Holding
<1>9. WindowInv'
  BY <1>1, <1>2, <1>4 DEF ClientInv, PhaseInv, WindowInv, Alone
<1> QED BY <1>6, <1>7, <1>8, <1>9 DEF ClientInv

LEMMA SenderSendStep == ClientInv /\ SenderSend => ClientInv'
<1> SUFFICES ASSUME ClientInv, SenderSend PROVE ClientInv'
  OBVIOUS
<1>0. TypeOK
  BY DEF ClientInv
<1>1. /\ status = "running" /\ sender.pc = "send"
      /\ sender' = [pc |-> "batch", i |-> sender.i + 1]
      /\ UNCHANGED <<session, eof, stdout, main, cut, shm, mutex, receiver, down,
                     lines, read, quit, proxy>>
  BY DEF SenderSend, quietVars, procVars, userVars
<1>2. Send("sender", shm.data) /\ "sender" \in Thread /\ shm.data \in Packet
  BY <1>0, Records DEF SenderSend, Thread, Shared_memory
<1>3. /\ status' \in {"running", "ended", "failed", "sigpipe"} /\ link' \in LinkState
      /\ link' = "none" <=> link = "none"
      /\ link = "none" => status' = "failed"
      /\ out' \in Seq(Sending)
      /\ \A k \in 1..Len(out') : \/ k \in 1..Len(out) /\ out'[k] = out[k]
                                 \/ out'[k] = By("sender", shm.data)
  BY <1>0, <1>2, SendType, SendOut
<1>4. /\ sender' \in [pc : SenderPc, i : 0..255]
      /\ sender'.pc = "batch"
  <2>1. sender.i \in 0..255 /\ shm.size \in 0..255 /\ sender.i < shm.size
    BY <1>0, <1>1, Records DEF Shared_memory, ClientInv, CloseInv
  <2>2. sender.i + 1 \in 0..255 /\ "batch" \in SenderPc
    BY <2>1 DEF SenderPc
  <2> QED BY <1>1, <2>2
<1>5. TypeOK'
  BY <1>0, <1>1, <1>3, <1>4 DEF TypeOK
<1>6. PhaseInv' /\ QuitInv'
  BY <1>1, <1>3, <1>4 DEF ClientInv, PhaseInv, QuitInv
<1>7. MutexInv' /\ CloseInv' /\ NoSendAfterClose'
  BY <1>1, <1>3, <1>4
  DEF ClientInv, MutexInv, CloseInv, NoSendAfterClose, Holding
<1>8. WindowInv'
  <2>1. By("sender", shm.data).line = shm.line
    BY <1>1 DEF By, ClientInv, WindowInv
  <2>2. main.pc \notin Alone /\ shm.can_write = 0
    BY <1>1 DEF ClientInv, PhaseInv, WindowInv
  <2> QED BY <1>1, <1>3, <1>4, <2>1, <2>2 DEF ClientInv, WindowInv
<1> QED BY <1>5, <1>6, <1>7, <1>8 DEF ClientInv

\* What the proxy sends changes nothing the invariant speaks of but down.
LEMMA ProxySendsStep == ClientInv /\ ProxySends => ClientInv'
<1> SUFFICES ASSUME ClientInv, ProxySends PROVE ClientInv'
  OBVIOUS
<1>0. TypeOK
  BY DEF ClientInv
<1>1. UNCHANGED <<status, session, eof, stdout, main, cut, shm, mutex, sender,
                  receiver, link, out, lines, read, quit>>
  BY DEF ProxySends, Arrives, procVars, userVars
<1>2. \E p \in Packet : down' = Append(down, p)
  <2>1. CASE \E s \in {"GET", "INE", "CEX"} : Arrives(Typed(s))
    <3>1. PICK s \in {"GET", "INE", "CEX"} : Arrives(Typed(s))
      BY <2>1
    <3>2. s \in Data_type \cup {"name"}
      BY DEF Data_type
    <3> QED BY <3>1, <3>2, TypedType DEF Arrives
  <2>2. CASE \E k \in (proxy.acks + 1)..Len(out) :
               Arrives([Zero EXCEPT !.type = "ACK", !.id = out[k].id])
    <3>1. PICK k \in (proxy.acks + 1)..Len(out) :
                 Arrives([Zero EXCEPT !.type = "ACK", !.id = out[k].id])
      BY <2>2
    <3>2. proxy.acks \in Nat /\ out \in Seq(Sending)
      BY <1>0, Records
    <3>3. out[k] \in Sending
      BY <3>1, <3>2
    <3>4. out[k].id \in 0..255
      BY <3>3 DEF Sending
    <3> QED BY <3>1, <3>4, AckType DEF Arrives
  <2> QED BY <2>1, <2>2 DEF ProxySends
<1>3. down' \in Seq(Packet)
  <2>1. down \in Seq(Packet)
    BY <1>0, Records
  <2> QED BY <1>2, <2>1
<1>4. proxy' \in [answers : Nat, acks : Nat, strays : Nat, wakeups : Nat]
  <2>1. proxy \in [answers : Nat, acks : Nat, strays : Nat, wakeups : Nat]
        /\ Len(out) \in Nat
    BY <1>0, Records
  <2>2. \/ proxy' = [proxy EXCEPT !.answers = @ + 1]
        \/ \E k \in (proxy.acks + 1)..Len(out) : proxy' = [proxy EXCEPT !.acks = k]
        \/ proxy' = [proxy EXCEPT !.strays = @ + 1]
    BY DEF ProxySends
  <2> QED BY <2>1, <2>2
<1>5. TypeOK'
  BY <1>0, <1>1, <1>3, <1>4 DEF TypeOK
<1> QED BY <1>1, <1>5 DEF ClientInv, PhaseInv, QuitInv, MutexInv, CloseInv,
           NoSendAfterClose, WindowInv
-----------------------------------------------------------------------------
LEMMA StutterStep == ClientInv /\ UNCHANGED vars => ClientInv'
BY DEF ClientInv, vars, procVars, userVars, netVars, TypeOK, PhaseInv, QuitInv, MutexInv,
       CloseInv, NoSendAfterClose, WindowInv

\* ClientInv holds in every reachable state of the client, whatever the lengths of
\* the pseudo and of the lines and whatever the bounds.
THEOREM Invariance == Spec => []ClientInv
<1>1. ClientInv /\ [Next]_vars => ClientInv'
  <2> SUFFICES ASSUME ClientInv, [Next]_vars PROVE ClientInv'
    OBVIOUS
  <2>1. CASE Main
    BY <2>1, ConnectStep, SendConStep, SendNameStep, ReadAnswerStep, ChatStep, BeginStep,
       SendBocStep, EnterStep, BroadcastStep, PublishStep, StampStep, SendEocStep,
       UnlockStep, JoinSenderStep, JoinReceiverStep, ReadNameStep, NoDestinationStep,
       ReadNothingStep
    DEF Main
  <2>2. CASE User
    BY <2>2, ReadNameStep, GiveAddressStep, GiveNameStep, NoDestinationStep, ChooseStep,
       TypeLineStep, ReadNothingStep, QuitStep
    DEF User
  <2>3. CASE Sender
    BY <2>3, SenderLockStep, SenderTestStep, SenderWaitStep, SenderWokenStep,
       SenderNextStep, SenderCopyStep, SenderSendStep, SenderUnlockStep
    DEF Sender
  <2>4. CASE Receiver
    BY <2>4, ReceiverTestStep, ReceiverRecvStep, HandleStep DEF Receiver
  <2>5. CASE SpuriousWakeup \/ ProxySends \/ ProxyCloses
    BY <2>5, SpuriousWakeupStep, ProxySendsStep, ProxyClosesStep
  <2> QED BY <2>1, <2>2, <2>3, <2>4, <2>5, StutterStep DEF Next
<1> QED BY InitInv, <1>1, PTL DEF Spec

\* Sizes, indices and ids stay within their eight bits, and main never gets past a
\* second connection (TypeOK).
THEOREM TypeCorrect == Spec => []TypeOK
<1>1. ClientInv => TypeOK
  BY DEF ClientInv
<1> QED BY Invariance, <1>1, PTL

\* The sender never sends on the socket the receiver has closed, unless a
\* recognised /q has unlocked the mutex for it (NoSendAfterClose).
THEOREM ClosedNotUsed == Spec => []NoSendAfterClose
<1>1. ClientInv => NoSendAfterClose
  BY DEF ClientInv
<1> QED BY Invariance, <1>1, PTL

-----------------------------------------------------------------------------
(* The lines.  Most steps leave out alone and the sender where it was.     *)

LEMMA LineInit == Init => LineInv
BY DEF Init, LineInv, Fresh, Sent, Batch

\* A step that sends nothing: the size of a line that is being sent stays, and
\* so does how far it has been sent.
LEMMA LineKept ==
  ASSUME LineInv, Sent' = Sent, \A k \in Sent : out'[k] = out[k],
         main'.pc = "joinReceiver" => sender'.pc = "done",
         shm'.ack_until = 0,
         Sent = {} \/ shm'.size = shm.size,
         sender'.pc = "send" => shm'.data.byte = sender'.i,
         link' = "open" =>
           /\ link = "open"
           /\ sender'.pc \in Batch /\ sender'.i > 0 => sender.pc \in Batch /\ sender.i > 0
           /\ \A k \in Sent : Last(k) => Reached' = Reached
  PROVE  LineInv'
<1>1. /\ \A k : First(k)' <=> First(k)
      /\ \A k : Last(k)' <=> Last(k)
      /\ \A j, k : Follows(j, k)' <=> Follows(j, k)
  BY DEF First, Last, Follows
<1>2. /\ \A k \in Sent : out'[k].byte < shm'.size
      /\ \A k \in Sent : First(k) => out'[k].byte = 0
      /\ \A j, k \in Sent : Follows(j, k) =>
           out'[k].byte = IF out'[j].byte = shm'.size - 1 THEN 0 ELSE out'[j].byte + 1
  <2>1. CASE Sent = {}
    BY <2>1
  <2>2. CASE shm'.size = shm.size
    BY <2>2 DEF LineInv
  <2> QED
    BY <2>1, <2>2
<1>3. link' = "open" =>
        /\ sender'.pc \in Batch /\ sender'.i > 0 => Sent # {}
        /\ \A k \in Sent : Last(k) => out'[k].byte = Reached' - 1
  BY DEF LineInv
<1> HIDE DEF Sent, First, Last, Follows, Reached
<1> QED
  BY <1>1, <1>2, <1>3 DEF LineInv

\* The sender and the line stay; something else may happen.
LEMMA LineQuiet ==
  ASSUME LineInv, Sent' = Sent, \A k \in Sent : out'[k] = out[k],
         main'.pc = "joinReceiver" => sender'.pc = "done",
         shm'.size = shm.size, shm'.ack_until = shm.ack_until,
         sender.pc = "send" => shm'.data.byte = shm.data.byte,
         sender'.i = sender.i, sender'.pc \in Batch <=> sender.pc \in Batch,
         sender'.pc = "send" => sender.pc = "send",
         link' = "open" => link = "open"
  PROVE  LineInv'
<1>1. Reached' = Reached
  BY DEF Reached
<1>2. shm'.ack_until = 0 /\ (sender'.pc = "send" => shm'.data.byte = sender'.i)
  BY DEF LineInv
<1> HIDE DEF Sent, Last, Reached
<1> QED
  BY <1>1, <1>2, LineKept

\* What main sends is not the sender's.
LEMMA MainSaid ==
  ASSUME TypeOK, NEW p \in Packet, Send("main", p)
  PROVE  /\ Sent' = Sent /\ \A k \in Sent : out'[k] = out[k]
         /\ link' = "open" => link = "open"
<1>1. out \in Seq(Sending)
  BY DEF TypeOK
<1>2. link' = "open" => link = "open"
  BY DEF Send, AfterSend
<1>3. CASE out' = out
  BY <1>2, <1>3 DEF Sent
<1>4. CASE out' = Append(out, By("main", p))
  <2> DEFINE e == By("main", p)
  <2>1. e.by = "main" /\ e \in Sending
    BY ByType DEF By, Thread
  <2> HIDE DEF e
  <2>2. /\ Len(out) \in Nat /\ Len(out') = Len(out) + 1 /\ out'[Len(out) + 1] = e
        /\ \A k \in 1..Len(out) : out'[k] = out[k]
    BY <1>1, <1>4, <2>1 DEF e
  <2> QED
    BY <1>2, <2>1, <2>2 DEF Sent
<1> QED
  BY <1>3, <1>4 DEF Send

\* The steps that leave the line and the sender's place in it.
LEMMA LineSteps ==
  ASSUME ClientInv, LineInv,
         \/ SendCon \/ ReadName \/ GiveAddress \/ GiveName \/ SendName
         \/ ReadAnswer \/ NoDestination \/ Choose \/ Begin \/ SendBoc
         \/ Enter \/ TypeLine \/ ReadNothing \/ Quit \/ Broadcast \/ Stamp
         \/ SendEoc \/ Unlock \/ JoinSender
         \/ SenderLock \/ SenderTest \/ SenderWait \/ SenderUnlock
         \/ ReceiverTest \/ ReceiverRecv \/ Handle
         \/ SpuriousWakeup \/ ProxySends \/ ProxyCloses \/ UNCHANGED vars
  PROVE  LineInv'
<1>1. /\ TypeOK /\ shm \in Shared_memory
      /\ main \in [pc : MainPc, size : 0..255, line : Nat]
      /\ sender \in [pc : SenderPc, i : 0..255]
      /\ receiver.received = Zero
  BY DEF ClientInv, TypeOK, CloseInv
<1>2. /\ Sent' = Sent /\ \A k \in Sent : out'[k] = out[k]
      /\ link' = "open" => link = "open"
  <2>1. CASE out' = out /\ (link' = "open" => link = "open")
    BY <2>1 DEF Sent
  <2>2. CASE \E p \in Packet : Send("main", p)
    BY <1>1, <2>2, MainSaid
  <2>3. CASE SendCon \/ ReadName \/ GiveName \/ SendName \/ SendBoc \/ SendEoc
    <3>1. /\ shm.data \in Packet /\ Typed("name") \in Packet
          /\ [shm.data EXCEPT !.type = "CON"] \in Packet
          /\ [shm.data EXCEPT !.type = "GET"] \in Packet
      BY <1>1, TypedType DEF Shared_memory, Packet, Data_type
    <3> QED
      BY <2>2, <2>3, <3>1 DEF SendCon, ReadName, GiveName, SendName, SendBoc, SendEoc
  <2>4. CASE ~(SendCon \/ ReadName \/ GiveName \/ SendName \/ SendBoc \/ SendEoc)
    <3>1. out' = out /\ (link' = "open" => link = "open")
      BY <2>4
      DEF GiveAddress, ReadAnswer, NoDestination, Choose, Begin, Enter, TypeLine,
          ReadNothing, Quit, Broadcast, Stamp, Unlock, JoinSender, SenderLock,
          SenderTest, SenderWait, SenderUnlock, ReceiverTest, ReceiverRecv, Handle,
          HandleReceived, SpuriousWakeup, ProxySends, Arrives, ProxyCloses, netVars, vars
    <3> QED
      BY <2>1, <3>1
  <2> QED
    BY <2>3, <2>4
<1>3. /\ shm'.size = shm.size /\ shm'.ack_until = shm.ack_until
      /\ sender.pc = "send" => shm'.data.byte = shm.data.byte
  <2>1. CASE ReadAnswer
    <3>1. sender.pc = "none"
      BY <2>1 DEF ReadAnswer, At, ClientInv, PhaseInv, Alone
    <3>2. shm'.size = shm.size /\ shm'.ack_until = shm.ack_until
      BY <1>1, <2>1 DEF ReadAnswer, Shared_memory
    <3> QED
      BY <3>1, <3>2
  <2>2. CASE Handle
    <3>1. shm' = [[shm EXCEPT !.out_fd = 1] EXCEPT !.state = "QUIT"]
      BY <1>1, <2>2 DEF Handle, HandleReceived, Handled, Zero
    <3> QED
      BY <1>1, <3>1 DEF Shared_memory
  <2>3. CASE SendCon \/ GiveAddress \/ GiveName \/ Begin \/ Stamp
    <3>1. PICK t : \/ shm' = [shm EXCEPT !.data.type = t]
                   \/ shm' = [shm EXCEPT !.state = "CHAT", !.data.type = t]
      BY <2>3 DEF SendCon, GiveAddress, GiveName, Begin, Stamp
    <3>2. shm \in Shared_memory /\ shm.data \in Packet
      BY <1>1 DEF Shared_memory
    <3>3. CASE shm' = [shm EXCEPT !.data.type = t]
      BY <3>2, <3>3 DEF Shared_memory, Packet
    <3>4. CASE shm' = [shm EXCEPT !.state = "CHAT", !.data.type = t]
      BY <3>2, <3>4 DEF Shared_memory, Packet
    <3> QED
      BY <3>1, <3>3, <3>4
  <2>4. CASE Quit
    BY <1>1, <2>4 DEF Quit, Shared_memory
  <2>5. CASE ~(\/ ReadAnswer \/ Handle \/ SendCon \/ GiveAddress \/ GiveName \/ Begin
               \/ Stamp \/ Quit)
    <3>1. shm' = shm
      BY <2>5
      DEF ReadName, SendName, NoDestination, Choose, SendBoc, Enter, TypeLine,
          ReadNothing, Broadcast, SendEoc, Unlock, JoinSender, SenderLock, SenderTest,
          SenderWait, SenderUnlock, ReceiverTest, ReceiverRecv, SpuriousWakeup,
          ProxySends, Arrives, ProxyCloses, vars
    <3> QED
      BY <3>1
  <2> QED
    BY <2>1, <2>2, <2>3, <2>4, <2>5
<1>4. /\ sender'.i = sender.i /\ (sender'.pc \in Batch <=> sender.pc \in Batch)
      /\ sender'.pc = "send" => sender.pc = "send"
      /\ sender.pc = "done" => sender'.pc = "done"
  BY <1>1
  DEF SendCon, ReadName, GiveAddress, GiveName, SendName, ReadAnswer, NoDestination,
      Choose, Begin, SendBoc, Enter, TypeLine, ReadNothing, Quit, Broadcast, Stamp,
      SendEoc, Unlock, JoinSender, SenderLock, SenderTest, SenderWait, SenderUnlock,
      ReceiverTest, ReceiverRecv, Handle, HandleReceived, SpuriousWakeup, ProxySends,
      Arrives, ProxyCloses, vars, Sends, cbroadcast, csignal, Batch, Zero
<1>5. main'.pc = "joinReceiver" => main.pc = "joinReceiver" \/ sender.pc = "done"
  <2>1. CASE main' = main
    BY <2>1
  <2>2. CASE JoinSender
    BY <2>2 DEF JoinSender
  <2>3. CASE \E t \in MainPc \ {"joinReceiver"} : Go(t)
    BY <1>1, <2>3 DEF Go
  <2>4. CASE Enter \/ TypeLine \/ ReadNothing
    BY <1>1, <2>4 DEF Enter, LoopTest, TypeLine, ReadNothing
  <2>5. CASE ~JoinSender /\ ~Enter /\ ~TypeLine /\ ~ReadNothing
    <3>1. main' = main \/ \E t \in MainPc \ {"joinReceiver"} : Go(t)
      BY <2>5
      DEF SendCon, ReadName, GiveAddress, GiveName, SendName, ReadAnswer,
          NoDestination, Choose, Begin, SendBoc, Quit, Broadcast, Stamp, SendEoc,
          Unlock, SenderLock, SenderTest, SenderWait, SenderUnlock, ReceiverTest,
          ReceiverRecv, Handle, HandleReceived, SpuriousWakeup, ProxySends, Arrives,
          ProxyCloses, vars, MainPc
    <3> QED
      BY <2>1, <2>3, <3>1
  <2> QED
    BY <2>2, <2>4, <2>5
<1>6. main'.pc = "joinReceiver" => sender'.pc = "done"
  BY <1>4, <1>5 DEF LineInv
<1> QED
  BY <1>2, <1>3, <1>4, <1>6, LineQuiet

LEMMA LineConnect == ClientInv /\ LineInv /\ Connect => LineInv'
<1> SUFFICES ASSUME ClientInv, LineInv, Connect PROVE LineInv'
  OBVIOUS
<1>1. sender' = sender /\ sender.pc = "none" /\ main'.pc # "joinReceiver"
  BY DEF Connect, At, Go, ClientInv, TypeOK, PhaseInv, Alone
<1>2. CASE UNCHANGED <<main, shm, mutex, netVars>>
  BY <1>1, <1>2, LineQuiet DEF netVars, Sent
<1>3. CASE shm' = Fresh /\ out' = <<>>
  <2>1. Sent' = {}
    BY <1>3 DEF Sent
  <2> QED
    BY <1>1, <1>3, <2>1 DEF LineInv, Fresh, Batch
<1> QED
  BY <1>2, <1>3 DEF Connect

\* Nothing has been sent yet when the size of the line changes.
LEMMA LineFirst ==
  ASSUME ClientInv, main.pc \in {"chat", "publish"}, shm.can_write = 1 \/ main.pc = "chat"
  PROVE  Sent = {} /\ sender.pc \notin Batch
<1>1. shm \in Shared_memory
  BY DEF ClientInv, TypeOK
<1>2. CASE main.pc = "chat"
  BY <1>2 DEF ClientInv, WindowInv, PhaseInv, Alone, Sent, Batch
<1>3. CASE main.pc = "publish" /\ shm.can_write = 1
  BY <1>3 DEF ClientInv, WindowInv, Alone, Sent, Batch
<1> QED
  BY <1>2, <1>3

LEMMA LineChat == ClientInv /\ LineInv /\ Chat => LineInv'
<1> SUFFICES ASSUME ClientInv, LineInv, Chat PROVE LineInv'
  OBVIOUS
<1>1. Sent = {}
  BY LineFirst DEF Chat, At
<1>2. /\ Sent' = Sent /\ link' = link /\ main'.pc = "begin"
      /\ sender' = [pc |-> "lock", i |-> 0] /\ shm'.ack_until = 0
  BY DEF Chat, At, Go, netVars, Sent, ClientInv, TypeOK, Shared_memory
<1> QED
  BY <1>1, <1>2, LineKept DEF Batch

LEMMA LinePublish == ClientInv /\ LineInv /\ Publish => LineInv'
<1> SUFFICES ASSUME ClientInv, LineInv, Publish PROVE LineInv'
  OBVIOUS
<1>1. /\ out' = out /\ link' = link /\ main'.pc # "joinReceiver"
      /\ sender'.i = sender.i /\ (sender'.pc \in Batch <=> sender.pc \in Batch)
      /\ sender'.pc = "send" => sender.pc = "send"
      /\ shm'.ack_until = shm.ack_until /\ shm'.data.byte = shm.data.byte
  BY DEF Publish, LoopTest, csignal, netVars, Batch, ClientInv, TypeOK, Shared_memory
<1>2. CASE shm.can_write = 1
  <2>1. Sent = {} /\ sender.pc \notin Batch
    BY <1>2, LineFirst DEF Publish, At
  <2> QED
    BY <1>1, <2>1, LineKept DEF LineInv, Sent, Batch
<1>3. CASE shm.can_write # 1
  BY <1>1, <1>3, LineQuiet DEF Publish, Sent
<1> QED
  BY <1>2, <1>3

LEMMA LineJoined == ClientInv /\ LineInv /\ JoinReceiver => LineInv'
<1> SUFFICES ASSUME ClientInv, LineInv, JoinReceiver PROVE LineInv'
  OBVIOUS
<1>1. /\ out' = out /\ link' = link /\ shm' = shm /\ main'.pc = "connect"
      /\ sender' = [pc |-> "none", i |-> 0] /\ sender.pc = "done"
  BY DEF JoinReceiver, At, Go, netVars, LineInv, ClientInv, TypeOK
<1>2. Sent' = Sent /\ Reached' = Reached
  BY <1>1 DEF Sent, Reached, Batch
<1> HIDE DEF Sent, Reached
<1> QED
  BY <1>1, <1>2, LineKept DEF LineInv, Batch
-----------------------------------------------------------------------------
(* The sender. *)

LEMMA LineWoken == ClientInv /\ LineInv /\ SenderWoken => LineInv'
<1> SUFFICES ASSUME ClientInv, LineInv, SenderWoken PROVE LineInv'
  OBVIOUS
<1>1. /\ out' = out /\ link' = link /\ main' = main /\ sender.pc = "woken"
      /\ \/ sender' = [pc |-> "batch", i |-> 0]
         \/ sender' = [sender EXCEPT !.pc = "unlock"]
      /\ shm'.size = shm.size /\ shm'.ack_until = 0
  BY DEF SenderWoken, netVars, LineInv, ClientInv, TypeOK, Shared_memory
<1>2. /\ sender'.pc \in {"batch", "unlock"}
      /\ ~(sender'.pc \in Batch /\ sender'.i > 0)
  BY <1>1 DEF Batch, ClientInv, TypeOK
<1>3. Sent' = Sent /\ Reached' = Reached
  BY <1>1, <1>2 DEF Sent, Reached, Batch
<1> HIDE DEF Sent, Reached
<1> QED
  BY <1>1, <1>2, <1>3, LineKept DEF LineInv

LEMMA LineNext == ClientInv /\ LineInv /\ SenderNext => LineInv'
<1> SUFFICES ASSUME ClientInv, LineInv, SenderNext PROVE LineInv'
  OBVIOUS
<1>1. /\ sender.i \in 0..255 /\ shm.size \in 0..255 /\ sender.pc = "batch"
      /\ out' = out /\ link' = link /\ main' = main
      /\ shm'.size = shm.size /\ shm'.ack_until = 0
  BY DEF SenderNext, netVars, LineInv, ClientInv, TypeOK, Shared_memory, Packet
<1>2. Sent' = Sent
  BY <1>1 DEF Sent
<1>3. main'.pc # "joinReceiver"
  BY <1>1 DEF LineInv
<1>4. CASE More
  <2>1. sender'.pc = "copy" /\ sender'.i = sender.i
    BY <1>4 DEF SenderNext, ClientInv, TypeOK
  <2>2. Reached' = Reached
    BY <1>1, <2>1 DEF Reached, Batch
  <2> HIDE DEF Sent, Reached
  <2> QED
    BY <1>1, <1>2, <1>3, <2>1, <2>2, LineKept DEF Batch
<1>5. CASE ~More
  <2>1. sender' = [pc |-> "test", i |-> 0]
    BY <1>5 DEF SenderNext
  <2>2. \A k \in Sent : out[k].byte \in 0..255
    <3>1. out \in Seq(Sending)
      BY DEF ClientInv, TypeOK
    <3>2. \A k \in Sent : out[k] \in Sending
      BY <3>1 DEF Sent
    <3> QED
      BY <3>2 DEF Sending
  <2>3. link = "open" => \A k \in Sent : Last(k) => Reached' = Reached
    <3> SUFFICES ASSUME link = "open", NEW k \in Sent, Last(k) PROVE Reached' = Reached
      OBVIOUS
    <3>1. Reached' = shm.size
      BY <1>1, <2>1 DEF Reached, Batch
    <3>2. CASE sender.i = 0
      BY <3>1, <3>2 DEF Reached
    <3>3. CASE sender.i > 0
      <4>1. Reached = sender.i
        BY <1>1, <3>3 DEF Reached, Batch
      <4>2. out[k].byte = sender.i - 1 /\ out[k].byte < shm.size
        BY <4>1 DEF LineInv
      <4> DEFINE i == sender.i
                 n == shm.size
                 b == out[k].byte
      <4>3. i \in 0..255 /\ n \in 0..255 /\ b \in 0..255 /\ ~(i < n) /\ b = i - 1 /\ b < n
        BY <1>1, <1>5, <2>2, <4>2 DEF More
      <4> HIDE DEF i, n, b
      <4>4. i = n
        BY <4>3
      <4> QED
        BY <3>1, <4>1, <4>4 DEF i, n
    <3> QED
      BY <1>1, <3>2, <3>3
  <2> HIDE DEF Sent, Reached, Last
  <2> QED
    BY <1>1, <1>2, <1>3, <2>1, <2>3, LineKept
<1> QED
  BY <1>4, <1>5

LEMMA LineCopy == ClientInv /\ LineInv /\ SenderCopy => LineInv'
<1> SUFFICES ASSUME ClientInv, LineInv, SenderCopy PROVE LineInv'
  OBVIOUS
<1>1. /\ sender.pc = "copy" /\ sender'.pc = "send" /\ sender'.i = sender.i
      /\ out' = out /\ link' = link /\ main' = main
      /\ shm'.size = shm.size /\ shm'.ack_until = 0 /\ shm'.data.byte = sender.i
  <2>1. /\ shm \in Shared_memory /\ shm.data \in Packet
        /\ sender \in [pc : SenderPc, i : 0..255]
    BY DEF ClientInv, TypeOK, Shared_memory
  <2>2. shm' = [shm EXCEPT !.data.byte = sender.i, !.data.line = shm.line]
    BY DEF SenderCopy
  <2>3. shm'.size = shm.size /\ shm'.ack_until = 0 /\ shm'.data.byte = sender.i
    BY <2>1, <2>2 DEF LineInv, Shared_memory, Packet
  <2> QED
    BY <2>1, <2>3 DEF SenderCopy, Sends, netVars
<1>2. Sent' = Sent /\ Reached' = Reached
  BY <1>1 DEF Sent, Reached, Batch
<1>3. main'.pc # "joinReceiver"
  BY <1>1 DEF LineInv
<1> HIDE DEF Sent, Reached
<1> QED
  BY <1>1, <1>2, <1>3, LineKept DEF Batch

LEMMA LineSend == ClientInv /\ LineInv /\ SenderSend => LineInv'
<1> SUFFICES ASSUME ClientInv, LineInv, SenderSend PROVE LineInv'
  OBVIOUS
<1> DEFINE e == By("sender", shm.data)
           i == sender.i
           n == shm.size
<1>1. /\ i \in 0..255 /\ n \in 0..255 /\ i < n /\ sender.pc = "send"
      /\ sender' = [pc |-> "batch", i |-> i + 1] /\ shm' = shm /\ main' = main
      /\ shm.data \in Packet
  BY DEF SenderSend, ClientInv, TypeOK, CloseInv, Shared_memory
<1>2. e \in Sending /\ e.by = "sender" /\ e.byte = i
  <2>1. "sender" \in Thread
    BY DEF Thread
  <2> QED
    BY <1>1, <2>1, ByType DEF By, LineInv
<1>3. main'.pc # "joinReceiver"
  BY <1>1 DEF LineInv
<1>4. CASE out' = out /\ link' # "open"
  <2>1. /\ Sent' = Sent /\ \A k \in Sent : out'[k] = out[k]
        /\ shm'.ack_until = 0 /\ shm'.size = shm.size /\ sender'.pc # "send"
    BY <1>1, <1>4 DEF Sent, LineInv
  <2> HIDE DEF Sent
  <2> QED
    BY <1>3, <1>4, <2>1, LineKept
<1>5. CASE out' = Append(out, e) /\ link = "open"
  <2>1. PICK m \in Nat : /\ Len(out) \in Nat /\ m = Len(out) + 1
                         /\ Len(out') = m /\ out'[m] = e
                         /\ \A k \in 1..Len(out) : out'[k] = out[k]
    <3>1. out \in Seq(Sending)
      BY DEF ClientInv, TypeOK
    <3> HIDE DEF e
    <3> QED
      BY <1>2, <1>5, <3>1
  <2>2. /\ Sent' = Sent \cup {m} /\ Sent \subseteq Nat
        /\ \A k \in Sent : k < m /\ out'[k] = out[k]
    BY <1>2, <2>1 DEF Sent
  <2>3. \A k \in Sent : out[k].byte \in 0..255
    <3>1. out \in Seq(Sending)
      BY DEF ClientInv, TypeOK
    <3>2. \A k \in Sent : out[k] \in Sending
      BY <3>1 DEF Sent
    <3> QED
      BY <3>2 DEF Sending
  <2>4. /\ \A k \in Sent : First(k)' <=> First(k)
        /\ First(m)' => Sent = {}
        /\ \A k \in Sent : ~Last(k)'
        /\ \A j, k \in Sent : Follows(j, k)' <=> Follows(j, k)
        /\ \A k \in Sent : ~Follows(m, k)'
        /\ \A j \in Sent : Follows(j, m)' => Last(j)
    BY <2>1, <2>2 DEF First, Last, Follows
  <2>5. /\ Sent = {} => i = 0
        /\ \A j \in Sent : Last(j) => out[j].byte = (IF i > 0 THEN i ELSE n) - 1
    <3>1. Reached = IF i > 0 THEN i ELSE n
      BY <1>1 DEF Reached, Batch
    <3>2. i > 0 => Sent # {}
      BY <1>1, <1>5 DEF LineInv, Batch
    <3>3. i = 0 \/ i > 0
      <4>1. i \in 0..255
        BY <1>1
      <4> HIDE DEF i
      <4> QED
        BY <4>1
    <3> QED
      BY <1>5, <3>1, <3>2, <3>3 DEF LineInv
  <2>6. \A k \in Sent' : out'[k].byte < shm'.size
    BY <1>1, <1>2, <2>1, <2>2 DEF LineInv
  <2>7. ASSUME NEW k \in Sent', First(k)' PROVE out'[k].byte = 0
    <3>1. CASE k \in Sent
      BY <2>2, <2>4, <2>7, <3>1 DEF LineInv
    <3>2. CASE k = m
      BY <1>2, <2>1, <2>4, <2>5, <2>7, <3>2
    <3> QED
      BY <2>2, <3>1, <3>2
  <2>8. ASSUME NEW j \in Sent', NEW k \in Sent', Follows(j, k)'
        PROVE  out'[k].byte = IF out'[j].byte = n - 1 THEN 0 ELSE out'[j].byte + 1
    <3>1. CASE j \in Sent /\ k \in Sent
      BY <2>2, <2>4, <2>8, <3>1 DEF LineInv
    <3>2. CASE j \in Sent /\ k = m
      <4> DEFINE b == out[j].byte
      <4>1. b = (IF i > 0 THEN i ELSE n) - 1 /\ b \in 0..255
        BY <2>3, <2>4, <2>5, <2>8, <3>2
      <4>2. out'[k].byte = i /\ out'[j].byte = b
        BY <1>2, <2>1, <2>2, <3>2
      <4>3. i \in 0..255 /\ n \in 0..255 /\ i < n
        BY <1>1
      <4> HIDE DEF b, i, n
      <4>4. i = IF b = n - 1 THEN 0 ELSE b + 1
        BY <4>1, <4>3
      <4> QED
        BY <4>2, <4>4
    <3>3. k \in Sent => j # m
      BY <2>4, <2>8
    <3>4. ~(j = m /\ k = m)
      BY <2>1, <2>8 DEF Follows
    <3> QED
      BY <2>2, <3>1, <3>2, <3>3, <3>4
  <2>9. /\ Sent' # {}
        /\ \A k \in Sent' : Last(k)' => out'[k].byte = Reached' - 1
    <3>1. Reached' - 1 = i
      <4>1. i \in 0..255 /\ sender'.i = i + 1 /\ sender'.pc = "batch"
        BY <1>1
      <4>2. \A x \in 0..255 : x + 1 > 0 /\ (x + 1) - 1 = x
        OBVIOUS
      <4> HIDE DEF i
      <4> QED
        BY <4>1, <4>2 DEF Reached, Batch
    <3> QED
      BY <1>2, <2>1, <2>2, <2>4, <3>1
  <2> HIDE DEF Sent, First, Last, Follows, Reached, e, i
  <2> QED
    BY <1>1, <1>3, <2>6, <2>7, <2>8, <2>9 DEF LineInv
<1>6. \/ out' = out /\ link' # "open"
      \/ out' = Append(out, e) /\ link = "open"
  BY DEF SenderSend, Send, AfterSend, ClientInv, TypeOK
<1> QED
  BY <1>4, <1>5, <1>6

LEMMA LineKeeps == ClientInv /\ LineInv /\ [Next]_vars => LineInv'
BY LineSteps, LineConnect, LineChat, LinePublish, LineJoined, LineWoken, LineNext,
   LineCopy, LineSend
DEF Next, Main, User, Sender, Receiver

LEMMA LineWhole == LineInv => WholeLines
<1> SUFFICES ASSUME LineInv, sender.pc \in {"cwait", "waiting", "woken"}, link = "open",
                    NEW k \in Sent, Last(k)
             PROVE  out[k].byte = shm.size - 1
  BY DEF LineInv, WholeLines
<1> QED
  BY DEF LineInv, Reached, Batch
-----------------------------------------------------------------------------
(* The turns. *)

LEMMA TurnInit == Init => TurnInv
BY DEF Init, TurnInv, PeerProtocol

\* A step that sends nothing.
LEMMA TurnKept ==
  ASSUME TurnInv, out' = out, quit' = quit,
         ~quit /\ link' = "open" =>
           /\ link = "open"
           /\ \/ main'.pc = "connect"
              \/ main.pc # "connect" /\ Expected(main'.pc) = Expected(main.pc)
           /\ main'.pc = "boc" => shm'.data.type = "BOC"
           /\ sender'.pc \in {"copy", "send"} =>
                shm'.data.type = "CEX" /\ shm'.data.id = sender'.i
  PROVE  TurnInv'
<1>1. LastType' = LastType /\ PeerProtocol'
  BY DEF LastType, PeerProtocol, TurnInv
<1> QED
  BY <1>1 DEF TurnInv

\* A packet sent in its turn.
LEMMA TurnSaid ==
  ASSUME TypeOK, TurnInv, NEW t \in Thread, NEW p \in Packet, Send(t, p), quit' = quit,
         ~quit /\ link = "open" => Turn(LastType, By(t, p))
  PROVE  /\ PeerProtocol'
         /\ link' = "open" => link = "open" /\ LastType' = p.type
<1> DEFINE e == By(t, p)
<1>1. e \in Sending /\ e.type = p.type
  BY ByType DEF By
<1>2. out \in Seq(Sending)
  BY DEF TypeOK
<1>3. CASE out' = out /\ link' # "open"
  BY <1>3 DEF TurnInv, PeerProtocol
<1>4. CASE out' = Append(out, e) /\ link = "open"
  <2> HIDE DEF e
  <2>1. /\ Len(out) \in Nat /\ Len(out') = Len(out) + 1 /\ out'[Len(out) + 1] = e
        /\ \A k \in 1..Len(out) : out'[k] = out[k]
        /\ Len(out) = 0 <=> out = <<>>
    BY <1>1, <1>2, <1>4
  <2>2. LastType' = p.type
    BY <1>1, <2>1 DEF LastType
  <2>3. ASSUME ~quit, NEW k \in 1..(Len(out) + 1)
        PROVE  Turn(IF k = 1 THEN "none" ELSE out'[k - 1].type, out'[k])
    <3>1. CASE k \in 1..Len(out)
      <4>1. Turn(IF k = 1 THEN "none" ELSE out[k - 1].type, out[k])
        BY <2>3, <3>1 DEF TurnInv, PeerProtocol
      <4>2. out'[k] = out[k] /\ (k # 1 => out'[k - 1] = out[k - 1])
        BY <2>1, <3>1
      <4> QED
        BY <4>1, <4>2
    <3>2. CASE k = Len(out) + 1
      <4>1. Turn(LastType, e)
        BY <1>4, <2>3 DEF e
      <4>2. (IF k = 1 THEN "none" ELSE out'[k - 1].type) = LastType
        BY <2>1, <3>2 DEF LastType
      <4> QED
        BY <2>1, <3>2, <4>1, <4>2
    <3> QED
      BY <2>1, <3>1, <3>2
  <2> QED
    BY <1>4, <2>1, <2>2, <2>3 DEF PeerProtocol
<1>5. \/ out' = out /\ link' # "open"
      \/ out' = Append(out, e) /\ link = "open"
  BY DEF Send, AfterSend, TypeOK
<1> QED
  BY <1>3, <1>4, <1>5

\* While main is before the loop of the chat the sender has nothing to send.
LEMMA SenderIdle ==
  ASSUME ClientInv, main.pc \in Alone \cup {"begin", "boc"}
  PROVE  sender.pc \notin {"copy", "send"}
<1>1. CASE main.pc \in Alone
  BY <1>1 DEF ClientInv, PhaseInv
<1>2. CASE main.pc \in {"begin", "boc"}
  <2> DEFINE i == sender.i
  <2>1. i \in 0..255 /\ (sender.pc \in {"copy", "send"} => i < 0)
    BY <1>2 DEF ClientInv, CloseInv, TypeOK
  <2> HIDE DEF i
  <2> QED
    BY <2>1
<1> QED
  BY <1>1, <1>2

\* main sends in its turn.
LEMMA TurnMainSays ==
  ASSUME ClientInv, TurnInv,
         SendCon \/ ReadName \/ GiveName \/ SendName \/ SendBoc \/ SendEoc
  PROVE  TurnInv'
<1>1. /\ TypeOK /\ shm.data \in Packet /\ Typed("name") \in Packet
      /\ [shm.data EXCEPT !.type = "CON"] \in Packet
      /\ [shm.data EXCEPT !.type = "GET"] \in Packet
      /\ "main" \in Thread /\ Typed("name").type = "name"
      /\ main \in [pc : MainPc, size : 0..255, line : Nat]
  <2>1. TypeOK /\ main \in [pc : MainPc, size : 0..255, line : Nat] /\ shm.data \in Packet
    BY DEF ClientInv, TypeOK, Shared_memory
  <2>2. /\ [shm.data EXCEPT !.type = "CON"] \in Packet
        /\ [shm.data EXCEPT !.type = "GET"] \in Packet
    BY <2>1 DEF Packet, Data_type
  <2>3. "main" \in Thread /\ Typed("name") \in Packet /\ Typed("name").type = "name"
    BY TypedType DEF Thread, Typed, Zero
  <2> QED
    BY <2>1, <2>2, <2>3
<1>2. sender' = sender /\ quit' = quit
  BY DEF SendCon, ReadName, GiveName, SendName, SendBoc, SendEoc, quietVars, userVars
<1>3. ASSUME NEW p \in Packet, Send("main", p),
             main.pc \in Alone \cup {"begin", "boc"}, main'.pc \notin {"boc", "connect"},
             ~quit /\ link = "open" => Turn(LastType, By("main", p)),
             p.type \in Expected(main'.pc)
      PROVE  TurnInv'
  <2>1. sender'.pc \notin {"copy", "send"}
    BY <1>2, <1>3, SenderIdle
  <2>2. /\ PeerProtocol'
        /\ link' = "open" => link = "open" /\ LastType' = p.type
    BY <1>1, <1>2, <1>3, TurnSaid
  <2> QED
    BY <1>3, <2>1, <2>2 DEF TurnInv
<1>4. ~quit /\ link = "open" => LastType \in Expected(main.pc) \/ main.pc = "connect"
  BY DEF TurnInv
<1>5. CASE SendCon
  <2> DEFINE p == [shm.data EXCEPT !.type = "CON"]
  <2>1. /\ Send("main", p) /\ main.pc = "auth" /\ main'.pc = "name" /\ p.type = "CON"
    BY <1>1, <1>5 DEF SendCon, At, Go, Packet
  <2>2. ~quit /\ link = "open" => Turn(LastType, By("main", p))
    BY <1>4, <2>1 DEF Expected, Turn, By
  <2>3. p \in Packet /\ p.type \in Expected(main'.pc) /\ main.pc \in Alone
    BY <1>1, <2>1 DEF Expected, Alone
  <2> HIDE DEF p
  <2> QED
    BY <1>3, <2>1, <2>2, <2>3
<1>6. CASE ReadName
  <2> DEFINE p == Typed("name")
  <2>1. Send("main", p) /\ main.pc = "name" /\ main'.pc = "dest"
    BY <1>1, <1>6 DEF ReadName, At, Go
  <2>2. ~quit /\ link = "open" => Turn(LastType, By("main", p))
    BY <1>1, <1>4, <2>1 DEF Expected, Turn, By
  <2> QED
    BY <1>1, <1>3, <2>1, <2>2 DEF Expected, Alone
<1>7. CASE GiveName
  <2> DEFINE p == [shm.data EXCEPT !.type = "GET"]
  <2>1. Send("main", p) /\ main.pc = "dest" /\ main'.pc = "query" /\ p.type = "GET"
    BY <1>1, <1>7 DEF GiveName, At, Go, Packet
  <2>2. ~quit /\ link = "open" => Turn(LastType, By("main", p))
    BY <1>4, <2>1 DEF Expected, Turn, By
  <2>3. p \in Packet /\ p.type \in Expected(main'.pc) /\ main.pc \in Alone
    BY <1>1, <2>1 DEF Expected, Alone
  <2> HIDE DEF p
  <2> QED
    BY <1>3, <2>1, <2>2, <2>3
<1>8. CASE SendName
  <2> DEFINE p == Typed("name")
  <2>1. Send("main", p) /\ main.pc = "query" /\ main'.pc = "answer"
    BY <1>1, <1>8 DEF SendName, At, Go
  <2>2. ~quit /\ link = "open" => Turn(LastType, By("main", p))
    BY <1>1, <1>4, <2>1 DEF Expected, Turn, By
  <2> QED
    BY <1>1, <1>3, <2>1, <2>2 DEF Expected, Alone
<1>9. CASE SendBoc
  <2> DEFINE p == shm.data
  <2>1. Send("main", p) /\ main.pc = "boc" /\ main'.pc = "enter"
    BY <1>1, <1>9 DEF SendBoc, At, Go
  <2>2. ~quit /\ link = "open" => p.type = "BOC"
    BY <2>1 DEF TurnInv
  <2>3. ~quit /\ link = "open" => Turn(LastType, By("main", p))
    BY <1>4, <2>1, <2>2 DEF Expected, Turn, By
  <2>4. /\ PeerProtocol'
        /\ link' = "open" => link = "open" /\ LastType' = p.type
    BY <1>1, <1>2, <2>1, <2>3, TurnSaid
  <2>5. sender'.pc \notin {"copy", "send"}
    BY <1>2, <2>1, SenderIdle
  <2> QED
    BY <1>2, <2>1, <2>2, <2>4, <2>5 DEF TurnInv, Expected
<1>10. CASE SendEoc
  <2>1. Send("main", shm.data) /\ main.pc = "eoc"
    BY <1>10 DEF SendEoc, At
  <2>2. ~quit => link = "none"
    BY <2>1 DEF ClientInv, PhaseInv
  <2>3. ~quit => link' = "none" /\ out' = out
    BY <2>1, <2>2 DEF Send
  <2> QED
    BY <1>2, <2>3 DEF TurnInv, PeerProtocol
<1> QED
  BY <1>5, <1>6, <1>7, <1>8, <1>9, <1>10

LEMMA TurnSenderSays == ClientInv /\ LineInv /\ TurnInv /\ SenderSend => TurnInv'
<1> SUFFICES ASSUME ClientInv, LineInv, TurnInv, SenderSend PROVE TurnInv'
  OBVIOUS
<1> DEFINE p == shm.data
<1>1. /\ TypeOK /\ p \in Packet /\ "sender" \in Thread
      /\ sender.pc = "send" /\ sender'.pc = "batch" /\ Send("sender", p)
      /\ quit' = quit /\ main' = main /\ shm' = shm
  BY DEF SenderSend, ClientInv, TypeOK, Shared_memory, Thread, quietVars, userVars
<1>2. /\ main.pc \notin Alone \cup {"begin", "boc"}
      /\ Expected(main.pc) = {"BOC", "CEX"}
  <2>1. main.pc \notin Alone \cup {"begin", "boc"}
    BY <1>1, SenderIdle
  <2> QED
    BY <2>1 DEF Alone, Expected
<1>3. ~quit /\ link = "open" =>
        p.type = "CEX" /\ p.id = p.byte /\ LastType \in {"BOC", "CEX"}
  BY <1>1, <1>2 DEF TurnInv, LineInv, Alone
<1>4. ~quit /\ link = "open" => Turn(LastType, By("sender", p))
  BY <1>3 DEF Turn, By
<1> HIDE DEF p
<1>5. /\ PeerProtocol'
      /\ link' = "open" => link = "open" /\ LastType' = p.type
  BY <1>1, <1>4, TurnSaid
<1> QED
  BY <1>1, <1>2, <1>3, <1>5 DEF TurnInv

\* Nothing is sent, nothing prepared.
LEMMA TurnQuiet ==
  ASSUME TurnInv, out' = out, quit' = quit, link' = "open" => link = "open",
         shm'.data = shm.data, sender'.i = sender.i,
         sender'.pc \in {"copy", "send"} => sender.pc \in {"copy", "send"},
         \/ main'.pc \in {main.pc, "connect"}
         \/ /\ main.pc # "connect" /\ main'.pc # "boc"
            /\ Expected(main'.pc) = Expected(main.pc)
  PROVE  TurnInv'
<1>1. PeerProtocol'
  BY DEF PeerProtocol, TurnInv
<1>2. LastType' = LastType
  BY DEF LastType
<1>3. ASSUME ~quit, link' = "open", main'.pc # "connect"
      PROVE  LastType \in Expected(main'.pc)
  BY <1>3 DEF TurnInv
<1>4. ASSUME ~quit, link' = "open"
      PROVE  /\ main'.pc = "boc" => shm'.data.type = "BOC"
             /\ sender'.pc \in {"copy", "send"} =>
                  shm'.data.type = "CEX" /\ shm'.data.id = sender'.i
  BY <1>4 DEF TurnInv
<1> HIDE DEF LastType, Expected, PeerProtocol
<1> QED
  BY <1>1, <1>2, <1>3, <1>4 DEF TurnInv

\* What the sender prepares is an exchange with the index of its character.
LEMMA TurnPrepares ==
  ClientInv /\ TurnInv /\ (SenderNext \/ SenderCopy) => TurnInv'
<1> SUFFICES ASSUME ClientInv, TurnInv, SenderNext \/ SenderCopy PROVE TurnInv'
  OBVIOUS
<1>1. /\ shm \in Shared_memory /\ shm.data \in Packet
      /\ sender \in [pc : SenderPc, i : 0..255]
      /\ out' = out /\ quit' = quit /\ link' = link /\ main' = main
  BY DEF SenderNext, SenderCopy, ClientInv, TypeOK, Shared_memory, quietVars, userVars,
         netVars
<1>2. CASE SenderNext /\ More
  <2>1. sender'.i = sender.i /\ sender'.pc = "copy" /\ sender.pc = "batch"
    BY <1>1, <1>2 DEF SenderNext
  <2>2. shm' = [shm EXCEPT !.data.id = sender.i, !.data.type = "CEX"]
    BY <1>2 DEF SenderNext
  <2>3. shm'.data.type = "CEX" /\ shm'.data.id = sender'.i
    BY <1>1, <2>1, <2>2 DEF Shared_memory, Packet
  <2>4. main.pc # "boc"
    <3> DEFINE i == sender.i
               n == shm.size
    <3>1. i \in 0..255 /\ i < n /\ (main.pc = "boc" => n = 0)
      BY <1>1, <1>2 DEF More, ClientInv, CloseInv
    <3> HIDE DEF i, n
    <3> QED
      BY <3>1
  <2> QED
    BY <1>1, <2>3, <2>4, TurnKept DEF TurnInv
<1>3. CASE SenderNext /\ ~More
  <2>1. shm' = shm /\ sender'.pc = "test"
    BY <1>3 DEF SenderNext
  <2> QED
    BY <1>1, <2>1, TurnKept DEF TurnInv
<1>4. CASE SenderCopy
  <2>1. sender'.i = sender.i /\ sender'.pc = "send" /\ sender.pc = "copy"
    BY <1>1, <1>4 DEF SenderCopy, Sends
  <2>2. shm' = [shm EXCEPT !.data.byte = sender.i, !.data.line = shm.line]
    BY <1>4 DEF SenderCopy
  <2>3. shm'.data.type = shm.data.type /\ shm'.data.id = shm.data.id
    BY <1>1, <2>2 DEF Shared_memory, Packet
  <2>4. main.pc # "boc"
    BY <2>1, SenderIdle
  <2> QED
    BY <1>1, <2>1, <2>3, <2>4, TurnKept DEF TurnInv
<1> QED
  BY <1>2, <1>3, <1>4

\* main goes on without sending.
LEMMA TurnMainGoes ==
  ASSUME ClientInv, TurnInv,
         \/ Connect \/ GiveAddress \/ ReadAnswer \/ NoDestination \/ Choose \/ Chat
         \/ Begin \/ Enter \/ TypeLine \/ ReadNothing \/ Quit \/ Broadcast \/ Publish
         \/ Stamp \/ Unlock \/ JoinSender \/ JoinReceiver
  PROVE  TurnInv'
<1>1. /\ shm \in Shared_memory /\ shm.data \in Packet
      /\ main \in [pc : MainPc, size : 0..255, line : Nat]
      /\ sender \in [pc : SenderPc, i : 0..255]
  BY DEF ClientInv, TypeOK, Shared_memory
<1>2. CASE Quit
  BY <1>2 DEF Quit, TurnInv, PeerProtocol
<1>3. CASE Connect
  <2>1. CASE UNCHANGED <<main, shm, mutex, netVars>>
    BY <1>3, <2>1, TurnQuiet DEF Connect, quietVars, userVars, netVars
  <2>2. CASE Go("auth") /\ out' = <<>>
    <3>1. main'.pc = "auth" /\ sender' = sender /\ sender.pc = "none"
      BY <1>1, <1>3, <2>2 DEF Connect, Go, At, ClientInv, PhaseInv, Alone
    <3>2. PeerProtocol' /\ LastType' = "none"
      BY <2>2 DEF PeerProtocol, LastType
    <3> QED
      BY <3>1, <3>2 DEF TurnInv, Expected
  <2> QED
    BY <1>3, <2>1, <2>2 DEF Connect
<1>4. CASE GiveAddress \/ ReadAnswer \/ NoDestination \/ Choose
  <2>1. /\ out' = out /\ link' = link /\ sender' = sender
        /\ main.pc \in {"dest", "answer", "menu"}
        /\ quit' = quit
    BY <1>4 DEF GiveAddress, ReadAnswer, NoDestination, Choose, At, quietVars, userVars,
                netVars
  <2>2. main'.pc \in {"dest", "answer", "menu", "chat", "connect"}
    BY <1>1, <1>4, <2>1 DEF GiveAddress, ReadAnswer, NoDestination, Choose, Go
  <2>3. sender'.pc \notin {"copy", "send"}
    BY <2>1, SenderIdle DEF Alone
  <2> QED
    BY <2>1, <2>2, <2>3, TurnKept DEF Expected
<1>5. CASE Chat \/ Begin
  <2>1. /\ out' = out /\ link' = link /\ quit' = quit
        /\ \/ main.pc = "chat" /\ main'.pc = "begin"
           \/ main.pc = "begin" /\ main'.pc = "boc"
    BY <1>1, <1>5 DEF Chat, Begin, At, Go, quietVars, userVars, netVars
  <2>2. sender'.pc \notin {"copy", "send"}
    BY <1>5, SenderIdle DEF Chat, Begin, At
  <2>3. main'.pc = "boc" => shm'.data.type = "BOC"
    <3> SUFFICES ASSUME main'.pc = "boc" PROVE shm'.data.type = "BOC"
      OBVIOUS
    <3>1. shm' = [shm EXCEPT !.state = "CHAT", !.data.type = "BOC"]
      BY <1>1, <1>5 DEF Chat, Begin, At, Go
    <3>2. shm'.data = [shm.data EXCEPT !.type = "BOC"]
      BY <1>1, <3>1 DEF Shared_memory
    <3> QED
      BY <1>1, <3>2 DEF Packet
  <2> QED
    BY <2>1, <2>2, <2>3, TurnKept DEF Expected
<1>6. CASE Stamp
  <2>1. ~quit => link = "none"
    BY <1>6 DEF Stamp, At, ClientInv, PhaseInv
  <2>2. out' = out /\ quit' = quit /\ link' = link
    BY <1>6 DEF Stamp, quietVars, userVars, netVars
  <2> QED
    BY <2>1, <2>2 DEF TurnInv, PeerProtocol
<1>7. CASE JoinReceiver
  <2>1. /\ out' = out /\ quit' = quit /\ link' = link /\ shm' = shm
        /\ main'.pc = "connect" /\ sender'.pc = "none"
    BY <1>1, <1>7 DEF JoinReceiver, Go, userVars, netVars
  <2> QED
    BY <2>1, TurnKept
<1>8. CASE Enter \/ TypeLine \/ ReadNothing \/ Broadcast \/ Publish \/ Unlock \/ JoinSender
  <2>1. out' = out /\ quit' = quit /\ link' = link /\ shm'.data = shm.data
    BY <1>1, <1>8 DEF Enter, TypeLine, ReadNothing, Broadcast, Publish, Unlock,
       JoinSender, quietVars, userVars, netVars, Shared_memory
  <2>2. /\ sender'.i = sender.i
        /\ sender'.pc \in {"copy", "send"} => sender.pc \in {"copy", "send"}
    BY <1>1, <1>8 DEF Enter, TypeLine, ReadNothing, Broadcast, Publish, Unlock,
       JoinSender, csignal, cbroadcast
  <2>3. /\ main.pc \in {"enter", "input", "broadcast", "publish", "unlock", "joinSender"}
        /\ main'.pc \in {"input", "stamp", "publish", "joinSender", "joinReceiver"}
    BY <1>1, <1>8 DEF Enter, TypeLine, ReadNothing, Broadcast, Publish, Unlock,
       JoinSender, LoopTest, At, Go
  <2>4. Expected(main'.pc) = Expected(main.pc)
    BY <2>3 DEF Expected
  <2> QED
    BY <2>1, <2>2, <2>3, <2>4, TurnQuiet
<1> QED
  BY <1>2, <1>3, <1>4, <1>5, <1>6, <1>7, <1>8

\* The threads and the environment send nothing else.
LEMMA TurnOthers ==
  ASSUME ClientInv, TurnInv,
         \/ SenderLock \/ SenderTest \/ SenderWait \/ SenderWoken \/ SenderUnlock
         \/ ReceiverTest \/ ReceiverRecv \/ Handle
         \/ SpuriousWakeup \/ ProxySends \/ ProxyCloses \/ UNCHANGED vars
  PROVE  TurnInv'
<1>1. /\ shm \in Shared_memory /\ shm.data \in Packet
      /\ sender \in [pc : SenderPc, i : 0..255]
      /\ receiver.received = Zero
  BY DEF ClientInv, TypeOK, Shared_memory, CloseInv
<1>2. CASE SenderWoken
  <2>1. /\ out' = out /\ quit' = quit /\ link' = link /\ main' = main
        /\ shm'.data = shm.data /\ sender'.pc \in {"batch", "unlock"}
    BY <1>1, <1>2 DEF SenderWoken, quietVars, userVars, netVars, Shared_memory
  <2> QED
    BY <2>1, TurnKept DEF TurnInv
<1>3. CASE Handle
  <2>1. /\ out' = out /\ quit' = quit /\ link' = "none"
    BY <1>1, <1>3 DEF Handle, HandleReceived, Zero, userVars
  <2> QED
    BY <2>1 DEF TurnInv, PeerProtocol
<1>4. CASE ~SenderWoken /\ ~Handle
  <2>1. /\ out' = out /\ quit' = quit /\ (link' = "open" => link = "open")
        /\ shm' = shm /\ main' = main
    BY <1>4 DEF SenderLock, SenderTest, SenderWait, SenderUnlock, ReceiverTest,
       ReceiverRecv, SpuriousWakeup, ProxySends, Arrives, ProxyCloses, vars, quietVars,
       userVars, netVars
  <2>2. /\ sender'.i = sender.i
        /\ sender'.pc \in {"copy", "send"} => sender.pc \in {"copy", "send"}
    BY <1>1, <1>4 DEF SenderLock, SenderTest, SenderWait, SenderUnlock, ReceiverTest,
       ReceiverRecv, SpuriousWakeup, ProxySends, Arrives, ProxyCloses, vars, Sends
  <2> QED
    BY <2>1, <2>2, TurnQuiet
<1> QED
  BY <1>2, <1>3, <1>4

LEMMA TurnKeeps == ClientInv /\ LineInv /\ TurnInv /\ [Next]_vars => TurnInv'
BY TurnMainSays, TurnSenderSays, TurnPrepares, TurnMainGoes, TurnOthers
DEF Next, Main, User, Sender, Receiver

-----------------------------------------------------------------------------
\* What the sender has sent and what main has said stay in step with where the
\* two threads are (ChatInv).
THEOREM ChatInvariance == Spec => []ChatInv
<1>1. Init => LineInv /\ TurnInv
  BY LineInit, TurnInit
<1>2. ChatInv /\ ClientInv' /\ [Next]_vars => ChatInv'
  BY LineKeeps, TurnKeeps DEF ChatInv
<1>3. Init /\ ClientInv => ChatInv
  BY <1>1 DEF ChatInv
<1> QED BY Invariance, <1>2, <1>3, PTL DEF Spec

\* Every message reaches the socket character after character from the first to
\* the last, whatever main publishes while it is being sent (WholeLines).
THEOREM LinesWhole == Spec => []WholeLines
<1>1. ChatInv => WholeLines
  BY LineWhole DEF ChatInv
<1> QED BY ChatInvariance, <1>1, PTL

\* The proxy gets the packets of a client in the order it expects, until a /q is
\* recognised (PeerProtocol).
THEOREM KeepsProtocol == Spec => []PeerProtocol
<1>1. ChatInv => PeerProtocol
  BY DEF ChatInv, TurnInv
<1> QED BY ChatInvariance, <1>1, PTL
=============================================================================
