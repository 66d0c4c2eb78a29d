------------------------- MODULE TcpCsServerProofs -------------------------
(***************************************************************************)
(* Proofs about TcpCsServer for any set of connections and any values of   *)
(* the bounds: type correctness, the meaning of single_client, the action  *)
(* property of its registrations and the refinement of ClientSlot.         *)
(*                                                                         *)
(* The argument has three layers, the conjuncts of IInv: a connection is   *)
(* in one place before its handler starts; nobody has a pointer to it      *)
(* before the handler registers it; and the handler leaves its loop for a  *)
(* reason that stays, so the tests behind the loop miss no registration.   *)
(***************************************************************************)
EXTENDS TcpCsServer, SequenceTheorems, FiniteSetTheorems, TLAPS

\* The backlog holds each connection once and before its handler exists; a
\* connection that a peer has not made is nowhere.
BacklogInv ==
  /\ \A i \in 1..Len(backlog):
       /\ peer[backlog[i]] # "none"
       /\ pc[backlog[i]] = "idle"
       /\ backlog[i] # acc_new
       /\ \A j \in 1..Len(backlog): backlog[i] = backlog[j] => i = j
  /\ acc_new # NULL => pc[acc_new] = "idle" /\ peer[acc_new] # "none"
  /\ \A c \in Clients: peer[c] = "none" => pc[c] = "idle"

\* Before a handler registers its connection nobody else has a pointer to it.
Fresh(c) == pc[c] \in {"idle"} \cup EntryPcs

FreshInv ==
  \A c \in Clients:
    /\ Fresh(c) => /\ single_client # c
                   /\ main_ptr # c
                   /\ ~shut[c]
                   /\ \A d \in Clients: ptr[d] # c
    /\ pc[c] \in EntryPcs \/ acc_new = c => binded[c]

\* A handler leaves its loop because the server stopped or because its client
\* is not connected, and both are for good.
ServedInv ==
  /\ RegisteredIsServed
  /\ \A c \in Clients:
       /\ pc[c] = "left" => ~bserver \/ ~IsConnecteed(c)
       /\ pc[c] = "down" /\ single_client = c => ~bserver

IInv == TypeOK /\ BacklogInv /\ FreshInv /\ ServedInv

-----------------------------------------------------------------------------
(* Type correctness *)

\* The labels a thread may be sent to are labels of its type.
LEMMA Labels ==
  /\ EntryPcs \subseteq HandlerPcs
  /\ ServePcs \subseteq HandlerPcs
  /\ ExitPcs \subseteq HandlerPcs
  /\ {"done", "idle"} \subseteq HandlerPcs
  /\ {"segv", "sigpipe", "terminate", "up"} \subseteq ProcStates
  BY DEF HandlerPcs, ProcStates

\* The state start_server leaves is well typed.
LEMMA InitTypeOK == Init => TypeOK
<1>. SUFFICES ASSUME Init PROVE TypeOK
  OBVIOUS
<1>. USE DEF Init
<1>1. fds \in FdBase..FdLimit
  BY FdAssumption
<1>2. rx \in [Clients -> 0..MaxRx]
  BY MaxRxAssumption
<1>3. pc \in [Clients -> HandlerPcs] /\ proc \in ProcStates
  BY Labels
<1>4. main_pc \in MainPcs /\ acc_pc \in AcceptorPcs
  BY DEF MainPcs, AcceptorPcs
<1>5. peer \in [Clients -> {"none", "open", "fin", "reset"}]
  OBVIOUS
<1>6. backlog \in Seq(Clients)
  OBVIOUS
<1>7. binded \in [Clients -> BOOLEAN] /\ shut \in [Clients -> BOOLEAN]
  OBVIOUS
<1>8. ptr \in [Clients -> Slot]
  BY DEF Slot
<1>. QED  BY <1>1, <1>2, <1>3, <1>4, <1>5, <1>6, <1>7, <1>8 DEF TypeOK, Slot

\* A peer keeps the types: rx stays within MaxRx.
LEMMA PeerTypeOK ==
  ASSUME TypeOK, NEW c \in Clients, Peer(c)
  PROVE  TypeOK'
<1>. USE DEF TypeOK, Peer, handVars, objVars, accVars, mainVars, srvVars
<1>1. CASE PeerConnect(c)
  BY <1>1 DEF PeerConnect
<1>2. CASE PeerSend(c)
  BY <1>2, MaxRxAssumption DEF PeerSend
<1>3. CASE PeerHangUp(c)
  BY <1>3 DEF PeerHangUp
<1>. QED  BY <1>1, <1>2, <1>3

\* ServerProc keeps the types: fds stays within FdLimit, and what accept()
\* takes from the backlog is a connection.
LEMMA AcceptorTypeOK ==
  ASSUME TypeOK, Acceptor
  PROVE  TypeOK'
<1>. DEFINE AcceptorType ==
       /\ proc \in ProcStates
       /\ backlog \in Seq(Clients)
       /\ binded \in [Clients -> BOOLEAN]
       /\ fds \in FdBase..FdLimit
       /\ acc_pc \in AcceptorPcs
       /\ acc_new \in Slot
       /\ pc \in [Clients -> HandlerPcs]
<1>. SUFFICES AcceptorType'
  BY DEF Acceptor, TypeOK, mainVars
<1>. USE FdAssumption DEF TypeOK, AcceptorPcs
<1>1. CASE AcceptorLoop
  BY <1>1, Labels DEF AcceptorLoop, NewObject, FdsPerObject
<1>2. CASE Accept
  <2>1. CASE backlog # <<>> /\ fds < FdLimit
    <3>1. Head(backlog) \in Clients /\ Tail(backlog) \in Seq(Clients)
      BY <2>1, HeadTailProperties
    <3>2. binded' \in [Clients -> BOOLEAN] /\ backlog' \in Seq(Clients)
      BY <1>2, <2>1, <3>1 DEF Accept
    <3>3. fds' \in FdBase..FdLimit /\ acc_new' \in Slot
      BY <1>2, <2>1, <3>1 DEF Accept, Slot
    <3>. QED  BY <1>2, <3>2, <3>3 DEF Accept
  <2>2. CASE backlog = <<>> \/ ~(fds < FdLimit)
    BY <1>2, <2>2 DEF Accept, Slot
  <2>. QED  BY <2>1, <2>2
<1>3. CASE Dispatch
  <2>1. pc' \in [Clients -> HandlerPcs]
    BY <1>3, Labels DEF Dispatch, EntryPcs, Slot
  <2>. QED  BY <1>3, <2>1, Labels DEF Dispatch, NewObject, FdsPerObject, Slot
<1>. QED  BY <1>1, <1>2, <1>3 DEF Acceptor
\* Moving a handler to one of its labels keeps pc well typed.
LEMMA AtType ==
  ASSUME TypeOK, NEW c \in Clients, NEW from, NEW to \in HandlerPcs,
         At(c, from, to)
  PROVE  pc' \in [Clients -> HandlerPcs]
  BY DEF TypeOK, At

\* What a handler step leaves of TypeOK to show.
HandlerType ==
  /\ proc \in ProcStates
  /\ single_client \in Slot
  /\ binded \in [Clients -> BOOLEAN]
  /\ shut \in [Clients -> BOOLEAN]
  /\ rx \in [Clients -> 0..MaxRx]
  /\ pc \in [Clients -> HandlerPcs]
  /\ ptr \in [Clients -> Slot]

\* A test keeps the types.
LEMMA TestType ==
  ASSUME TypeOK, NEW c \in Clients, NEW from, NEW to \in HandlerPcs,
         Test(c, from, to)
  PROVE  HandlerType'
  BY AtType DEF TypeOK, Test, HandlerType, objVars

\* Resetting the slot keeps the types.
LEMMA ClearType ==
  ASSUME TypeOK, NEW c \in Clients, NEW from, NEW to \in HandlerPcs,
         Clear(c, from, to)
  PROVE  HandlerType'
  BY AtType DEF TypeOK, Clear, HandlerType, objVars, Slot

\* call_back keeps the types: recv() takes no more than there is, and only a
\* pointer that is not null is registered.
LEMMA HandlerTypeOK ==
  ASSUME TypeOK, NEW c \in Clients, Handler(c)
  PROVE  TypeOK'
<1>. USE DEF EntryPcs, ServePcs, ExitPcs
<1>. SUFFICES HandlerType'
  BY DEF Handler, HandlerType, TypeOK, srvVars, accVars, mainVars
<1>1. CASE Entry(c)
  <2>1. pc' \in [Clients -> HandlerPcs]
    BY <1>1, AtType, Labels DEF Entry
  <2>. QED  BY <1>1, <2>1 DEF Entry, TypeOK, objVars, HandlerType
<1>2. CASE Probe(c)
  <2>1. PICK q \in Reread(ptr[c]):
          \/ /\ q # NULL
             /\ Test(c, "probe", IF IsConnecteed(q) THEN "evict" ELSE "register")
          \/ /\ proc' = "segv"
             /\ UNCHANGED <<single_client, objVars, rx, handVars>>
    BY <1>2 DEF Probe
  <2>2. CASE proc' = "segv" /\ UNCHANGED <<single_client, objVars, rx, handVars>>
    BY <2>2, Labels DEF TypeOK, HandlerType, objVars, handVars
  <2>. QED  BY <2>1, <2>2, Labels, TestType
<1>3. CASE Evict(c)
  <2>1. pc' \in [Clients -> HandlerPcs]
    BY <1>3, AtType, Labels DEF Evict
  <2>2. binded' \in [Clients -> BOOLEAN] /\ proc' \in ProcStates
    BY <1>3, Labels DEF Evict, Unbind, TypeOK
  <2>. QED  BY <1>3, <2>1, <2>2 DEF Evict, TypeOK, HandlerType, objVars
<1>4. CASE EvictClose(c)
  <2>1. pc' \in [Clients -> HandlerPcs]
    BY <1>4, AtType, Labels DEF EvictClose
  <2>. QED  BY <1>4, <2>1 DEF EvictClose, Shutdown, TypeOK, HandlerType
<1>5. CASE Register(c)
  <2>1. pc' \in [Clients -> HandlerPcs]
    BY <1>5, AtType, Labels DEF Register
  <2>. QED  BY <1>5, <2>1 DEF Register, TypeOK, HandlerType, objVars, Slot
<1>6. CASE Loop(c) \/ Receive(c) \/ Eof(c) \/ Left(c) \/ Down(c) \/ ExitCheck(c)
  BY <1>6, TestType, Labels DEF Loop, Receive, Eof, Left, Down, ExitCheck
<1>7. CASE Recv(c)
  <2>1. CASE Test(c, "recv", "eof")
    BY <2>1, TestType, Labels
  <2>2. CASE /\ At(c, "recv", "loop")
             /\ \E n \in 1..rx[c]: rx' = [rx EXCEPT ![c] = @ - n]
             /\ UNCHANGED <<proc, single_client, objVars, ptr>>
    <3>1. pc' \in [Clients -> HandlerPcs]
      BY <2>2, AtType, Labels
    <3>2. rx' \in [Clients -> 0..MaxRx]
      BY <2>2, MaxRxAssumption DEF TypeOK
    <3>. QED  BY <2>2, <3>1, <3>2 DEF TypeOK, HandlerType, objVars
  <2>. QED  BY <1>7, <2>1, <2>2 DEF Recv
<1>8. CASE EofClear(c) \/ LeftClear(c) \/ DownClear(c)
  BY <1>8, ClearType, Labels DEF EofClear, LeftClear, DownClear
<1>9. CASE ExitStop(c)
  <2>1. pc' \in [Clients -> HandlerPcs]
    BY <1>9, AtType, Labels DEF ExitStop
  <2>2. binded' \in [Clients -> BOOLEAN] /\ proc' \in ProcStates
    BY <1>9, Labels DEF ExitStop, Unbind, TypeOK
  <2>. QED  BY <1>9, <2>1, <2>2 DEF ExitStop, TypeOK, HandlerType
<1>10. CASE ExitClose(c)
  <2>1. pc' \in [Clients -> HandlerPcs]
    BY <1>10, AtType, Labels DEF ExitClose
  <2>. QED  BY <1>10, <2>1 DEF ExitClose, Shutdown, TypeOK, HandlerType
<1>. QED  BY <1>1, <1>2, <1>3, <1>4, <1>5, <1>6, <1>7, <1>8, <1>9, <1>10
          DEF Handler
\* The main loop and stop_server keep the types.
LEMMA MainTypeOK ==
  ASSUME TypeOK, Main \/ StopServer
  PROVE  TypeOK'
<1>. USE DEF Slot, MainPcs, ProcStates, TypeOK, Main, MainAt, Unbind, Shutdown, Reread, handVars, objVars,
             accVars, mainVars, srvVars
<1>1. CASE MainPoll /\ Main
  BY <1>1 DEF MainPoll
<1>2. CASE MainProbe /\ Main
  BY <1>2 DEF MainProbe
<1>3. CASE MainSend /\ Main
  BY <1>3 DEF MainSend
<1>4. CASE MainSyscall /\ Main
  BY <1>4 DEF MainSyscall
<1>5. CASE MainCatch /\ Main
  BY <1>5 DEF MainCatch
<1>6. CASE MainStop /\ Main
  BY <1>6 DEF MainStop
<1>7. CASE MainClose /\ Main
  BY <1>7 DEF MainClose
<1>8. CASE MainClear /\ Main
  BY <1>8 DEF MainClear
<1>9. CASE StopOff /\ Main
  BY <1>9 DEF StopOff
<1>10. CASE StopShut /\ Main
  BY <1>10 DEF StopShut
<1>11. CASE StopServer
  BY <1>11 DEF StopServer
<1>. QED  BY <1>1, <1>2, <1>3, <1>4, <1>5, <1>6, <1>7, <1>8, <1>9, <1>10,
             <1>11

\* Every step keeps the types.
LEMMA NextTypeOK == TypeOK /\ [Next]_vars => TypeOK'
<1>. SUFFICES ASSUME TypeOK, [Next]_vars PROVE TypeOK'
  OBVIOUS
<1>1. CASE Next
  BY <1>1, PeerTypeOK, AcceptorTypeOK, HandlerTypeOK, MainTypeOK DEF Next
<1>2. CASE UNCHANGED vars
  BY <1>2 DEF TypeOK, vars, handVars, objVars, accVars, mainVars, srvVars
<1>. QED  BY <1>1, <1>2

\* Every reachable state has the types TypeOK states: no arithmetic on the data
\* of a socket or on the descriptors leaves its range.
THEOREM TypeCorrect == Spec => []TypeOK
  BY InitTypeOK, NextTypeOK, PTL DEF Spec
-----------------------------------------------------------------------------
(* What a handler step does to the program counters *)

\* Only the handler itself moves, it had begun and it does not become idle.
LEMMA HandlerMoves ==
  ASSUME TypeOK, NEW c \in Clients, Handler(c)
  PROVE  /\ pc[c] # "idle"
         /\ pc'[c] # "idle"
         /\ pc' \in [Clients -> HandlerPcs]
         /\ \A d \in Clients \ {c}: pc'[d] = pc[d]
<1>1. pc' \in [Clients -> HandlerPcs]
  BY HandlerTypeOK DEF TypeOK
<1>2. \A from, to: At(c, from, to) /\ to # "idle" /\ from # "idle" =>
        /\ pc[c] # "idle" /\ pc'[c] # "idle"
        /\ \A d \in Clients \ {c}: pc'[d] = pc[d]
  BY DEF At, TypeOK
<1>. USE <1>2 DEF Test, Clear
<1>3. CASE Entry(c)
  BY <1>1, <1>3 DEF Entry
<1>4. CASE Probe(c)
  BY <1>1, <1>4 DEF Probe, handVars
<1>5. CASE Evict(c) \/ EvictClose(c) \/ Register(c)
  BY <1>1, <1>5 DEF Evict, EvictClose, Register
<1>6. CASE Loop(c) \/ Receive(c) \/ Recv(c)
  BY <1>1, <1>6 DEF Loop, Receive, Recv
<1>7. CASE Eof(c) \/ EofClear(c) \/ Left(c) \/ LeftClear(c)
  BY <1>1, <1>7 DEF Eof, EofClear, Left, LeftClear
<1>8. CASE Down(c) \/ DownClear(c)
  BY <1>1, <1>8 DEF Down, DownClear
<1>9. CASE ExitCheck(c) \/ ExitStop(c) \/ ExitClose(c)
  BY <1>1, <1>9 DEF ExitCheck, ExitStop, ExitClose
<1>. QED  BY <1>3, <1>4, <1>5, <1>6, <1>7, <1>8, <1>9 DEF Handler

-----------------------------------------------------------------------------
(* The backlog and the accepted connection *)

\* A peer joins the backlog once, before anything else is known of it.
LEMMA PeerBacklog ==
  ASSUME TypeOK, BacklogInv, NEW c \in Clients, Peer(c)
  PROVE  BacklogInv'
<1>1. UNCHANGED <<pc, acc_new>>
  BY DEF Peer, handVars, accVars
<1>2. CASE PeerConnect(c)
  <2>1. /\ backlog' \in Seq(Clients)
        /\ Len(backlog') = Len(backlog) + 1
        /\ \A i \in 1..Len(backlog): backlog'[i] = backlog[i]
        /\ backlog'[Len(backlog) + 1] = c
    BY <1>2, AppendProperties DEF PeerConnect, TypeOK
  <2>2. peer' \in [Clients -> {"none", "open", "fin", "reset"}] /\ peer[c] = "none"
        /\ peer' = [peer EXCEPT ![c] = "open"]
    BY <1>2 DEF PeerConnect, TypeOK
  <2>3. pc[c] = "idle" /\ acc_new # c /\ \A i \in 1..Len(backlog): backlog[i] # c
    BY <2>2, NullAssumption DEF BacklogInv
  <2>4. \A i \in 1..Len(backlog): backlog[i] \in Clients
    BY ElementOfSeq DEF TypeOK
  <2>5. Len(backlog) \in Nat
    BY LenProperties DEF TypeOK
  <2>6. \A i \in 1..Len(backlog'): i \in 1..Len(backlog) \/ i = Len(backlog) + 1
    BY <2>1, <2>5
  <2>7. \A i \in 1..Len(backlog'):
          /\ peer'[backlog'[i]] # "none"
          /\ pc'[backlog'[i]] = "idle"
          /\ backlog'[i] # acc_new'
    <3>. SUFFICES ASSUME NEW i \in 1..Len(backlog')
                  PROVE  /\ peer'[backlog'[i]] # "none"
                         /\ pc'[backlog'[i]] = "idle"
                         /\ backlog'[i] # acc_new'
      OBVIOUS
    <3>1. CASE i \in 1..Len(backlog)
      <4>1. backlog'[i] = backlog[i] /\ backlog[i] \in Clients /\ backlog[i] # c
        BY <2>1, <2>3, <2>4, <3>1
      <4>2. peer'[backlog[i]] = peer[backlog[i]]
        BY <2>2, <4>1 DEF TypeOK
      <4>. QED  BY <1>1, <3>1, <4>1, <4>2 DEF BacklogInv
    <3>2. CASE i = Len(backlog) + 1
      BY <1>1, <2>1, <2>2, <2>3, <3>2 DEF TypeOK
    <3>. QED  BY <2>6, <3>1, <3>2
  <2>8. \A i, j \in 1..Len(backlog'): backlog'[i] = backlog'[j] => i = j
    BY <2>1, <2>3, <2>6 DEF BacklogInv
  <2>9. acc_new' # NULL => pc'[acc_new'] = "idle" /\ peer'[acc_new'] # "none"
    BY <1>1, <2>2 DEF BacklogInv, TypeOK, Slot
  <2>10. \A d \in Clients: peer'[d] = "none" => pc'[d] = "idle"
    BY <1>1, <2>2 DEF BacklogInv, TypeOK
  <2>. QED  BY <2>7, <2>8, <2>9, <2>10 DEF BacklogInv
<1>3. CASE PeerSend(c)
  BY <1>1, <1>3 DEF PeerSend, BacklogInv, srvVars
<1>4. CASE PeerHangUp(c)
  <2>1. UNCHANGED backlog /\ \A d \in Clients: peer'[d] = "none" <=> peer[d] = "none"
    BY <1>4 DEF PeerHangUp, TypeOK, srvVars
  <2>2. \A i \in 1..Len(backlog): backlog[i] \in Clients
    BY ElementOfSeq DEF TypeOK
  <2>. QED  BY <1>1, <2>1, <2>2 DEF BacklogInv, TypeOK, Slot
<1>. QED  BY <1>2, <1>3, <1>4 DEF Peer

\* A connection leaves the backlog for acc_new, and acc_new for its handler.
LEMMA AcceptorBacklog ==
  ASSUME TypeOK, BacklogInv, Acceptor
  PROVE  BacklogInv'
<1>1. UNCHANGED peer
  BY DEF Acceptor
<1>2. CASE AcceptorLoop
  BY <1>1, <1>2 DEF AcceptorLoop, BacklogInv
<1>3. CASE Accept
  <2>1. UNCHANGED pc
    BY <1>3 DEF Accept
  <2>2. CASE acc_new' = NULL /\ UNCHANGED backlog
    <3>1. \A i \in 1..Len(backlog): backlog[i] # NULL
      BY ElementOfSeq, NullAssumption DEF TypeOK
    <3>. QED  BY <1>1, <2>1, <2>2, <3>1 DEF BacklogInv
  <2>3. CASE /\ backlog # <<>>
             /\ acc_new' = Head(backlog)
             /\ backlog' = Tail(backlog)
    <3>1. /\ Len(backlog) \in Nat
          /\ Len(backlog') = Len(backlog) - 1
          /\ \A i \in 1..Len(backlog'): backlog'[i] = backlog[i + 1]
      BY <2>3, HeadTailProperties, LenProperties DEF TypeOK
    <3>2. acc_new' = backlog[1] /\ 1 \in 1..Len(backlog)
      BY <2>3, <3>1, EmptySeq DEF TypeOK
    <3>3. \A i \in 1..Len(backlog'): i + 1 \in 1..Len(backlog) /\ i + 1 # 1
      BY <3>1
    <3>. QED  BY <1>1, <2>1, <3>1, <3>2, <3>3 DEF BacklogInv
  <2>. QED  BY <1>3, <2>2, <2>3 DEF Accept
<1>4. CASE Dispatch
  <2>1. acc_new' = NULL /\ UNCHANGED backlog
    BY <1>4 DEF Dispatch
  <2>2. \A i \in 1..Len(backlog): backlog[i] \in Clients
    BY ElementOfSeq DEF TypeOK
  <2>3. \A d \in Clients: d # acc_new => pc'[d] = pc[d]
    BY <1>4 DEF Dispatch, TypeOK
  <2>4. \A d \in Clients: peer[d] = "none" => d # acc_new
    BY NullAssumption DEF BacklogInv
  <2>. QED  BY <1>1, <2>1, <2>2, <2>3, <2>4, NullAssumption DEF BacklogInv
<1>. QED  BY <1>2, <1>3, <1>4 DEF Acceptor

\* Handlers neither touch the backlog nor become idle.
LEMMA HandlerBacklog ==
  ASSUME TypeOK, BacklogInv, NEW c \in Clients, Handler(c)
  PROVE  BacklogInv'
<1>1. UNCHANGED <<backlog, acc_new, peer>>
  BY DEF Handler, srvVars, accVars
<1>2. \A i \in 1..Len(backlog): backlog[i] \in Clients
  BY ElementOfSeq DEF TypeOK
<1>. QED  BY <1>1, <1>2, HandlerMoves DEF BacklogInv, TypeOK, Slot

\* stop_server empties the backlog; nothing else of the sender matters to it.
LEMMA MainBacklog ==
  ASSUME TypeOK, BacklogInv, Main \/ StopServer
  PROVE  BacklogInv'
<1>1. UNCHANGED <<pc, acc_new>>
  BY DEF Main, StopServer, handVars, accVars
<1>2. CASE StopShut
  <2>1. backlog' = <<>> /\ \A d \in Clients: peer'[d] = "none" => peer[d] = "none"
    BY <1>2 DEF StopShut, TypeOK
  <2>. QED  BY <1>1, <2>1 DEF BacklogInv, TypeOK, Slot
<1>3. CASE UNCHANGED <<backlog, peer>>
  BY <1>1, <1>3 DEF BacklogInv
<1>. QED  BY <1>2, <1>3 DEF Main, StopServer, srvVars, MainPoll, MainProbe,
             MainSend, MainSyscall, MainCatch, MainStop, MainClose, MainClear,
             StopOff

-----------------------------------------------------------------------------
(* Connections that are not registered yet *)

\* Peers hold no pointers and bind no object.
LEMMA PeerFresh ==
  ASSUME FreshInv, NEW c \in Clients, Peer(c)
  PROVE  FreshInv'
  BY DEF Peer, FreshInv, Fresh, objVars, accVars, handVars, mainVars

\* accept() binds the object whose handler starts next; nobody else knows it.
LEMMA AcceptorFresh ==
  ASSUME TypeOK, BacklogInv, FreshInv, Acceptor
  PROVE  FreshInv'
<1>1. UNCHANGED <<single_client, shut, ptr, main_ptr>>
  BY DEF Acceptor, mainVars
<1>2. CASE AcceptorLoop
  BY <1>1, <1>2 DEF AcceptorLoop, FreshInv, Fresh
<1>3. CASE Accept
  <2>1. UNCHANGED pc
    BY <1>3 DEF Accept
  <2>2. CASE acc_new' = NULL /\ UNCHANGED binded
    BY <1>1, <2>1, <2>2, NullAssumption DEF FreshInv, Fresh
  <2>3. CASE /\ backlog # <<>>
             /\ acc_new' = Head(backlog)
             /\ binded' = [binded EXCEPT ![Head(backlog)] = TRUE]
    <3>1. Head(backlog) \in Clients
      BY <2>3, HeadTailProperties DEF TypeOK
    <3>. QED  BY <1>1, <2>1, <2>3, <3>1 DEF FreshInv, Fresh, TypeOK
  <2>. QED  BY <1>3, <2>2, <2>3 DEF Accept
<1>4. CASE Dispatch
  <2>1. UNCHANGED binded /\ acc_new' = NULL
    BY <1>4 DEF Dispatch
  <2>2. \/ UNCHANGED pc
        \/ acc_new \in Clients /\ pc' = [pc EXCEPT ![acc_new] = "entry"]
    BY <1>4 DEF Dispatch, TypeOK, Slot
  <2>3. CASE UNCHANGED pc
    BY <1>1, <2>1, <2>3, NullAssumption DEF FreshInv, Fresh
  <2>4. CASE acc_new \in Clients /\ pc' = [pc EXCEPT ![acc_new] = "entry"]
    <3>1. Fresh(acc_new) /\ binded[acc_new]
      BY <2>4, NullAssumption DEF BacklogInv, FreshInv, Fresh
    <3>2. pc'[acc_new] = "entry"
          /\ \A d \in Clients \ {acc_new}: pc'[d] = pc[d]
      BY <2>4 DEF TypeOK
    <3>3. \A d \in Clients: Fresh(d)' => Fresh(d)
      BY <3>1, <3>2 DEF Fresh
    <3>4. \A d \in Clients: pc'[d] \in EntryPcs => pc[d] \in EntryPcs \/ d = acc_new
      BY <3>2
    <3>. QED  BY <1>1, <2>1, <3>1, <3>3, <3>4, NullAssumption DEF FreshInv
  <2>. QED  BY <2>2, <2>3, <2>4
<1>. QED  BY <1>2, <1>3, <1>4 DEF Acceptor

\* A handler stays in its entry or comes from there.
LEMMA HandlerFreshPc ==
  ASSUME TypeOK, NEW c \in Clients, Handler(c)
  PROVE  \A d \in Clients: /\ Fresh(d)' => Fresh(d)
                           /\ pc'[d] \in EntryPcs => pc[d] \in EntryPcs
<1>1. pc'[c] \in EntryPcs => pc[c] \in EntryPcs
  <2>1. \A from, to: At(c, from, to) => pc'[c] = to /\ pc[c] = from
    BY DEF At, TypeOK
  <2>. USE <2>1 DEF Test, Clear, EntryPcs
  <2>2. CASE Entry(c) \/ Evict(c) \/ EvictClose(c) \/ Register(c)
    BY <2>2 DEF Entry, Evict, EvictClose, Register
  <2>3. CASE Probe(c)
    BY <2>3 DEF Probe, handVars
  <2>4. CASE Loop(c) \/ Receive(c) \/ Recv(c)
    BY <2>4 DEF Loop, Receive, Recv
  <2>5. CASE Eof(c) \/ EofClear(c) \/ Left(c) \/ LeftClear(c)
    BY <2>5 DEF Eof, EofClear, Left, LeftClear
  <2>6. CASE Down(c) \/ DownClear(c)
    BY <2>6 DEF Down, DownClear
  <2>7. CASE ExitCheck(c) \/ ExitStop(c) \/ ExitClose(c)
    BY <2>7 DEF ExitCheck, ExitStop, ExitClose
  <2>. QED  BY <2>2, <2>3, <2>4, <2>5, <2>6, <2>7 DEF Handler
<1>. QED  BY <1>1, HandlerMoves DEF Fresh

\* A handler takes its pointer from the slot, and stops what it points to or its
\* own connection once that left the entry.
LEMMA HandlerPointers ==
  ASSUME TypeOK, NEW c \in Clients, Handler(c)
  PROVE  /\ single_client' \in {single_client, NULL, c}
         /\ single_client' = c /\ single_client # c => ~Fresh(c)'
         /\ \A d \in Clients: ptr'[d] \in {ptr[d], single_client, NULL}
         /\ \A d \in Clients: shut'[d] # shut[d] => d = ptr[c] \/ (d = c /\ ~Fresh(c))
         /\ \A d \in Clients:
              binded'[d] # binded[d] => d = single_client \/ (d = c /\ ~Fresh(c))
<1>. USE DEF objVars, handVars
<1>1. CASE Entry(c)
  BY <1>1 DEF Entry, TypeOK
<1>2. CASE Probe(c)
  BY <1>2 DEF Probe, Test
<1>3. CASE Evict(c)
  BY <1>3 DEF Evict, Unbind, TypeOK
<1>4. CASE EvictClose(c)
  BY <1>4 DEF EvictClose, Shutdown, TypeOK
<1>5. CASE Register(c)
  BY <1>5 DEF Register, At, Fresh, EntryPcs, TypeOK
<1>6. CASE Loop(c) \/ Receive(c) \/ Eof(c) \/ Left(c) \/ Down(c) \/ ExitCheck(c)
  BY <1>6 DEF Loop, Receive, Eof, Left, Down, ExitCheck, Test
<1>7. CASE Recv(c)
  BY <1>7 DEF Recv, Test
<1>8. CASE EofClear(c) \/ LeftClear(c) \/ DownClear(c)
  BY <1>8, NullAssumption DEF EofClear, LeftClear, DownClear, Clear
<1>9. CASE ExitStop(c)
  BY <1>9 DEF ExitStop, Unbind, At, Fresh, EntryPcs, TypeOK
<1>10. CASE ExitClose(c)
  BY <1>10 DEF ExitClose, Shutdown, At, Fresh, EntryPcs, TypeOK
<1>. QED  BY <1>1, <1>2, <1>3, <1>4, <1>5, <1>6, <1>7, <1>8, <1>9, <1>10
          DEF Handler

\* A handler spreads pointers to registered connections only.
LEMMA HandlerFresh ==
  ASSUME TypeOK, BacklogInv, FreshInv, NEW c \in Clients, Handler(c)
  PROVE  FreshInv'
<1>1. UNCHANGED <<main_ptr, acc_new>>
  BY DEF Handler, mainVars, accVars
<1>2. ASSUME NEW d \in Clients, Fresh(d)'
      PROVE  /\ single_client' # d
             /\ main_ptr' # d
             /\ ~shut'[d]
             /\ \A e \in Clients: ptr'[e] # d
  <2>1. Fresh(d)
    BY <1>2, HandlerFreshPc
  <2>2. /\ single_client # d /\ main_ptr # d /\ ~shut[d]
        /\ \A e \in Clients: ptr[e] # d
    BY <2>1 DEF FreshInv
  <2>. QED  BY <1>1, <1>2, <2>1, <2>2, HandlerPointers, NullAssumption DEF TypeOK
<1>3. ASSUME NEW d \in Clients, pc'[d] \in EntryPcs \/ acc_new' = d
      PROVE  binded'[d]
  <2>1. pc[d] \in EntryPcs \/ acc_new = d
    BY <1>1, <1>3, HandlerFreshPc
  <2>2. Fresh(d)
    BY <2>1, NullAssumption DEF BacklogInv, Fresh
  <2>3. binded[d] /\ single_client # d
    BY <2>1, <2>2 DEF FreshInv
  <2>. QED  BY <2>2, <2>3, HandlerPointers
<1>. QED  BY <1>2, <1>3 DEF FreshInv

\* The sender takes its pointer from the slot and stops what it points to.
LEMMA MainPointers ==
  ASSUME TypeOK, Main \/ StopServer
  PROVE  /\ UNCHANGED <<pc, ptr, acc_new>>
         /\ single_client' \in {single_client, NULL}
         /\ main_ptr' \in {main_ptr, single_client, NULL}
         /\ \A d \in Clients: shut'[d] # shut[d] => d = main_ptr
         /\ \A d \in Clients:
              binded'[d] # binded[d] => d \in {main_ptr, single_client}
<1>1. UNCHANGED <<pc, ptr, acc_new>>
  BY DEF Main, StopServer, handVars, accVars
<1>. USE DEF objVars, mainVars
<1>2. CASE MainPoll \/ MainProbe \/ MainSend \/ MainSyscall \/ MainCatch
  BY <1>1, <1>2 DEF MainPoll, MainProbe, MainSend, MainSyscall, MainCatch
<1>3. CASE MainStop
  BY <1>1, <1>3 DEF MainStop, Unbind, Reread, TypeOK
<1>4. CASE MainClose
  BY <1>1, <1>4 DEF MainClose, Shutdown, TypeOK
<1>5. CASE MainClear \/ StopOff \/ StopShut \/ StopServer
  BY <1>1, <1>5 DEF MainClear, StopOff, StopShut, StopServer
<1>. QED  BY <1>2, <1>3, <1>4, <1>5 DEF Main

\* The sender and stop_server hold and stop registered connections only.
LEMMA MainFresh ==
  ASSUME TypeOK, BacklogInv, FreshInv, Main \/ StopServer
  PROVE  FreshInv'
<1>1. \A d \in Clients: Fresh(d)' <=> Fresh(d)
  BY MainPointers DEF Fresh
<1>2. \A d \in Clients: acc_new = d \/ pc[d] \in EntryPcs => Fresh(d)
  BY NullAssumption DEF BacklogInv, Fresh
<1>. QED  BY <1>1, <1>2, MainPointers, NullAssumption DEF FreshInv

-----------------------------------------------------------------------------
(* Registered connections have a handler *)

\* Peers make nobody connected again.
LEMMA PeerServed ==
  ASSUME TypeOK, BacklogInv, ServedInv, NEW c \in Clients, Peer(c)
  PROVE  ServedInv'
<1>1. UNCHANGED <<pc, single_client, binded, shut, bserver>>
  BY DEF Peer, PeerConnect, PeerSend, PeerHangUp, objVars, handVars, srvVars
<1>2. \A d \in Clients: pc[d] # "idle" /\ Readable(d) => Readable(d)'
  <2>1. CASE PeerConnect(c)
    BY <1>1, <2>1 DEF PeerConnect, BacklogInv, TypeOK, Readable
  <2>2. CASE PeerSend(c)
    BY <1>1, <2>2 DEF PeerSend, TypeOK, Readable
  <2>3. CASE PeerHangUp(c)
    BY <1>1, <2>3 DEF PeerHangUp, TypeOK, Readable
  <2>. QED  BY <2>1, <2>2, <2>3 DEF Peer
<1>3. \A d \in Clients: pc[d] # "idle" /\ ~IsConnecteed(d) => ~IsConnecteed(d)'
  BY <1>1, <1>2 DEF IsConnecteed
<1>. QED  BY <1>1, <1>3 DEF ServedInv, RegisteredIsServed

\* The acceptor binds objects of connections that have no handler yet.
LEMMA AcceptorServed ==
  ASSUME TypeOK, BacklogInv, ServedInv, Acceptor
  PROVE  ServedInv'
<1>1. UNCHANGED <<single_client, bserver, shut, rx, peer>>
  BY DEF Acceptor
<1>2. \A d \in Clients: pc[d] # "idle" => pc'[d] = pc[d] /\ binded'[d] = binded[d]
  <2>1. CASE AcceptorLoop
    BY <2>1 DEF AcceptorLoop
  <2>2. CASE Accept
    <3>1. CASE backlog # <<>> /\ binded' = [binded EXCEPT ![Head(backlog)] = TRUE]
      <4>1. Head(backlog) = backlog[1] /\ 1 \in 1..Len(backlog)
        BY <3>1, EmptySeq, LenProperties DEF TypeOK
      <4>2. pc[Head(backlog)] = "idle"
        BY <4>1 DEF BacklogInv
      <4>. QED  BY <2>2, <3>1, <4>2 DEF Accept, TypeOK
    <3>2. CASE UNCHANGED binded
      BY <2>2, <3>2 DEF Accept
    <3>. QED  BY <2>2, <3>1, <3>2 DEF Accept
  <2>3. CASE Dispatch
    BY <2>3 DEF Dispatch, BacklogInv, TypeOK
  <2>. QED  BY <2>1, <2>2, <2>3 DEF Acceptor
<1>3. \A d \in Clients: pc'[d] \in {"left", "down"} => pc[d] = pc'[d]
  BY <1>2 DEF Acceptor, AcceptorLoop, Accept, Dispatch, TypeOK
<1>4. \A d \in Clients: pc[d] # "idle" => (IsConnecteed(d)' <=> IsConnecteed(d))
  BY <1>1, <1>2 DEF IsConnecteed, Readable
<1>. QED  BY <1>1, <1>2, <1>3, <1>4 DEF ServedInv, RegisteredIsServed, ServePcs,
          TypeOK, Slot

\* The sender and stop_server empty the slot and disconnect clients.
LEMMA MainServed ==
  ASSUME TypeOK, ServedInv, Main \/ StopServer
  PROVE  ServedInv'
<1>1. UNCHANGED <<pc, rx>> /\ single_client' \in {single_client, NULL}
  BY MainPointers DEF Main, StopServer
<1>2. /\ bserver' => bserver
      /\ \A d \in Clients: /\ binded'[d] => binded[d]
                           /\ shut[d] => shut'[d]
                           /\ peer[d] \in {"fin", "reset"} => peer'[d] \in {"fin", "reset"}
  <2>. USE DEF srvVars, objVars, mainVars
  <2>1. CASE MainPoll \/ MainProbe \/ MainSend \/ MainSyscall \/ MainCatch
    BY <2>1 DEF MainPoll, MainProbe, MainSend, MainSyscall, MainCatch
  <2>2. CASE MainStop
    BY <2>2 DEF MainStop, Unbind, TypeOK
  <2>3. CASE MainClose
    BY <2>3 DEF MainClose, Shutdown, TypeOK
  <2>4. CASE StopShut
    BY <2>4 DEF StopShut, TypeOK
  <2>5. CASE MainClear \/ StopOff \/ StopServer
    BY <2>5 DEF MainClear, StopOff, StopServer
  <2>. QED  BY <2>1, <2>2, <2>3, <2>4, <2>5 DEF Main
<1>3. \A d \in Clients: IsConnecteed(d)' => IsConnecteed(d)
  BY <1>1, <1>2 DEF IsConnecteed, Readable
<1>. QED  BY <1>1, <1>2, <1>3, NullAssumption DEF ServedInv, RegisteredIsServed,
          TypeOK, Slot

\* A handler never makes another connection connected.
LEMMA HandlerConnected ==
  ASSUME TypeOK, NEW c \in Clients, Handler(c), NEW d \in Clients \ {c}
  PROVE  IsConnecteed(d)' => IsConnecteed(d)
<1>1. UNCHANGED peer /\ rx'[d] = rx[d]
  BY DEF Handler, Entry, Probe, Evict, EvictClose, Register, Loop, Receive, Recv,
         Eof, EofClear, Left, LeftClear, Down, DownClear, ExitCheck, ExitStop,
         ExitClose, Test, Clear, TypeOK
<1>2. (binded'[d] => binded[d]) /\ (shut[d] => shut'[d])
  BY DEF Handler, Entry, Probe, Evict, EvictClose, Register, Loop, Receive, Recv,
         Eof, EofClear, Left, LeftClear, Down, DownClear, ExitCheck, ExitStop,
         ExitClose, Test, Clear, Unbind, Shutdown, objVars, TypeOK
<1>. QED  BY <1>1, <1>2 DEF IsConnecteed, Readable

\* The way of a handler out of the slot, one clause per kind of step.
LEMMA HandlerServed ==
  ASSUME TypeOK, ServedInv, NEW c \in Clients, Handler(c)
  PROVE  ServedInv'
<1>1. UNCHANGED bserver /\ UNCHANGED peer
  BY DEF Handler, srvVars
<1>2. /\ single_client' = c => pc'[c] \in ServePcs
      /\ pc'[c] = "left" => ~bserver \/ ~IsConnecteed(c)'
      /\ pc'[c] = "down" /\ single_client' = c => ~bserver
  <2>1. \A from, to: At(c, from, to) => pc'[c] = to /\ pc[c] = from
    BY DEF At, TypeOK
  <2>2. /\ single_client = c => pc[c] \in ServePcs
        /\ pc[c] = "left" => ~bserver \/ ~IsConnecteed(c)
        /\ pc[c] = "down" /\ single_client = c => ~bserver
    BY NullAssumption DEF ServedInv, RegisteredIsServed
  <2>. USE <2>1, <2>2, NullAssumption DEF Test, ServePcs
  <2>3. CASE Entry(c) \/ Evict(c) \/ EvictClose(c)
    BY <2>3 DEF Entry, Evict, EvictClose
  <2>4. CASE Probe(c)
    BY <2>4 DEF Probe, handVars
  <2>5. CASE Register(c)
    BY <2>5 DEF Register
  <2>6. CASE Loop(c)
    BY <1>1, <2>6 DEF Loop, IsConnecteed, Readable, objVars
  <2>7. CASE Receive(c) \/ Recv(c) \/ Eof(c)
    BY <2>7 DEF Receive, Recv, Eof
  <2>8. CASE Left(c)
    BY <2>8 DEF Left
  <2>9. CASE EofClear(c) \/ LeftClear(c) \/ DownClear(c)
    BY <2>9 DEF EofClear, LeftClear, DownClear, Clear
  <2>10. CASE Down(c)
    BY <2>10 DEF Down
  <2>11. CASE ExitCheck(c) \/ ExitStop(c) \/ ExitClose(c)
    BY <2>11 DEF ExitCheck, ExitStop, ExitClose
  <2>. QED  BY <2>3, <2>4, <2>5, <2>6, <2>7, <2>8, <2>9, <2>10, <2>11
            DEF Handler
<1>3. ASSUME NEW d \in Clients \ {c}
      PROVE  /\ single_client' = d => pc'[d] \in ServePcs
             /\ pc'[d] = "left" => ~bserver \/ ~IsConnecteed(d)'
             /\ pc'[d] = "down" /\ single_client' = d => ~bserver
  <2>1. pc'[d] = pc[d]
    BY HandlerMoves
  <2>2. single_client' = d => single_client = d
    BY HandlerPointers, NullAssumption
  <2>. QED  BY <2>1, <2>2, HandlerConnected, NullAssumption
            DEF ServedInv, RegisteredIsServed
<1>4. single_client' \in Slot
  BY HandlerTypeOK DEF TypeOK
<1>. QED  BY <1>1, <1>2, <1>3, <1>4 DEF ServedInv, RegisteredIsServed, Slot

-----------------------------------------------------------------------------
(* The inductive invariant *)

\* The invariant holds when the acceptor starts.
LEMMA InitIInv == Init => IInv
<1>. SUFFICES ASSUME Init PROVE IInv
  OBVIOUS
<1>1. TypeOK
  BY InitTypeOK
<1>2. BacklogInv
  BY DEF Init, BacklogInv
<1>3. FreshInv
  BY NullAssumption DEF Init, FreshInv, EntryPcs
<1>4. ServedInv
  BY DEF Init, ServedInv, RegisteredIsServed
<1>. QED  BY <1>1, <1>2, <1>3, <1>4 DEF IInv

\* Every step keeps the invariant.
LEMMA NextIInv == IInv /\ [Next]_vars => IInv'
<1>. SUFFICES ASSUME IInv, [Next]_vars PROVE IInv'
  OBVIOUS
<1>. USE DEF IInv
<1>1. CASE Next
  <2>1. CASE Acceptor
    BY <2>1, AcceptorTypeOK, AcceptorBacklog, AcceptorFresh, AcceptorServed
  <2>2. CASE Main \/ StopServer
    BY <2>2, MainTypeOK, MainBacklog, MainFresh, MainServed
  <2>3. ASSUME NEW c \in Clients, Handler(c)
        PROVE  IInv'
    BY <2>3, HandlerTypeOK, HandlerBacklog, HandlerFresh, HandlerServed
  <2>4. ASSUME NEW c \in Clients, Peer(c)
        PROVE  IInv'
    BY <2>4, PeerTypeOK, PeerBacklog, PeerFresh, PeerServed
  <2>. QED  BY <1>1, <2>1, <2>2, <2>3, <2>4 DEF Next
<1>2. CASE UNCHANGED vars
  BY <1>2, NextTypeOK DEF vars, BacklogInv, FreshInv, Fresh, ServedInv,
     RegisteredIsServed, IsConnecteed, Readable, handVars, objVars, accVars,
     mainVars, srvVars
<1>. QED  BY <1>1, <1>2

\* The three layers of IInv hold in every reachable state: the backlog, the
\* pointers and the way out of call_back (TCP_CS.cpp:447-536).
THEOREM Invariance == Spec => []IInv
  BY InitIInv, NextIInv, PTL DEF Spec

\* single_client never names a connection whose handler gave up or has not begun
\* (TCP_CS.cpp:457, 494-536), for any number of connections: RegisteredIsServed.
THEOREM SlotIsServed == Spec => []RegisteredIsServed
<1>1. IInv => RegisteredIsServed
  BY DEF IInv, ServedInv
<1>. QED  BY <1>1, Invariance, PTL

\* No connection enters the slot after anybody stopped it (TCP_CS.cpp:457):
\* RegistersOnlyOpen.
THEOREM OnlyOpenRegister == Spec => RegistersOnlyOpen
<1>1. IInv /\ [Next]_vars
        => [single_client' \notin {single_client, NULL}
              => binded[single_client'] /\ ~shut[single_client']]_vars
  <2>. SUFFICES ASSUME IInv, Next,
                       single_client' \notin {single_client, NULL}
                PROVE  binded[single_client'] /\ ~shut[single_client']
    OBVIOUS
  <2>. USE DEF IInv
  <2>1. ~Acceptor /\ ~Main /\ ~StopServer /\ \A c \in Clients: ~Peer(c)
    BY MainPointers DEF Acceptor, Peer
  <2>2. PICK c \in Clients: Handler(c)
    BY <2>1 DEF Next
  <2>3. single_client' = c
    BY <2>2, HandlerPointers
  <2>4. Register(c)
    BY <2>2, <2>3 DEF Handler, Entry, Probe, Evict, EvictClose, Loop, Receive,
       Recv, Eof, EofClear, Left, LeftClear, Down, DownClear, ExitCheck,
       ExitStop, ExitClose, Test, Clear
  <2>5. pc[c] = "register"
    BY <2>4 DEF Register, At
  <2>. QED  BY <2>3, <2>5 DEF FreshInv, Fresh, EntryPcs
<1>. QED  BY <1>1, Invariance, PTL DEF Spec, RegistersOnlyOpen

-----------------------------------------------------------------------------
(* Refinement of ClientSlot *)

\* The stages of ClientSlot read off the program counters.
LEMMA StageOf ==
  \A c \in Clients:
    /\ pc[c] = "done" => Stage[c] = "retired"
    /\ pc[c] \in ServePcs \cup ExitPcs => Stage[c] = "serving"
    /\ pc[c] \in {"idle"} \cup EntryPcs => Stage[c] = "new"
  BY DEF Stage, ServePcs, ExitPcs, EntryPcs

\* What a move of a handler means for its stage.
LEMMA StageMoves ==
  ASSUME TypeOK, NEW c \in Clients, NEW from, NEW to, At(c, from, to)
  PROVE  /\ from \in EntryPcs /\ to \in EntryPcs => UNCHANGED Stage
         /\ from \in ServePcs \cup ExitPcs /\ to \in ServePcs \cup ExitPcs
              => UNCHANGED Stage
         /\ from \in EntryPcs /\ to \in ServePcs
              => Stage[c] = "new" /\ Stage' = [Stage EXCEPT ![c] = "serving"]
         /\ from \in ServePcs \cup ExitPcs /\ to = "done"
              => Stage[c] = "serving" /\ Stage' = [Stage EXCEPT ![c] = "retired"]
  BY DEF At, Stage, EntryPcs, ServePcs, ExitPcs, TypeOK

\* Every step of call_back is a step of ClientSlot or leaves it alone.
LEMMA HandlerSlot ==
  ASSUME IInv, NEW c \in Clients, Handler(c)
  PROVE  [Slots!Next]_(Slots!vars)
<1>. USE DEF IInv, Slots!Next, Slots!vars
<1>1. CASE Entry(c) \/ Evict(c) \/ EvictClose(c)
  <2>1. UNCHANGED Stage
    BY <1>1, StageMoves DEF Entry, Evict, EvictClose, EntryPcs
  <2>2. UNCHANGED single_client
    BY <1>1 DEF Entry, Evict, EvictClose
  <2>. QED  BY <2>1, <2>2
<1>2. CASE Probe(c)
  <2>1. CASE \E to \in EntryPcs: Test(c, "probe", to)
    <3>1. UNCHANGED Stage
      BY <2>1, StageMoves DEF Test, EntryPcs
    <3>. QED  BY <2>1, <3>1 DEF Test
  <2>2. CASE UNCHANGED <<single_client, handVars>>
    BY <2>2 DEF handVars, Stage
  <2>. QED  BY <1>2, <2>1, <2>2 DEF Probe, EntryPcs
<1>3. CASE Register(c)
  <2>1. Slots!Register(c)
    BY <1>3, StageMoves DEF Register, EntryPcs, ServePcs, Slots!Register
  <2>. QED  BY <2>1
<1>4. CASE Loop(c) \/ Receive(c) \/ Recv(c) \/ Eof(c) \/ Left(c)
  <2>1. UNCHANGED Stage
    BY <1>4, StageMoves DEF Loop, Receive, Recv, Eof, Left, Test, ServePcs,
       ExitPcs
  <2>2. UNCHANGED single_client
    BY <1>4 DEF Loop, Receive, Recv, Eof, Left, Test
  <2>. QED  BY <2>1, <2>2
<1>5. CASE EofClear(c) \/ LeftClear(c) \/ DownClear(c)
  <2>1. UNCHANGED Stage /\ single_client' = NULL
    BY <1>5, StageMoves DEF EofClear, LeftClear, DownClear, Clear, ServePcs,
       ExitPcs
  <2>. QED  BY <2>1 DEF Slots!Clear
<1>6. CASE Down(c)
  <2>1. CASE bserver /\ Test(c, "down", "done")
    <3>1. single_client # c
      BY <2>1 DEF Test, At, ServedInv
    <3>2. Slots!Retire(c)
      BY <2>1, <3>1, StageMoves DEF Test, ServePcs, Slots!Retire
    <3>. QED  BY <3>2
  <2>2. CASE ~bserver /\ Test(c, "down", IF single_client = c THEN "down_clear"
                                                          ELSE "exit_check")
    <3>1. UNCHANGED Stage /\ UNCHANGED single_client
      BY <2>2, StageMoves DEF Test, ServePcs, ExitPcs
    <3>. QED  BY <3>1
  <2>. QED  BY <1>6, <2>1, <2>2 DEF Down
<1>7. CASE ExitCheck(c) \/ ExitStop(c) \/ ExitClose(c)
  <2>1. UNCHANGED single_client
    BY <1>7 DEF ExitCheck, ExitStop, ExitClose, Test
  <2>2. PICK from \in ExitPcs, to \in ExitPcs \cup {"done"}: At(c, from, to)
    BY <1>7 DEF ExitCheck, ExitStop, ExitClose, Test, ExitPcs
  <2>3. CASE to \in ExitPcs
    BY <2>1, <2>2, <2>3, StageMoves
  <2>4. CASE to = "done"
    <3>1. single_client # c
      BY <2>2, NullAssumption
         DEF At, ExitPcs, ServePcs, ServedInv, RegisteredIsServed
    <3>2. Slots!Retire(c)
      BY <2>1, <2>2, <2>4, <3>1, StageMoves DEF Slots!Retire
    <3>. QED  BY <3>2
  <2>. QED  BY <2>2, <2>3, <2>4
<1>. QED  BY <1>1, <1>2, <1>3, <1>4, <1>5, <1>6, <1>7 DEF Handler

\* The acceptor does not touch the slot or a stage.
LEMMA AcceptorSlot ==
  ASSUME IInv, Acceptor
  PROVE  UNCHANGED <<single_client, Stage>>
<1>1. UNCHANGED single_client
  BY DEF Acceptor
<1>2. UNCHANGED pc \/ (acc_new \in Clients /\ pc' = [pc EXCEPT ![acc_new] = "entry"])
  BY DEF Acceptor, AcceptorLoop, Accept, Dispatch, IInv, TypeOK, Slot
<1>3. CASE UNCHANGED pc
  BY <1>1, <1>3 DEF Stage
<1>4. CASE acc_new \in Clients /\ pc' = [pc EXCEPT ![acc_new] = "entry"]
  <2>1. pc[acc_new] = "idle"
    BY <1>4, NullAssumption DEF IInv, BacklogInv
  <2>. QED  BY <1>1, <1>4, <2>1 DEF Stage, ServePcs, ExitPcs, IInv, TypeOK
<1>. QED  BY <1>2, <1>3, <1>4

\* The server implements ClientSlot: a connection is registered once, and its
\* handler returns (TCP_CS.cpp:504, 539) only after the slot stopped naming it.
THEOREM ImplementsSlot == Spec => SlotSpec
<1>1. Init => Slots!Init
  BY DEF Init, Slots!Init, Stage, ServePcs, ExitPcs
<1>2. IInv /\ [Next]_vars => [Slots!Next]_(Slots!vars)
  <2>. SUFFICES ASSUME IInv, [Next]_vars PROVE [Slots!Next]_(Slots!vars)
    OBVIOUS
  <2>1. CASE Acceptor
    BY <2>1, AcceptorSlot DEF Slots!vars
  <2>2. CASE Main \/ StopServer
    <3>1. UNCHANGED Stage /\ single_client' \in {single_client, NULL}
      BY <2>2, MainPointers DEF IInv, Stage
    <3>. QED  BY <3>1 DEF Slots!Next, Slots!Clear, Slots!vars
  <2>3. ASSUME NEW c \in Clients, Handler(c)
        PROVE  [Slots!Next]_(Slots!vars)
    BY <2>3, HandlerSlot
  <2>4. ASSUME NEW c \in Clients, Peer(c)
        PROVE  [Slots!Next]_(Slots!vars)
    BY <2>4 DEF Peer, handVars, Stage, Slots!vars
  <2>5. CASE UNCHANGED vars
    BY <2>5 DEF vars, handVars, Stage, Slots!vars
  <2>. QED  BY <2>1, <2>2, <2>3, <2>4, <2>5 DEF Next
<1>. QED  BY <1>1, <1>2, Invariance, PTL DEF Spec, SlotSpec, Slots!Spec

\* What a reader of the slot is promised follows from the steps of ClientSlot alone,
\* for any number of connections: whoever the slot names is being served.
THEOREM SlotNamesServed == SlotSpec => []Slots!NamesServed
<1>. DEFINE Promise == Slots!TypeOK /\ Slots!NamesServed
<1>1. Slots!Init => Promise
  BY DEF Slots!Init, Slots!TypeOK, Slots!NamesServed, Slots!Stages
<1>2. Promise /\ [Slots!Next]_(Slots!vars) => Promise'
  BY NullAssumption DEF Slots!TypeOK, Slots!NamesServed, Slots!Stages, Slots!Next, Slots!vars,
     Slots!Register, Slots!Clear, Slots!Retire
<1>. QED  BY <1>1, <1>2, PTL DEF SlotSpec, Slots!Spec

\* Hence every thread of the server that reads single_client.
THEOREM ReadersFindServed == Spec => []Slots!NamesServed
  BY ImplementsSlot, SlotNamesServed, PTL

-----------------------------------------------------------------------------
(* The descriptors of the process *)

\* What the acceptor has taken for connections without a handler: nothing when it
\* begins a round of its loop, seven when a failed pthread_create ended it.
Pending ==
  CASE acc_pc = "loop"     -> IF bserver THEN 0 ELSE 6
    [] acc_pc = "accept"   -> 3
    [] acc_pc = "dispatch" -> IF acc_new = NULL THEN 3 ELSE 4
    [] OTHER               -> 7

\* accept() fails because the server stopped or no descriptor is left.
AcceptInv ==
  /\ main_pc = "ss_shut" \/ listen_shut => ~bserver
  /\ proc = "up" /\ acc_pc = "dispatch" /\ acc_new = NULL
       => ~bserver \/ fds = FdLimit

\* Seven descriptors for each handler, and those of the round.
FdInv ==
  /\ IsFiniteSet(Started)
  /\ proc = "up" => fds <= FdBase + 7 * Cardinality(Started) + Pending
  /\ TerminateNeedsExhaustion

\* No handler exists when the acceptor starts.
LEMMA InitFdInv == Init => AcceptInv /\ FdInv
<1>. SUFFICES ASSUME Init PROVE AcceptInv /\ FdInv
  OBVIOUS
<1>1. AcceptInv
  BY DEF Init, AcceptInv
<1>2. Started = {}
  BY DEF Init, Started
<1>3. IsFiniteSet(Started) /\ Cardinality(Started) = 0
  BY <1>2, FS_EmptySet
<1>. QED  BY <1>1, <1>3, FdAssumption
          DEF Init, FdInv, Pending, TerminateNeedsExhaustion

\* A step that neither starts a handler nor moves the acceptor nor throws.
LEMMA OtherFdInv ==
  ASSUME TypeOK, FdInv, proc = "up", Started' = Started, UNCHANGED accVars,
         bserver' => bserver, proc' # "terminate"
  PROVE  FdInv'
<1>1. fds \in Nat /\ FdBase \in Nat /\ Cardinality(Started) \in Nat
  BY FdAssumption, FS_CardinalityType DEF TypeOK, FdInv
<1>2. Pending \in Nat /\ Pending' \in Nat /\ Pending <= Pending'
  BY DEF Pending, accVars
<1>3. fds' <= FdBase + 7 * Cardinality(Started') + Pending'
  BY <1>1, <1>2 DEF FdInv, accVars
<1>. QED  BY <1>3 DEF FdInv, TerminateNeedsExhaustion

\* Only the acceptor lets the exception of open() leave its thread.
LEMMA OthersDoNotThrow ==
  ASSUME TypeOK, proc = "up"
  PROVE  /\ \A c \in Clients: Handler(c) => proc' # "terminate"
         /\ Main \/ StopServer => proc' # "terminate"
<1>. USE DEF Unbind, Test, Clear
<1>1. ASSUME NEW c \in Clients, Handler(c)
      PROVE  proc' # "terminate"
  BY <1>1 DEF Handler, Entry, Probe, Evict, EvictClose, Register, Loop, Receive,
     Recv, Eof, EofClear, Left, LeftClear, Down, DownClear, ExitCheck, ExitStop,
     ExitClose
<1>2. ASSUME Main \/ StopServer
      PROVE  proc' # "terminate"
  BY <1>2 DEF Main, StopServer, MainPoll, MainProbe, MainSend, MainSyscall,
     MainCatch, MainStop, MainClose, MainClear, StopOff, StopShut
<1>. QED  BY <1>1, <1>2

\* A handler never becomes idle, nor anything else begin one.
LEMMA HandlerFdInv ==
  ASSUME TypeOK, AcceptInv, FdInv, proc = "up", NEW c \in Clients, Handler(c)
  PROVE  AcceptInv' /\ FdInv'
<1>1. Started' = Started
  BY HandlerMoves DEF Started
<1>2. UNCHANGED <<bserver, listen_shut, main_pc>> /\ UNCHANGED accVars
  BY DEF Handler, srvVars, mainVars
<1>3. FdInv'
  BY <1>1, <1>2, OthersDoNotThrow, OtherFdInv
<1>. QED  BY <1>2, <1>3 DEF AcceptInv, accVars

\* _bserver is FALSE before the listening socket is closed.
LEMMA MainFdInv ==
  ASSUME TypeOK, AcceptInv, FdInv, proc = "up", Main \/ StopServer
  PROVE  AcceptInv' /\ FdInv'
<1>1. UNCHANGED <<pc, ptr, acc_pc, acc_new, fds>>
  BY DEF Main, StopServer, handVars, accVars
<1>2. Started' = Started
  BY <1>1 DEF Started
<1>3. /\ bserver' => bserver
      /\ main_pc' = "ss_shut" \/ listen_shut' => ~bserver'
  BY DEF TypeOK, AcceptInv, Main, StopServer, MainAt, srvVars, MainPoll, MainProbe,
     MainSend, MainSyscall, MainCatch, MainStop, MainClose, MainClear, StopOff,
     StopShut
<1>4. AcceptInv'
  BY <1>1, <1>3 DEF AcceptInv
<1>5. FdInv'
  BY <1>1, <1>2, <1>3, OthersDoNotThrow, OtherFdInv DEF accVars
<1>. QED  BY <1>4, <1>5

\* Peers do not touch the acceptor.
LEMMA PeerFdInv ==
  ASSUME TypeOK, AcceptInv, FdInv, proc = "up", NEW c \in Clients, Peer(c)
  PROVE  AcceptInv' /\ FdInv'
<1>1. /\ UNCHANGED <<pc, proc, main_pc, bserver, listen_shut>>
      /\ UNCHANGED accVars
  BY DEF Peer, PeerConnect, PeerSend, PeerHangUp, handVars, mainVars, srvVars
<1>2. Started' = Started
  BY <1>1 DEF Started
<1>3. FdInv'
  BY <1>1, <1>2, OtherFdInv
<1>. QED  BY <1>1, <1>3 DEF AcceptInv, accVars

\* A round of the acceptor takes three, one and three descriptors, and ends with a
\* handler, with a stopped server, without descriptors or without the acceptor.
LEMMA AcceptorFdInv ==
  ASSUME TypeOK, BacklogInv, AcceptInv, FdInv, proc = "up", Acceptor
  PROVE  AcceptInv' /\ FdInv'
<1>. DEFINE n == Cardinality(Started)
<1>1. /\ fds \in Nat /\ FdBase \in Nat /\ FdLimit \in Nat /\ n \in Nat
      /\ fds <= FdLimit
  BY FdAssumption, FS_CardinalityType DEF TypeOK, FdInv
<1>2. UNCHANGED <<main_pc, bserver, listen_shut>>
  BY DEF Acceptor, mainVars
<1>3. fds <= FdBase + 7 * n + Pending /\ IsFiniteSet(Started)
  BY DEF FdInv
<1>4. CASE AcceptorLoop
  <2>1. Started' = Started
    BY <1>4 DEF AcceptorLoop, Started
  <2>2. AcceptInv'
    BY <1>2, <1>4 DEF AcceptInv, AcceptorLoop, NewObject
  <2>3. /\ proc' = "up" => fds' <= FdBase + 7 * n + Pending'
        /\ proc' = "terminate" => FdLimit < FdBase + 7 * (n + 1)
    BY <1>1, <1>2, <1>3, <1>4 DEF AcceptorLoop, NewObject, FdsPerObject, Pending
  <2>. QED  BY <1>3, <2>1, <2>2, <2>3 DEF FdInv, TerminateNeedsExhaustion
<1>5. CASE Accept
  <2>1. Started' = Started
    BY <1>5 DEF Accept, Started
  <2>2. CASE acc_new' = NULL /\ UNCHANGED fds /\ (listen_shut \/ fds = FdLimit)
    BY <1>1, <1>2, <1>3, <1>5, <2>1, <2>2
       DEF Accept, AcceptInv, Pending, FdInv, TerminateNeedsExhaustion
  <2>3. CASE acc_new' = Head(backlog) /\ backlog # <<>> /\ fds' = fds + 1
    <3>1. acc_new' # NULL
      BY <2>3, HeadTailProperties, NullAssumption DEF TypeOK
    <3>. QED  BY <1>1, <1>2, <1>3, <1>5, <2>1, <2>3, <3>1
              DEF Accept, AcceptInv, Pending, FdInv, TerminateNeedsExhaustion
  <2>. QED  BY <1>5, <2>2, <2>3 DEF Accept
<1>6. CASE Dispatch
  <2>1. AcceptInv'
    BY <1>1, <1>2, <1>6 DEF AcceptInv, Dispatch, NewObject, FdsPerObject
  <2>2. CASE Started' = Started /\ (acc_new = NULL \/ acc_pc' # "loop" \/ proc' # "up")
    <3>1. /\ proc' = "up" => fds' <= FdBase + 7 * n + Pending'
          /\ proc' = "terminate" => FdLimit < FdBase + 7 * (n + 1)
      BY <1>1, <1>2, <1>3, <1>6, <2>2
         DEF Dispatch, NewObject, FdsPerObject, Pending, AcceptInv
    <3>. QED  BY <1>3, <2>1, <2>2, <3>1 DEF FdInv, TerminateNeedsExhaustion
  <2>3. CASE /\ acc_new # NULL
             /\ proc' = "up"
             /\ pc' = [pc EXCEPT ![acc_new] = "entry"]
             /\ acc_pc' = "loop"
             /\ fds' = fds + 3
    <3>1. acc_new \in Clients /\ acc_new \notin Started
      BY <2>3 DEF TypeOK, Slot, BacklogInv, Started
    <3>2. Started' = Started \cup {acc_new}
      BY <2>3, <3>1 DEF Started, TypeOK
    <3>3. IsFiniteSet(Started') /\ Cardinality(Started') = n + 1
      BY <1>3, <3>1, <3>2, FS_AddElement
    <3>4. fds <= FdBase + 7 * n + 4 /\ Pending' \in Nat
      BY <1>3, <1>6, <2>3 DEF Pending, Dispatch
    <3>5. fds' <= FdBase + 7 * (n + 1) + Pending'
      BY <1>1, <2>3, <3>4
    <3>. QED  BY <2>1, <2>3, <3>3, <3>5 DEF FdInv, TerminateNeedsExhaustion
  <2>4. CASE UNCHANGED pc
    <3>1. Started' = Started
      BY <2>4 DEF Started
    <3>2. acc_new = NULL \/ acc_pc' # "loop" \/ proc' # "up"
      BY <1>6, <2>4 DEF Dispatch, NewObject, TypeOK, BacklogInv, Slot
    <3>. QED  BY <2>2, <3>1, <3>2
  <2>. QED  BY <1>6, <2>3, <2>4 DEF Dispatch, NewObject, FdsPerObject
<1>. QED  BY <1>4, <1>5, <1>6 DEF Acceptor

\* Every step keeps the accounts.
LEMMA NextFdInv ==
  ASSUME IInv, AcceptInv, FdInv, [Next]_vars
  PROVE  AcceptInv' /\ FdInv'
<1>. USE DEF IInv
<1>1. CASE Next
  BY <1>1, AcceptorFdInv, MainFdInv, HandlerFdInv, PeerFdInv DEF Next
<1>2. CASE UNCHANGED vars
  BY <1>2 DEF vars, handVars, accVars, mainVars, srvVars, AcceptInv, FdInv,
     Started, Pending, TerminateNeedsExhaustion
<1>. QED  BY <1>1, <1>2

\* std::terminate comes only when the limit does not hold seven descriptors for
\* each connection handled so far and one more (TCP_CS.cpp:336-370):
\* TerminateNeedsExhaustion.
THEOREM ExhaustionOnly == Spec => []TerminateNeedsExhaustion
<1>1. IInv /\ AcceptInv /\ FdInv /\ [Next]_vars => (AcceptInv /\ FdInv)'
  BY NextFdInv
<1>2. FdInv => TerminateNeedsExhaustion
  BY DEF FdInv
<1>. QED  BY <1>1, <1>2, InitFdInv, Invariance, PTL DEF Spec

=============================================================================
