----------------------------- MODULE TcpCsServer -----------------------------
(***************************************************************************)
(* A TCP_CS server of src/sockman/CPPSocket/TCP_CS.cpp as "sockman cserver *)
(* <port>" runs it, after creat_server and start_server succeeded:         *)
(*                                                                         *)
(*   - the acceptor thread, TCP_CS::ServerProc;                            *)
(*   - one handler thread per connection, TCP_CS::DealProc and call_back;  *)
(*   - the sender, the main loop of sockman.cpp, which also is the thread  *)
(*     that may call TCP_CS::stop_server;                                  *)
(*   - the peers and the sockets of the kernel.                            *)
(*                                                                         *)
(* The threads share the server object (_bserver, single_client) and the   *)
(* client objects (_binded, the socket) without any lock, so every read    *)
(* and every write of them is a step of its own.                           *)
(*                                                                         *)
(* _opened, _type and _bconnected of a client object are left out: each is *)
(* written only beside _binded or by a status query, and stop_client ends  *)
(* in the same _binded = false, close() on both of its branches.           *)
(***************************************************************************)
EXTENDS Naturals, Sequences, FiniteSets

CONSTANTS
  Clients,        \* the connections that peers may make
  NULL,           \* the null pointer, or a descriptor of -1
  MaxRx,          \* bound: pieces of unread data a socket holds
  Listeners,      \* the backlog given to listen(), 10 in cserver
  FdBase,         \* descriptors open when the acceptor enters its loop
  FdLimit,        \* descriptors the process may hold (RLIMIT_NOFILE)
  MayStop         \* TRUE when the program may call stop_server

ASSUME NullAssumption == NULL \notin Clients
ASSUME MaxRxAssumption == MaxRx \in Nat \ {0}
ASSUME ListenersAssumption == Listeners \in Nat \ {0}
ASSUME FdAssumption == FdBase \in Nat /\ FdLimit \in Nat /\ FdBase <= FdLimit
ASSUME MayStopAssumption == MayStop \in BOOLEAN

VARIABLES
  proc,           \* "up", or what ended the process
  bserver,        \* server._bserver
  listen_shut,    \* the listening socket was shut down
  backlog,        \* connections the kernel holds for accept()
  single_client,  \* server.single_client
  binded,         \* binded[c]: _binded of the object of connection c
  shut,           \* shut[c]: its socket was shut down on this side
  rx,             \* rx[c]: pieces of data received and not yet read
  peer,           \* peer[c]: what the other end did with the connection
  fds,            \* descriptors the process holds; none is ever released
  acc_pc,         \* the acceptor thread
  acc_new,        \* the connection it accepted
  pc,             \* pc[c]: the handler thread of connection c
  ptr,            \* ptr[c]: single_client as that handler last read it
  main_pc,        \* the sender
  main_ptr        \* single_client as the sender last read it

srvVars  == <<bserver, listen_shut, backlog>>
objVars  == <<binded, shut>>
accVars  == <<fds, acc_pc, acc_new>>
handVars == <<pc, ptr>>
mainVars == <<main_pc, main_ptr>>
vars == <<proc, single_client, srvVars, objVars, rx, peer, accVars, handVars,
          mainVars>>

Slot == Clients \cup {NULL}

ProcStates == {"up", "segv", "sigpipe", "terminate"}

\* A handler before it writes single_client, from there to the last test of
\* it, and in the closing lines common to both ways out.
EntryPcs  == {"entry", "probe", "evict", "evict_close", "register"}
ServePcs  == {"loop", "receive", "recv", "eof", "eof_clear",
              "left", "left_clear", "down", "down_clear"}
ExitPcs   == {"exit_check", "exit_stop", "exit_close"}
HandlerPcs == {"idle"} \cup EntryPcs \cup ServePcs \cup ExitPcs \cup {"done"}

AcceptorPcs == {"loop", "accept", "dispatch", "done"}
MainPcs == {"poll", "probe", "send", "syscall",
            "catch", "catch_stop", "catch_close", "catch_clear",
            "ss_stop", "ss_close", "ss_clear", "ss_off", "ss_shut", "stopped"}

Init ==
  /\ proc = "up"
  /\ bserver = TRUE
  /\ listen_shut = FALSE
  /\ backlog = <<>>
  /\ single_client = NULL
  /\ binded = [c \in Clients |-> FALSE]
  /\ shut = [c \in Clients |-> FALSE]
  /\ rx = [c \in Clients |-> 0]
  /\ peer = [c \in Clients |-> "none"]
  /\ fds = FdBase
  /\ acc_pc = "loop"
  /\ acc_new = NULL
  /\ pc = [c \in Clients |-> "idle"]
  /\ ptr = [c \in Clients |-> NULL]
  /\ main_pc = "poll"
  /\ main_ptr = NULL

-----------------------------------------------------------------------------
(* Sockets and objects *)

\* Mutant: an end of file does not make the socket readable.
ReadableWithoutEof(c) == rx[c] > 0 \/ peer[c] = "reset" \/ shut[c]

\* select() reports a stream socket readable: data, an end of file, an error
\* or this side's own shutdown.
Readable(c) == rx[c] > 0 \/ peer[c] \in {"fin", "reset"} \/ shut[c]

\* is_connecteed() of a client object: bound and nothing to read.
IsConnecteed(c) == binded[c] /\ ~Readable(c)

\* A pointer read once and used after: the compiler may keep the first read
\* or read single_client again, since nothing orders the two.
Reread(p) == {p, single_client}

\* stop_client() on the object q, first half: it resets _binded.  Calling it on
\* the null pointer ends the process.
Unbind(q) ==
  IF q = NULL THEN /\ proc' = "segv"
                   /\ UNCHANGED binded
              ELSE /\ binded' = [binded EXCEPT ![q] = FALSE]
                   /\ UNCHANGED proc

\* Mutant: stop_client() resets the flags only.
ShutdownForgotten(q) == UNCHANGED shut

\* stop_client(), second half: close() shuts the socket down.
Shutdown(q) == shut' = [shut EXCEPT ![q] = TRUE]

-----------------------------------------------------------------------------
(* Peers *)

PeerConnect(c) ==
  /\ peer[c] = "none"
  /\ ~listen_shut
  /\ Len(backlog) < Listeners
  /\ peer' = [peer EXCEPT ![c] = "open"]
  /\ backlog' = Append(backlog, c)
  /\ UNCHANGED <<bserver, listen_shut, rx>>

PeerSend(c) ==
  /\ peer[c] = "open"
  /\ ~shut[c]
  /\ rx[c] < MaxRx
  /\ rx' = [rx EXCEPT ![c] = @ + 1]
  /\ UNCHANGED <<srvVars, peer>>

\* The peer closes its end, or its host resets the connection.
PeerHangUp(c) ==
  /\ \/ peer[c] = "open" /\ \E how \in {"fin", "reset"}:
                               peer' = [peer EXCEPT ![c] = how]
     \/ peer[c] = "fin" /\ peer' = [peer EXCEPT ![c] = "reset"]
  /\ UNCHANGED <<srvVars, rx>>

Peer(c) ==
  /\ PeerConnect(c) \/ PeerSend(c) \/ PeerHangUp(c)
  /\ UNCHANGED <<proc, single_client, objVars, accVars, handVars, mainVars>>

-----------------------------------------------------------------------------
(* The acceptor thread: TCP_CS::ServerProc *)

\* Mutant: one more socket member.
FdsPerLargerObject == 4

\* A TCP_CS object opens one socket for its TCP base and one for each of the
\* unused members _server and _client.
FdsPerObject == 3

\* Construct a TCP_CS, or let the exception of open() leave the thread.
NewObject(next) ==
  IF fds + FdsPerObject <= FdLimit
  THEN fds' = fds + FdsPerObject /\ acc_pc' = next /\ UNCHANGED proc
  ELSE proc' = "terminate" /\ UNCHANGED <<fds, acc_pc>>

\* while(pserver->_bserver), and the object accept_client() builds first.
AcceptorLoop ==
  /\ acc_pc = "loop"
  /\ IF bserver THEN NewObject("accept")
                ELSE acc_pc' = "done" /\ UNCHANGED <<proc, fds>>
  /\ UNCHANGED <<acc_new, backlog, binded, pc>>

\* accept() blocks until a connection waits; it fails on a socket that was shut
\* down and when no descriptor is left, and the code keeps the -1 it returns.
Accept ==
  /\ acc_pc = "accept"
  /\ acc_pc' = "dispatch"
  /\ \/ /\ listen_shut \/ fds = FdLimit
        /\ acc_new' = NULL
        /\ UNCHANGED <<fds, backlog, binded>>
     \/ /\ ~listen_shut /\ fds < FdLimit
        /\ backlog # <<>>
        /\ acc_new' = Head(backlog)
        /\ backlog' = Tail(backlog)
        /\ binded' = [binded EXCEPT ![Head(backlog)] = TRUE]
        /\ fds' = fds + 1
  /\ UNCHANGED <<proc, pc>>

\* new TCP_CS(client) and pthread_create(DealProc).  DealProc returns at once
\* for a failed accept; a failed pthread_create ends the acceptor and nobody
\* handles the connection.
Dispatch ==
  /\ acc_pc = "dispatch"
  /\ \/ /\ NewObject("loop")
        /\ pc' = IF proc' = "up" /\ acc_new # NULL
                 THEN [pc EXCEPT ![acc_new] = "entry"] ELSE pc
     \/ /\ NewObject("done")
        /\ UNCHANGED pc
  /\ acc_new' = NULL
  /\ UNCHANGED <<backlog, binded>>

Acceptor ==
  /\ AcceptorLoop \/ Accept \/ Dispatch
  /\ UNCHANGED <<bserver, listen_shut, single_client, shut, rx, peer, ptr,
                 mainVars>>

-----------------------------------------------------------------------------
(* A handler thread: TCP_CS::DealProc and TCP_CS::call_back *)

At(c, from, to) ==
  /\ pc[c] = from
  /\ pc' = [pc EXCEPT ![c] = to]

\* A test whose outcome only decides where the handler goes on.  Two reads in
\* one test may be taken together: only the handler itself makes its client
\* connected again, and _bserver never returns to true.
Test(c, from, to) ==
  /\ At(c, from, to)
  /\ UNCHANGED <<proc, single_client, objVars, rx, ptr>>

\* Mutant: the newcomer registers before it looks for a predecessor.
EntryRegistersFirst(c) ==
  /\ At(c, "entry", IF single_client = NULL THEN "register" ELSE "probe")
  /\ single_client' = c
  /\ ptr' = [ptr EXCEPT ![c] = single_client]
  /\ UNCHANGED <<proc, objVars, rx>>

\* if(server->single_client!=NULL)
Entry(c) ==
  /\ At(c, "entry", IF single_client = NULL THEN "register" ELSE "probe")
  /\ ptr' = [ptr EXCEPT ![c] = single_client]
  /\ UNCHANGED <<proc, single_client, objVars, rx>>

\* if(server->single_client->is_connecteed())
Probe(c) ==
  \E q \in Reread(ptr[c]):
    \/ /\ q # NULL
       /\ Test(c, "probe", IF IsConnecteed(q) THEN "evict" ELSE "register")
    \/ /\ q = NULL
       /\ pc[c] = "probe"
       /\ proc' = "segv"
       /\ UNCHANGED <<single_client, objVars, rx, handVars>>

\* server->single_client->stop_client(), after select() and a log line: the
\* pointer is read again.
Evict(c) ==
  /\ At(c, "evict", "evict_close")
  /\ Unbind(single_client)
  /\ ptr' = [ptr EXCEPT ![c] = single_client]
  /\ UNCHANGED <<single_client, shut, rx>>

EvictClose(c) ==
  /\ At(c, "evict_close", "register")
  /\ Shutdown(ptr[c])
  /\ UNCHANGED <<proc, single_client, binded, rx, ptr>>

\* server->single_client = client; the predecessor is forgotten.
Register(c) ==
  /\ At(c, "register", "loop")
  /\ single_client' = c
  /\ ptr' = [ptr EXCEPT ![c] = NULL]
  /\ UNCHANGED <<proc, objVars, rx>>

\* while(server->is_on_server()&&client->is_connecteed())
Loop(c) ==
  Test(c, "loop", IF bserver /\ IsConnecteed(c) THEN "receive" ELSE "left")

\* receive<char>() throws when the object was unbound; the handler catches it
\* and rcv_byte stays 0.
Receive(c) == Test(c, "receive", IF binded[c] THEN "recv" ELSE "eof")

\* recv() blocks until the socket is readable; it returns some of the data, or
\* 0 (end of file) or -1 (reset), which end in rcv_byte = 0 alike.
Recv(c) ==
  \/ /\ At(c, "recv", "loop")
     /\ \E n \in 1..rx[c]: rx' = [rx EXCEPT ![c] = @ - n]
     /\ UNCHANGED <<proc, single_client, objVars, ptr>>
  \/ /\ Readable(c)
     /\ rx[c] = 0 \/ peer[c] = "reset"
     /\ Test(c, "recv", "eof")

\* server->single_client = NULL, whoever registered since the comparison.
Clear(c, from, to) ==
  /\ At(c, from, to)
  /\ single_client' = NULL
  /\ UNCHANGED <<proc, objVars, rx, ptr>>

\* Mutant: at the end of the file the slot is left alone.
EofKeepsSlot(c) == Test(c, "eof", "exit_check")

\* rcv_byte ==0: if(client ==server->single_client) ...
Eof(c) ==
  Test(c, "eof", IF single_client = c THEN "eof_clear" ELSE "exit_check")
EofClear(c) == Clear(c, "eof_clear", "exit_check")

\* Mutant: a disconnected client is not taken out of the slot.
LeftKeepsSlot(c) == Test(c, "left", "down")

\* Behind the loop: if(!client->is_connecteed()) if(client == ...) ...
Left(c) ==
  Test(c, "left", IF ~IsConnecteed(c) /\ single_client = c THEN "left_clear"
                                                           ELSE "down")
LeftClear(c) == Clear(c, "left_clear", "down")

\* ... and if(!server->is_on_server()) the same again.
Down(c) ==
  \/ bserver /\ Test(c, "down", "done")
  \/ /\ ~bserver
     /\ Test(c, "down", IF single_client = c THEN "down_clear"
                                             ELSE "exit_check")
DownClear(c) == Clear(c, "down_clear", "exit_check")

\* if(client->is_connecteed()) client->stop_client(), and the handler returns.
\* Nobody deletes the object or closes the descriptor.
ExitCheck(c) ==
  Test(c, "exit_check", IF IsConnecteed(c) THEN "exit_stop" ELSE "done")

ExitStop(c) ==
  /\ At(c, "exit_stop", "exit_close")
  /\ Unbind(c)
  /\ UNCHANGED <<single_client, shut, rx, ptr>>

ExitClose(c) ==
  /\ At(c, "exit_close", "done")
  /\ Shutdown(c)
  /\ UNCHANGED <<proc, single_client, binded, rx, ptr>>

Handler(c) ==
  /\ \/ Entry(c) \/ Probe(c) \/ Evict(c) \/ EvictClose(c) \/ Register(c)
     \/ Loop(c) \/ Receive(c) \/ Recv(c)
     \/ Eof(c) \/ EofClear(c)
     \/ Left(c) \/ LeftClear(c) \/ Down(c) \/ DownClear(c)
     \/ ExitCheck(c) \/ ExitStop(c) \/ ExitClose(c)
  /\ UNCHANGED <<srvVars, peer, accVars, mainVars>>

-----------------------------------------------------------------------------
(* The sender, the main loop of cserver; and TCP_CS::stop_server *)

MainAt(from, to) == main_pc = from /\ main_pc' = to

\* if(server.single_client!=NULL&& ...
MainPoll ==
  /\ MainAt("poll", "probe")
  /\ single_client # NULL
  /\ main_ptr' = single_client
  /\ UNCHANGED <<proc, single_client, srvVars, objVars, peer>>

\* ... server.single_client->is_connecteed()), or sleep and look again.
MainProbe ==
  /\ \E q \in Reread(main_ptr):
       \/ /\ q # NULL
          /\ MainAt("probe", IF IsConnecteed(q) THEN "send" ELSE "poll")
          /\ UNCHANGED proc
       \/ /\ q = NULL
          /\ MainAt("probe", "probe")
          /\ proc' = "segv"
  /\ main_ptr' = NULL
  /\ UNCHANGED <<single_client, srvVars, objVars, peer>>

\* server.single_client->send<char>(): the pointer is read again behind the
\* select(); send throws when the object was unbound.
MainSend ==
  /\ \/ /\ single_client # NULL
        /\ MainAt("send", IF binded[single_client] THEN "syscall" ELSE "catch")
        /\ UNCHANGED proc
     \/ /\ single_client = NULL
        /\ MainAt("send", "send")
        /\ proc' = "segv"
  /\ main_ptr' = single_client
  /\ UNCHANGED <<single_client, srvVars, objVars, peer>>

\* ::send() without MSG_NOSIGNAL: SIGPIPE on a socket that was shut down or
\* reset, an error instead when the reset was not reported yet; else the data
\* goes to the kernel.
MainSyscall ==
  /\ \/ /\ MainAt("syscall", "syscall")
        /\ shut[main_ptr] \/ peer[main_ptr] = "reset"
        /\ proc' = "sigpipe"
     \/ /\ MainAt("syscall", "catch")
        /\ peer[main_ptr] = "reset"
        /\ UNCHANGED proc
     \/ /\ MainAt("syscall", "poll")
        /\ ~shut[main_ptr] /\ peer[main_ptr] # "reset"
        /\ UNCHANGED proc
  /\ main_ptr' = NULL
  /\ UNCHANGED <<single_client, srvVars, objVars, peer>>

\* catch: n_send_byte is still 0, so only single_client is tested.  The client
\* stopped next is the registered one, not the one whose send failed.
MainCatch ==
  /\ MainAt("catch", IF single_client = NULL THEN "poll" ELSE "catch_stop")
  /\ main_ptr' = single_client
  /\ UNCHANGED <<proc, single_client, srvVars, objVars, peer>>

\* if(!_bserver) return; if(single_client) ...
StopServer ==
  /\ MayStop
  /\ bserver
  /\ MainAt("poll", IF single_client = NULL THEN "ss_off" ELSE "ss_stop")
  /\ main_ptr' = single_client
  /\ UNCHANGED <<proc, single_client, srvVars, objVars, rx, peer, accVars,
                 handVars>>

\* single_client->stop_client(), in the catch block and in stop_server.
MainStop ==
  /\ \/ MainAt("catch_stop", "catch_close")
     \/ MainAt("ss_stop", "ss_close")
  /\ \E q \in Reread(main_ptr): Unbind(q) /\ main_ptr' = q
  /\ UNCHANGED <<single_client, srvVars, shut, peer>>

MainClose ==
  /\ \/ MainAt("catch_close", "catch_clear")
     \/ MainAt("ss_close", "ss_clear")
  /\ Shutdown(main_ptr)
  /\ UNCHANGED <<proc, single_client, srvVars, binded, peer, main_ptr>>

\* single_client = NULL, whoever registered since.
MainClear ==
  /\ \/ MainAt("catch_clear", "poll")
     \/ MainAt("ss_clear", "ss_off")
  /\ single_client' = NULL
  /\ main_ptr' = NULL
  /\ UNCHANGED <<proc, srvVars, objVars, peer>>

\* this->_bserver = false
StopOff ==
  /\ MainAt("ss_off", "ss_shut")
  /\ bserver' = FALSE
  /\ UNCHANGED <<proc, single_client, listen_shut, backlog, objVars, peer,
                 main_ptr>>

\* this->close(): accept() fails from now on and the kernel resets the
\* connections that wait in the backlog.
StopShut ==
  /\ MainAt("ss_shut", "stopped")
  /\ listen_shut' = TRUE
  /\ backlog' = <<>>
  /\ peer' = [c \in Clients |-> IF \E i \in DOMAIN backlog: backlog[i] = c
                                THEN "reset" ELSE peer[c]]
  /\ UNCHANGED <<proc, single_client, bserver, objVars, main_ptr>>

Main ==
  /\ \/ MainPoll \/ MainProbe \/ MainSend \/ MainSyscall
     \/ MainCatch \/ MainStop \/ MainClose \/ MainClear
     \/ StopOff \/ StopShut
  /\ UNCHANGED <<rx, accVars, handVars>>

-----------------------------------------------------------------------------
Next ==
  /\ proc = "up"
  /\ \/ Acceptor
     \/ Main
     \/ StopServer
     \/ \E c \in Clients: Handler(c) \/ Peer(c)

Spec == Init /\ [][Next]_vars

\* The scheduler runs every thread that can run; peers, and whoever decides to
\* stop the server, owe nothing.
Fairness ==
  /\ WF_vars(proc = "up" /\ Acceptor)
  /\ WF_vars(proc = "up" /\ Main)
  /\ \A c \in Clients: WF_vars(proc = "up" /\ Handler(c))

FairSpec == Spec /\ Fairness

-----------------------------------------------------------------------------
(* Safety *)

\* Every variable stays in its type; the program counters and the data of a
\* socket in particular.
TypeOK ==
  /\ proc \in ProcStates
  /\ bserver \in BOOLEAN
  /\ listen_shut \in BOOLEAN
  /\ backlog \in Seq(Clients)
  /\ single_client \in Slot
  /\ binded \in [Clients -> BOOLEAN]
  /\ shut \in [Clients -> BOOLEAN]
  /\ rx \in [Clients -> 0..MaxRx]
  /\ peer \in [Clients -> {"none", "open", "fin", "reset"}]
  /\ fds \in FdBase..FdLimit
  /\ acc_pc \in AcceptorPcs
  /\ acc_new \in Slot
  /\ pc \in [Clients -> HandlerPcs]
  /\ ptr \in [Clients -> Slot]
  /\ main_pc \in MainPcs
  /\ main_ptr \in Slot

\* single_client never names a connection whose handler gave up or has not
\* begun: call_back (TCP_CS.cpp:447-536) empties the slot on each of its ways
\* out, between the tests of three threads that write the slot without a lock.
RegisteredIsServed == single_client # NULL => pc[single_client] \in ServePcs

\* A connection enters the slot only while its object is bound and its socket
\* was not shut down: nobody holds a pointer that would let the sender, a
\* newcomer or stop_server stop it before call_back registered it
\* (TCP_CS.cpp:457), and it is never registered again after it was stopped.
RegistersOnlyOpen ==
  [][single_client' \notin {single_client, NULL}
       => binded[single_client'] /\ ~shut[single_client']]_vars

\* The stage of ClientSlot at which the handler of each connection is.
Stage == [c \in Clients |->
            CASE pc[c] = "done" -> "retired"
              [] pc[c] \in ServePcs \cup ExitPcs -> "serving"
              [] OTHER -> "new"]

Slots == INSTANCE ClientSlot WITH slot <- single_client, stage <- Stage

\* single_client is the slot of ClientSlot: a connection is registered once,
\* and its handler returns (TCP_CS.cpp:504, 539) only after the slot stopped
\* naming it.
SlotSpec == Slots!Spec

\* The connections that ever had a handler.
Started == {c \in Clients: pc[c] # "idle"}

\* Seven descriptors go for good with each connection (three for the object of
\* accept_client, the connection, three for the copy of TCP_CS.cpp:341).  The
\* exception of open() ends the process only when the limit does not hold them
\* for the connections handled so far and one more.
TerminateNeedsExhaustion ==
  proc = "terminate" => FdLimit < FdBase + 7 * (Cardinality(Started) + 1)

-----------------------------------------------------------------------------
(* Liveness, under Fairness *)

Ended == proc # "up"

\* A handler whose connection is over returns, wherever it was: its peer is gone,
\* whatever data is left and whoever is registered (TCP_CS.cpp:461-514), or anybody
\* stopped it, since stop_client (TCP_CS.cpp:201-221) wakes a blocked recv().
HandlerReturns ==
  \A c \in Clients:
    \/ pc[c] # "idle" /\ peer[c] \in {"fin", "reset"}
    \/ pc[c] \in ServePcs /\ ~binded[c]
    ~> pc[c] = "done" \/ Ended

-----------------------------------------------------------------------------
(* What the source relies on, and the code does not do *)

\* sockman.cpp:333 tests server.single_client against NULL, the condition for
\* the calls at 333 and 337.  A handler resets it in between.
NullIsNotCalled == proc # "segv"

=============================================================================
