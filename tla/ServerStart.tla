---------------------------- MODULE ServerStart ----------------------------
(***************************************************************************)
(* How "sockman cserver" brings its TCP_CS server up (sockman.cpp:287-326):*)
(* it calls creat_server and start_server; when creat_server throws it     *)
(* calls stop_server, sleeps and tries again, Attempts times.  Meanwhile   *)
(* other processes take and leave the port.  TcpCsServer begins where this *)
(* module reaches "serve".                                                 *)
(***************************************************************************)
EXTENDS Naturals

CONSTANTS
  Attempts,       \* 30 in cserver
  FdBase,         \* descriptors open when the first attempt begins
  FdLimit         \* descriptors the process may hold (RLIMIT_NOFILE)

ASSUME AttemptsAssumption == Attempts \in Nat \ {0}
ASSUME FdAssumption == FdBase \in Nat /\ FdLimit \in Nat /\ FdBase <= FdLimit

VARIABLES
  opened,         \* server._opened
  binded,         \* server._binded
  type,           \* server._type
  bserver,        \* server._bserver
  sock,           \* what the kernel made of the socket of the server
  fds,            \* descriptors the process holds
  acceptor,       \* the thread of ServerProc exists
  count,          \* attempts that failed
  pc,             \* the place in the program
  others          \* what other processes do with the port

object == <<opened, binded, type, bserver>>
vars == <<object, sock, fds, acceptor, count, pc, others>>

\* The constructor of the global object opened a socket.
Init ==
  /\ opened = TRUE
  /\ binded = FALSE
  /\ type = "uninit"
  /\ bserver = FALSE
  /\ sock = "fresh"
  /\ fds = FdBase
  /\ acceptor = FALSE
  /\ count = 0
  /\ pc = "create"
  /\ others \in {"none", "bound", "listening"}

At(from, to) == pc = from /\ pc' = to

\* Other processes bind the port, listen on it and leave it.  Nobody listens or
\* binds beside a socket that listens.
Others ==
  /\ others' \in {"none", "bound", "listening"} \ {others}
  /\ sock = "listening" => others' = "none"
  /\ UNCHANGED <<object, sock, fds, acceptor, count, pc>>

\* open() takes a descriptor unless the object has one.
NeedsSocket == ~opened

\* Mutant: the object is bound before bind() succeeded.
BindSetsFirst ==
  /\ At("create", IF binded \/ others # "none" THEN "caught" ELSE "listen")
  /\ binded' = TRUE
  /\ sock' = IF binded \/ others # "none" THEN sock ELSE "bound"
  /\ UNCHANGED <<opened, type, bserver, fds>>

\* listen_on_port(), called by creat_server: a bound object, open() and bind() may
\* throw.  SO_REUSEADDR lets a socket be bound beside others that are bound, if
\* they set it too.
Bind ==
  \/ /\ binded \/ (NeedsSocket /\ fds = FdLimit)
     /\ At("create", "caught")
     /\ UNCHANGED <<object, sock, fds>>
  \/ /\ ~binded /\ (NeedsSocket => fds < FdLimit)
     /\ opened' = TRUE
     /\ fds' = IF NeedsSocket THEN fds + 1 ELSE fds
     /\ \/ /\ others # "none"
           /\ At("create", "caught")
           /\ sock' = IF NeedsSocket THEN "fresh" ELSE sock
           /\ UNCHANGED binded
        \/ /\ others # "listening"
           /\ At("create", "listen")
           /\ sock' = "bound"
           /\ binded' = TRUE
     /\ UNCHANGED <<type, bserver>>

\* Mutant: the object is a server before listen() succeeded.
ListenSetsFirst ==
  /\ At("listen", IF others = "listening" THEN "caught" ELSE "start")
  /\ sock' = IF others = "listening" THEN sock ELSE "listening"
  /\ type' = "server"
  /\ bserver' = TRUE
  /\ UNCHANGED <<opened, binded, fds>>

\* The rest of creat_server.
ListenAndSet ==
  \/ /\ others = "listening"
     /\ At("listen", "caught")
     /\ UNCHANGED <<object, sock, fds>>
  \/ /\ others # "listening"
     /\ At("listen", "start")
     /\ sock' = "listening"
     /\ type' = "server"
     /\ bserver' = TRUE
     /\ UNCHANGED <<opened, binded, fds>>

\* start_server(): whether the thread was made is not looked at.
Start ==
  /\ At("start", "serve")
  /\ bserver /\ type = "server"
  /\ acceptor' \in BOOLEAN
  /\ UNCHANGED <<object, sock, fds>>

\* stop_server() does nothing on an object that is not a running server.
StopServer ==
  IF bserver /\ type = "server"
  THEN /\ bserver' = FALSE
       /\ opened' = FALSE
       /\ binded' = FALSE
       /\ sock' = "shut"
       /\ UNCHANGED type
  ELSE UNCHANGED <<object, sock>>

\* The catch block.
Caught ==
  /\ At("caught", "sleep")
  /\ StopServer
  /\ UNCHANGED <<fds, acceptor, count>>

\* The end of a round, and the way out behind the last.
Again ==
  /\ At("sleep", IF count + 1 < Attempts THEN "create" ELSE "end")
  /\ count' = count + 1
  /\ IF count + 1 = Attempts THEN StopServer ELSE UNCHANGED <<object, sock>>
  /\ UNCHANGED <<fds, acceptor>>

Program ==
  /\ \/ (Bind \/ ListenAndSet) /\ UNCHANGED <<acceptor, count>>
     \/ Start /\ UNCHANGED count
     \/ Caught
     \/ Again
  /\ UNCHANGED others

Next == Program \/ Others

Spec == Init /\ [][Next]_vars

\* The scheduler runs the program.  Other processes owe nothing.
FairSpec == Spec /\ WF_vars(Program)

-----------------------------------------------------------------------------
(* Properties *)

TypeOK ==
  /\ opened \in BOOLEAN
  /\ binded \in BOOLEAN
  /\ type \in {"uninit", "server"}
  /\ bserver \in BOOLEAN
  /\ sock \in {"fresh", "bound", "listening", "shut"}
  /\ fds \in FdBase..FdLimit
  /\ acceptor \in BOOLEAN
  /\ count \in 0..Attempts
  /\ pc \in {"create", "listen", "start", "caught", "sleep", "serve", "end"}
  /\ others \in {"none", "bound", "listening"}

\* Whatever became of earlier attempts, the object tells what its socket is: bound
\* when _binded says so, a server only when it listens; and the program serves
\* with a listening socket or not at all (sockman.cpp:293-326).
FlagsTellSocket ==
  /\ binded <=> sock \in {"bound", "listening"}
  /\ bserver <=> sock = "listening"
  /\ bserver <=> pc \in {"start", "serve"}

\* All attempts share the socket of the constructor (CommonSocket.cpp:77, 103).
OneSocket == fds = FdBase

\* A failed bind() spoils no later attempt: once nobody else uses the port, for
\* good, and the socket is not left bound by a listen() that failed, the server is
\* brought up (CommonSocket.cpp:113-120: _binded is set behind bind() only).
StartsOnFreePort ==
  [](pc = "create" /\ sock = "fresh" /\ [](others = "none") => <>(pc = "serve"))

=============================================================================
