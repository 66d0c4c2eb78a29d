------------------------------ MODULE CsClient ------------------------------
(***************************************************************************)
(* "sockman cclient" (sockman.cpp:374-472): one TCP_CS object that is      *)
(* connected, read from, stopped and connected again for ever, the kernel  *)
(* behind it, and a server that comes and goes.                            *)
(*                                                                         *)
(* The object has a new socket for each connection, since close() only     *)
(* shuts the old one down.  link is what became of the last one.  The loop *)
(* asks select() whether it is connected, receives, acknowledges, sends a  *)
(* heart beat every HeartBeat rounds, and starts over when anything fails. *)
(***************************************************************************)
EXTENDS Integers

CONSTANTS
  HeartBeat,      \* rounds between two heart beats, 15 in cclient
  Floor,          \* bound: the counter of rounds is not followed below it (an int)
  MaxRx,          \* bound: pieces of unread data a socket holds
  FdBase,         \* descriptors open when the loop begins
  FdLimit         \* descriptors the process may hold (RLIMIT_NOFILE)

ASSUME HeartBeatAssumption == HeartBeat \in Nat \ {0}
ASSUME FloorAssumption == Floor \in Int /\ Floor < 0
ASSUME MaxRxAssumption == MaxRx \in Nat \ {0}
ASSUME FdAssumption == FdBase \in Nat /\ FdLimit \in Nat /\ FdBase <= FdLimit

VARIABLES
  proc,           \* "up", or what ended the process
  opened,         \* c_client._opened
  binded,         \* c_client._binded
  type,           \* c_client._type
  link,           \* the socket of c_client
  rx,             \* pieces of data received and not yet read
  fds,            \* descriptors the process holds; none is ever released
  made,           \* connections made so far
  heart,          \* count_need_heart_beat
  pc,             \* the place in the loop
  listening       \* the server accepts connections

object == <<opened, binded, type>>
clientVars == <<proc, object, link, rx, fds, made, heart, pc, listening>>

\* A socket that was never connected; connected, and what its peer did since (a
\* reset after an end of file is "broken", one whose error was reported "spent");
\* and shut down by close().
Connected == {"open", "fin", "reset", "broken", "spent"}
Links == {"fresh", "closed"} \cup Connected

\* The constructor of the global object opened a socket.
ClientInit ==
  /\ proc = "up"
  /\ opened = TRUE
  /\ binded = FALSE
  /\ type = "uninit"
  /\ link = "fresh"
  /\ rx = 0
  /\ fds = FdBase
  /\ made = 0
  /\ heart = HeartBeat
  /\ pc = "connect"
  /\ listening \in BOOLEAN

-----------------------------------------------------------------------------
(* The server *)

\* The server begins or ceases to accept.
Listen ==
  /\ listening' = ~listening
  /\ UNCHANGED <<link, rx>>

ServerSends ==
  /\ link = "open"
  /\ rx < MaxRx
  /\ rx' = rx + 1
  /\ UNCHANGED <<link, listening>>

\* The server closes its end, or the connection is reset.
ServerHangsUp ==
  /\ \/ link = "open" /\ link' \in {"fin", "reset"}
     \/ link = "fin" /\ link' = "broken"
  /\ UNCHANGED <<rx, listening>>

Server ==
  /\ Listen \/ ServerSends \/ ServerHangsUp
  /\ UNCHANGED <<proc, object, fds, made, heart, pc>>

-----------------------------------------------------------------------------
(* The loop *)

At(from, to) == pc = from /\ pc' = to

\* Mutant: select() does not report an end of file.
ReadableWithoutEof == rx > 0 \/ link \in {"reset", "broken", "spent"}

\* select() reports the socket readable: data, an end of file or an error.
Readable == rx > 0 \/ link \in Connected \ {"open"}

\* is_connecteed(): bound and nothing to read.
IsConnecteed == binded /\ ~Readable

\* while(c_client.is_connecteed())
While ==
  /\ At("while", IF IsConnecteed THEN "receive" ELSE "stop")
  /\ UNCHANGED <<proc, object, link, rx, fds, made, heart>>

\* receive() blocks in recv() until the socket is readable.  The exception of a
\* reset is caught on the spot and the round goes on as for an end of file, since
\* client_recv_byte is still 0.
Receive ==
  /\ Readable
  /\ \/ /\ At("receive", "ack")
        /\ \E n \in 1..rx: rx' = rx - n
        /\ UNCHANGED link
     \/ /\ At("receive", "beat")
        /\ rx = 0 /\ link \in {"fin", "spent"}
        /\ UNCHANGED <<link, rx>>
     \/ /\ At("receive", "beat")
        /\ rx = 0 /\ link \in {"reset", "broken"}
        /\ link' = "spent"
        /\ UNCHANGED rx
  /\ UNCHANGED <<proc, object, fds, made, heart>>

\* send() reaches the kernel.
Sent ==
  /\ link \in {"open", "fin"}
  /\ UNCHANGED <<proc, link>>

\* ::send() on a connection that was reset: the error is reported once, as an
\* exception that leaves the loop.  After an end of file, and when the error was
\* reported before, SIGPIPE ends the process.
SendFails ==
  \/ /\ link = "reset"
     /\ link' = "spent"
     /\ UNCHANGED proc
  \/ /\ link \in {"broken", "spent"}
     /\ proc' = "sigpipe"
     /\ UNCHANGED link

\* The acknowledgement of what was received.
Ack ==
  /\ \/ At("ack", "beat") /\ Sent
     \/ At("ack", "stop") /\ SendFails
  /\ UNCHANGED <<object, rx, fds, made, heart>>

\* count_need_heart_beat--, which is not followed below Floor.
Decremented == IF heart > Floor THEN heart - 1 ELSE heart

\* A heart beat when the counter reaches zero.  It starts again only behind a
\* send() that did not throw.
Beat ==
  /\ \/ /\ Decremented # 0
        /\ At("beat", "while")
        /\ heart' = Decremented
        /\ UNCHANGED <<proc, link>>
     \/ /\ Decremented = 0
        /\ \/ At("beat", "while") /\ heart' = HeartBeat /\ Sent
           \/ At("beat", "stop") /\ heart' = 0 /\ SendFails
  /\ UNCHANGED <<object, rx, fds, made>>

\* Mutant: stop_client() does nothing once is_connecteed() was false.
StopWhenConnected ==
  /\ At("stop", "connect")
  /\ IF type = "client" /\ IsConnecteed
     THEN /\ opened' = FALSE
          /\ binded' = FALSE
          /\ type' = "uninit"
          /\ link' = "closed"
          /\ rx' = 0
     ELSE UNCHANGED <<object, link, rx>>
  /\ UNCHANGED <<proc, fds, made, heart>>

\* stop_client() closes an object that was connected and leaves any other alone.
Stop ==
  /\ At("stop", "connect")
  /\ IF type = "client"
     THEN /\ opened' = FALSE
          /\ binded' = FALSE
          /\ type' = "uninit"
          /\ link' = "closed"
          /\ rx' = 0
     ELSE UNCHANGED <<object, link, rx>>
  /\ UNCHANGED <<proc, fds, made, heart>>

\* Mutant: open() without its guard.
NeedsSocketAlways == TRUE

\* open() behind its guard: the socket of a failed attempt is used again.
NeedsSocket == ~opened

\* Mutant: the object is bound before connect() succeeded.
ConnectBindsFirst ==
  /\ At("connect", "while")
  /\ ~binded
  /\ fds' = IF NeedsSocket THEN fds + 1 ELSE fds
  /\ opened' = TRUE
  /\ binded' = TRUE
  /\ type' = "client"
  /\ link' = IF listening THEN "open" ELSE "fresh"
  /\ made' = IF listening THEN made + 1 ELSE made
  /\ UNCHANGED <<proc, rx, heart>>

\* connect_to(): the exceptions of a bound object, of open() and of connect() are
\* all caught.
Connect ==
  /\ At("connect", "while")
  /\ \/ /\ binded \/ (NeedsSocket /\ fds = FdLimit)
        /\ UNCHANGED <<object, link, fds, made>>
     \/ /\ ~binded /\ (NeedsSocket => fds < FdLimit)
        /\ fds' = IF NeedsSocket THEN fds + 1 ELSE fds
        /\ opened' = TRUE
        /\ IF listening
           THEN /\ binded' = TRUE
                /\ type' = "client"
                /\ link' = "open"
                /\ made' = made + 1
           ELSE /\ link' = "fresh"
                /\ UNCHANGED <<binded, type, made>>
  /\ UNCHANGED <<proc, rx, heart>>

Client ==
  /\ While \/ Receive \/ Ack \/ Beat \/ Stop \/ Connect
  /\ UNCHANGED listening

ClientNext == proc = "up" /\ (Client \/ Server)

ClientSpec == ClientInit /\ [][ClientNext]_clientVars

\* The scheduler runs the client when it can run.  The server owes nothing.
ClientFair == ClientSpec /\ WF_clientVars(proc = "up" /\ Client)

-----------------------------------------------------------------------------
(* Properties *)

ClientTypeOK ==
  /\ proc \in {"up", "sigpipe"}
  /\ opened \in BOOLEAN
  /\ binded \in BOOLEAN
  /\ type \in {"uninit", "client"}
  /\ link \in Links
  /\ rx \in 0..MaxRx
  /\ fds \in FdBase..FdLimit
  /\ made \in Nat
  /\ heart \in Floor..HeartBeat
  /\ pc \in {"while", "receive", "ack", "beat", "stop", "connect"}
  /\ listening \in BOOLEAN

\* The flags of the object tell what its socket is, through any number of
\* connections and failed attempts; so connect_to() is never called on an object
\* that still claims to be bound (TCP.cpp:75), which it would refuse for ever.
FlagsTellLink ==
  /\ binded <=> link \in Connected
  /\ opened <=> link # "closed"
  /\ binded <=> type = "client"
  /\ pc = "connect" => ~binded

\* A connection costs one descriptor for good and a failed attempt none: open()
\* takes a new one only when the last was connected (CommonSocket.cpp:77,
\* TCP.cpp:77).
OneDescriptorPerConnection ==
  fds + (IF link = "fresh" THEN 0 ELSE 1) = FdBase + made

\* The client does not stay with a connection that is over, wherever it learns of
\* it: the errors of receive() at 419-426 and its 0 are both ignored, and only the
\* next select() or send() leaves the loop (sockman.cpp:407-446).
LeavesTheDead ==
  binded /\ link # "open" ~> ~binded \/ proc # "up"

\* The client connects again as long as there is a server and a descriptor
\* (sockman.cpp:453-462).
Reconnects ==
  \/ []<>(~listening)
  \/ []<>(link = "open")
  \/ <>(proc # "up" \/ fds = FdLimit)

=============================================================================
