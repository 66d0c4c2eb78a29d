# Verification of Sockman

Sockman (`src/sockman`) is a small C++ socket library with a demonstration
program. One executable, `sockman <mode>`, is a file receiver (`server`), a file
sender (`client`), a UDP pair (`udpsrv`, `udpcli`), a multi-threaded TCP server
(`cserver`) or a reconnecting TCP client (`cclient`). This directory holds TLA+
models of the parts in which order, threads and failures matter, the TLC
configurations that check them on small instances, and TLAPS proofs of what
matters most for every instance.

## 1. Inventory

### Components

| component | state | operations | talks to |
|---|---|---|---|
| **TCP_CS server** (`TCP_CS.cpp`, `Socket.hpp:416-548`) | `_bserver`, `_type`, `single_client`, the listening socket; per connection a heap object with `_binded`, `_opened`, `_bconnected`, a socket | `creat_server`, `start_server`, `ServerProc` (acceptor thread), `DealProc`/`call_back` (one thread per connection), `stop_client`, `stop_server`, `is_connecteed` | all its threads through the unprotected members; the sender of `cserver`; peers through TCP |
| **cserver main loop** (`sockman.cpp:287-373`) | the global `server` | start-up with retries; then for ever: if a client is registered and idle, send it 13 bytes; on an exception stop the registered client | `server.single_client` |
| **TCP_MAN / TCP file transfer** (`TCPMan.cpp`, `TCP.cpp:102-169`, `sockman.cpp:106-139`) | file position, loop counters, a 1024-byte buffer on each side | `send_file`, `receive_file` | the other process over one connection |
| **cclient loop** (`sockman.cpp:374-472`) | the global `c_client`, a heart-beat counter | connect, receive, acknowledge, heart beat, reconnect | a TCP server |
| **CommonSocket / TCP life cycle** (`CommonSocket.cpp`, `TCP.cpp:33-100`) | `_socket_id`, `_opened`, `_binded` | `open`, `close`, `listen_on_port`, `connect_to`, `accept_client` | the kernel |
| **UDP, Datagram, Address** (`UDP.cpp`, `Datagram.cpp`, `Address.cpp`, `sockman.cpp:141-224`) | the socket; in a datagram its data, address and counts | typed `send` and `receive`, `listen_on_port`, `port` | another UDP socket |
| **SocketException** | a message | printed | |
| **loger** (`loger.cpp`) | one logger id | `setup_loger`: make a logger, set its flags, start log4z | log4z |
| **log4z queue** (`log4z.cpp:1094-1233, 1398-1578, 1752-1894`, `log4z.h:379-437`) | the queue of log entries, the pool of free ones, their lock, `_runing`, `_enable` and `_level` of each logger | `LOG_STREAM`, `enableLogger`, `setLoggerLevel`, `hotChange`, `start`, `stop`, `run` | every thread that logs, through shared members with and without the lock |
| **log4z files and text** (`log4z.cpp:1206-1218, 1436-1507, 1622-1750, 1790-1873`, `log4z.h:508-783`) | the file of each logger, its day, index and length, the buffer of a line | `writeString` and the other `operator<<`, `openLogger`, the flush at the end of the loop | the writer thread |
| **log4z configuration** (`log4z.cpp:547-770, 1236-1395, 1559-1620`) | `_ids`, the fields of each logger, the checksum of the last configuration | `createLogger`, `config`, `configFromString`, `updateConfig`, the setters | the configuration file; the queue |
| **jsoncpp** (`jsoncpp.cpp`, `json/`) | a tree of values; the reader's stack of values, its errors and comments | `Reader::parse`, the operations of `Value`, `FastWriter`, `StyledWriter`, `StyledStreamWriter` | `json_test1`, which makes the file that is sent |
| **test/main_test.cpp** | ctest driver that compares its argument with 2 | | |

`log4z` and `jsoncpp` are third-party code compiled into the program: most of its
lines, the threads of one and the state machine of the other are theirs.

### What is hard, and what must be right

*TCP_CS server.* Three kinds of thread use `single_client` and the flags of the
client objects with no lock: the acceptor makes objects, every handler compares,
sets and resets `single_client`, the main loop tests it, sends to it and stops
it, `stop_server` does the same. A client object is never deleted and its
descriptor never closed, so there is no use after free, but every comparison is
stale when it is acted upon. What must be right all the same:

- whoever `single_client` names still has a handler that will take it out;
- a connection that somebody stopped is never registered afterwards;
- a handler blocked in `recv()` returns once its connection is stopped or its
  peer is gone, and the acceptor returns once the server is stopped;
- descriptors run out only because connections used them up.

*File transfer.* Two loops must count the same number of parts for every size;
results of `recv()` are ignored, so a short read or a dead peer is taken for a
full buffer. What must be right: with whole reads the copy is the file; in every
case both sides return, and what was sent is in place.

*cclient.* One object is closed and opened again for ever; errors of `receive`
leave a counter at 0 that the error branch tests for a negative value, so only
`select()` or `send()` tells that a connection is over. What must be right: the
client leaves a dead connection and makes a new one, its flags never make
`connect_to` refuse, and a failed attempt costs no descriptor.

*Life cycle, start-up.* `_binded` and `_opened` must follow the descriptor through
failing calls, so that one failed attempt to start the server does not spoil the
next; `listen()` failing behind a successful `bind()` leaves `_binded` set.

*log4z.* Any number of threads log while others change loggers and one writes. The
sizes of the queue and of the pool, `_runing` and the attributes are read without
the lock, a change is made at once or queued behind the lines, the time of a line is
taken before it is queued, and a file is flushed when the queue was seen empty. What
must be right: a block has one owner, the queue is a FIFO that stays near its limit,
`stop()` returns and what was pushed before it is handled, a disabled logger gets
disabled; a file holds lines of its own day, in its size, and nothing stays in its
buffer; a configuration is in force as a whole.

*jsoncpp.* The reader keeps pointers into a tree that it changes, recovers from errors by
skipping tokens, and attaches comments to values behind its back. What must be right:
the pointers are alive, every failure is reported, good documents and only those are
accepted, integers are exact up to the limits of their types, and what is written is
read back.

*UDP.* Every call has its own idea of lengths, in elements or in bytes, and the network
may drop, repeat and reorder. What must be right: a string is terminated, nothing is
cut that came in order, and the receiver returns if everything arrives.

The list of hazards, line by line and with the property that covers each, is in
`PROJECT.json`.

## 2. Modules

| module | what it is |
|---|---|
| `ClientSlot` | abstract specification of `single_client` |
| `TcpCsServer` | the server, its threads, the main loop, `stop_server`, the peers |
| `TcpCsServerProofs` | theorems about `TcpCsServer` and `ClientSlot` |
| `ServerStart` | the start-up attempts of cserver: `creat_server`, `start_server`, `stop_server` |
| `CsClient` | the loop of cclient, its socket, and a server that comes and goes |
| `FileCopy` | abstract specification of a transfer |
| `TcpManTransfer` | `send_file` and `receive_file` over one connection |
| `TcpProofs` | theorems about `TcpManTransfer` and about `CsClient` |
| `LogPipe` | abstract specification of the log queue |
| `Log4zQueue` | threads that log and change loggers, the writer thread, start and stop |
| `Log4zQueueProofs` | theorems about `Log4zQueue` |
| `LogText` | the buffer in which a line is put together |
| `Log4zFiles` | one logger, its files, and the writer; extends `LogText` |
| `Log4zConfig` | loggers, configurations, the setters, the automatic update |
| `JsonText` | numbers and strings between text and value |
| `JsonValue` | `Json::Value` as a tree; extends `JsonText` |
| `JsonReader` | `Reader::parse`, token by token; extends `JsonValue` |
| `JsonWriter` | the three writers, as tokens; extends `JsonValue` |
| `Json` | a program that parses, changes, writes and parses again; extends the two |
| `Udp` | `udp_sender`, `udp_receiver`, `UDP`, and a network |
| `SocketProofs` | theorems about `ServerStart` and about `Udp` |
| `Log4zFilesProofs` | theorems about `Log4zFiles` |
| `Log4zConfigProofs` | theorems about `Log4zConfig` |
| `JsonProofs` | theorems about `Json` and what it extends |
| `JsonRoundProofs` | the tree and the round trip of `Json`; extends `JsonProofs` |
| `MCTcpCsServer`, `MCServerStart`, `MCCsClient`, `MCTcpManTransfer`, `MCLog4zQueue`, `MCLog4zFiles`, `MCLog4zConfig`, `MCJson`, `MCUdp` | instances for TLC |

`ServerStart` ends where `TcpCsServer` begins: at `"serve"` the socket listens, `_bserver`
is set and the acceptor was started. The peers of `TcpCsServer` do all that a client can
do with a connection, and the server of `CsClient` all that a server can do; neither
depends on the other's code.

### TcpCsServer

The state is that of the program after `creat_server` and `start_server`
succeeded. `pc[c]` is the handler thread of connection `c`, `acc_pc` the acceptor,
`main_pc` the main loop. Between two values of a program counter there is one
read or write of a shared variable, so every interleaving the C++ threads have is
a behaviour of the model:

| action | code |
|---|---|
| `AcceptorLoop`, `Accept`, `Dispatch` | `ServerProc` 309-378, `accept_client` 223-237 |
| `Entry`, `Probe`, `Evict`, `EvictClose`, `Register` | a newcomer looks at `single_client`, stops its predecessor if that one is connected, and registers: 447-459 |
| `Loop`, `Receive`, `Recv` | the receive loop 461-491 |
| `Eof`, `EofClear` | nothing was received: 492-505 |
| `Left`, `LeftClear`, `Down`, `DownClear`, `ExitCheck`, `ExitStop`, `ExitClose` | behind the loop: 515-539 |
| `MainPoll`, `MainProbe`, `MainSend`, `MainSyscall` | sockman.cpp 333-337, `TCP::send` |
| `MainCatch`, `MainStop`, `MainClose`, `MainClear` | sockman.cpp 359-367; `MainStop`, `MainClose` and `MainClear` also serve `stop_server` |
| `StopServer`, `StopOff`, `StopShut` | `stop_server` 183-199 |
| `PeerConnect`, `PeerSend`, `PeerHangUp` | the other end: connect, send, close, reset |

What the model abstracts:

- *Data* is a count of pieces per socket, `rx`. `Readable` is what `select()` would
  say: data, an end of file, an error, or a shutdown of this side.
- *Flags.* `_opened`, `_type` and `_bconnected` of a client object are left out.
  `stop_client` has two branches on them that both end in `_binded = false` and
  `close()`, and a second call on the same object changes nothing more.
- *Compiler freedom.* `if(p!=NULL && p->is_connecteed())` reads a member that
  another thread writes. `Reread` lets the second use take either the value
  tested or a new read. Where a system call or a log call lies between, the
  pointer is read again.
- *Two reads in one test* (`server->is_on_server() && client->is_connecteed()`) are
  one step: `_bserver` never returns to TRUE, and only the handler itself empties
  its socket, so the order cannot be seen.
- *A call on the null pointer* ends the process, `proc = "segv"`. So does a send to a
  socket that was shut down, by SIGPIPE, and an exception that leaves a thread.
- *Descriptors* are counted, never released: three when an object is constructed
  (its TCP base and the two unused members), one per connection, three for the
  copy made in `ServerProc`: seven per connection.
- `MayStop`: `stop_server` is public and has its own promises in `Socket.hpp`, but
  cserver reaches it only behind an endless loop (`sockman.cpp:371`) or before the
  threads exist. Findings that need it are found with it, the others without.

### ServerStart

`opened`, `binded`, `type`, `bserver` are the flags of the global `server`, `sock` what the kernel
made of its socket, `others` what other processes do with the port: nothing, hold it
bound, or listen on it. They may change it between any two system calls.

| action | code |
|---|---|
| `Bind` | `listen_on_port`, `CommonSocket.cpp:99-121` |
| `ListenAndSet` | the rest of `creat_server`, `TCP_CS.cpp:128-140` |
| `Start` | `start_server` 142-181; cserver ignores what it returns, so the program goes on without an acceptor when the thread cannot be made |
| `Caught`, `Again` | the catch block and the end of a round, `sockman.cpp:306-325` |

### CsClient

`link` is the socket of the latest connection: never connected (`"fresh"`), `"open"`, closed or
reset by the peer, or shut down by `close()`. A reset that follows an end of file
is `"broken"`: the next `send()` raises SIGPIPE, as it does when the error of a reset was
already reported (`"spent"`). `fds` and `made` count descriptors and connections.

| action | code (`sockman.cpp`) |
|---|---|
| `Connect` | `connect_to`, called at 392 and 457 with its catch blocks |
| `While` | 407: `is_connecteed()`, which is false when there is something to read |
| `Receive` | 414-426, with the inner catch block |
| `Ack`, `Beat` | 427-438, and the outer catch block |
| `Stop` | 453: `stop_client` |

`is_connecteed()` is also called behind each `connect_to`, to log; that has no effect and
is left out. The heart-beat counter is the code's: it starts again at `HeartBeat` only
behind a `send()` that returned. When that `send()` throws, the counter stays at zero and
goes below it in the next connection, after which the test `== 0` fails for
2^32 rounds and no heart beat is sent; the model follows it down to `Floor`.

### TcpManTransfer

`s_pc`, `s_i` are the sender's place and the number of parts it sent; `r_pc`, `r_i` the
receiver's. `header`, `down` and `up` are what is on its way: the size, the bytes,
the synchronisation bytes. `chunk` is the receiver's buffer, which keeps the bytes
a short read did not replace; `out` is what was given to `fp.write`.

| action | code (`TCPMan.cpp`) |
|---|---|
| `SendSize`, `AwaitSync`, `SendPart` | `send_file` 69-73; 77, 85; 78-80, 86-88 |
| `ReceiveSize`, `SendSync`, `ReceiveAndWrite` | `receive_file` 108; 113, 121; 114-116, 122-124 |
| `SenderDies`, `ReceiverDies` | a file that cannot be opened, or a killed process |

`Parts` and `Part` are the loop bound `file_size / 1024` and the remainder test, for
both sides. `ShortReads` lets `recv()` return any non-empty beginning of what was
sent; without it a part arrives whole. When the other process has ended `recv()`
returns 0, or -1 if the connection may have been reset: data was left unread or
something was sent to the closed side. The eight bytes of the size are taken as one
unit. A size that never arrives is uninitialised: any size of the instance.
Errors of `fp.write` are not modelled (the code does not look at them).

### Log4zQueue

`logs` is the queue and `pool` the stack of free blocks, both of blocks (`Data`) whose
content is `heap`; `alloc` are the blocks between `new` and `delete`. `pc[t]` says where a
thread is inside `LOG_STREAM` or a setter, `mine[t]` which block it has. `w` is where `run`
is, and the writer logs through the same functions as the others (its greetings), with
`pc[WRITER]`. `ctl` is the main thread.

| action | code (`log4z.cpp`) |
|---|---|
| `PrePush`, `MakeLogData`, `Reuse`, `PushTest`, `Push` | `prePushLog` 1420, `makeLogData` 1160-1218, `pushLog` 1436-1507: the tests without the lock are steps of their own |
| `FreeTest`, `Keep` | `freeLogData` 1221-1233 |
| `HotChange`, `EnableLogger`, `SetLoggerLevel` | 1521-1578; `OnHotChange` is also what the writer does with a change it popped |
| `Run`, `Greet`, `Post`, `PopLog`, `Handle`, `Quit`, `Exit` | `run` 1764-1894 |
| `Start`, `Wait`, `Stop`, `Join` | `start` 1398-1408 with its three seconds, `~LogerManager` and `stop` 1409-1419 |

The text of a message is left out: it is its thread and number. Synchronous mode and
display are left out: nothing in the program selects the first.

### LogText and Log4zFiles

A line is its length and where its parts lie in the buffer of `BufSize` bytes: `Prefix`,
then the pieces that `operator<<` puts there (`WriteData` for numbers, `WriteString` and
`WriteContainer`, each cut to what is left), then `EndLine`. `Log4zFiles` follows one logger:
`todo` is what the queue has for it; `Handle` pops, applies a change or opens, rolls and
writes (`openLogger` 1651-1736, `run` 1790-1850), with failures of `fopen` and `fwrite`; `Drained`,
`Flush` and `CloseDisabled` are the end of the loop, 1853-1864, with its two reads of
`_enable`. Times are minutes, and a message may be up to `Slack` minutes late.

### Log4zConfig

`Parse` is `parseConfigFromString` over lines that are already trimmed; `Set` and `Queue` are
the setters, which change at once what may be changed at once and queue the rest.
`ConfigFromStringImpl` (1276-1330) is shared by `Config`, `ConfigFromString` and
`UpdateConfig`; it reads nothing when the sum of the bytes is the last one. `Edit` changes
or removes the file at any time.

### JsonText, JsonValue, JsonReader, JsonWriter, Json

The document of `JsonReader` is whatever sequence of tokens TLC chooses: `Offered` has every
token for the first `WideTokens` and then those the innermost function has a use for, with
"error" for the others. The recursive functions of the reader are a stack, `frames`; `node`
is `nodes_`, `last` is `lastValue_`, `before` is whether `commentsBefore_` holds something.

| action | code (`jsoncpp.cpp`) |
|---|---|
| `Value` | `readValue` |
| `NameOrEnd`, `Colon`, `Comma`, `CommaAfterComment` | `readObject` |
| `First`, `Separator` | `readArray` |
| `Recover` | `recoverFromError` |
| `Finish` | the end of `parse` |

`JsonValue` has paths for addresses: a value is where it is until its parent is assigned,
as in a `std::map`. `JsonText` has the limits `MaxInt` and `LargestInt` as constants, so
that a number with two digits may be out of range. `Json` composes: `Parse` is the reader's
`Next`, then `SetMember`, `RemoveKey`, `AppendValue`, `ResizeRoot`, `ClearRoot` change the root (an
assert that fails ends the program), and `Write` gives what a writer wrote back to the reader.

### Udp

`Send` is `UDP::send` of the next item of the program, `Receive` the `receive` that asks for it;
`Capacity` is the length in bytes that `recvfrom` is given and `Received` what it leaves.
`Lose`, `Duplicate` and `Deliver` are the network. Ports go through `htons` and `ntohs` as in
`Address.cpp`. Every system call may fail, which ends its program with an exception.

## 3. What the runs check

| run | instance | shows |
|---|---|---|
| `server_safety` | 2 connections, backlog 2, `stop_server` allowed, descriptors for two connections and no more | `RegisteredIsServed`; `TerminateNeedsExhaustion`; `RegistersOnlyOpen`; `SlotSpec`: the server implements `ClientSlot` |
| `server_returns` | 2 connections, fairness | `HandlerReturns` |
| `start_retries` | 30 attempts, as in cserver; fairness | `FlagsTellSocket`; `StartsOnFreePort` |
| `client_loop` | heart beat every 3 rounds, descriptors for 3 connections after the first; fairness | `FlagsTellLink`; `OneDescriptorPerConnection`; `LeavesTheDead`; `Reconnects` |
| `transfer_whole` | files of 0 to 15 bytes, chunks of 3 | `LockStep`; `CopySpec`: the transfer implements `FileCopy`; `BothReturn` |
| `transfer_faults` | files of 0 to 14 bytes, chunks of 3, short reads, processes killed | `SizeKept`; `BothEnd` |
| `log_queue` | one producer with two calls, one changer with one, two greetings, a queue limit of 0 and a pool of 1 | `Owned`; `MemoryIsBounded`; `NothingOwedIsLost`; `StartedMeansRunning`; `PipeSpec`: the queue implements `LogPipe`; `StopReturns`; `DisableTakesEffect` |
| `log_files` | 4 entries over two days of two minutes, one late by a minute, four kinds of change | `LinesAreWhole`; `OneDayPerFile`; `SizeIsBounded`; `RollIsFresh`; `IsFlushed` |
| `log_config` | 4 configurations, two of them with the same sum, one with the sum 0; 2 edits, room for 2 loggers | `TypeOK`: a key has one logger and there are no more than there is room for; `InForce`; `FileIsFollowed` |
| `json` | up to 10 tokens, any 3 and then the expected ones, one comment; 2 changes; default and strict mode | `NodesAlive`; `ErrorsExplain`; `ParsesJson`; `NumbersAreExact`; `RoundTrip`; `ParseReturns` |
| `udp` | the three datagrams of the program, one duplicate, any loss and order | `StringsEnd`; `WholeIfInOrder`; `ReceiverReturns` |

One more run, `server_null`, ends in a counterexample to the guard of `sockman.cpp:333`: a
handler resets `single_client` between the guard and the call.

`CHECK_DEADLOCK FALSE` appears where the system may stop: the process ended, or every
thread returned and the peers are silent; in the transfer and the UDP pair, both functions
returned; in the start-up, the program serves or gave up; in the client, SIGPIPE ended it;
in the log queue, the process is gone; in the files and the configuration, the bounds are
used up while the writer waits; in the JSON program, the last parse is done.

### Bounds

- *Two connections.* The slot names one connection; a race needs the registered one,
  a newcomer and the sender. A third connection repeats the part of the second. The
  proofs hold for any number.
- *MaxRx = 1* piece of unread data: the code only asks whether there is some.
- *Listeners* 2 (1 in the liveness runs, where it halves the states): cserver uses 10;
  a full and a non-full backlog both occur.
- *FdBase, FdLimit*: 9 and 1024 where descriptors do not matter. `server_safety` has 26:
  two connections use 14, and the acceptor can wait for a third; with an object that takes
  one more descriptor the second connection would already end the process.
- *HeartBeat, Floor*: a beat every 3 rounds instead of 15, followed down to -2: the
  counter is seen to reach zero, to start again, and to miss zero.
- *FdBase, FdLimit* of `client_loop`: 9 and 12, so the client also meets the failure of
  `open()`. `made` needs no bound of its own: a connection costs a descriptor.
- *Chunk, MaxSize*: each run has size zero, sizes below one chunk, multiples of a chunk
  and remainders, and at least three parts. Bytes are positions, all different, so any
  misplaced byte is seen; `JUNK` marks an uninitialised byte.

- *Log4zQueue*: a producer and a changer beside the writer are enough for each race on the
  two sizes and the attributes; `Limit = 0` and `PoolLimit = 1` are small enough that
  the unlocked tests are reached with both answers. Six blocks are never used up.
- *Log4zFiles*: `BufSize = Unit = 12` and `Word = 48`: a line may be as long as the unit of the
  limit, and the limit that stands for none wraps when it is multiplied. Four entries make
  two rolls, or a roll and a change of day and back.
- *Log4zConfig*: the configurations are chosen for what the code treats in its own way: an
  empty one, unknown words, a section in two parts, a line before any section, a limit of 0,
  an empty path; with room for two loggers the third section finds none.
- *Json*: `MaxInt = 7`, `LargestInt = 16`, so that numbers below, at and above every limit have one
  or two digits. Ten tokens make objects of two members and two levels of nesting.
- *Udp*: the program is the one in `sockman.cpp`; more than one duplicate repeats the first.

### Fairness

Weak fairness of the acceptor, of the main loop and of each handler, of the two
processes of a transfer, of the program in `ServerStart` and of the client loop: the scheduler of the operating system runs a thread that can
run. A blocked `accept()` or `recv()` is a disabled action and owes nothing. No fairness
is assumed of peers, of other processes that use the port, of whoever decides to call
`stop_server`, or of kills. `StartsOnFreePort` and `Reconnects` state what they need of them
(a port that stays free; a server that goes on accepting). `sleep()` is
left out: it only delays. In log4z the writer thread is weakly fair, and so is the main
thread once it waits for it; nobody is made to log. `FileIsFollowed` has strong fairness of
`UpdateConfig`: the writer comes by that test again and again, and the time it waits for
passes. In `Json` only `Parse` is fair, for a call goes on once begun. In `Udp` both programs
run and a datagram does not travel for ever; losing one is never required.

## 4. What is proved

TLAPS checks the following for every set of connections, every bound, every file.

`TcpCsServerProofs`: `TypeCorrect` (`TypeOK`), `SlotIsServed` (`RegisteredIsServed`),
`OnlyOpenRegister` (`RegistersOnlyOpen`), `ImplementsSlot` (`SlotSpec`) and
`ExhaustionOnly` (`TerminateNeedsExhaustion`); of the abstract slot `SlotNamesServed`, and
through the refinement `ReadersFindServed`, the same of the server.
`RegisteredIsServed` is not inductive: to see that a handler that leaves its loop is
not the registered one, one must know why it left, and that nobody else can make it
the registered one again. `IInv`, proved in `Invariance`, adds to it

- `BacklogInv`: a connection waits in the backlog, or is held by the acceptor, or has a
  handler, and only one of these;
- `FreshInv`: before its handler registers it, a connection is bound, not shut down, and
  no pointer of any thread names it;
- `ServedInv`: when a handler left its loop the server has stopped or its client is not
  connected, and both are for good; if it is still the registered one where it may
  return, the server has stopped.

`OnlyOpenRegister` is `FreshInv` at the step `Register`. `ImplementsSlot` maps `single_client`
to `slot` and the program counters to stages, and shows of each action that it is a
step of `ClientSlot` or a stutter. `ExhaustionOnly` has an invariant of its own, `FdInv`:
the descriptors in use are at most those at the start, seven for each handler ever
started, and those of the acceptor's round; the set of handlers is finite because each
round adds at most one.

`TcpProofs`, about the transfer: `TypeCorrect` (`TypeOK`) and `InLockStep` (`LockStep`) for every
way a transfer may go; `SentIsRight` (`SentPartsAreRight`) when `recv()` returns whole
parts, whoever dies; `SizeIsKept` (`SizeKept`) when nobody dies, however short the reads;
`ImplementsCopy` (`CopySpec`) with neither short reads nor deaths. Not one of them is
inductive. `IInv` says where each side is in its loop and why it failed if it did
(`SenderInv`, `ReceiverInv`), that nothing is sent that was not asked for (`StepInv`), and
that the bytes on their way are the part the receiver waits for (`WholeInv`, with whole
reads only). It rests on two facts about the loops' arithmetic, `PartBounds` (a part is
not empty, fits the buffer and lies in the file) and `OffBounds` (the parts make up the
file), which hold for every size and chunk; with the remainder of the file dropped from
`Parts` they do not. `ImplementsCopy` shows that `out` is a prefix of the file in every
state, and from it that each write appends the next bytes.

`TcpProofs`, about the client loop: `FlagsAreRight` (`FlagsTellLink`), `LoopTypes` (`ClientTypeOK`) and
`DescriptorsAreCounted` (`OneDescriptorPerConnection`), for any number of connections. The
first two are inductive together. The account of descriptors needs them: that `open()`
takes a new descriptor exactly behind a connection that was closed is what the flags say.

`SocketProofs`: of `ServerStart` `FlagsAreRight` (`FlagsTellSocket`), `SocketIsShared` (`OneSocket`) and
`TypeCorrect` for any number of attempts. The strengthening, `KeptInv`, is that the object
stays open: `stop_server` never has a server to stop before the program serves. Of `Udp`
`StringsHaveEnds` (`StringsEnd`) and `WholeInOrder` (`WholeIfInOrder`), for any script, losses, duplicates
and order: `UdpInv` says that what is in the network or in the queue is an item of the script,
and that the i-th result is what the i-th `receive` makes of one of them (`ReceivedIs`). The
first needs `ZerosAssumption`, that every item sent has a byte 0 where the buffer of a string
would hold it: the program's own items have one, and with others `receive<string>` would read
past what came. The second needs `TypesAssumption`, that both programs name the same types.

`Log4zQueueProofs`: `TypeCorrect` (`TypeOK`), `StartedRuns` (`StartedMeansRunning`), `BlocksAreOwned`
(`Owned`), `BoundedMemory` (`MemoryIsBounded`), `OwedIsHandled` (`NothingOwedIsLost`) and `QueueIsPipe`
(`PipeSpec`), for any number of threads, loggers, messages and blocks and for any two limits.
`Owned` needs where each program counter may be and that a thread between `new` and its push holds a
block of its own (`CoreInv`). `BoundedMemory` cannot be had from the sizes alone: the
invariant is that the queue together with the threads that passed its test, and are not yet
through with the push, is within the limit plus the number of threads, and so for the pool.
`OwedIsHandled` has `NumInv`: every message in the queue or owed is older than the call its
thread is in, so that what is pushed after `stop()` was called is never taken for what was
owed; and behind the writer's last look at the queue nothing in it is owed. `QueueIsPipe`
maps the queue to the messages of its blocks, and shows that every step is one of `LogPipe`
or a stutter: it rests on `Owned`, for a block in the queue that somebody else wrote to
would change a message on its way.

`Log4zFilesProofs`: `TypeCorrect` (`TypeOK`), `FilesHaveOneDay` (`OneDayPerFile`) and `RolledFileIsNew`
(`RollIsFresh`), for any lines, clock, limit and changes of the logger. Together with the
properties one needs that the open file is named for the day of `created`
(`DayInv`), and, as long as no message came after one of a later day, that every file is of
an earlier day or has an index that was reached (`FreshInv`); that a name is never
used again then follows, for within a day the index only counts up.

`EveryLineIsWhole` (`LinesAreWhole`) is about the operators of `LogText`: for any buffer and any
pieces, each `operator<<` leaves characters up to `cur` and puts a NUL only behind them or into the
last cell (`WriteFills`), by induction over the pieces so does a whole stream (`StreamFills`), and then
`EndLine` finds room for CR, LF and NUL (`EndLineEnds`). `SizesAreBounded` (`SizeIsBounded`) is not
inductive by itself: `LengthInv` says that the open file has at most `_curWriteLen` bytes more than
what its earlier openings allowed. It holds because `_curWriteLen` does not wrap around
before the test that closes the file: `LimitFits`, for any limit, also one that wrapped when it was
multiplied.

`Log4zConfigProofs`: `TypeCorrect` (`TypeOK`) and `ConfigurationIsInForce` (`InForce`), for any keys, fields,
configurations and calls. Between a configuration that is read and the last of its hot changes the
loggers are a mixture of old and new, so `InForce` is far from inductive. `Mixture` says what the
mixture is: every field has what its section says, or a change of that field is in the queue
(`Settled`), and the queue holds nothing but changes that the configuration read last asks for
(`Changes`), so that whatever is applied, in whatever order, is right. It needs that a file is read only
when the queue is empty, and that nothing is queued before `start()`; and, for a logger that
is made after a configuration was read, that every section of the configuration has its
logger already or there was no room for it. The rest is about the operators: `MadeFacts` (what
`createLogger` makes for several keys), `ParseFacts`, `SetOrQueued`, and `Appended` (a queue to which a set is
appended in any order holds all of it).

`JsonProofs`: `ErrorsAreReported` (`ErrorsExplain`), `NodesStayAlive` (`NodesAlive`), `TypeCorrect`
(`TypeOK` of the reader), `IntegersAreExact` (`NumbersAreExact`) and `DocumentsAreParsed` (`ParsesJson`), for any tokens and documents of any
depth and length, and for the program that parses, changes the root, writes, and parses again
with the same reader. `ErrorInv` says that once there is an error every function on the stack
recovers and fails. `NodesInv` is why no pointer dangles: an assignment destroys what is
deeper than the Value it assigns, the innermost function assigns a Value that is as deep as the
stack of functions, and `lastValue_` is never deeper than that stack (`Good`), because each return sets
it; without that assignment in the return of a container it is not so, and TLC finds the dangling
pointer. `IntegersAreExact` has two parts: `DigitsAreExact`, that the loop of `decodeNumber`, with its test
against a tenth of the limit and against the last digit, neither gives up nor wraps for a number
that fits, by induction over the digits and for any width of the integers; and
`NumberInv`, that what was decoded is still the root when `parse` returns.

`DocumentsAreParsed` shows that the functions that call each other, with their recovery from errors,
accept the documents of the grammar and nothing else. It goes by an automaton, the reader without
its tree: where it is and the kinds of the containers on its stack (`Config`, `Advance`, `Came`).

1. `Recognised`: the automaton is at the end of a value exactly when the grammar has the
   document for one. The grammar's `values` is a function by recursion over the number of tokens
   (`CourseExists` shows that it exists). From the grammar to the automaton: `Reads`, of every value,
   by its length, and inside a container from comma to comma. Back: `Holds`, after every token, of all
   containers that are open, tells where each began and that what it has so far is a list of items.
2. `StepView`: while there is no error a step of the reader is a step of the automaton, and the
   first error comes exactly where the automaton gives up. That an object reads its end where a
   first name may stand is told by an empty name in the code, so this needs `NameIsRead`,
   that a string with something in it never decodes to an empty name.
3. `ParseInv` is the invariant: no error, and the functions are where the automaton is (`InStep`); or
   an error, and the document so far is no value (`Refused`), whatever comes; or what `parse` returned
   (`Answered`). For strict mode `RootKept` adds that no step behind the first changes what the
   root is, and `RootOfValue` that the first token tells it.

The induction over sequences that these proofs need is done with sets of numbers: `LeastNumber` is an
instance of the well-founded minimum, `Induction` follows from it, and `RecursionExists` shows that
the function a recursive definition chooses exists, which TLAPS does not know by itself.

`JsonRoundProofs`: `TreesAreWhole` and `WrittenIsReadBack` (`RoundTrip`), for any document, any edits and each writer.
`WrittenIsReadBack` is about two programs that know nothing of each other, the writers, functions by
recursion over the tree, and the reader with its stack. It rests on `ProgramAssumption`: the names and
the texts that the program assigns have no NUL (`asCString` and `c_str()` end at it), and what it assigns
is one of the values that a `Value` can be.

1. `TreesAreWhole`, by `TreeInv`: after whatever document and whatever edits, the tree is one that a writer
   can walk: finite, each Value below a container that its key fits, and nothing below a Value that is no container.
   In strict mode no comment is kept, and the root is a container or null when the program gets it.
2. A table `w` says of each Value which one of its container it is (`w.at`), how many that has
   (`w.count`), the tokens from the Value on (`w.begin`) and those behind it (`w.end`). Each writer
   has such a table: its recursive function exists (`FixedPoint`, by the depth of the tree), and the
   tokens of a container are those of its items with commas between them, and the comments that `StyledWriter` adds.
3. Token for token: `decodeString` gives back what `valueToQuotedString` quotes, `decodeNumber` what
   `valueToString` prints, for any width of the integers.
4. `RoundInv` is the invariant: what is left to read is what the table has for the place where the
   reader is (`Tracked`), and of the Values in front of that place the reader has made the same and no others;
   or `parse` has returned true and the two trees agree (`ReadAs`). One lemma per function of the reader shows that its step keeps it.
   An infinite double is excepted, for what is written for it is no number; otherwise a double is taken to hold
   its number exactly and `%#.16g` to have digits enough for it.

What only TLC checks: every liveness property (`HandlerReturns`, `StartsOnFreePort`,
`LeavesTheDead`, `Reconnects`, `BothReturn`, `ReceiverReturns`, `BothEnd`,
`StopReturns`, `DisableTakesEffect`, `IsFlushed`, `FileIsFollowed`, `ParseReturns`). They rest on fairness,
which is beyond TLAPS here. Every invariant and every action property of the passing runs is also proved.

## 5. Disagreements and curiosities

Met while modelling; the models have this behaviour. The one that a run shows is `server_null`.

- `is_connecteed()` of a server object asks `select()` whether the listening socket is
  readable, so it is false while a connection waits, where `Socket.hpp:491-492` says true.
- `stop_server` leaves behind the handlers that the slot does not name. `listen()` failing
  behind `bind()` leaves the socket bound, and all attempts that follow throw.
- log4z: what is pushed behind the writer's test at `log4z.cpp:1870` is never handled. The limit
  of a file that stands for none, (unsigned)-1, wraps when it is multiplied, and files of such a
  logger roll at just under 4 GiB. One failure of `fopen` switches `_outfile` off for good.
  Two edits that keep the sum of the bytes are taken for the same configuration.
- jsoncpp: integers just above a limit may wrap where the digit test lets them through
  (768-783); behind a comment in an object any token counts as a comma (687-691); an empty
  name ends an object early (653); a comment alone in an array is refused (704); strict
  mode skips comments inside containers all the same; text behind the root is ignored; "-"
  is 0; a NUL ends a string; `asInt64` of a double goes through `int`; a large positive
  integer comes back unsigned; an infinite double is written as something no parser reads, and
  any other with 16 digits, where some need 17;
  after a failed parse root keeps what was read.
- UDP: `receive<string>` trusts the datagram to have a NUL; the counts of elements are never
  looked at; a lost datagram blocks the receiver for ever.

## 6. Not modelled, and why

- Opening the connection of a file transfer; the overloads of `UDP::send` and `receive` for
  pointers and vectors, which the program does not call.
- log4z: display on the terminal, synchronous mode, making directories, `Log4zBinary`'s layout.
- jsoncpp: iterators, `Path`, comparison, `isConvertibleTo`, the batch allocators and the
  internal maps that no build option selects, and where writers put blanks.
- Windows variants (`#ifdef WINDOWS`): the Linux build is the one that the modules
  follow; the two differ in `close()` (a Windows socket is really closed).
- `SocketException` holds a message; `test/main_test.cpp` exercises nothing of the library;
  `TimeoutControl` is empty. `sockman cqr` refers to an `encoder` that no file declares.

## 7. Plan

1. `Path`, iterators and comparison of `JsonValue`.
2. Composition: `TcpCsServer` with `CsClient` as its peer, both sides' heart beats and
   acknowledgements over one connection.
3. Opening the connection of a file transfer: `TCP::listen_on_port`, `TCP::accept_client`
   and the descriptors they leave behind.
