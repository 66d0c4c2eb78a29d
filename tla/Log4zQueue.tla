----------------------------- MODULE Log4zQueue -----------------------------
(***************************************************************************)
(* The log queue of src/sockman/log4z/log4z.cpp: threads that log          *)
(* (LOG_STREAM and LOG_FORMAT of log4z.h) or change a logger, the writer   *)
(* thread LogerManager::run, and the main thread that starts the writer    *)
(* and, at the exit of the process, stops it from ~LogerManager.           *)
(*                                                                         *)
(* A LogData is a block of memory that is taken from the pool of free      *)
(* blocks or allocated, filled, pushed, popped by the writer, and given    *)
(* back.  _logLock protects the queue and the pool; the tests of their     *)
(* sizes, _runing and the attributes of the loggers are read without it,   *)
(* so each of those reads is a step of its own.                            *)
(*                                                                         *)
(* The files are in Log4zFiles: here a message that gets through is        *)
(* appended to "written".                                                  *)
(***************************************************************************)
EXTENDS Integers, Sequences, FiniteSets

CONSTANTS
  Producers,      \* the threads that log
  Changers,       \* the threads that change loggers (the same or others)
  WRITER,         \* the thread of run(), which logs too
  NONE,           \* no block
  Data,           \* blocks of memory for a LogData
  LastId,         \* _lastId: the loggers are 0..LastId
  Levels,         \* the levels in use
  DEBUG, ALARM,   \* LOG4Z_DEFAULT_LEVEL, LOG_LEVEL_ALARM
  Limit,          \* LOG4Z_LOG_QUEUE_LIMIT_SIZE
  PoolLimit,      \* 200, in freeLogData
  MaxCalls,       \* bound: how many calls each user makes
  MaxNumber       \* bound: none of the threads makes more

Users == Producers \cup Changers
Threads == Users \cup {WRITER}
Loggers == 0..LastId

\* The greetings of run()
Greetings == 2 * (LastId + 1)

ASSUME ThreadsAssumption == 
  WRITER \notin Users /\ IsFiniteSet(Users)
ASSUME DataAssumption == NONE \notin Data /\ IsFiniteSet(Data)
ASSUME LevelsAssumption == Levels \subseteq Int /\ {DEBUG, ALARM} \subseteq Levels
ASSUME SizesAssumption ==
  LastId \in Nat /\ Limit \in Nat /\ PoolLimit \in Nat
ASSUME BoundsAssumption ==
  /\ MaxNumber \in Nat /\ Greetings <= MaxNumber
  /\ MaxCalls \in [Users -> 0..MaxNumber]

VARIABLES
  runing,         \* _runing
  sem,            \* _semaphore
  enable, level,  \* _enable and _level of each logger
  logs,           \* _logs
  pool,           \* _freeLogDatas, a vector used as a stack
  alloc,          \* blocks between new and delete
  heap,           \* what is in the blocks
  pc, op, mine,   \* of each thread: where it is, what it logs, its block
  calls,          \* of each thread: how many calls it began
  ctl,            \* the main thread
  w, greet,       \* the writer: where it is, and which greeting is next
  written,        \* the messages that got through, in order
  owed            \* history: what was in the queue when stop() was called

loggerVars == <<enable, level>>
memVars == <<logs, pool, alloc, heap>>
threadVars == <<pc, op, mine, calls>>
mainVars == <<sem, ctl, owed>>
writerVars == <<w, greet, written>>
vars == <<runing, loggerVars, memVars, threadVars, mainVars, writerVars>>

\* What a LogData says: a message, or a change that run() has to make.
Content ==
  [type: {"general", "disable", "level"}, id: Loggers, level: Levels,
   from: Threads, n: 0..MaxNumber]

BLANK == [type |-> "general", id |-> 0, level |-> ALARM, from |-> WRITER, n |-> 0]

\* A message is told from all the others by its thread and number.
Message == Threads \X (0..MaxNumber)
Msg(d) == <<heap[d].from, heap[d].n>>

Init ==
  /\ runing = FALSE /\ sem = 0
  /\ enable = [l \in Loggers |-> TRUE]
  /\ level = [l \in Loggers |-> DEBUG]
  /\ logs = <<>> /\ pool = <<>> /\ alloc = {}
  /\ heap = [d \in Data |-> BLANK]
  /\ pc = [t \in Threads |-> "idle"]
  /\ op = [t \in Threads |-> BLANK]
  /\ mine = [t \in Threads |-> NONE]
  /\ calls = [t \in Threads |-> 0]
  /\ ctl = "start" /\ w = "none" /\ greet = 0
  /\ written = <<>> /\ owed = {}

\* The process ends when the main thread is out of ~LogerManager.
Alive == ctl # "gone"

Goto(t, where) == pc' = [pc EXCEPT ![t] = where]

-----------------------------------------------------------------------------
(* Every thread: log, or change a logger *)

\* Thread t is called to log or to queue something, and refuses it or goes on
\* to get a block for it.
Call(t, type, l, lev, goes_on) ==
  LET n == calls[t] + 1
  IN /\ pc[t] = "idle"
     /\ calls' = [calls EXCEPT ![t] = n]
     /\ IF goes_on
        THEN /\ op' = [op EXCEPT ![t] = [type |-> type, id |-> l, level |-> lev,
                                         from |-> t, n |-> n]]
             /\ Goto(t, "make")
        ELSE UNCHANGED <<pc, op>>
     /\ UNCHANGED <<runing, memVars, mine>>

\* Mutant: a disabled logger is enabled.
OnHotChangeEnables(type, l, lev) ==
  /\ enable' = IF type = "disable" THEN [enable EXCEPT ![l] = TRUE] ELSE enable
  /\ level' = IF type = "level" THEN [level EXCEPT ![l] = lev] ELSE level

OnHotChange(type, l, lev) ==
  /\ enable' = IF type = "disable" THEN [enable EXCEPT ![l] = FALSE] ELSE enable
  /\ level' = IF type = "level" THEN [level EXCEPT ![l] = lev] ELSE level

\* The tests that prePushLog and pushLog share.
Wanted(l, lev) == runing /\ enable[l] /\ lev >= level[l]

\* Mutant: the size of the queue is not tested.
PrePushAny(t, l, lev) ==
  /\ Call(t, "general", l, lev, Wanted(l, lev))
  /\ UNCHANGED loggerVars

\* LOG_STREAM: prePushLog.
PrePush(t, l, lev) ==
  /\ Call(t, "general", l, lev, Wanted(l, lev) /\ Len(logs) <= Limit)
  /\ UNCHANGED loggerVars

\* hotChange: queued while the writer runs, onHotChange at once when it does not.
HotChange(t, type, l, lev) ==
  /\ Call(t, type, l, lev, runing)
  /\ IF runing THEN UNCHANGED loggerVars ELSE OnHotChange(type, l, lev)

\* enableLogger: immediate to enable, a hot change to disable.
EnableLogger(t, l) ==
  \/ HotChange(t, "disable", l, ALARM)
  \/ /\ Call(t, "enable", l, ALARM, FALSE)
     /\ enable' = [enable EXCEPT ![l] = TRUE] /\ UNCHANGED level

\* setLoggerLevel: immediate when it lets more through.
SetLoggerLevel(t, l, lev) ==
  IF lev > level[l]
  THEN HotChange(t, "level", l, lev)
  ELSE /\ Call(t, "level", l, lev, FALSE)
       /\ level' = [level EXCEPT ![l] = lev] /\ UNCHANGED enable

\* What the call does with its block once it has it and has filled it.
Fill(t, d) ==
  /\ mine' = [mine EXCEPT ![t] = d]
  /\ heap' = [heap EXCEPT ![d] = op[t]]
  /\ op' = [op EXCEPT ![t] = BLANK]
  /\ Goto(t, IF op[t].type = "general" THEN "test" ELSE "push")

\* new LogData(): any block that is not in use.
New(t) ==
  /\ alloc # Data
  /\ LET d == CHOOSE b \in Data: b \notin alloc
     IN alloc' = alloc \cup {d} /\ Fill(t, d)
  /\ UNCHANGED <<logs, pool>>

\* makeLogData: the pool is looked at without the lock ...
MakeLogData(t) ==
  /\ pc[t] = "make"
  /\ IF pool = <<>>
     THEN New(t)
     ELSE Goto(t, "reuse") /\ UNCHANGED <<memVars, op, mine>>
  /\ UNCHANGED <<runing, loggerVars, calls>>

\* ... and again with it.
Reuse(t) ==
  /\ pc[t] = "reuse"
  /\ IF pool = <<>>
     THEN New(t)
     ELSE /\ Fill(t, pool[Len(pool)])
          /\ pool' = SubSeq(pool, 1, Len(pool) - 1)
          /\ UNCHANGED <<logs, alloc>>
  /\ UNCHANGED <<runing, loggerVars, calls>>

\* Mutant: after freeLogData the function goes on.
PushTestFallsThrough(t) ==
  /\ pc[t] = "test"
  /\ Goto(t, "push")
  /\ pool' = IF Wanted(heap[mine[t]].id, heap[mine[t]].level) THEN pool
             ELSE Append(pool, mine[t])
  /\ UNCHANGED <<runing, loggerVars, logs, alloc, heap, op, mine, calls>>

\* pushLog: the tests are made again, without a lock.
PushTest(t) ==
  /\ pc[t] = "test"
  /\ Goto(t, IF Wanted(heap[mine[t]].id, heap[mine[t]].level) THEN "push" ELSE "free")
  /\ UNCHANGED <<runing, loggerVars, memVars, op, mine, calls>>

\* Mutant: push_front.
PushFront(t) ==
  /\ pc[t] = "push"
  /\ logs' = <<mine[t]>> \o logs
  /\ mine' = [mine EXCEPT ![t] = NONE]
  /\ Goto(t, "idle")
  /\ UNCHANGED <<runing, loggerVars, pool, alloc, heap, op, calls>>

\* pushLog, hotChange: the block goes into the queue.
Push(t) ==
  /\ pc[t] = "push"
  /\ logs' = Append(logs, mine[t])
  /\ mine' = [mine EXCEPT ![t] = NONE]
  /\ Goto(t, "idle")
  /\ UNCHANGED <<runing, loggerVars, pool, alloc, heap, op, calls>>

\* The block is not t's any more.  What it holds does not matter from now on:
\* makeLogData sets every field of it again.
GiveUp(t) ==
  /\ mine' = [mine EXCEPT ![t] = NONE]
  /\ heap' = [heap EXCEPT ![mine[t]] = BLANK]
  /\ Goto(t, "idle")

\* Mutant: the size of the pool is not tested.
FreeTestAny(t) ==
  /\ pc[t] = "free"
  /\ Goto(t, "keep")
  /\ UNCHANGED <<runing, loggerVars, memVars, op, mine, calls>>

\* freeLogData: the size of the pool is tested without the lock ...
FreeTest(t) ==
  /\ pc[t] = "free"
  /\ IF Len(pool) < PoolLimit
     THEN Goto(t, "keep") /\ UNCHANGED <<alloc, heap, mine>>
     ELSE /\ alloc' = alloc \ {mine[t]}
          /\ GiveUp(t)
  /\ UNCHANGED <<runing, loggerVars, logs, pool, op, calls>>

\* ... which is taken to put the block back.
Keep(t) ==
  /\ pc[t] = "keep"
  /\ pool' = Append(pool, mine[t])
  /\ GiveUp(t)
  /\ UNCHANGED <<runing, loggerVars, logs, alloc, op, calls>>

\* A thread inside one of those functions goes on.
Continue(t) ==
  MakeLogData(t) \/ Reuse(t) \/ PushTest(t) \/ Push(t) \/ FreeTest(t) \/ Keep(t)

User(t) ==
  /\ Alive
  /\ \/ Continue(t)
     \/ /\ calls[t] < MaxCalls[t]
        /\ \E l \in Loggers, lev \in Levels:
             \/ t \in Producers /\ PrePush(t, l, lev)
             \/ t \in Changers /\ (EnableLogger(t, l) \/ SetLoggerLevel(t, l, lev))
  /\ UNCHANGED <<mainVars, writerVars>>

-----------------------------------------------------------------------------
(* The writer: LogerManager::run *)

At(here) == Alive /\ w = here /\ pc[WRITER] = "idle"

\* The functions it shares with the producers.
WriterCall ==
  /\ Alive
  /\ Continue(WRITER)
  /\ UNCHANGED <<mainVars, writerVars>>

\* Mutant: the starter is woken before the greetings.
RunPostsFirst ==
  /\ At("run")
  /\ runing' = TRUE /\ sem' = sem + 1
  /\ w' = "greet"
  /\ UNCHANGED <<loggerVars, memVars, threadVars, ctl, owed, greet, written>>

Run ==
  /\ At("run")
  /\ runing' = TRUE
  /\ w' = "greet"
  /\ UNCHANGED <<loggerVars, memVars, threadVars, mainVars, greet, written>>

\* Two LOG_ALARM for each logger that is enabled when its turn comes.
Greet ==
  /\ At("greet") /\ greet < Greetings
  /\ LET l == greet \div 2
     IN IF greet % 2 = 0 /\ ~enable[l]
        THEN /\ greet' = greet + 2
             /\ UNCHANGED <<runing, loggerVars, memVars, threadVars>>
        ELSE greet' = greet + 1 /\ PrePush(WRITER, l, ALARM)
  /\ UNCHANGED <<w, written, mainVars>>

\* _semaphore.post()
Post ==
  /\ At("greet") /\ greet = Greetings
  /\ sem' = sem + 1
  /\ w' = "pop"
  /\ UNCHANGED <<runing, loggerVars, memVars, threadVars, ctl, owed, greet, written>>

\* popLog; the queue is empty: flush, and sleep.
PopLog ==
  /\ At("pop")
  /\ IF logs = <<>>
     THEN w' = "quit" /\ UNCHANGED <<logs, mine>>
     ELSE /\ mine' = [mine EXCEPT ![WRITER] = Head(logs)]
          /\ logs' = Tail(logs)
          /\ w' = "handle"
  /\ UNCHANGED <<runing, loggerVars, pool, alloc, heap, pc, op, calls, mainVars,
                 greet, written>>

\* onHotChange, or the message is written if it is still wanted; freeLogData.
Handle ==
  /\ At("handle")
  /\ LET d == mine[WRITER]
         c == heap[d]
     IN /\ OnHotChange(c.type, c.id, c.level)
        /\ written' = IF c.type = "general" /\ enable[c.id] /\ c.level >= level[c.id]
                      THEN Append(written, Msg(d)) ELSE written
  /\ Goto(WRITER, "free")
  /\ w' = "pop"
  /\ UNCHANGED <<runing, memVars, op, mine, calls, mainVars, greet>>

\* Mutant: the queue is not looked at again.
QuitAtOnce ==
  /\ At("quit")
  /\ w' = IF ~runing THEN "exit" ELSE "pop"
  /\ UNCHANGED <<runing, loggerVars, memVars, threadVars, mainVars, greet, written>>

\* The test at the end of the loop, without the lock.
Quit ==
  /\ At("quit")
  /\ w' = IF ~runing /\ logs = <<>> THEN "exit" ELSE "pop"
  /\ UNCHANGED <<runing, loggerVars, memVars, threadVars, mainVars, greet, written>>

\* All loggers are disabled and closed.
Exit ==
  /\ At("exit")
  /\ enable' = [l \in Loggers |-> FALSE]
  /\ w' = "end"
  /\ UNCHANGED <<runing, level, memVars, threadVars, mainVars, greet, written>>

Writer == WriterCall \/ Run \/ Greet \/ Post \/ PopLog \/ Handle \/ Quit \/ Exit

-----------------------------------------------------------------------------
(* The main thread *)

mainOnly == <<loggerVars, memVars, threadVars, greet, written>>

\* start(): the thread is created, or it cannot be.
Start ==
  /\ ctl = "start" /\ ~runing
  /\ \/ ctl' = "wait" /\ w' = "run"
     \/ ctl' = "failed" /\ UNCHANGED w
  /\ sem' = 0
  /\ UNCHANGED <<runing, owed, mainOnly>>

\* _semaphore.wait(3000): 3 s may pass without a post.
Wait ==
  /\ ctl = "wait"
  /\ IF sem > 0 THEN sem' = sem - 1 /\ ctl' = "started"
                ELSE ctl' = "failed" /\ UNCHANGED sem
  /\ UNCHANGED <<runing, w, owed, mainOnly>>

\* Mutant: _runing is not reset.
StopKeepsRuning ==
  /\ ctl \in {"started", "failed"}
  /\ IF runing
     THEN /\ ctl' = "join"
          /\ owed' = {Msg(logs[i]): i \in DOMAIN logs}
     ELSE ctl' = "gone" /\ UNCHANGED owed
  /\ UNCHANGED <<runing, w, sem, mainOnly>>

\* ~LogerManager: stop()
Stop ==
  /\ ctl \in {"started", "failed"}
  /\ IF runing
     THEN /\ runing' = FALSE
          /\ ctl' = "join"
          /\ owed' = {Msg(logs[i]): i \in DOMAIN logs}
     ELSE ctl' = "gone" /\ UNCHANGED <<runing, owed>>
  /\ UNCHANGED <<w, sem, mainOnly>>

\* ThreadHelper::wait, the end of the process
Join ==
  /\ ctl = "join" /\ w = "end"
  /\ ctl' = "gone"
  /\ UNCHANGED <<runing, w, sem, owed, mainOnly>>

Main == Start \/ Wait \/ Stop \/ Join

-----------------------------------------------------------------------------
Next == Main \/ Writer \/ \E t \in Users: User(t)

Spec == Init /\ [][Next]_vars

\* The threads of the manager run; nothing makes the others call.
FairSpec == Spec /\ WF_vars(Writer) /\ WF_vars(Join)

-----------------------------------------------------------------------------
Queued == {logs[i]: i \in DOMAIN logs}
InPool == {pool[i]: i \in DOMAIN pool}

TypeOK ==
  /\ runing \in BOOLEAN /\ sem \in 0..1
  /\ enable \in [Loggers -> BOOLEAN] /\ level \in [Loggers -> Levels]
  /\ logs \in Seq(Data) /\ pool \in Seq(Data) /\ alloc \subseteq Data
  /\ heap \in [Data -> Content]
  /\ pc \in [Threads -> {"idle", "make", "reuse", "test", "push", "free", "keep"}]
  /\ op \in [Threads -> Content]
  /\ mine \in [Threads -> Data \cup {NONE}]
  /\ calls \in [Threads -> 0..MaxNumber]
  /\ ctl \in {"start", "wait", "started", "failed", "join", "gone"}
  /\ w \in {"none", "run", "greet", "pop", "handle", "quit", "exit", "end"}
  /\ greet \in 0..Greetings
  /\ written \in Seq(Message) /\ owed \subseteq Message

\* A block has one owner: the queue, the pool or one thread, and no block in use
\* is forgotten (log4z.cpp:1160-1233, 1503, 1752-1850).
Owned ==
  /\ \A i, j \in DOMAIN logs: logs[i] = logs[j] => i = j
  /\ \A i, j \in DOMAIN pool: pool[i] = pool[j] => i = j
  /\ Queued \cap InPool = {}
  /\ \A t \in Threads: mine[t] # NONE =>
       /\ mine[t] \notin Queued \cup InPool
       /\ \A u \in Threads: mine[u] = mine[t] => u = t
  /\ alloc = Queued \cup InPool \cup ({mine[t]: t \in Threads} \ {NONE})

\* The messages in the queue, changes left out.
Waiting == {d \in Queued: heap[d].type = "general"}

\* The unlocked test lets the queue grow beyond its limit, by no more than one
\* message per thread (log4z.cpp:1430, 1504).
QueueIsBounded == Cardinality(Waiting) <= Limit + Cardinality(Producers) + 1

\* The same for the pool (log4z.cpp:1224-1227).
PoolIsBounded == Len(pool) <= PoolLimit + Cardinality(Producers)

\* Neither queue nor pool grows without bound, for both limits are tested without
\* the lock: each thread that passed a test is one too many at most.
MemoryIsBounded == QueueIsBounded /\ PoolIsBounded

\* A message that was in the queue when stop() was called has been handled when
\* stop() returns (log4z.cpp:1409-1416, 1790, 1870).
NothingOwedIsLost ==
  ctl = "gone" => \A d \in Queued: Msg(d) \notin owed

\* start() returns true only when the writer runs (log4z.cpp:1407, 1782).
StartedMeansRunning ==
  ctl = "started" => runing /\ w \notin {"none", "run", "greet", "exit", "end"}

\* The messages leave in the order in which they were pushed, each once
\* (log4z.cpp:1503-1504, 1752-1762).
InHand == IF w = "handle" THEN <<Msg(mine[WRITER])>> ELSE <<>>
Pipe == INSTANCE LogPipe WITH
          pending <- InHand \o [i \in DOMAIN logs |-> Msg(logs[i])]
PipeSpec == Pipe!Spec

\* stop() returns, whatever the producers do (log4z.cpp:1415, 1870).
StopReturns == ctl = "join" ~> ctl = "gone"

\* A logger that is disabled through the queue will be disabled
\* (log4z.cpp:1567, 1801).
DisableTakesEffect ==
  \A l \in Loggers:
    (\E d \in Queued: heap[d].type = "disable" /\ heap[d].id = l)
      ~> (~enable[l] \/ ctl = "gone")
=============================================================================
