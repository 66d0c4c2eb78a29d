-------------------------- MODULE Log4zQueueProofs --------------------------
(***************************************************************************)
(* Proofs about Log4zQueue for any number of threads, loggers and calls    *)
(* and any limits: type correctness, the owners of the blocks, what        *)
(* start() and stop() promise, the bounds of queue and pool, and the       *)
(* refinement of LogPipe.                                                  *)
(*                                                                         *)
(* The steps of Next are first brought into a few shapes: a call of a      *)
(* logging function (CallStep), a step inside one (Continue), and the      *)
(* steps of the writer and of the main thread.  Then come the invariants,  *)
(* each of which takes the ones before it for granted.                     *)
(***************************************************************************)
EXTENDS Log4zQueue, SequenceTheorems, FiniteSetTheorems, TLAPS

Callers == Producers \cup {WRITER}

\* What PrePush, EnableLogger and SetLoggerLevel have in common.
CallStep(t) ==
  /\ pc[t] = "idle"
  /\ calls[t] + 1 \in 0..MaxNumber
  /\ calls' = [calls EXCEPT ![t] = calls[t] + 1]
  /\ \/ UNCHANGED <<pc, op>>
     \/ \E c \in Content:
          /\ c.from = t /\ c.n = calls[t] + 1
          /\ c.type = "general" => t \in Callers /\ Len(logs) <= Limit
          /\ op' = [op EXCEPT ![t] = c]
          /\ pc' = [pc EXCEPT ![t] = "make"]
  /\ enable' \in [Loggers -> BOOLEAN]
  /\ level' \in [Loggers -> Levels]
  /\ UNCHANGED <<runing, memVars, mine, sem, ctl, owed, w, written>>

\* A call of a user, or of the writer when it greets.
ACall(t) ==
  /\ Alive
  /\ CallStep(t)
  /\ t # WRITER => UNCHANGED greet
  /\ t = WRITER => w = "greet" /\ greet < Greetings /\ greet' = greet + 1

\* A step inside one of the functions.
AStep(t) == Alive /\ Continue(t) /\ UNCHANGED <<mainVars, writerVars>>

\* A disabled logger is not greeted.
NoGreeting ==
  /\ w = "greet" /\ greet \in Nat /\ greet + 2 <= Greetings
  /\ greet' = greet + 2
  /\ UNCHANGED <<runing, loggerVars, memVars, threadVars, mainVars, w, written>>

-----------------------------------------------------------------------------
(* Types *)

TypeInv == TypeOK /\ calls[WRITER] <= greet

LEMMA Constants ==
  /\ WRITER \notin Users
  /\ LastId \in Nat /\ Limit \in Nat /\ PoolLimit \in Nat /\ MaxNumber \in Nat
  /\ Greetings \in Nat /\ Greetings <= MaxNumber
  /\ DEBUG \in Levels /\ ALARM \in Levels /\ Levels \subseteq Int
  /\ MaxCalls \in [Users -> 0..MaxNumber]
  /\ 0 \in Loggers /\ 0 \in 0..MaxNumber
  /\ WRITER \in Threads /\ Users \subseteq Threads /\ Threads = Users \cup {WRITER}
  /\ Callers \subseteq Threads
BY ThreadsAssumption, LevelsAssumption, SizesAssumption, BoundsAssumption
DEF Greetings, Loggers, Threads, Users, Callers

LEMMA BlankIsContent == BLANK \in Content
BY Constants DEF BLANK, Content

\* A hot change leaves the attributes in their types.
LEMMA HotChangeTypes ==
  ASSUME enable \in [Loggers -> BOOLEAN], level \in [Loggers -> Levels],
         NEW type, NEW l \in Loggers, NEW lev \in Levels,
         OnHotChange(type, l, lev)
  PROVE  enable' \in [Loggers -> BOOLEAN] /\ level' \in [Loggers -> Levels]
<1>1. enable' \in [Loggers -> BOOLEAN]
  BY Zenon DEF OnHotChange
<1>2. level' \in [Loggers -> Levels]
  BY Zenon DEF OnHotChange
<1>. QED  BY <1>1, <1>2

\* What Call is, for a thread that may still call.
LEMMA CallShape ==
  ASSUME TypeInv, NEW t \in Threads, NEW type, NEW l \in Loggers, NEW lev \in Levels,
         NEW goes_on \in BOOLEAN,
         goes_on => type \in {"general", "disable", "level"},
         goes_on /\ type = "general" => t \in Callers /\ Len(logs) <= Limit,
         calls[t] + 1 \in 0..MaxNumber,
         Call(t, type, l, lev, goes_on),
         enable' \in [Loggers -> BOOLEAN], level' \in [Loggers -> Levels],
         UNCHANGED <<sem, ctl, owed, w, written>>
  PROVE  CallStep(t)
<1>1. CASE goes_on
  <2>. DEFINE c == [type |-> type, id |-> l, level |-> lev, from |-> t, n |-> calls[t] + 1]
  <2>1. c \in Content
    BY <1>1 DEF Content
  <2>2. op' = [op EXCEPT ![t] = c] /\ pc' = [pc EXCEPT ![t] = "make"]
    BY <1>1 DEF Call, Goto
  <2>3. c.from = t /\ c.n = calls[t] + 1 /\ c.type = type
    OBVIOUS
  <2>. QED  BY <1>1, <2>1, <2>2, <2>3 DEF Call, CallStep
<1>2. CASE ~goes_on
  BY <1>2 DEF Call, CallStep
<1>. QED  BY <1>1, <1>2

LEMMA CallIsCall ==
  ASSUME TypeInv, NEW t \in Threads, NEW l \in Loggers, NEW lev \in Levels,
         calls[t] + 1 \in 0..MaxNumber,
         \/ t \in Callers /\ PrePush(t, l, lev)
         \/ EnableLogger(t, l)
         \/ SetLoggerLevel(t, l, lev),
         UNCHANGED <<sem, ctl, owed, w, written>>
  PROVE  CallStep(t)
<1>. USE Constants
<1>0. enable \in [Loggers -> BOOLEAN] /\ level \in [Loggers -> Levels] /\ runing \in BOOLEAN
  BY DEF TypeInv, TypeOK
<1>1. CASE t \in Callers /\ PrePush(t, l, lev)
  <2>. DEFINE g == Wanted(l, lev) /\ Len(logs) <= Limit
  <2>1. Call(t, "general", l, lev, g)
    BY <1>1 DEF PrePush
  <2>2. enable' = enable /\ level' = level
    BY <1>1 DEF PrePush, loggerVars
  <2>3. g \in BOOLEAN /\ (g => Len(logs) <= Limit)
    OBVIOUS
  <2>. HIDE DEF g
  <2>. QED  BY <1>0, <1>1, <2>1, <2>2, <2>3, CallShape
<1>2. ASSUME NEW type \in {"disable", "level"}, NEW v \in Levels, HotChange(t, type, l, v)
      PROVE  CallStep(t)
  <2>1. Call(t, type, l, v, runing)
    BY <1>2 DEF HotChange
  <2>2. enable' \in [Loggers -> BOOLEAN] /\ level' \in [Loggers -> Levels]
    <3>1. CASE runing
      <4>1. enable' = enable /\ level' = level
        BY <1>2, <3>1 DEF HotChange, loggerVars
      <4>. QED  BY <4>1, <1>0
    <3>2. CASE ~runing
      BY <1>0, <1>2, <3>2, HotChangeTypes DEF HotChange
    <3>. QED  BY <3>1, <3>2
  <2>. QED  BY <1>0, <2>1, <2>2, CallShape
<1>3. CASE EnableLogger(t, l)
  <2>1. CASE HotChange(t, "disable", l, ALARM)
    BY <2>1, <1>2
  <2>2. CASE /\ Call(t, "enable", l, ALARM, FALSE)
             /\ enable' = [enable EXCEPT ![l] = TRUE] /\ UNCHANGED level
    <3>1. enable' \in [Loggers -> BOOLEAN] /\ level' \in [Loggers -> Levels]
      BY <1>0, <2>2, Zenon
    <3>. QED  BY <2>2, <3>1, CallShape
  <2>. QED  BY <1>3, <2>1, <2>2 DEF EnableLogger
<1>4. CASE SetLoggerLevel(t, l, lev)
  <2>1. CASE lev > level[l]
    BY <1>4, <2>1, <1>2 DEF SetLoggerLevel
  <2>2. CASE ~(lev > level[l])
    <3>1. Call(t, "level", l, lev, FALSE)
      BY <1>4, <2>2 DEF SetLoggerLevel
    <3>2. enable' \in [Loggers -> BOOLEAN] /\ level' \in [Loggers -> Levels]
      BY <1>0, <1>4, <2>2 DEF SetLoggerLevel
    <3>. QED  BY <3>1, <3>2, CallShape
  <2>. QED  BY <2>1, <2>2
<1>. QED  BY <1>1, <1>3, <1>4

\* The shapes of a step.
LEMMA Steps ==
  ASSUME TypeInv, [Next]_vars
  PROVE  \/ \E t \in Threads: ACall(t) \/ AStep(t)
         \/ NoGreeting
         \/ Run \/ Post \/ PopLog \/ Handle \/ Quit \/ Exit
         \/ Start \/ Wait \/ Stop \/ Join
         \/ UNCHANGED vars
<1>. USE Constants
<1>0. calls \in [Threads -> 0..MaxNumber] /\ greet \in 0..Greetings
  BY DEF TypeInv, TypeOK
<1>1. ASSUME NEW t \in Users, User(t)
      PROVE  ACall(t) \/ AStep(t)
  <2>1. CASE Continue(t)
    BY <1>1, <2>1 DEF User, AStep
  <2>2. CASE /\ calls[t] < MaxCalls[t]
             /\ \E l \in Loggers, lev \in Levels:
                  \/ t \in Producers /\ PrePush(t, l, lev)
                  \/ t \in Changers /\ (EnableLogger(t, l) \/ SetLoggerLevel(t, l, lev))
    <3>1. calls[t] + 1 \in 0..MaxNumber
      BY <1>0, <2>2
    <3>2. UNCHANGED <<sem, ctl, owed, w, written>> /\ UNCHANGED greet
      BY <1>1 DEF User, mainVars, writerVars
    <3>3. CallStep(t)
      BY <2>2, <3>1, <3>2, CallIsCall DEF Callers
    <3>. QED  BY <1>1, <3>2, <3>3 DEF ACall, User
  <2>. QED  BY <1>1, <2>1, <2>2 DEF User
<1>2. ASSUME Greet
      PROVE  ACall(WRITER) \/ NoGreeting
  <2>. DEFINE l == greet \div 2
  <2>1. w = "greet" /\ greet < Greetings /\ Alive
    BY <1>2 DEF Greet, At
  <2>2. l \in Loggers
    BY <1>0, <2>1 DEF Greetings, Loggers
  <2>3. CASE greet % 2 = 0 /\ ~enable[l]
    <3>1. greet + 2 <= Greetings
      BY <1>0, <2>1, <2>3 DEF Greetings
    <3>. QED  BY <1>0, <1>2, <2>1, <2>3, <3>1 DEF Greet, NoGreeting
  <2>4. CASE ~(greet % 2 = 0 /\ ~enable[l])
    <3>1. greet' = greet + 1 /\ PrePush(WRITER, l, ALARM)
      BY <1>2, <2>4 DEF Greet
    <3>2. UNCHANGED <<sem, ctl, owed, w, written>>
      BY <1>2 DEF Greet, mainVars
    <3>3. calls[WRITER] + 1 \in 0..MaxNumber
      BY <1>0, <2>1 DEF TypeInv
    <3>4. CallStep(WRITER)
      BY <2>2, <3>1, <3>2, <3>3, CallIsCall DEF Callers
    <3>. QED  BY <2>1, <3>1, <3>4 DEF ACall
  <2>. QED  BY <2>3, <2>4
<1>3. ASSUME WriterCall
      PROVE  AStep(WRITER)
  BY <1>3 DEF WriterCall, AStep
<1>. QED  BY <1>1, <1>2, <1>3 DEF Next, Main, Writer

-----------------------------------------------------------------------------
(* Type correctness *)

\* What makeLogData does with the block it got.
LEMMA FillTypes ==
  ASSUME TypeInv, NEW t \in Threads, NEW d \in Data, Fill(t, d)
  PROVE  /\ mine' \in [Threads -> Data \cup {NONE}]
         /\ heap' \in [Data -> Content]
         /\ op' \in [Threads -> Content]
         /\ pc' \in [Threads -> {"idle", "make", "reuse", "test", "push", "free", "keep"}]
BY BlankIsContent DEF Fill, Goto, TypeInv, TypeOK

\* A block that new LogData() returns was not in use.
LEMMA NewBlock ==
  ASSUME TypeInv, NEW t \in Threads, New(t)
  PROVE  \E d \in Data \ alloc:
           alloc' = alloc \cup {d} /\ Fill(t, d) /\ UNCHANGED <<logs, pool>>
<1>. DEFINE d == CHOOSE b \in Data: b \notin alloc
<1>1. d \in Data \ alloc
  <2>1. \E b \in Data: b \notin alloc
    BY DEF New, TypeInv, TypeOK
  <2>. QED  BY <2>1
<1>2. alloc' = alloc \cup {d} /\ Fill(t, d) /\ UNCHANGED <<logs, pool>>
  BY DEF New
<1>. QED  BY <1>1, <1>2

\* A step inside a function, by what it does to the blocks.
LEMMA Inside ==
  ASSUME TypeInv, NEW t \in Threads, AStep(t)
  PROVE  /\ UNCHANGED <<runing, loggerVars, calls, sem, ctl, owed, w, greet, written>>
         /\ \/ /\ pc[t] = "make" /\ pool # <<>>
               /\ Goto(t, "reuse") /\ UNCHANGED <<memVars, op, mine>>
            \/ /\ pc[t] \in {"make", "reuse"}
               /\ \E d \in Data \ alloc:
                    alloc' = alloc \cup {d} /\ Fill(t, d) /\ UNCHANGED <<logs, pool>>
            \/ /\ pc[t] = "reuse" /\ pool # <<>>
               /\ Fill(t, pool[Len(pool)])
               /\ pool' = SubSeq(pool, 1, Len(pool) - 1)
               /\ UNCHANGED <<logs, alloc>>
            \/ /\ pc[t] = "test"
               /\ Goto(t, "push") \/ Goto(t, "free")
               /\ UNCHANGED <<memVars, op, mine>>
            \/ /\ pc[t] = "push"
               /\ logs' = Append(logs, mine[t])
               /\ mine' = [mine EXCEPT ![t] = NONE]
               /\ Goto(t, "idle")
               /\ UNCHANGED <<pool, alloc, heap, op>>
            \/ /\ pc[t] = "free" /\ Len(pool) < PoolLimit
               /\ Goto(t, "keep") /\ UNCHANGED <<memVars, op, mine>>
            \/ /\ pc[t] = "free"
               /\ alloc' = alloc \ {mine[t]}
               /\ GiveUp(t)
               /\ UNCHANGED <<logs, pool, op>>
            \/ /\ pc[t] = "keep"
               /\ pool' = Append(pool, mine[t])
               /\ GiveUp(t)
               /\ UNCHANGED <<logs, alloc, op>>
<1>1. UNCHANGED <<runing, loggerVars, calls, sem, ctl, owed, w, greet, written>>
  BY DEF AStep, Continue, MakeLogData, Reuse, PushTest, Push, FreeTest, Keep, mainVars, writerVars
<1>2. CASE MakeLogData(t)
  <2>1. CASE pool = <<>>
    BY <1>1, <1>2, <2>1, NewBlock DEF MakeLogData
  <2>2. CASE pool # <<>>
    BY <1>1, <1>2, <2>2 DEF MakeLogData
  <2>. QED  BY <2>1, <2>2
<1>3. CASE Reuse(t)
  <2>1. CASE pool = <<>>
    BY <1>1, <1>3, <2>1, NewBlock DEF Reuse
  <2>2. CASE pool # <<>>
    BY <1>1, <1>3, <2>2 DEF Reuse
  <2>. QED  BY <2>1, <2>2
<1>4. CASE PushTest(t)
  BY <1>1, <1>4 DEF PushTest
<1>5. CASE Push(t)
  BY <1>1, <1>5 DEF Push
<1>6. CASE FreeTest(t)
  <2>1. CASE Len(pool) < PoolLimit
    BY <1>1, <1>6, <2>1 DEF FreeTest, memVars
  <2>2. CASE ~(Len(pool) < PoolLimit)
    BY <1>1, <1>6, <2>2 DEF FreeTest
  <2>. QED  BY <2>1, <2>2
<1>7. CASE Keep(t)
  BY <1>1, <1>7 DEF Keep
<1>. QED  BY <1>2, <1>3, <1>4, <1>5, <1>6, <1>7 DEF AStep, Continue

\* A thread has a block exactly where its function holds one, or where the writer
\* has popped one.
Holding == {"test", "push", "free", "keep"}

MineInv ==
  /\ \A t \in Threads: mine[t] # NONE <=> (pc[t] \in Holding \/ (t = WRITER /\ w = "handle"))
  /\ w = "handle" => pc[WRITER] = "idle"

BlockInv == TypeInv /\ MineInv

\* The part of it that a step inside a function can disturb.
Hands ==
  /\ heap \in [Data -> Content]
  /\ pc \in [Threads -> {"idle", "make", "reuse", "test", "push", "free", "keep"}]
  /\ op \in [Threads -> Content]
  /\ mine \in [Threads -> Data \cup {NONE}]
  /\ MineInv

LEMMA InitBlocks == Init => BlockInv
<1>. SUFFICES ASSUME Init PROVE BlockInv
  OBVIOUS
<1>. USE Constants, BlankIsContent, LevelsAssumption DEF Init
<1>1. logs \in Seq(Data) /\ pool \in Seq(Data) /\ written \in Seq(Message)
  BY EmptySeq
<1>2. TypeOK
  <2>1. sem \in 0..1 /\ greet \in 0..Greetings /\ alloc \subseteq Data /\ owed \subseteq Message
    OBVIOUS
  <2>2. level \in [Loggers -> Levels] /\ heap \in [Data -> Content] /\ op \in [Threads -> Content]
        /\ calls \in [Threads -> 0..MaxNumber] /\ enable \in [Loggers -> BOOLEAN]
        /\ mine \in [Threads -> Data \cup {NONE}]
    BY Zenon
  <2>3. runing \in BOOLEAN /\ pc \in [Threads -> {"idle", "make", "reuse", "test", "push", "free", "keep"}]
        /\ ctl \in {"start", "wait", "started", "failed", "join", "gone"}
        /\ w \in {"none", "run", "greet", "pop", "handle", "quit", "exit", "end"}
    BY Zenon
  <2>. QED  BY <1>1, <2>1, <2>2, <2>3, Zenon DEF TypeOK
<1>3. calls[WRITER] <= greet
  <2>1. calls[WRITER] = 0 /\ greet = 0
    BY Zenon
  <2>. QED  BY <2>1
<1>4. MineInv
  BY DEF MineInv, Holding
<1>. QED  BY <1>2, <1>3, <1>4 DEF BlockInv, TypeInv

LEMMA InsideBlocks ==
  ASSUME BlockInv, NEW t \in Threads, AStep(t)
  PROVE  BlockInv'
<1>. USE DataAssumption, Constants
<1>0. TypeInv /\ MineInv /\ Hands
  BY DEF BlockInv, TypeInv, TypeOK, Hands
<1>1. UNCHANGED <<runing, enable, level, calls, sem, ctl, owed, w, greet, written>>
  BY <1>0, Inside DEF loggerVars
<1>2. ASSUME NEW d \in Data, Fill(t, d), pc[t] \in {"make", "reuse"}
      PROVE  Hands'
  <2>1. pc'[t] \in {"test", "push"} /\ mine'[t] = d /\ d # NONE
    BY <1>0, <1>2 DEF Fill, Goto, Hands
  <2>2. \A u \in Threads \ {t}: pc'[u] = pc[u] /\ mine'[u] = mine[u]
    BY <1>0, <1>2 DEF Fill, Goto, Hands
  <2>3. MineInv'
    BY <1>0, <1>1, <1>2, <2>1, <2>2 DEF MineInv, Holding
  <2>. QED  BY <1>0, <1>2, <2>3, FillTypes DEF Hands
<1>3. ASSUME pc[t] \in {"free", "keep"}, GiveUp(t), op' = op
      PROVE  Hands' /\ mine[t] \in Data
  BY <1>0, <1>1, <1>3, BlankIsContent DEF GiveUp, Goto, Hands, MineInv, Holding
<1>4. Hands' /\ logs' \in Seq(Data) /\ pool' \in Seq(Data) /\ alloc' \subseteq Data
  <2>0. logs \in Seq(Data) /\ pool \in Seq(Data) /\ alloc \subseteq Data
    BY <1>0 DEF TypeInv, TypeOK
  <2>2. CASE /\ pc[t] = "make" /\ pool # <<>>
             /\ Goto(t, "reuse") /\ UNCHANGED <<memVars, op, mine>>
    BY <1>0, <1>1, <2>0, <2>2 DEF Goto, memVars, Hands, MineInv, Holding
  <2>3. CASE /\ pc[t] \in {"make", "reuse"}
             /\ \E d \in Data \ alloc:
                  alloc' = alloc \cup {d} /\ Fill(t, d) /\ UNCHANGED <<logs, pool>>
    BY <2>0, <2>3, <1>2
  <2>4. CASE /\ pc[t] = "reuse" /\ pool # <<>>
             /\ Fill(t, pool[Len(pool)])
             /\ pool' = SubSeq(pool, 1, Len(pool) - 1)
             /\ UNCHANGED <<logs, alloc>>
    <3>1. pool[Len(pool)] \in Data /\ pool' \in Seq(Data)
      BY <2>0, <2>4
    <3>. QED  BY <1>2, <2>0, <2>4, <3>1
  <2>5. CASE /\ pc[t] = "test"
             /\ Goto(t, "push") \/ Goto(t, "free")
             /\ UNCHANGED <<memVars, op, mine>>
    BY <1>0, <1>1, <2>0, <2>5 DEF Goto, memVars, Hands, MineInv, Holding
  <2>6. CASE /\ pc[t] = "push"
             /\ logs' = Append(logs, mine[t])
             /\ mine' = [mine EXCEPT ![t] = NONE]
             /\ Goto(t, "idle")
             /\ UNCHANGED <<pool, alloc, heap, op>>
    <3>1. mine[t] \in Data
      BY <1>0, <2>6 DEF Hands, MineInv, Holding
    <3>2. logs' \in Seq(Data)
      BY <2>0, <2>6, <3>1
    <3>. QED  BY <1>0, <1>1, <2>0, <2>6, <3>2 DEF Goto, Hands, MineInv, Holding
  <2>7. CASE /\ pc[t] = "free" /\ Len(pool) < PoolLimit
             /\ Goto(t, "keep") /\ UNCHANGED <<memVars, op, mine>>
    BY <1>0, <1>1, <2>0, <2>7 DEF Goto, memVars, Hands, MineInv, Holding
  <2>8. CASE /\ pc[t] = "free"
             /\ alloc' = alloc \ {mine[t]}
             /\ GiveUp(t)
             /\ UNCHANGED <<logs, pool, op>>
    BY <1>3, <2>0, <2>8
  <2>9. CASE /\ pc[t] = "keep"
             /\ pool' = Append(pool, mine[t])
             /\ GiveUp(t)
             /\ UNCHANGED <<logs, alloc, op>>
    BY <1>3, <2>0, <2>9
  <2>. QED  BY <1>0, <2>2, <2>3, <2>4, <2>5, <2>6, <2>7, <2>8, <2>9, Inside
<1>5. TypeOK'
  BY <1>0, <1>1, <1>4 DEF Hands, TypeInv, TypeOK
<1>. QED  BY <1>0, <1>1, <1>4, <1>5 DEF BlockInv, TypeInv, Hands

-----------------------------------------------------------------------------
(* start(), stop() and run() *)

\* _runing is true from Run to Stop, whatever start() returned; the semaphore is
\* posted once, behind the greetings.
ControlInv ==
  /\ ctl = "start" => w = "none"
  /\ w \in {"none", "run"} => ~runing
  /\ runing => w \notin {"exit", "end"}
  /\ sem > 0 \/ ctl = "started" => w \notin {"none", "run", "greet"}
  /\ w \notin {"none", "run"} /\ ctl \notin {"join", "gone"} => runing
  /\ ctl = "join" => ~runing /\ w \notin {"none", "run"}
  /\ ctl \notin {"join", "gone"} => owed = {}

LEMMA ControlStep ==
  ASSUME TypeInv, ControlInv, [Next]_vars
  PROVE  ControlInv' /\ sem' \in 0..1
<1>0. /\ runing \in BOOLEAN /\ sem \in 0..1
      /\ ctl \in {"start", "wait", "started", "failed", "join", "gone"}
      /\ w \in {"none", "run", "greet", "pop", "handle", "quit", "exit", "end"}
  BY DEF TypeInv, TypeOK
<1>1. CASE UNCHANGED <<runing, sem, ctl, owed, w>>
  BY <1>0, <1>1 DEF ControlInv
<1>2. ASSUME NEW t \in Threads, ACall(t) \/ AStep(t)
      PROVE  UNCHANGED <<runing, sem, ctl, owed, w>>
  BY <1>2, Inside DEF ACall, CallStep
<1>3. NoGreeting => UNCHANGED <<runing, sem, ctl, owed, w>>
  BY DEF NoGreeting, mainVars
<1>4. CASE Run
  BY <1>0, <1>4 DEF Run, At, mainVars, ControlInv, Alive
<1>5. CASE Post
  BY <1>0, <1>5 DEF Post, At, ControlInv, Alive
<1>6. CASE PopLog \/ Handle
  BY <1>0, <1>6 DEF PopLog, Handle, At, mainVars, ControlInv
<1>7. CASE Quit \/ Exit
  BY <1>0, <1>7 DEF Quit, Exit, At, mainVars, ControlInv
<1>8. CASE Start \/ Wait
  BY <1>0, <1>8 DEF Start, Wait, ControlInv
<1>9. CASE Stop \/ Join
  BY <1>0, <1>9 DEF Stop, Join, ControlInv
<1>10. CASE UNCHANGED vars
  BY <1>1, <1>10 DEF vars, mainVars, writerVars
<1>. QED  BY <1>1, <1>2, <1>3, <1>4, <1>5, <1>6, <1>7, <1>8, <1>9, <1>10, Steps

LEMMA NextBlocks ==
  ASSUME BlockInv, ControlInv, [Next]_vars
  PROVE  BlockInv'
<1>. USE DataAssumption, Constants
<1>0. TypeInv /\ TypeOK /\ MineInv /\ Hands
  BY DEF BlockInv, TypeInv, TypeOK, Hands
<1>1. ASSUME NEW t \in Threads, ACall(t)
      PROVE  BlockInv'
  <2>1. CallStep(t)
    BY <1>1 DEF ACall
  <2>2. /\ pc' \in [Threads -> {"idle", "make", "reuse", "test", "push", "free", "keep"}]
        /\ op' \in [Threads -> Content]
        /\ \A u \in Threads: pc'[u] \in Holding <=> pc[u] \in Holding
        /\ \A u \in Threads \ {t}: pc'[u] = pc[u]
    BY <1>0, <2>1 DEF CallStep, Hands, Holding
  <2>3. calls' \in [Threads -> 0..MaxNumber] /\ calls'[t] = calls[t] + 1
        /\ \A u \in Threads \ {t}: calls'[u] = calls[u]
    BY <1>0, <2>1 DEF CallStep, TypeOK
  <2>4. greet' \in 0..Greetings /\ calls'[WRITER] <= greet'
    <3>1. CASE t = WRITER
      <4>1. greet' = greet + 1 /\ greet < Greetings
        BY <1>1, <3>1 DEF ACall
      <4>. QED  BY <1>0, <2>3, <3>1, <4>1 DEF TypeInv, TypeOK
    <3>2. CASE t # WRITER
      BY <1>0, <1>1, <2>3, <3>2 DEF ACall, TypeInv, TypeOK
    <3>. QED  BY <3>1, <3>2
  <2>5. UNCHANGED <<runing, logs, pool, alloc, heap, mine, sem, ctl, owed, w, written>>
        /\ enable' \in [Loggers -> BOOLEAN] /\ level' \in [Loggers -> Levels]
    BY <2>1 DEF CallStep, memVars
  <2>6. TypeOK'
    BY <1>0, <2>2, <2>3, <2>4, <2>5, Zenon DEF TypeOK
  <2>7. w = "handle" => t # WRITER
    BY <1>1 DEF ACall
  <2>8. MineInv'
    BY <1>0, <2>2, <2>5, <2>7 DEF MineInv
  <2>. QED  BY <2>4, <2>6, <2>8 DEF BlockInv, TypeInv
<1>2. CASE NoGreeting
  BY <1>0, <1>2 DEF NoGreeting, loggerVars, memVars, threadVars, mainVars, BlockInv,
                    TypeInv, TypeOK, MineInv
<1>3. CASE Run
  BY <1>0, <1>3 DEF Run, At, loggerVars, memVars, threadVars, mainVars, BlockInv,
                    TypeInv, TypeOK, MineInv
<1>4. CASE Post
  <2>1. sem' \in 0..1
    BY <1>0, ControlStep
  <2>. QED  BY <1>0, <1>4, <2>1 DEF Post, At, loggerVars, memVars, threadVars, BlockInv,
                    TypeInv, TypeOK, MineInv
<1>5. CASE PopLog
  <2>1. CASE logs = <<>>
    BY <1>0, <1>5, <2>1 DEF PopLog, At, loggerVars, mainVars, BlockInv,
                            TypeInv, TypeOK, MineInv
  <2>2. CASE logs # <<>>
    <3>1. Head(logs) \in Data /\ Tail(logs) \in Seq(Data)
      BY <1>0, <2>2, HeadTailProperties DEF TypeOK
    <3>2. mine' = [mine EXCEPT ![WRITER] = Head(logs)] /\ logs' = Tail(logs) /\ w' = "handle"
          /\ pc[WRITER] = "idle"
          /\ UNCHANGED <<runing, loggerVars, pool, alloc, heap, pc, op, calls, mainVars,
                         greet, written>>
      BY <1>5, <2>2 DEF PopLog, At
    <3>3. TypeOK'
      BY <1>0, <3>1, <3>2 DEF loggerVars, mainVars, TypeOK
    <3>4. MineInv'
      BY <1>0, <3>1, <3>2 DEF MineInv, Hands, Holding
    <3>. QED  BY <1>0, <3>2, <3>3, <3>4 DEF BlockInv, TypeInv
  <2>. QED  BY <2>1, <2>2
<1>6. CASE Handle
  <2>. DEFINE d == mine[WRITER]
              c == heap[d]
  <2>1. w = "handle" /\ w' = "pop" /\ pc[WRITER] = "idle" /\ pc' = [pc EXCEPT ![WRITER] = "free"]
        /\ UNCHANGED <<runing, memVars, op, mine, calls, mainVars, greet>>
        /\ OnHotChange(c.type, c.id, c.level)
        /\ (written' = written \/ written' = Append(written, Msg(d)))
    BY <1>6 DEF Handle, At, Goto
  <2>2. d \in Data /\ c \in Content
    BY <1>0, <2>1 DEF MineInv, Hands
  <2>3. Msg(d) \in Message /\ c.id \in Loggers /\ c.level \in Levels
    BY <2>2 DEF Msg, Message, Content
  <2>4. enable' \in [Loggers -> BOOLEAN] /\ level' \in [Loggers -> Levels]
    BY <1>0, <2>1, <2>3, HotChangeTypes DEF TypeOK
  <2>5. written' \in Seq(Message)
    <3>1. written \in Seq(Message)
      BY <1>0 DEF TypeOK
    <3>. QED  BY <2>1, <2>3, <3>1, AppendProperties
  <2>6. Hands'
    BY <1>0, <2>1 DEF memVars, Hands, MineInv, Holding
  <2>7. TypeOK'
    BY <1>0, <2>1, <2>4, <2>5, <2>6, Zenon DEF memVars, mainVars, TypeOK, Hands
  <2>. QED  BY <1>0, <2>1, <2>6, <2>7 DEF BlockInv, TypeInv, Hands
<1>7. CASE Quit
  BY <1>0, <1>7 DEF Quit, At, loggerVars, memVars, threadVars, mainVars, BlockInv,
                    TypeInv, TypeOK, MineInv
<1>8. CASE Exit
  BY <1>0, <1>8 DEF Exit, At, memVars, threadVars, mainVars, BlockInv,
                    TypeInv, TypeOK, MineInv
<1>9. CASE Start \/ Wait
  <2>1. sem' \in 0..1 /\ w' \in {w, "run"} /\ (w' # w => w' = "run")
        /\ ctl' \in {"start", "wait", "started", "failed", "join", "gone"}
    BY <1>0, <1>9 DEF Start, Wait, TypeOK
  <2>2. UNCHANGED <<runing, owed, mainOnly>>
    BY <1>9 DEF Start, Wait
  <2>3. w' = w \/ (w = "none" /\ w' = "run")
    BY <1>9 DEF Start, Wait, ControlInv
  <2>. QED  BY <1>0, <2>1, <2>2, <2>3 DEF mainOnly, loggerVars, memVars, threadVars, BlockInv,
                    TypeInv, TypeOK, MineInv
<1>10. CASE Stop \/ Join
  <2>1. ASSUME NEW i \in DOMAIN logs
        PROVE  Msg(logs[i]) \in Message
    <3>1. logs[i] \in Data
      BY <1>0 DEF TypeOK
    <3>. QED  BY <1>0, <3>1 DEF Msg, Message, Content, Hands
  <2>2. /\ runing' \in BOOLEAN /\ owed' \subseteq Message
        /\ ctl' \in {"start", "wait", "started", "failed", "join", "gone"}
        /\ UNCHANGED <<w, sem, mainOnly>>
    <3>1. CASE Stop /\ runing
      <4>1. runing' = FALSE /\ ctl' = "join" /\ owed' = {Msg(logs[i]): i \in DOMAIN logs}
            /\ UNCHANGED <<w, sem, mainOnly>>
        BY <3>1 DEF Stop
      <4>. QED  BY <2>1, <4>1
    <3>2. CASE Stop /\ ~runing
      BY <1>0, <3>2 DEF Stop, TypeOK
    <3>3. CASE Join
      BY <1>0, <3>3 DEF Join, TypeOK
    <3>. QED  BY <1>10, <3>1, <3>2, <3>3
  <2>. QED  BY <1>0, <2>2 DEF mainOnly, loggerVars, memVars, threadVars, BlockInv,
                    TypeInv, TypeOK, MineInv
<1>11. CASE UNCHANGED vars
  BY <1>0, <1>11 DEF vars, loggerVars, memVars, threadVars, mainVars, writerVars, BlockInv,
                    TypeInv, TypeOK, MineInv
<1>. QED  BY <1>0, <1>1, <1>2, <1>3, <1>4, <1>5, <1>6, <1>7, <1>8, <1>9, <1>10, <1>11,
             InsideBlocks, Steps

CoreInv == BlockInv /\ ControlInv

LEMMA CoreInvariant == Spec => []CoreInv
<1>1. Init => CoreInv
  <2>1. Init => ControlInv
    BY DEF Init, ControlInv
  <2>. QED  BY <2>1, InitBlocks DEF CoreInv
<1>2. CoreInv /\ [Next]_vars => CoreInv'
  BY NextBlocks, ControlStep DEF CoreInv, BlockInv
<1>. QED  BY <1>1, <1>2, PTL DEF Spec

\* Type correctness, for any number of threads and loggers.
THEOREM TypeCorrect == Spec => []TypeOK
<1>1. CoreInv => TypeOK
  BY DEF CoreInv, BlockInv, TypeInv
<1>. QED  BY <1>1, CoreInvariant, PTL

\* start() returns true only when the writer runs.
THEOREM StartedRuns == Spec => []StartedMeansRunning
<1>1. CoreInv => StartedMeansRunning
  <2>. SUFFICES ASSUME CoreInv, ctl = "started"
                PROVE  runing /\ w \notin {"none", "run", "greet", "exit", "end"}
    BY DEF StartedMeansRunning
  <2>. QED  BY DEF CoreInv, ControlInv
<1>. QED  BY <1>1, CoreInvariant, PTL

-----------------------------------------------------------------------------
(* Who owns a block *)

Elems(s) == {s[i]: i \in DOMAIN s}
Distinct(s) == \A i, j \in DOMAIN s: s[i] = s[j] => i = j

LEMMA AppendElems ==
  ASSUME NEW S, NEW s \in Seq(S), NEW x \in S
  PROVE  /\ Elems(Append(s, x)) = Elems(s) \cup {x}
         /\ Distinct(s) /\ x \notin Elems(s) => Distinct(Append(s, x))
<1>1. /\ Append(s, x) \in Seq(S) /\ Len(Append(s, x)) = Len(s) + 1
      /\ \A i \in 1..Len(s): Append(s, x)[i] = s[i]
      /\ Append(s, x)[Len(s) + 1] = x
      /\ DOMAIN s = 1..Len(s) /\ DOMAIN Append(s, x) = 1..Len(s) + 1 /\ Len(s) \in Nat
  BY AppendProperties, LenProperties
<1>. HIDE DEF Elems
<1>2. Elems(Append(s, x)) = Elems(s) \cup {x}
  BY <1>1 DEF Elems
<1>3. ASSUME Distinct(s), x \notin Elems(s), NEW i \in 1..Len(s) + 1, NEW j \in 1..Len(s) + 1,
             Append(s, x)[i] = Append(s, x)[j]
      PROVE  i = j
  BY <1>1, <1>3 DEF Distinct, Elems
<1>. QED  BY <1>1, <1>2, <1>3 DEF Distinct

LEMMA FrontElems ==
  ASSUME NEW S, NEW s \in Seq(S), s # <<>>, Distinct(s)
  PROVE  LET f == SubSeq(s, 1, Len(s) - 1)
         IN /\ Distinct(f)
            /\ Elems(f) = Elems(s) \ {s[Len(s)]}
            /\ s[Len(s)] \in Elems(s)
            /\ Len(f) = Len(s) - 1
<1>. DEFINE f == SubSeq(s, 1, Len(s) - 1)
<1>1. Len(s) \in Nat \ {0} /\ DOMAIN s = 1..Len(s)
  BY EmptySeq, LenProperties
<1>2. DOMAIN f = 1..Len(s) - 1 /\ Len(f) = Len(s) - 1 /\ \A i \in 1..Len(s) - 1: f[i] = s[i]
  BY <1>1
<1>3. Distinct(f) /\ Elems(f) = Elems(s) \ {s[Len(s)]} /\ s[Len(s)] \in Elems(s)
  <2>. HIDE DEF f
  <2>. QED  BY <1>1, <1>2 DEF Distinct, Elems
<1>. QED  BY <1>2, <1>3

LEMMA TailElems ==
  ASSUME NEW S, NEW s \in Seq(S), s # <<>>, Distinct(s)
  PROVE  /\ Distinct(Tail(s))
         /\ Elems(Tail(s)) = Elems(s) \ {Head(s)}
         /\ Head(s) \in Elems(s)
<1>1. Len(s) \in Nat \ {0} /\ DOMAIN s = 1..Len(s) /\ Head(s) = s[1]
  BY EmptySeq, LenProperties
<1>2. /\ Tail(s) \in Seq(S) /\ Len(Tail(s)) = Len(s) - 1
      /\ \A i \in 1..Len(Tail(s)): Tail(s)[i] = s[i + 1]
      /\ DOMAIN Tail(s) = 1..Len(s) - 1
  BY <1>1, HeadTailProperties, LenProperties
<1>3. ASSUME NEW i \in 2..Len(s) PROVE Tail(s)[i - 1] = s[i] /\ i - 1 \in DOMAIN Tail(s)
  BY <1>1, <1>2
<1>4. Elems(Tail(s)) = Elems(s) \ {Head(s)}
  <2>1. ASSUME NEW x \in Elems(Tail(s)) PROVE x \in Elems(s) \ {Head(s)}
    BY <1>1, <1>2 DEF Distinct, Elems
  <2>2. ASSUME NEW x \in Elems(s) \ {Head(s)} PROVE x \in Elems(Tail(s))
    <3>1. PICK i \in 2..Len(s): x = s[i]
      BY <1>1 DEF Elems
    <3>. QED  BY <1>3, <3>1 DEF Elems
  <2>. QED  BY <2>1, <2>2
<1>5. Distinct(Tail(s))
  BY <1>1, <1>2 DEF Distinct
<1>6. Head(s) \in Elems(s)
  BY <1>1 DEF Elems
<1>. QED  BY <1>4, <1>5, <1>6

\* The blocks that threads have in hand.
InHands == {mine[t]: t \in Threads} \ {NONE}

LEMMA TakeHand ==
  ASSUME mine \in [Threads -> Data \cup {NONE}], NEW t \in Threads, NEW d \in Data,
         mine[t] = NONE, mine' = [mine EXCEPT ![t] = d]
  PROVE  /\ InHands' = InHands \cup {d}
         /\ mine'[t] = d /\ \A u \in Threads \ {t}: mine'[u] = mine[u]
<1>1. mine'[t] = d /\ \A u \in Threads \ {t}: mine'[u] = mine[u]
  OBVIOUS
<1>. QED  BY <1>1, DataAssumption DEF InHands

LEMMA DropHand ==
  ASSUME mine \in [Threads -> Data \cup {NONE}], NEW t \in Threads,
         \A u \in Threads: mine[u] = mine[t] => u = t,
         mine' = [mine EXCEPT ![t] = NONE]
  PROVE  /\ InHands' = InHands \ {mine[t]}
         /\ mine'[t] = NONE /\ \A u \in Threads \ {t}: mine'[u] = mine[u]
<1>1. mine'[t] = NONE /\ \A u \in Threads \ {t}: mine'[u] = mine[u]
  OBVIOUS
<1>. QED  BY <1>1, DataAssumption DEF InHands

\* Owned, over the elements of the two sequences.
OwnedSets ==
  /\ Distinct(logs) /\ Distinct(pool)
  /\ Elems(logs) \cap Elems(pool) = {}
  /\ \A t \in Threads: mine[t] # NONE =>
       /\ mine[t] \notin Elems(logs) \cup Elems(pool)
       /\ \A u \in Threads: mine[u] = mine[t] => u = t
  /\ alloc = Elems(logs) \cup Elems(pool) \cup InHands

LEMMA OwnedIsOwned == Owned <=> OwnedSets
BY DEF Owned, OwnedSets, Queued, InPool, Elems, Distinct, InHands

LEMMA OwnedInside ==
  ASSUME CoreInv, OwnedSets, NEW t \in Threads, AStep(t)
  PROVE  OwnedSets'
<1>0. /\ TypeInv /\ MineInv
      /\ logs \in Seq(Data) /\ pool \in Seq(Data) /\ alloc \subseteq Data
      /\ mine \in [Threads -> Data \cup {NONE}] /\ NONE \notin Data
      /\ t = WRITER /\ pc[t] # "idle" => w # "handle"
  BY DataAssumption DEF CoreInv, BlockInv, TypeInv, TypeOK, MineInv
<1>1. CASE UNCHANGED <<logs, pool, alloc, mine>>
  BY <1>1 DEF OwnedSets, InHands
<1>2. ASSUME pc[t] \in {"make", "reuse"} PROVE mine[t] = NONE
  BY <1>0, <1>2 DEF MineInv, Holding
<1>3. ASSUME pc[t] \in Holding PROVE mine[t] \in Data
  BY <1>0, <1>3 DEF MineInv
<1>. HIDE DEF Elems, Distinct, InHands
<1>4. CASE /\ pc[t] \in {"make", "reuse"}
           /\ \E d \in Data \ alloc:
                alloc' = alloc \cup {d} /\ Fill(t, d) /\ UNCHANGED <<logs, pool>>
  <2>1. PICK d \in Data \ alloc: alloc' = alloc \cup {d} /\ Fill(t, d) /\ UNCHANGED <<logs, pool>>
    BY <1>4
  <2>2. InHands' = InHands \cup {d} /\ mine'[t] = d /\ \A u \in Threads \ {t}: mine'[u] = mine[u]
    BY <1>0, <1>2, <1>4, <2>1, TakeHand DEF Fill
  <2>3. ASSUME NEW u \in Threads PROVE mine[u] # d
    BY <1>0, <2>1, <2>3 DEF OwnedSets, InHands
  <2>. QED  BY <1>0, <2>1, <2>2, <2>3 DEF OwnedSets
<1>5. CASE /\ pc[t] = "reuse" /\ pool # <<>>
           /\ Fill(t, pool[Len(pool)])
           /\ pool' = SubSeq(pool, 1, Len(pool) - 1)
           /\ UNCHANGED <<logs, alloc>>
  <2>. DEFINE d == pool[Len(pool)]
  <2>1. d \in Data
    BY <1>0, <1>5, EmptySeq
  <2>2. Distinct(pool') /\ Elems(pool') = Elems(pool) \ {d} /\ d \in Elems(pool)
    BY <1>0, <1>5, FrontElems DEF OwnedSets
  <2>3. InHands' = InHands \cup {d} /\ mine'[t] = d /\ \A u \in Threads \ {t}: mine'[u] = mine[u]
    BY <1>0, <1>2, <1>5, <2>1, TakeHand DEF Fill
  <2>. HIDE DEF d
  <2>4. ASSUME NEW u \in Threads PROVE mine[u] # d
    BY <1>0, <2>1, <2>2 DEF OwnedSets
  <2>. QED  BY <1>0, <1>5, <2>1, <2>2, <2>3, <2>4 DEF OwnedSets
<1>6. ASSUME pc[t] \in Holding, mine' = [mine EXCEPT ![t] = NONE]
      PROVE  /\ InHands' = InHands \ {mine[t]} /\ mine[t] \in InHands
             /\ mine'[t] = NONE /\ \A u \in Threads \ {t}: mine'[u] = mine[u] /\ mine[u] # mine[t]
  <2>1. mine[t] # NONE /\ \A u \in Threads: mine[u] = mine[t] => u = t
    BY <1>0, <1>3, <1>6 DEF OwnedSets
  <2>2. mine[t] \in InHands
    BY <2>1 DEF InHands
  <2>. QED  BY <1>0, <1>6, <2>1, <2>2, DropHand
<1>7. CASE /\ pc[t] = "push"
           /\ logs' = Append(logs, mine[t])
           /\ mine' = [mine EXCEPT ![t] = NONE]
           /\ UNCHANGED <<pool, alloc>>
  <2>1. mine[t] \in Data /\ mine[t] \notin Elems(logs) \cup Elems(pool)
    BY <1>0, <1>3, <1>7 DEF OwnedSets, Holding
  <2>2. Elems(logs') = Elems(logs) \cup {mine[t]} /\ Distinct(logs')
    BY <1>0, <1>7, <2>1, AppendElems DEF OwnedSets
  <2>. QED  BY <1>0, <1>6, <1>7, <2>1, <2>2 DEF OwnedSets, Holding
<1>8. CASE /\ pc[t] = "free"
           /\ alloc' = alloc \ {mine[t]}
           /\ GiveUp(t)
           /\ UNCHANGED <<logs, pool>>
  <2>1. mine[t] \in Data /\ mine[t] \notin Elems(logs) \cup Elems(pool)
    BY <1>0, <1>3, <1>8 DEF OwnedSets, Holding
  <2>. QED  BY <1>0, <1>6, <1>8, <2>1 DEF OwnedSets, Holding, GiveUp
<1>9. CASE /\ pc[t] = "keep"
           /\ pool' = Append(pool, mine[t])
           /\ GiveUp(t)
           /\ UNCHANGED <<logs, alloc>>
  <2>1. mine[t] \in Data /\ mine[t] \notin Elems(logs) \cup Elems(pool)
    BY <1>0, <1>3, <1>9 DEF OwnedSets, Holding
  <2>2. Elems(pool') = Elems(pool) \cup {mine[t]} /\ Distinct(pool')
    BY <1>0, <1>9, <2>1, AppendElems DEF OwnedSets
  <2>. QED  BY <1>0, <1>6, <1>9, <2>1, <2>2 DEF OwnedSets, Holding, GiveUp
<1>. QED  BY <1>0, <1>1, <1>4, <1>5, <1>7, <1>8, <1>9, Inside DEF memVars

LEMMA OwnedNext ==
  ASSUME CoreInv, OwnedSets, [Next]_vars
  PROVE  OwnedSets'
<1>0. /\ TypeInv /\ MineInv /\ WRITER \in Threads
      /\ logs \in Seq(Data) /\ pool \in Seq(Data) /\ alloc \subseteq Data
      /\ mine \in [Threads -> Data \cup {NONE}] /\ NONE \notin Data
  BY DataAssumption, Constants DEF CoreInv, BlockInv, TypeInv, TypeOK
<1>1. CASE UNCHANGED <<logs, pool, alloc, mine>>
  BY <1>1 DEF OwnedSets, InHands
<1>2. CASE PopLog
  <2>1. CASE logs = <<>>
    BY <1>1, <1>2, <2>1 DEF PopLog
  <2>2. CASE logs # <<>>
    <3>1. /\ mine' = [mine EXCEPT ![WRITER] = Head(logs)] /\ logs' = Tail(logs)
          /\ pc[WRITER] = "idle" /\ w = "pop"
          /\ UNCHANGED <<pool, alloc>>
      BY <1>2, <2>2 DEF PopLog, At
    <3>2. mine[WRITER] = NONE
      BY <1>0, <3>1 DEF MineInv, Holding
    <3>3. /\ Distinct(logs') /\ Elems(logs') = Elems(logs) \ {Head(logs)}
          /\ Head(logs) \in Elems(logs)
      BY <1>0, <2>2, <3>1, TailElems DEF OwnedSets
    <3>4. Head(logs) \in Data
      BY <1>0, <2>2, HeadTailProperties
    <3>5. InHands' = InHands \cup {Head(logs)} /\ mine'[WRITER] = Head(logs)
          /\ \A u \in Threads \ {WRITER}: mine'[u] = mine[u]
      BY <1>0, <3>1, <3>2, <3>4, TakeHand
    <3>. HIDE DEF Elems, Distinct, InHands
    <3>6. ASSUME NEW u \in Threads PROVE mine[u] # Head(logs)
      BY <1>0, <3>3, <3>4 DEF OwnedSets
    <3>. QED  BY <1>0, <3>1, <3>3, <3>4, <3>5, <3>6 DEF OwnedSets
  <2>. QED  BY <2>1, <2>2
<1>3. ASSUME NEW t \in Threads, ACall(t)
      PROVE  UNCHANGED <<logs, pool, alloc, mine>>
  BY <1>3 DEF ACall, CallStep, memVars
<1>4. NoGreeting \/ Run \/ Post \/ Handle \/ Quit \/ Exit \/ UNCHANGED vars
      => UNCHANGED <<logs, pool, alloc, mine>>
  BY DEF NoGreeting, Run, Post, Handle, Quit, Exit, memVars, threadVars, vars
<1>5. Start \/ Wait \/ Stop \/ Join => UNCHANGED <<logs, pool, alloc, mine>>
  BY DEF Start, Wait, Stop, Join, mainOnly, memVars, threadVars
<1>. QED  BY <1>0, <1>1, <1>2, <1>3, <1>4, <1>5, Steps, OwnedInside

LEMMA OwnedInvariant == Spec => []OwnedSets
<1>1. Init => OwnedSets
  BY Constants DEF Init, OwnedSets, Elems, Distinct, InHands
<1>2. CoreInv /\ OwnedSets /\ [Next]_vars => OwnedSets'
  BY OwnedNext
<1>. QED  BY <1>1, <1>2, CoreInvariant, PTL DEF Spec

\* A block is in the queue, in the pool or in the hands of one thread.
THEOREM BlocksAreOwned == Spec => []Owned
BY OwnedInvariant, OwnedIsOwned, PTL

-----------------------------------------------------------------------------
(* The bounds of queue and pool *)

\* The callers with a message that passed the test of prePushLog, and those that
\* passed the test of freeLogData.
Coming ==
  {t \in Callers: \/ pc[t] \in {"make", "reuse"} /\ op[t].type = "general"
                  \/ pc[t] \in {"test", "push"} /\ heap[mine[t]].type = "general"}
Keeping == {t \in Callers: pc[t] = "keep"}

\* Only callers have messages, and only they give blocks back.
CallerInv ==
  \A t \in Threads:
    /\ pc[t] \in {"make", "reuse"} /\ op[t].type = "general" => t \in Callers
    /\ pc[t] = "push" /\ heap[mine[t]].type = "general" => t \in Callers
    /\ pc[t] \in {"test", "free", "keep"} => t \in Callers

\* Each caller in between adds one at most.
BoundInv ==
  /\ Cardinality(Waiting) + Cardinality(Coming) <= Limit + Cardinality(Callers)
  /\ Len(pool) + Cardinality(Keeping) < PoolLimit + Cardinality(Callers)

LEMMA Finite ==
  /\ IsFiniteSet(Producers) /\ IsFiniteSet(Callers)
  /\ Cardinality(Callers) = Cardinality(Producers) + 1
  /\ Cardinality(Producers) \in Nat /\ Cardinality(Callers) \in Nat
  /\ \A S \in SUBSET Callers:
       IsFiniteSet(S) /\ Cardinality(S) \in Nat /\ Cardinality(S) <= Cardinality(Callers)
  /\ \A S \in SUBSET Data: IsFiniteSet(S) /\ Cardinality(S) \in Nat
<1>1. IsFiniteSet(Producers)
  BY ThreadsAssumption, FS_Subset DEF Users
<1>2. IsFiniteSet(Callers) /\ Cardinality(Callers) = Cardinality(Producers) + 1
  BY <1>1, ThreadsAssumption, FS_AddElement, FS_CardinalityType DEF Callers, Users
<1>3. Cardinality(Producers) \in Nat /\ Cardinality(Callers) \in Nat
  BY <1>1, <1>2, FS_CardinalityType
<1>. QED  BY <1>1, <1>2, <1>3, DataAssumption, FS_Subset, FS_CardinalityType

\* A sequence has no more elements than it is long.
LEMMA ElemsBound ==
  ASSUME NEW S, NEW s \in Seq(S)
  PROVE  IsFiniteSet(Elems(s)) /\ Cardinality(Elems(s)) <= Len(s)
<1>1. s \in Surjection(1..Len(s), Elems(s))
  BY LenProperties DEF Elems, Surjection
<1>2. IsFiniteSet(1..Len(s)) /\ Cardinality(1..Len(s)) = Len(s)
  <2>1. Len(s) \in Nat
    BY LenProperties
  <2>2. IsFiniteSet(1..Len(s)) /\ Cardinality(1..Len(s)) = IF 1 > Len(s) THEN 0 ELSE Len(s) - 1 + 1
    BY <2>1, FS_Interval
  <2>. QED  BY <2>1, <2>2
<1>. QED  BY <1>1, <1>2, FS_Surjection

LEMMA WaitingBound ==
  ASSUME logs \in Seq(Data)
  PROVE  /\ Cardinality(Waiting) <= Len(logs)
         /\ Waiting \subseteq Data /\ Waiting' \subseteq Elems(logs')
<1>1. Waiting \subseteq Elems(logs) /\ Waiting' \subseteq Elems(logs')
  BY DEF Waiting, Queued, Elems
<1>2. Elems(logs) \subseteq Data
  BY DEF Elems
<1>3. Cardinality(Waiting) <= Cardinality(Elems(logs))
  BY <1>1, ElemsBound, FS_Subset
<1>4. Cardinality(Waiting) \in Nat /\ Cardinality(Elems(logs)) \in Nat /\ Len(logs) \in Nat
  BY <1>1, <1>2, Finite, LenProperties
<1>. QED  BY <1>1, <1>2, <1>3, <1>4, ElemsBound

\* Fewer of them are within the bound.
LEMMA Fewer ==
  ASSUME BoundInv, logs \in Seq(Data), pool \in Seq(Data), pool' \in Seq(Data),
         Waiting' \subseteq Waiting, Coming' \subseteq Coming,
         \/ Len(pool') <= Len(pool) /\ Keeping' \subseteq Keeping
         \/ Len(pool') < PoolLimit
  PROVE  BoundInv'
<1>1. /\ Waiting \subseteq Data /\ Coming \subseteq Callers /\ Keeping \subseteq Callers
      /\ Keeping' \subseteq Callers
  BY WaitingBound DEF Coming, Keeping, Callers
<1>2. /\ Cardinality(Waiting') <= Cardinality(Waiting)
      /\ Cardinality(Coming') <= Cardinality(Coming)
      /\ Keeping' \subseteq Keeping => Cardinality(Keeping') <= Cardinality(Keeping)
  BY <1>1, Finite, FS_Subset
<1>3. /\ Cardinality(Waiting) \in Nat /\ Cardinality(Coming) \in Nat /\ Cardinality(Keeping) \in Nat
      /\ Cardinality(Waiting') \in Nat /\ Cardinality(Coming') \in Nat /\ Cardinality(Keeping') \in Nat
      /\ Cardinality(Keeping') <= Cardinality(Callers) /\ Cardinality(Callers) \in Nat
  BY <1>1, Finite
<1>4. Len(pool) \in Nat /\ Len(pool') \in Nat /\ Limit \in Nat /\ PoolLimit \in Nat
  BY Constants, LenProperties
<1>5. Limit' = Limit /\ PoolLimit' = PoolLimit /\ Callers' = Callers
  BY DEF Callers
<1>6. Cardinality(Waiting') + Cardinality(Coming') <= Limit + Cardinality(Callers)
  BY <1>2, <1>3, <1>4 DEF BoundInv
<1>7. Len(pool') + Cardinality(Keeping') < PoolLimit + Cardinality(Callers)
  BY <1>2, <1>3, <1>4 DEF BoundInv
<1>. QED  BY <1>5, <1>6, <1>7 DEF BoundInv

LEMMA BoundInside ==
  ASSUME CoreInv, OwnedSets, CallerInv, BoundInv, NEW t \in Threads, AStep(t)
  PROVE  CallerInv' /\ BoundInv'
<1>0. /\ TypeInv /\ MineInv /\ Hands
      /\ logs \in Seq(Data) /\ pool \in Seq(Data) /\ alloc \subseteq Data
      /\ heap \in [Data -> Content] /\ op \in [Threads -> Content]
      /\ mine \in [Threads -> Data \cup {NONE}] /\ NONE \notin Data
      /\ pc \in [Threads -> {"idle", "make", "reuse", "test", "push", "free", "keep"}]
      /\ logs' \in Seq(Data) /\ pool' \in Seq(Data)
  BY DataAssumption, InsideBlocks DEF CoreInv, BlockInv, TypeInv, TypeOK, Hands
<1>1. \A u \in Threads: pc[u] \in Holding => mine[u] \in Data
  BY <1>0 DEF MineInv
<1>2. Callers \subseteq Threads
  BY Constants
<1>. HIDE DEF Elems, Distinct, InHands
\* A block that nobody can see yet is filled.
<1>3. ASSUME NEW d \in Data, Fill(t, d), pc[t] \in {"make", "reuse"}, logs' = logs,
             d \notin Elems(logs), \A u \in Threads: mine[u] # d
      PROVE  CallerInv' /\ Waiting' \subseteq Waiting /\ Coming' \subseteq Coming
             /\ Keeping' \subseteq Keeping
  <2>1. /\ heap'[d] = op[t] /\ mine'[t] = d
        /\ pc'[t] = IF op[t].type = "general" THEN "test" ELSE "push"
        /\ \A b \in Data \ {d}: heap'[b] = heap[b]
        /\ \A u \in Threads \ {t}: pc'[u] = pc[u] /\ mine'[u] = mine[u] /\ op'[u] = op[u]
    BY <1>0, <1>3 DEF Fill, Goto
  <2>2. Waiting' \subseteq Waiting
    BY <1>0, <1>3, <2>1 DEF Waiting, Queued, Elems
  <2>3. ASSUME NEW u \in Threads \ {t}, pc[u] \in {"test", "push"}
        PROVE  heap'[mine'[u]] = heap[mine[u]]
    BY <1>1, <1>3, <2>1, <2>3 DEF Holding
  <2>4. CallerInv'
    BY <1>3, <2>1, <2>3 DEF CallerInv
  <2>5. Coming' \subseteq Coming
    BY <1>2, <1>3, <2>1, <2>3 DEF Coming
  <2>6. Keeping' \subseteq Keeping
    BY <1>2, <2>1 DEF Keeping
  <2>. QED  BY <2>2, <2>4, <2>5, <2>6
\* A block is given up that nobody else has.
<1>4. ASSUME GiveUp(t), pc[t] \in {"free", "keep"}, logs' = logs, op' = op
      PROVE  CallerInv' /\ Waiting' \subseteq Waiting /\ Coming' \subseteq Coming
             /\ Keeping' = Keeping \ {t}
  <2>. DEFINE d == mine[t]
  <2>1. d \in Data /\ d \notin Elems(logs) /\ \A u \in Threads \ {t}: mine[u] # d
    BY <1>0, <1>1, <1>4 DEF OwnedSets, Holding
  <2>2. /\ pc'[t] = "idle"
        /\ \A b \in Data \ {d}: heap'[b] = heap[b]
        /\ \A u \in Threads \ {t}: pc'[u] = pc[u] /\ mine'[u] = mine[u] /\ op'[u] = op[u]
    BY <1>0, <1>4 DEF GiveUp, Goto
  <2>. HIDE DEF d
  <2>3. Waiting' \subseteq Waiting
    BY <1>0, <1>4, <2>1, <2>2 DEF Waiting, Queued, Elems
  <2>4. ASSUME NEW u \in Threads \ {t}, pc[u] \in {"test", "push"}
        PROVE  heap'[mine'[u]] = heap[mine[u]]
    BY <1>1, <2>1, <2>2, <2>4 DEF Holding
  <2>5. CallerInv'
    BY <1>4, <2>2, <2>4 DEF CallerInv
  <2>6. Coming' \subseteq Coming
    BY <1>2, <1>4, <2>2, <2>4 DEF Coming
  <2>7. Keeping' = Keeping \ {t}
    BY <1>2, <2>2 DEF Keeping
  <2>. QED  BY <2>3, <2>5, <2>6, <2>7
\* Only the place of t changes.
<1>5. ASSUME UNCHANGED <<logs, heap, op, mine>>, NEW p, Goto(t, p)
      PROVE  /\ Waiting' = Waiting
             /\ pc'[t] = p
             /\ \A u \in Threads \ {t}: pc'[u] = pc[u]
  BY <1>0, <1>5 DEF Goto, Waiting, Queued
<1>6. CASE /\ pc[t] = "make"
           /\ Goto(t, "reuse") /\ UNCHANGED <<memVars, op, mine>>
  <2>1. /\ Waiting' = Waiting /\ pc'[t] = "reuse"
        /\ \A u \in Threads \ {t}: pc'[u] = pc[u]
        /\ UNCHANGED <<logs, pool, heap, op, mine>>
    BY <1>5, <1>6 DEF memVars
  <2>2. CallerInv' /\ Coming' \subseteq Coming /\ Keeping' \subseteq Keeping
    BY <1>2, <1>6, <2>1 DEF CallerInv, Coming, Keeping
  <2>. QED  BY <1>0, <2>1, <2>2, Fewer, LenProperties
<1>7. CASE /\ pc[t] \in {"make", "reuse"}
           /\ \E d \in Data \ alloc:
                alloc' = alloc \cup {d} /\ Fill(t, d) /\ UNCHANGED <<logs, pool>>
  <2>1. PICK d \in Data \ alloc: alloc' = alloc \cup {d} /\ Fill(t, d) /\ UNCHANGED <<logs, pool>>
    BY <1>7
  <2>2. d \notin Elems(logs) /\ \A u \in Threads: mine[u] # d
    BY <1>0, <2>1 DEF OwnedSets, InHands
  <2>. QED  BY <1>0, <1>3, <1>7, <2>1, <2>2, Fewer, LenProperties
<1>8. CASE /\ pc[t] = "reuse" /\ pool # <<>>
           /\ Fill(t, pool[Len(pool)])
           /\ pool' = SubSeq(pool, 1, Len(pool) - 1)
           /\ UNCHANGED <<logs, alloc>>
  <2>1. pool[Len(pool)] \in Data
    BY <1>0, <1>8, EmptySeq
  <2>2. pool[Len(pool)] \in Elems(pool) /\ Len(pool') = Len(pool) - 1
    BY <1>0, <1>8, FrontElems DEF OwnedSets
  <2>3. pool[Len(pool)] \notin Elems(logs) /\ \A u \in Threads: mine[u] # pool[Len(pool)]
    BY <1>0, <2>1, <2>2 DEF OwnedSets
  <2>4. Len(pool') <= Len(pool)
    BY <1>0, <2>2, LenProperties
  <2>. QED  BY <1>0, <1>3, <1>8, <2>1, <2>3, <2>4, Fewer
<1>9. CASE /\ pc[t] = "test"
           /\ Goto(t, "push") \/ Goto(t, "free")
           /\ UNCHANGED <<memVars, op, mine>>
  <2>1. /\ Waiting' = Waiting /\ pc'[t] \in {"push", "free"}
        /\ \A u \in Threads \ {t}: pc'[u] = pc[u]
        /\ UNCHANGED <<logs, pool, heap, op, mine>>
    BY <1>5, <1>9 DEF memVars
  <2>2. CallerInv' /\ Coming' \subseteq Coming /\ Keeping' \subseteq Keeping
    BY <1>2, <1>9, <2>1 DEF CallerInv, Coming, Keeping
  <2>. QED  BY <1>0, <2>1, <2>2, Fewer, LenProperties
<1>10. CASE /\ pc[t] = "push"
            /\ logs' = Append(logs, mine[t])
            /\ mine' = [mine EXCEPT ![t] = NONE]
            /\ Goto(t, "idle")
            /\ UNCHANGED <<pool, alloc, heap, op>>
  <2>. DEFINE d == mine[t]
  <2>1. d \in Data /\ d \notin Elems(logs)
    BY <1>0, <1>1, <1>10 DEF OwnedSets, Holding
  <2>2. /\ pc'[t] = "idle"
        /\ \A u \in Threads \ {t}: pc'[u] = pc[u] /\ mine'[u] = mine[u]
    BY <1>0, <1>10 DEF Goto
  <2>3. Elems(logs') = Elems(logs) \cup {d}
    BY <1>0, <1>10, <2>1, AppendElems
  <2>. HIDE DEF d
  <2>4. CallerInv'
    BY <1>10, <2>2 DEF CallerInv
  <2>5. Keeping' \subseteq Keeping
    BY <1>2, <1>10, <2>2 DEF Keeping
  <2>6. Waiting = {b \in Elems(logs): heap[b].type = "general"}
        /\ Waiting' = {b \in Elems(logs'): heap[b].type = "general"}
    BY <1>10 DEF Waiting, Queued, Elems
  <2>7. CASE heap[d].type # "general"
    <3>1. Waiting' \subseteq Waiting /\ Coming' \subseteq Coming
      BY <1>2, <1>10, <2>2, <2>3, <2>6, <2>7 DEF Coming
    <3>. QED  BY <1>0, <1>10, <2>4, <2>5, <3>1, Fewer, LenProperties
  <2>8. CASE heap[d].type = "general"
    <3>1. t \in Coming
      BY <1>10, <2>8 DEF CallerInv, Coming, d
    <3>2. Waiting' = Waiting \cup {d} /\ d \notin Waiting
      BY <2>1, <2>3, <2>6, <2>8
    <3>3. Coming' = Coming \ {t}
      BY <1>2, <1>10, <2>2 DEF Coming
    <3>4. Waiting \subseteq Data /\ Coming \subseteq Callers /\ Keeping \subseteq Callers
      BY <1>0, WaitingBound DEF Coming, Keeping
    <3>5. Cardinality(Waiting') = Cardinality(Waiting) + 1
      BY <3>2, <3>4, Finite, FS_AddElement
    <3>6. Cardinality(Coming') = Cardinality(Coming) - 1
      BY <3>1, <3>3, <3>4, Finite, FS_RemoveElement
    <3>7. Cardinality(Keeping') <= Cardinality(Keeping)
      BY <2>5, <3>4, Finite, FS_Subset
    <3>8. /\ Cardinality(Waiting) \in Nat /\ Cardinality(Coming) \in Nat
          /\ Cardinality(Keeping) \in Nat /\ Cardinality(Keeping') \in Nat
          /\ Len(pool) \in Nat /\ pool' = pool
      BY <1>0, <1>10, <2>5, <3>4, Finite, LenProperties
    <3>9. Cardinality(Waiting') + Cardinality(Coming') <= Limit + Cardinality(Callers)
      BY <3>5, <3>6, <3>8, Finite, Constants DEF BoundInv
    <3>10. Len(pool') + Cardinality(Keeping') < PoolLimit + Cardinality(Callers)
      BY <3>7, <3>8, Finite, Constants DEF BoundInv
    <3>11. Limit' = Limit /\ PoolLimit' = PoolLimit /\ Callers' = Callers
      BY DEF Callers
    <3>. QED  BY <2>4, <3>9, <3>10, <3>11 DEF BoundInv
  <2>. QED  BY <2>7, <2>8
<1>11. CASE /\ pc[t] = "free" /\ Len(pool) < PoolLimit
            /\ Goto(t, "keep") /\ UNCHANGED <<memVars, op, mine>>
  <2>1. /\ Waiting' = Waiting /\ pc'[t] = "keep"
        /\ \A u \in Threads \ {t}: pc'[u] = pc[u]
        /\ UNCHANGED <<logs, pool, heap, op, mine>>
    BY <1>5, <1>11 DEF memVars
  <2>2. CallerInv' /\ Coming' \subseteq Coming
    BY <1>2, <1>11, <2>1 DEF CallerInv, Coming
  <2>. QED  BY <1>0, <1>11, <2>1, <2>2, Fewer
<1>12. CASE /\ pc[t] = "free"
            /\ alloc' = alloc \ {mine[t]}
            /\ GiveUp(t)
            /\ UNCHANGED <<logs, pool, op>>
  BY <1>0, <1>4, <1>12, Fewer, LenProperties
<1>13. CASE /\ pc[t] = "keep"
            /\ pool' = Append(pool, mine[t])
            /\ GiveUp(t)
            /\ UNCHANGED <<logs, alloc, op>>
  <2>1. CallerInv' /\ Waiting' \subseteq Waiting /\ Coming' \subseteq Coming
        /\ Keeping' = Keeping \ {t}
    BY <1>4, <1>13
  <2>2. t \in Keeping
    BY <1>13 DEF CallerInv, Keeping
  <2>3. Waiting \subseteq Data /\ Coming \subseteq Callers /\ Keeping \subseteq Callers
    BY <1>0, WaitingBound DEF Coming, Keeping
  <2>4. Cardinality(Keeping') = Cardinality(Keeping) - 1
    BY <2>1, <2>2, <2>3, Finite, FS_RemoveElement
  <2>5. Len(pool') = Len(pool) + 1
    BY <1>0, <1>1, <1>13, AppendProperties DEF Holding
  <2>6. Cardinality(Waiting') <= Cardinality(Waiting) /\ Cardinality(Coming') <= Cardinality(Coming)
    BY <2>1, <2>3, Finite, FS_Subset
  <2>7. /\ Cardinality(Waiting) \in Nat /\ Cardinality(Coming) \in Nat
        /\ Cardinality(Waiting') \in Nat /\ Cardinality(Coming') \in Nat
        /\ Cardinality(Keeping) \in Nat /\ Len(pool) \in Nat
    BY <1>0, <2>1, <2>3, Finite, LenProperties
  <2>8. Cardinality(Waiting') + Cardinality(Coming') <= Limit + Cardinality(Callers)
    BY <2>6, <2>7, Finite, Constants DEF BoundInv
  <2>9. Len(pool') + Cardinality(Keeping') < PoolLimit + Cardinality(Callers)
    BY <2>4, <2>5, <2>7, Finite, Constants DEF BoundInv
  <2>10. Limit' = Limit /\ PoolLimit' = PoolLimit /\ Callers' = Callers
    BY DEF Callers
  <2>. QED  BY <2>1, <2>8, <2>9, <2>10 DEF BoundInv
<1>. QED  BY <1>0, <1>6, <1>7, <1>8, <1>9, <1>10, <1>11, <1>12, <1>13, Inside

LEMMA BoundNext ==
  ASSUME CoreInv, OwnedSets, CallerInv, BoundInv, [Next]_vars
  PROVE  CallerInv' /\ BoundInv'
<1>0. /\ TypeInv /\ MineInv /\ WRITER \in Callers /\ Callers \subseteq Threads
      /\ logs \in Seq(Data) /\ pool \in Seq(Data)
      /\ heap \in [Data -> Content] /\ op \in [Threads -> Content]
      /\ mine \in [Threads -> Data \cup {NONE}]
      /\ pc \in [Threads -> {"idle", "make", "reuse", "test", "push", "free", "keep"}]
      /\ Len(pool) <= Len(pool)
  BY Constants, LenProperties DEF CoreInv, BlockInv, TypeInv, TypeOK, Callers
<1>1. CASE UNCHANGED <<pc, op, mine, memVars>>
  <2>1. CallerInv' /\ Waiting' = Waiting /\ Coming' = Coming /\ Keeping' = Keeping /\ pool' = pool
    BY <1>1 DEF memVars, CallerInv, Waiting, Queued, Coming, Keeping
  <2>. QED  BY <1>0, <2>1, Fewer
<1>2. ASSUME NEW t \in Threads, ACall(t)
      PROVE  CallerInv' /\ BoundInv'
  <2>1. CallStep(t) /\ UNCHANGED <<memVars, mine>> /\ pc[t] = "idle"
    BY <1>2 DEF ACall, CallStep
  <2>2. CASE UNCHANGED <<pc, op>>
    BY <1>1, <2>1, <2>2
  <2>3. CASE \E c \in Content:
               /\ c.type = "general" => t \in Callers /\ Len(logs) <= Limit
               /\ op' = [op EXCEPT ![t] = c]
               /\ pc' = [pc EXCEPT ![t] = "make"]
    <3>1. PICK c \in Content:
               /\ c.type = "general" => t \in Callers /\ Len(logs) <= Limit
               /\ op' = [op EXCEPT ![t] = c]
               /\ pc' = [pc EXCEPT ![t] = "make"]
      BY <2>3
    <3>2. /\ pc'[t] = "make" /\ op'[t] = c
          /\ \A u \in Threads \ {t}: pc'[u] = pc[u] /\ op'[u] = op[u]
          /\ UNCHANGED <<logs, pool, heap, mine>>
      BY <1>0, <2>1, <3>1 DEF memVars
    <3>3. CallerInv'
      BY <2>1, <3>1, <3>2 DEF CallerInv
    <3>4. Waiting' = Waiting /\ Keeping' \subseteq Keeping
      BY <1>0, <2>1, <3>2 DEF Waiting, Queued, Keeping
    <3>5. CASE c.type # "general"
      <4>1. Coming' \subseteq Coming
        BY <1>0, <2>1, <3>2, <3>5 DEF Coming
      <4>. QED  BY <1>0, <3>2, <3>3, <3>4, <4>1, Fewer
    <3>6. CASE c.type = "general"
      <4>1. Cardinality(Waiting') <= Limit
        <5>1. Cardinality(Waiting) <= Len(logs) /\ Waiting \subseteq Data
          BY <1>0, WaitingBound
        <5>. QED  BY <1>0, <3>1, <3>4, <3>6, <5>1, Finite, Constants, LenProperties
      <4>2. Coming' \subseteq Callers /\ Keeping \subseteq Callers /\ Waiting' \subseteq Data
        BY <1>0, <3>4, WaitingBound DEF Coming, Keeping
      <4>3. /\ Cardinality(Coming') <= Cardinality(Callers) /\ Cardinality(Coming') \in Nat
            /\ Cardinality(Keeping') <= Cardinality(Keeping)
            /\ Cardinality(Keeping) \in Nat /\ Cardinality(Keeping') \in Nat
            /\ Cardinality(Waiting') \in Nat
        <5>1. Keeping' \subseteq Callers
          BY <3>4, <4>2
        <5>. QED  BY <3>4, <4>2, <5>1, Finite, FS_Subset
      <4>4. Cardinality(Waiting') + Cardinality(Coming') <= Limit + Cardinality(Callers)
        BY <4>1, <4>3, Finite, Constants
      <4>5. Len(pool') + Cardinality(Keeping') < PoolLimit + Cardinality(Callers)
        <5>1. pool' = pool /\ Len(pool) \in Nat
          BY <1>0, <3>2, LenProperties
        <5>. QED  BY <4>3, <5>1, Finite, Constants DEF BoundInv
      <4>6. Limit' = Limit /\ PoolLimit' = PoolLimit /\ Callers' = Callers
        BY DEF Callers
      <4>. QED  BY <3>3, <4>4, <4>5, <4>6 DEF BoundInv
    <3>. QED  BY <3>5, <3>6
  <2>. QED  BY <2>1, <2>2, <2>3 DEF CallStep
<1>3. CASE PopLog
  <2>1. /\ pc[WRITER] = "idle" /\ UNCHANGED <<pc, op, heap, pool>>
        /\ logs' = logs \/ (logs # <<>> /\ logs' = Tail(logs))
        /\ mine' = mine \/ \E d: mine' = [mine EXCEPT ![WRITER] = d]
    BY <1>3 DEF PopLog, At
  <2>2. Elems(logs') \subseteq Elems(logs)
    BY <1>0, <2>1, TailElems DEF OwnedSets
  <2>3. Waiting' \subseteq Waiting
    BY <2>1, <2>2 DEF Waiting, Queued, Elems
  <2>4. \A u \in Threads: pc[u] # "idle" => mine'[u] = mine[u]
    BY <1>0, <2>1
  <2>5. CallerInv' /\ Coming' \subseteq Coming /\ Keeping' \subseteq Keeping
    BY <1>0, <2>1, <2>4 DEF CallerInv, Coming, Keeping
  <2>. QED  BY <1>0, <2>1, <2>3, <2>5, Fewer
<1>4. CASE Handle
  <2>1. /\ UNCHANGED <<memVars, op, mine>> /\ pc' = [pc EXCEPT ![WRITER] = "free"]
    BY <1>4 DEF Handle, Goto
  <2>2. pc'[WRITER] = "free" /\ \A u \in Threads \ {WRITER}: pc'[u] = pc[u]
    BY <1>0, <2>1
  <2>3. Waiting' = Waiting /\ Coming' \subseteq Coming /\ Keeping' \subseteq Keeping
        /\ CallerInv' /\ pool' = pool
    BY <1>0, <2>1, <2>2 DEF memVars, Waiting, Queued, Coming, Keeping, CallerInv
  <2>. QED  BY <1>0, <2>3, Fewer
<1>5. NoGreeting \/ Run \/ Post \/ Quit \/ Exit \/ UNCHANGED vars
      => UNCHANGED <<pc, op, mine, memVars>>
  BY DEF NoGreeting, Run, Post, Quit, Exit, threadVars, vars
<1>6. Start \/ Wait \/ Stop \/ Join => UNCHANGED <<pc, op, mine, memVars>>
  BY DEF Start, Wait, Stop, Join, mainOnly, threadVars
<1>. QED  BY <1>0, <1>1, <1>2, <1>3, <1>4, <1>5, <1>6, Steps, BoundInside

LEMMA BoundInvariant == Spec => [](CallerInv /\ BoundInv)
<1>1. Init => CallerInv /\ BoundInv
  <2>. SUFFICES ASSUME Init PROVE CallerInv /\ BoundInv
    OBVIOUS
  <2>1. CallerInv
    BY DEF Init, CallerInv
  <2>2. Waiting = {} /\ Coming = {} /\ Keeping = {} /\ Len(pool) = 0
    BY Constants DEF Init, Waiting, Queued, Coming, Keeping, Callers
  <2>. QED  BY <2>1, <2>2, FS_EmptySet, Finite, Constants DEF BoundInv
<1>2. CoreInv /\ OwnedSets /\ CallerInv /\ BoundInv /\ [Next]_vars => (CallerInv /\ BoundInv)'
  BY BoundNext
<1>. QED  BY <1>1, <1>2, CoreInvariant, OwnedInvariant, PTL DEF Spec

\* However many threads log, queue and pool exceed their limits by the number of
\* threads at most.
THEOREM BoundedMemory == Spec => []MemoryIsBounded
<1>1. CoreInv /\ BoundInv => MemoryIsBounded
  <2>. SUFFICES ASSUME CoreInv, BoundInv PROVE MemoryIsBounded
    OBVIOUS
  <2>1. logs \in Seq(Data) /\ pool \in Seq(Data)
    BY DEF CoreInv, BlockInv, TypeInv, TypeOK
  <2>2. Waiting \subseteq Data /\ Coming \subseteq Callers /\ Keeping \subseteq Callers
    BY <2>1, WaitingBound DEF Coming, Keeping
  <2>3. /\ Cardinality(Waiting) \in Nat /\ Cardinality(Coming) \in Nat
        /\ Cardinality(Keeping) \in Nat /\ Len(pool) \in Nat
    BY <2>1, <2>2, Finite, LenProperties
  <2>. QED  BY <2>3, Finite, Constants DEF BoundInv, MemoryIsBounded, QueueIsBounded, PoolIsBounded
<1>. QED  BY <1>1, CoreInvariant, BoundInvariant, PTL

-----------------------------------------------------------------------------
(* What a step inside a function does to the queue *)

LEMMA QueueStep ==
  ASSUME CoreInv, OwnedSets, NEW t \in Threads, AStep(t)
  PROVE  /\ UNCHANGED <<runing, calls, sem, ctl, owed, w, written>>
         /\ \A d \in Elems(logs): heap'[d] = heap[d]
         /\ \A u \in Threads \ {t}:
              /\ pc'[u] = pc[u] /\ op'[u] = op[u] /\ mine'[u] = mine[u]
              /\ mine[u] # NONE => heap'[mine[u]] = heap[mine[u]]
         /\ \/ /\ pc[t] = "make" /\ pc'[t] = "reuse"
               /\ op'[t] = op[t] /\ logs' = logs
            \/ /\ pc[t] \in {"make", "reuse"} /\ pc'[t] \in {"test", "push"}
               /\ heap'[mine'[t]] = op[t] /\ logs' = logs
            \/ /\ pc[t] = "test" /\ pc'[t] \in {"push", "free"}
               /\ UNCHANGED <<mine, heap, logs>>
            \/ /\ pc[t] = "push" /\ pc'[t] = "idle" /\ mine[t] \in Data
               /\ logs' = Append(logs, mine[t]) /\ heap' = heap
            \/ /\ pc[t] \in {"free", "keep"} /\ pc'[t] \in {"keep", "idle"}
               /\ logs' = logs
<1>0. /\ TypeInv /\ MineInv /\ UNCHANGED <<runing, calls, sem, ctl, owed, w, written>>
      /\ logs \in Seq(Data) /\ pool \in Seq(Data) /\ alloc \subseteq Data
      /\ heap \in [Data -> Content] /\ op \in [Threads -> Content]
      /\ mine \in [Threads -> Data \cup {NONE}] /\ NONE \notin Data
      /\ pc \in [Threads -> {"idle", "make", "reuse", "test", "push", "free", "keep"}]
  BY DataAssumption, Inside DEF CoreInv, BlockInv, TypeInv, TypeOK
<1>1. ASSUME pc[t] \in Holding
      PROVE  /\ mine[t] \in Data /\ mine[t] \notin Elems(logs)
             /\ \A u \in Threads \ {t}: mine[u] # mine[t]
  BY <1>0, <1>1 DEF MineInv, OwnedSets

<1>2. ASSUME NEW d \in Data, Fill(t, d), d \notin Elems(logs), \A u \in Threads: mine[u] # d
      PROVE  /\ \A b \in Elems(logs): heap'[b] = heap[b]
             /\ \A u \in Threads \ {t}:
                  /\ pc'[u] = pc[u] /\ op'[u] = op[u] /\ mine'[u] = mine[u]
                  /\ mine[u] # NONE => heap'[mine[u]] = heap[mine[u]]
             /\ pc'[t] \in {"test", "push"} /\ heap'[mine'[t]] = op[t]
  BY <1>0, <1>2 DEF Fill, Goto, Elems
<1>3. ASSUME GiveUp(t), pc[t] \in {"free", "keep"}, op' = op
      PROVE  /\ \A b \in Elems(logs): heap'[b] = heap[b]
             /\ \A u \in Threads \ {t}:
                  /\ pc'[u] = pc[u] /\ op'[u] = op[u] /\ mine'[u] = mine[u]
                  /\ mine[u] # NONE => heap'[mine[u]] = heap[mine[u]]
             /\ pc'[t] = "idle"
  BY <1>0, <1>1, <1>3 DEF GiveUp, Goto, Elems, Holding
<1>4. ASSUME NEW p, Goto(t, p), UNCHANGED <<heap, op, mine>>
      PROVE  /\ \A u \in Threads \ {t}: pc'[u] = pc[u]
             /\ pc'[t] = p
  BY <1>0, <1>4 DEF Goto
<1>5. CASE /\ pc[t] = "make"
           /\ Goto(t, "reuse") /\ UNCHANGED <<memVars, op, mine>>
  BY <1>0, <1>4, <1>5 DEF memVars
<1>6. CASE /\ pc[t] \in {"make", "reuse"}
           /\ \E d \in Data \ alloc:
                alloc' = alloc \cup {d} /\ Fill(t, d) /\ UNCHANGED <<logs, pool>>
  <2>1. PICK d \in Data \ alloc: alloc' = alloc \cup {d} /\ Fill(t, d) /\ UNCHANGED <<logs, pool>>
    BY <1>6
  <2>2. d \notin Elems(logs) /\ \A u \in Threads: mine[u] # d
    BY <1>0, <2>1 DEF OwnedSets, InHands
  <2>. QED  BY <1>0, <1>2, <1>6, <2>1, <2>2
<1>7. CASE /\ pc[t] = "reuse" /\ pool # <<>>
           /\ Fill(t, pool[Len(pool)])
           /\ pool' = SubSeq(pool, 1, Len(pool) - 1)
           /\ UNCHANGED <<logs, alloc>>
  <2>1. pool[Len(pool)] \in Data
    BY <1>0, <1>7, EmptySeq
  <2>2. pool[Len(pool)] \in Elems(pool)
    BY <1>0, <1>7, FrontElems DEF OwnedSets
  <2>3. pool[Len(pool)] \notin Elems(logs) /\ \A u \in Threads: mine[u] # pool[Len(pool)]
    BY <1>0, <2>1, <2>2 DEF OwnedSets
  <2>. QED  BY <1>0, <1>2, <1>7, <2>1, <2>3
<1>8. CASE /\ pc[t] = "test"
           /\ Goto(t, "push") \/ Goto(t, "free")
           /\ UNCHANGED <<memVars, op, mine>>
  BY <1>0, <1>4, <1>8 DEF memVars
<1>9. CASE /\ pc[t] = "push"
           /\ logs' = Append(logs, mine[t])
           /\ mine' = [mine EXCEPT ![t] = NONE]
           /\ Goto(t, "idle")
           /\ UNCHANGED <<pool, alloc, heap, op>>
  BY <1>0, <1>1, <1>9 DEF Goto, Holding
<1>10. CASE /\ pc[t] = "free"
            /\ Goto(t, "keep") /\ UNCHANGED <<memVars, op, mine>>
  BY <1>0, <1>4, <1>10 DEF memVars
<1>11. CASE /\ pc[t] \in {"free", "keep"} /\ GiveUp(t) /\ UNCHANGED <<logs, op>>
  BY <1>0, <1>3, <1>11
<1>. QED  BY <1>0, <1>5, <1>6, <1>7, <1>8, <1>9, <1>10, <1>11, Inside

-----------------------------------------------------------------------------
(* What stop() owes *)

Fresh == {"make", "reuse", "test", "push"}

\* A message of an earlier call than the one its thread is in.
Old(m) ==
  /\ m[2] <= calls[m[1]]
  /\ pc[m[1]] \in Fresh => m[2] < calls[m[1]]

\* Who is on the way to the queue carries the number of its call; what is in the
\* queue, and what stop() owes, is older.  So nothing that is pushed after stop()
\* can be taken for a message that is owed, and the writer leaves only over an
\* empty queue.
Drained == ctl = "gone" \/ (ctl = "join" /\ w \in {"exit", "end"})

NumInv ==
  /\ \A t \in Threads:
       /\ pc[t] \in {"make", "reuse"} => op[t].from = t /\ op[t].n = calls[t]
       /\ pc[t] \in {"test", "push"} => Msg(mine[t]) = <<t, calls[t]>>
  /\ \A d \in Elems(logs): Old(Msg(d))
  /\ \A m \in owed: Old(m)
  /\ Drained => \A d \in Elems(logs): Msg(d) \notin owed

LEMMA MsgIsMessage ==
  ASSUME TypeOK, NEW d \in Data
  PROVE  Msg(d) \in Message /\ Msg(d)[1] \in Threads
         /\ Msg(d)[2] \in 0..MaxNumber
BY DEF Msg, Message, TypeOK, Content

\* A step that leaves queue and threads alone.
LEMMA NumQuiet ==
  ASSUME TypeOK, NumInv, Elems(logs') \subseteq Elems(logs), owed' = owed,
         \A d \in Elems(logs): heap'[d] = heap[d],
         \A t \in Threads:
           /\ pc'[t] \in Fresh => pc'[t] = pc[t] /\ op'[t] = op[t] /\ mine'[t] = mine[t]
                                  /\ heap'[mine[t]] = heap[mine[t]]
           /\ calls'[t] = calls[t],
         Drained' => Drained \/ Elems(logs') = {} \/ owed = {}
  PROVE  NumInv'
<1>1. ASSUME NEW d \in Elems(logs') PROVE d \in Data /\ d \in Elems(logs) /\ Msg(d)' = Msg(d)
  <2>1. d \in Elems(logs) /\ heap'[d] = heap[d]
    OBVIOUS
  <2>2. d \in Data
    BY <2>1 DEF Elems, TypeOK
  <2>. QED  BY <2>1, <2>2 DEF Msg
<1>2. ASSUME NEW m \in Message, Old(m) PROVE Old(m)'
  BY <1>2 DEF Old, Message
<1>3. \A d \in Elems(logs'): Old(Msg(d))'
  BY <1>1, <1>2, MsgIsMessage DEF NumInv
<1>4. \A m \in owed': Old(m)'
  BY <1>2 DEF NumInv, TypeOK
<1>5. \A t \in Threads:
       /\ pc'[t] \in {"make", "reuse"} => op'[t].from = t /\ op'[t].n = calls'[t]
       /\ pc'[t] \in {"test", "push"} => Msg(mine[t])' = <<t, calls'[t]>>
  BY DEF NumInv, Msg, Fresh
<1>6. Drained' => \A d \in Elems(logs'): Msg(d)' \notin owed'
  BY <1>1 DEF NumInv
<1>. QED  BY <1>3, <1>4, <1>5, <1>6 DEF NumInv, Msg, Fresh

LEMMA NumInside ==
  ASSUME CoreInv, OwnedSets, NumInv, NEW t \in Threads, AStep(t)
  PROVE  NumInv'
<1>0. /\ TypeOK /\ UNCHANGED <<runing, calls, sem, ctl, owed, w, written>>
      /\ logs \in Seq(Data) /\ calls \in [Threads -> 0..MaxNumber] /\ NONE \notin Data
      /\ \A d \in Elems(logs): heap'[d] = heap[d]
      /\ \A u \in Threads \ {t}:
           /\ pc'[u] = pc[u] /\ op'[u] = op[u] /\ mine'[u] = mine[u]
           /\ mine[u] # NONE => heap'[mine[u]] = heap[mine[u]]
      /\ Drained' <=> Drained
  BY DataAssumption, QueueStep DEF CoreInv, BlockInv, TypeInv, TypeOK, Drained
<1>1. ASSUME NEW u \in Threads \ {t}
      PROVE  /\ pc'[u] \in {"make", "reuse"} => op'[u].from = u /\ op'[u].n = calls'[u]
             /\ pc'[u] \in {"test", "push"} => Msg(mine[u])' = <<u, calls'[u]>>
  <2>1. pc[u] \in {"test", "push"} => mine[u] # NONE
    BY DEF CoreInv, BlockInv, MineInv, Holding
  <2>. QED  BY <1>0, <2>1 DEF NumInv, Msg
<1>2. ASSUME NEW m \in Message, Old(m), pc'[t] \in Fresh => pc[t] \in Fresh
      PROVE  Old(m)'
  BY <1>0, <1>2 DEF Old, Message
<1>3. ASSUME NEW d \in Elems(logs)
      PROVE  Msg(d)' = Msg(d) /\ Msg(d) \in Message
  <2>1. d \in Data
    BY <1>0 DEF Elems
  <2>. QED  BY <1>0, <2>1, MsgIsMessage DEF Msg
<1>4. CASE /\ logs' = logs
           /\ pc'[t] \in Fresh => pc[t] \in Fresh
           /\ pc'[t] \in {"make", "reuse"} => op'[t].from = t /\ op'[t].n = calls'[t]
           /\ pc'[t] \in {"test", "push"} => Msg(mine[t])' = <<t, calls'[t]>>
  <2>1. \A d \in Elems(logs'): Old(Msg(d))'
    BY <1>2, <1>3, <1>4 DEF NumInv
  <2>2. \A m \in owed': Old(m)'
    BY <1>0, <1>2, <1>4 DEF NumInv, TypeOK
  <2>3. Drained' => \A d \in Elems(logs'): Msg(d)' \notin owed'
    BY <1>0, <1>3, <1>4 DEF NumInv
  <2>. QED  BY <1>1, <1>4, <2>1, <2>2, <2>3 DEF NumInv
<1>5. CASE /\ pc[t] = "make" /\ pc'[t] = "reuse"
           /\ op'[t] = op[t] /\ logs' = logs
  <2>1. op'[t].from = t /\ op'[t].n = calls'[t]
    BY <1>0, <1>5 DEF NumInv
  <2>. QED  BY <1>4, <1>5, <2>1 DEF Fresh
<1>6. CASE /\ pc[t] \in {"make", "reuse"} /\ pc'[t] \in {"test", "push"}
           /\ heap'[mine'[t]] = op[t] /\ logs' = logs
  <2>1. Msg(mine[t])' = <<t, calls'[t]>>
    BY <1>0, <1>6 DEF NumInv, Msg
  <2>. QED  BY <1>4, <1>6, <2>1 DEF Fresh
<1>7. CASE /\ pc[t] = "test" /\ pc'[t] \in {"push", "free"}
           /\ UNCHANGED <<mine, heap, logs>>
  <2>1. Msg(mine[t])' = <<t, calls'[t]>>
    BY <1>0, <1>7 DEF NumInv, Msg
  <2>. QED  BY <1>4, <1>7, <2>1 DEF Fresh
<1>8. CASE /\ pc[t] = "push" /\ pc'[t] = "idle" /\ mine[t] \in Data
           /\ logs' = Append(logs, mine[t]) /\ heap' = heap
  <2>1. Elems(logs') = Elems(logs) \cup {mine[t]}
    BY <1>0, <1>8, AppendElems
  <2>2. Msg(mine[t]) = <<t, calls[t]>>
    BY <1>8 DEF NumInv
  <2>3. \A d \in Elems(logs'): heap'[d] = heap[d]
    BY <1>8
  <2>4. ASSUME NEW m \in owed PROVE m # Msg(mine[t])
    <3>1. SUFFICES ASSUME m = <<t, calls[t]>> PROVE FALSE
      BY <2>2
    <3>2. m[1] = t /\ m[2] = calls[t] /\ Old(m) /\ calls[t] \in Int
      BY <1>0, <3>1 DEF NumInv
    <3>. QED  BY <1>8, <3>2 DEF Old, Fresh
  <2>5. ASSUME NEW d \in Elems(logs') PROVE Old(Msg(d))'
    <3>1. Msg(d)' = Msg(d)
      BY <2>3 DEF Msg
    <3>2. CASE d \in Elems(logs)
      BY <1>2, <1>3, <1>8, <3>2 DEF NumInv, Fresh
    <3>3. CASE d = mine[t]
      <4>1. Msg(d)'[1] = t /\ Msg(d)'[2] = calls'[t] /\ calls'[t] \in Int
        BY <1>0, <2>2, <3>1, <3>3
      <4>2. pc'[Msg(d)'[1]] = "idle"
        BY <1>8, <4>1
      <4>. QED  BY <4>1, <4>2 DEF Old, Fresh
    <3>. QED  BY <2>1, <3>2, <3>3
  <2>6. \A m \in owed': Old(m)'
    BY <1>0, <1>2, <1>8 DEF NumInv, TypeOK, Fresh
  <2>7. ASSUME Drained', NEW d \in Elems(logs') PROVE Msg(d)' \notin owed'
    <3>1. Msg(d)' = Msg(d)
      BY <2>3 DEF Msg
    <3>. QED  BY <1>0, <2>1, <2>4, <2>7, <3>1 DEF NumInv
  <2>. QED  BY <1>1, <1>8, <2>5, <2>6, <2>7 DEF NumInv
<1>9. CASE /\ pc[t] \in {"free", "keep"} /\ pc'[t] \in {"keep", "idle"}
           /\ logs' = logs
  BY <1>4, <1>9 DEF Fresh
<1>. QED  BY <1>5, <1>6, <1>7, <1>8, <1>9, QueueStep

LEMMA NumCall ==
  ASSUME CoreInv, NumInv, NEW t \in Threads, ACall(t)
  PROVE  NumInv'
<1>1. /\ TypeOK /\ CallStep(t) /\ UNCHANGED <<logs, heap, mine, ctl, owed, w>> /\ pc[t] = "idle"
      /\ calls \in [Threads -> 0..MaxNumber]
      /\ pc \in [Threads -> {"idle", "make", "reuse", "test", "push", "free", "keep"}]
      /\ op \in [Threads -> Content]
  BY DEF CoreInv, BlockInv, TypeInv, TypeOK, ACall, CallStep, memVars
<1>2. /\ calls'[t] = calls[t] + 1
      /\ \A u \in Threads \ {t}: calls'[u] = calls[u] /\ pc'[u] = pc[u] /\ op'[u] = op[u]
      /\ \/ pc'[t] = "idle"
         \/ pc'[t] = "make" /\ op'[t].from = t /\ op'[t].n = calls'[t]
  BY <1>1 DEF CallStep
<1>3. ASSUME NEW m \in Message, Old(m) PROVE Old(m)'
  <2>1. m[1] \in Threads /\ m[2] \in Nat /\ calls[m[1]] \in Nat
    BY <1>1 DEF Message
  <2>. QED  BY <1>2, <1>3, <2>1 DEF Old
<1>4. \A d \in Elems(logs): Msg(d)' = Msg(d) /\ Msg(d) \in Message /\ Elems(logs') = Elems(logs)
  <2>1. \A d \in Elems(logs): d \in Data
    BY <1>1 DEF Elems, TypeOK
  <2>. QED  BY <1>1, <2>1, MsgIsMessage DEF Msg, Elems
<1>5. \A d \in Elems(logs'): Old(Msg(d))'
  BY <1>1, <1>3, <1>4 DEF NumInv
<1>6. \A m \in owed': Old(m)'
  BY <1>1, <1>3 DEF NumInv, TypeOK
<1>7. Drained' => \A d \in Elems(logs'): Msg(d)' \notin owed'
  BY <1>1, <1>4 DEF NumInv, Drained
<1>8. \A u \in Threads:
       /\ pc'[u] \in {"make", "reuse"} => op'[u].from = u /\ op'[u].n = calls'[u]
       /\ pc'[u] \in {"test", "push"} => Msg(mine[u])' = <<u, calls'[u]>>
  BY <1>1, <1>2 DEF NumInv, Msg
<1>. QED  BY <1>5, <1>6, <1>7, <1>8 DEF NumInv

LEMMA NumNext ==
  ASSUME CoreInv, OwnedSets, NumInv, [Next]_vars
  PROVE  NumInv'
<1>0. /\ TypeInv /\ TypeOK /\ ControlInv
      /\ mine \in [Threads -> Data \cup {NONE}]
      /\ pc \in [Threads -> {"idle", "make", "reuse", "test", "push", "free", "keep"}]
  BY DEF CoreInv, BlockInv, TypeInv, TypeOK
<1>1. CASE /\ UNCHANGED <<memVars, threadVars>> /\ owed' = owed
           /\ Drained' => Drained \/ logs = <<>> \/ owed = {}
  BY <1>0, <1>1, NumQuiet DEF memVars, threadVars, Elems
<1>2. CASE NoGreeting \/ Run \/ Post \/ UNCHANGED vars
  BY <1>1, <1>2 DEF NoGreeting, Run, Post, At, Alive, Drained, mainVars, vars, writerVars
<1>3. CASE Quit
  BY <1>1, <1>3 DEF Quit, At, Alive, Drained, mainVars
<1>4. CASE Exit
  BY <1>1, <1>4 DEF Exit, At, Alive, Drained, mainVars
<1>5. CASE Start \/ Wait \/ Join
  BY <1>0, <1>1, <1>5 DEF Start, Wait, Join, mainOnly, Drained, ControlInv
<1>6. CASE Stop
  <2>1. CASE ~runing
    BY <1>0, <1>1, <1>6, <2>1 DEF Stop, mainOnly, Drained, ControlInv
  <2>2. CASE runing
    <3>1. /\ UNCHANGED <<logs, heap, pc, op, mine, calls, w>> /\ ctl' = "join"
          /\ owed' = {Msg(logs[i]): i \in DOMAIN logs}
      BY <1>6, <2>2 DEF Stop, mainOnly, memVars, threadVars
    <3>2. ~ Drained'
      BY <1>0, <2>2, <3>1 DEF Drained, ControlInv
    <3>3. \A m \in owed': \E d \in Elems(logs): m = Msg(d)
      BY <3>1 DEF Elems
    <3>4. \A m: Old(m)' <=> Old(m)
      BY <3>1 DEF Old
    <3>5. Elems(logs') = Elems(logs) /\ \A d: Msg(d)' = Msg(d)
      BY <3>1 DEF Elems, Msg
    <3>6. \A d \in Elems(logs'): Old(Msg(d))'
      BY <3>4, <3>5 DEF NumInv
    <3>7. \A m \in owed': Old(m)'
      BY <3>3, <3>4 DEF NumInv
    <3>8. \A u \in Threads:
            /\ pc'[u] \in {"make", "reuse"} => op'[u].from = u /\ op'[u].n = calls'[u]
            /\ pc'[u] \in {"test", "push"} => Msg(mine[u])' = <<u, calls'[u]>>
      BY <3>1 DEF NumInv, Msg
    <3>. QED  BY <3>2, <3>6, <3>7, <3>8 DEF NumInv
  <2>. QED  BY <2>1, <2>2
<1>7. CASE PopLog
  <2>1. /\ pc[WRITER] = "idle" /\ UNCHANGED <<pc, op, heap, calls, ctl, owed>> /\ ctl # "gone"
        /\ logs' = logs \/ (logs # <<>> /\ logs' = Tail(logs))
        /\ mine' = mine \/ \E d: mine' = [mine EXCEPT ![WRITER] = d]
        /\ w' \in {"quit", "handle"}
    BY <1>7 DEF PopLog, At, Alive, mainVars
  <2>2. Elems(logs') \subseteq Elems(logs)
    BY <1>0, <2>1, TailElems DEF OwnedSets, TypeOK
  <2>3. \A u \in Threads: pc[u] # "idle" => mine'[u] = mine[u]
    BY <1>0, <2>1
  <2>4. ~ Drained'
    BY <2>1 DEF Drained
  <2>. QED  BY <1>0, <2>1, <2>2, <2>3, <2>4, NumQuiet DEF Fresh
<1>8. CASE Handle
  <2>1. /\ UNCHANGED <<logs, heap, op, mine, calls, ctl, owed>> /\ pc' = [pc EXCEPT ![WRITER] = "free"]
        /\ ctl # "gone" /\ w' = "pop"
    BY <1>8 DEF Handle, Goto, At, Alive, memVars, mainVars
  <2>2. pc'[WRITER] = "free" /\ \A u \in Threads \ {WRITER}: pc'[u] = pc[u]
    BY <1>0, <2>1, Constants
  <2>3. ~ Drained'
    BY <2>1 DEF Drained
  <2>4. Elems(logs') \subseteq Elems(logs)
    BY <2>1 DEF Elems
  <2>. QED  BY <1>0, <2>1, <2>2, <2>3, <2>4, NumQuiet DEF Fresh
<1>. QED  BY <1>0, <1>2, <1>3, <1>4, <1>5, <1>6, <1>7, <1>8, NumInside, NumCall, Steps

LEMMA NumInvariant == Spec => []NumInv
<1>1. Init => NumInv
  <2>. SUFFICES ASSUME Init PROVE NumInv
    OBVIOUS
  <2>1. Elems(logs) = {} /\ owed = {} /\ \A t \in Threads: pc[t] = "idle"
    BY DEF Init, Elems
  <2>. QED  BY <2>1 DEF NumInv
<1>2. CoreInv /\ OwnedSets /\ NumInv /\ [Next]_vars => NumInv'
  BY NumNext
<1>. QED  BY <1>1, <1>2, CoreInvariant, OwnedInvariant, PTL DEF Spec

\* When stop() has returned, what was in the queue at its call has been handled,
\* however many threads went on logging meanwhile.
THEOREM OwedIsHandled == Spec => []NothingOwedIsLost
<1>1. NumInv => NothingOwedIsLost
  BY DEF NumInv, NothingOwedIsLost, Drained, Queued, Elems
<1>. QED  BY <1>1, NumInvariant, PTL

-----------------------------------------------------------------------------
(* The queue is the pipe that LogPipe promises *)

Texts == [i \in DOMAIN logs |-> Msg(logs[i])]
Pending == InHand \o Texts

\* The three ways in which the pending messages change.
LEMMA Accepting ==
  ASSUME NEW S, NEW s \in Seq(S), NEW q \in Seq(S), NEW m \in S
  PROVE  s \o Append(q, m) = Append(s \o q, m)
<1>1. <<m>> \in Seq(S) /\ s \o q \in Seq(S)
  BY ConcatProperties
<1>. QED  BY <1>1, AppendIsConcat, ConcatAssociative

LEMMA Leaving ==
  ASSUME NEW S, NEW q \in Seq(S), NEW m \in S
  PROVE  /\ <<m>> \o q \in Seq(S) /\ <<m>> \o q # <<>>
         /\ Head(<<m>> \o q) = m /\ Tail(<<m>> \o q) = q
<1>. DEFINE r == <<m>> \o q
<1>1. <<m>> \in Seq(S) /\ Len(<<m>>) = 1 /\ <<m>>[1] = m
  OBVIOUS
<1>2. /\ r \in Seq(S) /\ Len(r) = 1 + Len(q) /\ Len(q) \in Nat
      /\ \A i \in 1..1 + Len(q): r[i] = IF i <= 1 THEN <<m>>[i] ELSE q[i - 1]
  BY <1>1, ConcatProperties, LenProperties
<1>. HIDE DEF r
<1>3. r # <<>> /\ Head(r) = m
  BY <1>1, <1>2, EmptySeq
<1>4. /\ Tail(r) \in Seq(S) /\ Len(Tail(r)) = Len(q)
      /\ \A i \in 1..Len(q): Tail(r)[i] = r[i + 1]
  BY <1>2, <1>3, HeadTailProperties
<1>5. Tail(r) = q
  BY <1>2, <1>4, SeqEqual
<1>. QED  BY <1>2, <1>3, <1>5 DEF r

LEMMA Popping ==
  ASSUME NEW S, NEW q \in Seq(S), q # <<>>
  PROVE  <<Head(q)>> \o Tail(q) = q
<1>1. Head(q) \in S /\ Tail(q) \in Seq(S) /\ Len(Tail(q)) = Len(q) - 1
      /\ \A i \in 1..Len(Tail(q)): Tail(q)[i] = q[i + 1]
  BY HeadTailProperties
<1>2. Len(q) \in Nat \ {0} /\ Head(q) = q[1]
  BY EmptySeq, LenProperties
<1>. DEFINE h == <<Head(q)>>
            r == h \o Tail(q)
<1>3. h \in Seq(S) /\ Len(h) = 1 /\ h[1] = Head(q)
  BY <1>1
<1>. HIDE DEF h
<1>4. /\ r \in Seq(S) /\ Len(r) = Len(q)
      /\ \A i \in 1..Len(q): r[i] = IF i <= 1 THEN h[i] ELSE Tail(q)[i - 1]
  <2>1. /\ r \in Seq(S) /\ Len(r) = Len(h) + Len(Tail(q))
        /\ \A i \in 1..Len(h) + Len(Tail(q)):
             r[i] = IF i <= Len(h) THEN h[i] ELSE Tail(q)[i - Len(h)]
    BY <1>1, <1>3, ConcatProperties
  <2>2. Len(h) + Len(Tail(q)) = Len(q)
    BY <1>1, <1>2, <1>3
  <2>. HIDE DEF r
  <2>. QED  BY <2>1, <2>2, <1>3
<1>. HIDE DEF r
<1>5. ASSUME NEW i \in 1..Len(q) PROVE r[i] = q[i]
  BY <1>1, <1>2, <1>3, <1>4
<1>6. r = q
  BY <1>4, <1>5, SeqEqual
<1>. QED  BY <1>6 DEF r, h

LEMMA TextsAreMessages ==
  ASSUME TypeOK
  PROVE  Texts \in Seq(Message) /\ DOMAIN Texts = DOMAIN logs
         /\ Len(Texts) = Len(logs)
<1>1. logs \in Seq(Data) /\ Len(logs) \in Nat /\ DOMAIN logs = 1..Len(logs)
  BY LenProperties DEF TypeOK
<1>2. \A i \in 1..Len(logs): Msg(logs[i]) \in Message
  BY <1>1, MsgIsMessage
<1>3. Texts \in [1..Len(logs) -> Message]
  BY <1>1, <1>2 DEF Texts
<1>4. Texts \in Seq(Message)
  BY <1>1, <1>3
<1>. QED  BY <1>1, <1>3, <1>4, LenProperties DEF Texts

\* The messages do not change while they are in the queue.
LEMMA SameTexts ==
  ASSUME TypeOK, logs' = logs, \A d \in Elems(logs): heap'[d] = heap[d]
  PROVE  Texts' = Texts
<1>1. \A i \in DOMAIN logs: Msg(logs[i])' = Msg(logs[i])
  BY DEF Elems, Msg
<1>. QED  BY <1>1 DEF Texts

\* A step of the queue is one of the pipe, or none.
LEMMA PipeNext ==
  ASSUME CoreInv, OwnedSets, [Next]_vars
  PROVE  [Pipe!Next]_(Pipe!vars)
<1>0. /\ TypeOK /\ TypeInv /\ MineInv /\ Texts \in Seq(Message)
      /\ logs \in Seq(Data) /\ mine \in [Threads -> Data \cup {NONE}] /\ NONE \notin Data
  BY DataAssumption, TextsAreMessages DEF CoreInv, BlockInv, TypeInv, TypeOK
<1>1. ASSUME Pending' = Pending, written' = written
      PROVE  [Pipe!Next]_(Pipe!vars)
  BY <1>1 DEF Pending, Texts, Pipe!vars
<1>2. ASSUME NEW m \in Message, Pending' = Append(Pending, m), written' = written
      PROVE  [Pipe!Next]_(Pipe!vars)
  BY <1>2 DEF Pending, Texts, Pipe!Next, Pipe!Accept
<1>3. ASSUME Pending # <<>>, Pending' = Tail(Pending),
             written' = written \/ written' = Append(written, Head(Pending))
      PROVE  [Pipe!Next]_(Pipe!vars)
  BY <1>3 DEF Pending, Texts, Pipe!Next, Pipe!Leave
<1>4. InHand \in Seq(Message)
  <2>1. CASE w = "handle"
    <3>1. mine[WRITER] \in Data
      BY <1>0, <2>1, Constants DEF MineInv
    <3>2. Msg(mine[WRITER]) \in Message
      BY <1>0, <3>1, MsgIsMessage
    <3>. QED  BY <2>1, <3>2 DEF InHand
  <2>2. CASE w # "handle"
    BY <2>2, EmptySeq DEF InHand
  <2>. QED  BY <2>1, <2>2
<1>5. CASE /\ UNCHANGED <<logs, heap, mine, written>>
           /\ w' = w \/ (w # "handle" /\ w' # "handle")
  <2>1. Texts' = Texts
    BY <1>0, <1>5, SameTexts
  <2>2. InHand' = InHand
    BY <1>5 DEF InHand, Msg
  <2>. QED  BY <1>1, <1>5, <2>1, <2>2 DEF Pending
<1>6. ASSUME NEW t \in Threads, AStep(t)
      PROVE  [Pipe!Next]_(Pipe!vars)
  <2>1. /\ w' = w /\ written' = written /\ \A d \in Elems(logs): heap'[d] = heap[d]
        /\ \A u \in Threads \ {t}: mine'[u] = mine[u]
                                    /\ (mine[u] # NONE => heap'[mine[u]] = heap[mine[u]])
        /\ pc[t] # "idle"
    BY <1>6, QueueStep
  <2>2. InHand' = InHand
    <3>1. CASE w = "handle"
      <4>1. WRITER \in Threads \ {t} /\ mine[WRITER] # NONE
        BY <1>0, <2>1, <3>1, Constants DEF MineInv
      <4>. QED  BY <2>1, <3>1, <4>1 DEF InHand, Msg
    <3>2. CASE w # "handle"
      BY <2>1, <3>2 DEF InHand
    <3>. QED  BY <3>1, <3>2
  <2>3. CASE logs' = logs
    BY <1>0, <1>1, <2>1, <2>2, <2>3, SameTexts DEF Pending
  <2>4. CASE /\ mine[t] \in Data /\ logs' = Append(logs, mine[t]) /\ heap' = heap
    <3>. DEFINE m == Msg(mine[t])
    <3>1. m \in Message
      BY <1>0, <2>4, MsgIsMessage
    <3>2. Texts' = Append(Texts, m)
      <4>1. /\ Len(logs') = Len(logs) + 1 /\ DOMAIN logs' = 1..Len(logs) + 1
            /\ logs'[Len(logs) + 1] = mine[t]
            /\ \A i \in 1..Len(logs): logs'[i] = logs[i]
            /\ Len(logs) \in Nat /\ DOMAIN logs = 1..Len(logs)
        BY <1>0, <2>4, AppendProperties, LenProperties
      <4>2. /\ Append(Texts, m) \in Seq(Message) /\ Len(Append(Texts, m)) = Len(logs) + 1
            /\ Append(Texts, m)[Len(logs) + 1] = m
            /\ \A i \in 1..Len(logs): Append(Texts, m)[i] = Texts[i]
            /\ DOMAIN Append(Texts, m) = 1..Len(logs) + 1
        BY <1>0, <3>1, TextsAreMessages, AppendProperties, LenProperties
      <4>3. DOMAIN Texts' = 1..Len(logs) + 1
            /\ \A i \in 1..Len(logs) + 1: Texts'[i] = Msg(logs'[i])
        BY <2>4, <4>1 DEF Texts, Msg
      <4>5. \A i \in 1..Len(logs): Texts[i] = Msg(logs[i])
        BY <4>1 DEF Texts
      <4>6. \A i \in 1..Len(logs) + 1: Texts'[i] = Append(Texts, m)[i]
        BY <4>1, <4>2, <4>3, <4>5
      <4>7. Texts' = [i \in 1..Len(logs) + 1 |-> Texts'[i]]
        BY <4>1 DEF Texts
      <4>8. Append(Texts, m) = [i \in 1..Len(logs) + 1 |-> Append(Texts, m)[i]]
        BY <4>2, LenProperties
      <4>. HIDE DEF m
      <4>. QED  BY <4>6, <4>7, <4>8
    <3>. HIDE DEF m
    <3>3. Pending' = Append(Pending, m)
      BY <1>0, <1>4, <2>2, <3>1, <3>2, Accepting DEF Pending
    <3>. QED  BY <1>2, <2>1, <3>1, <3>3
  <2>. QED  BY <1>6, <2>3, <2>4, QueueStep
<1>7. ASSUME NEW t \in Threads, ACall(t)
      PROVE  [Pipe!Next]_(Pipe!vars)
  <2>1. UNCHANGED <<logs, heap, mine, written, w>>
    BY <1>7 DEF ACall, CallStep, memVars
  <2>. QED  BY <1>5, <2>1
<1>8. CASE NoGreeting \/ Run \/ Post \/ Quit \/ Exit \/ UNCHANGED vars
  BY <1>5, <1>8 DEF NoGreeting, Run, Post, Quit, Exit, At, memVars, threadVars, vars, writerVars
<1>9. CASE Start \/ Wait \/ Stop \/ Join
  <2>1. UNCHANGED <<logs, heap, mine, written>>
    BY <1>9 DEF Start, Wait, Stop, Join, mainOnly, memVars, threadVars
  <2>2. w' = w \/ (w = "none" /\ w' = "run")
    BY <1>9 DEF Start, Wait, Stop, Join, CoreInv, ControlInv
  <2>. QED  BY <1>5, <2>1, <2>2
<1>10. CASE PopLog
  <2>1. CASE logs = <<>>
    BY <1>5, <1>10, <2>1 DEF PopLog, At
  <2>2. CASE logs # <<>>
    <3>1. /\ w = "pop" /\ w' = "handle" /\ UNCHANGED <<heap, written>>
          /\ mine' = [mine EXCEPT ![WRITER] = Head(logs)] /\ logs' = Tail(logs)
      BY <1>10, <2>2 DEF PopLog, At
    <3>2. /\ Len(logs) \in Nat \ {0} /\ DOMAIN logs = 1..Len(logs) /\ Head(logs) = logs[1]
          /\ DOMAIN logs' = 1..Len(logs) - 1
          /\ \A i \in 1..Len(logs) - 1: logs'[i] = logs[i + 1]
      <4>1. Tail(logs) \in Seq(Data) /\ Len(Tail(logs)) = Len(logs) - 1
            /\ \A i \in 1..Len(Tail(logs)): Tail(logs)[i] = logs[i + 1]
        BY <1>0, <2>2, HeadTailProperties
      <4>2. Len(logs) \in Nat \ {0} /\ DOMAIN logs = 1..Len(logs) /\ Head(logs) = logs[1]
        BY <1>0, <2>2, EmptySeq, LenProperties
      <4>. QED  BY <3>1, <4>1, <4>2, LenProperties
    <3>3. Texts # <<>> /\ Len(Texts) = Len(logs)
      BY <1>0, <3>2, TextsAreMessages, EmptySeq
    <3>4. \A d: Msg(d)' = Msg(d)
      BY <3>1 DEF Msg
    <3>5. Head(Texts) = Msg(Head(logs))
      BY <1>0, <3>2, <3>3 DEF Texts
    <3>6. InHand' = <<Head(Texts)>> /\ InHand = <<>>
      BY <1>0, <3>1, <3>4, <3>5, Constants DEF InHand
    <3>7. Texts' = Tail(Texts)
      <4>1. /\ Tail(Texts) \in Seq(Message) /\ Len(Tail(Texts)) = Len(logs) - 1
            /\ \A i \in 1..Len(logs) - 1: Tail(Texts)[i] = Texts[i + 1]
            /\ DOMAIN Tail(Texts) = 1..Len(logs) - 1
        BY <1>0, <3>3, HeadTailProperties, LenProperties
      <4>2. \A i \in 1..Len(logs) - 1: Texts[i + 1] = Msg(logs[i + 1])
        BY <3>2 DEF Texts
      <4>3. Texts' = [i \in 1..Len(logs) - 1 |-> Msg(logs'[i])]
        BY <3>1, <3>2 DEF Texts, Msg
      <4>4. Tail(Texts) = [i \in 1..Len(logs) - 1 |-> Tail(Texts)[i]]
        BY <4>1, LenProperties
      <4>5. \A i \in 1..Len(logs) - 1: Msg(logs'[i]) = Tail(Texts)[i]
        BY <3>2, <4>1, <4>2
      <4>. QED  BY <4>3, <4>4, <4>5
    <3>8. Pending' = Pending
      BY <1>0, <3>3, <3>6, <3>7, Popping, ConcatEmptySeq DEF Pending
    <3>. QED  BY <1>1, <3>1, <3>8
  <2>. QED  BY <2>1, <2>2
<1>11. CASE Handle
  <2>. DEFINE m == Msg(mine[WRITER])
  <2>1. /\ w = "handle" /\ w' = "pop" /\ UNCHANGED <<logs, heap>>
        /\ written' = written \/ written' = Append(written, m)
    BY <1>11 DEF Handle, At, memVars
  <2>2. m \in Message
    <3>1. mine[WRITER] \in Data
      BY <1>0, <2>1, Constants DEF MineInv
    <3>. QED  BY <1>0, <3>1, MsgIsMessage
  <2>3. InHand = <<m>> /\ InHand' = <<>>
    BY <2>1 DEF InHand
  <2>4. Texts' = Texts
    BY <1>0, <2>1, SameTexts
  <2>. HIDE DEF m
  <2>5. Pending = <<m>> \o Texts /\ Pending' = Texts
    BY <1>0, <2>3, <2>4, ConcatEmptySeq DEF Pending
  <2>. QED  BY <1>0, <1>3, <2>1, <2>2, <2>5, Leaving
<1>. QED  BY <1>0, <1>6, <1>7, <1>8, <1>9, <1>10, <1>11, Steps

\* The queue gives the messages on in the order in which they were pushed, each
\* once: every step of every thread is a step of the pipe.
THEOREM QueueIsPipe == Spec => PipeSpec
<1>1. Init => Pipe!Init
  <2>. SUFFICES ASSUME Init PROVE Pipe!Init
    OBVIOUS
  <2>1. InHand = <<>> /\ Texts = <<>> /\ written = <<>>
    BY DEF Init, InHand, Texts
  <2>2. InHand \o Texts = <<>>
    BY <2>1, EmptySeq, ConcatEmptySeq
  <2>. QED  BY <2>1, <2>2 DEF Pipe!Init, Texts
<1>2. CoreInv /\ OwnedSets /\ [Next]_vars => [Pipe!Next]_(Pipe!vars)
  BY PipeNext
<1>. QED  BY <1>1, <1>2, CoreInvariant, OwnedInvariant, PTL DEF Spec, PipeSpec, Pipe!Spec
=============================================================================
