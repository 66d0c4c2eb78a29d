----------------------------- MODULE Log4zFiles -----------------------------
(***************************************************************************)
(* One logger of src/sockman/log4z/log4z.cpp and its files: what           *)
(* LogerManager::run does with the entries of the queue once it has popped *)
(* them (openLogger, Log4zFileHandler, onHotChange, the flush at the end   *)
(* of the loop).  Loggers share nothing that matters here but the queue,   *)
(* so that one of them stands for all.                                     *)
(*                                                                         *)
(* An entry is a message or a hot change.  A message carries the time at   *)
(* which makeLogData filled it: another thread may have been quicker to    *)
(* push, so times may come back by up to Slack minutes.  A file is known   *)
(* by what its name is made of.  What is written goes to the buffer of the *)
(* FILE first.                                                             *)
(***************************************************************************)
EXTENDS LogText, FiniteSetsExt

CONSTANTS
  Day,            \* minutes of a day
  Slack,          \* by how many minutes messages may overtake each other
  Unit, Word,     \* 1024 * 1024, and 2^32 for an unsigned int
  Level,          \* the levels of messages
  Changes,        \* hot changes: [type: a field of the logger, value: its value]
  Name, Limit,    \* _name and _limitsize before any change
  Said,           \* what is logged: sequences of pieces
  PrefixLen,      \* the length of time and level
  NoFile,
  MaxTime,        \* bound: minutes that pass
  MaxEntries      \* bound: entries that are queued

ASSUME TimeAssumption == Day \in Nat \ {0} /\ Slack \in Nat /\ Slack < Day
ASSUME PrefixAssumption == PrefixLen \in 3..BufSize - 1
ASSUME SaidAssumption == Said \subseteq Seq(Piece)
ASSUME UnitAssumption ==
  /\ Unit \in Nat /\ BufSize <= Unit
  /\ Word \in Nat \ {0} /\ Word % Unit = 0 /\ Limit \in 1..Word - 1
ASSUME BoundsAssumption == MaxTime \in Nat /\ MaxEntries \in Nat

Flags == {"enable", "outfile", "monthdir", "fileLine"}
Names == {Name} \cup {c.value: c \in {d \in Changes: d.type = "name"}}
HotChange ==
  [type: Flags, value: BOOLEAN] \cup [type: {"level"}, value: Level]
  \cup [type: {"name"}, value: Names] \cup [type: {"limitsize"}, value: 0..Word - 1]

ASSUME LevelAssumption == \E low \in Level: \A level \in Level: low <= level
ASSUME ChangesAssumption == Changes \subseteq HotChange

\* What the name of a file is made of.
File == [name: Names, monthdir: BOOLEAN, minute: Nat, index: Nat]

ASSUME NoFileAssumption == NoFile \notin File

VARIABLES
  now,            \* the clock, in minutes
  attr,           \* _enable, _level, _outfile, _name, _monthdir, _limitsize, _fileLine
  todo,           \* the entries of this logger in the queue
  queued,         \* how many there have been
  w,              \* the writer: "pop", "flush" or "close"
  handle,         \* the file that is open
  created,        \* _curFileCreateTime
  index,          \* _curFileIndex
  writeLen,       \* _curWriteLen
  needFlush,      \* needFlush[id] > 0
  files,          \* the messages in each file, those in its buffer included
  buffered,       \* how many of the messages of the open file are in its buffer
  allowed,        \* history: bytes each file may have, for how often it was opened
  late            \* history: a message came after one of a later day

fileVars == <<handle, created, index, writeLen, files, buffered, allowed, late>>
vars == <<now, attr, todo, queued, w, needFlush, fileVars>>

DayOf(t) == t \div Day

\* setLoggerLimitsize: 0 stands for no limit.
LimitSize(n) == IF n = 0 THEN Word - 1 ELSE n

\* What is written of a message: its text, with file and line if they are on.
Suffix == <<[kind |-> "string", len |-> 1], [kind |-> "string", len |-> 1],
            [kind |-> "string", len |-> 1], [kind |-> "data", len |-> 1]>>
Line(said, fileLine) ==
  LET message == Stream(Prefix(PrefixLen), said)
  IN EndLine(IF fileLine THEN Stream(message, Suffix) ELSE message)

Init ==
  /\ now = 2 * Day
  /\ attr = [enable |-> TRUE, level |-> Min(Level), outfile |-> TRUE, name |-> Name,
             monthdir |-> FALSE, limitsize |-> Limit, fileLine |-> TRUE]
  /\ todo = <<>> /\ queued = 0 /\ w = "pop" /\ needFlush = FALSE
  /\ handle = NoFile /\ created = 0 /\ index = 0 /\ writeLen = 0
  /\ files = <<>> /\ buffered = 0 /\ allowed = <<>> /\ late = FALSE

-----------------------------------------------------------------------------
(* What comes in *)

Tick ==
  /\ now < MaxTime
  /\ now' = now + 1
  /\ UNCHANGED <<attr, todo, queued, w, needFlush, fileVars>>

Enqueue(entry) ==
  /\ queued < MaxEntries
  /\ queued' = queued + 1
  /\ todo' = Append(todo, entry)
  /\ UNCHANGED <<now, attr, w, needFlush, fileVars>>

\* makeLogData, pushLog: accepted when it is wanted then.
Log(time, level, said) ==
  /\ attr.enable /\ level >= attr.level
  /\ Enqueue([type |-> "general", time |-> time, level |-> level, said |-> said,
              fileLine |-> attr.fileLine, len |-> Line(said, attr.fileLine).cur])

\* The setters of the logger: hotChange ...
SetLogger ==
  \E c \in Changes:
    /\ c.type = "level" => c.value > attr.level
    /\ Enqueue(IF c.type = "limitsize" THEN [c EXCEPT !.value = LimitSize(@)] ELSE c)

\* ... except those that are immediate.
EnableLogger ==
  /\ ~attr.enable
  /\ attr' = [attr EXCEPT !.enable = TRUE]
  /\ UNCHANGED <<now, todo, queued, w, needFlush, fileVars>>

LowerLevel ==
  /\ \E value \in Level: value < attr.level /\ attr' = [attr EXCEPT !.level = value]
  /\ UNCHANGED <<now, todo, queued, w, needFlush, fileVars>>

Users ==
  \/ \E time \in now - Slack..now, level \in Level, said \in Said: Log(time, level, said)
  \/ SetLogger \/ EnableLogger \/ LowerLevel

-----------------------------------------------------------------------------
(* The files *)

\* Mutant: the index is left out.
FileNameOfTime(time, i) ==
  [name |-> attr.name, monthdir |-> attr.monthdir, minute |-> time]

\* sprintf of path and name; the process and its id are always the same.
FileName(time, i) ==
  [name |-> attr.name, monthdir |-> attr.monthdir, minute |-> time, index |-> i]

\* Mutant: only a later day asks for a new file.
NotLater(m) == DayOf(m.time) <= DayOf(created)

SameDay(m) == DayOf(m.time) = DayOf(created)

\* Mutant: the length is rounded to the unit of the limit.
FullInUnits == writeLen \div Unit > attr.limitsize

\* needChageFile
Full == writeLen > (attr.limitsize * Unit) % Word

\* _handle.close(): what is in the buffer is in the file then.
CloseHandle == handle' = NoFile /\ buffered' = 0

With(f, key, value) == [k \in DOMAIN f \cup {key} |-> IF k = key THEN value ELSE f[k]]
At(f, key, default) == IF key \in DOMAIN f THEN f[key] ELSE default

\* openLogger and write.
WriteMessage(m) ==
  LET keep    == handle # NoFile /\ SameDay(m) /\ ~Full
      i       == IF ~SameDay(m) THEN 0 ELSE IF Full THEN index + 1 ELSE index
      file    == IF keep THEN handle ELSE FileName(m.time, i)
      length  == IF keep THEN writeLen ELSE 0
      content == At(files, file, <<>>)
      granted == IF keep THEN allowed
                 ELSE With(allowed, file, At(allowed, file, 0) + attr.limitsize * Unit + BufSize)
  IN /\ index' = i
     /\ created' = IF keep THEN created ELSE m.time
     /\ late' = (late \/ DayOf(m.time) < DayOf(created))
     /\ \/ /\ handle' = file
           /\ files' = With(files, file, Append(content, [time |-> m.time, len |-> m.len]))
           /\ buffered' = IF keep THEN buffered + 1 ELSE 1
           /\ writeLen' = (length + m.len) % Word
           /\ needFlush' = TRUE
           /\ allowed' = granted
           /\ UNCHANGED attr
        \* fwrite fails: the file is closed, the message counts all the same
        \/ /\ files' = With(files, file, content)
           /\ writeLen' = (length + m.len) % Word
           /\ needFlush' = TRUE
           /\ allowed' = granted
           /\ CloseHandle
           /\ UNCHANGED attr
        \* fopen fails: no more messages go to files until _outfile is set again
        \/ /\ ~keep
           /\ attr' = [attr EXCEPT !.outfile = FALSE]
           /\ writeLen' = 0
           /\ CloseHandle
           /\ UNCHANGED <<needFlush, files, allowed>>

-----------------------------------------------------------------------------
(* The writer: LogerManager::run *)

Handle ==
  /\ w = "pop" /\ todo # <<>>
  /\ todo' = Tail(todo)
  /\ LET e == Head(todo)
     IN IF e.type # "general"
        THEN /\ attr' = [attr EXCEPT ![e.type] = e.value]
             /\ CloseHandle
             /\ UNCHANGED <<created, index, writeLen, files, allowed, late, needFlush>>
        ELSE IF attr.enable /\ e.level >= attr.level /\ attr.outfile
             THEN WriteMessage(e)
             ELSE UNCHANGED <<attr, needFlush, fileVars>>
  /\ UNCHANGED <<now, queued, w>>

\* Mutant: the loop over the loggers only closes.
DrainedUnflushed ==
  /\ w = "pop" /\ todo = <<>>
  /\ w' = "close"
  /\ UNCHANGED <<now, attr, todo, queued, needFlush, fileVars>>

Drained ==
  /\ w = "pop" /\ todo = <<>>
  /\ w' = "flush"
  /\ UNCHANGED <<now, attr, todo, queued, needFlush, fileVars>>

\* _enable is read here ...
Flush ==
  /\ w = "flush"
  /\ IF attr.enable /\ needFlush
     THEN buffered' = 0 /\ needFlush' = FALSE
     ELSE UNCHANGED <<buffered, needFlush>>
  /\ w' = "close"
  /\ UNCHANGED <<now, attr, todo, queued, handle, created, index, writeLen, files,
                 allowed, late>>

\* ... and here again; then the writer sleeps.
CloseDisabled ==
  /\ w = "close"
  /\ IF ~attr.enable THEN CloseHandle ELSE UNCHANGED <<handle, buffered>>
  /\ w' = "pop"
  /\ UNCHANGED <<now, attr, todo, queued, needFlush, created, index, writeLen, files,
                 allowed, late>>

Writer == Handle \/ Drained \/ Flush \/ CloseDisabled

Next == Tick \/ Users \/ Writer

Spec == Init /\ [][Next]_vars

\* The writer thread runs; nothing makes the others log.
FairSpec == Spec /\ WF_vars(Writer)

-----------------------------------------------------------------------------
\* The bytes of messages.
Bytes(messages) ==
  LET sum[n \in 0..Len(messages)] == IF n = 0 THEN 0 ELSE sum[n - 1] + messages[n].len
  IN sum[Len(messages)]

Size(file) == Bytes(files[file])

Attributes ==
  [enable: BOOLEAN, level: Level, outfile: BOOLEAN, name: Names, monthdir: BOOLEAN,
   limitsize: 1..Word - 1, fileLine: BOOLEAN]

Lengths == {Line(said, fileLine).cur: said \in Said, fileLine \in BOOLEAN}
Change == {c \in HotChange: c.type = "limitsize" => c.value # 0}
General ==
  [type: {"general"}, time: Nat, level: Level, said: Said, fileLine: BOOLEAN, len: Lengths]
Stored == [time: Nat, len: Lengths]

TypeOK ==
  /\ now \in Nat /\ queued \in Nat
  /\ attr \in Attributes
  /\ todo \in Seq(General \cup Change)
  /\ w \in {"pop", "flush", "close"} /\ needFlush \in BOOLEAN
  /\ DOMAIN files \subseteq File /\ DOMAIN allowed = DOMAIN files
  /\ \A file \in DOMAIN files: files[file] \in Seq(Stored)
  /\ handle \in DOMAIN files \cup {NoFile}
  /\ created \in Nat /\ index \in Nat /\ late \in BOOLEAN
  /\ buffered \in Nat /\ (handle = NoFile => buffered = 0)

\* What is shown and what is written are the same line, however long the message
\* is (log4z.h:669-783, log4z.cpp:1451-1470).
LinesAreWhole ==
  \A i \in DOMAIN todo:
    todo[i].type = "general" => IsLine(Line(todo[i].said, todo[i].fileLine))

\* "support one day one log file": the messages in a file are of the day in its
\* name, whatever the order in which they arrive (log4z.cpp:1676-1695).
OneDayPerFile ==
  \A file \in DOMAIN files: \A i \in DOMAIN files[file]:
    DayOf(files[file][i].time) = DayOf(file.minute)

\* Each opening adds no more to a file than its limit and one message; the length
\* that is tested does not wrap around (log4z.cpp:1677, 1839).
SizeIsBounded ==
  \A file \in DOMAIN files:
    Size(file) <= allowed[file]

\* A file that is begun because the last one is full is a new one, as long as
\* the messages come in the order of their days (log4z.cpp:1680-1720).
RollIsFresh ==
  [][index' > index /\ handle' # NoFile /\ ~late => handle' \notin DOMAIN files]_vars

\* Nothing stays in the buffer of a file, even if the logger is disabled and
\* enabled meanwhile (log4z.cpp:1853-1864).
IsFlushed == buffered > 0 ~> buffered = 0
=============================================================================
