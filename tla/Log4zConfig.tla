----------------------------- MODULE Log4zConfig -----------------------------
(***************************************************************************)
(* The loggers of src/sockman/log4z/log4z.cpp and their configuration:     *)
(* createLogger, config, configFromString, the automatic update in run(),  *)
(* the parser of configuration files and the setters they end in.          *)
(*                                                                         *)
(* A configuration is a sequence of lines.  A line is                      *)
(*   [kind |-> "section", key |-> ...]         [key]                       *)
(*   [kind |-> "set", field |-> ..., value |-> ...]   field = value        *)
(*   [kind |-> "other"]    empty, a comment, or without a name             *)
(* with its names trimmed and in lower case.  The fields are of four kinds *)
(* that the code treats in four ways: texts (name, path), flags (display,  *)
(* outfile, monthdir, fileline, enable), the level, and the limit.         *)
(*                                                                         *)
(* A file is taken for unchanged when the sum of its bytes is: Sum gives   *)
(* each configuration that sum.                                            *)
(***************************************************************************)
EXTENDS Integers, SequencesExt, FiniteSetsExt

CONSTANTS
  Keys,           \* keys of loggers, in the order of a std::map
  MAIN,           \* LOG4Z_MAIN_LOGGER_KEY
  LoggerMax,      \* LOG4Z_LOGGER_MAX
  Texts, Flags,   \* fields
  Default,        \* what a logger is before anything is set: a function of its fields
  LevelOf,        \* the words for levels, and which levels they are
  NoLimit,        \* (unsigned)-1
  Configs,        \* configurations that are in the file, or given as a string
  Sum,            \* the sum of the bytes of each
  NOFILE,         \* there is no such file
  MaxEdits        \* bound: how often the file changes

Fields == Texts \cup Flags \cup {"level", "limitsize"}

ASSUME KeysAssumption ==
  Keys \in Seq(ToSet(Keys)) /\ IsInjective(Keys) /\ MAIN \in ToSet(Keys)
ASSUME LimitsAssumption == LoggerMax \in Nat \ {0} /\ MaxEdits \in Nat
ASSUME FieldsAssumption ==
  /\ "enable" \in Flags /\ DOMAIN Default = Fields /\ IsFiniteSet(Fields)
  /\ Texts \cap Flags = {} /\ {"level", "limitsize", "key"} \cap (Texts \cup Flags) = {}
ASSUME ConfigsAssumption == \A config \in Configs: config \in Seq(ToSet(config))
ASSUME SumAssumption == Sum \in [Configs -> Nat] /\ NOFILE \notin Configs

VARIABLES
  disk,           \* what is in the configuration file
  edits,          \* how often it changed
  named,          \* config() was called: _configFile is set
  checksum,       \* _checksum
  loaded,         \* history: the configuration that was read last
  ids,            \* the keys of the loggers 0, 1, ... (_ids)
  attr,           \* the fields of each logger (_loggers)
  runing,         \* _runing
  todo,           \* hot changes in the queue
  w               \* the writer: "drain" or "update"

vars == <<disk, edits, named, checksum, loaded, ids, attr, runing, todo, w>>

-----------------------------------------------------------------------------
(* parseConfigFromString *)

NewInfo(key) == [f \in Fields \cup {"key"} |->
  IF f = "enable" THEN TRUE ELSE IF f \in {"key", "name"} THEN key ELSE Default[f]]

\* What a value means for a field.  An unknown level is ignored.
Value(info, field, value) ==
  CASE field \in Texts     -> value
    [] field \in Flags     -> value \notin {"false", "0"}
    [] field = "level"     -> IF value \in DOMAIN LevelOf THEN LevelOf[value] ELSE info.level
    [] field = "limitsize" -> IF value \in Nat THEN value ELSE 0

\* parseConfigLine: "key" is the logger whose section this is.
ParseLine(p, line) ==
  CASE line.kind = "section" ->
         [key |-> line.key,
          infos |-> IF line.key \in DOMAIN p.infos THEN p.infos
                    ELSE [k \in DOMAIN p.infos \cup {line.key} |->
                            IF k = line.key THEN NewInfo(k) ELSE p.infos[k]]]
    [] line.kind = "set" /\ p.key \in DOMAIN p.infos /\ line.field \in Fields ->
         [p EXCEPT !.infos[p.key][line.field] =
                     Value(p.infos[p.key], line.field, line.value)]
    [] OTHER -> p

Parse == [config \in Configs |->
  LET parsed[i \in 0..Len(config)] ==
        IF i = 0 THEN [key |-> "", infos |-> <<>>] ELSE ParseLine(parsed[i - 1], config[i])
  IN parsed[Len(config)].infos]

-----------------------------------------------------------------------------
(* The loggers *)

Init ==
  /\ disk \in Configs \cup {NOFILE} /\ edits = 0
  /\ named = FALSE /\ checksum = 0 /\ loaded = NOFILE
  /\ ids = <<MAIN>>
  /\ attr = [k \in {MAIN} |-> NewInfo(MAIN)]
  /\ runing = FALSE /\ todo = <<>> /\ w = "drain"

\* Mutant: one logger more than there is room for.
MadeOneMore(wanted) ==
  LET made[i \in 0..Len(Keys)] ==
        IF i = 0 THEN <<>>
        ELSE IF /\ Keys[i] \in wanted \ DOMAIN attr
                /\ Len(ids) + Len(made[i - 1]) <= LoggerMax
             THEN Append(made[i - 1], Keys[i]) ELSE made[i - 1]
  IN made[Len(Keys)]

\* createLogger for some keys in turn: an existing logger is taken, and no more
\* than LoggerMax are made.
Made(wanted) ==
  LET made[i \in 0..Len(Keys)] ==
        IF i = 0 THEN <<>>
        ELSE IF /\ Keys[i] \in wanted \ DOMAIN attr
                /\ Len(ids) + Len(made[i - 1]) < LoggerMax
             THEN Append(made[i - 1], Keys[i]) ELSE made[i - 1]
  IN made[Len(Keys)]

WithMade(wanted) ==
  [key \in DOMAIN attr \cup ToSet(Made(wanted)) |->
     IF key \in DOMAIN attr THEN attr[key] ELSE NewInfo(key)]

\* What a setter is given.  A limit of 0 is none, and an empty text is refused.
Given(info, field) ==
  IF field = "limitsize" /\ info[field] = 0 THEN NoLimit ELSE info[field]

Refused(info, field) == field \in Texts /\ info[field] = ""

\* Some changes are made at once while the writer runs, the others are queued.
Immediate(old, field, value) ==
  \/ ~runing
  \/ field = "enable" /\ value
  \/ field = "level" /\ value <= old.level

\* The setters of one logger: its fields afterwards, and the changes they queue.
Set(old, info) ==
  [f \in DOMAIN old |->
     IF f \in Fields /\ ~Refused(info, f) /\ Immediate(old, f, Given(info, f))
     THEN Given(info, f) ELSE old[f]]

\* Mutant: a level that lets less through is not queued.
QueueAllButLevel(key, old, info) ==
  {[key |-> key, field |-> f, value |-> Given(info, f)]:
     f \in {g \in Fields \ {"level"}:
              ~Refused(info, g) /\ ~Immediate(old, g, Given(info, g))}}

Queue(key, old, info) ==
  {[key |-> key, field |-> f, value |-> Given(info, f)]:
     f \in {g \in Fields: ~Refused(info, g) /\ ~Immediate(old, g, Given(info, g))}}

\* configFromStringImpl: the loggers of the configuration in turn; an update makes
\* no new ones.
ConfigFromStringImpl(config, isUpdate) ==
  IF Sum[config] = checksum
  THEN UNCHANGED <<checksum, loaded, ids, attr, todo>>
  ELSE LET infos == Parse[config]
           wanted == IF isUpdate THEN {} ELSE DOMAIN infos
           old == WithMade(wanted)
           found == DOMAIN old \cap DOMAIN infos
       IN /\ checksum' = Sum[config]
          /\ loaded' = config
          /\ ids' = ids \o Made(wanted)
          /\ attr' = [k \in DOMAIN old |->
                        IF k \in found THEN Set(old[k], infos[k]) ELSE old[k]]
          /\ todo' = FoldSet(LAMBDA c, q: Append(q, c), todo,
                             UNION {Queue(k, old[k], infos[k]): k \in found})

-----------------------------------------------------------------------------
(* What the program calls before start() *)

CreateLogger ==
  /\ ~runing
  /\ \E key \in ToSet(Keys): ids' = ids \o Made({key}) /\ attr' = WithMade({key})
  /\ UNCHANGED <<disk, edits, named, checksum, loaded, runing, todo, w>>

\* config(): once; the file may be missing.
Config ==
  /\ ~runing /\ ~named
  /\ named' = TRUE
  /\ IF disk = NOFILE THEN UNCHANGED <<checksum, loaded, ids, attr, todo>>
                      ELSE ConfigFromStringImpl(disk, FALSE)
  /\ UNCHANGED <<disk, edits, runing, w>>

ConfigFromString ==
  /\ ~runing
  /\ \E config \in Configs: ConfigFromStringImpl(config, FALSE)
  /\ UNCHANGED <<disk, edits, named, runing, w>>

Start ==
  /\ ~runing
  /\ runing' = TRUE
  /\ UNCHANGED <<disk, edits, named, checksum, loaded, ids, attr, todo, w>>

\* Someone edits the file, or removes it.
Edit ==
  /\ edits < MaxEdits
  /\ edits' = edits + 1
  /\ disk' \in (Configs \cup {NOFILE}) \ {disk}
  /\ UNCHANGED <<named, checksum, loaded, ids, attr, runing, todo, w>>

-----------------------------------------------------------------------------
(* The writer thread *)

\* onHotChange
OnHotChange ==
  /\ runing /\ w = "drain" /\ todo # <<>>
  /\ LET c == Head(todo) IN attr' = [attr EXCEPT ![c.key][c.field] = c.value]
  /\ todo' = Tail(todo)
  /\ UNCHANGED <<disk, edits, named, checksum, loaded, ids, runing, w>>

\* The queue is empty: the writer sleeps and looks at the time.
Drained ==
  /\ runing /\ w = "drain" /\ todo = <<>>
  /\ w' = "update"
  /\ UNCHANGED <<disk, edits, named, checksum, loaded, ids, attr, runing, todo>>

\* Mutant: a file is read only if none was read before.
UpdateConfigOnce ==
  /\ w = "update"
  /\ IF named /\ disk # NOFILE /\ checksum = 0 THEN ConfigFromStringImpl(disk, TRUE)
     ELSE UNCHANGED <<checksum, loaded, ids, attr, todo>>
  /\ w' = "drain"
  /\ UNCHANGED <<disk, edits, named, runing>>

\* updateConfig(), when the time has come.
UpdateConfig ==
  /\ w = "update"
  /\ IF named /\ disk # NOFILE THEN ConfigFromStringImpl(disk, TRUE)
                               ELSE UNCHANGED <<checksum, loaded, ids, attr, todo>>
  /\ w' = "drain"
  /\ UNCHANGED <<disk, edits, named, runing>>

NotYet ==
  /\ w = "update"
  /\ w' = "drain"
  /\ UNCHANGED <<disk, edits, named, checksum, loaded, ids, attr, runing, todo>>

Next ==
  \/ CreateLogger \/ Config \/ ConfigFromString \/ Start \/ Edit
  \/ OnHotChange \/ Drained \/ UpdateConfig \/ NotYet

Spec == Init /\ [][Next]_vars

\* The writer runs, and setAutoUpdate() was called: its time comes again and again.
FairSpec ==
  /\ Spec
  /\ WF_vars(OnHotChange) /\ WF_vars(Drained) /\ SF_vars(UpdateConfig)

-----------------------------------------------------------------------------
\* Whatever the program and the file ask for, each key has one logger, and there are no
\* more of them than _loggers has room for (log4z.cpp:1362-1395).
TypeOK ==
  /\ disk \in Configs \cup {NOFILE} /\ loaded \in Configs \cup {NOFILE}
  /\ edits \in 0..MaxEdits /\ named \in BOOLEAN /\ runing \in BOOLEAN
  /\ w \in {"drain", "update"}
  /\ ids \in Seq(ToSet(Keys)) /\ IsInjective(ids) /\ Len(ids) \in 1..LoggerMax
  /\ DOMAIN attr = ToSet(ids)
  /\ \A key \in DOMAIN attr: attr[key].enable \in BOOLEAN

\* The fields of a logger are those of its section, except for texts that are
\* left empty there.
Follows(info, section) ==
  \A f \in Fields: info[f] = IF f = "limitsize" /\ section[f] = 0 THEN NoLimit
                              ELSE IF f \in Texts /\ section[f] = "" THEN info[f]
                              ELSE section[f]

\* Once the queue is empty the configuration that was read last is in force, in
\* whatever mixture its changes were immediate or queued (log4z.cpp:1299-1327,
\* 1559-1616).
InForce ==
  loaded # NOFILE /\ todo = <<>> =>
    LET infos == Parse[loaded]
    IN \A key \in DOMAIN attr \cap DOMAIN infos: Follows(attr[key], infos[key])

\* When the file stays as it is, the loggers follow it in the end, or a
\* configuration with the same sum (log4z.cpp:1279-1288, 1875-1879).
FileIsFollowed ==
  <>[](runing /\ named /\ disk # NOFILE => todo = <<>> /\ checksum = Sum[disk])
=============================================================================
