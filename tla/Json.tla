---------------------------------- MODULE Json ----------------------------------
(***************************************************************************)
(* A program with jsoncpp, as json_test1 of src/sockman/sockman.cpp: it    *)
(* parses a document into root, changes root, and writes it.  What is      *)
(* written is then parsed into the same root.                              *)
(***************************************************************************)
EXTENDS JsonReader, JsonWriter

CONSTANTS
  Keys,           \* the names of members that the program uses
  NewValues,      \* what it assigns
  Sizes,          \* what it gives to resize
  MaxEdits        \* bound: how often it changes root

\* The names and texts of the program have no NUL, and it assigns what a Value can be.
ASSUME ProgramAssumption ==
  /\ Keys \subseteq Seq(1..255)
  /\ Sizes \subseteq Nat
  /\ \A v \in NewValues:
       \/ v \in {Null, Array, Object, Bool(TRUE), Bool(FALSE), Infinity}
       \/ v.type = "string" /\ v = [type |-> "string", text |-> v.text] /\ v.text \in Seq(1..255)
       \/ v.type = "int" /\ v = [type |-> "int", num |-> v.num]
          /\ v.num \in -LargestInt..LargestInt - 1
       \/ v.type = "uint" /\ v = [type |-> "uint", num |-> v.num] /\ v.num \in 0..Word - 1
       \/ v.type = "real" /\ v = [type |-> "real", num |-> v.num] /\ v.num \in Int

VARIABLES
  phase,          \* "parse", "edit", "reparse" or "aborted" (an assert failed)
  edits,          \* how often root was changed
  saved           \* history: what root was when it was written

programVars == <<phase, edits, saved>>
allVars == <<vars, programVars>>

JsonInit == Init /\ phase = "parse" /\ edits = 0 /\ saved = <<>>

\* reader.parse
Parse == phase \in {"parse", "reparse"} /\ Next /\ UNCHANGED programVars

\* parse returned true: the reader's own state is of no use any more.
Parsed ==
  /\ phase = "parse" /\ pc = "done" /\ ok
  /\ phase' = "edit"
  /\ doc' = <<>> /\ last' = NOWHERE /\ before' = FALSE
  /\ UNCHANGED <<mode, given, script, pc, frames, node, tree, errors, ok, edits, saved>>

\* The program calls an operation of root, which asserts "allowed" first.
Edit(allowed, result) ==
  /\ phase = "edit" /\ edits < MaxEdits
  /\ edits' = edits + 1
  /\ IF allowed THEN tree' = result /\ UNCHANGED phase
     ELSE phase' = "aborted" /\ UNCHANGED tree
  /\ UNCHANGED <<inputVars, pc, frames, node, before, last, errors, ok, saved>>

\* root[k] = v
SetMember ==
  \E k \in Keys, v \in NewValues:
    Edit(IsObject(tree, ROOT), Assign(Child(tree, ROOT, Name(k)), <<Name(k)>>, v))

RemoveKey == \E k \in Keys: Edit(IsObject(tree, ROOT), RemoveMember(tree, ROOT, Name(k)))

AppendValue == \E v \in NewValues: Edit(IsArray(tree, ROOT), AppendTo(tree, ROOT, v))

ResizeRoot ==
  \E n \in Sizes:
    Edit(IsArray(tree, ROOT) /\ ResizeAsserts(tree, ROOT, n), Resize(tree, ROOT, n))

ClearRoot == Edit(IsArray(tree, ROOT) \/ IsObject(tree, ROOT), Clear(tree, ROOT))

\* One of the writers writes root, and what it wrote is parsed into root.
Write ==
  /\ phase = "edit"
  /\ phase' = "reparse"
  /\ saved' = Dense(tree)
  /\ given' = TRUE
  /\ script' \in {Fast(tree), Styled(tree), StyledStream(tree)}
  /\ doc' = <<>> /\ pc' = "value" /\ frames' = <<>> /\ node' = ROOT
  /\ before' = FALSE /\ last' = NOWHERE /\ errors' = 0 /\ ok' = TRUE
  /\ UNCHANGED <<mode, tree, edits>>

JsonNext ==
  \/ Parse \/ Parsed \/ SetMember \/ RemoveKey \/ AppendValue \/ ResizeRoot \/ ClearRoot \/ Write

JsonSpec == JsonInit /\ [][JsonNext]_allVars

\* parse is a call: once begun it goes on.
JsonFair == JsonSpec /\ WF_allVars(Parse)
-----------------------------------------------------------------------------
(* The grammar of JSON, over tokens *)

Type(s, i) == s[i].type

Opens(kind) == IF kind = "object" THEN "objectBegin" ELSE "arrayBegin"
Closes(kind) == IF kind = "object" THEN "objectEnd" ELSE "arrayEnd"

\* Is what stands between s[a] and s[b] a member, or an element?  "values" tells
\* for each n where the values of n tokens begin.
IsItem(s, values, kind, a, b) ==
  IF kind = "object"
  THEN /\ b - a > 3 /\ Type(s, a + 1) = "string" /\ Type(s, a + 2) = "memberSeparator"
       /\ DecodeString(s[a + 1]) # Failed
       /\ a + 3 \in values[b - a - 3]
  ELSE b - a > 1 /\ a + 1 \in values[b - a - 1]

\* Is s[i..j] an empty container, or one with commas between its items?
IsContainer(s, values, kind, i, j) ==
  /\ i < j /\ Type(s, i) = Opens(kind) /\ Type(s, j) = Closes(kind)
  /\ \/ j = i + 1
     \/ \E commas \in SUBSET {k \in i + 1..j - 1: Type(s, k) = "arraySeparator"}:
          \A a, b \in commas \cup {i, j}:
            a < b /\ ~(\E c \in commas: a < c /\ c < b) => IsItem(s, values, kind, a, b)

IsValue(s) ==
  LET values[n \in 0..Len(s)] ==
        {i \in 1..Len(s) - n + 1:
           \/ /\ n = 1 /\ Type(s, i) \in {"number", "string", "literal"}
              /\ Scalar(s[i]) # Failed
           \/ \E kind \in {"object", "array"}: IsContainer(s, values, kind, i, i + n - 1)}
  IN 1 \in values[Len(s)]
-----------------------------------------------------------------------------
(* Properties *)

HasEmptyName(s) == \E i \in DOMAIN s: Type(s, i) = "string" /\ s[i].pieces = <<>>

StrictRoot(s) ==
  mode = "strict" => \/ Type(s, 1) \in {"objectBegin", "arrayBegin"}
                     \/ s = <<[type |-> "literal", value |-> Null]>>

\* Without comments and empty names, parse accepts the documents of the grammar,
\* strict mode only those with a container (or null) at the root, and nothing else
\* (jsoncpp.cpp:355-403, 640-739, 949-973, whose error
\* recovery must never make a bad document good).
ParsesJson ==
  phase = "parse" /\ pc = "done"
  /\ ~(\E i \in DOMAIN doc: Type(doc, i) = "comment") /\ ~HasEmptyName(doc)
  => (ok <=> LET text == Front(doc) IN IsValue(text) /\ StrictRoot(text))

\* An integer that a LargestInt or a LargestUInt can hold is read without loss, and
\* each conversion gives it back or throws (jsoncpp.cpp:742-792, 2229-2315, 2427).
NumbersAreExact ==
  phase = "parse" /\ pc = "done" /\ doc[1].type = "number" /\ doc[1].form = "digits"
  => LET n == Number(doc[1])
         value == tree[ROOT].value
     IN n \in -LargestInt..Word - 1
        => /\ value.num = n /\ value.type # "real"
           /\ AsInt(value) = Within(n, -MaxInt - 1, MaxInt)
           /\ AsUInt(value) = Within(n, 0, 2 * MaxInt + 1)
           /\ AsInt64(value) = Within(n, -LargestInt, LargestInt - 1)
           /\ AsBool(tree, ROOT) <=> n # 0

Infinite == \E p \in DOMAIN saved: saved[p] = Infinity

\* An int or a uint: which one it was is not written.
Integral(value) == IF value.type = "uint" THEN [value EXCEPT !.type = "int"] ELSE value
Content(values) == [p \in DOMAIN values |-> Integral(values[p])]

\* What the program writes, with any of the writers, parse reads back as the same
\* values, whatever the document had for comments and the program did to it; an
\* infinite double is the exception (jsoncpp.cpp:3418-3564, 3589-4177).
RoundTrip ==
  phase = "reparse" /\ pc = "done" /\ ~Infinite => ok /\ Content(Values(tree)) = Content(saved)

\* A call of parse returns, whatever the document: every function that reads tokens
\* stops at the end of it (jsoncpp.cpp:406-421, 640-739, 949-963).
ParseReturns == []<>(pc = "done" \/ phase = "aborted")
=============================================================================
