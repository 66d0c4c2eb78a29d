------------------------------ MODULE JsonReader ------------------------------
(***************************************************************************)
(* Json::Reader::parse (src/sockman/jsoncpp.cpp, json_reader.cpp), a token *)
(* at a time.  The functions that call each other (readValue, readObject,  *)
(* readArray) are a stack of frames; nodes_, the stack of Values that they *)
(* fill, is the path "node".                                               *)
(*                                                                         *)
(* readToken is taken for a choice of tokens: the document is whatever the *)
(* tokens that were chosen make.  A token "eos" may come at any time (a    *)
(* NUL in the document), and nothing else comes at its end.  A comment is  *)
(* [type |-> "comment", same |-> ...], "same" when readComment finds it on *)
(* the line where the last value ended; a token that is not well formed is *)
(* "error".                                                                *)
(***************************************************************************)
EXTENDS JsonValue

CONSTANTS
  Tokens,         \* tokens that may stand anywhere
  FirstTokens,    \* more of them, for the beginning of a document
  MaxTokens,      \* bound: how many of them there are
  WideTokens,     \* bound: how many of them may be any
  MaxComments,    \* bound: how many of them are comments
  Modes           \* "comments" (the default), "plain" (not collected), "strict"

EOS == [type |-> "eos"]
NOWHERE == <<[nowhere |-> TRUE]>>   \* lastValue_ is 0

\* The digits of a number are digits, the code of \uXXXX has four hexadecimal
\* digits, and the literals are null, true and false.
ASSUME TokensAssumption ==
  \A t \in Tokens \cup FirstTokens:
    /\ t.type = "number" => t.neg \in BOOLEAN /\ t.digits \in Seq(0..9)
    /\ t.type = "string" => t.pieces \in Seq(Piece)
    /\ t.type = "literal" => \E v \in {Null, Bool(TRUE), Bool(FALSE)}:
                               t = [type |-> "literal", value |-> v]

VARIABLES
  mode,           \* features_ and collectComments_
  given,          \* is the document known?  It is "script" then
  script,         \* what is left of it
  doc,            \* history: the tokens that were read
  pc,             \* where the innermost function is
  frames,         \* the functions that are called: object or array
  node,           \* nodes_
  tree,           \* root
  before,         \* commentsBefore_ is not empty
  last,           \* lastValue_
  errors,         \* errors_.size()
  ok              \* what parse will return

inputVars == <<mode, given, script, doc>>
vars == <<inputVars, pc, frames, node, tree, before, last, errors, ok>>

collect == mode = "comments"
allowComments == mode # "strict"
strictRoot == mode = "strict"

\* What parse() does before it reads is in Init.
Init ==
  /\ mode \in Modes
  /\ given = FALSE /\ script = <<>>
  /\ doc = <<>> /\ pc = "value" /\ frames = <<>> /\ node = ROOT
  /\ before = FALSE /\ last = NOWHERE /\ errors = 0 /\ ok = TRUE
  /\ tree = [p \in {ROOT} |-> Leaf(Null)]

Top == frames[Len(frames)]
Pop(stack) == IF stack = <<>> THEN <<>> ELSE SubSeq(stack, 1, Len(stack) - 1)

-----------------------------------------------------------------------------
(* Tokens *)

Closing == IF Top.kind = "object" THEN "objectEnd" ELSE "arrayEnd"

\* What the innermost function has a use for; "error" stands for all the rest.
Expected ==
  CASE pc = "value"     -> {"objectBegin", "arrayBegin", "number", "comment", "error"}
    [] pc = "name"      -> {"objectEnd", "string", "comment", "error"}
    [] pc = "colon"     -> {"memberSeparator", "comment", "error"}
    [] pc = "comma"     -> {"objectEnd", "arraySeparator", "comment", "error"}
    [] pc = "commented" -> {"objectEnd", "arraySeparator", "comment"}
    [] pc = "first"     -> {"arrayEnd", "objectBegin", "arrayBegin", "number", "comment", "error"}
    [] pc = "separator" -> {"arrayEnd", "arraySeparator", "comment", "error"}
    [] pc = "recover"   -> {Closing}
    [] OTHER            -> {"comment"}

Comments == {i \in DOMAIN doc: doc[i].type = "comment"}

\* Any token at the beginning of a document, and after it those that are expected.
Offered ==
  IF given
  THEN {IF script = <<>> THEN EOS ELSE Head(script)}
  ELSE IF Len(doc) > WideTokens /\ Last(doc) = EOS THEN {EOS}
  ELSE {EOS} \cup
       {t \in Tokens \cup (IF doc = <<>> THEN FirstTokens ELSE {}):
          /\ Len(doc) < MaxTokens
          /\ Len(doc) < WideTokens \/ t.type \in Expected
          /\ t.type = "comment" => Cardinality(Comments) < MaxComments}

\* readToken.  The history has the end of the document once.
Read(t) ==
  /\ doc' = IF t = EOS /\ doc # <<>> /\ Last(doc) = EOS THEN doc ELSE Append(doc, t)
  /\ script' = IF script = <<>> THEN <<>> ELSE Tail(script)
  /\ UNCHANGED <<mode, given>>

With(tr, path, place) == [tr EXCEPT ![path].comments = @ \cup {place}]

\* readComment, addComment: after the last value, or before the next one.
AddComment(t, tr) ==
  LET same == t.same /\ last # NOWHERE
  IN /\ tree' = IF collect /\ same THEN With(tr, last, "same") ELSE tr
     /\ before' = (before \/ (collect /\ ~same))

\* A comment is skipped: the same function reads on.
Skip(t) == AddComment(t, tree) /\ UNCHANGED <<pc, frames, node, last, errors, ok>>

-----------------------------------------------------------------------------
(* Returns *)

Left(path) == IF collect THEN last' = path ELSE UNCHANGED last

\* readValue returns "good" to the function whose frame is the last of "fs", or
\* to parse.  "path" is the Value it read.
Return(path, fs, good) ==
  /\ frames' = fs
  /\ node' = Pop(path)
  /\ ok' = good
  /\ pc' = IF fs = <<>> THEN "tail"
           ELSE IF ~good THEN "recover"
           ELSE IF fs[Len(fs)].kind = "object" THEN "comma" ELSE "separator"

\* Mutant: lastValue_ is not set after a container.
ReturnContainerOnly(good) ==
  /\ UNCHANGED last
  /\ Return(node, Pop(frames), good)

\* readObject or readArray returns, and readValue after it.
ReturnContainer(good) ==
  /\ Left(node)
  /\ Return(node, Pop(frames), good)

\* addErrorAndRecover
AddErrorAndRecover ==
  /\ errors' = errors + 1
  /\ pc' = "recover"
  /\ UNCHANGED <<frames, node, tree, before, last, ok>>

-----------------------------------------------------------------------------
(* readValue *)

Scalar(t) ==
  CASE t.type = "number"  -> DecodeNumber(t)
    [] t.type = "string"  -> LET s == DecodeString(t) 
                             IN IF s = Failed THEN s ELSE [s EXCEPT !.text = CStr(@)]
    [] t.type = "literal" -> t.value

\* Mutant: an unknown token leaves no error.
NoError(path, fs) == UNCHANGED <<errors, last>> /\ Return(path, fs, FALSE)

UnexpectedToken(path, fs) ==
  /\ errors' = errors + 1
  /\ UNCHANGED last
  /\ Return(path, fs, FALSE)

\* The token t begins the Value at "path" of the tree "tr".
ReadValue(t, path, tr, fs) ==
  LET commented == IF collect /\ before THEN With(tr, path, "before") ELSE tr
  IN IF t.type \in {"objectBegin", "arrayBegin"}
     THEN /\ tree' = Assign(commented, path, IF t.type = "objectBegin" THEN Object ELSE Array)
          /\ frames' = Append(fs, IF t.type = "objectBegin" THEN [kind |-> "object", name |-> <<>>]
                                  ELSE [kind |-> "array", index |-> 0])
          /\ pc' = IF t.type = "objectBegin" THEN "name" ELSE "first"
          /\ node' = path
          /\ UNCHANGED <<last, errors, ok>>
     ELSE IF t.type \in {"number", "string", "literal"}
     THEN LET value == Scalar(t)
          IN /\ tree' = IF value = Failed THEN commented ELSE Assign(commented, path, value)
             /\ errors' = IF value = Failed THEN errors + 1 ELSE errors
             /\ Left(path)
             /\ Return(path, fs, value # Failed)
     ELSE tree' = commented /\ UnexpectedToken(path, fs)

\* A comment before the first token of a value stays in commentsBefore_ until
\* that token has come.
Value ==
  /\ pc = "value"
  /\ \E t \in Offered:
       /\ Read(t)
       /\ IF t.type = "comment" /\ allowComments
          THEN Skip(t)
          ELSE /\ before' = FALSE
               /\ ReadValue(t, node, tree, frames)

-----------------------------------------------------------------------------
(* readObject *)

NameOrEnd ==
  /\ pc = "name"
  /\ \E t \in Offered:
       /\ Read(t)
       /\ IF t.type = "comment" THEN Skip(t)
          ELSE IF t.type = "objectEnd" /\ Top.name = <<>>
          THEN ReturnContainer(TRUE) /\ UNCHANGED <<tree, before, errors>>
          ELSE IF t.type = "string" /\ DecodeString(t) # Failed
          THEN /\ frames' = [frames EXCEPT ![Len(frames)].name = DecodeString(t).text]
               /\ pc' = "colon"
               /\ UNCHANGED <<node, tree, before, last, errors, ok>>
          ELSE AddErrorAndRecover

Colon ==
  /\ pc = "colon"
  /\ \E t \in Offered:
       /\ Read(t)
       /\ IF t.type = "memberSeparator"
          THEN /\ tree' = Child(tree, node, Name(Top.name))
               /\ node' = Append(node, Name(Top.name))
               /\ pc' = "value"
               /\ UNCHANGED <<frames, before, last, errors, ok>>
          ELSE IF t.type = "comment"
          THEN /\ AddComment(t, tree) /\ errors' = errors + 1 /\ pc' = "recover"
               /\ UNCHANGED <<frames, node, last, ok>>
          ELSE AddErrorAndRecover

\* Mutant: after the comma another member is not asked for.
CommaEnds(t) ==
  IF t.type = "objectEnd" \/ t.type = "arraySeparator"
  THEN ReturnContainer(TRUE) /\ UNCHANGED <<tree, before, errors>>
  ELSE AddErrorAndRecover

AfterMember(t) ==
  IF t.type = "objectEnd"
  THEN ReturnContainer(TRUE) /\ UNCHANGED <<tree, before, errors>>
  ELSE IF t.type = "arraySeparator"
  THEN pc' = "name" /\ UNCHANGED <<frames, node, tree, before, last, errors, ok>>
  ELSE AddErrorAndRecover

Comma ==
  /\ pc = "comma"
  /\ \E t \in Offered:
       /\ Read(t)
       /\ IF t.type = "comment"
          THEN /\ AddComment(t, tree) /\ pc' = "commented"
               /\ UNCHANGED <<frames, node, last, errors, ok>>
          ELSE AfterMember(t)

\* After a comment whatever is not "objectEnd" is taken for a comma.
CommaAfterComment ==
  /\ pc = "commented"
  /\ \E t \in Offered:
       /\ Read(t)
       /\ IF t.type = "comment" THEN Skip(t)
          ELSE IF t.type = "objectEnd"
          THEN ReturnContainer(TRUE) /\ UNCHANGED <<tree, before, errors>>
          ELSE pc' = "name" /\ UNCHANGED <<frames, node, tree, before, last, errors, ok>>

-----------------------------------------------------------------------------
(* readArray *)

Element == Append(node, Index(Top.index))

\* "arrayEnd" is looked for before any comment is skipped.
First ==
  /\ pc = "first"
  /\ \E t \in Offered:
       /\ Read(t)
       /\ IF t.type = "arrayEnd"
          THEN ReturnContainer(TRUE) /\ UNCHANGED <<tree, before, errors>>
          ELSE LET tr == Child(tree, node, Index(0))
               IN IF t.type = "comment" /\ allowComments
                  THEN /\ AddComment(t, tr)
                       /\ node' = Element /\ pc' = "value"
                       /\ UNCHANGED <<frames, last, errors, ok>>
                  ELSE /\ before' = FALSE
                       /\ ReadValue(t, Element, tr, frames)

Separator ==
  /\ pc = "separator"
  /\ \E t \in Offered:
       /\ Read(t)
       /\ IF t.type = "comment" THEN Skip(t)
          ELSE IF t.type = "arrayEnd"
          THEN ReturnContainer(TRUE) /\ UNCHANGED <<tree, before, errors>>
          ELSE IF t.type = "arraySeparator"
          THEN LET next == Index(Top.index + 1)
               IN /\ frames' = [frames EXCEPT ![Len(frames)].index = @ + 1]
                  /\ tree' = Child(tree, node, next)
                  /\ node' = Append(node, next)
                  /\ pc' = "value"
                  /\ UNCHANGED <<before, last, errors, ok>>
          ELSE AddErrorAndRecover

-----------------------------------------------------------------------------
(* recoverFromError, and the end of parse *)

\* Mutant: the end of the document does not end it.
RecoverOnly ==
  /\ pc = "recover"
  /\ \E t \in Offered:
       /\ Read(t)
       /\ IF t.type = Closing
          THEN ReturnContainer(FALSE) /\ UNCHANGED <<tree, before, errors>>
          ELSE IF t.type = "comment" THEN Skip(t)
          ELSE UNCHANGED <<pc, frames, node, tree, before, last, errors, ok>>

Recover ==
  /\ pc = "recover"
  /\ \E t \in Offered:
       /\ Read(t)
       /\ IF t.type \in {Closing, "eos"}
          THEN ReturnContainer(FALSE) /\ UNCHANGED <<tree, before, errors>>
          ELSE IF t.type = "comment" THEN Skip(t)
          ELSE UNCHANGED <<pc, frames, node, tree, before, last, errors, ok>>

\* One more token is read, whatever it is.
Finish ==
  /\ pc = "tail"
  /\ \E t \in Offered:
       /\ Read(t)
       /\ IF t.type = "comment" /\ allowComments THEN Skip(t)
          ELSE LET refused == strictRoot /\ ~IsArray(tree, ROOT) /\ ~IsObject(tree, ROOT)
               IN /\ tree' = IF collect /\ before THEN With(tree, ROOT, "after") ELSE tree
                  /\ errors' = IF refused THEN errors + 1 ELSE errors
                  /\ ok' = (ok /\ ~refused)
                  /\ pc' = "done"
                  /\ UNCHANGED <<frames, node, before, last>>

Next ==
  \/ Value \/ NameOrEnd \/ Colon \/ Comma \/ CommaAfterComment
  \/ First \/ Separator \/ Recover \/ Finish

Spec == Init /\ [][Next]_vars
-----------------------------------------------------------------------------
(* Properties *)

Kinds == {"value", "name", "colon", "comma", "commented", "first", "separator",
          "recover", "tail", "done"}

\* The stack of functions and the stack of Values that they fill agree, and no
\* function of one kind of container is where only the other can be.
TypeOK ==
  /\ mode \in Modes /\ given \in BOOLEAN /\ before \in BOOLEAN /\ ok \in BOOLEAN
  /\ errors \in Nat /\ pc \in Kinds
  /\ Len(node) = IF pc \in {"tail", "done"} THEN 0
                 ELSE Len(frames) - (IF pc = "value" THEN 0 ELSE 1)
  /\ pc \in {"name", "colon", "comma", "commented"} => Top.kind = "object"
  /\ pc \in {"first", "separator"} => Top.kind = "array"

\* nodes_ and lastValue_ point to Values that are alive, and every Value of
\* nodes_ but the innermost is a container of the kind that its function fills
\* (jsoncpp.cpp:575, 669-672, 713-716): a member that is read twice destroys
\* what its first value had below it.
NodesAlive ==
  /\ last = NOWHERE \/ last \in DOMAIN tree
  /\ node \in DOMAIN tree
  /\ \A i \in 1..Len(frames): Is(tree, SubSeq(node, 1, i - 1), frames[i].kind)

\* parse fails exactly when it has an error to report (jsoncpp.cpp:935-973,
\* 1041-1056): no failure is silent.
ErrorsExplain == pc = "done" => (ok <=> errors = 0)
=============================================================================
