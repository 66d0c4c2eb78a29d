------------------------------ MODULE JsonProofs ------------------------------
(***************************************************************************)
(* Proofs about a program with jsoncpp for any tokens, any length of the   *)
(* documents, any width of the integers and any edits: no failure of parse *)
(* is silent, the stack of functions and the stack of Values agree,        *)
(* neither nodes_ nor lastValue_ ever points to a Value that was           *)
(* destroyed, an integer that fits is read without loss, and parse accepts *)
(* the documents of the grammar and no others.                             *)
(*                                                                         *)
(* The grammar goes by an automaton, the reader without its tree: where it *)
(* is and the containers on its stack.  It comes to the end of a value     *)
(* exactly when the grammar has it for a value; and while there is no      *)
(* error the functions of the reader are where the automaton is.           *)
(***************************************************************************)
EXTENDS Json, SequenceTheorems, WellFoundedInduction, TLAPS

-----------------------------------------------------------------------------
(* Errors *)

\* Once there is an error every function recovers from it and fails.
ErrorInv ==
  /\ errors \in Nat /\ ok \in BOOLEAN /\ before \in BOOLEAN
  /\ errors = 0 => ok = TRUE
  /\ errors = 0 => pc # "recover"
  /\ errors # 0 => (pc = "recover" \/ (pc \in {"tail", "done"} /\ ok = FALSE))

LEMMA ReadValueErrors ==
  ASSUME ErrorInv, errors = 0, NEW t, NEW path, NEW tr, NEW fs,
         before' = FALSE, ReadValue(t, path, tr, fs)
  PROVE  ErrorInv'
<1>1. errors \in Nat /\ ok = TRUE
  BY DEF ErrorInv
<1>2. ASSUME NEW good \in BOOLEAN, Return(path, fs, good),
             good => errors' = errors, ~good => errors' = errors + 1
      PROVE  ErrorInv'
  <2>1. /\ ok' = good /\ before' = FALSE
        /\ pc' = IF fs = <<>> THEN "tail"
                 ELSE IF ~good THEN "recover"
                 ELSE IF fs[Len(fs)].kind = "object" THEN "comma" ELSE "separator"
    BY <1>2 DEF Return
  <2>2. CASE good = TRUE
    <3>1. ok' = TRUE /\ errors' = 0 /\ pc' # "recover"
      BY <1>2, <2>1, <2>2
    <3>. QED  BY <2>1, <3>1 DEF ErrorInv
  <2>3. CASE good = FALSE
    <3>1. ok' = FALSE /\ errors' = errors + 1 /\ pc' \in {"tail", "recover"}
      BY <1>2, <2>1, <2>3
    <3>2. errors' \in Nat /\ errors' # 0
      BY <1>1, <3>1
    <3>3. before' \in BOOLEAN
      BY <2>1
    <3>. QED  BY <3>1, <3>2, <3>3 DEF ErrorInv
  <2>. QED  BY <1>2, <2>2, <2>3
<1>3. CASE t.type \in {"objectBegin", "arrayBegin"}
  <2>1. pc' \in {"name", "first"} /\ errors' = errors /\ ok' = ok
    BY <1>3 DEF ReadValue
  <2>. QED  BY <1>1, <2>1 DEF ErrorInv
<1>4. CASE t.type \notin {"objectBegin", "arrayBegin"} /\ t.type \in {"number", "string", "literal"}
  <2>1. /\ errors' = (IF Scalar(t) = Failed THEN errors + 1 ELSE errors)
        /\ Return(path, fs, Scalar(t) # Failed)
    BY <1>4 DEF ReadValue
  <2>. QED  BY <1>2, <2>1
<1>5. CASE t.type \notin {"objectBegin", "arrayBegin"} /\ t.type \notin {"number", "string", "literal"}
  <2>1. errors' = errors + 1 /\ Return(path, fs, FALSE)
    BY <1>5 DEF ReadValue, UnexpectedToken
  <2>. QED  BY <1>2, <2>1
<1>. QED  BY <1>3, <1>4, <1>5

LEMMA ErrorStep == ErrorInv /\ [Next]_vars => ErrorInv'
<1>. SUFFICES ASSUME ErrorInv, [Next]_vars PROVE ErrorInv'
  OBVIOUS
<1>0. errors \in Nat /\ ok \in BOOLEAN /\ before \in BOOLEAN
  BY DEF ErrorInv
<1>1. ASSUME NEW t, NEW tr, AddComment(t, tr) PROVE before' \in BOOLEAN
  BY <1>1 DEF AddComment
<1>2. ASSUME NEW t, Skip(t) PROVE ErrorInv'
  <2>1. UNCHANGED <<pc, errors, ok>> /\ before' \in BOOLEAN
    BY <1>1, <1>2 DEF Skip
  <2>. QED  BY <2>1 DEF ErrorInv
<1>3. ASSUME ReturnContainer(TRUE), UNCHANGED <<before, errors>>, errors = 0 PROVE ErrorInv'
  BY <1>0, <1>3 DEF ReturnContainer, Return, ErrorInv
<1>4. ASSUME ReturnContainer(FALSE), UNCHANGED <<before, errors>>, errors # 0 PROVE ErrorInv'
  BY <1>0, <1>4 DEF ReturnContainer, Return, ErrorInv
<1>5. ASSUME errors' = errors + 1, pc' = "recover", UNCHANGED ok, before' \in BOOLEAN PROVE ErrorInv'
  BY <1>0, <1>5 DEF ErrorInv
<1>6. ASSUME UNCHANGED <<before, errors, ok>>, errors = 0, pc' \notin {"recover"} PROVE ErrorInv'
  BY <1>0, <1>6 DEF ErrorInv
<1>7. AddErrorAndRecover => ErrorInv'
  BY <1>0, <1>5 DEF AddErrorAndRecover
<1>8. pc \notin {"recover", "tail", "done"} => errors = 0
  BY DEF ErrorInv
<1>9. CASE Value
  BY <1>2, <1>8, <1>9, ReadValueErrors DEF Value
<1>10. CASE NameOrEnd
  BY <1>2, <1>3, <1>6, <1>7, <1>8, <1>10 DEF NameOrEnd
<1>11. CASE Colon
  BY <1>1, <1>5, <1>6, <1>7, <1>8, <1>11 DEF Colon
<1>12. CASE Comma
  <2>1. PICK t \in Offered:
          IF t.type = "comment"
          THEN /\ AddComment(t, tree) /\ pc' = "commented"
               /\ UNCHANGED <<frames, node, last, errors, ok>>
          ELSE AfterMember(t)
    BY <1>12 DEF Comma
  <2>2. CASE t.type = "comment"
    <3>1. before' \in BOOLEAN /\ UNCHANGED <<errors, ok>> /\ pc' = "commented"
      BY <1>1, <2>1, <2>2
    <3>. QED  BY <1>0, <1>8, <1>12, <3>1 DEF ErrorInv, Comma
  <2>3. CASE AfterMember(t)
    BY <1>3, <1>6, <1>7, <1>8, <1>12, <2>3 DEF AfterMember, Comma
  <2>. QED  BY <2>1, <2>2, <2>3
<1>13. CASE CommaAfterComment
  BY <1>2, <1>3, <1>6, <1>8, <1>13 DEF CommaAfterComment
<1>14. CASE First
  <2>1. PICK t \in Offered:
          IF t.type = "arrayEnd"
          THEN ReturnContainer(TRUE) /\ UNCHANGED <<tree, before, errors>>
          ELSE LET tr == Child(tree, node, Index(0))
               IN IF t.type = "comment" /\ allowComments
                  THEN /\ AddComment(t, tr)
                       /\ node' = Element /\ pc' = "value"
                       /\ UNCHANGED <<frames, last, errors, ok>>
                  ELSE /\ before' = FALSE
                       /\ ReadValue(t, Element, tr, frames)
    BY <1>14 DEF First
  <2>2. errors = 0
    BY <1>8, <1>14 DEF First
  <2>. DEFINE tr == Child(tree, node, Index(0))
  <2>3. CASE t.type = "arrayEnd"
    BY <1>3, <2>1, <2>2, <2>3
  <2>4. CASE AddComment(t, tr) /\ pc' = "value" /\ UNCHANGED <<errors, ok>>
    <3>1. before' \in BOOLEAN
      BY <1>1, <2>4
    <3>. QED  BY <1>0, <2>2, <2>4, <3>1 DEF ErrorInv
  <2>5. CASE before' = FALSE /\ ReadValue(t, Element, tr, frames)
    BY <2>2, <2>5, ReadValueErrors
  <2>. QED  BY <2>1, <2>3, <2>4, <2>5
<1>15. CASE Separator
  BY <1>2, <1>3, <1>6, <1>7, <1>8, <1>15 DEF Separator
<1>16. CASE Recover
  <2>1. errors # 0
    BY <1>16 DEF ErrorInv, Recover
  <2>2. UNCHANGED <<pc, before, errors, ok>> => ErrorInv'
    BY DEF ErrorInv
  <2>. QED  BY <1>2, <1>4, <1>16, <2>1, <2>2 DEF Recover
<1>17. CASE Finish
  <2>1. PICK t \in Offered:
          IF t.type = "comment" /\ allowComments THEN Skip(t)
          ELSE LET refused == strictRoot /\ ~IsArray(tree, ROOT) /\ ~IsObject(tree, ROOT)
               IN /\ errors' = IF refused THEN errors + 1 ELSE errors
                  /\ ok' = (ok /\ ~refused)
                  /\ pc' = "done"
                  /\ UNCHANGED <<before>>
    BY <1>17 DEF Finish
  <2>2. CASE t.type = "comment" /\ allowComments
    BY <1>2, <2>1, <2>2
  <2>3. CASE ~(t.type = "comment" /\ allowComments)
    <3>. DEFINE refused == strictRoot /\ ~IsArray(tree, ROOT) /\ ~IsObject(tree, ROOT)
    <3>1. /\ errors' = IF refused THEN errors + 1 ELSE errors
          /\ ok' = (ok /\ ~refused)
          /\ pc' = "done"
          /\ UNCHANGED <<before>>
      BY <2>1, <2>3
    <3>2. errors = 0 <=> ok
      BY <1>17 DEF ErrorInv, Finish
    <3>. HIDE DEF refused
    <3>3. CASE refused
      <4>1. ok' = FALSE /\ errors' = errors + 1
        BY <3>1, <3>3, Zenon
      <4>. QED  BY <1>0, <3>1, <4>1 DEF ErrorInv
    <3>4. CASE ~refused
      <4>1. (ok' <=> ok) /\ errors' = errors
        BY <3>1, <3>4, Zenon
      <4>2. ok' \in BOOLEAN
        BY <3>1, Zenon
      <4>3. errors = 0 => ok' = TRUE
        BY <3>2, <4>1, <4>2, Zenon
      <4>4. errors # 0 => ok' = FALSE
        BY <3>2, <4>1, <4>2, Zenon
      <4>. QED  BY <1>0, <3>1, <4>1, <4>2, <4>3, <4>4 DEF ErrorInv
    <3>. QED  BY <3>3, <3>4
  <2>. QED  BY <2>2, <2>3
<1>18. CASE UNCHANGED vars
  BY <1>18 DEF vars, ErrorInv
<1>. QED  BY <1>9, <1>10, <1>11, <1>12, <1>13, <1>14, <1>15, <1>16, <1>17, <1>18 DEF Next

-----------------------------------------------------------------------------
(* The two stacks *)

\* Frames with these names of members.
Frame(N) == [kind: {"object"}, name: N \cup {<<>>}] \cup [kind: {"array"}, index: Nat]

\* Each function on the stack fills a Value of its kind that is alive, and the
\* last Value is no deeper than they are: what an assignment destroys is deeper.
Good(K, tr, nd, fs, ls) ==
  /\ DOMAIN tr \subseteq Seq(K)
  /\ \A p \in DOMAIN tr: tr[p] = [value |-> tr[p].value, comments |-> tr[p].comments]
  /\ nd \in DOMAIN tr
  /\ \A i \in 1..Len(fs): /\ SubSeq(nd, 1, i - 1) \in DOMAIN tr
                          /\ tr[SubSeq(nd, 1, i - 1)].value.type = fs[i].kind
  /\ \/ ls = NOWHERE
     \/ ls \in DOMAIN tr /\ Len(ls) <= Len(fs)

Position(N) ==
  /\ pc \in Kinds
  /\ frames \in Seq(Frame(N))
  /\ pc = "value" => Len(node) = Len(frames)
  /\ pc \in {"tail", "done"} => (frames = <<>> /\ node = <<>>)
  /\ pc \notin {"value", "tail", "done"} =>
       (Len(frames) >= 1 /\ Len(node) = Len(frames) - 1)
  /\ pc \in {"name", "colon", "comma", "commented"} => Top.kind = "object"
  /\ pc \in {"first", "separator"} => Top.kind = "array"
  /\ pc = "first" => Top.index = 0

\* K holds the keys in use, N the names that the functions on the stack have read.
NodesInv ==
  /\ mode \in Modes /\ given \in BOOLEAN
  /\ ~collect => last = NOWHERE
  /\ \E K, N: Position(N) /\ Good(K, tree, node, frames, last)

\* A comment changes no Value.
LEMMA WithGood ==
  ASSUME NEW K, NEW N, NEW tr, NEW nd, NEW fs \in Seq(Frame(N)), NEW ls, NEW path, NEW place,
         Good(K, tr, nd, fs, ls), path \in DOMAIN tr
  PROVE  Good(K, With(tr, path, place), nd, fs, ls)
<1>. DEFINE w == With(tr, path, place)
<1>1. DOMAIN w = DOMAIN tr
  BY DEF With
<1>2. ASSUME NEW p \in DOMAIN tr
      PROVE  /\ w[p].value = tr[p].value
             /\ w[p] = [value |-> w[p].value, comments |-> w[p].comments]
  <2>1. tr[p] = [value |-> tr[p].value, comments |-> tr[p].comments]
    BY DEF Good
  <2>2. w[p] = IF p = path THEN [tr[p] EXCEPT !.comments = @ \cup {place}] ELSE tr[p]
    BY DEF With
  <2>. HIDE DEF w
  <2>. QED  BY <2>1, <2>2
<1>. HIDE DEF w
<1>3. Good(K, w, nd, fs, ls)
  BY <1>1, <1>2 DEF Good
<1>. QED  BY <1>3 DEF w

LEMMA AddCommentGood ==
  ASSUME NEW K, NEW N, NEW t, NEW tr, NEW nd, NEW fs \in Seq(Frame(N)),
         Good(K, tr, nd, fs, last), AddComment(t, tr)
  PROVE  Good(K, tree', nd, fs, last)
<1>1. CASE collect /\ t.same /\ last # NOWHERE
  <2>1. last \in DOMAIN tr
    BY <1>1 DEF Good
  <2>2. tree' = With(tr, last, "same")
    BY <1>1 DEF AddComment
  <2>. QED  BY <2>1, <2>2, WithGood
<1>2. CASE ~(collect /\ t.same /\ last # NOWHERE)
  <2>1. tree' = tr
    BY <1>2 DEF AddComment
  <2>. QED  BY <2>1
<1>. QED  BY <1>1, <1>2

\* An assignment destroys no container that is being filled, nor the last Value.
LEMMA AssignGood ==
  ASSUME NEW K, NEW N, NEW tr, NEW nd, NEW fs \in Seq(Frame(N)), NEW ls, NEW value,
         Good(K, tr, nd, fs, ls), Len(nd) = Len(fs)
  PROVE  Good(K, Assign(tr, nd, value), nd, fs, ls)
<1>. DEFINE a == Assign(tr, nd, value)
<1>0. nd \in Seq(K) /\ nd \in DOMAIN tr /\ DOMAIN tr \subseteq Seq(K)
  BY DEF Good
<1>1. DOMAIN a = DOMAIN tr \ Below(tr, nd)
  BY DEF Assign
<1>2. ASSUME NEW p \in DOMAIN tr, p = nd \/ Len(p) <= Len(nd) PROVE p \in DOMAIN a
  <2>1. CASE p = nd
    BY <1>1, <2>1 DEF Below
  <2>2. CASE p # nd /\ Len(p) <= Len(nd)
    <3>1. p \in Seq(K)
      BY <1>0
    <3>2. ASSUME IsPrefix(nd, p) PROVE FALSE
      <4>1. Len(nd) = Len(p)
        BY <1>0, <2>2, <3>1, <3>2 DEF IsPrefix
      <4>2. nd = SubSeq(nd, 1, Len(nd)) /\ p = SubSeq(p, 1, Len(p))
        BY <1>0, <3>1, SubSeqFull
      <4>3. SubSeq(nd, 1, Len(nd)) = SubSeq(p, 1, Len(nd))
        BY <3>2 DEF IsPrefix
      <4>. QED  BY <2>2, <4>1, <4>2, <4>3
    <3>. QED  BY <1>1, <3>2 DEF Below
  <2>. QED  BY <1>2, <2>1, <2>2
<1>3. ASSUME NEW p \in DOMAIN a
      PROVE  /\ a[p] = [value |-> a[p].value, comments |-> a[p].comments]
             /\ p # nd => a[p] = tr[p]
  <2>1. p \in DOMAIN tr
    BY <1>1
  <2>2. tr[p] = [value |-> tr[p].value, comments |-> tr[p].comments]
    BY <2>1 DEF Good
  <2>3. a[p] = IF p = nd THEN [tr[p] EXCEPT !.value = value] ELSE tr[p]
    BY <1>1 DEF Assign
  <2>. HIDE DEF a
  <2>. QED  BY <2>2, <2>3
<1>4. ASSUME NEW i \in 1..Len(fs)
      PROVE  /\ SubSeq(nd, 1, i - 1) \in DOMAIN a
             /\ a[SubSeq(nd, 1, i - 1)].value.type = fs[i].kind
  <2>. DEFINE s == SubSeq(nd, 1, i - 1)
  <2>1. Len(s) = i - 1 /\ Len(s) < Len(nd)
    BY <1>0, SubSeqProperties
  <2>2. s \in DOMAIN tr /\ tr[s].value.type = fs[i].kind
    BY DEF Good
  <2>. HIDE DEF s, a
  <2>3. s \in DOMAIN a /\ s # nd
    BY <1>0, <1>2, <2>1, <2>2
  <2>4. a[s].value.type = fs[i].kind
    BY <1>3, <2>2, <2>3
  <2>. QED  BY <2>3, <2>4 DEF s
<1>. HIDE DEF a
<1>5. DOMAIN a \subseteq Seq(K)
  BY <1>0, <1>1
<1>6. nd \in DOMAIN a
  BY <1>0, <1>2
<1>7. \/ ls = NOWHERE
      \/ ls \in DOMAIN a /\ Len(ls) <= Len(fs)
  <2>1. CASE ls \in DOMAIN tr /\ Len(ls) <= Len(fs)
    BY <1>2, <2>1
  <2>. QED  BY <2>1 DEF Good
<1>8. Good(K, a, nd, fs, ls)
  BY <1>3, <1>4, <1>5, <1>6, <1>7 DEF Good
<1>. QED  BY <1>8 DEF a

\* A new element or member is null and last on the stack of Values.
LEMMA ChildGood ==
  ASSUME NEW K, NEW N, NEW tr, NEW nd, NEW fs \in Seq(Frame(N)), NEW ls, NEW key \in K,
         Good(K, tr, nd, fs, ls), Len(fs) >= 1, Len(nd) = Len(fs) - 1,
         fs[Len(fs)].kind \in {"object", "array"}
  PROVE  /\ Good(K, Child(tr, nd, key), nd, fs, ls)
         /\ Good(K, Child(tr, nd, key), Append(nd, key), fs, ls)
<1>. DEFINE child == Append(nd, key)
            c == Child(tr, nd, key)
<1>0. nd \in Seq(K) /\ nd \in DOMAIN tr /\ DOMAIN tr \subseteq Seq(K)
  BY DEF Good
<1>1. ~Is(tr, nd, "null")
  <2>1. SubSeq(nd, 1, Len(fs) - 1) = nd
    BY <1>0, SubSeqFull
  <2>2. tr[SubSeq(nd, 1, Len(fs) - 1)].value.type = fs[Len(fs)].kind
    BY DEF Good
  <2>. QED  BY <2>1, <2>2 DEF Is
<1>2. c = IF child \in DOMAIN tr THEN tr
          ELSE [p \in DOMAIN tr \cup {child} |-> IF p = child THEN Leaf(Null) ELSE tr[p]]
  BY <1>1 DEF Child
<1>3. child \in Seq(K) /\ Len(child) = Len(nd) + 1
  BY <1>0, AppendProperties
<1>. HIDE DEF c
<1>4. DOMAIN c = DOMAIN tr \cup {child}
  BY <1>2
<1>5. \A p \in DOMAIN tr: c[p] = tr[p]
  BY <1>2
<1>6. \A p \in DOMAIN c: c[p] = [value |-> c[p].value, comments |-> c[p].comments]
  <2>1. TAKE p \in DOMAIN c
  <2>2. CASE p \in DOMAIN tr
    BY <1>5, <2>2 DEF Good
  <2>3. CASE p = child /\ child \notin DOMAIN tr
    <3>1. c[p] = Leaf(Null)
      BY <1>2, <2>3
    <3>. QED  BY <3>1 DEF Leaf
  <2>. QED  BY <1>4, <2>2, <2>3
<1>7. ASSUME NEW i \in 1..Len(fs)
      PROVE  /\ SubSeq(nd, 1, i - 1) \in DOMAIN c
             /\ c[SubSeq(nd, 1, i - 1)].value.type = fs[i].kind
             /\ SubSeq(child, 1, i - 1) = SubSeq(nd, 1, i - 1)
  <2>1. /\ SubSeq(nd, 1, i - 1) \in DOMAIN tr
        /\ tr[SubSeq(nd, 1, i - 1)].value.type = fs[i].kind
    BY DEF Good
  <2>2. i - 1 \in 0..Len(nd)
    OBVIOUS
  <2>3. SubSeq(child, 1, i - 1) = SubSeq(nd, 1, i - 1)
    <3>1. \A j \in 1..Len(nd): child[j] = nd[j]
      BY <1>0, AppendProperties
    <3>2. /\ Len(SubSeq(child, 1, i - 1)) = i - 1
          /\ \A j \in 1..(i - 1): SubSeq(child, 1, i - 1)[j] = child[j]
      BY <1>3, <2>2, SubSeqProperties
    <3>3. /\ Len(SubSeq(nd, 1, i - 1)) = i - 1
          /\ \A j \in 1..(i - 1): SubSeq(nd, 1, i - 1)[j] = nd[j]
      BY <1>0, <2>2, SubSeqProperties
    <3>4. SubSeq(child, 1, i - 1) \in Seq(K) /\ SubSeq(nd, 1, i - 1) \in Seq(K)
      BY <1>0, <1>3, <2>2, SubSeqProperties
    <3>. HIDE DEF child
    <3>. QED  BY <2>2, <3>1, <3>2, <3>3, <3>4, SeqEqual
  <2>. QED  BY <1>4, <1>5, <2>1, <2>3
<1>8. \/ ls = NOWHERE
      \/ ls \in DOMAIN c /\ Len(ls) <= Len(fs)
  BY <1>4 DEF Good
<1>. HIDE DEF child
<1>9. Good(K, c, nd, fs, ls) /\ Good(K, c, child, fs, ls)
  BY <1>0, <1>3, <1>4, <1>6, <1>7, <1>8 DEF Good
<1>. QED  BY <1>9 DEF c, child

\* A function is called: its Value is the last of the stack, and of its kind.
LEMMA CallGood ==
  ASSUME NEW K, NEW N, NEW tr, NEW nd, NEW fs \in Seq(Frame(N)), NEW ls, NEW frame \in Frame(N),
         Good(K, tr, nd, fs, ls), Len(nd) = Len(fs), Is(tr, nd, frame.kind)
  PROVE  Good(K, tr, nd, Append(fs, frame), ls)
<1>. DEFINE more == Append(fs, frame)
<1>1. /\ Len(more) = Len(fs) + 1 /\ more[Len(fs) + 1] = frame
      /\ \A i \in 1..Len(fs): more[i] = fs[i]
  BY AppendProperties
<1>2. nd \in Seq(K)
  BY DEF Good
<1>3. SubSeq(nd, 1, Len(fs)) = nd
  BY <1>2, SubSeqFull
<1>. HIDE DEF more
<1>4. ASSUME NEW i \in 1..Len(more)
      PROVE  /\ SubSeq(nd, 1, i - 1) \in DOMAIN tr
             /\ tr[SubSeq(nd, 1, i - 1)].value.type = more[i].kind
  <2>1. CASE i \in 1..Len(fs)
    BY <1>1, <2>1 DEF Good
  <2>2. CASE i = Len(fs) + 1
    <3>1. i - 1 = Len(fs)
      BY <2>2
    <3>. QED  BY <1>1, <1>3, <2>2, <3>1 DEF Good, Is
  <2>. QED  BY <1>1, <2>1, <2>2
<1>5. ls = NOWHERE \/ (ls \in DOMAIN tr /\ Len(ls) <= Len(more))
  BY <1>1 DEF Good
<1>6. Good(K, tr, nd, more, ls)
  BY <1>4, <1>5 DEF Good
<1>. QED  BY <1>6 DEF more

LEMMA FrameKinds == \A N: \A f \in Frame(N): f.kind \in {"object", "array"}
  BY DEF Frame

\* A Value is left: the function that filled what holds it goes on.
LEMMA ReturnGood ==
  ASSUME NEW K, NEW N, NEW path, NEW fs \in Seq(Frame(N)), NEW good \in BOOLEAN,
         Len(path) = Len(fs), Good(K, tree', path, fs, last'), Return(path, fs, good)
  PROVE  Position(N)' /\ Good(K, tree, node, frames, last)'
<1>1. frames' = fs /\ node' = Pop(path) /\ path \in Seq(K)
  BY DEF Return, Good
<1>2. pc' = IF fs = <<>> THEN "tail"
            ELSE IF ~good THEN "recover"
            ELSE IF fs[Len(fs)].kind = "object" THEN "comma" ELSE "separator"
  BY DEF Return
<1>3. CASE fs = <<>>
  <2>1. path = <<>>
    BY <1>1, <1>3, EmptySeq
  <2>2. node' = path
    BY <1>1, <2>1 DEF Pop
  <2>3. pc' = "tail"
    BY <1>2, <1>3
  <2>. QED  BY <1>1, <1>3, <2>1, <2>2, <2>3 DEF Position, Kinds
<1>4. CASE fs # <<>>
  <2>1. Len(fs) >= 1 /\ path # <<>>
    BY <1>1, <1>4, EmptySeq
  <2>2. node' = SubSeq(path, 1, Len(fs) - 1)
    BY <1>1, <2>1 DEF Pop
  <2>3. node' \in Seq(K) /\ Len(node') = Len(fs) - 1
    BY <1>1, <2>1, <2>2, SubSeqProperties
  <2>4. node' \in DOMAIN tree'
    BY <2>1, <2>2 DEF Good
  <2>5. ASSUME NEW i \in 1..Len(fs) PROVE SubSeq(node', 1, i - 1) = SubSeq(path, 1, i - 1)
    <3>1. i - 1 \in 0..Len(node')
      BY <2>3
    <3>2. /\ Len(SubSeq(node', 1, i - 1)) = i - 1
          /\ SubSeq(node', 1, i - 1) \in Seq(K)
          /\ \A j \in 1..(i - 1): SubSeq(node', 1, i - 1)[j] = node'[j]
      BY <2>3, <3>1, SubSeqProperties
    <3>3. /\ Len(SubSeq(path, 1, i - 1)) = i - 1
          /\ SubSeq(path, 1, i - 1) \in Seq(K)
          /\ \A j \in 1..(i - 1): SubSeq(path, 1, i - 1)[j] = path[j]
      BY <1>1, <3>1, <2>3, SubSeqProperties
    <3>4. \A j \in 1..Len(fs) - 1: node'[j] = path[j]
      BY <1>1, <2>1, <2>2, SubSeqProperties
    <3>. QED  BY <3>1, <3>2, <3>3, <3>4, <2>3, SeqEqual
  <2>6. Good(K, tree', node', fs, last')
    BY <2>4, <2>5 DEF Good
  <2>7. fs[Len(fs)] \in Frame(N)
    BY <2>1
  <2>8. /\ pc' \in {"recover", "comma", "separator"}
        /\ pc' = "comma" => fs[Len(fs)].kind = "object"
        /\ pc' = "separator" => fs[Len(fs)].kind = "array"
    BY <1>2, <1>4, <2>7, FrameKinds
  <2>9. Position(N)'
    BY <1>1, <2>1, <2>3, <2>8 DEF Position, Kinds, Top
  <2>. QED  BY <1>1, <2>6, <2>9
<1>. QED  BY <1>3, <1>4

LEMMA AssignedIs ==
  ASSUME NEW K, NEW N, NEW tr, NEW nd, NEW fs, NEW ls, NEW value, Good(K, tr, nd, fs, ls)
  PROVE  Assign(tr, nd, value)[nd].value = value
<1>1. nd \in DOMAIN tr \ Below(tr, nd)
  BY DEF Good, Below
<1>2. Assign(tr, nd, value)[nd] = [tr[nd] EXCEPT !.value = value]
  BY <1>1 DEF Assign
<1>3. tr[nd] = [value |-> tr[nd].value, comments |-> tr[nd].comments]
  BY DEF Good
<1>. QED  BY <1>2, <1>3

LEMMA ReadValueGood ==
  ASSUME NEW K, NEW N, NEW t, NEW path, NEW tr, NEW fs \in Seq(Frame(N)),
         ~collect => last = NOWHERE, Len(path) = Len(fs), Good(K, tr, path, fs, last),
         ReadValue(t, path, tr, fs)
  PROVE  /\ Position(N)' /\ Good(K, tree, node, frames, last)'
         /\ ~collect => last' = NOWHERE
<1>. DEFINE commented == IF collect /\ before THEN With(tr, path, "before") ELSE tr
<1>1. Good(K, commented, path, fs, last)
  <2>1. path \in DOMAIN tr
    BY DEF Good
  <2>. QED  BY <2>1, WithGood
<1>2. ASSUME NEW frame \in Frame(N), NEW at \in {"name", "first"},
             at = "name" <=> frame.kind = "object", at = "first" => frame.index = 0,
             tree' = Assign(commented, path, [type |-> frame.kind]),
             frames' = Append(fs, frame), pc' = at, node' = path, UNCHANGED last
      PROVE  /\ Position(N)' /\ Good(K, tree, node, frames, last)'
             /\ ~collect => last' = NOWHERE
  <2>. HIDE DEF commented
  <2>1. Good(K, tree', path, fs, last)
    BY <1>1, <1>2, AssignGood
  <2>2. Is(tree', path, frame.kind)
    <3>1. tree'[path].value = [type |-> frame.kind]
      BY <1>1, <1>2, AssignedIs
    <3>. QED  BY <3>1 DEF Is
  <2>3. Good(K, tree', path, Append(fs, frame), last)
    BY <2>1, <2>2, CallGood
  <2>4. /\ frames' \in Seq(Frame(N)) /\ Len(frames') = Len(fs) + 1
        /\ frames'[Len(frames')] = frame
    BY <1>2, AppendProperties
  <2>5. frame.kind = "object" \/ frame.kind = "array"
    BY FrameKinds
  <2>6. pc' = "name" => frame.kind = "object"
    BY <1>2
  <2>7. pc' = "first" => frame.kind = "array"
    BY <1>2, <2>5
  <2>8. Len(fs) \in Nat
    OBVIOUS
  <2>9. Position(N)'
    BY <1>2, <2>4, <2>6, <2>7, <2>8 DEF Position, Kinds, Top
  <2>. QED  BY <1>2, <2>3, <2>9
<1>3. CASE t.type = "objectBegin"
  <2>. DEFINE frame == [kind |-> "object", name |-> <<>>]
  <2>1. frame \in Frame(N)
    BY DEF Frame
  <2>2. /\ tree' = Assign(commented, path, Object)
        /\ frames' = Append(fs, frame) /\ pc' = "name" /\ node' = path /\ UNCHANGED last
    BY <1>3 DEF ReadValue
  <2>3. Object = [type |-> frame.kind] /\ frame.kind = "object"
    BY DEF Object
  <2>. HIDE DEF frame, commented
  <2>. QED  BY <1>2, <2>1, <2>2, <2>3
<1>4. CASE t.type = "arrayBegin"
  <2>. DEFINE frame == [kind |-> "array", index |-> 0]
  <2>1. frame \in Frame(N)
    BY DEF Frame
  <2>2. /\ tree' = Assign(commented, path, Array)
        /\ frames' = Append(fs, frame) /\ pc' = "first" /\ node' = path /\ UNCHANGED last
    BY <1>4 DEF ReadValue
  <2>3. Array = [type |-> frame.kind] /\ frame.kind = "array" /\ frame.index = 0
    BY DEF Array
  <2>. HIDE DEF frame, commented
  <2>. QED  BY <1>2, <2>1, <2>2, <2>3
<1>5. ASSUME NEW good \in BOOLEAN, NEW value,
             tree' \in {commented, Assign(commented, path, value)},
             Left(path) \/ UNCHANGED last, Return(path, fs, good)
      PROVE  /\ Position(N)' /\ Good(K, tree, node, frames, last)'
             /\ ~collect => last' = NOWHERE
  <2>. HIDE DEF commented
  <2>1. Good(K, tree', path, fs, last)
    BY <1>1, <1>5, AssignGood
  <2>2. last' = last \/ (collect /\ last' = path)
    BY <1>5 DEF Left
  <2>3. Good(K, tree', path, fs, last')
    BY <2>1, <2>2 DEF Good
  <2>4. ~collect => last' = NOWHERE
    BY <2>2
  <2>5. Position(N)' /\ Good(K, tree, node, frames, last)'
    BY <1>5, <2>3, ReturnGood
  <2>. QED  BY <2>4, <2>5
<1>6. CASE t.type \notin {"objectBegin", "arrayBegin"} /\ t.type \in {"number", "string", "literal"}
  <2>. DEFINE good == Scalar(t) # Failed
  <2>1. /\ tree' = IF Scalar(t) = Failed THEN commented
                   ELSE Assign(commented, path, Scalar(t))
        /\ Left(path) /\ Return(path, fs, good)
    BY <1>6 DEF ReadValue
  <2>3. good \in BOOLEAN
    OBVIOUS
  <2>2. tree' \in {commented, Assign(commented, path, Scalar(t))}
    BY <2>1
  <2>. HIDE DEF commented, good
  <2>. QED  BY <1>5, <2>1, <2>2, <2>3
<1>7. CASE t.type \notin {"objectBegin", "arrayBegin"} /\ t.type \notin {"number", "string", "literal"}
  <2>1. tree' = commented /\ UNCHANGED last /\ Return(path, fs, FALSE)
    BY <1>7 DEF ReadValue, UnexpectedToken
  <2>. HIDE DEF commented
  <2>. QED  BY <1>5, <2>1
<1>. QED  BY <1>3, <1>4, <1>6, <1>7

\* A key or a name more does no harm.
LEMMA MoreKeys ==
  ASSUME NEW K, NEW key, NEW tr, NEW nd, NEW fs, NEW ls, Good(K, tr, nd, fs, ls)
  PROVE  Good(K \cup {key}, tr, nd, fs, ls)
<1>1. Seq(K) \subseteq Seq(K \cup {key})
  BY SeqMonotonic
<1>. QED  BY <1>1 DEF Good

LEMMA MoreNames ==
  ASSUME NEW N, NEW name
  PROVE  Seq(Frame(N)) \subseteq Seq(Frame(N \cup {name}))
<1>1. Frame(N) \subseteq Frame(N \cup {name})
  BY DEF Frame
<1>. QED  BY <1>1, SeqMonotonic

LEMMA NodesStep == NodesInv /\ [Next]_vars => NodesInv'
<1>. SUFFICES ASSUME NodesInv, [Next]_vars PROVE NodesInv'
  OBVIOUS
<1>0. PICK K, N: Position(N) /\ Good(K, tree, node, frames, last)
  BY DEF NodesInv
<1>1. /\ mode \in Modes /\ given \in BOOLEAN
      /\ ~collect => last = NOWHERE
      /\ Position(N) /\ Good(K, tree, node, frames, last)
      /\ frames \in Seq(Frame(N))
  BY <1>0 DEF NodesInv, Position
<1>2. ASSUME NEW t, Read(t), NEW K_1, NEW N_1, Position(N_1)', Good(K_1, tree, node, frames, last)',
             ~collect => last' = NOWHERE
      PROVE  NodesInv'
  BY <1>1, <1>2 DEF Read, NodesInv, collect
<1>3. ASSUME NEW t, Skip(t), Read(t) PROVE NodesInv'
  <2>1. UNCHANGED <<pc, frames, node, last>>
    BY <1>3 DEF Skip
  <2>2. Good(K, tree', node, frames, last)
    BY <1>1, <1>3, AddCommentGood DEF Skip
  <2>3. Position(N)'
    BY <1>1, <2>1 DEF Position, Top
  <2>. QED  BY <1>1, <1>2, <1>3, <2>1, <2>2, <2>3
<1>4. ASSUME NEW t, Read(t), NEW good \in BOOLEAN, ReturnContainer(good), UNCHANGED tree,
             pc \notin {"value", "tail", "done"}
      PROVE  NodesInv'
  <2>. DEFINE fs == Pop(frames)
  <2>1. Len(frames) >= 1 /\ Len(node) = Len(frames) - 1
    BY <1>1, <1>4 DEF Position
  <2>2. fs = SubSeq(frames, 1, Len(frames) - 1)
    BY <1>1, <2>1, EmptySeq DEF Pop
  <2>3. /\ fs \in Seq(Frame(N)) /\ Len(fs) = Len(frames) - 1
        /\ \A i \in 1..Len(fs): fs[i] = frames[i]
    BY <1>1, <2>1, <2>2, SubSeqProperties
  <2>4. Left(node) /\ Return(node, fs, good)
    BY <1>4 DEF ReturnContainer
  <2>. HIDE DEF fs
  <2>5. last' = NOWHERE \/ last' = node
    BY <1>1, <2>4 DEF Left
  <2>6. node \in DOMAIN tree
    BY <1>1 DEF Good
  <2>7. Good(K, tree, node, fs, last')
    BY <1>1, <2>1, <2>3, <2>5, <2>6 DEF Good
  <2>8. Position(N)' /\ Good(K, tree, node, frames, last)'
    BY <1>4, <2>1, <2>3, <2>4, <2>7, ReturnGood
  <2>9. ~collect => last' = NOWHERE
    BY <1>1, <2>4 DEF Left
  <2>. QED  BY <1>2, <1>4, <2>8, <2>9
<1>5. ASSUME NEW t, Read(t), UNCHANGED <<frames, node, tree, last>>,
             pc \notin {"value", "tail", "done"}, pc' = "recover"
      PROVE  NodesInv'
  <2>1. Position(N)'
    BY <1>1, <1>5 DEF Position, Kinds, Top
  <2>. QED  BY <1>1, <1>2, <1>5, <2>1
<1>6. ASSUME NEW t, Read(t), UNCHANGED <<frames, node, tree, last>>,
             pc \in {"comma", "commented"}, pc' = "name"
      PROVE  NodesInv'
  <2>1. Position(N)'
    BY <1>1, <1>6 DEF Position, Kinds, Top
  <2>. QED  BY <1>1, <1>2, <1>6, <2>1
<1>8. CASE Value
  <2>1. PICK t \in Offered:
          /\ Read(t)
          /\ \/ Skip(t)
             \/ ReadValue(t, node, tree, frames)
    BY <1>8 DEF Value
  <2>2. Len(node) = Len(frames)
    BY <1>1, <1>8 DEF Position, Value
  <2>. QED  BY <1>1, <1>2, <1>3, <2>1, <2>2, ReadValueGood
<1>9. CASE NameOrEnd
  <2>1. pc = "name" /\ Len(frames) >= 1 /\ Len(node) = Len(frames) - 1 /\ Top.kind = "object"
    BY <1>1, <1>9 DEF Position, NameOrEnd
  <2>2. PICK t \in Offered:
          /\ Read(t)
          /\ \/ Skip(t)
             \/ ReturnContainer(TRUE) /\ UNCHANGED tree
             \/ /\ t.type = "string"
                /\ frames' = [frames EXCEPT ![Len(frames)].name = DecodeString(t).text]
                /\ pc' = "colon"
                /\ UNCHANGED <<node, tree, last>>
             \/ AddErrorAndRecover
    BY <1>9 DEF NameOrEnd
  <2>3. CASE /\ t.type = "string"
             /\ frames' = [frames EXCEPT ![Len(frames)].name = DecodeString(t).text]
             /\ pc' = "colon"
             /\ UNCHANGED <<node, tree, last>>
    <3>. DEFINE frame == [kind |-> "object", name |-> DecodeString(t).text]
                M == N \cup {DecodeString(t).text}
    <3>1. frame \in Frame(M)
      BY DEF Frame
    <3>9. frames \in Seq(Frame(M))
      BY <1>1, MoreNames
    <3>2. Top \in Frame(N)
      BY <1>1, <2>1 DEF Top
    <3>3. Top = [kind |-> "object", name |-> Top.name]
      BY <2>1, <3>2 DEF Frame
    <3>4. frames' = [frames EXCEPT ![Len(frames)] = frame]
      <4>1. [Top EXCEPT !.name = DecodeString(t).text] = frame
        BY <3>3
      <4>. HIDE DEF frame
      <4>. QED  BY <2>3, <4>1 DEF Top
    <3>5. frame.kind = "object"
      OBVIOUS
    <3>. HIDE DEF frame, M
    <3>6. /\ frames' \in Seq(Frame(M)) /\ Len(frames') = Len(frames)
          /\ frames'[Len(frames)] = frame
          /\ \A i \in 1..Len(frames): frames'[i].kind = frames[i].kind
      BY <3>9, <2>1, <3>1, <3>4, <3>5, ExceptSeq DEF Top
    <3>7. Position(M)'
      BY <2>1, <2>3, <3>5, <3>6 DEF Position, Kinds, Top
    <3>8. Good(K, tree, node, frames, last)'
      BY <1>1, <2>3, <3>6 DEF Good
    <3>. QED  BY <1>1, <1>2, <2>2, <2>3, <3>7, <3>8
  <2>. QED  BY <1>3, <1>4, <1>5, <2>1, <2>2, <2>3 DEF AddErrorAndRecover
<1>10. CASE Colon
  <2>1. pc = "colon" /\ Len(frames) >= 1 /\ Len(node) = Len(frames) - 1 /\ Top.kind = "object"
    BY <1>1, <1>10 DEF Position, Colon
  <2>. DEFINE key == Name(Top.name)
  <2>2. PICK t \in Offered:
          /\ Read(t)
          /\ \/ /\ tree' = Child(tree, node, key) /\ node' = Append(node, key)
                /\ pc' = "value" /\ UNCHANGED <<frames, last>>
             \/ /\ AddComment(t, tree) /\ pc' = "recover"
                /\ UNCHANGED <<frames, node, last>>
             \/ AddErrorAndRecover
    BY <1>10 DEF Colon
  <2>3. CASE /\ tree' = Child(tree, node, key) /\ node' = Append(node, key)
             /\ pc' = "value" /\ UNCHANGED <<frames, last>>
    <3>. DEFINE L == K \cup {key}
    <3>. HIDE DEF key
    <3>1. key \in L
      OBVIOUS
    <3>2. Good(L, tree, node, frames, last)
      BY <1>1, MoreKeys
    <3>. HIDE DEF L
    <3>4. Good(L, tree', node', frames, last)
      BY <1>1, <2>1, <2>3, <3>1, <3>2, ChildGood DEF Top
    <3>5. Len(node') = Len(frames)
      <4>1. node \in Seq(L)
        BY <3>2 DEF Good
      <4>. QED  BY <2>1, <2>3, <3>1, <4>1, AppendProperties
    <3>6. Position(N)'
      BY <1>1, <2>3, <3>5 DEF Position, Kinds
    <3>. QED  BY <1>1, <1>2, <2>2, <2>3, <3>4, <3>6
  <2>4. CASE AddComment(t, tree) /\ pc' = "recover" /\ UNCHANGED <<frames, node, last>>
    <3>1. Good(K, tree', node, frames, last)
      BY <1>1, <2>4, AddCommentGood
    <3>2. Position(N)'
      BY <1>1, <2>1, <2>4 DEF Position, Kinds, Top
    <3>. QED  BY <1>1, <1>2, <2>2, <2>4, <3>1, <3>2
  <2>. QED  BY <1>5, <2>1, <2>2, <2>3, <2>4 DEF AddErrorAndRecover
<1>11. CASE Comma
  <2>1. pc = "comma"
    BY <1>11 DEF Comma
  <2>2. PICK t \in Offered:
          /\ Read(t)
          /\ \/ AddComment(t, tree) /\ pc' = "commented" /\ UNCHANGED <<frames, node, last>>
             \/ AfterMember(t)
    BY <1>11 DEF Comma
  <2>3. CASE AddComment(t, tree) /\ pc' = "commented" /\ UNCHANGED <<frames, node, last>>
    <3>1. Good(K, tree', node, frames, last)
      BY <1>1, <2>3, AddCommentGood
    <3>2. Position(N)'
      BY <1>1, <2>1, <2>3 DEF Position, Kinds, Top
    <3>. QED  BY <1>1, <1>2, <2>2, <2>3, <3>1, <3>2
  <2>. QED  BY <1>4, <1>5, <1>6, <2>1, <2>2, <2>3 DEF AfterMember, AddErrorAndRecover
<1>12. CASE CommaAfterComment
  BY <1>3, <1>4, <1>6, <1>12 DEF CommaAfterComment
<1>13. CASE First
  <2>1. pc = "first" /\ Len(frames) >= 1 /\ Len(node) = Len(frames) - 1 /\ Top.kind = "array"
    BY <1>1, <1>13 DEF Position, First
  <2>. DEFINE tr == Child(tree, node, Index(0))
  <2>2. PICK t \in Offered:
          /\ Read(t)
          /\ \/ ReturnContainer(TRUE) /\ UNCHANGED tree
             \/ /\ AddComment(t, tr) /\ node' = Element /\ pc' = "value"
                /\ UNCHANGED <<frames, last>>
             \/ ReadValue(t, Element, tr, frames)
    BY <1>13 DEF First
  <2>3. Top.index = 0
    BY <1>1, <1>13 DEF Position, First
  <2>. DEFINE key == Index(0)
              L == K \cup {key}
  <2>5. Element = Append(node, key)
    BY <2>3 DEF Element
  <2>. HIDE DEF key
  <2>4. key \in L /\ Good(L, tree, node, frames, last)
    BY <1>1, MoreKeys
  <2>. HIDE DEF L
  <2>6. Good(L, Child(tree, node, key), Element, frames, last)
    BY <1>1, <2>1, <2>4, <2>5, ChildGood DEF Top
  <2>7. Good(L, tr, Element, frames, last)
    BY <2>6 DEF key
  <2>8. Len(Element) = Len(frames)
    <3>1. node \in Seq(L)
      BY <2>4 DEF Good
    <3>. QED  BY <2>1, <2>4, <2>5, <3>1, AppendProperties
  <2>. HIDE DEF tr
  <2>9. CASE /\ AddComment(t, tr) /\ node' = Element /\ pc' = "value"
             /\ UNCHANGED <<frames, last>>
    <3>1. Good(L, tree', Element, frames, last)
      BY <1>1, <2>7, <2>9, AddCommentGood
    <3>2. Position(N)'
      BY <1>1, <2>8, <2>9 DEF Position, Kinds
    <3>. QED  BY <1>1, <1>2, <2>2, <2>9, <3>1, <3>2
  <2>10. CASE ReadValue(t, Element, tr, frames)
    BY <1>1, <1>2, <2>2, <2>7, <2>8, <2>10, ReadValueGood
  <2>. QED  BY <1>4, <2>1, <2>2, <2>9, <2>10
<1>14. CASE Separator
  <2>1. pc = "separator" /\ Len(frames) >= 1 /\ Len(node) = Len(frames) - 1 /\ Top.kind = "array"
    BY <1>1, <1>14 DEF Position, Separator
  <2>. DEFINE next == Index(Top.index + 1)
  <2>2. PICK t \in Offered:
          /\ Read(t)
          /\ \/ Skip(t)
             \/ ReturnContainer(TRUE) /\ UNCHANGED tree
             \/ /\ frames' = [frames EXCEPT ![Len(frames)].index = @ + 1]
                /\ tree' = Child(tree, node, next)
                /\ node' = Append(node, next)
                /\ pc' = "value"
                /\ UNCHANGED last
             \/ AddErrorAndRecover
    BY <1>14 DEF Separator
  <2>3. CASE /\ frames' = [frames EXCEPT ![Len(frames)].index = @ + 1]
             /\ tree' = Child(tree, node, next)
             /\ node' = Append(node, next)
             /\ pc' = "value"
             /\ UNCHANGED last
    <3>. DEFINE frame == [kind |-> "array", index |-> Top.index + 1]
    <3>1. Top \in Frame(N)
      BY <1>1, <2>1 DEF Top
    <3>2. Top.index \in Nat /\ Top = [kind |-> "array", index |-> Top.index]
      BY <2>1, <3>1 DEF Frame
    <3>3. frame \in Frame(N) /\ frame.kind = "array"
      BY <3>2 DEF Frame
    <3>4. frames' = [frames EXCEPT ![Len(frames)] = frame]
      <4>1. [Top EXCEPT !.index = Top.index + 1] = frame
        BY <3>2
      <4>. HIDE DEF frame
      <4>. QED  BY <2>3, <4>1 DEF Top
    <3>. HIDE DEF frame, next
    <3>5. PICK L : next \in L /\ Good(L, tree, node, frames, last)
      BY <1>1, MoreKeys
    <3>6. /\ frames' \in Seq(Frame(N)) /\ Len(frames') = Len(frames)
          /\ \A i \in 1..Len(frames): frames'[i].kind = frames[i].kind
      BY <1>1, <2>1, <3>3, <3>4, ExceptSeq DEF Top
    <3>7. Good(L, tree', node', frames, last)
      BY <1>1, <2>1, <2>3, <3>5, ChildGood DEF Top
    <3>8. Good(L, tree, node, frames, last)'
      BY <2>3, <3>6, <3>7 DEF Good
    <3>9. Len(node') = Len(frames)
      <4>1. node \in Seq(L)
        BY <3>5 DEF Good
      <4>. QED  BY <2>1, <2>3, <3>5, <4>1, AppendProperties
    <3>10. Position(N)'
      BY <2>3, <3>6, <3>9 DEF Position, Kinds
    <3>. QED  BY <1>1, <1>2, <2>2, <2>3, <3>8, <3>10
  <2>. QED  BY <1>3, <1>4, <1>5, <2>1, <2>2, <2>3 DEF AddErrorAndRecover
<1>15. CASE Recover
  <2>1. pc = "recover"
    BY <1>15 DEF Recover
  <2>2. PICK t \in Offered:
          /\ Read(t)
          /\ \/ ReturnContainer(FALSE) /\ UNCHANGED tree
             \/ Skip(t)
             \/ UNCHANGED <<pc, frames, node, tree, last>>
    BY <1>15 DEF Recover
  <2>3. CASE UNCHANGED <<pc, frames, node, tree, last>>
    BY <1>5, <2>1, <2>2, <2>3
  <2>. QED  BY <1>3, <1>4, <2>1, <2>2, <2>3
<1>16. CASE Finish
  <2>1. pc = "tail" /\ frames = <<>> /\ node = <<>>
    BY <1>1, <1>16 DEF Position, Finish
  <2>2. PICK t \in Offered:
          /\ Read(t)
          /\ \/ Skip(t)
             \/ /\ tree' = IF collect /\ before THEN With(tree, ROOT, "after") ELSE tree
                /\ pc' = "done" /\ UNCHANGED <<frames, node, last>>
    BY <1>16 DEF Finish
  <2>3. CASE /\ tree' = IF collect /\ before THEN With(tree, ROOT, "after") ELSE tree
             /\ pc' = "done" /\ UNCHANGED <<frames, node, last>>
    <3>1. ROOT \in DOMAIN tree
      BY <1>1, <2>1 DEF Good, ROOT
    <3>2. Good(K, tree', node, frames, last)
      BY <1>1, <2>3, <3>1, WithGood
    <3>3. Position(N)'
      BY <1>1, <2>1, <2>3 DEF Position, Kinds
    <3>. QED  BY <1>1, <1>2, <2>2, <2>3, <3>2, <3>3
  <2>. QED  BY <1>3, <2>2, <2>3
<1>17. CASE UNCHANGED vars
  BY <1>17 DEF vars, inputVars, NodesInv, Position, Good, Top, collect
<1>. QED  BY <1>8, <1>9, <1>10, <1>11, <1>12, <1>13, <1>14, <1>15, <1>16, <1>17 DEF Next

-----------------------------------------------------------------------------
(* The program *)

\* A tree that no function fills.
Rooted(K, tr) == Good(K, tr, <<>>, <<>>, NOWHERE)

LEMMA RootedTree ==
  ASSUME NEW K, NEW tr
  PROVE  Rooted(K, tr) <=> /\ DOMAIN tr \subseteq Seq(K) /\ <<>> \in DOMAIN tr
                           /\ \A p \in DOMAIN tr: tr[p] = [value |-> tr[p].value,
                                                           comments |-> tr[p].comments]
<1>1. Len(<<>>) = 0 /\ 1..0 = {}
  OBVIOUS
<1>. QED  BY <1>1 DEF Rooted, Good

\* What is below a path is not the root.
LEMMA NotTheRoot ==
  ASSUME NEW K, NEW path \in Seq(K), path # <<>>
  PROVE  ~IsPrefix(path, <<>>)
<1>1. Len(path) > 0 /\ Len(<<>>) = 0
  BY EmptySeq
<1>. QED  BY <1>1 DEF IsPrefix

LEMMA RootedAssign ==
  ASSUME NEW K, NEW tr, NEW path \in Seq(K), NEW value, Rooted(K, tr)
  PROVE  Rooted(K, Assign(tr, path, value))
<1>. DEFINE a == Assign(tr, path, value)
<1>1. /\ DOMAIN tr \subseteq Seq(K) /\ <<>> \in DOMAIN tr
      /\ \A p \in DOMAIN tr: tr[p] = [value |-> tr[p].value, comments |-> tr[p].comments]
  BY RootedTree
<1>2. DOMAIN a = DOMAIN tr \ Below(tr, path)
  BY DEF Assign
<1>3. <<>> \in DOMAIN a
  BY <1>1, <1>2, NotTheRoot DEF Below
<1>4. ASSUME NEW p \in DOMAIN a PROVE a[p] = [value |-> a[p].value, comments |-> a[p].comments]
  <2>1. tr[p] = [value |-> tr[p].value, comments |-> tr[p].comments]
    BY <1>1, <1>2
  <2>2. a[p] = IF p = path THEN [tr[p] EXCEPT !.value = value] ELSE tr[p]
    BY <1>2 DEF Assign
  <2>. HIDE DEF a
  <2>. QED  BY <2>1, <2>2
<1>. HIDE DEF a
<1>5. Rooted(K, a)
  BY <1>1, <1>2, <1>3, <1>4, RootedTree
<1>. QED  BY <1>5 DEF a

LEMMA RootedChild ==
  ASSUME NEW K, NEW tr, NEW key \in K, Rooted(K, tr)
  PROVE  Rooted(K, Child(tr, ROOT, key))
<1>. DEFINE child == Append(ROOT, key)
            assigned == Assign(tr, ROOT, IF "index" \in DOMAIN key THEN Array ELSE Object)
            box == IF Is(tr, ROOT, "null") THEN assigned ELSE tr
            c == [p \in DOMAIN box \cup {child} |-> IF p = child THEN Leaf(Null) ELSE box[p]]
<1>1. ROOT \in Seq(K) /\ child \in Seq(K)
  BY EmptySeq, AppendProperties DEF ROOT
<1>2. Rooted(K, box)
  BY <1>1, RootedAssign
<1>3. Child(tr, ROOT, key) = IF child \in DOMAIN tr THEN tr ELSE c
  BY DEF Child
<1>. HIDE DEF child, box
<1>4. /\ DOMAIN box \subseteq Seq(K) /\ <<>> \in DOMAIN box
      /\ \A p \in DOMAIN box: box[p] = [value |-> box[p].value, comments |-> box[p].comments]
  BY <1>2, RootedTree
<1>5. /\ DOMAIN c \subseteq Seq(K) /\ <<>> \in DOMAIN c
      /\ \A p \in DOMAIN c: c[p] = [value |-> c[p].value, comments |-> c[p].comments]
  BY <1>1, <1>4 DEF Leaf
<1>. HIDE DEF c
<1>6. Rooted(K, c)
  BY <1>5, RootedTree
<1>. QED  BY <1>3, <1>6

LEMMA RootedWithout ==
  ASSUME NEW K, NEW tr, NEW paths, \A r \in paths: r \in Seq(K) /\ r # <<>>, Rooted(K, tr)
  PROVE  Rooted(K, Without(tr, paths))
<1>. DEFINE w == Without(tr, paths)
<1>1. /\ DOMAIN tr \subseteq Seq(K) /\ <<>> \in DOMAIN tr
      /\ \A p \in DOMAIN tr: tr[p] = [value |-> tr[p].value, comments |-> tr[p].comments]
  BY RootedTree
<1>2. /\ DOMAIN w \subseteq DOMAIN tr
      /\ \A p \in DOMAIN w: w[p] = tr[p]
  BY DEF Without
<1>3. <<>> \in DOMAIN w
  BY <1>1, NotTheRoot DEF Without
<1>. HIDE DEF w
<1>4. Rooted(K, w)
  BY <1>1, <1>2, <1>3, RootedTree
<1>. QED  BY <1>4 DEF w

LEMMA RootedClear ==
  ASSUME NEW K, NEW tr, Rooted(K, tr)
  PROVE  /\ Rooted(K, Clear(tr, ROOT))
         /\ \A gone \in SUBSET Children(tr, ROOT): Rooted(K, Without(tr, gone))
<1>1. DOMAIN tr \subseteq Seq(K)
  BY RootedTree
<1>2. \A r \in Children(tr, ROOT): r \in Seq(K) /\ r # <<>>
  BY <1>1 DEF Children, Below, ROOT
<1>. QED  BY <1>2, RootedWithout DEF Clear

LEMMA RootedResize ==
  ASSUME NEW K, NEW tr, NEW n, Rooted(K, tr)
  PROVE  \E L: Rooted(L, Resize(tr, ROOT, n))
<1>. DEFINE array == IF Is(tr, ROOT, "null") THEN Assign(tr, ROOT, Array) ELSE tr
            key == Index(n - 1)
            high == {p \in Children(array, ROOT): Last(p).index >= n}
            L == K \cup {key}
<1>1. ROOT \in Seq(K)
  BY EmptySeq DEF ROOT
<1>2. Rooted(K, array)
  BY <1>1, RootedAssign
<1>3. \/ Resize(tr, ROOT, n) = Clear(array, ROOT)
      \/ Resize(tr, ROOT, n) = Child(array, ROOT, key)
      \/ Resize(tr, ROOT, n) = Without(array, high)
  BY DEF Resize
<1>. HIDE DEF array
<1>4. high \in SUBSET Children(array, ROOT)
  OBVIOUS
<1>. HIDE DEF key, high
<1>5. Rooted(K, Clear(array, ROOT)) /\ Rooted(K, Without(array, high))
  BY <1>2, <1>4, RootedClear
<1>6. Rooted(L, array) /\ key \in L
  BY <1>2, MoreKeys DEF Rooted
<1>. HIDE DEF L
<1>7. Rooted(L, Child(array, ROOT, key))
  BY <1>6, RootedChild
<1>. QED  BY <1>3, <1>5, <1>7

\* Between two parses no function is on the stack, and lastValue_ is 0.
ProgramInv ==
  /\ ErrorInv /\ NodesInv
  /\ phase \in {"edit", "aborted"} => pc = "done" /\ last = NOWHERE

\* The program changes the root only.
LEMMA EditStep ==
  ASSUME ProgramInv, NEW allowed, NEW result, Edit(allowed, result),
         \A K: Rooted(K, tree) => \E L: Rooted(L, result)
  PROVE  ProgramInv'
<1>1. /\ phase = "edit" /\ UNCHANGED <<inputVars, pc, frames, node, before, last, errors, ok>>
      /\ \/ tree' = result /\ phase' = phase
         \/ tree' = tree /\ phase' = "aborted"
  BY DEF Edit
<1>2. pc = "done" /\ last = NOWHERE
  BY <1>1 DEF ProgramInv
<1>3. PICK K, N: Position(N) /\ Good(K, tree, node, frames, last)
  BY DEF ProgramInv, NodesInv
<1>4. frames = <<>> /\ node = <<>>
  BY <1>2, <1>3 DEF Position
<1>5. Rooted(K, tree)
  BY <1>2, <1>3, <1>4 DEF Rooted
<1>6. PICK L: Rooted(L, tree')
  BY <1>1, <1>5
<1>7. Good(L, tree', node', frames', last')
  BY <1>1, <1>2, <1>4, <1>6 DEF Rooted
<1>8. Position(N)'
  BY <1>1, <1>3 DEF Position, Top
<1>9. NodesInv'
  <2>1. /\ mode' \in Modes /\ given' \in BOOLEAN
        /\ ~collect' => last' = NOWHERE
    BY <1>1 DEF ProgramInv, NodesInv, inputVars, collect
  <2>2. Good(L, tree, node, frames, last)'
    BY <1>7
  <2>. QED  BY <1>8, <2>1, <2>2 DEF NodesInv
<1>10. ErrorInv'
  BY <1>1 DEF ProgramInv, ErrorInv
<1>. QED  BY <1>1, <1>2, <1>9, <1>10 DEF ProgramInv

LEMMA ProgramStep == ProgramInv /\ [JsonNext]_allVars => ProgramInv'
<1>. SUFFICES ASSUME ProgramInv, [JsonNext]_allVars PROVE ProgramInv'
  OBVIOUS
<1>1. CASE Parse
  <2>1. phase \in {"parse", "reparse"} /\ Next /\ phase' = phase
    BY <1>1 DEF Parse, programVars
  <2>2. ErrorInv'
    BY <2>1, ErrorStep DEF ProgramInv
  <2>3. NodesInv'
    BY <2>1, NodesStep DEF ProgramInv
  <2>. QED  BY <2>1, <2>2, <2>3 DEF ProgramInv
<1>2. PICK K, N: Position(N) /\ Good(K, tree, node, frames, last)
  BY DEF ProgramInv, NodesInv
<1>3. CASE Parsed
  <2>1. /\ pc = "done" /\ last' = NOWHERE /\ before' = FALSE
        /\ UNCHANGED <<mode, given, pc, frames, node, tree, errors, ok>>
    BY <1>3 DEF Parsed
  <2>2. ErrorInv'
    BY <2>1 DEF ProgramInv, ErrorInv
  <2>3. Position(N)'
    BY <1>2, <2>1 DEF Position, Top
  <2>4. Good(K, tree, node, frames, last)'
    BY <1>2, <2>1 DEF Good
  <2>5. NodesInv'
    BY <2>1, <2>3, <2>4 DEF ProgramInv, NodesInv
  <2>. QED  BY <2>1, <2>2, <2>5 DEF ProgramInv
<1>4. CASE SetMember
  <2>1. PICK k \in Keys, v \in NewValues:
          Edit(IsObject(tree, ROOT), Assign(Child(tree, ROOT, Name(k)), <<Name(k)>>, v))
    BY <1>4 DEF SetMember
  <2>. DEFINE key == Name(k)
  <2>. HIDE DEF key
  <2>2. ASSUME NEW J, Rooted(J, tree)
        PROVE  \E L: Rooted(L, Assign(Child(tree, ROOT, key), <<key>>, v))
    <3>. DEFINE L == J \cup {key}
    <3>1. key \in L /\ Rooted(L, tree)
      BY <2>2, MoreKeys DEF Rooted
    <3>. HIDE DEF L
    <3>2. <<key>> \in Seq(L) /\ Rooted(L, Child(tree, ROOT, key))
      BY <3>1, RootedChild
    <3>. QED  BY <3>2, RootedAssign
  <2>. QED  BY <2>1, <2>2, EditStep DEF key
<1>5. CASE RemoveKey
  <2>1. PICK k \in Keys: Edit(IsObject(tree, ROOT), RemoveMember(tree, ROOT, Name(k)))
    BY <1>5 DEF RemoveKey
  <2>. DEFINE key == Name(k)
  <2>. HIDE DEF key
  <2>2. ASSUME NEW J, Rooted(J, tree)
        PROVE  \E L: Rooted(L, RemoveMember(tree, ROOT, key))
    <3>. DEFINE L == J \cup {key}
                path == Append(ROOT, key)
    <3>1. key \in L /\ Rooted(L, tree)
      BY <2>2, MoreKeys DEF Rooted
    <3>. HIDE DEF L
    <3>2. ROOT \in Seq(L) /\ Len(ROOT) = 0
      BY EmptySeq DEF ROOT
    <3>3. path \in Seq(L) /\ Len(path) = 1
      BY <3>1, <3>2, AppendProperties
    <3>. HIDE DEF path
    <3>4. path \in Seq(L) /\ path # <<>>
      BY <3>3
    <3>5. Rooted(L, Without(tree, {path}))
      BY <3>1, <3>4, RootedWithout
    <3>. QED  BY <3>5 DEF RemoveMember, path
  <2>. QED  BY <2>1, <2>2, EditStep DEF key
<1>6. CASE AppendValue
  <2>1. PICK v \in NewValues: Edit(IsArray(tree, ROOT), AppendTo(tree, ROOT, v))
    BY <1>6 DEF AppendValue
  <2>2. ASSUME NEW J, Rooted(J, tree)
        PROVE  \E L: Rooted(L, AppendTo(tree, ROOT, v))
    <3>. DEFINE key == Index(Size(tree, ROOT))
                L == J \cup {key}
    <3>. HIDE DEF key
    <3>1. key \in L /\ Rooted(L, tree)
      BY <2>2, MoreKeys DEF Rooted
    <3>. HIDE DEF L
    <3>2. ROOT \in Seq(L)
      BY EmptySeq DEF ROOT
    <3>3. Append(ROOT, key) \in Seq(L) /\ Rooted(L, Child(tree, ROOT, key))
      BY <3>1, <3>2, RootedChild, AppendProperties
    <3>4. Rooted(L, Assign(Child(tree, ROOT, key), Append(ROOT, key), v))
      BY <3>3, RootedAssign
    <3>. QED  BY <3>4 DEF AppendTo, key
  <2>. QED  BY <2>1, <2>2, EditStep
<1>7. CASE ResizeRoot
  BY <1>7, RootedResize, EditStep DEF ResizeRoot
<1>8. CASE ClearRoot
  BY <1>8, RootedClear, EditStep DEF ClearRoot
<1>9. CASE Write
  <2>1. /\ phase = "edit" /\ phase' = "reparse" /\ given' = TRUE
        /\ pc' = "value" /\ frames' = <<>> /\ node' = <<>> /\ last' = NOWHERE
        /\ before' = FALSE /\ errors' = 0 /\ ok' = TRUE
        /\ mode' = mode /\ tree' = tree
    BY <1>9 DEF Write, ROOT
  <2>2. ErrorInv'
    BY <2>1 DEF ErrorInv
  <2>3. pc = "done" /\ last = NOWHERE
    BY <2>1 DEF ProgramInv
  <2>4. frames = <<>> /\ node = <<>>
    BY <1>2, <2>3 DEF Position
  <2>5. Good(K, tree, node, frames, last)'
    BY <1>2, <2>1, <2>3, <2>4 DEF Good
  <2>6. Position(N)'
    BY <2>1, EmptySeq DEF Position, Kinds
  <2>7. NodesInv'
    BY <2>1, <2>5, <2>6 DEF ProgramInv, NodesInv
  <2>. QED  BY <2>1, <2>2, <2>7 DEF ProgramInv
<1>10. CASE UNCHANGED allVars
  <2>1. UNCHANGED vars /\ phase' = phase
    BY <1>10 DEF allVars, programVars
  <2>2. ErrorInv'
    BY <2>1, ErrorStep DEF ProgramInv
  <2>3. NodesInv'
    BY <2>1, NodesStep DEF ProgramInv
  <2>4. pc' = pc /\ last' = last
    BY <2>1 DEF vars
  <2>. QED  BY <2>1, <2>2, <2>3, <2>4 DEF ProgramInv
<1>. QED  BY <1>1, <1>3, <1>4, <1>5, <1>6, <1>7, <1>8, <1>9, <1>10 DEF JsonNext

LEMMA ProgramAlways == JsonSpec => []ProgramInv
<1>1. JsonInit => ProgramInv
  <2>. SUFFICES ASSUME JsonInit PROVE ProgramInv
    OBVIOUS
  <2>1. /\ mode \in Modes /\ given = FALSE /\ pc = "value" /\ frames = <<>> /\ node = <<>>
        /\ last = NOWHERE /\ tree = [p \in {<<>>} |-> Leaf(Null)]
        /\ errors = 0 /\ before = FALSE /\ ok = TRUE /\ phase = "parse"
    BY DEF JsonInit, Init, ROOT
  <2>2. ErrorInv
    BY <2>1 DEF ErrorInv
  <2>3. Position({})
    BY <2>1, EmptySeq DEF Position, Kinds
  <2>4. DOMAIN tree = {<<>>} /\ tree[<<>>] = [value |-> Null, comments |-> {}]
    BY <2>1 DEF Leaf
  <2>5. DOMAIN tree \subseteq Seq({})
    BY <2>4, EmptySeq
  <2>6. Rooted({}, tree)
    BY <2>4, <2>5, RootedTree
  <2>7. NodesInv
    BY <2>1, <2>3, <2>6 DEF NodesInv, Rooted
  <2>. QED  BY <2>1, <2>2, <2>7 DEF ProgramInv
<1>. QED  BY <1>1, ProgramStep, PTL DEF JsonSpec

\* parse returns false exactly when it has an error to report: whatever the
\* document, none of the recoveries makes a failure silent.
THEOREM ErrorsAreReported == JsonSpec => []ErrorsExplain
<1>1. ProgramInv => ErrorsExplain
  BY DEF ProgramInv, ErrorInv, ErrorsExplain
<1>. QED  BY <1>1, ProgramAlways, PTL

\* nodes_ and lastValue_ never point to a Value that was destroyed, and each
\* function fills a Value of its own kind: whatever the document is, however
\* deep, however often a member is read again, and whatever the program did to
\* the root that is parsed into.
THEOREM NodesStayAlive == JsonSpec => []NodesAlive
<1>1. ProgramInv => NodesAlive
  BY DEF ProgramInv, NodesInv, NodesAlive, Good, Is
<1>. QED  BY <1>1, ProgramAlways, PTL

\* The stack of functions and the stack of Values agree.
THEOREM TypeCorrect == JsonSpec => []TypeOK
<1>2. ProgramInv => TypeOK
  <2>. SUFFICES ASSUME ProgramInv PROVE TypeOK
    OBVIOUS
  <2>1. /\ mode \in Modes /\ given \in BOOLEAN /\ before \in BOOLEAN /\ ok \in BOOLEAN /\ errors \in Nat
    BY DEF ProgramInv, NodesInv, ErrorInv
  <2>2. /\ pc \in Kinds
        /\ pc \in {"tail", "done"} => (frames = <<>> /\ node = <<>>)
        /\ pc = "value" => Len(node) = Len(frames)
        /\ pc \notin {"value", "tail", "done"} => Len(node) = Len(frames) - 1
        /\ pc \in {"name", "colon", "comma", "commented"} => Top.kind = "object"
        /\ pc \in {"first", "separator"} => Top.kind = "array"
    BY DEF ProgramInv, NodesInv, Position
  <2>3. Len(node) = IF pc \in {"tail", "done"} THEN 0
                    ELSE Len(frames) - (IF pc = "value" THEN 0 ELSE 1)
    <3>1. Len(frames) \in Nat
      BY DEF ProgramInv, NodesInv, Position
    <3>. QED  BY <2>2, <3>1, EmptySeq
  <2>. QED  BY <2>1, <2>2, <2>3, Zenon DEF TypeOK
<1>. QED  BY <1>2, ProgramAlways, PTL
-----------------------------------------------------------------------------
(* Recursion over the numbers up to N *)

LEMMA LeastNumber ==
  ASSUME NEW W \in SUBSET Nat, W # {}
  PROVE  \E n \in W: \A m \in W: n <= m
<1>. DEFINE R == OpToRel(<, Nat)
<1>1. IsWellFoundedOn(R, Nat)
  BY NatLessThanWellFounded
<1>2. \A m, n \in Nat: m < n => <<m, n>> \in R
  BY DEF OpToRel
<1>. HIDE DEF R
<1>3. PICK n \in W: \A m \in W: ~(<<m, n>> \in R)
  BY <1>1, WFMin
<1>4. \A m \in W: m \in Nat /\ n \in Nat /\ ~(m < n)
  BY <1>2, <1>3
<1>5. \A m \in W: n <= m
  BY <1>4
<1>. QED  BY <1>5

\* Induction up to N: X is the set of the numbers for which the claim holds.
LEMMA Induction ==
  ASSUME NEW N \in Nat, NEW X, 0 \in X, \A n \in 1..N: n - 1 \in X => n \in X
  PROVE  0..N \subseteq X
<1>. DEFINE C == (0..N) \ X
<1>. SUFFICES ASSUME C # {} PROVE FALSE
  OBVIOUS
<1>1. PICK n \in C: \A m \in C: n <= m
  <2>1. C \in SUBSET Nat
    OBVIOUS
  <2>. HIDE DEF C
  <2>. QED  BY <2>1, LeastNumber
<1>2. n \in 1..N /\ n - 1 \in 0..N /\ n - 1 \notin C
  BY <1>1
<1>. QED  BY <1>2

Follows(f, b, N, step) ==
  \A n \in 0..N: f[n] = IF n = 0 THEN b ELSE step[n][f[n - 1]]

\* What begins with b and goes on by a function of S at each step exists.
LEMMA RecursionExists ==
  ASSUME NEW S, NEW b \in S, NEW N \in Nat, NEW step \in [1..N -> [S -> S]]
  PROVE  \E f \in [0..N -> S]: Follows(f, b, N, step)
<1>. DEFINE P(N_1) == \E f \in [0..N_1 -> S]:
                        \A n \in 0..N_1: f[n] = IF n = 0 THEN b ELSE step[n][f[n - 1]]
            Reached == {n \in 0..N: P(n)}
<1>1. P(0)
  <2>. DEFINE f == [n \in 0..0 |-> b]
  <2>1. f \in [0..0 -> S] /\ \A n \in 0..0: n = 0 /\ f[n] = b
    OBVIOUS
  <2>. HIDE DEF f
  <2>. QED  BY <2>1
<1>2. ASSUME NEW k \in 1..N, P(k - 1)
      PROVE  P(k)
  <2>1. PICK f \in [0..k - 1 -> S]:
          \A n \in 0..k - 1: f[n] = IF n = 0 THEN b ELSE step[n][f[n - 1]]
    BY <1>2
  <2>. DEFINE g == [n \in 0..k |-> IF n = k THEN step[k][f[k - 1]] ELSE f[n]]
  <2>2. g \in [0..k -> S]
    <3>1. step[k][f[k - 1]] \in S
      BY <2>1
    <3>. QED  BY <3>1
  <2>3. \A n \in 0..k: g[n] = IF n = 0 THEN b ELSE step[n][g[n - 1]]
    BY <2>1
  <2>. HIDE DEF g
  <2>. QED  BY <2>2, <2>3
<1>. HIDE DEF P
<1>3. 0..N \subseteq Reached
  <2>1. 0 \in Reached /\ \A n \in 1..N: n - 1 \in Reached => n \in Reached
    BY <1>1, <1>2
  <2>. HIDE DEF Reached
  <2>. QED  BY <2>1, Induction
<1>4. P(N)
  BY <1>3
<1>. QED  BY <1>4 DEF P, Follows

-----------------------------------------------------------------------------
(* Numbers *)

Sums(d) ==
  CHOOSE f: f = [i \in 0..Len(d) |-> IF i = 0 THEN 0 ELSE f[i - 1] * 10 + d[i]]

\* What the first digits stand for.
LEMMA SumsFacts ==
  ASSUME NEW d \in Seq(0..9)
  PROVE  /\ Sums(d) \in [0..Len(d) -> Nat]
         /\ Sums(d)[0] = 0
         /\ \A i \in 1..Len(d): Sums(d)[i] = Sums(d)[i - 1] * 10 + d[i]
<1>. DEFINE N == Len(d)
            S == Nat
            zero == 0
            step == [i \in 1..N |-> [x \in Nat |-> x * 10 + d[i]]]
            Is_(f) == f = [i \in 0..N |-> IF i = 0 THEN 0 ELSE f[i - 1] * 10 + d[i]]
<1>0. N \in Nat /\ \A i \in 1..N: d[i] \in 0..9
  OBVIOUS
<1>1. PICK f \in [0..N -> S]: Follows(f, zero, N, step)
  <2>1. step \in [1..N -> [S -> S]] /\ zero \in S
    BY <1>0
  <2>. HIDE DEF step, N, zero, S
  <2>. QED  BY <1>0, <2>1, RecursionExists
<1>2. \A i \in 1..N, x \in Nat: step[i][x] = x * 10 + d[i]
  OBVIOUS
<1>. HIDE DEF step
<1>3. ASSUME NEW i \in 1..N
      PROVE  f[i - 1] \in Nat /\ f[i] = f[i - 1] * 10 + d[i]
  <2>1. i - 1 \in 0..N /\ i \in 0..N /\ i # 0
    BY <1>0
  <2>2. f[i - 1] \in Nat /\ f[i] = step[i][f[i - 1]]
    BY <1>1, <2>1 DEF Follows
  <2>. QED  BY <1>2, <2>2
<1>4. Is_(f)
  BY <1>1, <1>3 DEF Follows
<1>5. Is_(Sums(d))
  <2>1. Sums(d) = CHOOSE g: Is_(g)
    BY DEF Sums
  <2>. HIDE DEF Is_
  <2>. QED  BY <1>4, <2>1
<1>. DEFINE F == Sums(d)
<1>6. /\ \A i \in 0..N: F[i] = IF i = 0 THEN 0 ELSE F[i - 1] * 10 + d[i]
      /\ F = [i \in 0..N |-> F[i]]
  <2>1. F = [i \in 0..N |-> IF i = 0 THEN 0 ELSE F[i - 1] * 10 + d[i]]
    BY <1>5
  <2>. HIDE DEF F
  <2>. QED  BY <2>1
<1>. HIDE DEF F
<1>. DEFINE Reached == {i \in 0..N: F[i] \in Nat}
<1>7. 0 \in Reached /\ \A i \in 1..N: i - 1 \in Reached => i \in Reached
  BY <1>0, <1>6
<1>8. 0..N \subseteq Reached
  <2>. HIDE DEF Reached
  <2>. QED  BY <1>0, <1>7, Induction
<1>9. F \in [0..N -> Nat]
  BY <1>6, <1>8
<1>10. F[0] = 0 /\ \A i \in 1..N: F[i] = F[i - 1] * 10 + d[i]
  BY <1>0, <1>6
<1>. QED  BY <1>9, <1>10 DEF F

LEMMA NumberIs ==
  ASSUME NEW t, t.digits \in Seq(0..9)
  PROVE  Number(t) = IF t.neg THEN -(Sums(t.digits)[Len(t.digits)])
                     ELSE Sums(t.digits)[Len(t.digits)]
  BY DEF Number, Sums

Scans(d, max) ==
  CHOOSE f: f =
    [i \in 0..Len(d) |->
       IF i = 0 THEN 0
       ELSE IF \/ f[i - 1] = OVERFLOW
               \/ /\ f[i - 1] >= max \div 10
                  /\ i # Len(d) \/ d[i] > max % 10
            THEN OVERFLOW
       ELSE (f[i - 1] * 10 + d[i]) % Word]

\* The loop after a number of digits.
LEMMA ScansFacts ==
  ASSUME NEW d \in Seq(0..9), NEW max \in Nat
  PROVE  /\ Scans(d, max)[0] = 0
         /\ \A i \in 1..Len(d):
              Scans(d, max)[i] =
                IF \/ Scans(d, max)[i - 1] = OVERFLOW
                   \/ /\ Scans(d, max)[i - 1] >= max \div 10
                      /\ i # Len(d) \/ d[i] > max % 10
                THEN OVERFLOW
                ELSE (Scans(d, max)[i - 1] * 10 + d[i]) % Word
         /\ Digits(d, max) = Scans(d, max)[Len(d)]
<1>. DEFINE N == Len(d)
            S == Int
            zero == 0
            Next_(i, x) == IF \/ x = OVERFLOW
                              \/ /\ x >= max \div 10
                                 /\ i # Len(d) \/ d[i] > max % 10
                           THEN OVERFLOW
                           ELSE (x * 10 + d[i]) % Word
            step == [i \in 1..N |-> [x \in Int |-> Next_(i, x)]]
            Is_(f) == f = [i \in 0..N |-> IF i = 0 THEN 0 ELSE Next_(i, f[i - 1])]
<1>0. N \in Nat /\ \A i \in 1..N: d[i] \in 0..9
  OBVIOUS
<1>1. \A i \in 1..N, x \in Int: Next_(i, x) \in Int
  BY <1>0, WidthAssumption DEF OVERFLOW, Word
<1>2. PICK f \in [0..N -> S]: Follows(f, zero, N, step)
  <2>. HIDE DEF Next_
  <2>1. step \in [1..N -> [S -> S]] /\ zero \in S
    BY <1>1
  <2>. HIDE DEF step, N, zero, S
  <2>. QED  BY <1>0, <2>1, RecursionExists
<1>3. \A i \in 1..N, x \in Int: step[i][x] = Next_(i, x)
  <2>. HIDE DEF Next_
  <2>. QED  OBVIOUS
<1>. HIDE DEF step
<1>4. ASSUME NEW i \in 1..N
      PROVE  f[i - 1] \in Int /\ f[i] = Next_(i, f[i - 1])
  <2>. HIDE DEF Next_
  <2>1. i - 1 \in 0..N /\ i \in 0..N /\ i # 0
    BY <1>0
  <2>2. f[i - 1] \in Int /\ f[i] = step[i][f[i - 1]]
    BY <1>2, <2>1 DEF Follows
  <2>. QED  BY <1>3, <2>2
<1>5. Is_(f)
  <2>. HIDE DEF Next_
  <2>. QED  BY <1>2, <1>4 DEF Follows
<1>6. Is_(Scans(d, max))
  <2>1. Scans(d, max) = CHOOSE g: Is_(g)
    BY DEF Scans
  <2>. HIDE DEF Is_
  <2>. QED  BY <1>5, <2>1
<1>. DEFINE F == Scans(d, max)
<1>7. \A i \in 0..N: F[i] = IF i = 0 THEN 0 ELSE Next_(i, F[i - 1])
  <2>1. F = [i \in 0..N |-> IF i = 0 THEN 0 ELSE Next_(i, F[i - 1])]
    BY <1>6
  <2>. HIDE DEF F, Next_
  <2>. QED  BY <2>1
<1>8. Digits(d, max) = F[N]
  BY DEF Digits, Scans
<1>. HIDE DEF F
<1>9. F[0] = 0 /\ \A i \in 1..N: F[i] = Next_(i, F[i - 1])
  <2>. HIDE DEF Next_
  <2>. QED  BY <1>0, <1>7
<1>. QED  BY <1>8, <1>9 DEF F

\* The loop neither gives up nor wraps as long as the number is not above max.
LEMMA DigitsAreExact ==
  ASSUME NEW d \in Seq(0..9), NEW max \in Nat, max >= 10, max < Word,
         Sums(d)[Len(d)] <= max
  PROVE  Digits(d, max) = Sums(d)[Len(d)]
<1>. DEFINE N == Len(d)
            P == Sums(d)
            R == Scans(d, max)
            n == P[N]
<1>0. N \in Nat /\ \A i \in 1..N: d[i] \in 0..9
  OBVIOUS
<1>1. /\ P \in [0..N -> Nat] /\ P[0] = 0
      /\ \A i \in 1..N: P[i] = P[i - 1] * 10 + d[i]
  BY SumsFacts
<1>2. /\ R[0] = 0
      /\ \A i \in 1..N:
           R[i] = IF \/ R[i - 1] = OVERFLOW
                     \/ /\ R[i - 1] >= max \div 10
                        /\ i # N \/ d[i] > max % 10
                  THEN OVERFLOW
                  ELSE (R[i - 1] * 10 + d[i]) % Word
      /\ Digits(d, max) = R[N]
  BY ScansFacts
<1>3. n <= max
  OBVIOUS
<1>. HIDE DEF P, R, N
<1>4. ASSUME NEW i \in 1..N
      PROVE  /\ P[i - 1] \in Nat /\ P[i] \in Nat /\ d[i] \in 0..9 /\ n \in Nat
             /\ P[i] = P[i - 1] * 10 + d[i] /\ P[i - 1] <= P[i]
  <2>1. i - 1 \in 0..N /\ i \in 0..N /\ N \in 0..N
    BY <1>0
  <2>2. P[i - 1] \in Nat /\ P[i] \in Nat /\ n \in Nat /\ d[i] \in 0..9
        /\ P[i] = P[i - 1] * 10 + d[i]
    BY <1>0, <1>1, <2>1
  <2>3. P[i - 1] <= P[i]
    <3>. DEFINE a == P[i - 1]
                b == P[i]
                g == d[i]
    <3>1. a \in Nat /\ b \in Nat /\ g \in 0..9 /\ b = a * 10 + g
      BY <2>2
    <3>. HIDE DEF a, b, g
    <3>2. a <= b
      BY <3>1
    <3>. QED  BY <3>2 DEF a, b
  <2>. QED  BY <2>2, <2>3
<1>5. \A i \in 0..N: P[i] <= n
  <2>. DEFINE Reached == {k \in 0..N: P[N - k] <= n}
  <2>1. 0 \in Reached
    <3>1. N - 0 = N /\ n \in Nat
      BY <1>0, <1>1
    <3>. QED  BY <1>0, <3>1
  <2>2. ASSUME NEW k \in 1..N, P[N - (k - 1)] <= n
        PROVE  P[N - k] <= n
    <3>. DEFINE i == N - (k - 1)
    <3>1. i \in 1..N /\ i - 1 = N - k
      BY <1>0
    <3>. HIDE DEF i
    <3>2. P[i] <= n
      BY <2>2 DEF i
    <3>3. P[i - 1] \in Nat /\ P[i] \in Nat /\ n \in Nat /\ P[i - 1] <= P[i]
      BY <1>4, <3>1
    <3>4. P[i - 1] <= n
      <4>. HIDE DEF n
      <4>. QED  BY <3>2, <3>3
    <3>. QED  BY <3>1, <3>4
  <2>3. 0 \in Reached /\ \A k \in 1..N: k - 1 \in Reached => k \in Reached
    BY <2>1, <2>2
  <2>4. 0..N \subseteq Reached
    <3>. HIDE DEF Reached
    <3>. QED  BY <1>0, <2>3, Induction
  <2>5. ASSUME NEW i \in 0..N PROVE P[i] <= n
    <3>1. N - i \in 0..N /\ N - (N - i) = i
      BY <1>0
    <3>2. N - i \in Reached
      <4>. HIDE DEF Reached
      <4>. QED  BY <2>4, <3>1
    <3>. QED  BY <3>1, <3>2
  <2>. QED  BY <2>5
<1>. HIDE DEF n
<1>6. ASSUME NEW i \in 1..N, R[i - 1] = P[i - 1]
      PROVE  R[i] = P[i]
  <2>. DEFINE p == P[i - 1]
              q == max \div 10
              r == max % 10
  <2>1. p \in Nat /\ d[i] \in 0..9 /\ n \in Nat /\ P[i] = p * 10 + d[i] /\ P[i] <= n
    BY <1>4, <1>5
  <2>2. q \in Nat /\ r \in 0..9 /\ max = 10 * q + r /\ q >= 1
    BY SMTT(30)
  <2>. HIDE DEF p, q, r
  <2>3. ASSUME i # N PROVE p < q
    <3>1. i + 1 \in 1..N /\ (i + 1) - 1 = i
      BY <1>0, <2>3
    <3>2. /\ P[i] \in Nat /\ P[i + 1] \in Nat /\ d[i + 1] \in 0..9
          /\ P[i + 1] = P[i] * 10 + d[i + 1] /\ P[i + 1] <= n
      BY <1>4, <1>5, <3>1
    <3>. DEFINE a == P[i]
                b == P[i + 1]
                e == d[i + 1]
                g == d[i]
    <3>3. /\ a \in Nat /\ b \in Nat /\ e \in 0..9 /\ g \in 0..9 /\ p \in Nat /\ q \in Nat
          /\ a = p * 10 + g /\ b = a * 10 + e /\ b <= 10 * q + r /\ r \in 0..9 /\ q >= 1
      BY <1>3, <2>1, <2>2, <3>2
    <3>. HIDE DEF a, b, e, g
    <3>. QED  BY <3>3
  <2>4. ASSUME i = N PROVE ~(p >= q /\ d[i] > r)
    <3>1. n = p * 10 + d[i]
      BY <2>1, <2>4 DEF n
    <3>. DEFINE g == d[i]
    <3>2. n = p * 10 + g /\ g \in 0..9 /\ p \in Nat /\ q \in Nat /\ r \in 0..9 /\ n <= 10 * q + r
      BY <1>3, <2>1, <2>2, <3>1
    <3>. HIDE DEF g
    <3>3. ~(p >= q /\ g > r)
      BY <3>2
    <3>. QED  BY <3>3 DEF g
  <2>5. R[i - 1] # OVERFLOW
    BY <1>6, <2>1 DEF OVERFLOW, p
  <2>6. R[i] = (R[i - 1] * 10 + d[i]) % Word
    <3>1. ~(p >= q /\ (i # N \/ d[i] > r))
      BY <2>1, <2>2, <2>3, <2>4
    <3>2. R[i] = IF \/ R[i - 1] = OVERFLOW
                    \/ /\ p >= q
                       /\ i # N \/ d[i] > r
                 THEN OVERFLOW
                 ELSE (R[i - 1] * 10 + d[i]) % Word
      BY <1>2, <1>6 DEF p, q, r
    <3>. QED  BY <2>5, <3>1, <3>2
  <2>7. R[i] = P[i] % Word
    BY <1>6, <2>1, <2>6 DEF p
  <2>8. P[i] \in Nat /\ P[i] < Word /\ Word \in Nat
    BY <1>3, <1>4, <1>5, WidthAssumption DEF Word
  <2>. DEFINE x == P[i]
              w == Word
  <2>9. R[i] = x % w /\ x \in Nat /\ x < w /\ w \in Nat
    BY <2>7, <2>8
  <2>. HIDE DEF x, w
  <2>10. x % w = x
    BY <2>9
  <2>. QED  BY <2>9, <2>10 DEF x
<1>. DEFINE Reached == {i \in 0..N: R[i] = P[i]}
<1>7. 0 \in Reached /\ \A i \in 1..N: i - 1 \in Reached => i \in Reached
  <2>1. 0 \in Reached
    BY <1>0, <1>1, <1>2
  <2>. QED  BY <1>6, <2>1
<1>8. 0..N \subseteq Reached
  <2>. HIDE DEF Reached
  <2>. QED  BY <1>0, <1>7, Induction
<1>9. R[N] = P[N]
  BY <1>0, <1>8
<1>. QED  BY <1>2, <1>9 DEF N, P

\* -LargestInt(value) is right for the values that the loop lets through, the
\* magnitude of the least LargestInt included.
LEMMA NegatedIs ==
  ASSUME NEW v \in 0..LargestInt
  PROVE  Negated(v) = -v
<1>. DEFINE m == LargestInt
<1>0. m \in Nat /\ m > 9 /\ v \in 0..m
  BY WidthAssumption
<1>. HIDE DEF m
<1>1. Negated(v) = LET u == (2 * m - v) % (2 * m) IN IF u >= m THEN u - 2 * m ELSE u
  BY DEF Negated, Word, m
<1>2. CASE v = 0
  <2>1. (2 * m - v) % (2 * m) = 0
    BY <1>0, <1>2
  <2>. QED  BY <1>0, <1>1, <1>2, <2>1
<1>3. CASE v > 0
  <2>1. (2 * m - v) % (2 * m) = 2 * m - v
    BY <1>0, <1>3
  <2>. QED  BY <1>0, <1>1, <1>3, <2>1
<1>. QED  BY <1>0, <1>2, <1>3

\* decodeNumber keeps what a LargestInt or a LargestUInt can hold.
LEMMA DecodedExactly ==
  ASSUME NEW t, t.type = "number", t.form = "digits", t.neg \in BOOLEAN, t.digits \in Seq(0..9),
         Number(t) \in -LargestInt..Word - 1
  PROVE  \/ /\ DecodeNumber(t) = [type |-> "int", num |-> Number(t)]
            /\ t.neg \/ Number(t) <= MaxInt
         \/ /\ DecodeNumber(t) = [type |-> "uint", num |-> Number(t)]
            /\ Number(t) \in MaxInt + 1..Word - 1
<1>. DEFINE s == Sums(t.digits)[Len(t.digits)]
<1>0. LargestInt \in Nat /\ LargestInt > 9 /\ MaxInt \in Nat /\ Word = 2 * LargestInt
  BY WidthAssumption DEF Word
<1>1. s \in Nat
  BY SumsFacts
<1>2. Number(t) = IF t.neg THEN -s ELSE s
  BY NumberIs
<1>3. ASSUME NEW max \in Nat, max >= 10, max < Word, s <= max
      PROVE  Digits(t.digits, max) = s
  BY <1>3, DigitsAreExact
<1>. HIDE DEF s
<1>4. CASE t.neg = TRUE
  <2>1. Number(t) = -s /\ s <= LargestInt
    BY <1>0, <1>1, <1>2, <1>4
  <2>2. Digits(t.digits, LargestInt) = s
    BY <1>0, <1>3, <2>1
  <2>3. s # OVERFLOW /\ Negated(s) = -s
    BY <1>1, <2>1, NegatedIs, <1>0 DEF OVERFLOW
  <2>4. DecodeNumber(t) = [type |-> "int", num |-> Negated(s)]
    BY <1>4, <2>2, <2>3 DEF DecodeNumber
  <2>. QED  BY <1>4, <2>1, <2>3, <2>4
<1>5. CASE t.neg = FALSE
  <2>1. Number(t) = s /\ s <= Word - 1
    BY <1>0, <1>1, <1>2, <1>5
  <2>2. Word - 1 \in Nat /\ Word - 1 >= 10 /\ Word - 1 < Word
    BY <1>0
  <2>3. Digits(t.digits, Word - 1) = s
    BY <1>3, <2>1, <2>2
  <2>4. s # OVERFLOW
    BY <1>1 DEF OVERFLOW
  <2>5. DecodeNumber(t) = [type |-> IF s <= MaxInt THEN "int" ELSE "uint", num |-> s]
    BY <1>5, <2>3, <2>4 DEF DecodeNumber
  <2>. QED  BY <1>0, <1>1, <2>1, <2>5
<1>. QED  BY <1>4, <1>5

\* The digits alone never fail.
LEMMA DigitsNeverFail ==
  ASSUME NEW t, t.form = "digits"
  PROVE  DecodeNumber(t) # Failed
<1>1. DecodeDouble(t) = [type |-> "real", num |-> Number(t)]
  BY DEF DecodeDouble
<1>2. DecodeNumber(t).type \in {"real", "int", "uint"}
  <2>. DEFINE v == Digits(t.digits, IF t.neg THEN LargestInt ELSE Word - 1)
  <2>1. DecodeNumber(t) = IF t.form # "digits" \/ v = OVERFLOW THEN DecodeDouble(t)
                          ELSE IF t.neg THEN [type |-> "int", num |-> Negated(v)]
                          ELSE [type |-> IF v <= MaxInt THEN "int" ELSE "uint", num |-> v]
    BY DEF DecodeNumber
  <2>. HIDE DEF v
  <2>. QED  BY <1>1, <2>1
<1>. QED  BY <1>2 DEF Failed

AnyToken == Tokens \cup FirstTokens \cup {EOS}

LEMMA TokenIs ==
  ASSUME NEW t \in AnyToken
  PROVE  /\ t.type = "number" => t.neg \in BOOLEAN /\ t.digits \in Seq(0..9)
         /\ t.type = "string" => t.pieces \in Seq(Piece)
         /\ t.type = "literal" => t = [type |-> "literal", value |-> t.value]
         /\ t.type = "literal" => t.value \in {Null, Bool(TRUE), Bool(FALSE)}
<1>1. CASE t = EOS
  BY <1>1 DEF EOS
<1>2. CASE t # EOS
  <2>1. t \in Tokens \cup FirstTokens
    BY <1>2 DEF AnyToken
  <2>2. /\ t.type = "number" => t.neg \in BOOLEAN /\ t.digits \in Seq(0..9)
        /\ t.type = "string" => t.pieces \in Seq(Piece)
        /\ t.type = "literal" => \E v \in {Null, Bool(TRUE), Bool(FALSE)}:
                                   t = [type |-> "literal", value |-> v]
    BY <2>1, TokensAssumption
  <2>3. ASSUME NEW v, t = [type |-> "literal", value |-> v] PROVE t.value = v
    BY <2>3
  <2>. QED  BY <2>2, <2>3
<1>. QED  BY <1>1, <1>2

\* The document is one number and what follows it.
NumberFirst(d) == d # <<>> /\ d[1].type = "number" /\ d[1].form = "digits"

\* While a document whose text is not known is parsed, a number at its beginning
\* is the root.
NumberInv ==
  phase = "parse" =>
    /\ given = FALSE
    /\ doc \in Seq(AnyToken)
    /\ doc = <<>> => pc = "value" /\ frames = <<>> /\ node = ROOT
    /\ NumberFirst(doc) => /\ pc \in {"tail", "done"}
                           /\ tree[ROOT].value = DecodeNumber(doc[1])

Nodes(tr) == \A p \in DOMAIN tr: tr[p] = [value |-> tr[p].value, comments |-> tr[p].comments]

\* A comment changes no Value.
LEMMA WithValue ==
  ASSUME NEW tr, NEW path, NEW place, path \in DOMAIN tr, Nodes(tr)
  PROVE  /\ DOMAIN With(tr, path, place) = DOMAIN tr
         /\ \A p \in DOMAIN tr: With(tr, path, place)[p].value = tr[p].value
         /\ Nodes(With(tr, path, place))
<1>. DEFINE w == With(tr, path, place)
<1>1. DOMAIN w = DOMAIN tr
  BY DEF With
<1>2. ASSUME NEW p \in DOMAIN tr
      PROVE  /\ w[p].value = tr[p].value
             /\ w[p] = [value |-> w[p].value, comments |-> w[p].comments]
  <2>1. tr[p] = [value |-> tr[p].value, comments |-> tr[p].comments]
    BY DEF Nodes
  <2>2. w[p] = IF p = path THEN [tr[p] EXCEPT !.comments = @ \cup {place}] ELSE tr[p]
    BY DEF With
  <2>. HIDE DEF w
  <2>. QED  BY <2>1, <2>2
<1>. HIDE DEF w
<1>3. Nodes(w)
  BY <1>1, <1>2 DEF Nodes
<1>. QED  BY <1>1, <1>2, <1>3 DEF w

\* What is read is a token that may be read, and stays where it is.
LEMMA ReadToken ==
  ASSUME given = FALSE, doc \in Seq(AnyToken), NEW t \in Offered, Read(t)
  PROVE  /\ doc' \in Seq(AnyToken) /\ doc' # <<>> /\ given' = FALSE /\ t \in AnyToken
         /\ doc # <<>> => doc'[1] = doc[1]
         /\ doc = <<>> => doc'[1] = t
<1>1. t \in AnyToken
  BY DEF Offered, AnyToken
<1>2. doc' = IF t = EOS /\ doc # <<>> /\ Last(doc) = EOS THEN doc ELSE Append(doc, t)
  BY DEF Read
<1>3. /\ Append(doc, t) \in Seq(AnyToken) /\ Len(Append(doc, t)) = Len(doc) + 1
      /\ \A i \in 1..Len(doc): Append(doc, t)[i] = doc[i]
      /\ Append(doc, t)[Len(doc) + 1] = t
  BY <1>1, AppendProperties
<1>4. Len(doc) \in Nat /\ (doc # <<>> => Len(doc) >= 1) /\ Len(<<>>) = 0
  BY EmptySeq
<1>5. Append(doc, t) # <<>>
  BY <1>3, <1>4
<1>6. doc # <<>> => Append(doc, t)[1] = doc[1]
  BY <1>3, <1>4
<1>7. doc = <<>> => Append(doc, t)[1] = t
  BY <1>3, <1>4
<1>. QED  BY <1>1, <1>2, <1>3, <1>5, <1>6, <1>7 DEF Read

\* The number is read.
LEMMA NumberRead ==
  ASSUME NEW t, NEW K, Rooted(K, tree), t.type = "number", t.form = "digits",
         ReadValue(t, ROOT, tree, <<>>)
  PROVE  pc' = "tail" /\ tree'[ROOT].value = DecodeNumber(t)
<1>. DEFINE commented == IF collect /\ before THEN With(tree, ROOT, "before") ELSE tree
            value == DecodeNumber(t)
<1>1. ROOT \in DOMAIN tree /\ Nodes(tree)
  BY RootedTree DEF ROOT, Nodes
<1>2. ROOT \in DOMAIN commented /\ Nodes(commented)
  BY <1>1, WithValue
<1>3. Scalar(t) = value /\ value # Failed
  BY DigitsNeverFail DEF Scalar
<1>4. tree' = Assign(commented, ROOT, value) /\ Return(ROOT, <<>>, TRUE)
  <2>. HIDE DEF value
  <2>1. /\ tree' = IF value = Failed THEN commented ELSE Assign(commented, ROOT, value)
        /\ Return(ROOT, <<>>, value # Failed)
    BY <1>3 DEF ReadValue
  <2>2. (value # Failed) = TRUE
    BY <1>3
  <2>. QED  BY <1>3, <2>1, <2>2
<1>. HIDE DEF commented, value
<1>5. ROOT \in DOMAIN commented \ Below(commented, ROOT)
  BY <1>2 DEF Below
<1>6. tree'[ROOT] = [commented[ROOT] EXCEPT !.value = value]
  BY <1>4, <1>5 DEF Assign
<1>7. tree'[ROOT].value = value
  BY <1>2, <1>6 DEF Nodes
<1>8. pc' = "tail"
  BY <1>4 DEF Return
<1>. QED  BY <1>7, <1>8 DEF value

LEMMA NumberStep == ProgramInv /\ NumberInv /\ [JsonNext]_allVars => NumberInv'
<1>. SUFFICES ASSUME ProgramInv, NumberInv, [JsonNext]_allVars, phase' = "parse"
              PROVE  NumberInv'
  BY DEF NumberInv
<1>1. phase = "parse"
  BY DEF JsonNext, Parse, Parsed, SetMember, RemoveKey, AppendValue, ResizeRoot, ClearRoot,
         Edit, Write, allVars, programVars
<1>2. /\ given = FALSE /\ doc \in Seq(AnyToken)
      /\ doc = <<>> => pc = "value" /\ frames = <<>> /\ node = ROOT
      /\ NumberFirst(doc) => pc \in {"tail", "done"} /\ tree[ROOT].value = DecodeNumber(doc[1])
  BY <1>1 DEF NumberInv
<1>3. PICK K, N: Position(N) /\ Good(K, tree, node, frames, last)
  BY DEF ProgramInv, NodesInv
<1>4. CASE UNCHANGED vars
  BY <1>2, <1>4 DEF vars, inputVars, NumberInv
<1>5. CASE Next
  <2>1. PICK t \in Offered: Read(t)
    BY <1>5 DEF Next, Value, NameOrEnd, Colon, Comma, CommaAfterComment, First, Separator,
                Recover, Finish
  <2>2. /\ doc' \in Seq(AnyToken) /\ doc' # <<>> /\ given' = FALSE
        /\ doc # <<>> => doc'[1] = doc[1]
    BY <1>2, <2>1, ReadToken
  <2>3. CASE doc # <<>> /\ ~NumberFirst(doc)
    <3>1. ~NumberFirst(doc')
      BY <2>2, <2>3 DEF NumberFirst
    <3>. QED  BY <2>2, <3>1 DEF NumberInv
  <2>4. CASE NumberFirst(doc)
    <3>1. pc \in {"tail", "done"} /\ tree[ROOT].value = DecodeNumber(doc[1]) /\ doc # <<>>
      BY <1>2, <2>4 DEF NumberFirst
    <3>2. node = <<>> /\ frames = <<>>
      BY <1>3, <3>1 DEF Position
    <3>3. /\ ROOT \in DOMAIN tree /\ (last = NOWHERE \/ last \in DOMAIN tree)
          /\ Nodes(tree)
      BY <1>3, <3>2 DEF Good, ROOT, Nodes
    <3>4. ASSUME NEW path \in DOMAIN tree, NEW place
          PROVE  With(tree, path, place)[ROOT].value = tree[ROOT].value
      BY <3>3, WithValue
    <3>5. Finish
      BY <1>5, <3>1 DEF Next, Value, NameOrEnd, Colon, Comma, CommaAfterComment, First, Separator,
                        Recover
    <3>6. PICK u \in Offered:
            \/ Skip(u)
            \/ /\ tree' = IF collect /\ before THEN With(tree, ROOT, "after") ELSE tree
               /\ pc' = "done"
      BY <3>5 DEF Finish
    <3>7. CASE Skip(u)
      <4>1. /\ pc' = pc
            /\ tree' = IF collect /\ u.same /\ last # NOWHERE THEN With(tree, last, "same") ELSE tree
        BY <3>7 DEF Skip, AddComment
      <4>2. tree' = tree \/ (last \in DOMAIN tree /\ tree' = With(tree, last, "same"))
        BY <3>3, <4>1
      <4>3. tree'[ROOT].value = tree[ROOT].value
        <5>1. ASSUME last \in DOMAIN tree
              PROVE  With(tree, last, "same")[ROOT].value = tree[ROOT].value
          BY <5>1, <3>4
        <5>. QED  BY <4>2, <5>1
      <4>. QED  BY <2>2, <3>1, <4>1, <4>3 DEF NumberInv
    <3>8. CASE /\ tree' = IF collect /\ before THEN With(tree, ROOT, "after") ELSE tree
               /\ pc' = "done"
      <4>1. tree'[ROOT].value = tree[ROOT].value
        <5>1. With(tree, ROOT, "after")[ROOT].value = tree[ROOT].value
          BY <3>3, <3>4
        <5>. QED  BY <3>8, <5>1
      <4>. QED  BY <2>2, <3>1, <3>8, <4>1 DEF NumberInv
    <3>. QED  BY <3>6, <3>7, <3>8
  <2>5. CASE doc = <<>>
    <3>1. pc = "value" /\ frames = <<>> /\ node = ROOT
      BY <1>2, <2>5
    <3>2. Value
      BY <1>5, <3>1 DEF Next, NameOrEnd, Colon, Comma, CommaAfterComment, First, Separator,
                        Recover, Finish
    <3>3. PICK u \in Offered: /\ Read(u)
                              /\ \/ u.type = "comment"
                                 \/ ReadValue(u, ROOT, tree, <<>>)
      BY <3>1, <3>2 DEF Value
    <3>4. doc'[1] = u
      BY <1>2, <2>5, <3>3, ReadToken
    <3>5. Rooted(K, tree)
      <4>1. <<>> \in DOMAIN tree
        BY <1>3, <3>1 DEF Good, ROOT
      <4>2. /\ DOMAIN tree \subseteq Seq(K)
            /\ \A p \in DOMAIN tree: tree[p] = [value |-> tree[p].value, comments |-> tree[p].comments]
        BY <1>3 DEF Good
      <4>. QED  BY <4>1, <4>2, RootedTree
    <3>6. CASE ~NumberFirst(doc')
      BY <2>2, <3>6 DEF NumberInv
    <3>7. CASE NumberFirst(doc')
      <4>1. u.type = "number" /\ u.form = "digits"
        BY <3>4, <3>7 DEF NumberFirst
      <4>2. pc' = "tail" /\ tree'[ROOT].value = DecodeNumber(u)
        BY <3>3, <3>5, <4>1, NumberRead
      <4>. QED  BY <2>2, <3>4, <4>2 DEF NumberInv
    <3>. QED  BY <3>6, <3>7
  <2>. QED  BY <2>3, <2>4, <2>5
<1>6. UNCHANGED vars \/ Next
  BY <1>1 DEF JsonNext, Parse, Parsed, SetMember, RemoveKey, AppendValue, ResizeRoot, ClearRoot,
              Edit, Write, allVars, programVars
<1>. QED  BY <1>4, <1>5, <1>6

LEMMA NumberStart == JsonInit => NumberInv
<1>. SUFFICES ASSUME JsonInit PROVE NumberInv
  OBVIOUS
<1>1. given = FALSE /\ doc = <<>> /\ pc = "value" /\ frames = <<>> /\ node = ROOT
  BY DEF JsonInit, Init
<1>. QED  BY <1>1, EmptySeq DEF NumberInv, NumberFirst

LEMMA NumberAlways == JsonSpec => []NumberInv
BY NumberStart, NumberStep, ProgramAlways, PTL DEF JsonSpec

\* An integer that a LargestInt or a LargestUInt can hold is read without loss,
\* however wide they are and however many zeros it begins with: decodeNumber's test
\* against the last digit keeps the loop from both giving up and wrapping, and each
\* conversion gives the number back or throws.
THEOREM IntegersAreExact == JsonSpec => []NumbersAreExact
<1>1. NumberInv => NumbersAreExact
  <2>. SUFFICES ASSUME NumberInv, phase = "parse", pc = "done",
                       doc[1].type = "number", doc[1].form = "digits",
                       Number(doc[1]) \in -LargestInt..Word - 1
                PROVE  LET n == Number(doc[1])
                           value == tree[ROOT].value
                       IN /\ value.num = n /\ value.type # "real"
                          /\ AsInt(value) = Within(n, -MaxInt - 1, MaxInt)
                          /\ AsUInt(value) = Within(n, 0, 2 * MaxInt + 1)
                          /\ AsInt64(value) = Within(n, -LargestInt, LargestInt - 1)
                          /\ AsBool(tree, ROOT) <=> n # 0
    BY DEF NumbersAreExact
  <2>. DEFINE t == doc[1]
              n == Number(t)
              value == tree[ROOT].value
  <2>0. LargestInt \in Nat /\ LargestInt > 9 /\ MaxInt \in 0..LargestInt - 1 /\ Word = 2 * LargestInt
    BY WidthAssumption DEF Word
  <2>1. doc # <<>> /\ doc \in Seq(AnyToken)
    BY DEF NumberInv
  <2>2. t \in AnyToken /\ value = DecodeNumber(t)
    BY <2>1, EmptySeq DEF NumberInv, NumberFirst
  <2>3. t.neg \in BOOLEAN /\ t.digits \in Seq(0..9)
    BY <2>2, TokenIs
  <2>4. t.type = "number" /\ t.form = "digits" /\ n \in -LargestInt..Word - 1
    OBVIOUS
  <2>. HIDE DEF t
  <2>5. \/ value = [type |-> "int", num |-> n] /\ (t.neg \/ n <= MaxInt)
        \/ value = [type |-> "uint", num |-> n] /\ n \in MaxInt + 1..Word - 1
    BY <2>2, <2>3, <2>4, DecodedExactly
  <2>6. t.neg => n <= 0
    BY <2>3, SumsFacts, NumberIs
  <2>7. AsBool(tree, ROOT) <=> n # 0
    BY <2>5 DEF AsBool
  <2>. HIDE DEF n, value
  <2>8. CASE value = [type |-> "int", num |-> n]
    <3>1. n \in -LargestInt..MaxInt
      BY <2>0, <2>4, <2>5, <2>6, <2>8
    <3>2. AsInt64(value) = {n}
      BY <2>8 DEF AsInt64
    <3>3. Within(n, -LargestInt, LargestInt - 1) = {n}
      BY <2>0, <3>1 DEF Within
    <3>4. /\ AsInt(value) = Within(n, -MaxInt - 1, MaxInt)
          /\ AsUInt(value) = Within(n, 0, 2 * MaxInt + 1)
      BY <2>8 DEF AsInt, AsUInt
    <3>5. value.num = n /\ value.type # "real"
      BY <2>8
    <3>. QED  BY <2>7, <3>2, <3>3, <3>4, <3>5 DEF t, n, value
  <2>9. CASE value = [type |-> "uint", num |-> n] /\ n \in MaxInt + 1..Word - 1
    <3>2. AsInt64(value) = Within(n, 0, LargestInt - 1)
      BY <2>9 DEF AsInt64
    <3>3. Within(n, -LargestInt, LargestInt - 1) = Within(n, 0, LargestInt - 1)
      BY <2>0, <2>9 DEF Within
    <3>4. /\ AsInt(value) = Within(n, -MaxInt - 1, MaxInt)
          /\ AsUInt(value) = Within(n, 0, 2 * MaxInt + 1)
      BY <2>9 DEF AsInt, AsUInt
    <3>5. value.num = n /\ value.type # "real"
      BY <2>9
    <3>. QED  BY <2>7, <3>2, <3>3, <3>4, <3>5 DEF t, n, value
  <2>. QED  BY <2>5, <2>8, <2>9
<1>. QED  BY <1>1, NumberAlways, PTL

-----------------------------------------------------------------------------
(* The grammar *)

\* What is computed from its own lower values exists.
LEMMA CourseExists ==
  ASSUME NEW S, NEW N \in Nat, NEW start \in [0..N -> S],
         NEW step \in [[0..N -> S] -> [0..N -> S]],
         \A f, g \in [0..N -> S]: \A n \in 0..N:
           (\A m \in 0..n - 1: f[m] = g[m]) => step[f][n] = step[g][n]
  PROVE  \E f \in [0..N -> S]: step[f] = f
<1>. DEFINE F == [0..N -> S]
            M == N + 2
            steps == [k \in 1..M |-> step]
<1>1. PICK h \in [0..M -> F]: Follows(h, start, M, steps)
  <2>1. M \in Nat /\ start \in F /\ steps \in [1..M -> [F -> F]]
    OBVIOUS
  <2>. HIDE DEF M, F, steps
  <2>. QED  BY <2>1, RecursionExists
<1>2. ASSUME NEW k \in 0..N + 1 PROVE h[k] \in F /\ h[k + 1] = step[h[k]]
  <2>1. k \in 0..M /\ k + 1 \in 0..M /\ k + 1 \in 1..M /\ k + 1 # 0 /\ (k + 1) - 1 = k
    OBVIOUS
  <2>2. steps[k + 1] = step
    BY <2>1
  <2>. HIDE DEF steps, M, F
  <2>. QED  BY <1>1, <2>1, <2>2 DEF Follows
<1>. DEFINE X == {k \in 0..N + 1: \A m \in 0..N: m < k => h[k + 1][m] = h[k][m]}
<1>3. 0 \in X
  OBVIOUS
<1>4. ASSUME NEW k \in 1..N + 1, k - 1 \in X PROVE k \in X
  <2>1. k - 1 \in 0..N + 1 /\ k \in 0..N + 1 /\ (k - 1) + 1 = k
    OBVIOUS
  <2>2. h[k] = step[h[k - 1]] /\ h[k + 1] = step[h[k]] /\ h[k] \in F /\ h[k - 1] \in F
    BY <1>2, <2>1
  <2>3. ASSUME NEW m \in 0..N, m < k PROVE h[k + 1][m] = h[k][m]
    <3>1. \A l \in 0..m - 1: h[k][l] = h[k - 1][l]
      BY <1>4, <2>1, <2>3
    <3>. HIDE DEF X, F
    <3>2. step[h[k]][m] = step[h[k - 1]][m]
      BY <2>2, <3>1 DEF F
    <3>. QED  BY <2>2, <3>2
  <2>. QED  BY <2>1, <2>3
<1>5. N + 1 \in X
  <2>1. 0..N + 1 \subseteq X
    <3>1. N + 1 \in Nat
      OBVIOUS
    <3>. HIDE DEF X
    <3>. QED  BY <1>3, <1>4, <3>1, Induction
  <2>. QED  BY <2>1
<1>6. h[N + 1] \in F /\ h[(N + 1) + 1] = step[h[N + 1]]
  BY <1>2
<1>7. \A m \in 0..N: h[(N + 1) + 1][m] = h[N + 1][m]
  BY <1>5
<1>8. step[h[N + 1]] = h[N + 1]
  BY <1>6, <1>7
<1>. QED  BY <1>6, <1>8

\* Where the values of n tokens begin, if "values" tells it of the shorter ones.
ValuesOf(s, values, n) ==
  {i \in 1..Len(s) - n + 1:
     \/ /\ n = 1 /\ Type(s, i) \in {"number", "string", "literal"}
        /\ Scalar(s[i]) # Failed
     \/ \E kind \in {"object", "array"}: IsContainer(s, values, kind, i, i + n - 1)}

ValueTable(s) == CHOOSE values: values = [n \in 0..Len(s) |-> ValuesOf(s, values, n)]

LEMMA OnlyShorter ==
  ASSUME NEW s, NEW n \in Nat, NEW f, NEW g, \A m \in 0..n - 1: f[m] = g[m], Len(s) \in Nat
  PROVE  ValuesOf(s, f, n) = ValuesOf(s, g, n)
<1>1. ASSUME NEW kind \in {"object", "array"}, NEW a \in Int, NEW b \in Int, b - a <= n - 1
      PROVE  IsItem(s, f, kind, a, b) <=> IsItem(s, g, kind, a, b)
  <2>1. b - a > 3 => b - a - 3 \in 0..n - 1
    BY <1>1
  <2>2. b - a > 1 => b - a - 1 \in 0..n - 1
    BY <1>1
  <2>. QED  BY <2>1, <2>2 DEF IsItem
<1>2. ASSUME NEW kind \in {"object", "array"}, NEW i \in Int, NEW j \in Int, j - i = n - 1
      PROVE  IsContainer(s, f, kind, i, j) <=> IsContainer(s, g, kind, i, j)
  <2>1. ASSUME NEW commas \in SUBSET {k \in i + 1..j - 1: Type(s, k) = "arraySeparator"},
               NEW a \in commas \cup {i, j}, NEW b \in commas \cup {i, j}, i < j
        PROVE  IsItem(s, f, kind, a, b) <=> IsItem(s, g, kind, a, b)
    <3>1. \A x \in commas: x \in Int /\ i < x /\ x < j
      OBVIOUS
    <3>2. a \in Int /\ b \in Int /\ i <= a /\ b <= j
      BY <2>1, <3>1
    <3>3. b - a <= n - 1
      BY <1>2, <3>2
    <3>. QED  BY <1>1, <3>2, <3>3
  <2>. QED  BY <2>1 DEF IsContainer
<1>3. \A i \in 1..Len(s) - n + 1: i \in Int /\ i + n - 1 \in Int /\ (i + n - 1) - i = n - 1
  OBVIOUS
<1>. QED  BY <1>2, <1>3 DEF ValuesOf

LEMMA ValuesExist ==
  ASSUME NEW s, Len(s) \in Nat
  PROVE  /\ \A n \in 0..Len(s): ValueTable(s)[n] = ValuesOf(s, ValueTable(s), n)
         /\ IsValue(s) <=> 1 \in ValueTable(s)[Len(s)]
<1>. DEFINE N == Len(s)
            S == SUBSET (1..N + 1)
            F == [0..N -> S]
            start == [n \in 0..N |-> {}]
            step == [f \in F |-> [n \in 0..N |-> ValuesOf(s, f, n)]]
            Solves(f) == f = [n \in 0..N |-> ValuesOf(s, f, n)]
<1>1. \A f \in F: \A n \in 0..N: ValuesOf(s, f, n) \in S
  BY DEF ValuesOf
<1>2. start \in F /\ step \in [F -> F]
  BY <1>1
<1>3. \A f \in F: step[f] = [n \in 0..N |-> ValuesOf(s, f, n)]
  OBVIOUS
<1>4. \A f, g \in F: \A n \in 0..N:
        (\A m \in 0..n - 1: f[m] = g[m]) => step[f][n] = step[g][n]
  BY <1>3, OnlyShorter
<1>5. PICK f \in F: step[f] = f
  <2>. HIDE DEF step, start, S
  <2>. QED  BY <1>2, <1>4, CourseExists, ZenonT(60)
<1>6. Solves(f)
  BY <1>3, <1>5
<1>7. Solves(ValueTable(s))
  <2>1. ValueTable(s) = CHOOSE g: Solves(g)
    BY DEF ValueTable
  <2>. HIDE DEF Solves
  <2>. QED  BY <1>6, <2>1
<1>8. \A n \in 0..N: ValueTable(s)[n] = ValuesOf(s, ValueTable(s), n)
  <2>. DEFINE G == ValueTable(s)
  <2>1. G = [n \in 0..N |-> ValuesOf(s, G, n)]
    BY <1>7
  <2>. HIDE DEF G
  <2>2. \A n \in 0..N: G[n] = ValuesOf(s, G, n)
    BY <2>1
  <2>. QED  BY <2>2 DEF G
<1>9. IsValue(s) <=> 1 \in ValueTable(s)[Len(s)]
  BY DEF IsValue, ValueTable, ValuesOf
<1>. QED  BY <1>8, <1>9

-----------------------------------------------------------------------------
(* The reader without its tree: where it is, and the functions on its stack *)

Boxes == {"object", "array"}
Places == {"value", "open", "name", "colon", "comma", "first", "separator", "tail", "dead"}
Inside == {"open", "name", "colon", "comma", "first", "separator"}
Config == {c \in [pc: Places, stack: Seq(Boxes)]: c.pc \in Inside => c.stack # <<>>}
Dead == [pc |-> "dead", stack |-> <<>>]

\* A value has been read.
Back(stack) ==
  [pc |-> IF stack = <<>> THEN "tail"
          ELSE IF stack[Len(stack)] = "object" THEN "comma" ELSE "separator",
   stack |-> stack]

Begin(t, stack) ==
  IF t.type = "objectBegin" THEN [pc |-> "open", stack |-> Append(stack, "object")]
  ELSE IF t.type = "arrayBegin" THEN [pc |-> "first", stack |-> Append(stack, "array")]
  ELSE IF t.type \in {"number", "string", "literal"} /\ Scalar(t) # Failed THEN Back(stack)
  ELSE Dead

Key(t) == t.type = "string" /\ DecodeString(t) # Failed

Advance(c, t) ==
  IF c.pc = "value" \/ (c.pc = "first" /\ t.type # "arrayEnd") THEN Begin(t, c.stack)
  ELSE IF \/ c.pc \in {"first", "separator"} /\ t.type = "arrayEnd"
          \/ c.pc \in {"open", "comma"} /\ t.type = "objectEnd"
       THEN Back(Pop(c.stack))
  ELSE IF \/ c.pc = "separator" /\ t.type = "arraySeparator"
          \/ c.pc = "colon" /\ t.type = "memberSeparator"
       THEN [pc |-> "value", stack |-> c.stack]
  ELSE IF c.pc \in {"open", "name"} /\ Key(t) THEN [pc |-> "colon", stack |-> c.stack]
  ELSE IF c.pc = "comma" /\ t.type = "arraySeparator" THEN [pc |-> "name", stack |-> c.stack]
  ELSE Dead

IsRun(run, s) ==
  /\ run \in [0..Len(s) -> Config]
  /\ run[0] = [pc |-> "value", stack |-> <<>>]
  /\ \A k \in 1..Len(s): run[k] = Advance(run[k - 1], s[k])

LEMMA Pushed ==
  ASSUME NEW S, NEW stack \in Seq(S), NEW x \in S
  PROVE  /\ Append(stack, x) \in Seq(S) /\ Append(stack, x) # <<>>
         /\ Len(Append(stack, x)) = Len(stack) + 1 /\ Append(stack, x)[Len(stack) + 1] = x
         /\ \A i \in 1..Len(stack): Append(stack, x)[i] = stack[i]
         /\ Pop(Append(stack, x)) = stack
<1>. DEFINE more == Append(stack, x)
<1>1. /\ more \in Seq(S) /\ Len(more) = Len(stack) + 1 /\ more[Len(stack) + 1] = x
      /\ \A i \in 1..Len(stack): more[i] = stack[i]
  BY AppendProperties
<1>2. more # <<>>
  BY <1>1, EmptySeq
<1>. HIDE DEF more
<1>3. Pop(more) = SubSeq(more, 1, Len(stack))
  BY <1>1, <1>2 DEF Pop
<1>4. \A i \in 1..Len(stack): more[i] \in S
  BY <1>1
<1>5. /\ Pop(more) \in Seq(S) /\ Len(Pop(more)) = Len(stack)
      /\ \A i \in 1..Len(stack): Pop(more)[i] = more[i]
  BY <1>3, <1>4, SubSeqProperties
<1>6. Pop(more) = stack
  BY <1>1, <1>5, SeqEqual
<1>. QED  BY <1>1, <1>2, <1>6 DEF more

LEMMA Popped ==
  ASSUME NEW S, NEW stack \in Seq(S), stack # <<>>
  PROVE  /\ Pop(stack) \in Seq(S) /\ Len(stack) \in Nat /\ Len(stack) >= 1
         /\ Len(Pop(stack)) = Len(stack) - 1
         /\ \A i \in 1..Len(stack) - 1: Pop(stack)[i] = stack[i]
<1>1. Len(stack) \in Nat /\ Len(stack) >= 1
  BY EmptySeq
<1>2. Pop(stack) = SubSeq(stack, 1, Len(stack) - 1)
  BY DEF Pop
<1>. DEFINE n == Len(stack) - 1
<1>3. n \in Nat /\ \A i \in 1..n: stack[i] \in S /\ 1 + i - 1 = i
  BY <1>1
<1>. HIDE DEF n
<1>4. /\ SubSeq(stack, 1, n) \in Seq(S)
      /\ Len(SubSeq(stack, 1, n)) = IF 1 <= n THEN n - 1 + 1 ELSE 0
      /\ \A i \in 1..n - 1 + 1: SubSeq(stack, 1, n)[i] = stack[1 + i - 1]
  BY <1>3, SubSeqProperties
<1>5. Len(SubSeq(stack, 1, n)) = n /\ \A i \in 1..n: SubSeq(stack, 1, n)[i] = stack[i]
  BY <1>3, <1>4
<1>. QED  BY <1>1, <1>2, <1>4, <1>5 DEF n

LEMMA AdvanceConfig ==
  ASSUME NEW c \in Config, NEW t
  PROVE  Advance(c, t) \in Config
<1>1. c.pc \in Places /\ c.stack \in Seq(Boxes) /\ (c.pc \in Inside => c.stack # <<>>)
  BY DEF Config
<1>2. \A stack \in Seq(Boxes): Back(stack) \in Config
  BY DEF Back, Config, Places, Inside
<1>3. Dead \in Config
  BY EmptySeq DEF Dead, Config, Places, Inside
<1>4. Begin(t, c.stack) \in Config
  <2>0. "object" \in Boxes /\ "array" \in Boxes
    BY DEF Boxes
  <2>1. Append(c.stack, "object") \in Seq(Boxes) /\ Append(c.stack, "array") \in Seq(Boxes)
    BY <1>1, <2>0, Pushed
  <2>2. Append(c.stack, "object") # <<>> /\ Append(c.stack, "array") # <<>>
    BY <1>1, <2>0, Pushed
  <2>. QED  BY <1>1, <1>2, <1>3, <2>1, <2>2 DEF Begin, Config, Places, Inside
<1>5. c.pc \in {"first", "separator", "open", "comma"} => Back(Pop(c.stack)) \in Config
  BY <1>1, <1>2, Popped DEF Inside
<1>6. \A at \in {"value", "colon", "name"}:
        at = "value" \/ c.pc \in Inside => [pc |-> at, stack |-> c.stack] \in Config
  BY <1>1 DEF Config, Places, Inside
<1>. QED  BY <1>3, <1>4, <1>5, <1>6 DEF Advance, Inside

\* The greatest of some numbers.
LEMMA GreatestNumber ==
  ASSUME NEW N \in Nat, NEW W \in SUBSET (0..N), W # {}
  PROVE  \E n \in W: \A m \in W: m <= n
<1>. DEFINE V == {N - w: w \in W}
<1>0. \A w \in W: w \in Nat /\ N - w \in Nat
  OBVIOUS
<1>1. V \in SUBSET Nat /\ V # {}
  BY <1>0
<1>2. PICK v \in V: \A m \in V: v <= m
  <2>. HIDE DEF V
  <2>. QED  BY <1>1, LeastNumber
<1>3. PICK n \in W: v = N - n
  BY <1>2
<1>4. ASSUME NEW m \in W PROVE m <= n
  <2>1. v <= N - m
    BY <1>2
  <2>2. m \in 0..N /\ n \in 0..N
    OBVIOUS
  <2>. QED  BY <1>3, <2>1, <2>2
<1>. QED  BY <1>4

-----------------------------------------------------------------------------
(* What is a value in the grammar is read as one *)

Fixed(s, v) == \A n \in 0..Len(s): v[n] = ValuesOf(s, v, n)

\* Values of n tokens are read as values.
Reads(run, v, n) ==
  \A i \in v[n]:
    run[i - 1].pc \in {"value", "first"} => run[i + n - 1] = Back(run[i - 1].stack)

\* An item can begin here.
ReadyFor(kind, c, stack) ==
  /\ c.stack = stack
  /\ c.pc \in IF kind = "object" THEN {"open", "name"} ELSE {"first", "value"}

LEMMA ItemIsRead ==
  ASSUME NEW s, Len(s) \in Nat, NEW v, Fixed(s, v), NEW run, IsRun(run, s),
         NEW kind \in Boxes, NEW a \in 0..Len(s), NEW b \in 1..Len(s) + 1, NEW stack,
         \A n \in 0..b - a - 1: Reads(run, v, n),
         ReadyFor(kind, run[a], stack), IsItem(s, v, kind, a, b)
  PROVE  run[b - 1] = Back(stack) /\ b - a > 1
<1>1. CASE kind = "object"
  <2>1. /\ b - a > 3 /\ s[a + 1].type = "string" /\ s[a + 2].type = "memberSeparator"
        /\ DecodeString(s[a + 1]) # Failed
        /\ a + 3 \in v[b - a - 3]
    BY <1>1 DEF IsItem, Type
  <2>2. a + 1 \in 1..Len(s) /\ a + 2 \in 1..Len(s) /\ (a + 1) - 1 = a /\ (a + 2) - 1 = a + 1
    BY <2>1
  <2>3. run[a].pc \in {"open", "name"} /\ run[a].stack = stack
    BY <1>1 DEF ReadyFor
  <2>4. run[a + 1] = Advance(run[a], s[a + 1])
    BY <2>2 DEF IsRun
  <2>5. run[a + 1] = [pc |-> "colon", stack |-> stack]
    BY <2>1, <2>3, <2>4 DEF Advance, Key
  <2>6. run[a + 2] = Advance(run[a + 1], s[a + 2])
    BY <2>2 DEF IsRun
  <2>7. run[a + 2] = [pc |-> "value", stack |-> stack]
    BY <2>1, <2>5, <2>6 DEF Advance
  <2>8. b - a - 3 \in 0..b - a - 1 /\ (a + 3) - 1 = a + 2 /\ (a + 3) + (b - a - 3) - 1 = b - 1
    BY <2>1, SMTT(60)
  <2>. QED  BY <2>1, <2>7, <2>8 DEF Reads
<1>2. CASE kind = "array"
  <2>1. b - a > 1 /\ a + 1 \in v[b - a - 1]
    BY <1>2 DEF IsItem
  <2>2. run[a].pc \in {"first", "value"} /\ run[a].stack = stack
    BY <1>2 DEF ReadyFor
  <2>3. b - a - 1 \in 0..b - a - 1 /\ (a + 1) - 1 = a /\ (a + 1) + (b - a - 1) - 1 = b - 1
    BY <2>1
  <2>. QED  BY <2>1, <2>2, <2>3 DEF Reads
<1>. QED  BY <1>1, <1>2 DEF Boxes

\* The start of every item of a container, and its end, are reached.
LEMMA ContainerIsRead ==
  ASSUME NEW s, Len(s) \in Nat, NEW v, Fixed(s, v), NEW run, IsRun(run, s),
         NEW kind \in Boxes, NEW i \in 1..Len(s), NEW j \in 1..Len(s),
         \A n \in 0..j - i: Reads(run, v, n),
         IsContainer(s, v, kind, i, j), run[i - 1].pc \in {"value", "first"}
  PROVE  run[j] = Back(run[i - 1].stack)
<1>. DEFINE st == run[i - 1].stack
            stack == Append(st, kind)
<1>1. /\ i < j
      /\ s[i].type = IF kind = "object" THEN "objectBegin" ELSE "arrayBegin"
      /\ s[j].type = IF kind = "object" THEN "objectEnd" ELSE "arrayEnd"
  BY DEF IsContainer, Type, Opens, Closes
<1>2. st \in Seq(Boxes)
  <2>1. i - 1 \in 0..Len(s)
    OBVIOUS
  <2>. QED  BY <2>1 DEF IsRun, Config
<1>3. stack # <<>> /\ Pop(stack) = st /\ stack[Len(stack)] = kind
  BY <1>2, Pushed
<1>. HIDE DEF stack
<1>4. run[i] = [pc |-> IF kind = "object" THEN "open" ELSE "first", stack |-> stack]
  <2>1. run[i] = Advance(run[i - 1], s[i])
    BY DEF IsRun
  <2>2. run[i] = Begin(s[i], st)
    BY <1>1, <2>1 DEF Advance, Boxes
  <2>. QED  BY <1>1, <2>2 DEF Begin, stack, Boxes
<1>5. run[j] = Advance(run[j - 1], s[j])
  BY DEF IsRun
<1>6. ASSUME run[j - 1].stack = stack,
             run[j - 1].pc \in IF kind = "object" THEN {"open", "comma"} ELSE {"first", "separator"}
      PROVE  run[j] = Back(st)
  BY <1>1, <1>3, <1>5, <1>6 DEF Advance, Boxes
<1>7. CASE j = i + 1
  <2>1. j - 1 = i
    BY <1>7
  <2>. QED  BY <1>4, <1>6, <2>1
<1>8. ASSUME NEW commas \in SUBSET {k \in i + 1..j - 1: Type(s, k) = "arraySeparator"},
             \A a, b \in commas \cup {i, j}:
               a < b /\ ~(\E c \in commas: a < c /\ c < b) => IsItem(s, v, kind, a, b)
      PROVE  run[j] = Back(st)
  <2>1. \A c \in commas: c \in i + 1..j - 1 /\ s[c].type = "arraySeparator"
    BY DEF Type
  <2>. DEFINE ReadyAt(a) == ReadyFor(kind, run[a], stack)
              Bad == {c \in commas: ~ReadyAt(c)}
  <2>2. ReadyAt(i)
    BY <1>4 DEF ReadyFor, Boxes
  <2>3. ASSUME NEW b \in commas \cup {j}, \A c \in commas: c < b => ReadyAt(c)
        PROVE  run[b - 1] = Back(stack)
    <3>. DEFINE W == {c \in commas \cup {i}: c < b}
    <3>1. b \in i + 1..j
      BY <1>1, <2>1
    <3>2. W \in SUBSET (0..Len(s)) /\ W # {}
      <4>1. \A c \in commas \cup {i}: c \in 0..Len(s)
        BY <2>1
      <4>2. i \in W
        BY <3>1
      <4>. QED  BY <4>1, <4>2
    <3>3. PICK a \in W: \A m \in W: m <= a
      <4>. HIDE DEF W
      <4>. QED  BY <3>2, GreatestNumber
    <3>4. a \in commas \cup {i} /\ a < b /\ a \in i..j /\ ReadyAt(a)
      BY <1>1, <2>1, <2>2, <2>3, <3>3
    <3>5. ~(\E c \in commas: a < c /\ c < b)
      BY <2>1, <3>1, <3>3, <3>4
    <3>6. IsItem(s, v, kind, a, b)
      BY <1>8, <3>4, <3>5
    <3>7. a \in 0..Len(s) /\ b \in 1..Len(s) + 1 /\ \A n \in 0..b - a - 1: n \in 0..j - i
      BY <3>1, <3>4
    <3>. HIDE DEF W
    <3>. QED  BY <3>4, <3>6, <3>7, ItemIsRead
  <2>4. Bad = {}
    <3>. SUFFICES ASSUME Bad # {} PROVE FALSE
      OBVIOUS
    <3>1. Bad \in SUBSET Nat
      <4>1. \A c \in commas: c \in Nat
        BY <2>1
      <4>. HIDE DEF ReadyAt
      <4>. QED  BY <4>1
    <3>2. PICK b \in Bad: \A m \in Bad: b <= m
      <4>. HIDE DEF Bad
      <4>. QED  BY <3>1, LeastNumber
    <3>3. b \in commas /\ ~ReadyAt(b) /\ b \in i + 1..j - 1 /\ s[b].type = "arraySeparator"
      BY <2>1, <3>2
    <3>4. \A c \in commas: c < b => ReadyAt(c)
      BY <2>1, <3>2, <3>3
    <3>5. run[b - 1] = Back(stack)
      BY <2>3, <3>3, <3>4
    <3>6. run[b] = Advance(run[b - 1], s[b])
      BY <3>3 DEF IsRun
    <3>7. run[b] = [pc |-> IF kind = "object" THEN "name" ELSE "value", stack |-> stack]
      BY <1>3, <3>3, <3>5, <3>6 DEF Advance, Back, Boxes
    <3>. QED  BY <3>3, <3>7 DEF ReadyFor, Boxes
  <2>5. run[j - 1] = Back(stack)
    BY <2>3, <2>4
  <2>. QED  BY <1>3, <1>6, <2>5 DEF Back, Boxes
<1>. QED  BY <1>7, <1>8 DEF IsContainer

LEMMA ValuesAreRead ==
  ASSUME NEW s, Len(s) \in Nat, NEW v, Fixed(s, v), NEW run, IsRun(run, s)
  PROVE  \A n \in 0..Len(s): Reads(run, v, n)
<1>. DEFINE Bad == {n \in 0..Len(s): ~Reads(run, v, n)}
<1>. SUFFICES ASSUME Bad # {} PROVE FALSE
  OBVIOUS
<1>1. PICK n \in Bad: \A m \in Bad: n <= m
  <2>1. Bad \in SUBSET Nat
    OBVIOUS
  <2>. HIDE DEF Bad
  <2>. QED  BY <2>1, LeastNumber
<1>2. n \in 0..Len(s) /\ ~Reads(run, v, n)
  BY <1>1
<1>3. \A m \in 0..n - 1: Reads(run, v, m)
  BY <1>1, <1>2
<1>4. ASSUME NEW i \in v[n], run[i - 1].pc \in {"value", "first"}
      PROVE  run[i + n - 1] = Back(run[i - 1].stack)
  <2>1. i \in ValuesOf(s, v, n)
    BY <1>2, <1>4 DEF Fixed
  <2>2. CASE /\ n = 1 /\ s[i].type \in {"number", "string", "literal"}
             /\ Scalar(s[i]) # Failed
    <3>1. i \in 1..Len(s) /\ i + n - 1 = i
      BY <2>1, <2>2 DEF ValuesOf
    <3>2. run[i] = Advance(run[i - 1], s[i])
      BY <3>1 DEF IsRun
    <3>3. run[i] = Begin(s[i], run[i - 1].stack)
      BY <1>4, <2>2, <3>2 DEF Advance
    <3>. QED  BY <2>2, <3>1, <3>3 DEF Begin
  <2>3. ASSUME NEW kind \in {"object", "array"}, IsContainer(s, v, kind, i, i + n - 1)
        PROVE  run[i + n - 1] = Back(run[i - 1].stack)
    <3>. DEFINE j == i + n - 1
    <3>1. i \in 1..Len(s) - n + 1 /\ i < j
      BY <2>1, <2>3 DEF ValuesOf, IsContainer
    <3>2. i \in 1..Len(s) /\ j \in 1..Len(s) /\ j - i = n - 1
      BY <1>2, <3>1
    <3>3. kind \in Boxes
      BY DEF Boxes
    <3>4. \A m \in 0..j - i: Reads(run, v, m)
      BY <1>3, <3>2
    <3>. HIDE DEF j
    <3>. QED  BY <1>4, <2>3, <3>2, <3>3, <3>4, ContainerIsRead DEF j
  <2>. QED  BY <2>1, <2>2, <2>3 DEF ValuesOf, Type
<1>. QED  BY <1>2, <1>4 DEF Reads

-----------------------------------------------------------------------------
(* What is read as a value is one in the grammar *)

\* s[a + 1..e] is a list of items with a comma after each.
Lists(s, v, kind, a, e) ==
  \E commas \in SUBSET {k \in a + 1..e: Type(s, k) = "arraySeparator"}:
    /\ e \in commas \cup {a}
    /\ \A x, y \in commas \cup {a}:
         x < y /\ ~(\E c \in commas: x < c /\ c < y) => IsItem(s, v, kind, x, y)

\* The value of an item can begin with s[p].
Ready(s, v, kind, a, p) ==
  IF kind = "object"
  THEN /\ a <= p - 3 /\ Lists(s, v, kind, a, p - 3)
       /\ Key(s[p - 2]) /\ s[p - 1].type = "memberSeparator"
  ELSE a <= p - 1 /\ Lists(s, v, kind, a, p - 1)

\* One more item has been read, up to s[k].
Complete(s, v, kind, a, k) ==
  \E e \in a..k: Lists(s, v, kind, a, e) /\ IsItem(s, v, kind, e, k + 1)

LEMMA NoneListed ==
  ASSUME NEW s, NEW v, NEW kind \in Boxes, NEW a \in Nat
  PROVE  Lists(s, v, kind, a, a)
<1>. DEFINE none == {}
<1>1. none \in SUBSET {k \in a + 1..a: Type(s, k) = "arraySeparator"}
  OBVIOUS
<1>2. \A x, y \in none \cup {a}: ~(x < y)
  OBVIOUS
<1>3. a \in none \cup {a}
  OBVIOUS
<1>. QED  BY <1>1, <1>2, <1>3 DEF Lists

\* The items between an opening and the next comma or the end.
LEMMA OneMoreItem ==
  ASSUME NEW s, NEW v, NEW kind \in Boxes, NEW a \in Nat, NEW e \in Nat, NEW y \in Nat,
         a <= e, e < y, Lists(s, v, kind, a, e), IsItem(s, v, kind, e, y)
  PROVE  /\ s[y].type = "arraySeparator" => Lists(s, v, kind, a, y)
         /\ /\ s[a].type = IF kind = "object" THEN "objectBegin" ELSE "arrayBegin"
            /\ s[y].type = IF kind = "object" THEN "objectEnd" ELSE "arrayEnd"
            => IsContainer(s, v, kind, a, y)
<1>1. PICK commas \in SUBSET {k \in a + 1..e: Type(s, k) = "arraySeparator"}:
        /\ e \in commas \cup {a}
        /\ \A x, z \in commas \cup {a}:
             x < z /\ ~(\E c \in commas: x < c /\ c < z) => IsItem(s, v, kind, x, z)
  BY DEF Lists
<1>2. /\ \A c \in commas: c \in Nat /\ a < c /\ c <= e /\ Type(s, c) = "arraySeparator"
      /\ \A c \in commas \cup {a}: c \in Nat /\ a <= c /\ c <= e
  BY <1>1
<1>3. ASSUME NEW x \in commas \cup {a, y}, NEW z \in commas \cup {a, y}, x < z,
             ~(\E c \in commas: x < c /\ c < z)
      PROVE  IsItem(s, v, kind, x, z)
  <2>1. x \in commas \cup {a}
    BY <1>2, <1>3
  <2>2. CASE z \in commas \cup {a}
    BY <1>1, <1>3, <2>1, <2>2
  <2>3. CASE z = y
    <3>1. x = e
      BY <1>1, <1>2, <1>3, <2>1, <2>3
    <3>. QED  BY <2>3, <3>1
  <2>. QED  BY <1>3, <2>2, <2>3
<1>4. ASSUME s[y].type = "arraySeparator" PROVE Lists(s, v, kind, a, y)
  <2>. DEFINE more == commas \cup {y}
  <2>1. more \in SUBSET {k \in a + 1..y: Type(s, k) = "arraySeparator"}
    BY <1>2, <1>4 DEF Type
  <2>2. y \in more \cup {a}
    OBVIOUS
  <2>3. ASSUME NEW x \in more \cup {a}, NEW z \in more \cup {a}, x < z,
               ~(\E c \in more: x < c /\ c < z)
        PROVE  IsItem(s, v, kind, x, z)
    BY <1>3, <2>3
  <2>. QED  BY <2>1, <2>2, <2>3 DEF Lists
<1>5. ASSUME s[a].type = IF kind = "object" THEN "objectBegin" ELSE "arrayBegin",
             s[y].type = IF kind = "object" THEN "objectEnd" ELSE "arrayEnd"
      PROVE  IsContainer(s, v, kind, a, y)
  <2>1. commas \in SUBSET {k \in a + 1..y - 1: Type(s, k) = "arraySeparator"}
    BY <1>2
  <2>2. a < y /\ Type(s, a) = Opens(kind) /\ Type(s, y) = Closes(kind)
    BY <1>5 DEF Type, Opens, Closes
  <2>. QED  BY <1>3, <2>1, <2>2 DEF IsContainer
<1>. QED  BY <1>4, <1>5

LEMMA ItemIsComplete ==
  ASSUME NEW s, Len(s) \in Nat, NEW v, NEW kind \in Boxes,
         NEW a \in Nat, NEW p \in Nat, NEW k \in Nat,
         p <= k, p \in v[k - p + 1], Ready(s, v, kind, a, p)
  PROVE  Complete(s, v, kind, a, k)
<1>1. CASE kind = "object"
  <2>. DEFINE e == p - 3
  <2>1. /\ a <= e /\ Lists(s, v, kind, a, e) /\ Key(s[e + 1]) /\ s[e + 2].type = "memberSeparator"
    <3>1. e + 1 = p - 2 /\ e + 2 = p - 1
      OBVIOUS
    <3>. QED  BY <1>1, <3>1 DEF Ready
  <2>2. (k + 1) - e > 3 /\ e + 3 = p /\ (k + 1) - e - 3 = k - p + 1 /\ e \in a..k
    BY <2>1
  <2>. HIDE DEF e
  <2>3. IsItem(s, v, kind, e, k + 1)
    BY <1>1, <2>1, <2>2 DEF IsItem, Key, Type
  <2>. QED  BY <2>1, <2>2, <2>3 DEF Complete
<1>2. CASE kind = "array"
  <2>. DEFINE e == p - 1
  <2>1. a <= e /\ Lists(s, v, kind, a, e)
    BY <1>2 DEF Ready
  <2>2. (k + 1) - e > 1 /\ e + 1 = p /\ (k + 1) - e - 1 = k - p + 1 /\ e \in a..k
    BY <2>1
  <2>. HIDE DEF e
  <2>3. IsItem(s, v, kind, e, k + 1)
    BY <1>2, <2>1, <2>2 DEF IsItem
  <2>. QED  BY <2>1, <2>2, <2>3 DEF Complete
<1>. QED  BY <1>1, <1>2 DEF Boxes

\* In the m-th container from the outermost, or in none, a value can begin with s[p].
Begins(s, v, stack, b, m, p) == IF m = 0 THEN p = 1 ELSE Ready(s, v, stack[m], b[m], p)

\* b tells where the containers that are being read begin.
Nested(s, v, stack, b, k) ==
  /\ b \in [1..Len(stack) -> 1..k]
  /\ \A m \in 1..Len(stack):
       /\ s[b[m]].type = IF stack[m] = "object" THEN "objectBegin" ELSE "arrayBegin"
       /\ Begins(s, v, stack, b, m - 1, b[m])

\* What has been read of the innermost one.
Where(s, v, c, b, k) ==
  LET d == Len(c.stack) IN
  /\ c.pc = "value" => Begins(s, v, c.stack, b, d, k + 1)
  /\ c.pc \in Inside =>
       c.stack[d] = IF c.pc \in {"first", "separator"} THEN "array" ELSE "object"
  /\ c.pc \in {"open", "first"} => b[d] = k
  /\ c.pc = "name" => b[d] <= k /\ Lists(s, v, "object", b[d], k)
  /\ c.pc = "colon" => b[d] <= k - 1 /\ Lists(s, v, "object", b[d], k - 1) /\ Key(s[k])
  /\ c.pc \in {"separator", "comma"} => Complete(s, v, c.stack[d], b[d], k)
  /\ c.pc = "tail" => c.stack = <<>> /\ 1 \in v[k]

Holds(s, v, c, k) ==
  c.pc # "dead" => \E b: Nested(s, v, c.stack, b, k) /\ Where(s, v, c, b, k)

LEMMA NestedOn ==
  ASSUME NEW s, NEW v, NEW stack, NEW b, NEW k \in Nat, Nested(s, v, stack, b, k)
  PROVE  Nested(s, v, stack, b, k + 1)
<1>1. 1..k \subseteq 1..k + 1
  OBVIOUS
<1>. QED  BY <1>1 DEF Nested

LEMMA ValueIsDone ==
  ASSUME NEW s, Len(s) \in Nat, NEW v, NEW stack \in Seq(Boxes), NEW b, NEW k \in Nat,
         Nested(s, v, stack, b, k), NEW p \in 1..k, p \in v[k - p + 1],
         Begins(s, v, stack, b, Len(stack), p)
  PROVE  Where(s, v, Back(stack), b, k)
<1>. DEFINE c == Back(stack)
            d == Len(stack)
<1>1. c.stack = stack /\ d \in Nat
  BY DEF Back
<1>2. CASE stack = <<>>
  <2>1. c.pc = "tail" /\ d = 0
    BY <1>2, EmptySeq DEF Back
  <2>2. p = 1 /\ k - p + 1 = k
    BY <2>1 DEF Begins
  <2>3. c.stack = <<>> /\ 1 \in v[k]
    BY <1>1, <1>2, <2>2
  <2>. HIDE DEF c
  <2>4. Where(s, v, c, b, k)
    BY <2>1, <2>3 DEF Where, Inside
  <2>. QED  BY <2>4 DEF c
<1>3. CASE stack # <<>>
  <2>1. d >= 1 /\ d # 0 /\ stack[d] \in Boxes
    BY <1>1, <1>3, EmptySeq
  <2>2. c.pc = IF stack[d] = "object" THEN "comma" ELSE "separator"
    BY <1>3 DEF Back
  <2>3. b[d] \in 1..k
    BY <1>1, <2>1 DEF Nested
  <2>4. Ready(s, v, stack[d], b[d], p)
    BY <2>1 DEF Begins
  <2>5. Complete(s, v, stack[d], b[d], k)
    BY <2>1, <2>3, <2>4, ItemIsComplete
  <2>6. c.stack[d] = IF c.pc = "separator" THEN "array" ELSE "object"
    BY <1>1, <2>1, <2>2 DEF Boxes
  <2>7. Len(c.stack) = d /\ Complete(s, v, c.stack[d], b[d], k) /\ c.pc \in {"comma", "separator"}
    BY <1>1, <2>2, <2>5
  <2>. HIDE DEF c, d
  <2>8. Where(s, v, c, b, k)
    BY <2>6, <2>7 DEF Where, Inside
  <2>. QED  BY <2>8 DEF c
<1>. QED  BY <1>2, <1>3

LEMMA ContainerIsBegun ==
  ASSUME NEW s, NEW v, NEW stack \in Seq(Boxes), NEW b, NEW k \in Nat,
         Nested(s, v, stack, b, k), Begins(s, v, stack, b, Len(stack), k + 1), NEW kind \in Boxes,
         s[k + 1].type = IF kind = "object" THEN "objectBegin" ELSE "arrayBegin"
  PROVE  \E b_1: /\ Nested(s, v, Append(stack, kind), b_1, k + 1)
                 /\ b_1[Len(stack) + 1] = k + 1
<1>. DEFINE d == Len(stack)
            more == Append(stack, kind)
            c == [m \in 1..d + 1 |-> IF m = d + 1 THEN k + 1 ELSE b[m]]
<1>1. /\ d \in Nat /\ Len(more) = d + 1 /\ more[d + 1] = kind
      /\ \A m \in 1..d: more[m] = stack[m]
  BY Pushed
<1>2. c \in [1..d + 1 -> 1..k + 1] /\ c[d + 1] = k + 1 /\ \A m \in 1..d: c[m] = b[m]
  BY <1>1 DEF Nested
<1>. HIDE DEF more, c
<1>3. ASSUME NEW m \in 1..d + 1
      PROVE  /\ s[c[m]].type = IF more[m] = "object" THEN "objectBegin" ELSE "arrayBegin"
             /\ Begins(s, v, more, c, m - 1, c[m])
  <2>1. m - 1 = 0 \/ m - 1 \in 1..d
    BY <1>1
  <2>2. \A p: Begins(s, v, more, c, m - 1, p) <=> Begins(s, v, stack, b, m - 1, p)
    BY <1>1, <1>2, <2>1 DEF Begins
  <2>3. CASE m = d + 1
    <3>1. m - 1 = d
      BY <1>1, <2>3
    <3>. QED  BY <1>1, <1>2, <2>2, <2>3, <3>1
  <2>4. CASE m \in 1..d
    BY <1>1, <1>2, <2>2, <2>4 DEF Nested
  <2>. QED  BY <1>1, <2>3, <2>4
<1>4. Nested(s, v, more, c, k + 1)
  BY <1>1, <1>2, <1>3 DEF Nested
<1>. QED  BY <1>2, <1>4 DEF more

LEMMA ContainerIsDone ==
  ASSUME NEW s, Len(s) \in Nat, NEW v, Fixed(s, v), NEW stack \in Seq(Boxes), stack # <<>>, NEW b,
         NEW k \in Nat, k + 1 <= Len(s), Nested(s, v, stack, b, k),
         IsContainer(s, v, stack[Len(stack)], b[Len(stack)], k + 1)
  PROVE  Holds(s, v, Back(Pop(stack)), k + 1)
<1>. DEFINE d == Len(stack)
            st == Pop(stack)
            c == [m \in 1..d - 1 |-> b[m]]
            p == b[d]
<1>1. /\ d \in Nat /\ d >= 1 /\ st \in Seq(Boxes) /\ Len(st) = d - 1
      /\ \A m \in 1..d - 1: st[m] = stack[m]
  BY Popped
<1>2. p \in 1..k /\ stack[d] \in {"object", "array"}
  BY <1>1 DEF Nested, Boxes
<1>3. p \in v[(k + 1) - p + 1]
  <2>. DEFINE n == (k + 1) - p + 1
  <2>1. n \in 0..Len(s) /\ p \in 1..Len(s) - n + 1 /\ p + n - 1 = k + 1
    BY <1>2
  <2>. HIDE DEF n
  <2>2. p \in ValuesOf(s, v, n)
    BY <1>2, <2>1 DEF ValuesOf
  <2>. QED  BY <2>1, <2>2 DEF Fixed, n
<1>4. c \in [1..d - 1 -> 1..k + 1] /\ \A m \in 1..d - 1: c[m] = b[m]
  BY <1>1 DEF Nested
<1>. HIDE DEF st, c
<1>5. ASSUME NEW m \in 0..d - 1, NEW q
      PROVE  Begins(s, v, st, c, m, q) <=> Begins(s, v, stack, b, m, q)
  BY <1>1, <1>4 DEF Begins
<1>6. ASSUME NEW m \in 1..d - 1
      PROVE  /\ s[c[m]].type = IF st[m] = "object" THEN "objectBegin" ELSE "arrayBegin"
             /\ Begins(s, v, st, c, m - 1, c[m])
  <2>1. m - 1 \in 0..d - 1 /\ m \in 1..d
    BY <1>1
  <2>. QED  BY <1>1, <1>4, <1>5, <2>1 DEF Nested
<1>7. Nested(s, v, st, c, k + 1)
  BY <1>1, <1>4, <1>6 DEF Nested
<1>8. Begins(s, v, st, c, Len(st), p)
  <2>1. d - 1 \in 0..d - 1 /\ d \in 1..d
    BY <1>1
  <2>. QED  BY <1>1, <1>5, <2>1 DEF Nested
<1>9. p \in 1..k + 1 /\ k + 1 \in Nat
  BY <1>2
<1>. HIDE DEF p
<1>10. Where(s, v, Back(st), c, k + 1)
  BY <1>1, <1>3, <1>7, <1>8, <1>9, ValueIsDone
<1>. QED  BY <1>7, <1>10 DEF Holds, Back, st

LEMMA HoldsOn ==
  ASSUME NEW s, Len(s) \in Nat, NEW v, Fixed(s, v), NEW c \in Config, NEW k \in Nat,
         k + 1 <= Len(s), Holds(s, v, c, k)
  PROVE  Holds(s, v, Advance(c, s[k + 1]), k + 1)
<1>. DEFINE t == s[k + 1]
            next == Advance(c, t)
            stack == c.stack
            d == Len(stack)
<1>. SUFFICES ASSUME next.pc # "dead" PROVE Holds(s, v, next, k + 1)
  BY DEF Holds
<1>1. next # Dead
  BY DEF Dead
<1>2. c.pc # "dead"
  BY <1>1 DEF Advance
<1>3. PICK b: Nested(s, v, stack, b, k) /\ Where(s, v, c, b, k)
  BY <1>2 DEF Holds
<1>4. stack \in Seq(Boxes) /\ d \in Nat /\ (c.pc \in Inside => stack # <<>> /\ d >= 1)
  <2>1. stack \in Seq(Boxes) /\ (c.pc \in Inside => stack # <<>>)
    BY DEF Config
  <2>. QED  BY <2>1, EmptySeq
<1>5. Nested(s, v, stack, b, k + 1)
  BY <1>3, NestedOn
<1>6. c.pc \in Inside => b[d] \in 1..k
  BY <1>3, <1>4 DEF Nested
<1>7. c.pc \in Inside => /\ s[b[d]].type = IF stack[d] = "object" THEN "objectBegin" ELSE "arrayBegin"
                         /\ stack[d] = IF c.pc \in {"first", "separator"} THEN "array" ELSE "object"
                         /\ stack[d] \in Boxes
  BY <1>3, <1>4 DEF Nested, Where
\* Only the place changes.
<1>8. ASSUME NEW at \in {"value", "colon", "name"}, next = [pc |-> at, stack |-> stack],
             Where(s, v, next, b, k + 1)
      PROVE  Holds(s, v, next, k + 1)
  BY <1>5, <1>8 DEF Holds
<1>9. CASE c.pc = "value" \/ (c.pc = "first" /\ t.type # "arrayEnd")
  <2>1. next = Begin(t, stack)
    BY <1>9 DEF Advance
  <2>2. Begins(s, v, stack, b, d, k + 1)
    <3>1. CASE c.pc = "value"
      BY <1>3, <3>1 DEF Where
    <3>2. CASE c.pc = "first"
      <4>1. b[d] = k /\ stack[d] = "array" /\ d # 0 /\ k <= (k + 1) - 1 /\ (k + 1) - 1 = k
        BY <1>3, <1>4, <1>7, <3>2 DEF Where, Inside
      <4>2. Lists(s, v, "array", k, k)
        BY NoneListed DEF Boxes
      <4>. QED  BY <4>1, <4>2 DEF Begins, Ready
    <3>. QED  BY <1>9, <3>1, <3>2
  <2>3. ASSUME NEW kind \in Boxes, t.type = IF kind = "object" THEN "objectBegin" ELSE "arrayBegin",
               next = [pc |-> IF kind = "object" THEN "open" ELSE "first",
                       stack |-> Append(stack, kind)]
        PROVE  Holds(s, v, next, k + 1)
    <3>1. PICK b_1: /\ Nested(s, v, Append(stack, kind), b_1, k + 1)
                    /\ b_1[d + 1] = k + 1
      BY <1>3, <1>4, <2>2, <2>3, ContainerIsBegun
    <3>. DEFINE more == Append(stack, kind)
    <3>2. Len(more) = d + 1 /\ more[d + 1] = kind
      BY <1>4, Pushed
    <3>3. /\ next.stack = more
          /\ next.pc = IF kind = "object" THEN "open" ELSE "first"
      BY <2>3
    <3>. HIDE DEF more, next
    <3>4. Where(s, v, next, b_1, k + 1)
      BY <2>3, <3>1, <3>2, <3>3 DEF Where, Inside, Boxes
    <3>5. Nested(s, v, next.stack, b_1, k + 1)
      BY <3>1, <3>3 DEF more
    <3>. QED  BY <3>4, <3>5 DEF Holds
  <2>4. CASE t.type = "objectBegin"
    BY <2>1, <2>3, <2>4 DEF Begin, Boxes
  <2>5. CASE t.type = "arrayBegin"
    BY <2>1, <2>3, <2>5 DEF Begin, Boxes
  <2>6. CASE t.type \in {"number", "string", "literal"} /\ Scalar(t) # Failed
    <3>1. next = Back(stack)
      BY <2>1, <2>6 DEF Begin
    <3>2. k + 1 \in v[1]
      <4>1. 1 \in 0..Len(s) /\ k + 1 \in 1..Len(s) - 1 + 1
        OBVIOUS
      <4>2. k + 1 \in ValuesOf(s, v, 1)
        BY <2>6, <4>1 DEF ValuesOf, Type
      <4>. QED  BY <4>1, <4>2 DEF Fixed
    <3>3. k + 1 \in Nat /\ k + 1 \in 1..k + 1 /\ (k + 1) - (k + 1) + 1 = 1
      OBVIOUS
    <3>4. Where(s, v, Back(stack), b, k + 1)
      BY <1>4, <1>5, <2>2, <3>2, <3>3, ValueIsDone
    <3>. QED  BY <1>5, <3>1, <3>4 DEF Holds, Back
  <2>. QED  BY <1>1, <2>1, <2>4, <2>5, <2>6 DEF Begin
<1>10. CASE \/ c.pc \in {"first", "separator"} /\ t.type = "arrayEnd"
            \/ c.pc \in {"open", "comma"} /\ t.type = "objectEnd"
  <2>1. next = Back(Pop(stack)) /\ c.pc \in Inside
    BY <1>10 DEF Advance, Inside
  <2>. DEFINE kind == stack[d]
              a == b[d]
  <2>2. /\ kind \in Boxes /\ a \in 1..k
        /\ s[a].type = IF kind = "object" THEN "objectBegin" ELSE "arrayBegin"
        /\ s[k + 1].type = IF kind = "object" THEN "objectEnd" ELSE "arrayEnd"
    BY <1>6, <1>7, <1>10, <2>1
  <2>3. IsContainer(s, v, kind, a, k + 1)
    <3>1. CASE c.pc \in {"open", "first"}
      <4>1. a = k
        BY <1>3, <3>1 DEF Where
      <4>2. a < k + 1 /\ k + 1 = a + 1
        BY <4>1
      <4>. HIDE DEF a, kind
      <4>. QED  BY <2>2, <4>2 DEF IsContainer, Type, Opens, Closes
    <3>2. CASE c.pc \in {"separator", "comma"}
      <4>1. Complete(s, v, kind, a, k)
        BY <1>3, <3>2 DEF Where
      <4>2. PICK e \in a..k: Lists(s, v, kind, a, e) /\ IsItem(s, v, kind, e, k + 1)
        BY <4>1 DEF Complete
      <4>3. a \in Nat /\ e \in Nat /\ k + 1 \in Nat /\ a <= e /\ e < k + 1
        BY <2>2, <4>2
      <4>. HIDE DEF a, kind
      <4>. QED  BY <2>2, <4>2, <4>3, OneMoreItem
    <3>. QED  BY <1>10, <3>1, <3>2
  <2>. HIDE DEF next
  <2>. QED  BY <1>3, <1>4, <2>1, <2>3, ContainerIsDone
<1>11. CASE /\ c.pc \in {"separator", "comma"} /\ t.type = "arraySeparator"
  <2>. DEFINE kind == stack[d]
              a == b[d]
  <2>1. /\ kind = IF c.pc = "separator" THEN "array" ELSE "object"
        /\ kind \in Boxes /\ a \in 1..k /\ d # 0
    BY <1>4, <1>6, <1>7, <1>11 DEF Inside
  <2>2. next = [pc |-> IF c.pc = "separator" THEN "value" ELSE "name", stack |-> stack]
    BY <1>11 DEF Advance
  <2>3. Lists(s, v, kind, a, k + 1)
    <3>1. Complete(s, v, kind, a, k)
      BY <1>3, <1>11 DEF Where
    <3>2. PICK e \in a..k: Lists(s, v, kind, a, e) /\ IsItem(s, v, kind, e, k + 1)
      BY <3>1 DEF Complete
    <3>3. a \in Nat /\ e \in Nat /\ k + 1 \in Nat /\ a <= e /\ e < k + 1
      BY <2>1, <3>2
    <3>. HIDE DEF a, kind
    <3>. QED  BY <1>11, <2>1, <3>2, <3>3, OneMoreItem
  <2>4. a <= k + 1 /\ (k + 1) + 1 - 1 = k + 1
    BY <2>1
  <2>5. c.pc = "separator" => Begins(s, v, stack, b, d, (k + 1) + 1)
    BY <2>1, <2>3, <2>4 DEF Begins, Ready
  <2>6. CASE c.pc = "separator"
    <3>1. next.pc = "value" /\ next.stack = stack
      BY <2>2, <2>6
    <3>. HIDE DEF next
    <3>2. Where(s, v, next, b, k + 1)
      BY <2>5, <2>6, <3>1 DEF Where, Inside
    <3>. QED  BY <1>5, <3>1, <3>2 DEF Holds
  <2>7. CASE c.pc = "comma"
    <3>1. next.pc = "name" /\ next.stack = stack /\ kind = "object"
      BY <2>1, <2>2, <2>7
    <3>. HIDE DEF next
    <3>2. Where(s, v, next, b, k + 1)
      BY <2>3, <2>4, <3>1 DEF Where, Inside
    <3>. QED  BY <1>5, <3>1, <3>2 DEF Holds
  <2>. QED  BY <1>11, <2>6, <2>7
<1>12. CASE c.pc = "colon" /\ t.type = "memberSeparator"
  <2>1. next = [pc |-> "value", stack |-> stack]
    BY <1>12 DEF Advance
  <2>2. /\ stack[d] = "object" /\ d # 0
        /\ b[d] <= k - 1 /\ Lists(s, v, "object", b[d], k - 1) /\ Key(s[k])
    BY <1>3, <1>4, <1>7, <1>12 DEF Where, Inside
  <2>3. ((k + 1) + 1) - 3 = k - 1 /\ ((k + 1) + 1) - 2 = k /\ ((k + 1) + 1) - 1 = k + 1
    OBVIOUS
  <2>4. Begins(s, v, stack, b, d, (k + 1) + 1)
    BY <1>12, <2>2, <2>3 DEF Begins, Ready
  <2>5. next.pc = "value" /\ next.stack = stack
    BY <2>1
  <2>. HIDE DEF next
  <2>6. Where(s, v, next, b, k + 1)
    BY <2>4, <2>5 DEF Where, Inside
  <2>. QED  BY <1>5, <2>5, <2>6 DEF Holds
<1>13. CASE c.pc \in {"open", "name"} /\ Key(t)
  <2>1. next = [pc |-> "colon", stack |-> stack]
    BY <1>13 DEF Advance, Key
  <2>2. stack[d] = "object" /\ b[d] <= k /\ Lists(s, v, "object", b[d], k)
    <3>1. stack[d] = "object" /\ b[d] \in 1..k
      BY <1>6, <1>7, <1>13 DEF Inside
    <3>2. CASE c.pc = "open"
      <4>1. b[d] = k
        BY <1>3, <3>2 DEF Where
      <4>2. Lists(s, v, "object", k, k)
        BY NoneListed DEF Boxes
      <4>. QED  BY <3>1, <4>1, <4>2
    <3>3. CASE c.pc = "name"
      BY <1>3, <3>1, <3>3 DEF Where
    <3>. QED  BY <1>13, <3>2, <3>3
  <2>3. (k + 1) - 1 = k
    OBVIOUS
  <2>5. next.pc = "colon" /\ next.stack = stack
    BY <2>1
  <2>. HIDE DEF next
  <2>6. Where(s, v, next, b, k + 1)
    BY <1>13, <2>2, <2>3, <2>5 DEF Where, Inside
  <2>. QED  BY <1>5, <2>5, <2>6 DEF Holds
<1>. QED  BY <1>1, <1>9, <1>10, <1>11, <1>12, <1>13 DEF Advance

\* The documents after which the reader is back in parse are the values of the grammar.
LEMMA Recognised ==
  ASSUME NEW s, Len(s) \in Nat, NEW run, IsRun(run, s)
  PROVE  run[Len(s)].pc = "tail" <=> IsValue(s)
<1>. DEFINE v == ValueTable(s)
            N == Len(s)
            X == {k \in 0..N: Holds(s, v, run[k], k)}
<1>1. Fixed(s, v) /\ (IsValue(s) <=> 1 \in v[N])
  BY ValuesExist DEF Fixed
<1>. HIDE DEF v
<1>2. run[0] = [pc |-> "value", stack |-> <<>>] /\ \A k \in 0..N: run[k] \in Config
  BY DEF IsRun
<1>3. 0 \in X
  <2>1. Len(<<>>) = 0
    BY EmptySeq
  <2>2. Nested(s, v, <<>>, <<>>, 0)
    BY <2>1 DEF Nested
  <2>3. Where(s, v, run[0], <<>>, 0)
    BY <1>2, <2>1 DEF Where, Begins, Inside
  <2>4. Holds(s, v, run[0], 0)
    BY <1>2, <2>2, <2>3 DEF Holds
  <2>. QED  BY <2>4
<1>4. ASSUME NEW k \in 1..N, k - 1 \in X PROVE k \in X
  <2>1. k - 1 \in Nat /\ (k - 1) + 1 = k /\ k - 1 \in 0..N /\ k \in 0..N /\ (k - 1) + 1 <= N
    OBVIOUS
  <2>2. run[k] = Advance(run[k - 1], s[k])
    BY DEF IsRun
  <2>3. Holds(s, v, run[k - 1], k - 1)
    BY <1>4
  <2>4. Holds(s, v, Advance(run[k - 1], s[(k - 1) + 1]), (k - 1) + 1)
    BY <1>1, <1>2, <2>1, <2>3, HoldsOn
  <2>5. Holds(s, v, run[k], k)
    BY <2>1, <2>2, <2>4
  <2>. QED  BY <2>1, <2>5
<1>5. Holds(s, v, run[N], N)
  <2>1. 0..N \subseteq X
    <3>. HIDE DEF X
    <3>. QED  BY <1>3, <1>4, Induction
  <2>. QED  BY <2>1
<1>6. run[N].pc = "tail" => 1 \in v[N]
  BY <1>5 DEF Holds, Where
<1>7. 1 \in v[N] => run[N].pc = "tail"
  <2>1. Reads(run, v, N)
    BY <1>1, ValuesAreRead
  <2>2. 1 - 1 = 0 /\ 1 + N - 1 = N
    OBVIOUS
  <2>3. 1 \in v[N] => run[N] = Back(<<>>)
    BY <1>2, <2>1, <2>2 DEF Reads
  <2>. QED  BY <2>3 DEF Back
<1>. QED  BY <1>1, <1>6, <1>7

-----------------------------------------------------------------------------
(* Strings *)

Decoded == [text: Seq(Int), high: Nat, failed: BOOLEAN]

\* Something has been read, or goes on, or failed.
Started(s) == s \in Decoded /\ (s.failed = TRUE \/ s.high # 0 \/ s.text # <<>>)

LEMMA UTF8Is ==
  ASSUME NEW cp \in Nat, cp < 65536 + 1024 * 1024
  PROVE  UTF8(cp) \in Seq(Int) /\ UTF8(cp) # <<>>
<1>1. \A a, b, c, d \in Int:
        /\ <<a>> \in Seq(Int) /\ <<a, b>> \in Seq(Int) /\ <<a, b, c>> \in Seq(Int)
        /\ <<a, b, c, d>> \in Seq(Int)
        /\ <<a>> # <<>> /\ <<a, b>> # <<>> /\ <<a, b, c>> # <<>> /\ <<a, b, c, d>> # <<>>
  BY SMT
<1>2. /\ cp \div 64 \in Int /\ cp \div 4096 \in Int /\ cp \div 262144 \in Int
      /\ cp % 64 \in Int /\ (cp \div 64) % 64 \in Int /\ (cp \div 4096) % 64 \in Int
      /\ (cp \div 262144) % 8 \in Int
  BY SMT
<1>3. \/ \E a \in Int: UTF8(cp) = <<a>>
      \/ \E a, b \in Int: UTF8(cp) = <<a, b>>
      \/ \E a, b, c \in Int: UTF8(cp) = <<a, b, c>>
      \/ \E a, b, c, d \in Int: UTF8(cp) = <<a, b, c, d>>
  BY <1>2, SMT DEF UTF8
<1>4. CASE \E a \in Int: UTF8(cp) = <<a>>
  BY <1>1, <1>4
<1>5. CASE \E a, b \in Int: UTF8(cp) = <<a, b>>
  BY <1>1, <1>5
<1>6. CASE \E a, b, c \in Int: UTF8(cp) = <<a, b, c>>
  BY <1>1, <1>6
<1>7. CASE \E a, b, c, d \in Int: UTF8(cp) = <<a, b, c, d>>
  BY <1>1, <1>7
<1>. QED  BY <1>3, <1>4, <1>5, <1>6, <1>7

Large == 65536 + 1024 * 1024

LEMMA RecordIs ==
  ASSUME NEW A, NEW B, NEW p \in [esc: {FALSE}, code: A] \cup [esc: {TRUE}, letter: STRING, code: B]
  PROVE  p.esc \in BOOLEAN /\ (p.code \in A \/ p.code \in B)
<1>1. CASE p \in [esc: {FALSE}, code: A]
  <2>1. p.esc \in {FALSE} /\ p.code \in A
    BY <1>1, Zenon
  <2>2. \A x \in {FALSE}: x \in BOOLEAN
    OBVIOUS
  <2>. QED  BY <2>1, <2>2, Zenon
<1>2. CASE p \in [esc: {TRUE}, letter: STRING, code: B]
  <2>1. p.esc \in {TRUE} /\ p.code \in B
    BY <1>2, Zenon
  <2>2. \A x \in {TRUE}: x \in BOOLEAN
    OBVIOUS
  <2>. QED  BY <2>1, <2>2, Zenon
<1>. QED  BY <1>1, <1>2, Zenon

LEMMA DecodeOn ==
  ASSUME NEW s \in Decoded, NEW piece \in Piece
  PROVE  Started(DecodePiece(s, piece))
<1>0. /\ s = [text |-> s.text, high |-> s.high, failed |-> s.failed]
      /\ s.text \in Seq(Int) /\ s.high \in Nat /\ s.failed \in BOOLEAN
      /\ piece.esc \in BOOLEAN /\ piece.code \in Nat /\ piece.code < Large
  <2>1. piece.esc \in BOOLEAN /\ (piece.code \in Byte \/ piece.code \in Code)
    BY RecordIs DEF Piece
  <2>2. piece.code \in Nat /\ piece.code < Large
    BY <2>1, SMT DEF Byte, Code, Large
  <2>3. /\ s = [text |-> s.text, high |-> s.high, failed |-> s.failed]
        /\ s.text \in Seq(Int) /\ s.high \in Nat /\ s.failed \in BOOLEAN
    BY DEF Decoded
  <2>. QED  BY <2>1, <2>2, <2>3
<1>. DEFINE d == DecodePiece(s, piece)
<1>. SUFFICES Started(d)
  OBVIOUS
<1>1. CASE s.failed = TRUE
  <2>1. d = s
    BY <1>1 DEF DecodePiece
  <2>. QED  BY <1>1, <2>1 DEF Started
<1>2. ASSUME d = [s EXCEPT !.failed = TRUE] PROVE Started(d)
  <2>1. d \in Decoded /\ d.failed = TRUE
    BY <1>0, <1>2 DEF Decoded
  <2>. QED  BY <2>1 DEF Started
<1>3. ASSUME NEW c \in Int, d = [s EXCEPT !.text = Append(@, c)] PROVE Started(d)
  <2>1. Append(s.text, c) \in Seq(Int) /\ Append(s.text, c) # <<>>
    BY <1>0, AppendProperties
  <2>2. d = [text |-> Append(s.text, c), high |-> s.high, failed |-> s.failed]
    BY <1>0, <1>3
  <2>. QED  BY <1>0, <2>1, <2>2 DEF Started, Decoded
<1>4. ASSUME NEW high \in Nat, NEW cp \in Nat, cp < Large,
             d = [text |-> s.text \o UTF8(cp), high |-> high, failed |-> s.failed]
      PROVE  Started(d)
  <2>. DEFINE u == UTF8(cp)
  <2>1. u \in Seq(Int) /\ u # <<>>
    BY <1>4, UTF8Is, SMT DEF Large
  <2>. HIDE DEF u
  <2>2. s.text \o u \in Seq(Int) /\ s.text \o u # <<>>
    BY <1>0, <2>1, ConcatProperties, ConcatEqualIffEmpty
  <2>3. d = [text |-> s.text \o u, high |-> high, failed |-> s.failed]
    BY <1>4 DEF u
  <2>. QED  BY <1>0, <2>2, <2>3 DEF Started, Decoded
<1>5. CASE s.failed = FALSE /\ s.high # 0
  <2>. DEFINE cp == Pair(s.high, piece.code)
  <2>1. cp \in Nat /\ cp < Large
    <3>1. \A n \in Nat: n % 1024 \in Nat /\ n % 1024 < 1024
      BY SMT
    <3>2. cp = 65536 + (s.high % 1024) * 1024 + (piece.code % 1024)
      BY DEF Pair
    <3>3. /\ s.high % 1024 \in Nat /\ s.high % 1024 < 1024
          /\ piece.code % 1024 \in Nat /\ piece.code % 1024 < 1024
      BY <1>0, <3>1
    <3>4. \A a, b \in Nat: a < 1024 /\ b < 1024 =>
            65536 + a * 1024 + b \in Nat /\ 65536 + a * 1024 + b < 65536 + 1024 * 1024
      BY SMT
    <3>. HIDE DEF cp
    <3>. QED  BY <3>2, <3>3, <3>4, SMT DEF Large
  <2>2. CASE piece.esc /\ piece.letter = "u"
    <3>1. d = [s EXCEPT !.high = 0, !.text = @ \o UTF8(cp)]
      BY <1>5, <2>2 DEF DecodePiece
    <3>. HIDE DEF cp
    <3>2. d = [text |-> s.text \o UTF8(cp), high |-> 0, failed |-> s.failed]
      BY <1>0, <3>1
    <3>. QED  BY <1>4, <2>1, <3>2
  <2>3. CASE ~(piece.esc /\ piece.letter = "u")
    BY <1>2, <1>5, <2>3 DEF DecodePiece
  <2>. QED  BY <2>2, <2>3
<1>6. CASE s.failed = FALSE /\ s.high = 0 /\ piece.esc = FALSE
  <2>1. d = IF piece.code \in {QUOTE, BACKSLASH} THEN [s EXCEPT !.failed = TRUE]
            ELSE [s EXCEPT !.text = Append(@, piece.code)]
    BY <1>6 DEF DecodePiece
  <2>. HIDE DEF d
  <2>2. CASE d = [s EXCEPT !.failed = TRUE]
    BY <1>2, <2>2
  <2>3. CASE d = [s EXCEPT !.text = Append(@, piece.code)]
    <3>1. piece.code \in Int
      BY <1>0
    <3>. QED  BY <1>3, <2>3, <3>1
  <2>. QED  BY <2>1, <2>2, <2>3
<1>7. CASE s.failed = FALSE /\ s.high = 0 /\ piece.esc = TRUE
  <2>1. d = IF IsHigh(piece) THEN [s EXCEPT !.high = piece.code]
            ELSE IF piece.letter = "u" THEN [s EXCEPT !.text = @ \o UTF8(piece.code)]
            ELSE IF piece.letter = "slash" THEN [s EXCEPT !.text = Append(@, SLASH)]
            ELSE IF piece.letter \in DOMAIN Letters
                 THEN [s EXCEPT !.text = Append(@, Letters[piece.letter])]
            ELSE [s EXCEPT !.failed = TRUE]
    BY <1>7 DEF DecodePiece
  <2>2. CASE IsHigh(piece)
    <3>1. piece.code # 0
      BY <1>0, <2>2, SMT DEF IsHigh
    <3>2. d = [s EXCEPT !.high = piece.code]
      BY <2>1, <2>2
    <3>3. d = [text |-> s.text, high |-> piece.code, failed |-> s.failed]
      BY <1>0, <3>2
    <3>. QED  BY <1>0, <3>1, <3>3, SMT DEF Started, Decoded
  <2>3. ASSUME d = [s EXCEPT !.text = @ \o UTF8(piece.code)] PROVE Started(d)
    <3>1. d = [text |-> s.text \o UTF8(piece.code), high |-> s.high, failed |-> s.failed]
      BY <1>0, <2>3
    <3>. QED  BY <1>0, <1>4, <3>1
  <2>4. CASE d = [s EXCEPT !.text = Append(@, SLASH)]
    <3>1. SLASH \in Int
      BY DEF SLASH
    <3>. QED  BY <1>3, <2>4, <3>1
  <2>5. CASE /\ piece.letter \in DOMAIN Letters
             /\ d = [s EXCEPT !.text = Append(@, Letters[piece.letter])]
    <3>1. Letters[piece.letter] \in Int
      <4>1. DOMAIN Letters = {"quote", "backslash", "b", "f", "n", "r", "t"}
        BY DEF Letters
      <4>2. \A l \in {"quote", "backslash", "b", "f", "n", "r", "t"}: Letters[l] \in Int
        BY SMT DEF Letters, QUOTE, BACKSLASH
      <4>. QED  BY <2>5, <4>1, <4>2
    <3>. QED  BY <1>3, <2>5, <3>1
  <2>6. CASE d = [s EXCEPT !.failed = TRUE]
    BY <1>2, <2>6
  <2>. HIDE DEF d
  <2>. QED  BY <2>1, <2>2, <2>3, <2>4, <2>5, <2>6
<1>. QED  BY <1>0, <1>1, <1>5, <1>6, <1>7

Decodings(p) ==
  CHOOSE f: f =
    [i \in 0..Len(p) |-> IF i = 0 THEN [text |-> <<>>, high |-> 0, failed |-> FALSE]
                         ELSE DecodePiece(f[i - 1], p[i])]

\* What the loop over the pieces of a string leaves.
LEMMA StringIsRead ==
  ASSUME NEW t, t.pieces \in Seq(Piece)
  PROVE  \E s \in Decoded:
           /\ DecodeString(t) = IF s.failed \/ s.high # 0 THEN Failed
                                ELSE [type |-> "string", text |-> s.text]
           /\ t.pieces # <<>> => Started(s)
<1>. DEFINE p == t.pieces
            N == Len(p)
            S == Decoded
            start == [text |-> <<>>, high |-> 0, failed |-> FALSE]
            step == [i \in 1..N |-> [x \in Decoded |-> DecodePiece(x, p[i])]]
            Solves(f) == f = [i \in 0..N |-> IF i = 0 THEN start ELSE DecodePiece(f[i - 1], p[i])]
<1>0. N \in Nat /\ (p # <<>> => N >= 1) /\ \A i \in 1..N: p[i] \in Piece
  BY EmptySeq
<1>1. \A i \in 1..N, x \in Decoded: DecodePiece(x, p[i]) \in Decoded
  BY <1>0, DecodeOn DEF Started
<1>2. start \in Decoded
  BY EmptySeq DEF Decoded
<1>3. PICK f \in [0..N -> S]: Follows(f, start, N, step)
  <2>1. step \in [1..N -> [S -> S]] /\ start \in S
    BY <1>1, <1>2
  <2>. HIDE DEF step, N, start, S
  <2>. QED  BY <1>0, <2>1, RecursionExists
<1>4. \A i \in 1..N, x \in Decoded: step[i][x] = DecodePiece(x, p[i])
  OBVIOUS
<1>. HIDE DEF step
<1>5. ASSUME NEW i \in 1..N
      PROVE  f[i - 1] \in Decoded /\ f[i] = DecodePiece(f[i - 1], p[i])
  <2>1. i - 1 \in 0..N /\ i \in 0..N /\ i # 0
    BY <1>0
  <2>2. f[i - 1] \in Decoded /\ f[i] = step[i][f[i - 1]]
    BY <1>3, <2>1 DEF Follows
  <2>. QED  BY <1>4, <2>2
<1>6. Solves(f)
  <2>. HIDE DEF start
  <2>. QED  BY <1>3, <1>5 DEF Follows
<1>7. Solves(Decodings(p))
  <2>1. Decodings(p) = CHOOSE g: Solves(g)
    BY DEF Decodings
  <2>. HIDE DEF Solves
  <2>. QED  BY <1>6, <2>1
<1>. DEFINE F == Decodings(p)
<1>8. \A i \in 0..N: F[i] = IF i = 0 THEN start ELSE DecodePiece(F[i - 1], p[i])
  <2>1. F = [i \in 0..N |-> IF i = 0 THEN start ELSE DecodePiece(F[i - 1], p[i])]
    BY <1>7
  <2>. HIDE DEF F, start
  <2>. QED  BY <2>1
<1>9. DecodeString(t) = LET s == F[N]
                        IN IF s.failed \/ s.high # 0 THEN Failed
                           ELSE [type |-> "string", text |-> s.text]
  BY DEF DecodeString, Decodings
<1>. HIDE DEF F, start
<1>. DEFINE Reached == {i \in 0..N: F[i] \in Decoded}
<1>10. 0 \in Reached /\ \A i \in 1..N: i - 1 \in Reached => i \in Reached
  <2>1. 0 \in Reached
    BY <1>0, <1>2, <1>8
  <2>2. ASSUME NEW i \in 1..N, i - 1 \in Reached PROVE i \in Reached
    <3>1. i \in 0..N /\ i # 0 /\ F[i - 1] \in Decoded
      BY <1>0, <2>2
    <3>2. F[i] = DecodePiece(F[i - 1], p[i])
      BY <1>8, <3>1
    <3>. QED  BY <1>1, <3>1, <3>2
  <2>. QED  BY <2>1, <2>2
<1>11. 0..N \subseteq Reached
  <2>. HIDE DEF Reached, N
  <2>. QED  BY <1>0, <1>10, Induction
<1>12. F[N] \in Decoded
  <2>1. N \in 0..N
    BY <1>0
  <2>. QED  BY <1>11, <2>1
<1>13. ASSUME p # <<>> PROVE Started(F[N])
  <2>1. N - 1 \in 0..N /\ N \in 0..N /\ N # 0 /\ N \in 1..N
    BY <1>0, <1>13
  <2>2. F[N - 1] \in Decoded /\ F[N] = DecodePiece(F[N - 1], p[N])
    BY <1>8, <1>11, <2>1
  <2>3. p[N] \in Piece
    BY <1>0, <2>1
  <2>. HIDE DEF N, p
  <2>. QED  BY <2>2, <2>3, DecodeOn
<1>. DEFINE s == F[N]
<1>14. DecodeString(t) = IF s.failed \/ s.high # 0 THEN Failed
                         ELSE [type |-> "string", text |-> s.text]
  BY <1>9
<1>. HIDE DEF s
<1>. QED  BY <1>12, <1>13, <1>14 DEF s

\* A string that is not empty does not stand for an empty name.
LEMMA NameIsRead ==
  ASSUME NEW t, t.pieces \in Seq(Piece), t.pieces # <<>>, DecodeString(t) # Failed
  PROVE  DecodeString(t).text # <<>>
<1>1. PICK s \in Decoded:
        /\ DecodeString(t) = IF s.failed \/ s.high # 0 THEN Failed
                             ELSE [type |-> "string", text |-> s.text]
        /\ Started(s)
  BY StringIsRead
<1>. QED  BY <1>1 DEF Started, Decoded

-----------------------------------------------------------------------------
(* The reader follows its documents as the automaton does *)

KindsOf(fs) == [i \in 1..Len(fs) |-> fs[i].kind]

View(at, fs) ==
  [pc |-> IF at = "name" /\ fs[Len(fs)].name = <<>> THEN "open" ELSE at,
   stack |-> KindsOf(fs)]

\* Every object has read the name of a member, but one that has just been begun.
AllNamed(fs) == \A i \in 1..Len(fs): fs[i].kind = "object" => fs[i].name # <<>>
Named(at, fs) == IF at = "name" THEN AllNamed(Pop(fs)) ELSE AllNamed(fs)

Reading == {"value", "name", "colon", "comma", "first", "separator", "tail"}

\* What the functions do with a token is what the automaton does.
GoesTo(c) ==
  \/ errors' = 0 /\ pc' \in Reading /\ View(pc', frames') = c /\ Named(pc', frames')
  \/ errors' = 1 /\ pc' # "done" /\ c = Dead

LEMMA KindsFacts ==
  ASSUME NEW N, NEW fs \in Seq(Frame(N))
  PROVE  /\ KindsOf(fs) \in Seq(Boxes) /\ Len(KindsOf(fs)) = Len(fs)
         /\ \A i \in 1..Len(fs): KindsOf(fs)[i] = fs[i].kind
         /\ KindsOf(fs) = <<>> <=> fs = <<>>
<1>1. \A i \in 1..Len(fs): fs[i].kind \in Boxes
  BY FrameKinds DEF Boxes
<1>2. Len(fs) \in Nat
  OBVIOUS
<1>3. KindsOf(fs) \in [1..Len(fs) -> Boxes]
  BY <1>1 DEF KindsOf
<1>4. KindsOf(fs) \in Seq(Boxes) /\ Len(KindsOf(fs)) = Len(fs)
  BY <1>2, <1>3
<1>5. KindsOf(fs) = <<>> <=> fs = <<>>
  BY <1>4, EmptySeq
<1>. QED  BY <1>4, <1>5 DEF KindsOf

LEMMA KindsPushed ==
  ASSUME NEW N, NEW fs \in Seq(Frame(N)), NEW frame \in Frame(N)
  PROVE  KindsOf(Append(fs, frame)) = Append(KindsOf(fs), frame.kind)
<1>1. Append(fs, frame) \in Seq(Frame(N)) /\ Len(Append(fs, frame)) = Len(fs) + 1
  BY AppendProperties
<1>2. frame.kind \in Boxes
  BY FrameKinds DEF Boxes
<1>. DEFINE k == KindsOf(Append(fs, frame))
            a == Append(KindsOf(fs), frame.kind)
<1>3. /\ k \in Seq(Boxes) /\ Len(k) = Len(fs) + 1
      /\ \A i \in 1..Len(fs) + 1: k[i] = Append(fs, frame)[i].kind
  BY <1>1, KindsFacts
<1>4. /\ KindsOf(fs) \in Seq(Boxes) /\ Len(KindsOf(fs)) = Len(fs)
      /\ \A i \in 1..Len(fs): KindsOf(fs)[i] = fs[i].kind
  BY KindsFacts
<1>5. a \in Seq(Boxes) /\ Len(a) = Len(fs) + 1
  BY <1>2, <1>4, AppendProperties
<1>6. ASSUME NEW i \in 1..Len(fs) + 1 PROVE k[i] = a[i]
  <2>1. CASE i \in 1..Len(fs)
    BY <1>2, <1>3, <1>4, <2>1, AppendProperties
  <2>2. CASE i = Len(fs) + 1
    BY <1>2, <1>3, <1>4, <2>2, AppendProperties
  <2>3. Len(fs) \in Nat
    OBVIOUS
  <2>4. i \in 1..Len(fs) \/ i = Len(fs) + 1
    BY <2>3
  <2>. HIDE DEF k, a
  <2>. QED  BY <2>1, <2>2, <2>4
<1>. HIDE DEF k, a
<1>7. k = a
  BY <1>3, <1>5, <1>6, SeqEqual
<1>. QED  BY <1>7 DEF k, a

LEMMA KindsPopped ==
  ASSUME NEW N, NEW fs \in Seq(Frame(N)), fs # <<>>
  PROVE  KindsOf(Pop(fs)) = Pop(KindsOf(fs))
<1>. DEFINE k == KindsOf(Pop(fs))
            p == Pop(KindsOf(fs))
<1>1. /\ Pop(fs) \in Seq(Frame(N)) /\ Len(Pop(fs)) = Len(fs) - 1
      /\ Len(fs) \in Nat /\ Len(fs) >= 1
      /\ \A i \in 1..Len(fs) - 1: Pop(fs)[i] = fs[i]
  BY Popped
<1>2. k \in Seq(Boxes) /\ Len(k) = Len(fs) - 1 /\ \A i \in 1..Len(fs) - 1: k[i] = Pop(fs)[i].kind
  BY <1>1, KindsFacts
<1>3. /\ KindsOf(fs) \in Seq(Boxes) /\ Len(KindsOf(fs)) = Len(fs) /\ KindsOf(fs) # <<>>
      /\ \A i \in 1..Len(fs): KindsOf(fs)[i] = fs[i].kind
  BY KindsFacts
<1>4. /\ p \in Seq(Boxes) /\ Len(p) = Len(fs) - 1
      /\ \A i \in 1..Len(fs) - 1: p[i] = KindsOf(fs)[i]
  BY <1>3, Popped
<1>5. \A i \in 1..Len(fs) - 1: k[i] = p[i]
  <2>1. \A i \in 1..Len(fs) - 1: i \in 1..Len(fs)
    BY <1>1
  <2>. HIDE DEF k, p
  <2>. QED  BY <1>1, <1>2, <1>3, <1>4, <2>1
<1>. HIDE DEF k, p
<1>6. k = p
  BY <1>2, <1>4, <1>5, SeqEqual
<1>. QED  BY <1>6 DEF k, p

LEMMA ReturnView ==
  ASSUME NEW N, NEW fs \in Seq(Frame(N)), NEW path, AllNamed(fs), Return(path, fs, TRUE)
  PROVE  /\ View(pc', frames') = Back(KindsOf(fs)) /\ Named(pc', frames')
         /\ pc' \in Reading
<1>1. /\ frames' = fs
      /\ pc' = IF fs = <<>> THEN "tail"
               ELSE IF fs[Len(fs)].kind = "object" THEN "comma" ELSE "separator"
  BY DEF Return
<1>2. pc' \in {"tail", "comma", "separator"} /\ pc' # "name" /\ pc' \in Reading
  BY <1>1 DEF Reading
<1>3. /\ KindsOf(fs) = <<>> <=> fs = <<>>
      /\ Len(KindsOf(fs)) = Len(fs)
      /\ \A i \in 1..Len(fs): KindsOf(fs)[i] = fs[i].kind
  BY KindsFacts
<1>4. fs # <<>> => Len(fs) \in 1..Len(fs)
  BY EmptySeq
<1>5. View(pc', frames') = [pc |-> pc', stack |-> KindsOf(fs)]
  BY <1>1, <1>2 DEF View
<1>6. Back(KindsOf(fs)) = [pc |-> pc', stack |-> KindsOf(fs)]
  BY <1>1, <1>3, <1>4 DEF Back
<1>. QED  BY <1>1, <1>2, <1>5, <1>6 DEF Named

LEMMA ReadValueView ==
  ASSUME NEW N, NEW fs \in Seq(Frame(N)), NEW path, NEW t, NEW tr,
         AllNamed(fs), errors = 0, ReadValue(t, path, tr, fs)
  PROVE  GoesTo(Begin(t, KindsOf(fs)))
<1>1. CASE t.type = "objectBegin"
  <2>. DEFINE frame == [kind |-> "object", name |-> <<>>]
  <2>1. frame \in Frame(N) /\ frame.kind = "object" /\ frame.name = <<>>
    BY DEF Frame
  <2>2. frames' = Append(fs, frame) /\ pc' = "name" /\ errors' = 0
    BY <1>1 DEF ReadValue
  <2>. HIDE DEF frame
  <2>3. /\ Len(frames') = Len(fs) + 1 /\ frames'[Len(fs) + 1] = frame /\ Pop(frames') = fs
    BY <2>1, <2>2, Pushed
  <2>4. KindsOf(frames') = Append(KindsOf(fs), "object")
    BY <2>1, <2>2, KindsPushed
  <2>5. View(pc', frames') = [pc |-> "open", stack |-> Append(KindsOf(fs), "object")]
    BY <2>1, <2>2, <2>3, <2>4 DEF View
  <2>6. Begin(t, KindsOf(fs)) = [pc |-> "open", stack |-> Append(KindsOf(fs), "object")]
    BY <1>1 DEF Begin
  <2>. QED  BY <2>2, <2>3, <2>5, <2>6 DEF GoesTo, Named, Reading
<1>2. CASE t.type = "arrayBegin"
  <2>. DEFINE frame == [kind |-> "array", index |-> 0]
  <2>1. frame \in Frame(N) /\ frame.kind = "array"
    BY DEF Frame
  <2>2. frames' = Append(fs, frame) /\ pc' = "first" /\ errors' = 0
    BY <1>2 DEF ReadValue
  <2>. HIDE DEF frame
  <2>3. /\ Len(frames') = Len(fs) + 1 /\ frames'[Len(fs) + 1] = frame
        /\ \A i \in 1..Len(fs): frames'[i] = fs[i]
    BY <2>1, <2>2, Pushed
  <2>4. KindsOf(frames') = Append(KindsOf(fs), "array")
    BY <2>1, <2>2, KindsPushed
  <2>5. View(pc', frames') = [pc |-> "first", stack |-> Append(KindsOf(fs), "array")]
    BY <2>2, <2>4 DEF View
  <2>6. Begin(t, KindsOf(fs)) = [pc |-> "first", stack |-> Append(KindsOf(fs), "array")]
    BY <1>2 DEF Begin
  <2>7. AllNamed(frames')
    <3>1. \A i \in 1..Len(fs) + 1: i \in 1..Len(fs) \/ i = Len(fs) + 1
      OBVIOUS
    <3>. QED  BY <2>1, <2>3, <3>1 DEF AllNamed
  <2>. QED  BY <2>2, <2>5, <2>6, <2>7 DEF GoesTo, Named, Reading
<1>3. CASE t.type \in {"number", "string", "literal"} /\ Scalar(t) # Failed
  <2>1. errors' = 0 /\ Return(path, fs, Scalar(t) # Failed)
    BY <1>3 DEF ReadValue
  <2>2. (Scalar(t) # Failed) = TRUE
    BY <1>3
  <2>3. Return(path, fs, TRUE)
    BY <2>1, <2>2
  <2>4. Begin(t, KindsOf(fs)) = Back(KindsOf(fs))
    BY <1>3 DEF Begin
  <2>. QED  BY <2>1, <2>3, <2>4, ReturnView DEF GoesTo
<1>4. ASSUME errors' = errors + 1, Return(path, fs, FALSE), Begin(t, KindsOf(fs)) = Dead
      PROVE  GoesTo(Begin(t, KindsOf(fs)))
  <2>1. pc' \in {"tail", "recover"}
    BY <1>4 DEF Return
  <2>2. errors' = 1
    BY <1>4
  <2>. QED  BY <1>4, <2>1, <2>2 DEF GoesTo
<1>5. CASE t.type \in {"number", "string", "literal"} /\ Scalar(t) = Failed
  <2>1. errors' = errors + 1 /\ Return(path, fs, Scalar(t) # Failed)
    BY <1>5 DEF ReadValue
  <2>2. (Scalar(t) # Failed) = FALSE
    BY <1>5
  <2>3. Return(path, fs, FALSE)
    BY <2>1, <2>2
  <2>4. Begin(t, KindsOf(fs)) = Dead
    BY <1>5 DEF Begin
  <2>. QED  BY <1>4, <2>1, <2>3, <2>4
<1>6. CASE t.type \notin {"objectBegin", "arrayBegin", "number", "string", "literal"}
  <2>1. errors' = errors + 1 /\ Return(path, fs, FALSE)
    BY <1>6 DEF ReadValue, UnexpectedToken
  <2>2. Begin(t, KindsOf(fs)) = Dead
    BY <1>6 DEF Begin
  <2>. QED  BY <1>4, <2>1, <2>2
<1>. QED  BY <1>1, <1>2, <1>3, <1>5, <1>6

\* A name is read for a name.
PlainToken(t) == t.type # "comment" /\ ~(t.type = "string" /\ t.pieces = <<>>)

LEMMA ContainerView ==
  ASSUME NEW N, Position(N), pc \in {"name", "comma", "first", "separator"}, Named(pc, frames),
         errors = 0, errors' = errors, ReturnContainer(TRUE)
  PROVE  GoesTo(Back(Pop(KindsOf(frames))))
<1>. DEFINE fs == Pop(frames)
<1>1. frames \in Seq(Frame(N)) /\ frames # <<>>
  BY EmptySeq DEF Position
<1>2. /\ fs \in Seq(Frame(N)) /\ Len(fs) = Len(frames) - 1 /\ Len(frames) \in Nat
      /\ \A i \in 1..Len(frames) - 1: fs[i] = frames[i]
  BY <1>1, Popped
<1>3. KindsOf(fs) = Pop(KindsOf(frames))
  BY <1>1, KindsPopped
<1>4. Return(node, fs, TRUE)
  BY DEF ReturnContainer
<1>. HIDE DEF fs
<1>5. AllNamed(fs)
  <2>1. CASE pc = "name"
    BY <2>1 DEF Named, fs
  <2>2. CASE pc # "name"
    <3>1. AllNamed(frames)
      BY <2>2 DEF Named
    <3>2. \A i \in 1..Len(fs): i \in 1..Len(frames) /\ fs[i] = frames[i]
      BY <1>2
    <3>. QED  BY <3>1, <3>2 DEF AllNamed
  <2>. QED  BY <2>1, <2>2
<1>. QED  BY <1>2, <1>3, <1>4, <1>5, ReturnView DEF GoesTo

LEMMA NamedPopped ==
  ASSUME NEW N, NEW fs \in Seq(Frame(N)), Len(fs) >= 1, AllNamed(fs)
  PROVE  AllNamed(Pop(fs))
<1>1. fs # <<>>
  BY EmptySeq
<1>2. /\ Len(Pop(fs)) = Len(fs) - 1 /\ Len(fs) \in Nat
      /\ \A i \in 1..Len(fs) - 1: Pop(fs)[i] = fs[i]
  BY <1>1, Popped
<1>3. \A i \in 1..Len(fs) - 1: i \in 1..Len(fs)
  BY <1>2
<1>. QED  BY <1>2, <1>3 DEF AllNamed

\* What the innermost function keeps for itself changes no kind.
LEMMA TopChanged ==
  ASSUME NEW N, NEW fs \in Seq(Frame(N)), Len(fs) >= 1, NEW frame \in Frame(N),
         frame.kind = fs[Len(fs)].kind
  PROVE  /\ KindsOf([fs EXCEPT ![Len(fs)] = frame]) = KindsOf(fs)
         /\ AllNamed(Pop(fs)) /\ (frame.kind = "object" => frame.name # <<>>)
            => AllNamed([fs EXCEPT ![Len(fs)] = frame])
<1>. DEFINE new == [fs EXCEPT ![Len(fs)] = frame]
<1>1. Len(fs) \in Nat /\ Len(fs) \in 1..Len(fs) /\ fs # <<>>
  BY EmptySeq
<1>2. /\ new \in Seq(Frame(N)) /\ Len(new) = Len(fs)
      /\ \A i \in 1..Len(fs): new[i] = IF i = Len(fs) THEN frame ELSE fs[i]
  BY <1>1, ExceptSeq
<1>. HIDE DEF new
<1>3. \A i \in 1..Len(fs): new[i].kind = fs[i].kind
  BY <1>2
<1>4. KindsOf(new) = KindsOf(fs)
  BY <1>2, <1>3 DEF KindsOf
<1>5. ASSUME AllNamed(Pop(fs)), frame.kind = "object" => frame.name # <<>>
      PROVE  AllNamed(new)
  <2>1. /\ Len(Pop(fs)) = Len(fs) - 1
        /\ \A i \in 1..Len(fs) - 1: Pop(fs)[i] = fs[i]
    BY <1>1, Popped
  <2>2. \A i \in 1..Len(fs): i = Len(fs) \/ i \in 1..Len(fs) - 1
    BY <1>1
  <2>. QED  BY <1>2, <1>5, <2>1, <2>2 DEF AllNamed
<1>. QED  BY <1>4, <1>5 DEF new

LEMMA StepView ==
  ASSUME NEW N, Position(N), Named(pc, frames), pc \in Reading \ {"tail"}, errors = 0, Next
  PROVE  \E t \in Offered:
           Read(t) /\ (t \in AnyToken /\ PlainToken(t) => GoesTo(Advance(View(pc, frames), t)))
<1>. DEFINE c == View(pc, frames)
<1>1. /\ frames \in Seq(Frame(N))
      /\ pc # "value" => Len(frames) >= 1
      /\ pc \in {"name", "colon", "comma"} => Top.kind = "object"
      /\ pc \in {"first", "separator"} => Top.kind = "array"
  BY DEF Position, Reading
<1>2. /\ c.stack = KindsOf(frames)
      /\ c.pc = IF pc = "name" /\ Top.name = <<>> THEN "open" ELSE pc
  BY DEF View, Top
<1>3. Len(frames) >= 1 => Top \in Frame(N) /\ Len(frames) \in 1..Len(frames)
  BY <1>1 DEF Top
<1>4. ASSUME NEW t, AddErrorAndRecover, Advance(c, t) = Dead PROVE GoesTo(Advance(c, t))
  <2>1. errors' = 1 /\ pc' = "recover"
    BY <1>4 DEF AddErrorAndRecover
  <2>. QED  BY <1>4, <2>1 DEF GoesTo
<1>5. ASSUME NEW t, NEW at \in {"value", "name"}, pc' = at, UNCHANGED <<frames, errors>>,
             Advance(c, t) = [pc |-> at, stack |-> KindsOf(frames)], pc \in {"colon", "comma"}
      PROVE  GoesTo(Advance(c, t))
  <2>1. AllNamed(frames)
    BY <1>5 DEF Named
  <2>2. Top.name # <<>>
    BY <1>1, <1>3, <1>5, <2>1 DEF AllNamed, Top
  <2>3. View(pc', frames') = [pc |-> at, stack |-> KindsOf(frames)]
    BY <1>5, <2>2 DEF View, Top
  <2>4. AllNamed(Pop(frames))
    BY <1>1, <1>5, <2>1, NamedPopped
  <2>5. Named(pc', frames')
    BY <1>5, <2>1, <2>4 DEF Named
  <2>. HIDE DEF c
  <2>. QED  BY <1>5, <2>3, <2>5 DEF GoesTo, Reading
<1>6. ASSUME NEW t, ReturnContainer(TRUE), UNCHANGED errors,
             pc \in {"name", "comma", "first", "separator"},
             Advance(c, t) = Back(Pop(KindsOf(frames)))
      PROVE  GoesTo(Advance(c, t))
  <2>. HIDE DEF c
  <2>. QED  BY <1>6, ContainerView
<1>10. CASE Value
  <2>1. PICK t \in Offered:
          Read(t) /\ (t.type # "comment" => ReadValue(t, node, tree, frames))
    BY <1>10 DEF Value
  <2>2. pc = "value"
    BY <1>10 DEF Value
  <2>3. Advance(c, t) = Begin(t, KindsOf(frames)) /\ AllNamed(frames)
    BY <1>2, <2>2 DEF Advance, Named
  <2>. HIDE DEF c
  <2>4. PlainToken(t) => GoesTo(Advance(c, t))
    BY <1>1, <2>1, <2>3, ReadValueView DEF PlainToken
  <2>. QED  BY <2>1, <2>4 DEF c
<1>11. CASE NameOrEnd
  <2>1. PICK t \in Offered:
          /\ Read(t)
          /\ IF t.type = "comment" THEN Skip(t)
             ELSE IF t.type = "objectEnd" /\ Top.name = <<>>
             THEN ReturnContainer(TRUE) /\ UNCHANGED <<tree, before, errors>>
             ELSE IF t.type = "string" /\ DecodeString(t) # Failed
             THEN /\ frames' = [frames EXCEPT ![Len(frames)].name = DecodeString(t).text]
                  /\ pc' = "colon"
                  /\ UNCHANGED <<node, tree, before, last, errors, ok>>
             ELSE AddErrorAndRecover
    BY <1>11 DEF NameOrEnd
  <2>2. pc = "name" /\ Len(frames) >= 1 /\ Top.kind = "object"
    BY <1>1, <1>11 DEF NameOrEnd
  <2>3. CASE t.type = "objectEnd" /\ Top.name = <<>>
    <3>1. Advance(c, t) = Back(Pop(KindsOf(frames)))
      BY <1>2, <2>2, <2>3 DEF Advance
    <3>2. ReturnContainer(TRUE) /\ UNCHANGED errors
      BY <2>1, <2>3
    <3>. HIDE DEF c
    <3>3. GoesTo(Advance(c, t))
      BY <1>6, <2>2, <3>1, <3>2
    <3>. QED  BY <2>1, <3>3 DEF c
  <2>4. CASE t.type = "string" /\ DecodeString(t) # Failed
    <3>1. /\ frames' = [frames EXCEPT ![Len(frames)].name = DecodeString(t).text]
          /\ pc' = "colon" /\ UNCHANGED errors
      BY <2>1, <2>4
    <3>2. Advance(c, t) = [pc |-> "colon", stack |-> KindsOf(frames)]
      BY <1>2, <2>2, <2>4 DEF Advance, Key
    <3>. DEFINE text == DecodeString(t).text
                M == N \cup {text}
                frame == [kind |-> "object", name |-> text]
    <3>3. frame \in Frame(M) /\ frame.kind = "object" /\ frame.name = text
      BY DEF Frame
    <3>4. frames \in Seq(Frame(M))
      BY <1>1, MoreNames
    <3>5. Top = [kind |-> "object", name |-> Top.name]
      BY <1>3, <2>2 DEF Frame
    <3>6. frames' = [frames EXCEPT ![Len(frames)] = frame]
      <4>1. [Top EXCEPT !.name = text] = frame
        BY <3>5
      <4>. HIDE DEF frame
      <4>. QED  BY <3>1, <4>1 DEF Top
    <3>. HIDE DEF frame, M
    <3>7. /\ KindsOf(frames') = KindsOf(frames)
          /\ AllNamed(Pop(frames)) /\ text # <<>> => AllNamed(frames')
      BY <2>2, <3>3, <3>4, <3>6, TopChanged DEF Top
    <3>8. AllNamed(Pop(frames))
      BY <2>2 DEF Named
    <3>9. t \in AnyToken /\ PlainToken(t) => text # <<>>
      BY <2>4, TokenIs, NameIsRead DEF PlainToken
    <3>10. View(pc', frames') = [pc |-> "colon", stack |-> KindsOf(frames)]
      BY <3>1, <3>7 DEF View
    <3>. HIDE DEF c, text
    <3>11. t \in AnyToken /\ PlainToken(t) => GoesTo(Advance(c, t))
      BY <3>1, <3>2, <3>7, <3>8, <3>9, <3>10 DEF GoesTo, Reading, Named
    <3>. QED  BY <2>1, <3>11 DEF c
  <2>5. CASE /\ ~(t.type = "objectEnd" /\ Top.name = <<>>)
             /\ ~(t.type = "string" /\ DecodeString(t) # Failed)
    <3>1. t.type # "comment" => AddErrorAndRecover
      BY <2>1, <2>5
    <3>2. Advance(c, t) = Dead
      BY <1>2, <2>2, <2>5 DEF Advance, Key
    <3>. HIDE DEF c
    <3>3. PlainToken(t) => GoesTo(Advance(c, t))
      BY <1>4, <3>1, <3>2 DEF PlainToken
    <3>. QED  BY <2>1, <3>3 DEF c
  <2>. QED  BY <2>3, <2>4, <2>5
<1>12. CASE Colon
  <2>1. PICK t \in Offered:
          /\ Read(t)
          /\ IF t.type = "memberSeparator"
             THEN pc' = "value" /\ UNCHANGED <<frames, errors>>
             ELSE t.type # "comment" => AddErrorAndRecover
    BY <1>12 DEF Colon
  <2>2. pc = "colon"
    BY <1>12 DEF Colon
  <2>3. t.type = "memberSeparator" => Advance(c, t) = [pc |-> "value", stack |-> KindsOf(frames)]
    BY <1>2, <2>2 DEF Advance
  <2>4. t.type # "memberSeparator" => Advance(c, t) = Dead
    BY <1>2, <2>2 DEF Advance
  <2>. HIDE DEF c
  <2>5. PlainToken(t) => GoesTo(Advance(c, t))
    BY <1>4, <1>5, <2>1, <2>2, <2>3, <2>4 DEF PlainToken
  <2>. QED  BY <2>1, <2>5 DEF c
<1>13. CASE Comma
  <2>1. PICK t \in Offered: Read(t) /\ (t.type # "comment" => AfterMember(t))
    BY <1>13 DEF Comma
  <2>2. pc = "comma"
    BY <1>13 DEF Comma
  <2>3. t.type = "objectEnd" => Advance(c, t) = Back(Pop(KindsOf(frames)))
    BY <1>2, <2>2 DEF Advance
  <2>4. t.type = "arraySeparator" => Advance(c, t) = [pc |-> "name", stack |-> KindsOf(frames)]
    BY <1>2, <2>2 DEF Advance
  <2>5. t.type \notin {"objectEnd", "arraySeparator"} => Advance(c, t) = Dead
    BY <1>2, <2>2 DEF Advance
  <2>. HIDE DEF c
  <2>6. AfterMember(t) => GoesTo(Advance(c, t))
    BY <1>4, <1>5, <1>6, <2>2, <2>3, <2>4, <2>5 DEF AfterMember
  <2>. QED  BY <2>1, <2>6 DEF PlainToken, c
<1>14. CASE First
  <2>. DEFINE tr == Child(tree, node, Index(0))
  <2>1. PICK t \in Offered:
          /\ Read(t)
          /\ IF t.type = "arrayEnd" THEN ReturnContainer(TRUE) /\ UNCHANGED errors
             ELSE t.type # "comment" => ReadValue(t, Element, tr, frames)
    BY <1>14 DEF First
  <2>2. pc = "first" /\ AllNamed(frames)
    BY <1>14 DEF First, Named
  <2>3. t.type = "arrayEnd" => Advance(c, t) = Back(Pop(KindsOf(frames)))
    BY <1>2, <2>2 DEF Advance
  <2>4. t.type # "arrayEnd" => Advance(c, t) = Begin(t, KindsOf(frames))
    BY <1>2, <2>2 DEF Advance
  <2>. HIDE DEF c, tr
  <2>5. ASSUME t.type = "arrayEnd" PROVE GoesTo(Advance(c, t))
    BY <1>6, <2>1, <2>2, <2>3, <2>5
  <2>6. ASSUME t.type # "arrayEnd", PlainToken(t) PROVE GoesTo(Advance(c, t))
    <3>1. ReadValue(t, Element, tr, frames)
      BY <2>1, <2>6 DEF PlainToken
    <3>. QED  BY <1>1, <2>2, <2>4, <2>6, <3>1, ReadValueView
  <2>. QED  BY <2>1, <2>5, <2>6 DEF c
<1>15. CASE Separator
  <2>1. PICK t \in Offered:
          /\ Read(t)
          /\ t.type # "comment" =>
             IF t.type = "arrayEnd" THEN ReturnContainer(TRUE) /\ UNCHANGED errors
             ELSE IF t.type = "arraySeparator"
             THEN /\ frames' = [frames EXCEPT ![Len(frames)].index = @ + 1]
                  /\ pc' = "value" /\ UNCHANGED errors
             ELSE AddErrorAndRecover
    BY <1>15 DEF Separator
  <2>2. pc = "separator" /\ AllNamed(frames) /\ Len(frames) >= 1 /\ Top.kind = "array"
    BY <1>1, <1>15 DEF Separator, Named
  <2>3. t.type = "arrayEnd" => Advance(c, t) = Back(Pop(KindsOf(frames)))
    BY <1>2, <2>2 DEF Advance
  <2>4. t.type = "arraySeparator" => Advance(c, t) = [pc |-> "value", stack |-> KindsOf(frames)]
    BY <1>2, <2>2 DEF Advance
  <2>5. t.type \notin {"arrayEnd", "arraySeparator"} => Advance(c, t) = Dead
    BY <1>2, <2>2 DEF Advance
  <2>. HIDE DEF c
  <2>6. ASSUME t.type = "arraySeparator" PROVE GoesTo(Advance(c, t))
    <3>. DEFINE frame == [kind |-> "array", index |-> Top.index + 1]
    <3>1. Top.index \in Nat /\ Top = [kind |-> "array", index |-> Top.index]
      BY <1>3, <2>2 DEF Frame
    <3>2. frame \in Frame(N) /\ frame.kind = "array"
      BY <3>1 DEF Frame
    <3>3. frames' = [frames EXCEPT ![Len(frames)] = frame] /\ pc' = "value" /\ errors' = 0
      <4>1. [Top EXCEPT !.index = Top.index + 1] = frame
        BY <3>1
      <4>. HIDE DEF frame
      <4>. QED  BY <2>1, <2>6, <4>1 DEF Top
    <3>. HIDE DEF frame
    <3>4. KindsOf(frames') = KindsOf(frames) /\ AllNamed(frames')
      BY <1>1, <2>2, <3>2, <3>3, TopChanged, NamedPopped DEF Top
    <3>5. View(pc', frames') = [pc |-> "value", stack |-> KindsOf(frames)]
      BY <3>3, <3>4 DEF View
    <3>. QED  BY <2>4, <2>6, <3>3, <3>4, <3>5 DEF GoesTo, Reading, Named
  <2>7. ASSUME t.type = "arrayEnd" PROVE GoesTo(Advance(c, t))
    BY <1>6, <2>1, <2>2, <2>3, <2>7
  <2>8. ASSUME t.type \notin {"arrayEnd", "arraySeparator"}, t.type # "comment"
        PROVE  GoesTo(Advance(c, t))
    BY <1>4, <2>1, <2>5, <2>8
  <2>. QED  BY <2>1, <2>6, <2>7, <2>8 DEF c, PlainToken
<1>. QED  BY <1>10, <1>11, <1>12, <1>13, <1>14, <1>15
          DEF Next, CommaAfterComment, Recover, Finish, Reading

-----------------------------------------------------------------------------
(* The root *)

RootValue(t) ==
  CASE t.type = "objectBegin" -> Object
    [] t.type = "arrayBegin"  -> Array
    [] OTHER                  -> Scalar(t)

Clean(d) == \A i \in 1..Len(d): PlainToken(d[i])

LEMMA RootedIs ==
  ASSUME NEW K, NEW tr
  PROVE  Rooted(K, tr) <=> DOMAIN tr \subseteq Seq(K) /\ ROOT \in DOMAIN tr /\ Nodes(tr)
  BY RootedTree DEF ROOT, Nodes

LEMMA ReadValueRoot ==
  ASSUME NEW K, NEW tr, Rooted(K, tr), NEW path \in DOMAIN tr, NEW t, NEW fs,
         ReadValue(t, path, tr, fs)
  PROVE  /\ path # ROOT => tree'[ROOT].value = tr[ROOT].value
         /\ path = ROOT /\ Begin(t, <<>>) # Dead => tree'[ROOT].value = RootValue(t)
<1>. DEFINE commented == IF collect /\ before THEN With(tr, path, "before") ELSE tr
<1>1. DOMAIN tr \subseteq Seq(K) /\ ROOT \in DOMAIN tr /\ Nodes(tr)
  BY RootedIs
<1>2. /\ DOMAIN commented = DOMAIN tr /\ Nodes(commented)
      /\ commented[ROOT].value = tr[ROOT].value
  BY <1>1, WithValue
<1>3. /\ tree' = commented \/ \E value: tree' = Assign(commented, path, value)
      /\ Begin(t, <<>>) # Dead => tree' = Assign(commented, path, RootValue(t))
  <2>1. CASE t.type = "objectBegin"
    <3>1. tree' = Assign(commented, path, Object) /\ RootValue(t) = Object
      BY <2>1 DEF ReadValue, RootValue
    <3>. HIDE DEF commented
    <3>. QED  BY <3>1
  <2>2. CASE t.type = "arrayBegin"
    <3>1. tree' = Assign(commented, path, Array) /\ RootValue(t) = Array
      BY <2>2 DEF ReadValue, RootValue
    <3>. HIDE DEF commented
    <3>. QED  BY <3>1
  <2>3. CASE t.type \in {"number", "string", "literal"}
    <3>1. tree' = IF Scalar(t) = Failed THEN commented ELSE Assign(commented, path, Scalar(t))
      BY <2>3 DEF ReadValue
    <3>2. RootValue(t) = Scalar(t) /\ (Begin(t, <<>>) # Dead => Scalar(t) # Failed)
      BY <2>3 DEF RootValue, Begin
    <3>. HIDE DEF commented
    <3>. QED  BY <3>1, <3>2
  <2>4. CASE t.type \notin {"objectBegin", "arrayBegin", "number", "string", "literal"}
    <3>1. tree' = commented
      BY <2>4 DEF ReadValue
    <3>2. Begin(t, <<>>) = Dead
      BY <2>4 DEF Begin
    <3>. HIDE DEF commented
    <3>. QED  BY <3>1, <3>2
  <2>. QED  BY <2>1, <2>2, <2>3, <2>4
<1>. HIDE DEF commented
<1>4. ASSUME NEW value, path # ROOT
      PROVE  Assign(commented, path, value)[ROOT].value = tr[ROOT].value
  <2>1. ROOT \in DOMAIN commented \ Below(commented, path)
    <3>1. path \in Seq(K) /\ path # <<>>
      BY <1>1, <1>4 DEF ROOT
    <3>2. ~IsPrefix(path, ROOT)
      BY <3>1, NotTheRoot DEF ROOT
    <3>. QED  BY <1>1, <1>2, <3>2 DEF Below
  <2>2. Assign(commented, path, value)[ROOT] = commented[ROOT]
    BY <1>4, <2>1 DEF Assign
  <2>. QED  BY <1>2, <2>2
<1>5. ASSUME NEW value, path = ROOT PROVE Assign(commented, path, value)[ROOT].value = value
  <2>1. ROOT \in DOMAIN commented \ Below(commented, ROOT)
    BY <1>1, <1>2 DEF Below
  <2>2. Assign(commented, ROOT, value)[ROOT] = [commented[ROOT] EXCEPT !.value = value]
    BY <2>1 DEF Assign
  <2>3. commented[ROOT] = [value |-> commented[ROOT].value, comments |-> commented[ROOT].comments]
    BY <1>1, <1>2 DEF Nodes
  <2>. QED  BY <1>5, <2>2, <2>3
<1>. QED  BY <1>2, <1>3, <1>4, <1>5

\* Is there a function that fills a container?
Filling(fs) ==
  Len(fs) \in Nat /\ Len(fs) >= 1 /\ fs[Len(fs)].kind \in {"object", "array"}

SameRoot(a, b) == a[ROOT].value = b[ROOT].value

\* Where functions fill the tree there is a root, and a new item leaves it as it is.
LEMMA ChildRoot ==
  ASSUME NEW K, NEW tr, NEW nd, NEW fs, NEW ls, NEW key, key \in K, Good(K, tr, nd, fs, ls),
         Filling(fs), Len(nd) = Len(fs) - 1
  PROVE  /\ Rooted(K, tr) /\ Append(nd, key) # ROOT /\ Append(nd, key) \in Seq(K)
         /\ Rooted(K, Child(tr, nd, key)) /\ Append(nd, key) \in DOMAIN Child(tr, nd, key)
         /\ SameRoot(Child(tr, nd, key), tr)
<1>. DEFINE child == Append(nd, key)
            c == Child(tr, nd, key)
<1>0. nd \in Seq(K) /\ nd \in DOMAIN tr /\ DOMAIN tr \subseteq Seq(K) /\ Nodes(tr)
  BY DEF Good, Nodes
<1>1. ROOT \in DOMAIN tr
  <2>1. SubSeq(nd, 1, 1 - 1) \in DOMAIN tr
    <3>1. 1 \in 1..Len(fs)
      BY DEF Filling
    <3>. QED  BY <3>1 DEF Good
  <2>2. SubSeq(nd, 1, 1 - 1) = <<>>
    BY SubSeqEmpty
  <2>. QED  BY <2>1, <2>2 DEF ROOT
<1>2. ~Is(tr, nd, "null")
  <2>1. SubSeq(nd, 1, Len(fs) - 1) = nd
    BY <1>0, SubSeqFull DEF Filling
  <2>2. tr[SubSeq(nd, 1, Len(fs) - 1)].value.type = fs[Len(fs)].kind
    BY DEF Good, Filling
  <2>. QED  BY <2>1, <2>2 DEF Is, Filling
<1>3. child \in Seq(K) /\ child # <<>>
  BY <1>0, AppendProperties
<1>4. c = IF child \in DOMAIN tr THEN tr
          ELSE [p \in DOMAIN tr \cup {child} |-> IF p = child THEN Leaf(Null) ELSE tr[p]]
  BY <1>2 DEF Child
<1>5. Rooted(K, tr)
  BY <1>0, <1>1, RootedIs
<1>. HIDE DEF c, child
<1>6. DOMAIN c = DOMAIN tr \cup {child} /\ \A p \in DOMAIN tr: c[p] = tr[p]
  BY <1>4
<1>7. Nodes(c)
  <2>1. \A p \in DOMAIN tr: c[p] = [value |-> c[p].value, comments |-> c[p].comments]
    BY <1>0, <1>6 DEF Nodes
  <2>2. child \notin DOMAIN tr => c[child] = Leaf(Null)
    BY <1>4
  <2>3. Leaf(Null) = [value |-> Leaf(Null).value, comments |-> Leaf(Null).comments]
    BY DEF Leaf
  <2>. QED  BY <1>6, <2>1, <2>2, <2>3 DEF Nodes
<1>8. Rooted(K, c)
  BY <1>0, <1>1, <1>3, <1>6, <1>7, RootedIs
<1>. QED  BY <1>1, <1>3, <1>5, <1>6, <1>8 DEF c, child, ROOT, SameRoot

LEMMA CleanToken ==
  ASSUME given = FALSE, doc \in Seq(AnyToken), NEW t \in Offered, Read(t), Clean(doc')
  PROVE  PlainToken(t) /\ Clean(doc) /\ t \in AnyToken
<1>1. t \in AnyToken
  BY DEF Offered, AnyToken
<1>2. CASE t = EOS /\ doc' = doc
  BY <1>1, <1>2 DEF PlainToken, EOS
<1>3. CASE doc' = Append(doc, t)
  <2>1. /\ Len(doc') = Len(doc) + 1 /\ Len(doc) \in Nat /\ doc'[Len(doc) + 1] = t
        /\ \A i \in 1..Len(doc): doc'[i] = doc[i]
    BY <1>1, <1>3, AppendProperties
  <2>2. Len(doc) + 1 \in 1..Len(doc') /\ \A i \in 1..Len(doc): i \in 1..Len(doc')
    BY <2>1
  <2>. QED  BY <1>1, <2>1, <2>2 DEF Clean
<1>. QED  BY <1>2, <1>3 DEF Read

\* A step of the functions that have a container to fill leaves what the root is.
LEMMA RootKept ==
  ASSUME NEW K, NEW N, Position(N), Good(K, tree, node, frames, last),
         pc \in Reading \ {"tail"}, frames # <<>>, Next,
         given = FALSE, doc \in Seq(AnyToken), Clean(doc')
  PROVE  tree'[ROOT].value = tree[ROOT].value
<1>1. /\ frames \in Seq(Frame(N)) /\ Len(frames) >= 1 /\ Len(frames) \in Nat
      /\ frames[Len(frames)].kind \in {"object", "array"}
  <2>1. frames \in Seq(Frame(N)) /\ Len(frames) >= 1 /\ Len(frames) \in Nat
    BY EmptySeq DEF Position
  <2>. QED  BY <2>1, FrameKinds
<1>2. pc \notin {"value"} => Len(node) = Len(frames) - 1
  BY DEF Position, Reading
<1>3. \A t \in Offered: Read(t) => t.type # "comment"
  BY CleanToken DEF PlainToken
<1>4. CASE Value
  <2>1. PICK t \in Offered: ReadValue(t, node, tree, frames)
    BY <1>3, <1>4 DEF Value
  <2>2. Len(node) = Len(frames) /\ node \in Seq(K) /\ node \in DOMAIN tree
    BY <1>4 DEF Position, Value, Good
  <2>3. node # ROOT
    BY <1>1, <2>2, EmptySeq DEF ROOT
  <2>4. Rooted(K, tree)
    <3>1. 1 \in 1..Len(frames) /\ SubSeq(node, 1, 1 - 1) = <<>>
      BY <1>1, SubSeqEmpty
    <3>2. ROOT \in DOMAIN tree
      BY <3>1 DEF Good, ROOT
    <3>. QED  BY <3>2, RootedIs DEF Good, Nodes
  <2>. QED  BY <2>1, <2>2, <2>3, <2>4, ReadValueRoot
<1>5. CASE NameOrEnd
  BY <1>3, <1>5 DEF NameOrEnd, AddErrorAndRecover
<1>6. ASSUME NEW key, tree' = Child(tree, node, key), pc # "value"
      PROVE  tree'[ROOT].value = tree[ROOT].value
  <2>1. PICK L: key \in L /\ Good(L, tree, node, frames, last)
    <3>1. key \in K \cup {key} /\ Good(K \cup {key}, tree, node, frames, last)
      BY MoreKeys
    <3>. QED  BY <3>1
  <2>2. Len(node) = Len(frames) - 1
    BY <1>2, <1>6
  <2>3. Filling(frames)
    BY <1>1 DEF Filling
  <2>4. SameRoot(Child(tree, node, key), tree)
    BY <2>1, <2>2, <2>3, ChildRoot
  <2>. QED  BY <1>6, <2>4 DEF SameRoot
<1>7. CASE Colon
  <2>1. pc # "value"
    BY <1>7 DEF Colon
  <2>2. tree' = Child(tree, node, Name(Top.name)) \/ tree' = tree
    BY <1>3, <1>7 DEF Colon, AddErrorAndRecover
  <2>. QED  BY <1>6, <2>1, <2>2
<1>8. CASE Comma
  BY <1>3, <1>8 DEF Comma, AfterMember, AddErrorAndRecover
<1>9. CASE First
  <2>. DEFINE key == Index(0)
              tr == Child(tree, node, key)
              L == K \cup {key}
  <2>1. pc = "first" /\ Top.index = 0
    BY <1>9 DEF First, Position
  <2>2. PICK t \in Offered: tree' = tree \/ ReadValue(t, Element, tr, frames)
    BY <1>3, <1>9 DEF First
  <2>3. Element = Append(node, key)
    BY <2>1 DEF Element
  <2>. HIDE DEF key
  <2>4. key \in L /\ Good(L, tree, node, frames, last)
    BY MoreKeys
  <2>. HIDE DEF L
  <2>6. Len(node) = Len(frames) - 1
    BY <1>2, <2>1
  <2>8. Filling(frames)
    BY <1>1 DEF Filling
  <2>5. /\ Append(node, key) # ROOT
        /\ Rooted(L, Child(tree, node, key)) /\ Append(node, key) \in DOMAIN Child(tree, node, key)
        /\ SameRoot(Child(tree, node, key), tree)
    BY <2>4, <2>6, <2>8, ChildRoot
  <2>7. /\ Element # ROOT /\ Rooted(L, tr) /\ Element \in DOMAIN tr
        /\ tr[ROOT].value = tree[ROOT].value
    BY <2>3, <2>5 DEF tr, SameRoot
  <2>. HIDE DEF tr
  <2>. QED  BY <2>2, <2>7, ReadValueRoot
<1>10. CASE Separator
  <2>1. pc # "value"
    BY <1>10 DEF Separator
  <2>2. tree' = Child(tree, node, Index(Top.index + 1)) \/ tree' = tree
    BY <1>3, <1>10 DEF Separator, AddErrorAndRecover
  <2>. QED  BY <1>6, <2>1, <2>2
<1>. QED  BY <1>4, <1>5, <1>7, <1>8, <1>9, <1>10
          DEF Next, CommaAfterComment, Recover, Finish, Reading

-----------------------------------------------------------------------------
(* The document *)

\* The automaton has come to c when it has read d.
Came(d, c) == \E run: IsRun(run, d) /\ c = run[Len(d)]

LEMMA FrontAppend ==
  ASSUME NEW S, NEW d \in Seq(S), NEW t \in S
  PROVE  /\ Append(d, t) \in Seq(S) /\ Append(d, t) # <<>>
         /\ Front(Append(d, t)) = d /\ Last(Append(d, t)) = t
<1>1. Append(d, t) \in Seq(S) /\ Append(d, t) # <<>> /\ Pop(Append(d, t)) = d
      /\ Len(Append(d, t)) = Len(d) + 1 /\ Append(d, t)[Len(d) + 1] = t
  BY Pushed
<1>2. Front(Append(d, t)) = d
  BY <1>1 DEF Pop, Front
<1>3. Last(Append(d, t)) = t
  BY <1>1 DEF Last
<1>. QED  BY <1>1, <1>2, <1>3

LEMMA FrontIs ==
  ASSUME NEW S, NEW d \in Seq(S), d # <<>>
  PROVE  /\ Front(d) \in Seq(S) /\ Len(Front(d)) = Len(d) - 1
         /\ Len(d) \in Nat /\ Len(d) >= 1
         /\ \A i \in 1..Len(d) - 1: Front(d)[i] = d[i]
<1>1. Front(d) = Pop(d)
  BY DEF Front, Pop
<1>. QED  BY <1>1, Popped

LEMMA CameFirst == Came(<<>>, [pc |-> "value", stack |-> <<>>])
<1>. DEFINE c == [pc |-> "value", stack |-> <<>>]
            run == [k \in 0..0 |-> c]
<1>1. c \in Config
  BY EmptySeq DEF Config, Places, Inside
<1>2. Len(<<>>) = 0
  BY EmptySeq
<1>3. IsRun(run, <<>>) /\ run[0] = c
  <2>1. run \in [0..0 -> Config] /\ run[0] = c /\ 1..0 = {}
    BY <1>1
  <2>. HIDE DEF run
  <2>. QED  BY <1>2, <2>1 DEF IsRun
<1>. HIDE DEF run, c
<1>4. Came(<<>>, c)
  BY <1>2, <1>3 DEF Came
<1>. QED  BY <1>4 DEF c

LEMMA CameOn ==
  ASSUME NEW S, NEW d \in Seq(S), NEW t \in S, NEW c, Came(d, c)
  PROVE  Came(Append(d, t), Advance(c, t)) /\ c \in Config
<1>. DEFINE more == Append(d, t)
            n == Len(d)
<1>1. PICK run: IsRun(run, d) /\ c = run[n]
  BY DEF Came
<1>2. /\ n \in Nat /\ Len(more) = n + 1 /\ more[n + 1] = t
      /\ \A i \in 1..n: more[i] = d[i]
  BY AppendProperties
<1>3. /\ run \in [0..n -> Config] /\ run[0] = [pc |-> "value", stack |-> <<>>]
      /\ \A k \in 1..n: run[k] = Advance(run[k - 1], d[k])
  BY <1>1 DEF IsRun
<1>4. c \in Config
  BY <1>1, <1>2, <1>3
<1>5. Advance(c, t) \in Config
  BY <1>4, AdvanceConfig
<1>. DEFINE longer == [k \in 0..n + 1 |-> IF k = n + 1 THEN Advance(c, t) ELSE run[k]]
<1>6. /\ longer \in [0..n + 1 -> Config] /\ longer[n + 1] = Advance(c, t)
      /\ \A k \in 0..n: longer[k] = run[k]
  <2>. DEFINE a == Advance(c, t)
  <2>. HIDE DEF a
  <2>1. a \in Config
    BY <1>5 DEF a
  <2>2. \A k \in 0..n: k \in 0..n + 1 /\ k # n + 1
    BY <1>2
  <2>3. \A k \in 0..n + 1: k = n + 1 \/ k \in 0..n
    BY <1>2
  <2>. QED  BY <1>2, <1>3, <2>1, <2>2, <2>3 DEF a
<1>. HIDE DEF longer, more
<1>7. ASSUME NEW k \in 1..n + 1 PROVE longer[k] = Advance(longer[k - 1], more[k])
  <2>1. CASE k = n + 1
    <3>1. k - 1 = n /\ n \in 0..n
      BY <1>2, <2>1
    <3>. QED  BY <1>1, <1>2, <1>6, <2>1, <3>1
  <2>2. CASE k \in 1..n
    <3>1. k \in 0..n /\ k - 1 \in 0..n
      BY <1>2, <2>2
    <3>. QED  BY <1>2, <1>3, <1>6, <2>2, <3>1
  <2>. QED  BY <1>2, <2>1, <2>2
<1>8. IsRun(longer, more)
  <2>1. 0 \in 0..n
    BY <1>2
  <2>. QED  BY <1>2, <1>3, <1>6, <1>7, <2>1 DEF IsRun
<1>. QED  BY <1>2, <1>4, <1>6, <1>8 DEF Came, more

\* Where it was before the last token.
LEMMA CameFrom ==
  ASSUME NEW S, NEW d \in Seq(S), d # <<>>, NEW c, Came(d, c)
  PROVE  \E b \in Config: Came(Front(d), b) /\ c = Advance(b, Last(d))
<1>. DEFINE n == Len(d)
            f == Front(d)
<1>1. PICK run: IsRun(run, d) /\ c = run[n]
  BY DEF Came
<1>2. /\ n \in Nat /\ n >= 1 /\ Len(f) = n - 1 /\ \A i \in 1..n - 1: f[i] = d[i]
      /\ Last(d) = d[n]
  BY FrontIs DEF Last
<1>. HIDE DEF f, n
<1>3. /\ run \in [0..n -> Config] /\ run[0] = [pc |-> "value", stack |-> <<>>]
      /\ \A k \in 1..n: run[k] = Advance(run[k - 1], d[k])
  BY <1>1 DEF IsRun, n
<1>. DEFINE shorter == [k \in 0..n - 1 |-> run[k]]
<1>4. /\ shorter \in [0..n - 1 -> Config] /\ \A k \in 0..n - 1: shorter[k] = run[k]
      /\ 0 \in 0..n - 1 /\ n - 1 \in 0..n - 1 /\ n \in 1..n
  BY <1>2, <1>3
<1>. HIDE DEF shorter
<1>5. ASSUME NEW k \in 1..n - 1 PROVE shorter[k] = Advance(shorter[k - 1], f[k])
  <2>1. k \in 0..n - 1 /\ k - 1 \in 0..n - 1 /\ k \in 1..n
    BY <1>2
  <2>. QED  BY <1>2, <1>3, <1>4, <2>1
<1>6. IsRun(shorter, f)
  BY <1>2, <1>3, <1>4, <1>5 DEF IsRun
<1>7. Came(f, shorter[n - 1]) /\ shorter[n - 1] \in Config
  BY <1>2, <1>4, <1>6 DEF Came
<1>8. c = Advance(shorter[n - 1], Last(d))
  BY <1>1, <1>2, <1>3, <1>4
<1>. QED  BY <1>7, <1>8 DEF f

LEMMA DeadStays == \A t: Advance(Dead, t) = Dead
  BY DEF Advance, Dead

LEMMA EndIsDead == \A c \in Config: Advance(c, EOS) = Dead
<1>. SUFFICES ASSUME NEW c \in Config PROVE Advance(c, EOS) = Dead
  OBVIOUS
<1>1. EOS.type = "eos"
  BY DEF EOS
<1>2. Begin(EOS, c.stack) = Dead
  BY <1>1 DEF Begin
<1>3. ~Key(EOS)
  BY <1>1 DEF Key
<1>. QED  BY <1>1, <1>2, <1>3 DEF Advance

\* After the first token a value is read into a container.
LEMMA ValueInside ==
  ASSUME NEW c \in Config, NEW t, Advance(c, t).pc = "value"
  PROVE  Advance(c, t).stack # <<>>
<1>1. c.pc \in Inside => c.stack # <<>>
  BY DEF Config
<1>2. Begin(t, c.stack).pc # "value"
  BY DEF Begin, Back, Dead
<1>3. Back(Pop(c.stack)).pc # "value"
  BY DEF Back
<1>. QED  BY <1>1, <1>2, <1>3 DEF Advance, Dead, Inside

\* No function is where the automaton has given up.
LEMMA ViewIsAlive ==
  ASSUME NEW at \in Reading, NEW fs
  PROVE  /\ View(at, fs) # Dead /\ (View(at, fs).pc = "tail" <=> at = "tail")
         /\ (View(at, fs).pc = "value" <=> at = "value")
         /\ View(at, fs).stack = KindsOf(fs)
  BY DEF View, Dead, Reading

-----------------------------------------------------------------------------
(* The parser *)

Unpacked == {Null, Array, Object}

\* The document is no value, and an error is known.
Refused(d) ==
  /\ d # <<>>
  /\ Came(d, Dead)
  /\ \E c \in Config: Came(Front(d), c) /\ c.pc # "tail"

\* While there is no error the functions are where the automaton is.
InStep ==
  /\ pc \in Reading /\ Named(pc, frames)
  /\ Came(doc, View(pc, frames))
  /\ doc # <<>> => /\ pc = "value" => frames # <<>>
                   /\ tree[ROOT].value = RootValue(doc[1])

\* What parse returns.
Answered ==
  /\ doc # <<>>
  /\ \E c \in Config:
       /\ Came(Front(doc), c)
       /\ ok <=> c.pc = "tail" /\ (strictRoot => RootValue(doc[1]) \in Unpacked)

ParseInv ==
  phase = "parse" /\ Clean(doc) =>
    /\ pc = "done" => Answered
    /\ pc # "done" /\ errors = 0 => InStep
    /\ pc # "done" /\ errors # 0 => Refused(doc)

\* The functions recover from an error, and read.
LEMMA RefusedOn ==
  ASSUME doc \in Seq(AnyToken), Refused(doc), NEW t \in AnyToken, Read(t)
  PROVE  Refused(doc') /\ \E c \in Config: Came(Front(doc'), c) /\ c.pc # "tail"
<1>1. Refused(doc) /\ \E c \in Config: Came(Front(doc), c) /\ c.pc # "tail"
  BY DEF Refused
<1>2. CASE doc' = doc
  BY <1>1, <1>2
<1>3. CASE doc' = Append(doc, t)
  <2>1. doc' # <<>> /\ Front(doc') = doc
    BY <1>3, FrontAppend
  <2>2. Came(doc', Dead) /\ Dead \in Config
    BY <1>1, <1>3, CameOn, DeadStays DEF Refused
  <2>3. Dead.pc # "tail"
    BY DEF Dead
  <2>. QED  BY <1>1, <2>1, <2>2, <2>3 DEF Refused
<1>. QED  BY <1>2, <1>3 DEF Read

LEMMA RecoveryStep ==
  ASSUME ErrorInv, errors # 0, pc # "done", Next, given = FALSE,
         doc \in Seq(AnyToken), Refused(doc), Clean(doc')
  PROVE  /\ pc' = "done" => Answered'
         /\ pc' # "done" => errors' # 0 /\ Refused(doc')
<1>1. pc = "recover" \/ (pc = "tail" /\ ok = FALSE)
  BY DEF ErrorInv
<1>2. CASE pc = "recover"
  <2>1. Recover
    BY <1>2 DEF Next, Value, NameOrEnd, Colon, Comma, CommaAfterComment, First, Separator, Finish
  <2>2. PICK t \in Offered: Read(t) /\ errors' = errors /\ pc' # "done"
    BY <1>2, <2>1 DEF Recover, ReturnContainer, Return, Skip
  <2>. QED  BY <2>2, CleanToken, RefusedOn
<1>3. CASE pc = "tail" /\ ok = FALSE
  <2>1. Finish
    BY <1>3 DEF Next, Value, NameOrEnd, Colon, Comma, CommaAfterComment, First, Separator, Recover
  <2>2. PICK t \in Offered: /\ Read(t)
                            /\ t.type # "comment" => pc' = "done" /\ ok' = FALSE
    BY <1>3, <2>1 DEF Finish
  <2>3. pc' = "done" /\ ok' = FALSE /\ t \in AnyToken
    BY <2>2, CleanToken DEF PlainToken
  <2>4. Refused(doc') /\ \E c \in Config: Came(Front(doc'), c) /\ c.pc # "tail"
    BY <2>2, <2>3, RefusedOn
  <2>. QED  BY <2>3, <2>4 DEF Answered, Refused
<1>. QED  BY <1>1, <1>2, <1>3

\* A token is read that the automaton reads too.
LEMMA FollowsOn ==
  ASSUME doc \in Seq(AnyToken), pc \in Reading, Came(doc, View(pc, frames)),
         NEW t \in AnyToken, Read(t)
  PROVE  doc' = Append(doc, t) /\ Front(doc') = doc /\ doc' # <<>> /\ View(pc, frames) \in Config
<1>1. View(pc, frames) \in Config
  BY CameOn
<1>2. ~(doc # <<>> /\ Last(doc) = EOS)
  <2>. SUFFICES ASSUME doc # <<>>, Last(doc) = EOS PROVE FALSE
    OBVIOUS
  <2>1. View(pc, frames) = Dead
    BY CameFrom, EndIsDead
  <2>. QED  BY <2>1, ViewIsAlive
<1>3. doc' = Append(doc, t)
  BY <1>2 DEF Read
<1>. QED  BY <1>1, <1>3, FrontAppend

\* The first token makes the root what it is.
LEMMA FirstRead ==
  ASSUME NEW K, NEW N, Position(N), Good(K, tree, node, frames, last),
         pc = "value", frames = <<>>, node = ROOT, Next, given = FALSE,
         doc = <<>>, Clean(doc'), NEW t \in Offered, Read(t), Begin(t, <<>>) # Dead
  PROVE  tree'[ROOT].value = RootValue(t)
<1>1. doc \in Seq(AnyToken) /\ doc'[1] = t
  <2>1. doc \in Seq(AnyToken)
    OBVIOUS
  <2>. QED  BY <2>1, ReadToken
<1>2. Value
  BY DEF Next, NameOrEnd, Colon, Comma, CommaAfterComment, First, Separator, Recover, Finish
<1>3. PICK u \in Offered: Read(u) /\ (u.type # "comment" => ReadValue(u, ROOT, tree, <<>>))
  BY <1>2 DEF Value
<1>4. u = t
  BY <1>1, <1>3, ReadToken
<1>5. ReadValue(t, ROOT, tree, <<>>)
  BY <1>1, <1>3, <1>4, CleanToken DEF PlainToken
<1>6. Rooted(K, tree) /\ ROOT \in DOMAIN tree
  <2>1. ROOT \in DOMAIN tree /\ DOMAIN tree \subseteq Seq(K) /\ Nodes(tree)
    BY DEF Good, Nodes
  <2>. QED  BY <2>1, RootedIs
<1>. QED  BY <1>5, <1>6, ReadValueRoot

LEMMA NoKinds == KindsOf(<<>>) = <<>>
<1>. DEFINE none == {}
<1>1. <<>> \in Seq(Frame(none))
  OBVIOUS
<1>. HIDE DEF none
<1>. QED  BY <1>1, KindsFacts

LEMMA FollowStep ==
  ASSUME NEW K, NEW N, Position(N), Good(K, tree, node, frames, last),
         errors = 0, pc # "tail", Next, given = FALSE, doc \in Seq(AnyToken),
         doc = <<>> => pc = "value" /\ frames = <<>> /\ node = ROOT,
         InStep, Clean(doc')
  PROVE  /\ pc' # "done"
         /\ errors' = 0 => InStep'
         /\ errors' # 0 => Refused(doc')
<1>. DEFINE c == View(pc, frames)
<1>1. pc \in Reading \ {"tail"} /\ Named(pc, frames) /\ Came(doc, c)
  BY DEF InStep
<1>2. PICK t \in Offered: Read(t) /\ (t \in AnyToken /\ PlainToken(t) => GoesTo(Advance(c, t)))
  BY <1>1, StepView
<1>3. t \in AnyToken /\ GoesTo(Advance(c, t))
  BY <1>2, CleanToken
<1>4. /\ doc' = Append(doc, t) /\ Front(doc') = doc /\ doc' # <<>> /\ c \in Config
      /\ Came(doc', Advance(c, t))
  BY <1>1, <1>2, <1>3, FollowsOn, CameOn
<1>5. CASE errors' = 1 /\ pc' # "done" /\ Advance(c, t) = Dead
  <2>1. c.pc # "tail"
    BY <1>1, ViewIsAlive
  <2>. QED  BY <1>1, <1>4, <1>5, <2>1 DEF Refused
<1>6. CASE /\ errors' = 0 /\ pc' \in Reading
           /\ View(pc', frames') = Advance(c, t) /\ Named(pc', frames')
  <2>1. pc' # "done" /\ Came(doc', View(pc', frames'))
    BY <1>4, <1>6 DEF Reading
  <2>2. ASSUME pc' = "value" PROVE frames' # <<>>
    <3>1. Advance(c, t).stack # <<>> /\ Advance(c, t).stack = KindsOf(frames')
      BY <1>4, <1>6, <2>2, ValueInside, ViewIsAlive
    <3>. QED  BY <3>1, NoKinds
  <2>3. CASE doc = <<>>
    <3>1. doc'[1] = t
      BY <1>2, <2>3, ReadToken
    <3>2. c.pc = "value" /\ c.stack = <<>>
      <4>1. KindsOf(frames) = <<>> /\ pc = "value"
        BY <2>3, NoKinds
      <4>. QED  BY <1>1, <4>1, ViewIsAlive
    <3>3. Advance(c, t) = Begin(t, <<>>) /\ Advance(c, t) # Dead
      <4>1. Advance(c, t) = Begin(t, <<>>)
        BY <3>2 DEF Advance
      <4>. QED  BY <1>6, <4>1, ViewIsAlive
    <3>4. tree'[ROOT].value = RootValue(t)
      BY <1>2, <2>3, <3>3, FirstRead
    <3>. QED  BY <1>6, <2>1, <2>2, <3>1, <3>4 DEF InStep
  <2>4. CASE doc # <<>>
    <3>1. doc'[1] = doc[1]
      BY <1>2, <2>4, ReadToken
    <3>2. frames # <<>>
      <4>1. pc # "value" => Len(frames) >= 1
        BY <1>1 DEF Position, Reading
      <4>. QED  BY <2>4, <4>1, EmptySeq DEF InStep
    <3>3. tree'[ROOT].value = tree[ROOT].value
      BY <1>1, <3>2, RootKept
    <3>4. tree[ROOT].value = RootValue(doc[1])
      BY <2>4 DEF InStep
    <3>. QED  BY <1>6, <2>1, <2>2, <3>1, <3>3, <3>4 DEF InStep
  <2>. QED  BY <1>6, <2>1, <2>3, <2>4
<1>. QED  BY <1>3, <1>5, <1>6 DEF GoesTo

LEMMA LastStep ==
  ASSUME ErrorInv, errors = 0, pc = "tail", Next, given = FALSE, doc \in Seq(AnyToken),
         doc = <<>> => pc = "value", InStep, Clean(doc')
  PROVE  pc' = "done" /\ Answered'
<1>. DEFINE c == View(pc, frames)
<1>1. /\ pc \in Reading /\ Came(doc, c) /\ doc # <<>>
      /\ tree[ROOT].value = RootValue(doc[1]) /\ ok = TRUE
  BY DEF InStep, ErrorInv
<1>2. Finish
  BY DEF Next, Value, NameOrEnd, Colon, Comma, CommaAfterComment, First, Separator, Recover
<1>3. PICK t \in Offered:
        /\ Read(t)
        /\ t.type # "comment" =>
             /\ pc' = "done"
             /\ ok' = (ok /\ ~(strictRoot /\ ~IsArray(tree, ROOT) /\ ~IsObject(tree, ROOT)))
  BY <1>2 DEF Finish
<1>4. t \in AnyToken /\ t.type # "comment"
  BY <1>3, CleanToken DEF PlainToken
<1>5. Front(doc') = doc /\ doc' # <<>> /\ doc'[1] = doc[1] /\ c \in Config /\ mode' = mode
  BY <1>1, <1>3, <1>4, FollowsOn, ReadToken DEF Read
<1>6. c.pc = "tail"
  BY <1>1, ViewIsAlive
<1>7. ok' <=> (strictRoot => tree[ROOT].value \in Unpacked)
  BY <1>1, <1>3, <1>4 DEF IsArray, IsObject, Unpacked
<1>8. strictRoot' = strictRoot
  BY <1>5 DEF strictRoot
<1>9. ok' <=> c.pc = "tail" /\ (strictRoot' => RootValue(doc'[1]) \in Unpacked)
  BY <1>1, <1>5, <1>6, <1>7, <1>8
<1>. QED  BY <1>1, <1>3, <1>4, <1>5, <1>9 DEF Answered

LEMMA ParseStep == ProgramInv /\ NumberInv /\ ParseInv /\ [JsonNext]_allVars => ParseInv'
<1>. SUFFICES ASSUME ProgramInv, NumberInv, ParseInv, [JsonNext]_allVars,
                     phase' = "parse", Clean(doc')
              PROVE  /\ pc' = "done" => Answered'
                     /\ pc' # "done" /\ errors' = 0 => InStep'
                     /\ pc' # "done" /\ errors' # 0 => Refused(doc')
  BY DEF ParseInv
<1>1. phase = "parse" /\ (UNCHANGED vars \/ Next)
  BY DEF JsonNext, Parse, Parsed, SetMember, RemoveKey, AppendValue, ResizeRoot, ClearRoot,
         Edit, Write, allVars, programVars
<1>2. /\ given = FALSE /\ doc \in Seq(AnyToken)
      /\ doc = <<>> => pc = "value" /\ frames = <<>> /\ node = ROOT
  BY <1>1 DEF NumberInv
<1>3. PICK K, N: Position(N) /\ Good(K, tree, node, frames, last)
  BY DEF ProgramInv, NodesInv
<1>4. CASE UNCHANGED vars
  <2>1. /\ doc' = doc /\ pc' = pc /\ errors' = errors /\ frames' = frames /\ tree' = tree
        /\ ok' = ok /\ mode' = mode
    BY <1>4 DEF vars, inputVars
  <2>2. Clean(doc)
    BY <2>1
  <2>. QED  BY <1>1, <2>1, <2>2 DEF ParseInv, Answered, InStep, strictRoot
<1>5. CASE Next
  <2>1. Clean(doc)
    <3>1. PICK t \in Offered: Read(t)
      BY <1>5 DEF Next, Value, NameOrEnd, Colon, Comma, CommaAfterComment, First, Separator,
                  Recover, Finish
    <3>. QED  BY <1>2, <3>1, CleanToken
  <2>2. pc # "done"
    BY <1>5 DEF Next, Value, NameOrEnd, Colon, Comma, CommaAfterComment, First, Separator,
                Recover, Finish
  <2>3. CASE errors # 0
    <3>1. Refused(doc)
      BY <1>1, <2>1, <2>2, <2>3 DEF ParseInv
    <3>. QED  BY <1>2, <1>5, <2>2, <2>3, <3>1, RecoveryStep DEF ProgramInv
  <2>4. CASE errors = 0
    <3>1. InStep
      BY <1>1, <2>1, <2>2, <2>4 DEF ParseInv
    <3>2. CASE pc = "tail"
      BY <1>2, <1>5, <2>4, <3>1, <3>2, LastStep DEF ProgramInv
    <3>3. CASE pc # "tail"
      BY <1>2, <1>3, <1>5, <2>4, <3>1, <3>3, FollowStep
    <3>. QED  BY <3>2, <3>3
  <2>. QED  BY <2>3, <2>4
<1>. QED  BY <1>1, <1>4, <1>5

\* Of a value, the first token tells what the root is.
LEMMA RootOfValue ==
  ASSUME NEW s \in Seq(AnyToken), IsValue(s)
  PROVE  /\ s # <<>>
         /\ RootValue(s[1]) \in Unpacked
            <=> \/ Type(s, 1) \in {"objectBegin", "arrayBegin"}
                \/ s = <<[type |-> "literal", value |-> Null]>>
<1>. DEFINE v == ValueTable(s)
            t == s[1]
            n == Len(s)
            null == [type |-> "literal", value |-> Null]
<1>1. 1 \in ValuesOf(s, v, n) /\ n \in Nat
  <2>1. n \in Nat /\ n \in 0..n
    OBVIOUS
  <2>. QED  BY <2>1, ValuesExist
<1>2. \/ n = 1 /\ t.type \in {"number", "string", "literal"} /\ Scalar(t) # Failed
      \/ \E kind \in {"object", "array"}: IsContainer(s, v, kind, 1, 1 + n - 1)
  <2>. HIDE DEF v
  <2>. QED  BY <1>1 DEF ValuesOf, Type
<1>3. CASE \E kind \in {"object", "array"}: IsContainer(s, v, kind, 1, 1 + n - 1)
  <2>1. t.type \in {"objectBegin", "arrayBegin"} /\ 1 < n
    <3>. HIDE DEF v
    <3>. QED  BY <1>1, <1>3 DEF IsContainer, Opens, Type
  <2>2. RootValue(t) \in Unpacked
    BY <2>1 DEF RootValue, Unpacked
  <2>. QED  BY <2>1, <2>2, EmptySeq DEF Type
<1>4. CASE n = 1 /\ t.type \in {"number", "string", "literal"} /\ Scalar(t) # Failed
  <2>1. t \in AnyToken /\ s # <<>>
    <3>1. Len(s) = 1 /\ 1 \in 1..Len(s)
      BY <1>4
    <3>2. s[1] \in AnyToken
      BY <3>1
    <3>3. s # <<>>
      BY <3>1, EmptySeq, SMTT(60)
    <3>. QED  BY <3>2, <3>3
  <2>2. RootValue(t) = Scalar(t)
    BY <1>4 DEF RootValue
  <2>3. s = <<null>> <=> t = null
    <3>1. s = <<t>>
      BY <1>4
    <3>. HIDE DEF t, null
    <3>. QED  BY <3>1
  <2>. HIDE DEF t
  <2>4. CASE t.type = "number"
    <3>1. Scalar(t).type \in {"int", "uint", "real", "infinite"}
      BY <1>4, <2>4 DEF Scalar, DecodeNumber, DecodeDouble, Infinity
    <3>. QED  BY <2>1, <2>2, <2>3, <2>4, <3>1 DEF Unpacked, Null, Array, Object, Type, t
  <2>5. CASE t.type = "string"
    <3>1. DecodeString(t) # Failed
            => DecodeString(t) = [type |-> "string", text |-> DecodeString(t).text]
      BY DEF DecodeString
    <3>2. Scalar(t).type = "string"
      BY <1>4, <2>5, <3>1 DEF Scalar
    <3>. QED  BY <2>1, <2>2, <2>3, <2>5, <3>2 DEF Unpacked, Null, Array, Object, Type, t
  <2>6. CASE t.type = "literal"
    <3>1. Scalar(t) = t.value
      BY <2>6 DEF Scalar
    <3>2. t = [type |-> "literal", value |-> t.value] /\ t.value \in {Null, Bool(TRUE), Bool(FALSE)}
      BY <2>1, <2>6, TokenIs
    <3>3. t.value \in Unpacked <=> t.value = Null
      BY <3>2 DEF Unpacked, Null, Array, Object, Bool
    <3>4. t = null <=> t.value = Null
      BY <3>2
    <3>. QED  BY <2>1, <2>2, <2>3, <2>6, <3>1, <3>3, <3>4 DEF Type, t
  <2>. QED  BY <1>4, <2>4, <2>5, <2>6
<1>. QED  BY <1>2, <1>3, <1>4

\* Whatever the document, as long as it has no comments and no empty names, parse
\* accepts it exactly when the grammar of JSON does (and, in strict mode, when its
\* root may be one): the functions that call each other, however deep, read what is
\* nested as the grammar nests it, and no recovery makes a bad document good.
THEOREM DocumentsAreParsed == JsonSpec => []ParsesJson
<1>1. JsonInit => ParseInv
  <2>. SUFFICES ASSUME JsonInit PROVE ParseInv
    OBVIOUS
  <2>1. doc = <<>> /\ pc = "value" /\ frames = <<>> /\ errors = 0
    BY DEF JsonInit, Init
  <2>2. View(pc, frames) = [pc |-> "value", stack |-> <<>>]
    BY <2>1, NoKinds DEF View
  <2>3. Named(pc, frames)
    BY <2>1, EmptySeq DEF Named, AllNamed
  <2>4. Came(doc, View(pc, frames)) /\ pc \in Reading
    BY <2>1, <2>2, CameFirst DEF Reading
  <2>. QED  BY <2>1, <2>3, <2>4 DEF ParseInv, InStep
<1>2. NumberInv /\ ParseInv => ParsesJson
  <2>. SUFFICES ASSUME NumberInv, ParseInv, phase = "parse", pc = "done",
                       ~(\E i \in DOMAIN doc: Type(doc, i) = "comment"), ~HasEmptyName(doc)
                PROVE  ok <=> IsValue(Front(doc)) /\ StrictRoot(Front(doc))
    BY DEF ParsesJson
  <2>1. doc \in Seq(AnyToken) /\ Clean(doc)
    <3>1. doc \in Seq(AnyToken) /\ DOMAIN doc = 1..Len(doc)
      BY DEF NumberInv
    <3>. QED  BY <3>1 DEF Clean, PlainToken, Type, HasEmptyName
  <2>2. Answered /\ doc # <<>>
    BY <2>1 DEF ParseInv, Answered
  <2>. DEFINE s == Front(doc)
  <2>3. /\ s \in Seq(AnyToken) /\ Len(s) = Len(doc) - 1 /\ Len(doc) \in Nat
        /\ \A i \in 1..Len(doc) - 1: s[i] = doc[i]
    BY <2>1, <2>2, FrontIs
  <2>4. PICK c: /\ Came(s, c)
                /\ ok <=> c.pc = "tail" /\ (strictRoot => RootValue(doc[1]) \in Unpacked)
    BY <2>2 DEF Answered
  <2>. HIDE DEF s
  <2>5. c.pc = "tail" <=> IsValue(s)
    <3>1. PICK run: IsRun(run, s) /\ c = run[Len(s)]
      BY <2>4 DEF Came
    <3>2. Len(s) \in Nat
      BY <2>3
    <3>. QED  BY <3>1, <3>2, Recognised
  <2>6. ASSUME IsValue(s) PROVE strictRoot => (RootValue(doc[1]) \in Unpacked <=> StrictRoot(s))
    <3>1. s # <<>> /\ s[1] = doc[1]
      <4>1. s # <<>>
        BY <2>3, <2>6, RootOfValue
      <4>2. Len(s) >= 1
        BY <2>3, <4>1, EmptySeq
      <4>. QED  BY <2>3, <4>1, <4>2
    <3>2. RootValue(s[1]) \in Unpacked
            <=> \/ Type(s, 1) \in {"objectBegin", "arrayBegin"}
                \/ s = <<[type |-> "literal", value |-> Null]>>
      BY <2>3, <2>6, RootOfValue
    <3>. QED  BY <3>1, <3>2 DEF StrictRoot, strictRoot
  <2>7. ~strictRoot => StrictRoot(s)
    BY DEF StrictRoot, strictRoot
  <2>8. ok <=> IsValue(s) /\ StrictRoot(s)
    BY <2>4, <2>5, <2>6, <2>7
  <2>. QED  BY <2>8 DEF s
<1>3. ProgramInv /\ NumberInv /\ ParseInv /\ [JsonNext]_allVars => ParseInv'
  BY ParseStep
<1>. QED  BY <1>1, <1>2, <1>3, NumberAlways, ProgramAlways, PTL DEF JsonSpec

=============================================================================
