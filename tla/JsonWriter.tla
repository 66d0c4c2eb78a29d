------------------------------ MODULE JsonWriter ------------------------------
(***************************************************************************)
(* FastWriter, StyledWriter and StyledStreamWriter (src/sockman/           *)
(* jsoncpp.cpp, json_writer.cpp): the tokens that they write.  Where they  *)
(* put spaces and new lines is left out, but not where they put comments,  *)
(* and a value is taken to be one character long where it counts.          *)
(***************************************************************************)
EXTENDS JsonValue

CONSTANT RightMargin      \* rightMargin_

T(type) == [type |-> type]
WrittenComment == [type |-> "comment", same |-> FALSE]

\* What FastWriter writes for a value that has none below it.
ScalarText(value) ==
  CASE value.type = "string" -> StringText(value.text)
    [] value.type \in {"int", "uint", "real", "infinite"} -> NumberText(value)
    [] value.type \in {"null", "bool"} -> [type |-> "literal", value |-> value]

\* The elements of an array in their order, the members of an object in some order.
Elements(tree, path) ==
  [i \in 1..Size(tree, path) |-> Append(path, Index(i - 1))]
Members(tree, path) == SetToSeq(Children(tree, path))

At(tree, path) == IF path \in DOMAIN tree THEN tree[path] ELSE Leaf(Null)

\* The parts, with commas between them.
Joined(parts) ==
  FlattenSeq([i \in DOMAIN parts |-> (IF i > 1 THEN <<T("arraySeparator")>> ELSE <<>>) \o parts[i]])

FastValue(tree, path) ==
  LET text[p \in DOMAIN tree \cup Gaps(tree)] ==
        LET value    == At(tree, p).value
            elements == Elements(tree, p)
            members  == Members(tree, p)
        IN CASE value = Array ->
                  <<T("arrayBegin")>>
                  \o Joined([i \in DOMAIN elements |-> text[elements[i]]])
                  \o <<T("arrayEnd")>>
             [] value = Object ->
                  <<T("objectBegin")>>
                  \o Joined([i \in DOMAIN members |->
                               <<StringText(Last(members[i]).name), T("memberSeparator")>>
                               \o text[members[i]]])
                  \o <<T("objectEnd")>>
             [] OTHER -> <<ScalarText(value)>>
  IN text[path]

\* FastWriter::write
Fast(tree) == FastValue(tree, ROOT)

-----------------------------------------------------------------------------
(* Comments *)

CommentBefore(tree, path) ==
  IF "before" \in At(tree, path).comments THEN <<WrittenComment>> ELSE <<>>

CommentAfter(tree, path) ==
  (IF "same" \in At(tree, path).comments THEN <<WrittenComment>> ELSE <<>>)
  \o (IF "after" \in At(tree, path).comments THEN <<WrittenComment>> ELSE <<>>)

\* isMultineArray
MultiLine(tree, path) ==
  LET size == Size(tree, path)
  IN \/ size * 3 >= RightMargin
     \/ \E p \in Children(tree, path): Children(tree, p) # {}
     \/ 4 + (size - 1) * 2 + size >= RightMargin

\* The parts on lines of their own, a comma before the comments that follow a part.
Lines(tree, paths, parts) ==
  FlattenSeq([i \in DOMAIN parts |->
                CommentBefore(tree, paths[i]) \o parts[i]
                \o (IF i < Len(parts) THEN <<T("arraySeparator")>> ELSE <<>>)
                \o CommentAfter(tree, paths[i])])

StyledValue(tree, path) ==
  LET text[p \in DOMAIN tree \cup Gaps(tree)] ==
        LET value    == At(tree, p).value
            elements == Elements(tree, p)
            members  == Members(tree, p)
            parts    == [i \in DOMAIN elements |-> text[elements[i]]]
        IN CASE value = Array ->
                  <<T("arrayBegin")>>
                  \o (IF MultiLine(tree, p) THEN Lines(tree, elements, parts) ELSE Joined(parts))
                  \o <<T("arrayEnd")>>
             [] value = Object ->
                  <<T("objectBegin")>>
                  \o Lines(tree, members,
                           [i \in DOMAIN members |->
                              <<StringText(Last(members[i]).name), T("memberSeparator")>>
                              \o text[members[i]]])
                  \o <<T("objectEnd")>>
             [] OTHER -> <<ScalarText(value)>>
  IN text[path]

\* StyledWriter::write
Styled(tree) ==
  CommentBefore(tree, ROOT) \o StyledValue(tree, ROOT) \o CommentAfter(tree, ROOT)

\* StyledStreamWriter::write: other new lines, the same tokens.
StyledStream(tree) == Styled(tree)
=============================================================================
