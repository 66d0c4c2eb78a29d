--------------------------------- MODULE MCJson ---------------------------------
EXTENDS Json

Num(neg, n, form) == [type |-> "number", neg |-> neg, digits |-> DigitsOf(n), form |-> form]
Text(pieces) == [type |-> "string", pieces |-> pieces]

A == 97
Common ==
  {T("objectBegin"), T("objectEnd"), T("arrayBegin"), T("arrayEnd"),
   T("arraySeparator"), T("memberSeparator"), T("error"),
   Text(<<Plain(A)>>), Num(FALSE, 1, "digits"),
   [type |-> "comment", same |-> TRUE], [type |-> "comment", same |-> FALSE]}

\* Numbers around the limits of the types, and the shapes that strings can have.
Rare ==
  {Num(neg, n, "digits"): neg \in BOOLEAN, n \in (0..1) \cup (6..9) \cup (14..18) \cup (29..42)}
  \cup {Num(FALSE, 3, "real"), Num(FALSE, 20, "real"), Num(FALSE, 1, "inf"), Num(FALSE, 1, "junk")}
  \cup {[type |-> "number", neg |-> TRUE, digits |-> <<>>, form |-> "digits"]}
  \cup {[type |-> "literal", value |-> v]: v \in {Null, Bool(TRUE), Bool(FALSE)}}
  \cup {Text(p): p \in {
          <<>>,
          <<Escape("u", 0), Plain(A)>>,
          <<Escape("u", 31), Escape("u", 233), Escape("u", 8364), Escape("slash", 0)>>,
          <<Escape("u", 55356), Escape("u", 57119)>>,
          <<Escape("u", 55356), Plain(A)>>,
          <<Escape("u", 55356)>>,
          <<Escape("x", 0)>>}}
  \cup {Text(<<Escape(l, 0)>>): l \in {"quote", "backslash", "b", "n", "t"}}

ReaderModes == {"comments", "strict"}
ProgramKeys == {<<A>>}
ProgramValues ==
  {[type |-> "int", num |-> -3], [type |-> "string", text |-> <<BACKSLASH, 7, 195, 169>>]}
=============================================================================
