------------------------------ MODULE JsonValue ------------------------------
(***************************************************************************)
(* Json::Value (src/sockman/jsoncpp.cpp, json_value.cpp).                  *)
(*                                                                         *)
(* A document is a tree of Values: a function from paths to nodes.  A path *)
(* is the sequence of keys that leads to a Value, and stands for its       *)
(* address, for a std::map never moves its elements.  A node is what the   *)
(* Value is and which comments it carries; an assignment changes the first *)
(* and leaves the second, as Value::swap does.                             *)
(***************************************************************************)
EXTENDS JsonText, FiniteSetsExt

ROOT == <<>>

Index(i) == [index |-> i]
Name(text) == [name |-> CStr(text)]

Null == [type |-> "null"]
Array == [type |-> "array"]
Object == [type |-> "object"]
Bool(b) == [type |-> "bool", is |-> b]

Leaf(value) == [value |-> value, comments |-> {}]

Is(tree, path, type) == tree[path].value.type = type

\* isArray, isObject: null is both.
IsArray(tree, path) == tree[path].value \in {Null, Array}
IsObject(tree, path) == tree[path].value \in {Null, Object}

Below(tree, path) == {p \in DOMAIN tree: p # path /\ IsPrefix(path, p)}
Children(tree, path) == {p \in Below(tree, path): Len(p) = Len(path) + 1}

\* operator=, swap: a Value is another one, with nothing below it.
Assign(tree, path, value) ==
  [p \in DOMAIN tree \ Below(tree, path) |->
     IF p = path THEN [tree[p] EXCEPT !.value = value] ELSE tree[p]]

\* operator[], resolveReference, for a Value that is null or a container of that kind.
Child(tree, path, key) ==
  LET container == IF Is(tree, path, "null")
                   THEN Assign(tree, path, IF "index" \in DOMAIN key THEN Array ELSE Object)
                   ELSE tree
      child     == Append(path, key)
  IN IF child \in DOMAIN tree THEN tree
     ELSE [p \in DOMAIN container \cup {child} |-> IF p = child THEN Leaf(Null) ELSE container[p]]

\* size(): of an array the highest index + 1.
Size(tree, path) ==
  CASE Is(tree, path, "array")  -> Max({0} \cup {Last(p).index + 1: p \in Children(tree, path)})
    [] Is(tree, path, "object") -> Cardinality(Children(tree, path))
    [] OTHER                    -> 0

Without(tree, paths) ==
  [p \in {q \in DOMAIN tree: ~\E r \in paths: IsPrefix(r, q)} |-> tree[p]]

\* clear()
Clear(tree, path) == Without(tree, Children(tree, path))

\* removeMember, for a Value that is null or an object.
RemoveMember(tree, path, key) == Without(tree, {Append(path, key)})

\* append, for a Value that is null or an array.
AppendTo(tree, path, value) ==
  LET key == Index(Size(tree, path))
  IN Assign(Child(tree, path, key), Append(path, key), value)

\* resize, for a Value that is null or an array: what it leaves, before its
\* assertion.
Resize(tree, path, newSize) ==
  LET array == IF Is(tree, path, "null") THEN Assign(tree, path, Array) ELSE tree
  IN IF newSize = 0 THEN Clear(array, path)
     ELSE IF newSize > Size(array, path) THEN Child(array, path, Index(newSize - 1))
     ELSE Without(array, {p \in Children(array, path): Last(p).index >= newSize})

\* assert( size() == newSize )
ResizeAsserts(tree, path, newSize) ==
  newSize \in 1..Size(tree, path) => Size(Resize(tree, path, newSize), path) = newSize

-----------------------------------------------------------------------------
(* Conversions: the results that there can be, none when the code throws. *)

Within(num, low, high) == IF num \in low..high THEN {num} ELSE {}

\* Mutant: a uint is not looked at.
AsIntUnchecked(value) ==
  CASE value.type = "null" -> {0}
    [] value.type \in {"int", "real"} -> Within(value.num, -MaxInt - 1, MaxInt)
    [] value.type = "uint" -> {((value.num + MaxInt + 1) % (2 * (MaxInt + 1))) - MaxInt - 1}
    [] value.type = "bool" -> {IF value.is THEN 1 ELSE 0}
    [] OTHER -> {}

\* asInt
AsInt(value) ==
  CASE value.type = "null" -> {0}
    [] value.type \in {"int", "uint", "real"} -> Within(value.num, -MaxInt - 1, MaxInt)
    [] value.type = "bool" -> {IF value.is THEN 1 ELSE 0}
    [] OTHER -> {}

\* asUInt
AsUInt(value) ==
  CASE value.type = "null" -> {0}
    [] value.type \in {"int", "uint", "real"} -> Within(value.num, 0, 2 * MaxInt + 1)
    [] value.type = "bool" -> {IF value.is THEN 1 ELSE 0}
    [] OTHER -> {}

\* asInt64.  A double goes through an Int: beyond it, the result is undefined.
AsInt64(value) ==
  CASE value.type = "null" -> {0}
    [] value.type = "int" -> {value.num}
    [] value.type = "uint" -> Within(value.num, 0, LargestInt - 1)
    [] value.type = "real" ->
         IF value.num \notin -LargestInt..LargestInt THEN {}
         ELSE IF value.num \in -MaxInt - 1..MaxInt THEN {value.num} ELSE -MaxInt - 1..MaxInt
    [] value.type = "bool" -> {IF value.is THEN 1 ELSE 0}
    [] OTHER -> {}

\* asBool
AsBool(tree, path) ==
  LET value == tree[path].value
  IN CASE value.type = "null" -> FALSE
       [] value.type \in {"int", "uint", "real"} -> value.num # 0
       [] value.type = "infinite" -> TRUE
       [] value.type = "bool" -> value.is
       [] value.type = "string" -> value.text # <<>>
       [] OTHER -> Children(tree, path) # {}

-----------------------------------------------------------------------------
(* What a document says *)

Values(tree) == [p \in DOMAIN tree |-> tree[p].value]

\* The const operator[]: what is missing in an array is null.
Gaps(tree) ==
  (UNION {{Append(p, Index(i)): i \in 0..Size(tree, p) - 1}:
            p \in {q \in DOMAIN tree: Is(tree, q, "array")}}) \ DOMAIN tree

Dense(tree) ==
  [p \in DOMAIN tree \cup Gaps(tree) |-> IF p \in DOMAIN tree THEN tree[p].value ELSE Null]
=============================================================================
