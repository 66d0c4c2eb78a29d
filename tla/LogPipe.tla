------------------------------- MODULE LogPipe -------------------------------
(***************************************************************************)
(* What log4z promises to the threads that log: the messages it accepted   *)
(* leave in the order in which they were accepted, each at most once, and  *)
(* none is invented.  A message that leaves is written or filtered out.    *)
(***************************************************************************)
EXTENDS Sequences

CONSTANT Message

VARIABLES
  pending,        \* accepted, not yet handled
  written

vars == <<pending, written>>

Init == pending = <<>> /\ written = <<>>

Accept == \E m \in Message: pending' = Append(pending, m) /\ UNCHANGED written

Leave ==
  /\ pending # <<>>
  /\ pending' = Tail(pending)
  /\ \/ written' = Append(written, Head(pending))
     \/ UNCHANGED written

Next == Accept \/ Leave

Spec == Init /\ [][Next]_vars
=============================================================================
