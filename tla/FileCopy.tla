------------------------------ MODULE FileCopy ------------------------------
(***************************************************************************)
(* What send_file and receive_file promise together: the copy grows by     *)
(* pieces of the file, in order, and is finished only when it is whole.    *)
(* TcpManTransfer implements this specification when every recv() returns  *)
(* the whole piece and neither process is killed.                          *)
(***************************************************************************)
EXTENDS Naturals, Sequences

CONSTANT Files    \* the files that may be sent

VARIABLES
  file,           \* the file that is sent
  copy,           \* what was written on the other side
  finished        \* the receiver returned

vars == <<file, copy, finished>>

Init ==
  /\ file \in Files
  /\ copy = <<>>
  /\ finished = FALSE

\* Some more bytes of the file are written.
Write ==
  /\ ~finished
  /\ \E n \in Len(copy) + 1..Len(file): copy' = SubSeq(file, 1, n)
  /\ UNCHANGED <<file, finished>>

\* The last bytes are written, or there were none, and the receiver returns.
Finish ==
  /\ ~finished
  /\ finished' = TRUE
  /\ copy' = file
  /\ UNCHANGED file

Next == Write \/ Finish

Spec == Init /\ [][Next]_vars
=============================================================================
