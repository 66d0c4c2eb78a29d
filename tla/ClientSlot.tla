----------------------------- MODULE ClientSlot -----------------------------
(***************************************************************************)
(* What the single_client member of a TCP_CS server promises to the        *)
(* threads that share it: it names nobody, or one connection that is being *)
(* handled.  A connection is registered once, when its handler begins, and *)
(* its handler returns only after the slot stopped naming it.  Anybody may *)
(* empty the slot, so a connection may lose it while it is handled.        *)
(* TcpCsServer implements this specification.                              *)
(***************************************************************************)
CONSTANTS
  Clients,        \* the connections accepted in the life of the server
  NULL            \* the null pointer

VARIABLES
  slot,           \* TCP_CS::single_client
  stage           \* how far the handler of each connection is

vars == <<slot, stage>>

Stages == {"new", "serving", "retired"}

Init ==
  /\ slot = NULL
  /\ stage = [c \in Clients |-> "new"]

\* The handler of c publishes its connection, whoever was there.
Register(c) ==
  /\ stage[c] = "new"
  /\ stage' = [stage EXCEPT ![c] = "serving"]
  /\ slot' = c

\* Somebody resets the pointer: a handler, the sender or stop_server.
Clear ==
  /\ slot' = NULL
  /\ UNCHANGED stage

\* The handler of c returns.
Retire(c) ==
  /\ stage[c] = "serving"
  /\ slot # c
  /\ stage' = [stage EXCEPT ![c] = "retired"]
  /\ UNCHANGED slot

Next == Clear \/ \E c \in Clients: Register(c) \/ Retire(c)

Spec == Init /\ [][Next]_vars

-----------------------------------------------------------------------------
\* The slot and the stages stay in their types.
TypeOK ==
  /\ slot \in Clients \cup {NULL}
  /\ stage \in [Clients -> Stages]

\* Whoever reads the slot (cserver's sender, a newcomer's handler, stop_server)
\* gets nobody or a connection whose handler still runs.
NamesServed == slot # NULL => stage[slot] = "serving"
=============================================================================
