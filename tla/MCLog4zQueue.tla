---------------------------- MODULE MCLog4zQueue ----------------------------
EXTENDS Log4zQueue
\* Two messages of each producer, one change of each changer.
Calls == [t \in Users |-> IF t \in Producers THEN 2 ELSE 1]
=============================================================================
