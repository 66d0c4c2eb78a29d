---------------------------- MODULE MCLog4zFiles ----------------------------
EXTENDS Log4zFiles
\* A number and a container, which is cut off.
Messages == {<<[kind |-> "data", len |-> 2], [kind |-> "container", len |-> 12]>>}
HotChanges == {[type |-> "name", value |-> "b"], [type |-> "enable", value |-> FALSE],
               [type |-> "limitsize", value |-> 0], [type |-> "level", value |-> 1]}
=============================================================================
