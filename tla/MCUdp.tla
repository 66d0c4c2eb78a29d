---------------------------------- MODULE MCUdp ----------------------------------
EXTENDS Udp

\* "this is the string", int[5] { 0, 1, 2, 3, 4 }, 5.0f
SockmanScript ==
  <<[size |-> 1, n |-> 0, data |-> [i \in 1..18 |-> 96 + i]],
    [size |-> 4, n |-> 5, data |-> [i \in 1..20 |-> IF i % 4 = 1 THEN i \div 4 ELSE 0]],
    [size |-> 4, n |-> 1, data |-> <<0, 0, 160, 64>>]>>
=============================================================================
