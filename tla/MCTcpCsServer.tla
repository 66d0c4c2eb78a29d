--------------------------- MODULE MCTcpCsServer ---------------------------
EXTENDS TcpCsServer, TLC
Symmetry == Permutations(Clients)
=============================================================================
