-------------------------- MODULE MCTcpManTransfer --------------------------
EXTENDS TcpManTransfer
CONSTANT MaxSize
\* Files of every size up to MaxSize; a byte is its position, so that no two
\* are alike.
Positions == 1..MaxSize
FilesUpTo == {[j \in 1..n |-> j]: n \in 0..MaxSize}
=============================================================================
