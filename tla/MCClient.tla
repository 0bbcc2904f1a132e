-------------------------------- MODULE MCClient -------------------------------
\* Two players and an NPC on a strip of three cells, with their clients.
EXTENDS Client
CONSTANTS p1, p2, n1
MCPlayers == {p1, p2}
MCNPCs == {n1}
MCFree == Cells
MCSaved == {[x |-> 0, y |-> 0]}
MCHome == [n \in MCNPCs |-> [x |-> 1, y |-> 0]]
MCStart == [x |-> 2, y |-> 0]
=============================================================================
