-------------------------------- MODULE MCWorld --------------------------------
\* Two players and an NPC on a strip of four cells, two sectors wide.
EXTENDS World
CONSTANTS p1, p2, n1
MCPlayers == {p1, p2}
MCNPCs == {n1}
MCFree == Cells
MCSaved == {[x |-> 0, y |-> 0]}
MCHome == [n \in MCNPCs |-> [x |-> 1, y |-> 0]]
=============================================================================
