------------------------------ MODULE MCBattle ------------------------------
EXTENDS Battle, TLC
CONSTANTS p1, p2, n1

OnePlayer == {p1}
TwoPlayers == {p1, p2}
OneNPC == {n1}
SamePlayers == Permutations(TwoPlayers)
=============================================================================
