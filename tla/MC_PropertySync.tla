--------------------------- MODULE MC_PropertySync ---------------------------
(* A small instance of PropertySync: two players.                               *)
EXTENDS PropertySync

CONSTANTS p1, p2

MCPlayers == {p1, p2}

Symmetry == Permutations(MCPlayers)
=============================================================================
