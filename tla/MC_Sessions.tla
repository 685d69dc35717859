----------------------------- MODULE MC_Sessions -----------------------------
(* A small instance of Sessions: frames of 2 ms, effects after 2 and 3 frames,   *)
(* the cooldown of an attack exactly as long as its delay allows.                *)
EXTENDS Sessions, TLC

CONSTANTS c1, c2, n1, n2

MCDelays == {5, 7}
MCConns  == {c1, c2}
MCNames  == {n1, n2}

Symmetry == Permutations(MCConns) \cup Permutations(MCNames)

=============================================================================
