----------------------------- MODULE MC_GridAOI -----------------------------
(* Small instances of GridAOI, with cells of side 4, so that a view radius is   *)
(* cut to 6.                                                                    *)
EXTENDS GridAOI

\* Five apart, in two cells, one on each side of the doubled cell that truncation
\* makes around zero: within a radius of 6 but not of 3, so sight is one-sided
\* between entities of different radii.
MCNear == {<<-5, 0>>, <<-1, 3>>}

MCRadii    == {3, 8}
=============================================================================
