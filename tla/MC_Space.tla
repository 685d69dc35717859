------------------------------ MODULE MC_Space ------------------------------
(* Small instances of Space: one view radius for all, as default_view_raidus.  *)
EXTENDS Space

\* Two points in different cells, out of each other's sight with the largest radius,
\* 6, a space of cells of side 4 allows; a torn position is a third place, in sight.
MCTwo    == {<<0, 0>>, <<5, 5>>}
MCRadius == {8}

\* A client handles messages one by one: the view Applied computes at once is the
\* fold of the messages.  Checked for all sequences of two notifies.
Step(v, m) == IF m.is_add THEN v \cup m.entities ELSE v \ m.entities

ASSUME AppliedIsAFold ==
    \A v \in SUBSET Eids, m, n \in Notify :
        /\ Applied(v, <<>>) = v
        /\ Applied(v, <<m>>) = Step(v, m)
        /\ Applied(v, <<m, n>>) = Step(Step(v, m), n)
        /\ Applied(v, <<m, n, m>>) = Step(Step(Step(v, m), n), m)
=============================================================================
