--------------------------- MODULE MC_Navigation ----------------------------
(* Small instances of Navigation. *)
EXTENDS Navigation, MC_NavTiles

\* The tiles, and one that makes an angle with two of them.
MCWalkSource == MCSource @@ [turn |-> Tile(1, 1, 0, <<Rect(0, 8, 0, 8, 0, <<Wall, Wall, Wall, ZM>>)>>, << >>, FALSE)]

MCAreaCost == [a \in {0, 1} |-> 2 - a]

At(salt, tile, name) == [ref |-> encodePolyId(salt, tile, 1), name |-> name]
End == [ref |-> 0, name |-> "pad"]

\* A whole file; one whose tiles partly collide, have no room or come after its end; one
\* with tiles that were replaced before it was saved.
MCFiles == {<<At(1, 0, "ground"), At(1, 1, "wide"), At(1, 2, "bridge")>>,
            <<At(1, 0, "ground"), At(1, 0, "pad"), At(1, 3, "wide"), At(1, 1, "ground"), End, At(1, 1, "wide")>>,
            <<At(3, 2, "wide"), At(1, 0, "ground"), At(2, 1, "turn")>>}

\* In the first tile, and across it; in the next; on the bridge; round the corner, if there is
\* a tile there.
MCHome == <<-2, 0, 1>>
MCGoals == {<<-6, 1, 7>>, <<-14, 0, 4>>, <<-3, 6, 3>>, <<-10, 0, 14>>}
MCDelays == {4}
=============================================================================
