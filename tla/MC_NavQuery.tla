---------------------------- MODULE MC_NavQuery -----------------------------
(* Small instances of NavQuery. *)
EXTENDS StraightPath, MC_NavTiles

MCBoxes == {[bmin |-> <<x, 0, z>>, bmax |-> <<x + w, h, z + w>>] :
                x \in {-1, 0, 3, 4, 5, 9}, z \in {0, 3, 7, 9}, w \in {0, 2}, h \in {0, 8}}

MCAreaCost == [a \in {0, 1} |-> 2 - a]
MCPlaces == {<<2, 0, 1>>, <<6, 1, 7>>, <<14, 0, 4>>}
MCJunk == {<<0, 0, 0>>}

\* A tile in a place whose salt it brings, the last before zero, and one in no place there is.
MCFileTiles == {[ref |-> encodePolyId(3, 0, 1), name |-> "bridge"],
                [ref |-> encodePolyId(1, 3, 1), name |-> "pad"]}
=============================================================================
