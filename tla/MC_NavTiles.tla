----------------------------- MODULE MC_NavTiles ----------------------------
(* Small tiles for the instances of the navigation modules. *)
EXTENDS TileData

\* A rectangle of height y and its neighbours, edges x-, z+, x+, z-.
Rect(x0, x1, z0, z1, y, neis) ==
    [verts |-> <<<<x0, y, z0>>, <<x0, y, z1>>, <<x1, y, z1>>, <<x1, y, z0>>>>,
     neis |-> neis, flags |-> 1, area |-> 1]

Wall == EXT_LINK + BORDER
XM == EXT_LINK
ZP == EXT_LINK + 1
XP == EXT_LINK + 2
ZM == EXT_LINK + 3

Jump(from, to, bidir) ==
    [from |-> from, to |-> to, rad |-> 1, bidir |-> bidir, flags |-> 1, area |-> 1]

Tile(x, y, layer, polys, cons, bv) ==
    [x |-> x, y |-> y, layer |-> layer, bmin |-> <<8 * x, 0, 8 * y>>,
     bmax |-> <<8 * x + 8, 8, 8 * y + 8>>, climb |-> 1, polys |-> polys, cons |-> cons, bv |-> bv]

\* Three polygons, two portals to the right; a bridge above, with a jump down; one wide
\* polygon with a portal to each of the two; above that one, a tile whose jumps land in
\* the last, which has four links.
MCSource ==
    [ground |-> Tile(0, 0, 0, <<Rect(0, 4, 0, 8, 0, <<Wall, Wall, 1, Wall>>),
                                Rect(4, 8, 0, 4, 0, <<0, 2, XP, Wall>>),
                                Rect(4, 8, 4, 8, 1, <<0, Wall, XP, 1>>)>>, << >>, TRUE),
     bridge |-> Tile(0, 0, 1, <<Rect(2, 6, 2, 3, 6, <<Wall, Wall, Wall, Wall>>)>>,
                     <<Jump(<<3, 6, 3>>, <<3, 0, 5>>, FALSE)>>, FALSE),
     wide   |-> Tile(1, 0, 0, <<Rect(0, 8, 0, 8, 0, <<XM, ZP, Wall, Wall>>)>>, << >>, TRUE),
     jumps  |-> Tile(1, 1, 0, <<Rect(0, 8, 0, 8, 0, <<Wall, Wall, Wall, ZM>>)>>,
                     <<Jump(<<9, 0, 9>>, <<7, 0, 9>>, TRUE), Jump(<<9, 0, 10>>, <<7, 0, 10>>, TRUE),
                       Jump(<<9, 0, 11>>, <<7, 0, 11>>, TRUE), Jump(<<9, 0, 12>>, <<7, 0, 12>>, TRUE),
                       Jump(<<9, 0, 13>>, <<7, 0, 13>>, TRUE), Jump(<<9, 0, 9>>, <<7, 1, 7>>, TRUE)>>, FALSE),
     pad    |-> Tile(0, 1, 0, <<Rect(0, 8, 0, 8, 0, <<Wall, Wall, Wall, Wall>>)>>, << >>, TRUE)]
=============================================================================
