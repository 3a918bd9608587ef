---------------------------- MODULE MCVoxImport ----------------------------
EXTENDS VoxImport

Voxel(x, y, z, m) == Word("voxel", [x |-> x, y |-> y, z |-> z, m |-> m])
Color(c) == Word("color", <<"disk", c>>)
Pair(key, val) == Word("pair", <<key, val>>)
Chunk(tag, body) == [tag |-> tag, body |-> body]

\* Of the kinds the reader knows: two of each that matter differently, one of
\* them with words beyond the count it declares; and one it does not know.
MCChunks ==
    { Chunk("SIZE", <<Num(2), Num(3), Num(4)>>),
      Chunk("XYZI", <<Num(2), Voxel(0, 1, 2, 0), Voxel(0, 1, 2, 3)>>),
      Chunk("XYZI", <<Num(1), Voxel(0, 1, 3, 2), Voxel(1, 1, 1, 1)>>),
      Chunk("XYZI", <<Num(2), Voxel(0, 1, 2, 1), Voxel(1, 0, 9, 1)>>),
      Chunk("RGBA", <<Color(1), Color(2), Color(3), Color(4)>>),
      Chunk("RGBA", <<Color(5), Color(6), Color(7), Color(8)>>),
      Chunk("MATL", <<Num(2), Num(3), Pair("_type", "_emit"), Pair("_emit", 1), Pair("_flux", 3)>>),
      Chunk("MATL", <<Num(2), Num(2), Pair("_flux", 9), Pair("_emit", 2), Pair("_emit", 7)>>),
      Chunk("MATL", <<Num(4), Num(1), Pair("_emit", 5)>>),
      Chunk("nTRN", <<Num(0), Num(7)>>) }

MCHeads == {<<"VOX ", "MAIN">>, <<"RIFF", "MAIN">>, <<"VOX ", "SIZE">>}

=============================================================================
