----------------------------- MODULE VoxelWorld -----------------------------
(***************************************************************************)
(* engine/voxel/VoxelWorld.cpp: a sparse map from chunk coordinates to     *)
(* cubes of materials, addressed by world coordinates, and the palette     *)
(* into which the colours of stamped models are merged.                    *)
(*                                                                         *)
(* A coordinate is a function on Axes (x, y, z in the source; the code     *)
(* treats every axis alike).  A step is one call, except that StampVox is  *)
(* one step per voxel of the model, in the order of its loops.  A model is *)
(* what LoadVox or GenerateDemoScene produce: voxels and a palette.        *)
(***************************************************************************)
EXTENDS Integers, FiniteSets, FiniteSetsExt

CONSTANTS
    Axes,         \* the axes, ordered; the last one is the outermost loop (z)
    ChunkSize,    \* kChunkSize
    WorldDim,     \* kWorldDim
    PaletteSize,  \* 256
    Colors,       \* the RGBA values in use
    NoColor,      \* 0u, which fills an unused palette slot
    Distance,     \* squared distance of two colours in RGB
    Space,        \* the coordinates looked at
    Writes,       \* those of them SetVoxel is called with
    Models,       \* the models callers stamp: [voxels, palette]
    Offsets,      \* the offsets they stamp them at
    Radii         \* the radii they carve with

Air       == 0
Materials == 0..(PaletteSize - 1)
Solid     == Materials \ {Air}
World     == [Axes -> 0..(WorldDim - 1)]
Palettes  == [Materials -> Colors]

ASSUME WorldAssumption ==
    /\ Axes \subseteq Nat /\ IsFiniteSet(Axes)
    /\ ChunkSize \in Nat \ {0}
    /\ WorldDim \in Nat \ {0}
    /\ PaletteSize \in Nat \ {0, 1}
    /\ NoColor \in Colors
    /\ Distance \in [Colors -> [Colors -> Nat]]
    /\ Space \subseteq [Axes -> Int]
    /\ World \subseteq Space
    /\ Writes \subseteq Space
    /\ \A m \in Models :
          /\ DOMAIN m.voxels \subseteq [Axes -> Int] /\ IsFiniteSet(DOMAIN m.voxels)
          /\ \A p \in DOMAIN m.voxels : m.voxels[p] \in Solid
          /\ m.palette \in Palettes
    /\ Offsets \subseteq [Axes -> Int]
    /\ Radii \subseteq Nat

VARIABLES
    chunks,       \* chunks_: chunk coordinate |-> (local coordinate |-> material)
    palette,      \* palette_
    paletteUsed,  \* paletteUsed_
    stamp         \* the StampVox under way: [model, offset, todo], or NoStamp

vars == <<chunks, palette, paletteUsed, stamp>>

NoStamp  == [todo |-> {}]
Stamping == stamp.todo # {}
NoChunks == [cc \in {} |-> NoStamp]

-----------------------------------------------------------------------------
(* Addressing.                                                             *)

\* C's / and %, which round towards zero (the divisor is positive).
Quot(a, b) == IF a >= 0 THEN a \div b ELSE -((-a) \div b)
Rem(a, b)  == a - b * Quot(a, b)

\* Mutated form of FloorDiv: rounds towards zero.
FloorDiv_Truncating(a, b) == Quot(a, b)

FloorDiv(a, b) == Quot(a, b) - (IF Rem(a, b) # 0 /\ a < 0 THEN 1 ELSE 0)

LocalOf(a) == LET r == Rem(a, ChunkSize) IN IF r < 0 THEN r + ChunkSize ELSE r

Locals          == [Axes -> 0..(ChunkSize - 1)]
WorldToChunk(p) == [a \in Axes |-> FloorDiv(p[a], ChunkSize)]
ChunkLocal(p)   == [a \in Axes |-> LocalOf(p[a])]

\* The coordinate of a local cell, as BakeFlatGrid and Bounds compute it.
WorldOf(cc, l) == [a \in Axes |-> cc[a] * ChunkSize + l[a]]

EmptyChunk  == [l \in Locals |-> Air]
Empty(chunk) == \A l \in Locals : chunk[l] = Air

-----------------------------------------------------------------------------
(* The chunk map.                                                          *)

GetVoxel(map, p) ==
    IF WorldToChunk(p) \in DOMAIN map THEN map[WorldToChunk(p)][ChunkLocal(p)] ELSE Air

\* The chunk at cc of map after the cells p of w were set to w[p].
ChunkAfter(map, w, cc) ==
    [l \in Locals |->
        LET hit == {p \in DOMAIN w : WorldToChunk(p) = cc /\ ChunkLocal(p) = l}
        IN  IF hit # {} THEN w[CHOOSE p \in hit : TRUE]
            ELSE IF cc \in DOMAIN map THEN map[cc][l] ELSE Air]

\* Mutated form of Evicted: an emptied chunk stays in the map.
Evicted_Never(map, w) == {}

\* Setting a cell of a chunk to air erases the chunk when nothing solid is left in it.
Evicted(map, w) ==
    {cc \in DOMAIN map :
        /\ \E p \in DOMAIN w : w[p] = Air /\ WorldToChunk(p) = cc
        /\ Empty(ChunkAfter(map, w, cc))}

\* The map after a SetVoxel(p, w[p]) for each p of w: a chunk is created for a solid voxel.
Written(map, w) ==
    LET created == {WorldToChunk(p) : p \in {q \in DOMAIN w : w[q] # Air}}
    IN  [cc \in (DOMAIN map \cup created) \ Evicted(map, w) |-> ChunkAfter(map, w, cc)]

\* Bounds: the least corner and one past the greatest corner of the resident chunks.
Low(map)  == [a \in Axes |->
    IF DOMAIN map = {} THEN 0 ELSE Min({cc[a] * ChunkSize : cc \in DOMAIN map})]
High(map) == [a \in Axes |->
    IF DOMAIN map = {} THEN 0 ELSE Max({cc[a] * ChunkSize + ChunkSize : cc \in DOMAIN map})]

\* Mutated form of BakeFlatGrid: cells past the end of a row are not clipped and land, by
\* their index in the flat grid (x is the fastest axis), in the next row.
BakeFlatGrid_OneSide(map) ==
    LET FlatIndex(p) == MapThenSumSet(LAMBDA a : p[a] * WorldDim^(a - 1), Axes)
        Hits(p)      == {h \in (DOMAIN map) \X Locals :
                            LET q == WorldOf(h[1], h[2])
                            IN  /\ map[h[1]][h[2]] # Air
                                /\ \A a \in Axes : q[a] >= 0
                                /\ FlatIndex(q) = FlatIndex(p)}
    IN  [p \in World |-> IF Hits(p) = {} THEN Air
                         ELSE LET h == CHOOSE h \in Hits(p) : TRUE IN map[h[1]][h[2]]]

\* BakeFlatGrid: the solid cells of every chunk that fall inside the grid, air elsewhere.
BakeFlatGrid(map) ==
    [p \in World |->
        LET hit == {h \in (DOMAIN map) \X Locals :
                        WorldOf(h[1], h[2]) = p /\ map[h[1]][h[2]] # Air}
        IN  IF hit = {} THEN Air ELSE LET h == CHOOSE h \in hit : TRUE IN map[h[1]][h[2]]]

-----------------------------------------------------------------------------
(* The palette.                                                            *)

\* The first slot of the whole palette whose colour is nearest to c.
Nearest(c) ==
    CHOOSE k \in Solid : \A j \in Solid :
        LET d(i) == Distance[palette[i]][c]
        IN  d(k) < d(j) \/ (d(k) = d(j) /\ k <= j)

\* Mutated form of ColorIndex: in a full palette, the last slot.
ColorIndex_LastSlot(c) ==
    LET same == {k \in 1..(paletteUsed - 1) : palette[k] = c}
    IN  IF same # {} THEN Min(same)
        ELSE IF paletteUsed < PaletteSize THEN paletteUsed ELSE PaletteSize - 1

\* The index a colour gets: its own, a fresh one, or, in a full palette, the nearest.
ColorIndex(c) ==
    LET same == {k \in 1..(paletteUsed - 1) : palette[k] = c}
    IN  IF same # {} THEN Min(same)
        ELSE IF paletteUsed < PaletteSize THEN paletteUsed ELSE Nearest(c)

\* A fresh index takes the colour and moves the watermark; any other is left as it is.
MergeColor(c) ==
    /\ palette' = IF ColorIndex(c) = paletteUsed THEN [palette EXCEPT ![paletteUsed] = c]
                  ELSE palette
    /\ paletteUsed' = IF ColorIndex(c) = paletteUsed THEN paletteUsed + 1 ELSE paletteUsed

-----------------------------------------------------------------------------
(* The operations.                                                         *)

SetVoxel(p, m) ==
    /\ ~Stamping
    /\ chunks' = Written(chunks, [q \in {p} |-> m])
    /\ UNCHANGED <<palette, paletteUsed, stamp>>

Sphere(c, r) ==
    {p \in World : MapThenSumSet(LAMBDA a : (p[a] - c[a]) * (p[a] - c[a]), Axes) <= r * r}

\* Every solid voxel of the sphere is set to air; the sphere is clamped to the world.
CarveSphere(c, r) ==
    /\ ~Stamping
    /\ chunks' = Written(chunks,
                         [p \in {q \in Sphere(c, r) : GetVoxel(chunks, q) # Air} |-> Air])
    /\ UNCHANGED <<palette, paletteUsed, stamp>>

AddPaletteColor(c) ==
    /\ ~Stamping
    /\ MergeColor(c)
    /\ UNCHANGED <<chunks, stamp>>

\* Mutated form of SetPaletteColor: the watermark stays.
SetPaletteColor_NoWatermark(k, c) ==
    /\ ~Stamping
    /\ palette' = [palette EXCEPT ![k] = c]
    /\ UNCHANGED <<chunks, paletteUsed, stamp>>

\* A slot is written directly, and the watermark moves past it.
SetPaletteColor(k, c) ==
    /\ ~Stamping
    /\ palette' = [palette EXCEPT ![k] = c]
    /\ paletteUsed' = IF k >= paletteUsed THEN k + 1 ELSE paletteUsed
    /\ UNCHANGED <<chunks, stamp>>

\* Mutated form of FitOffset: the offset is used as it is.
FitOffset_Raw(off, map) == off

\* Moves an offset so that the source's bounds fit in the world; a source larger than the
\* world is aligned to 0.
FitOffset(off, map) ==
    [a \in Axes |->
        LET least    == -Low(map)[a]
            greatest == WorldDim - High(map)[a]
        IN  IF least > greatest \/ off[a] < least THEN least
            ELSE IF off[a] > greatest THEN greatest ELSE off[a]]

SourceWorld(model) == Written(NoChunks, model.voxels)

\* StampVox, up to its loops.
StampVox(model, off) ==
    /\ ~Stamping
    /\ stamp' = [model |-> model, offset |-> FitOffset(off, SourceWorld(model)),
                 todo |-> DOMAIN model.voxels]
    /\ UNCHANGED <<chunks, palette, paletteUsed>>

\* The loops run over z, then y, then x.
Precedes(p, q) ==
    p = q \/ \E a \in Axes : p[a] < q[a] /\ \A b \in Axes : b > a => p[b] = q[b]

Target(p) == [a \in Axes |-> stamp.offset[a] + p[a]]

\* One solid voxel: clipped, or its colour merged and the voxel set.
StampVoxel(p) ==
    /\ p \in stamp.todo
    /\ \A q \in stamp.todo : Precedes(p, q)
    /\ IF Target(p) \in World
       THEN LET c == stamp.model.palette[stamp.model.voxels[p]]
            IN  /\ MergeColor(c)
                /\ chunks' = Written(chunks, [q \in {Target(p)} |-> ColorIndex(c)])
       ELSE UNCHANGED <<chunks, palette, paletteUsed>>
    /\ stamp' = IF stamp.todo = {p} THEN NoStamp ELSE [stamp EXCEPT !.todo = @ \ {p}]

Clear ==
    /\ ~Stamping
    /\ chunks' = NoChunks
    /\ palette' = [k \in Materials |-> NoColor]
    /\ paletteUsed' = 1
    /\ UNCHANGED stamp

Init ==
    /\ chunks = NoChunks
    /\ palette = [k \in Materials |-> NoColor]
    /\ paletteUsed = 1
    /\ stamp = NoStamp

Next ==
    \/ \E p \in Writes, m \in Materials : SetVoxel(p, m)
    \/ \E c \in World, r \in Radii : CarveSphere(c, r)
    \/ \E c \in Colors : AddPaletteColor(c)
    \/ \E k \in Solid, c \in Colors : SetPaletteColor(k, c)
    \/ \E model \in Models, off \in Offsets : StampVox(model, off)
    \/ \E p \in stamp.todo : StampVoxel(p)
    \/ Clear

Spec == Init /\ [][Next]_vars

-----------------------------------------------------------------------------
(***************************************************************************)
(* Properties.                                                             *)
(***************************************************************************)

\* The variables keep their types: no index beyond the palette is ever handed out or written.
TypeOK ==
    /\ \A cc \in DOMAIN chunks : cc \in [Axes -> Int] /\ chunks[cc] \in [Locals -> Materials]
    /\ palette \in Palettes
    /\ paletteUsed \in 1..PaletteSize
    /\ Stamping =>
          /\ stamp.model \in Models
          /\ stamp.offset \in [Axes -> Int]
          /\ stamp.todo \subseteq DOMAIN stamp.model.voxels

\* "Live (non-evicted) chunks": every resident chunk holds a solid voxel, whichever of
\* SetVoxel, CarveSphere and StampVox touched it last.
NoEmptyChunks == \A cc \in DOMAIN chunks : ~Empty(chunks[cc])

\* The sparse map is a grid: through GetVoxel, each step writes one cell or empties cells,
\* and never another cell that shares a chunk, or whose coordinate is negative.
Grid == INSTANCE VoxelGrid WITH voxel <- [p \in Space |-> GetVoxel(chunks, p)]
GridSpec == Grid!Spec

\* The grid the renderer is given is the world: chunk by chunk, BakeFlatGrid puts every voxel
\* where GetVoxel finds it.
BakeExact == BakeFlatGrid(chunks) = [p \in World |-> GetVoxel(chunks, p)]

\* StampVox visits Bounds only: no voxel lies outside of it.
BoundsCover ==
    \A p \in Space : GetVoxel(chunks, p) # Air =>
        \A a \in Axes : p[a] \in Low(chunks)[a]..(High(chunks)[a] - 1)

\* "Clamp the placement offset so the WHOLE model fits": a model whose bounds are no larger
\* than the world is never clipped, whatever the cursor.
StampsWhole ==
    (/\ Stamping
     /\ \A a \in Axes : LET map == SourceWorld(stamp.model)
                        IN  High(map)[a] - Low(map)[a] <= WorldDim)
        => \A p \in stamp.todo : Target(p) \in World

\* "World-space bounds of all set voxels (min inclusive, max exclusive)": each bound is
\* reached by a voxel.
BoundsTight ==
    DOMAIN chunks # {} =>
        \A a \in Axes : \E p \in Space : GetVoxel(chunks, p) # Air /\ p[a] = Low(chunks)[a]
=============================================================================
