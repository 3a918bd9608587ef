-------------------------- MODULE VoxelWorldProofs --------------------------
(***************************************************************************)
(* Proofs about VoxelWorld, for every chunk size, world, palette and model *)
(* set: a coordinate and its chunk and local parts determine each other,   *)
(* negative coordinates included, so that a write through SetVoxel changes *)
(* what GetVoxel returns for that coordinate alone; the chunk map          *)
(* therefore implements VoxelGrid, and holds no empty chunk.  What         *)
(* VoxelScene shows of a model, and what VoxImport imports of a file.      *)
(***************************************************************************)
EXTENDS VoxelScene, VoxImport, WellFoundedInduction, FiniteSetTheorems, SequenceTheorems, TLAPS

Coordinates == [Axes -> Int]

\* What the map of chunks always is.
IsMap(map) ==
    \A cc \in DOMAIN map : cc \in Coordinates /\ map[cc] \in [Locals -> Materials]

\* A set of writes: coordinates to materials.
IsWrites(w) == DOMAIN w \subseteq Coordinates /\ \A p \in DOMAIN w : w[p] \in Materials

-----------------------------------------------------------------------------
(* Integer division.                                                       *)

LEMMA DivMod ==
    ASSUME NEW a \in Int, NEW b \in Nat \ {0}
    PROVE  /\ a \div b \in Int
           /\ a % b \in 0..(b - 1)
           /\ a = b * (a \div b) + (a % b)
  OBVIOUS

\* Quotient and remainder are unique.
LEMMA DivUnique ==
    ASSUME NEW b \in Nat \ {0}, NEW q \in Int, NEW r \in 0..(b - 1),
           NEW s \in Int, NEW t \in 0..(b - 1), b * q + r = b * s + t
    PROVE  q = s /\ r = t
  <1>1. b * (q - s) = t - r /\ b * (s - q) = r - t
    OBVIOUS
  <1>2. ASSUME q - s >= 1 PROVE FALSE
    <2>1. b * (q - s) >= b
      BY <1>2
    <2> QED
      BY <1>1, <2>1
  <1>3. ASSUME s - q >= 1 PROVE FALSE
    <2>1. b * (s - q) >= b
      BY <1>3
    <2> QED
      BY <1>1, <2>1
  <1>4. q = s
    BY <1>2, <1>3
  <1> QED
    BY <1>4

\* The code's two helpers, built on division that rounds towards zero, split a coordinate
\* into the chunk below it and a remainder that is never negative.
LEMMA Split ==
    ASSUME NEW a \in Int
    PROVE  /\ FloorDiv(a, ChunkSize) \in Int
           /\ LocalOf(a) \in 0..(ChunkSize - 1)
           /\ a = ChunkSize * FloorDiv(a, ChunkSize) + LocalOf(a)
  <1> DEFINE b == ChunkSize
  <1>1. b \in Nat \ {0}
    BY WorldAssumption
  <1>2. CASE a >= 0
    <2>1. /\ a \div b \in Int
          /\ a % b \in 0..(b - 1)
          /\ a = b * (a \div b) + (a % b)
      BY <1>1, DivMod
    <2>2. Quot(a, b) = a \div b /\ Rem(a, b) = a % b
      BY <1>1, <1>2, <2>1 DEF Quot, Rem
    <2>3. FloorDiv(a, b) = a \div b /\ LocalOf(a) = a % b
      BY <1>1, <1>2, <2>1, <2>2 DEF FloorDiv, LocalOf
    <2> QED
      BY <2>1, <2>3
  <1>3. CASE a < 0
    <2>1. PICK c \in Int : c = -a
      OBVIOUS
    <2> DEFINE q == c \div b
               m == c % b
    <2>2. q \in Int /\ m \in 0..(b - 1) /\ c = b * q + m
      BY <1>1, DivMod
    <2>3. Quot(a, b) = -q
      BY <1>3, <2>1 DEF Quot
    <2> HIDE DEF q, m, b
    <2>4. Rem(a, b) = -m
      BY <1>1, <2>1, <2>2, <2>3 DEF Rem
    <2>5. /\ m = 0 => FloorDiv(a, b) = -q
          /\ m # 0 => FloorDiv(a, b) = -q - 1
      BY <1>3, <2>2, <2>3, <2>4 DEF FloorDiv
    <2>6. /\ m = 0 => LocalOf(a) = 0
          /\ m # 0 => LocalOf(a) = b - m
      BY <1>1, <2>2, <2>4 DEF LocalOf, b
    <2>7. CASE m = 0
      BY <1>1, <2>1, <2>2, <2>5, <2>6, <2>7 DEF b
    <2>8. CASE m # 0
      <3>1. a = b * (-q - 1) + (b - m)
        BY <1>1, <2>1, <2>2
      <3> QED
        BY <1>1, <2>2, <2>5, <2>6, <2>8, <3>1 DEF b
    <2> QED
      BY <2>7, <2>8
  <1> QED
    BY <1>2, <1>3

\* FloorDiv is floor division and LocalOf its remainder.
LEMMA FloorDivIsDiv ==
    ASSUME NEW a \in Int
    PROVE  FloorDiv(a, ChunkSize) = a \div ChunkSize /\ LocalOf(a) = a % ChunkSize
  <1>1. ChunkSize \in Nat \ {0}
    BY WorldAssumption
  <1>2. /\ FloorDiv(a, ChunkSize) \in Int
        /\ LocalOf(a) \in 0..(ChunkSize - 1)
        /\ a = ChunkSize * FloorDiv(a, ChunkSize) + LocalOf(a)
    BY Split
  <1>3. /\ a \div ChunkSize \in Int
        /\ a % ChunkSize \in 0..(ChunkSize - 1)
        /\ a = ChunkSize * (a \div ChunkSize) + (a % ChunkSize)
    BY <1>1, DivMod
  <1>4. ChunkSize * FloorDiv(a, ChunkSize) + LocalOf(a)
          = ChunkSize * (a \div ChunkSize) + (a % ChunkSize)
    BY <1>2, <1>3
  <1> QED
    BY <1>1, <1>2, <1>3, <1>4, DivUnique

-----------------------------------------------------------------------------
(* Addressing.                                                             *)

LEMMA AddressTypes ==
    ASSUME NEW p \in Coordinates
    PROVE  /\ WorldToChunk(p) \in Coordinates
           /\ ChunkLocal(p) \in Locals
  <1>1. \A a \in Axes : p[a] \in Int
    BY DEF Coordinates
  <1> QED
    BY <1>1, Split DEF Coordinates, WorldToChunk, ChunkLocal, Locals

\* A voxel's coordinate is where BakeFlatGrid and Bounds find it in its chunk.
LEMMA WorldOfAddress ==
    ASSUME NEW p \in Coordinates
    PROVE  WorldOf(WorldToChunk(p), ChunkLocal(p)) = p
  <1>1. ASSUME NEW a \in Axes
        PROVE  WorldToChunk(p)[a] * ChunkSize + ChunkLocal(p)[a] = p[a]
    <2>1. p[a] \in Int /\ ChunkSize \in Nat
      BY WorldAssumption DEF Coordinates
    <2>2. /\ WorldToChunk(p)[a] = FloorDiv(p[a], ChunkSize)
          /\ ChunkLocal(p)[a] = LocalOf(p[a])
      BY DEF WorldToChunk, ChunkLocal
    <2>3. /\ FloorDiv(p[a], ChunkSize) \in Int
          /\ LocalOf(p[a]) \in 0..(ChunkSize - 1)
          /\ p[a] = ChunkSize * FloorDiv(p[a], ChunkSize) + LocalOf(p[a])
      BY <2>1, Split
    <2> QED
      BY <2>1, <2>2, <2>3
  <1>2. p = [a \in Axes |-> p[a]]
    BY DEF Coordinates
  <1> QED
    BY <1>1, <1>2 DEF WorldOf

\* Two coordinates never share a chunk and a local cell.
LEMMA AddressInjective ==
    ASSUME NEW p \in Coordinates, NEW q \in Coordinates,
           WorldToChunk(p) = WorldToChunk(q), ChunkLocal(p) = ChunkLocal(q)
    PROVE  p = q
  BY WorldOfAddress

\* Every cell of every chunk has a coordinate, whose address it is.
LEMMA AddressOfWorld ==
    ASSUME NEW cc \in Coordinates, NEW l \in Locals
    PROVE  /\ WorldOf(cc, l) \in Coordinates
           /\ WorldToChunk(WorldOf(cc, l)) = cc
           /\ ChunkLocal(WorldOf(cc, l)) = l
  <1> DEFINE p == WorldOf(cc, l)
  <1>1. ASSUME NEW a \in Axes
        PROVE  /\ p[a] \in Int
               /\ FloorDiv(p[a], ChunkSize) = cc[a]
               /\ LocalOf(p[a]) = l[a]
    <2>1. cc[a] \in Int /\ l[a] \in 0..(ChunkSize - 1) /\ ChunkSize \in Nat \ {0}
      BY WorldAssumption DEF Coordinates, Locals
    <2>2. p[a] = ChunkSize * cc[a] + l[a] /\ p[a] \in Int
      BY <2>1 DEF WorldOf
    <2>3. /\ FloorDiv(p[a], ChunkSize) \in Int
          /\ LocalOf(p[a]) \in 0..(ChunkSize - 1)
          /\ p[a] = ChunkSize * FloorDiv(p[a], ChunkSize) + LocalOf(p[a])
      BY <2>2, Split
    <2>4. ChunkSize * FloorDiv(p[a], ChunkSize) + LocalOf(p[a]) = ChunkSize * cc[a] + l[a]
      BY <2>2, <2>3
    <2> DEFINE q == FloorDiv(p[a], ChunkSize)
               r == LocalOf(p[a])
               s == cc[a]
               t == l[a]
    <2>5. /\ ChunkSize \in Nat \ {0} /\ q \in Int /\ r \in 0..(ChunkSize - 1)
          /\ s \in Int /\ t \in 0..(ChunkSize - 1)
          /\ ChunkSize * q + r = ChunkSize * s + t
      BY <2>1, <2>3, <2>4
    <2> HIDE DEF q, r, s, t
    <2>6. q = s /\ r = t
      BY <2>5, DivUnique
    <2> QED
      BY <2>2, <2>6 DEF q, r, s, t
  <1>2. p \in Coordinates
    BY <1>1 DEF WorldOf, Coordinates
  <1>3. cc = [a \in Axes |-> cc[a]] /\ l = [a \in Axes |-> l[a]]
    BY DEF Coordinates, Locals
  <1> QED
    BY <1>1, <1>2, <1>3 DEF WorldToChunk, ChunkLocal

-----------------------------------------------------------------------------
(* Writing and reading the chunk map.                                      *)

LEMMA MaterialsFacts == Air \in Materials /\ Solid \subseteq Materials /\ Air \notin Solid
  BY WorldAssumption DEF Air, Materials, Solid

LEMMA GetVoxelType ==
    ASSUME NEW map, IsMap(map), NEW p \in Coordinates
    PROVE  GetVoxel(map, p) \in Materials
  BY MaterialsFacts, AddressTypes DEF IsMap, GetVoxel

\* The cell of a chunk that p addresses, after some writes: what was written at p, or else
\* what was there.  No other write reaches it.
LEMMA CellAfter ==
    ASSUME NEW map, NEW w, IsWrites(w), NEW p \in Coordinates
    PROVE  ChunkAfter(map, w, WorldToChunk(p))[ChunkLocal(p)]
              = IF p \in DOMAIN w THEN w[p] ELSE GetVoxel(map, p)
  <1> DEFINE cc  == WorldToChunk(p)
             l   == ChunkLocal(p)
             hit == {q \in DOMAIN w : WorldToChunk(q) = cc /\ ChunkLocal(q) = l}
  <1>1. l \in Locals
    BY AddressTypes
  <1>2. \A q \in hit : q = p
    BY AddressInjective DEF IsWrites
  <1>3. p \in DOMAIN w => p \in hit
    OBVIOUS
  <1>4. ChunkAfter(map, w, cc)[l]
          = IF hit # {} THEN w[CHOOSE q \in hit : TRUE]
            ELSE IF cc \in DOMAIN map THEN map[cc][l] ELSE Air
    BY <1>1 DEF ChunkAfter
  <1>5. CASE p \in DOMAIN w
    <2>1. hit = {p}
      BY <1>2, <1>3, <1>5
    <2>2. (CHOOSE q \in hit : TRUE) = p
      BY <2>1
    <2> QED
      BY <1>4, <1>5, <2>1, <2>2
  <1>6. CASE p \notin DOMAIN w
    <2>1. hit = {}
      BY <1>2, <1>6
    <2> QED
      BY <1>4, <1>6, <2>1 DEF GetVoxel
  <1> QED
    BY <1>5, <1>6

LEMMA ChunkAfterType ==
    ASSUME NEW map, IsMap(map), NEW w, IsWrites(w), NEW cc \in Coordinates
    PROVE  ChunkAfter(map, w, cc) \in [Locals -> Materials]
  <1>1. ASSUME NEW l \in Locals
        PROVE  ChunkAfter(map, w, cc)[l] \in Materials
    <2>1. /\ WorldOf(cc, l) \in Coordinates
          /\ WorldToChunk(WorldOf(cc, l)) = cc
          /\ ChunkLocal(WorldOf(cc, l)) = l
      BY AddressOfWorld
    <2>2. ChunkAfter(map, w, cc)[l] = IF WorldOf(cc, l) \in DOMAIN w THEN w[WorldOf(cc, l)]
                                      ELSE GetVoxel(map, WorldOf(cc, l))
      BY <2>1, CellAfter
    <2>3. GetVoxel(map, WorldOf(cc, l)) \in Materials
      BY <2>1, GetVoxelType
    <2> QED
      BY <2>2, <2>3 DEF IsWrites
  <1>2. ChunkAfter(map, w, cc) = [l \in Locals |-> ChunkAfter(map, w, cc)[l]]
    BY DEF ChunkAfter
  <1> QED
    BY <1>1, <1>2

\* The chunks after some writes.
LEMMA WrittenChunks ==
    ASSUME NEW map, IsMap(map), NEW w, IsWrites(w)
    PROVE  /\ \A cc \in DOMAIN Written(map, w) :
                 /\ cc \in Coordinates
                 /\ Written(map, w)[cc] = ChunkAfter(map, w, cc)
                 /\ cc \notin Evicted(map, w)
                 /\ cc \in DOMAIN map
                      \/ \E q \in DOMAIN w : w[q] # Air /\ WorldToChunk(q) = cc
           /\ \A cc \in DOMAIN map : cc \notin DOMAIN Written(map, w) => cc \in Evicted(map, w)
           /\ \A q \in DOMAIN w : w[q] # Air /\ WorldToChunk(q) \notin DOMAIN Written(map, w)
                                    => WorldToChunk(q) \in Evicted(map, w)
  <1> DEFINE created == {WorldToChunk(q) : q \in {r \in DOMAIN w : w[r] # Air}}
             kept    == (DOMAIN map \cup created) \ Evicted(map, w)
  <1>1. DOMAIN Written(map, w) = kept
        /\ \A cc \in kept : Written(map, w)[cc] = ChunkAfter(map, w, cc)
    BY DEF Written
  <1>2. \A q \in DOMAIN w : WorldToChunk(q) \in Coordinates
    BY AddressTypes DEF IsWrites
  <1>3. \A cc \in kept : cc \in Coordinates
    BY <1>2 DEF IsMap
  <1> QED
    BY <1>1, <1>3

LEMMA WrittenIsMap ==
    ASSUME NEW map, IsMap(map), NEW w, IsWrites(w)
    PROVE  IsMap(Written(map, w))
  BY WrittenChunks, ChunkAfterType DEF IsMap

\* SetVoxel writes one cell: reading back gives what was written, and anything else is
\* as it was, in the same chunk, in a new one and in one that was just erased.
LEMMA ReadBack ==
    ASSUME NEW map, IsMap(map), NEW w, IsWrites(w), NEW p \in Coordinates
    PROVE  GetVoxel(Written(map, w), p) = IF p \in DOMAIN w THEN w[p] ELSE GetVoxel(map, p)
  <1> DEFINE cc  == WorldToChunk(p)
             l   == ChunkLocal(p)
             new == Written(map, w)
  <1>1. /\ l \in Locals /\ cc \in Coordinates
        /\ ChunkAfter(map, w, cc)[l] = IF p \in DOMAIN w THEN w[p] ELSE GetVoxel(map, p)
    BY AddressTypes, CellAfter
  <1>2. CASE cc \in DOMAIN new
    <2>1. new[cc] = ChunkAfter(map, w, cc)
      BY <1>2, WrittenChunks
    <2> QED
      BY <1>1, <1>2, <2>1 DEF GetVoxel
  <1>3. CASE cc \notin DOMAIN new
    <2>1. GetVoxel(new, p) = Air
      BY <1>3 DEF GetVoxel
    <2>2. CASE cc \in Evicted(map, w)
      <3>1. ChunkAfter(map, w, cc)[l] = Air
        BY <1>1, <2>2 DEF Evicted, Empty
      <3> QED
        BY <1>1, <2>1, <3>1
    <2>3. CASE cc \notin Evicted(map, w)
      <3>1. cc \notin DOMAIN map
        BY <1>3, <2>3, WrittenChunks
      <3>2. p \in DOMAIN w => w[p] = Air
        BY <1>3, <2>3, WrittenChunks
      <3>3. GetVoxel(map, p) = Air
        BY <3>1 DEF GetVoxel
      <3> QED
        BY <2>1, <3>2, <3>3
    <2> QED
      BY <2>2, <2>3
  <1> QED
    BY <1>2, <1>3

\* No write leaves an empty chunk behind.
LEMMA WrittenNotEmpty ==
    ASSUME NEW map, IsMap(map), NEW w, IsWrites(w),
           \A cc \in DOMAIN map : ~Empty(map[cc])
    PROVE  \A cc \in DOMAIN Written(map, w) : ~Empty(Written(map, w)[cc])
  <1> SUFFICES ASSUME NEW cc \in DOMAIN Written(map, w), Empty(Written(map, w)[cc])
               PROVE  FALSE
    OBVIOUS
  <1>1. /\ cc \in Coordinates
        /\ Written(map, w)[cc] = ChunkAfter(map, w, cc)
        /\ cc \notin Evicted(map, w)
        /\ cc \in DOMAIN map \/ \E q \in DOMAIN w : w[q] # Air /\ WorldToChunk(q) = cc
    BY WrittenChunks
  <1>2. \A l \in Locals : ChunkAfter(map, w, cc)[l] = Air
    BY <1>1 DEF Empty
  <1>3. ASSUME NEW q \in DOMAIN w, w[q] # Air, WorldToChunk(q) = cc
        PROVE  FALSE
    <2>1. q \in Coordinates
      BY DEF IsWrites
    <2>2. ChunkAfter(map, w, cc)[ChunkLocal(q)] = w[q]
      BY <1>3, <2>1, CellAfter
    <2> QED
      BY <1>2, <1>3, <2>1, <2>2, AddressTypes
  <1>4. CASE cc \in DOMAIN map
    <2>1. PICK l \in Locals : map[cc][l] # Air
      BY <1>4 DEF Empty
    <2>2. PICK p \in Coordinates : WorldToChunk(p) = cc /\ ChunkLocal(p) = l
      BY <1>1, AddressOfWorld
    <2>3. GetVoxel(map, p) # Air
      BY <1>4, <2>1, <2>2 DEF GetVoxel
    <2>4. ChunkAfter(map, w, cc)[l] = IF p \in DOMAIN w THEN w[p] ELSE GetVoxel(map, p)
      BY <2>2, CellAfter
    <2>5. p \in DOMAIN w /\ w[p] = Air
      BY <1>2, <2>3, <2>4
    <2>6. cc \in Evicted(map, w)
      BY <1>2, <1>4, <2>2, <2>5 DEF Evicted, Empty
    <2> QED
      BY <1>1, <2>6
  <1> QED
    BY <1>1, <1>3, <1>4

\* BakeFlatGrid puts every voxel of the world where GetVoxel finds it.
LEMMA BakeIsGet ==
    ASSUME NEW map, IsMap(map)
    PROVE  BakeFlatGrid(map) = [p \in World |-> GetVoxel(map, p)]
  <1> DEFINE baked(p) ==
        LET hit == {h \in (DOMAIN map) \X Locals :
                        WorldOf(h[1], h[2]) = p /\ map[h[1]][h[2]] # Air}
        IN  IF hit = {} THEN Air ELSE LET h == CHOOSE h \in hit : TRUE IN map[h[1]][h[2]]
  <1>1. ASSUME NEW p \in World
        PROVE  baked(p) = GetVoxel(map, p)
    <2> DEFINE hit == {h \in (DOMAIN map) \X Locals :
                          WorldOf(h[1], h[2]) = p /\ map[h[1]][h[2]] # Air}
    <2>1. p \in Coordinates
      BY WorldAssumption DEF World, Coordinates
    <2>2. \A h \in hit : h[1] = WorldToChunk(p) /\ h[2] = ChunkLocal(p)
      BY AddressOfWorld DEF IsMap
    <2>3. baked(p) = IF hit = {} THEN Air
                     ELSE LET h == CHOOSE h \in hit : TRUE IN map[h[1]][h[2]]
      OBVIOUS
    <2>4. CASE hit = {}
      <3>1. WorldToChunk(p) \in DOMAIN map
              => <<WorldToChunk(p), ChunkLocal(p)>> \in (DOMAIN map) \X Locals
        BY <2>1, AddressTypes
      <3>2. WorldToChunk(p) \in DOMAIN map => map[WorldToChunk(p)][ChunkLocal(p)] = Air
        BY <2>1, <2>4, <3>1, WorldOfAddress
      <3> QED
        BY <2>3, <2>4, <3>2 DEF GetVoxel
    <2>5. CASE hit # {}
      <3>1. PICK h \in hit : h = (CHOOSE x \in hit : TRUE)
        BY <2>5
      <3>2. baked(p) = map[h[1]][h[2]]
        BY <2>3, <2>5, <3>1
      <3>3. h[1] \in DOMAIN map /\ h[1] = WorldToChunk(p) /\ h[2] = ChunkLocal(p)
        BY <2>2
      <3> QED
        BY <3>2, <3>3 DEF GetVoxel
    <2> QED
      BY <2>4, <2>5
  <1>2. BakeFlatGrid(map) = [p \in World |-> baked(p)]
    BY DEF BakeFlatGrid
  <1> HIDE DEF baked
  <1> QED
    BY <1>1, <1>2

-----------------------------------------------------------------------------
(* The palette.                                                            *)

LEMMA NatMin ==
    ASSUME NEW T \in SUBSET Nat, T # {}
    PROVE  \E x \in T : \A y \in T : x <= y
  <1>1. PICK x \in T : \A y \in T : ~(<<y, x>> \in OpToRel(<, Nat))
    BY NatLessThanWellFounded, WFMin
  <1>2. \A y \in T : ~(y < x)
    BY <1>1 DEF OpToRel
  <1> QED
    BY <1>2

PaletteInv == palette \in Palettes /\ paletteUsed \in 1..PaletteSize

\* A full palette still finds a slot: some slot is nearest, and the first such is unique.
LEMMA NearestType ==
    ASSUME PaletteInv, NEW c \in Colors
    PROVE  /\ Nearest(c) \in Solid
           /\ \A j \in Solid : Distance[palette[Nearest(c)]][c] <= Distance[palette[j]][c]
  <1> DEFINE d(k) == Distance[palette[k]][c]
             near == {d(k) : k \in Solid}
  <1>1. \A k \in Solid : d(k) \in Nat
    BY WorldAssumption, MaterialsFacts DEF PaletteInv, Palettes
  <1>2. 1 \in Solid
    BY WorldAssumption DEF Solid, Materials, Air
  <1>3. PICK least \in near : \A x \in near : least <= x
    BY <1>1, <1>2, NatMin
  <1> DEFINE best == {k \in Solid : d(k) = least}
  <1>4. best # {} /\ best \subseteq Nat
    <2>1. Solid \subseteq Nat
      BY WorldAssumption DEF Solid, Materials
    <2>2. \E k \in Solid : d(k) = least
      BY <1>3
    <2> QED
      BY <2>1, <2>2
  <1>5. PICK k \in best : \A j \in best : k <= j
    BY <1>4, NatMin
  <1>6. \A j \in Solid : d(k) < d(j) \/ (d(k) = d(j) /\ k <= j)
    <2> SUFFICES ASSUME NEW j \in Solid
                 PROVE  d(k) < d(j) \/ (d(k) = d(j) /\ k <= j)
      OBVIOUS
    <2>1. d(k) = least /\ d(k) \in Nat /\ d(j) \in Nat /\ least <= d(j)
      BY <1>1, <1>3, <1>5
    <2>2. d(j) = least => k <= j
      BY <1>5
    <2> HIDE DEF d
    <2> QED
      BY <2>1, <2>2
  <1>7. k \in Solid
    OBVIOUS
  <1>8. \E x \in Solid : \A j \in Solid : d(x) < d(j) \/ (d(x) = d(j) /\ x <= j)
    BY <1>6, <1>7
  <1>9. Nearest(c) \in Solid /\ \A j \in Solid : d(Nearest(c)) < d(j) \/ d(Nearest(c)) = d(j)
    <2> DEFINE n == Nearest(c)
    <2>1. n \in Solid /\ \A j \in Solid : d(n) < d(j) \/ (d(n) = d(j) /\ n <= j)
      BY <1>8, Zenon DEF Nearest
    <2> QED
      BY <2>1, Zenon
  <1>10. ASSUME NEW j \in Solid PROVE d(Nearest(c)) <= d(j)
    <2>1. PICK x : x = Nearest(c)
      OBVIOUS
    <2>2. d(x) \in Nat /\ d(j) \in Nat /\ (d(x) < d(j) \/ d(x) = d(j))
      BY <1>1, <1>9, <2>1
    <2> HIDE DEF d
    <2>3. d(x) <= d(j)
      BY <2>2
    <2> QED
      BY <2>1, <2>3
  <1> QED
    BY <1>9, <1>10

LEMMA ColorIndexType ==
    ASSUME PaletteInv, NEW c \in Colors
    PROVE  ColorIndex(c) \in Solid
  <1> DEFINE same == {k \in 1..(paletteUsed - 1) : palette[k] = c}
  <1>1. /\ PaletteSize \in Nat
        /\ paletteUsed \in 1..PaletteSize
        /\ same \subseteq Solid /\ same \subseteq Nat
    BY WorldAssumption DEF PaletteInv, Solid, Materials, Air
  <1>2. CASE same # {}
    <2>1. \E x \in same : \A y \in same : x <= y
      BY <1>1, <1>2, NatMin
    <2>2. Min(same) \in same
      BY <2>1 DEF Min
    <2> QED
      BY <1>1, <1>2, <2>2 DEF ColorIndex
  <1>3. CASE same = {}
    <2>1. paletteUsed < PaletteSize => paletteUsed \in Solid
      BY <1>1 DEF Solid, Materials, Air
    <2> QED
      BY <1>3, <2>1, NearestType DEF ColorIndex
  <1> QED
    BY <1>2, <1>3

\* Merging a colour never runs past the palette.
LEMMA MergeKeeps ==
    ASSUME PaletteInv, NEW c \in Colors, MergeColor(c)
    PROVE  PaletteInv'
  <1>1. ColorIndex(c) \in Solid
    BY ColorIndexType
  <1>2. ColorIndex(c) \in Materials /\ ColorIndex(c) <= PaletteSize - 1
    BY <1>1, WorldAssumption DEF Solid, Materials
  <1>3. palette' \in Palettes
    BY <1>2 DEF PaletteInv, Palettes, MergeColor
  <1>4. paletteUsed' \in 1..PaletteSize
    BY <1>2, WorldAssumption DEF PaletteInv, MergeColor
  <1> QED
    BY <1>3, <1>4 DEF PaletteInv

-----------------------------------------------------------------------------
(* The bounds.  Min and Max are those of finite sets of integers, and a map *)
(* of chunks stays finite: only solid voxels create chunks.                 *)

\* A finite set of integers has a least element: otherwise a smallest subset without one
\* would, less an element, have one, and then itself.
LEMMA IntMin ==
    ASSUME NEW S \in SUBSET Int, IsFiniteSet(S), S # {}
    PROVE  \E x \in S : \A y \in S : x <= y
  <1> DEFINE Least(T) == \E x \in T : \A y \in T : x <= y
             bad == {Cardinality(T) : T \in {U \in SUBSET S : U # {} /\ ~Least(U)}}
  <1>1. \A T \in SUBSET S : IsFiniteSet(T) /\ Cardinality(T) \in Nat
    BY FS_Subset, FS_CardinalityType
  <1> SUFFICES ASSUME ~Least(S) PROVE FALSE
    OBVIOUS
  <1>2. bad \in SUBSET Nat /\ bad # {}
    BY <1>1
  <1>3. PICK n \in bad : \A k \in bad : n <= k
    BY <1>2, NatMin
  <1>4. PICK T \in SUBSET S : T # {} /\ ~Least(T) /\ n = Cardinality(T)
    BY <1>3
  <1>5. PICK t \in T : TRUE
    BY <1>4
  <1> DEFINE U == T \ {t}
  <1>6. Cardinality(U) = Cardinality(T) - 1 /\ U \in SUBSET S
    BY <1>1, <1>5, FS_RemoveElement
  <1>7. Cardinality(U) \notin bad
    <2>1. n \in Nat /\ Cardinality(U) = n - 1
      BY <1>1, <1>4, <1>6
    <2>2. ~(n <= n - 1)
      BY <2>1
    <2> QED
      BY <1>3, <2>1, <2>2
  <1>8. U = {} \/ Least(U)
    BY <1>6, <1>7
  <1>9. CASE U = {}
    <2>1. \A y \in T : t <= y
      BY <1>4, <1>9
    <2> QED
      BY <1>4, <1>5, <2>1
  <1>10. CASE Least(U)
    <2>1. PICK x \in U : \A y \in U : x <= y
      BY <1>10
    <2>2. x \in Int /\ t \in Int /\ x \in T
      BY <1>4, <1>5, <2>1
    <2>3. CASE x <= t
      <3>1. \A y \in T : x <= y
        BY <2>1, <2>3
      <3> QED
        BY <1>4, <2>2, <3>1
    <2>4. CASE t < x
      <3>1. \A y \in T : t <= y
        <4> SUFFICES ASSUME NEW y \in T PROVE t <= y
          OBVIOUS
        <4>1. y \in Int
          BY <1>4
        <4>2. y = t \/ x <= y
          BY <2>1
        <4> QED
          BY <2>2, <2>4, <4>1, <4>2
      <3> QED
        BY <1>4, <1>5, <3>1
    <2> QED
      BY <2>2, <2>3, <2>4
  <1> QED
    BY <1>8, <1>9, <1>10

LEMMA ImageFinite ==
    ASSUME NEW f, IsFiniteSet(DOMAIN f)
    PROVE  IsFiniteSet({f[x] : x \in DOMAIN f})
  <1> DEFINE S == DOMAIN f
             T == {f[x] : x \in S}
             g == [x \in S |-> f[x]]
  <1>1. g \in [S -> T] /\ \A t \in T : \E x \in S : g[x] = t
    OBVIOUS
  <1>2. g \in Surjection(S, T)
    BY <1>1 DEF Surjection
  <1> QED
    BY <1>2, FS_Surjection

LEMMA MinOfInts ==
    ASSUME NEW S \in SUBSET Int, IsFiniteSet(S), S # {}
    PROVE  Min(S) \in S /\ \A y \in S : Min(S) <= y
  BY IntMin DEF Min

LEMMA MaxOfInts ==
    ASSUME NEW S \in SUBSET Int, IsFiniteSet(S), S # {}
    PROVE  Max(S) \in S /\ \A y \in S : y <= Max(S)
  <1> DEFINE N == {-x : x \in S}
             f == [x \in S |-> -x]
  <1>0. DOMAIN f = S /\ {f[x] : x \in S} = N
    OBVIOUS
  <1>1. N \in SUBSET Int /\ IsFiniteSet(N) /\ N # {}
    <2>1. IsFiniteSet(N)
      BY <1>0, ImageFinite
    <2>2. \A x \in S : -x \in Int
      OBVIOUS
    <2>3. N \in SUBSET Int
      BY <2>2, Zenon
    <2>4. N # {}
      OBVIOUS
    <2> QED
      BY <2>1, <2>3, <2>4
  <1>2. PICK n \in N : \A m \in N : n <= m
    BY <1>1, IntMin
  <1>3. PICK x \in S : n = -x
    BY <1>2
  <1>4. ASSUME NEW y \in S PROVE y <= x
    <2>1. -y \in N /\ y \in Int /\ x \in Int
      OBVIOUS
    <2>2. n <= -y
      BY <1>2, <2>1
    <2> QED
      BY <1>3, <2>1, <2>2
  <1>5. \E z \in S : \A y \in S : z >= y
    <2>1. \A y \in S : x >= y
      BY <1>4
    <2> QED
      BY <2>1
  <1> QED
    BY <1>5 DEF Max

\* Writes of finitely many solid voxels keep a map finite.
LEMMA WrittenFinite ==
    ASSUME NEW map, IsMap(map), IsFiniteSet(DOMAIN map), NEW w, IsWrites(w),
           IsFiniteSet({q \in DOMAIN w : w[q] # Air})
    PROVE  IsFiniteSet(DOMAIN Written(map, w))
  <1> DEFINE solid   == {q \in DOMAIN w : w[q] # Air}
             created == {WorldToChunk(q) : q \in solid}
             f       == [q \in solid |-> WorldToChunk(q)]
  <1>1. IsFiniteSet(created)
    <2>1. DOMAIN f = solid /\ {f[q] : q \in solid} = created
      OBVIOUS
    <2> QED
      BY <2>1, ImageFinite
  <1>2. IsFiniteSet(DOMAIN map \cup created)
    BY <1>1, FS_Union
  <1>3. DOMAIN Written(map, w) \subseteq DOMAIN map \cup created
    BY WrittenChunks
  <1> QED
    BY <1>2, <1>3, FS_Subset

\* Every resident chunk lies within the bounds.
LEMMA ChunkInBounds ==
    ASSUME NEW map, IsMap(map), IsFiniteSet(DOMAIN map), NEW a \in Axes
    PROVE  /\ Low(map)[a] \in Int /\ High(map)[a] \in Int
           /\ \A cc \in DOMAIN map : /\ Low(map)[a] <= cc[a] * ChunkSize
                                     /\ cc[a] * ChunkSize + ChunkSize <= High(map)[a]
  <1> DEFINE lows  == {cc[a] * ChunkSize : cc \in DOMAIN map}
             highs == {cc[a] * ChunkSize + ChunkSize : cc \in DOMAIN map}
  <1>1. /\ Low(map)[a] = IF DOMAIN map = {} THEN 0 ELSE Min(lows)
        /\ High(map)[a] = IF DOMAIN map = {} THEN 0 ELSE Max(highs)
    BY DEF Low, High
  <1>2. CASE DOMAIN map = {}
    BY <1>1, <1>2
  <1>3. CASE DOMAIN map # {}
    <2>1. \A cc \in DOMAIN map : cc[a] * ChunkSize \in Int /\ ChunkSize \in Nat
      BY WorldAssumption DEF IsMap, Coordinates
    <2>2. lows \in SUBSET Int /\ lows # {} /\ highs \in SUBSET Int /\ highs # {}
      BY <1>3, <2>1
    <2> DEFINE f == [cc \in DOMAIN map |-> cc[a] * ChunkSize]
               g == [cc \in DOMAIN map |-> cc[a] * ChunkSize + ChunkSize]
    <2>3. IsFiniteSet(lows) /\ IsFiniteSet(highs)
      <3>1. /\ DOMAIN f = DOMAIN map /\ {f[cc] : cc \in DOMAIN map} = lows
            /\ DOMAIN g = DOMAIN map /\ {g[cc] : cc \in DOMAIN map} = highs
        OBVIOUS
      <3> QED
        BY <3>1, ImageFinite
    <2>4. /\ Min(lows) \in lows /\ \A y \in lows : Min(lows) <= y
          /\ Max(highs) \in highs /\ \A y \in highs : y <= Max(highs)
      BY <2>2, <2>3, MinOfInts, MaxOfInts
    <2>5. /\ Low(map)[a] = Min(lows)
          /\ High(map)[a] = Max(highs)
      BY <1>1, <1>3
    <2> HIDE DEF lows, highs
    <2>6. Low(map)[a] \in Int /\ High(map)[a] \in Int
      BY <2>2, <2>4, <2>5
    <2> QED
      BY <2>4, <2>5, <2>6 DEF lows, highs
  <1> QED
    BY <1>2, <1>3

\* So does every voxel of a resident chunk.
LEMMA VoxelInBounds ==
    ASSUME NEW map, IsMap(map), IsFiniteSet(DOMAIN map),
           NEW p \in Coordinates, WorldToChunk(p) \in DOMAIN map, NEW a \in Axes
    PROVE  /\ Low(map)[a] \in Int /\ High(map)[a] \in Int
           /\ p[a] \in Low(map)[a]..(High(map)[a] - 1)
  <1> DEFINE c == WorldToChunk(p)[a]
             l == ChunkLocal(p)[a]
  <1>1. /\ Low(map)[a] \in Int /\ High(map)[a] \in Int
        /\ Low(map)[a] <= c * ChunkSize
        /\ c * ChunkSize + ChunkSize <= High(map)[a]
    BY ChunkInBounds
  <1>2. c \in Int /\ l \in 0..(ChunkSize - 1)
    BY AddressTypes DEF Coordinates, Locals
  <1>3. p[a] = c * ChunkSize + l
    BY WorldOfAddress DEF WorldOf
  <1>4. ChunkSize \in Nat /\ c * ChunkSize \in Int /\ p[a] \in Int
    BY <1>2, WorldAssumption DEF Coordinates
  <1> DEFINE k == c * ChunkSize
  <1> HIDE DEF c, l, k
  <1> QED
    BY <1>1, <1>2, <1>3, <1>4 DEF k

\* The world of a model alone: a finite map, in which each of its voxels has a chunk.
LEMMA SourceFacts ==
    ASSUME NEW m \in Models
    PROVE  /\ IsMap(SourceWorld(m)) /\ IsFiniteSet(DOMAIN SourceWorld(m))
           /\ \A p \in DOMAIN m.voxels :
                 p \in Coordinates /\ WorldToChunk(p) \in DOMAIN SourceWorld(m)
  <1>1. /\ DOMAIN m.voxels \subseteq Coordinates
        /\ IsFiniteSet(DOMAIN m.voxels)
        /\ \A p \in DOMAIN m.voxels : m.voxels[p] \in Materials /\ m.voxels[p] # Air
    BY WorldAssumption, MaterialsFacts DEF Coordinates
  <1>2. IsWrites(m.voxels)
    BY <1>1 DEF IsWrites
  <1>3. DOMAIN NoChunks = {}
    BY DEF NoChunks
  <1>4. IsMap(NoChunks) /\ IsFiniteSet(DOMAIN NoChunks)
    BY <1>3, FS_EmptySet DEF IsMap
  <1>5. IsFiniteSet({q \in DOMAIN m.voxels : m.voxels[q] # Air})
    BY <1>1, FS_Subset
  <1>6. Evicted(NoChunks, m.voxels) = {}
    BY <1>3 DEF Evicted
  <1>7. \A p \in DOMAIN m.voxels : WorldToChunk(p) \in DOMAIN SourceWorld(m)
    BY <1>1, <1>2, <1>4, <1>6, WrittenChunks DEF SourceWorld
  <1> QED
    BY <1>1, <1>2, <1>4, <1>5, <1>7, WrittenIsMap, WrittenFinite DEF SourceWorld

\* The fitted offset puts the whole of a source no larger than the world inside of it.
LEMMA FitOffsetFits ==
    ASSUME NEW off \in Coordinates, NEW map, IsMap(map), IsFiniteSet(DOMAIN map)
    PROVE  /\ FitOffset(off, map) \in Coordinates
           /\ \A a \in Axes : High(map)[a] - Low(map)[a] <= WorldDim
                 => FitOffset(off, map)[a] \in (-Low(map)[a])..(WorldDim - High(map)[a])
  <1> DEFINE fit == FitOffset(off, map)
  <1>1. ASSUME NEW a \in Axes
        PROVE  /\ fit[a] \in Int
               /\ High(map)[a] - Low(map)[a] <= WorldDim
                     => fit[a] \in (-Low(map)[a])..(WorldDim - High(map)[a])
    <2>1. Low(map)[a] \in Int /\ High(map)[a] \in Int
      BY ChunkInBounds
    <2>2. WorldDim \in Int /\ off[a] \in Int
      BY WorldAssumption DEF Coordinates
    <2>3. fit[a] = LET least    == -Low(map)[a]
                       greatest == WorldDim - High(map)[a]
                   IN  IF least > greatest \/ off[a] < least THEN least
                       ELSE IF off[a] > greatest THEN greatest ELSE off[a]
      BY DEF FitOffset
    <2> HIDE DEF fit
    <2> QED
      BY <2>1, <2>2, <2>3
  <1>2. fit \in Coordinates
    BY <1>1 DEF FitOffset, Coordinates
  <1> QED
    BY <1>1, <1>2

-----------------------------------------------------------------------------
(* The invariant.                                                          *)

StampInv == Stamping => stamp.model \in Models /\ stamp.todo \subseteq DOMAIN stamp.model.voxels

\* The offset of the StampVox under way is one that was fitted to the model, once, before
\* the first voxel.
FitInv ==
    Stamping => \E off \in Offsets : stamp.offset = FitOffset(off, SourceWorld(stamp.model))


ChunksInv == IsMap(chunks) /\ IsFiniteSet(DOMAIN chunks) /\ NoEmptyChunks

IInv == ChunksInv /\ PaletteInv /\ StampInv /\ FitInv

\* The cells a step writes, if it writes any.
WritesSome(w) == IsWrites(w) /\ chunks' = Written(chunks, w)

\* Of these, finitely many set a solid voxel.
Few(w) == IsFiniteSet({q \in DOMAIN w : w[q] # Air})

LEMMA WritesKeep ==
    ASSUME ChunksInv, NEW w, WritesSome(w), Few(w)
    PROVE  ChunksInv'
  <1>1. IsMap(Written(chunks, w))
    BY WrittenIsMap DEF WritesSome, ChunksInv
  <1>2. \A cc \in DOMAIN Written(chunks, w) : ~Empty(Written(chunks, w)[cc])
    BY WrittenNotEmpty DEF WritesSome, NoEmptyChunks, ChunksInv
  <1>3. IsFiniteSet(DOMAIN Written(chunks, w))
    BY WrittenFinite DEF WritesSome, ChunksInv, Few
  <1> QED
    BY <1>1, <1>2, <1>3 DEF WritesSome, NoEmptyChunks, IsMap, ChunksInv

\* SetVoxel and StampVox write one voxel, CarveSphere nothing but air.
LEMMA FewWrites ==
    /\ \A p, m : Few([q \in {p} |-> m])
    /\ \A S : Few([p \in S |-> Air])
  <1>1. ASSUME NEW p, NEW m PROVE Few([q \in {p} |-> m])
    <2>1. IsFiniteSet({p})
      BY FS_Singleton
    <2>2. {r \in {p} : [q \in {p} |-> m][r] # Air} \subseteq {p}
      OBVIOUS
    <2> QED
      BY <2>1, <2>2, FS_Subset DEF Few
  <1>2. ASSUME NEW S PROVE Few([p \in S |-> Air])
    <2>1. {r \in S : [p \in S |-> Air][r] # Air} = {}
      OBVIOUS
    <2> QED
      BY <2>1, FS_EmptySet DEF Few
  <1> QED
    BY <1>1, <1>2

LEMMA SetVoxelWrites ==
    ASSUME NEW p \in Writes, NEW m \in Materials, SetVoxel(p, m)
    PROVE  p \in Coordinates /\ WritesSome([q \in {p} |-> m])
  <1>1. p \in Coordinates
    BY WorldAssumption DEF Coordinates
  <1> QED
    BY <1>1 DEF SetVoxel, WritesSome, IsWrites

Hits(c, r) == {q \in Sphere(c, r) : GetVoxel(chunks, q) # Air}

LEMMA CarveWrites ==
    ASSUME NEW c, NEW r, CarveSphere(c, r)
    PROVE  /\ Hits(c, r) \subseteq World
           /\ Hits(c, r) \subseteq Coordinates
           /\ WritesSome([p \in Hits(c, r) |-> Air])
  <1>1. Hits(c, r) \subseteq World
    BY DEF Hits, Sphere
  <1>2. Hits(c, r) \subseteq Coordinates
    BY <1>1, WorldAssumption DEF Coordinates
  <1>3. IsWrites([p \in Hits(c, r) |-> Air])
    BY <1>2, MaterialsFacts DEF IsWrites
  <1> QED
    BY <1>1, <1>2, <1>3 DEF CarveSphere, WritesSome, Hits

\* The colour of a voxel under way.
LEMMA StampColor ==
    ASSUME StampInv, NEW p \in stamp.todo
    PROVE  stamp.model.palette[stamp.model.voxels[p]] \in Colors
  <1>1. stamp.model \in Models /\ p \in DOMAIN stamp.model.voxels
    BY DEF StampInv, Stamping
  <1>2. stamp.model.voxels[p] \in Solid /\ stamp.model.palette \in Palettes
    BY <1>1, WorldAssumption
  <1> QED
    BY <1>2, MaterialsFacts DEF Palettes

LEMMA StampVoxelWrites ==
    ASSUME PaletteInv, StampInv, NEW p \in stamp.todo, StampVoxel(p), Target(p) \in World
    PROVE  \E m \in Materials : WritesSome([q \in {Target(p)} |-> m])
  <1> DEFINE c == stamp.model.palette[stamp.model.voxels[p]]
  <1>1. ColorIndex(c) \in Materials
    BY StampColor, ColorIndexType, MaterialsFacts
  <1>2. Target(p) \in Coordinates
    BY WorldAssumption DEF Coordinates
  <1>3. chunks' = Written(chunks, [q \in {Target(p)} |-> ColorIndex(c)])
    BY DEF StampVoxel
  <1>4. IsWrites([q \in {Target(p)} |-> ColorIndex(c)])
    BY <1>1, <1>2 DEF IsWrites
  <1> QED
    BY <1>1, <1>3, <1>4 DEF WritesSome

LEMMA InitIInv == Init => IInv
  <1> SUFFICES ASSUME Init PROVE IInv
    OBVIOUS
  <1>1. DOMAIN chunks = {}
    BY DEF Init, NoChunks
  <1>2. ChunksInv
    BY <1>1, FS_EmptySet DEF IsMap, NoEmptyChunks, ChunksInv
  <1>3. PaletteInv
    BY WorldAssumption DEF Init, PaletteInv, Palettes
  <1>4. StampInv /\ FitInv
    BY DEF Init, StampInv, FitInv, Stamping, NoStamp
  <1> QED
    BY <1>2, <1>3, <1>4 DEF IInv

LEMMA NextIInv == IInv /\ [Next]_vars => IInv'
  <1> SUFFICES ASSUME IInv, [Next]_vars PROVE IInv'
    OBVIOUS
  <1>0. ChunksInv /\ PaletteInv /\ StampInv /\ FitInv
    BY DEF IInv
  <1>1. ASSUME UNCHANGED stamp PROVE StampInv' /\ FitInv'
    BY <1>0, <1>1 DEF StampInv, FitInv, Stamping
  <1>2. ASSUME UNCHANGED chunks PROVE ChunksInv'
    BY <1>0, <1>2 DEF ChunksInv, IsMap, NoEmptyChunks
  <1>3. ASSUME NEW p \in Writes, NEW m \in Materials, SetVoxel(p, m)
        PROVE  IInv'
    <2>1. ChunksInv'
      BY <1>0, <1>3, SetVoxelWrites, FewWrites, WritesKeep
    <2>2. PaletteInv' /\ UNCHANGED stamp
      BY <1>0, <1>3 DEF SetVoxel, PaletteInv
    <2> QED
      BY <1>1, <2>1, <2>2 DEF IInv
  <1>4. ASSUME NEW c \in World, NEW r \in Radii, CarveSphere(c, r)
        PROVE  IInv'
    <2>1. ChunksInv'
      BY <1>0, <1>4, CarveWrites, FewWrites, WritesKeep
    <2>2. PaletteInv' /\ UNCHANGED stamp
      BY <1>0, <1>4 DEF CarveSphere, PaletteInv
    <2> QED
      BY <1>1, <2>1, <2>2 DEF IInv
  <1>5. ASSUME NEW c \in Colors, AddPaletteColor(c)
        PROVE  IInv'
    <2>1. PaletteInv'
      BY <1>0, <1>5, MergeKeeps DEF AddPaletteColor
    <2>2. UNCHANGED <<chunks, stamp>>
      BY <1>5 DEF AddPaletteColor
    <2> QED
      BY <1>1, <1>2, <2>1, <2>2 DEF IInv
  <1>6. ASSUME NEW k \in Solid, NEW c \in Colors, SetPaletteColor(k, c)
        PROVE  IInv'
    <2>1. palette' \in Palettes
      BY <1>0, <1>6, MaterialsFacts DEF SetPaletteColor, PaletteInv, Palettes
    <2>2. paletteUsed' \in 1..PaletteSize
      BY <1>0, <1>6, WorldAssumption DEF SetPaletteColor, PaletteInv, Solid, Materials
    <2>3. UNCHANGED <<chunks, stamp>>
      BY <1>6 DEF SetPaletteColor
    <2> QED
      BY <1>1, <1>2, <2>1, <2>2, <2>3 DEF IInv, PaletteInv
  <1>7. ASSUME NEW model \in Models, NEW off \in Offsets, StampVox(model, off)
        PROVE  IInv'
    <2>1. StampInv' /\ FitInv'
      BY <1>7 DEF StampVox, StampInv, FitInv, Stamping
    <2>2. PaletteInv' /\ UNCHANGED chunks
      BY <1>0, <1>7 DEF StampVox, PaletteInv
    <2> QED
      BY <1>2, <2>1, <2>2 DEF IInv
  <1>8. ASSUME NEW p \in stamp.todo, StampVoxel(p)
        PROVE  IInv'
    <2>1. StampInv' /\ FitInv'
      <3>1. CASE stamp.todo = {p}
        BY <1>8, <3>1 DEF StampVoxel, StampInv, FitInv, Stamping, NoStamp
      <3>2. CASE stamp.todo # {p}
        <4>1. Stamping /\ stamp' = [stamp EXCEPT !.todo = @ \ {p}]
          BY <1>8, <3>2 DEF StampVoxel, Stamping
        <4>2. Stamping' => stamp'.todo # {}
          BY DEF Stamping
        <4>3. Stamping' => /\ stamp'.model = stamp.model /\ stamp'.offset = stamp.offset
                           /\ stamp'.todo \subseteq stamp.todo
          BY <4>1, <4>2
        <4> QED
          BY <1>0, <4>1, <4>3 DEF StampInv, FitInv
      <3> QED
        BY <3>1, <3>2
    <2>2. CASE Target(p) \in World
      <3>1. PICK m \in Materials : WritesSome([q \in {Target(p)} |-> m])
        BY <1>0, <1>8, <2>2, StampVoxelWrites
      <3>2. ChunksInv'
        BY <1>0, <3>1, FewWrites, WritesKeep
      <3>3. PaletteInv'
        BY <1>0, <1>8, <2>2, StampColor, MergeKeeps DEF StampVoxel
      <3> QED
        BY <2>1, <3>2, <3>3 DEF IInv
    <2>3. CASE Target(p) \notin World
      <3>1. UNCHANGED <<chunks, palette, paletteUsed>>
        BY <1>8, <2>3 DEF StampVoxel
      <3> QED
        BY <1>0, <1>2, <2>1, <3>1 DEF IInv, PaletteInv
    <2> QED
      BY <2>2, <2>3
  <1>9. CASE Clear
    <2>1. DOMAIN chunks' = {}
      BY <1>9 DEF Clear, NoChunks
    <2>2. ChunksInv'
      BY <2>1, FS_EmptySet DEF ChunksInv, IsMap, NoEmptyChunks
    <2>3. PaletteInv' /\ UNCHANGED stamp
      BY <1>0, <1>9, WorldAssumption DEF Clear, PaletteInv, Palettes
    <2> QED
      BY <1>1, <2>2, <2>3 DEF IInv
  <1>10. CASE UNCHANGED vars
    BY <1>0, <1>1, <1>2, <1>10 DEF vars, IInv, PaletteInv
  <1> QED
    BY <1>3, <1>4, <1>5, <1>6, <1>7, <1>8, <1>9, <1>10 DEF Next

LEMMA Inductive == Spec => []IInv
  <1> QED
    BY InitIInv, NextIInv, PTL DEF Spec

-----------------------------------------------------------------------------
(* The theorems.                                                           *)

\* SetVoxel, CarveSphere and StampVox erase a chunk with its last solid voxel: no resident
\* chunk is ever empty.
THEOREM NoEmptyCorrect == Spec => []NoEmptyChunks
  <1>1. IInv => NoEmptyChunks
    BY DEF IInv, ChunksInv
  <1> QED
    BY <1>1, Inductive, PTL

\* The grid handed to the renderer is the world, after any sequence of operations.
THEOREM BakeCorrect == Spec => []BakeExact
  <1>1. IInv => BakeExact
    BY BakeIsGet DEF IInv, ChunksInv, BakeExact
  <1> QED
    BY <1>1, Inductive, PTL

\* A StampVox under way clips nothing of a model that is no larger than the world: every
\* voxel still to come lies in a chunk of the model, the bounds cover the chunks, and the
\* offset was fitted to the bounds.
THEOREM StampsCorrect == Spec => []StampsWhole
  <1>1. IInv => StampsWhole
    <2> SUFFICES ASSUME IInv, Stamping,
                        \A a \in Axes : LET map == SourceWorld(stamp.model)
                                        IN  High(map)[a] - Low(map)[a] <= WorldDim,
                        NEW p \in stamp.todo
                 PROVE  Target(p) \in World
      BY DEF StampsWhole
    <2> DEFINE map == SourceWorld(stamp.model)
    <2>1. stamp.model \in Models /\ p \in DOMAIN stamp.model.voxels
      BY DEF IInv, StampInv
    <2>2. /\ IsMap(map) /\ IsFiniteSet(DOMAIN map)
          /\ p \in Coordinates /\ WorldToChunk(p) \in DOMAIN map
      BY <2>1, SourceFacts
    <2>3. PICK off \in Offsets : stamp.offset = FitOffset(off, map)
      BY DEF IInv, FitInv
    <2>4. off \in Coordinates
      BY WorldAssumption DEF Coordinates
    <2> HIDE DEF map
    <2>5. ASSUME NEW a \in Axes
          PROVE  stamp.offset[a] + p[a] \in 0..(WorldDim - 1)
      <3>1. /\ Low(map)[a] \in Int /\ High(map)[a] \in Int
            /\ p[a] \in Low(map)[a]..(High(map)[a] - 1)
        BY <2>2, VoxelInBounds
      <3>2. High(map)[a] - Low(map)[a] <= WorldDim
        BY DEF map
      <3>3. stamp.offset[a] \in (-Low(map)[a])..(WorldDim - High(map)[a])
        BY <2>2, <2>3, <2>4, <3>2, FitOffsetFits
      <3>4. WorldDim \in Int
        BY WorldAssumption
      <3> QED
        BY <3>1, <3>3, <3>4
    <2> QED
      BY <2>5 DEF Target, World
  <1> QED
    BY <1>1, Inductive, PTL

\* Bounds, which StampVox visits instead of the world, leaves no voxel out.
THEOREM BoundsCorrect == Spec => []BoundsCover
  <1>1. IInv => BoundsCover
    <2> SUFFICES ASSUME IInv, NEW p \in Space, GetVoxel(chunks, p) # Air, NEW a \in Axes
                 PROVE  p[a] \in Low(chunks)[a]..(High(chunks)[a] - 1)
      BY DEF BoundsCover
    <2>1. p \in Coordinates /\ WorldToChunk(p) \in DOMAIN chunks
      BY WorldAssumption DEF GetVoxel, Coordinates
    <2> QED
      BY <2>1, VoxelInBounds DEF IInv, ChunksInv
  <1> QED
    BY <1>1, Inductive, PTL

\* The chunk map, the palette and its watermark, and the StampVox under way keep their types.
THEOREM TypeCorrect == Spec => []TypeOK
  <1>1. IInv => TypeOK
    <2> SUFFICES ASSUME IInv PROVE TypeOK
      OBVIOUS
    <2>1. \A cc \in DOMAIN chunks : cc \in [Axes -> Int] /\ chunks[cc] \in [Locals -> Materials]
      BY DEF IInv, ChunksInv, IsMap, Coordinates
    <2>2. palette \in Palettes /\ paletteUsed \in 1..PaletteSize
      BY DEF IInv, PaletteInv
    <2>3. ASSUME Stamping
          PROVE  /\ stamp.model \in Models
                 /\ stamp.offset \in [Axes -> Int]
                 /\ stamp.todo \subseteq DOMAIN stamp.model.voxels
      <3>1. stamp.model \in Models /\ stamp.todo \subseteq DOMAIN stamp.model.voxels
        BY <2>3 DEF IInv, StampInv
      <3>2. PICK off \in Offsets : stamp.offset = FitOffset(off, SourceWorld(stamp.model))
        BY <2>3 DEF IInv, FitInv
      <3>3. stamp.offset \in Coordinates
        BY <3>1, <3>2, SourceFacts, FitOffsetFits, WorldAssumption DEF Coordinates
      <3> QED
        BY <3>1, <3>3 DEF Coordinates
    <2> QED
      BY <2>1, <2>2, <2>3 DEF TypeOK
  <1> QED
    BY <1>1, Inductive, PTL

\* What GetVoxel shows of the chunk map at every coordinate looked at.
View == [p \in Space |-> GetVoxel(chunks, p)]

LEMMA SpaceFacts == Space \subseteq Coordinates /\ World \subseteq Space /\ Writes \subseteq Space
  BY WorldAssumption DEF Coordinates

\* Writing one cell of the map writes that cell of the view.
LEMMA ViewAfterOne ==
    ASSUME IsMap(chunks), NEW p \in Space, NEW m \in Materials, WritesSome([q \in {p} |-> m])
    PROVE  View' = [View EXCEPT ![p] = m]
  <1>1. ASSUME NEW q \in Space
        PROVE  GetVoxel(chunks', q) = IF q = p THEN m ELSE GetVoxel(chunks, q)
    BY SpaceFacts, ReadBack DEF WritesSome
  <1> QED
    BY <1>1 DEF View

LEMMA ViewAfterCarve ==
    ASSUME IsMap(chunks), NEW S \in SUBSET World, WritesSome([p \in S |-> Air])
    PROVE  View' = [p \in Space |-> IF p \in World /\ View'[p] = Air THEN Air ELSE View[p]]
  <1>1. ASSUME NEW q \in Space
        PROVE  View'[q] = IF q \in World /\ View'[q] = Air THEN Air ELSE View[q]
    <2>1. GetVoxel(chunks', q) = IF q \in S THEN Air ELSE GetVoxel(chunks, q)
      BY SpaceFacts, ReadBack DEF WritesSome
    <2> QED
      BY <2>1 DEF View
  <1>2. View' = [q \in Space |-> View'[q]]
    BY DEF View
  <1> QED
    BY <1>1, <1>2

LEMMA GridInit == Init => Grid!Init
  <1> SUFFICES ASSUME Init PROVE View = [p \in Space |-> Air]
    BY DEF Grid!Init, View
  <1>1. DOMAIN chunks = {}
    BY DEF Init, NoChunks
  <1> QED
    BY <1>1 DEF View, GetVoxel

LEMMA GridStep ==
    ASSUME IInv, [Next]_vars
    PROVE  Grid!Next \/ View' = View
  <1>0. IsMap(chunks) /\ PaletteInv /\ StampInv
    BY DEF IInv, ChunksInv
  <1>1. ASSUME NEW p \in Space, NEW m \in Materials, View' = [View EXCEPT ![p] = m]
        PROVE  Grid!Next
    BY <1>1 DEF Grid!Next, Grid!Set, View
  <1>2. ASSUME NEW p \in Writes, NEW m \in Materials, SetVoxel(p, m)
        PROVE  Grid!Next
    <2>1. p \in Space
      BY SpaceFacts
    <2>2. WritesSome([q \in {p} |-> m])
      BY <1>2, SetVoxelWrites
    <2>3. View' = [View EXCEPT ![p] = m]
      BY <1>0, <2>1, <2>2, ViewAfterOne
    <2> QED
      BY <1>1, <2>1, <2>3
  <1>3. ASSUME NEW c \in World, NEW r \in Radii, CarveSphere(c, r)
        PROVE  Grid!Next
    <2>1. View' = [p \in Space |-> IF p \in World /\ View'[p] = Air THEN Air ELSE View[p]]
      BY <1>0, <1>3, CarveWrites, ViewAfterCarve
    <2> QED
      BY <2>1 DEF Grid!Next, Grid!Carve, View
  <1>4. ASSUME NEW p \in stamp.todo, StampVoxel(p)
        PROVE  Grid!Next \/ View' = View
    <2>1. CASE Target(p) \in World
      <3>1. PICK m \in Materials : WritesSome([q \in {Target(p)} |-> m])
        BY <1>0, <1>4, <2>1, StampVoxelWrites
      <3>2. Target(p) \in Space
        BY <2>1, SpaceFacts
      <3>3. View' = [View EXCEPT ![Target(p)] = m]
        BY <1>0, <3>1, <3>2, ViewAfterOne
      <3> QED
        BY <1>1, <3>2, <3>3
    <2>2. CASE Target(p) \notin World
      BY <1>4, <2>2 DEF StampVoxel, View
    <2> QED
      BY <2>1, <2>2
  <1>5. CASE Clear
    <2>1. View' = [p \in Space |-> Air]
      BY <1>5 DEF Clear, NoChunks, View, GetVoxel
    <2> QED
      BY <2>1 DEF Grid!Next, Grid!Clear, View
  <1>6. ASSUME NEW c \in Colors, AddPaletteColor(c)
        PROVE  View' = View
    BY <1>6 DEF AddPaletteColor, View
  <1>7. ASSUME NEW k \in Solid, NEW c \in Colors, SetPaletteColor(k, c)
        PROVE  View' = View
    BY <1>7 DEF SetPaletteColor, View
  <1>8. ASSUME NEW model \in Models, NEW off \in Offsets, StampVox(model, off)
        PROVE  View' = View
    BY <1>8 DEF StampVox, View
  <1>9. CASE UNCHANGED vars
    BY <1>9 DEF vars, View
  <1> QED
    BY <1>2, <1>3, <1>4, <1>5, <1>6, <1>7, <1>8, <1>9 DEF Next

\* The chunk map implements the plain grid of VoxelGrid: whatever its operations do to
\* chunks, each of them sets one voxel, empties voxels of the world, or changes nothing.
THEOREM GridRefined == Spec => GridSpec
  <1>1. IInv /\ [Next]_vars => [Grid!Next]_View
    BY GridStep
  <1> QED
    BY GridInit, <1>1, Inductive, PTL DEF Spec, GridSpec, Grid!Spec, View

-----------------------------------------------------------------------------
(***************************************************************************)
(* The world's palette in the game: VoxelScene.                            *)
(***************************************************************************)

\* A slot at or past the watermark has no colour yet.
UsedInv ==
    /\ paletteUsed \in Nat
    /\ DOMAIN palette = Materials
    /\ \A k \in Materials : palette[k] # NoColor => k < paletteUsed

\* The palette's part of VoxelScene's invariant, and the slot the debris colour is pinned in.
PinInv == UsedInv /\ debrisMat \in Solid

\* The slot that is taken for the debris colour is a solid material.
LEMMA DebrisSlotType == DebrisSlot \in Solid
  <1> DEFINE Free == FreeSlots
  <1>1. Free \subseteq Solid
    <2>1. \A i : i \in FreeSlots => i \in Solid
      BY Zenon DEF FreeSlots
    <2> QED BY <2>1, Zenon
  <1>2. PaletteSize - 1 \in Solid
    <2>1. PaletteSize \in Nat \ {0, 1}
      BY WorldAssumption, Zenon
    <2> QED BY <2>1 DEF Solid, Materials, Air
  <1>3. ASSUME Free # {} PROVE \E k \in Free : \A j \in Free : j <= k
    <2>0. IsFiniteSet(Materials) /\ Materials \subseteq Int
      <3>1. 0 \in Int /\ PaletteSize - 1 \in Int
        BY WorldAssumption
      <3>2. IsFiniteSet(0..(PaletteSize - 1))
        BY <3>1, FS_Interval, Zenon
      <3>3. 0..(PaletteSize - 1) \subseteq Int
        BY <3>1
      <3> QED BY <3>2, <3>3, Zenon DEF Materials
    <2>1. IsFiniteSet(Solid) /\ Solid \subseteq Int
      BY <2>0, FS_Subset DEF Solid
    <2>2. Free \in SUBSET Int /\ IsFiniteSet(Free)
      BY <1>1, <2>1, FS_Subset
    <2> QED
      BY <1>3, <2>2, MaxOfInts
  <1> QED
    BY <1>1, <1>2, <1>3, Zenon DEF DebrisSlot

\* Merging a colour leaves the slots below the watermark alone.
LEMMA MergeUsed ==
    ASSUME UsedInv, NEW c, MergeColor(c)
    PROVE  UsedInv' /\ \A k \in Materials : k < paletteUsed => palette'[k] = palette[k]
  BY DEF UsedInv, MergeColor, Materials

\* One voxel of a stamp merges at most one colour.
LEMMA StampUsed ==
    ASSUME UsedInv, NEW p, StampVoxel(p)
    PROVE  UsedInv' /\ \A k \in Materials : k < paletteUsed => palette'[k] = palette[k]
  <1> DEFINE c == stamp.model.palette[stamp.model.voxels[p]]
  <1>1. MergeColor(c) \/ UNCHANGED <<palette, paletteUsed>>
    BY DEF StampVoxel
  <1>2. CASE MergeColor(c)
    BY <1>2, MergeUsed
  <1>3. CASE UNCHANGED <<palette, paletteUsed>>
    BY <1>3 DEF UsedInv
  <1> QED
    BY <1>1, <1>2, <1>3

\* voxel.clear empties the palette.
LEMMA ClearUsed ==
    ASSUME Clear
    PROVE  UsedInv'
  BY DEF Clear, UsedInv, Materials

LEMMA PinInit == SceneInit => PinInv
  <1> SUFFICES ASSUME SceneInit PROVE PinInv
    OBVIOUS
  <1>1. UsedInv
    BY DEF SceneInit, Init, UsedInv, Materials
  <1>2. debrisMat \in Solid
    BY WorldAssumption DEF SceneInit, Solid, Materials, Air
  <1> QED
    BY <1>1, <1>2 DEF PinInv

LEMMA PinStep == PinInv /\ [SceneNext]_sceneVars => PinInv'
  <1> SUFFICES ASSUME PinInv, [SceneNext]_sceneVars PROVE PinInv'
    OBVIOUS
  <1> USE DEF PinInv
  <1>1. ASSUME UNCHANGED <<palette, paletteUsed, debrisMat>> PROVE PinInv'
    BY <1>1 DEF UsedInv
  <1>2. CASE UNCHANGED sceneVars
    BY <1>1, <1>2 DEF sceneVars, worldVars, vars
  <1>3. CASE Import
    BY <1>1, <1>3 DEF Import
  <1>4. CASE StartDemo
    BY <1>1, <1>4 DEF StartDemo, StampVox
  <1>5. CASE DemoStamped
    BY <1>1, <1>5 DEF DemoStamped, Push, worldVars, vars
  <1>6. CASE PinDebris
    <2>1. CASE ~setup.physX
      BY <1>1, <1>6, <2>1 DEF PinDebris, worldVars, vars
    <2>2. CASE setup.physX
      <3>1. debrisMat' = DebrisSlot /\ SetPaletteColor(DebrisSlot, DebrisColor)
        BY <1>6, <2>2 DEF PinDebris
      <3>2. PICK slot \in Solid : slot = DebrisSlot
        BY DebrisSlotType
      <3>3. UsedInv'
        BY <3>1, <3>2 DEF SetPaletteColor, UsedInv, Solid, Materials
      <3> QED
        BY <3>1, <3>3, DebrisSlotType
    <2> QED
      BY <2>1, <2>2
  <1>7. CASE \E model \in Models, off \in Offsets : VoxelPlace(model, off)
    BY <1>1, <1>7 DEF VoxelPlace, StampVox
  <1>8. CASE \E p \in stamp.todo : StampPainted(p)
    BY <1>8, StampUsed DEF StampPainted
  <1>9. CASE Placed
    BY <1>1, <1>9 DEF Placed, Push, worldVars, vars
  <1>10. CASE \E c \in World, r \in Radii : VoxelBreak(c, r)
    BY <1>1, <1>10 DEF VoxelBreak, CarveSphere
  <1>11. CASE VoxelClear
    BY <1>11, ClearUsed DEF VoxelClear
  <1> QED
    BY <1>2, <1>3, <1>4, <1>5, <1>6, <1>7, <1>8, <1>9, <1>10, <1>11 DEF SceneNext, Step

\* "Don't reuse this slot": whatever is stamped or carved, and however full the palette is,
\* the slot that holds the debris colour is below the watermark, so no merge writes it.
THEOREM DebrisCorrect == SceneSpec => DebrisPinned
  <1>1. ASSUME PinInv, [SceneNext]_sceneVars, phase \in {"loop", "push"},
               ~VoxelClear, palette[debrisMat] = DebrisColor
        PROVE  palette'[debrisMat] = DebrisColor
    <2>0. debrisMat \in Materials /\ debrisMat < paletteUsed
      BY <1>1, SceneAssumption DEF PinInv, UsedInv, Solid
    <2>1. CASE UNCHANGED palette
      BY <1>1, <2>1
    <2>2. CASE \E p \in stamp.todo : StampPainted(p)
      BY <1>1, <2>0, <2>2, StampUsed DEF StampPainted, PinInv
    <2>3. UNCHANGED palette \/ \E p \in stamp.todo : StampPainted(p)
      <3>1. CASE UNCHANGED sceneVars
        BY <3>1 DEF sceneVars, worldVars, vars
      <3>2. CASE SceneNext
        BY <1>1, <3>2 DEF SceneNext, Step, Import, StartDemo, StampVox,
           DemoStamped, Placed, Push, worldVars, vars, PinDebris,
           VoxelPlace, VoxelBreak, CarveSphere
      <3> QED
        BY <1>1, <3>1, <3>2
    <2> QED
      BY <2>1, <2>2, <2>3
  <1> QED
    BY <1>1, PinInit, PinStep, PTL DEF SceneSpec, DebrisPinned

-----------------------------------------------------------------------------
(* The colours shown, with PhysX or without, from the demo scene.           *)

\* While the demo is stamped, the slots below the watermark hold colours of it, each once.
DemoSlots ==
    /\ \A k \in 1..(paletteUsed - 1) : palette[k] \in DemoColors
    /\ \A j, k \in 1..(paletteUsed - 1) : palette[j] = palette[k] => j = k

\* Until the debris colour is pinned, nothing but the demo was stamped.
DemoInv ==
    phase \in {"boot", "demo", "pin"} =>
        /\ DemoSlots
        /\ Stamping => stamp.model = Demo

\* Every solid voxel refers to a slot below the watermark that serves its colour.
PaintedInv ==
    /\ DOMAIN painted = World
    /\ \A p \in World : GetVoxel(chunks, p) # Air =>
          /\ GetVoxel(chunks, p) \in 1..(paletteUsed - 1)
          /\ Serves(palette, GetVoxel(chunks, p), painted[p])

\* A command pushes the palette when its stamp is done.
PushedInv ==
    /\ phase \in {"boot", "pin", "loop"} => ~Stamping
    /\ phase \in {"pin", "loop"} => shown = palette

SceneInv  == ChunksInv /\ PaletteInv /\ UsedInv /\ DemoInv /\ StampInv /\ PaintedInv /\ PushedInv
PlainIInv == setup.import = NoModel => SceneInv

LEMMA ModelColor ==
    ASSUME StampInv, NEW p \in stamp.todo
    PROVE  stamp.model.palette[stamp.model.voxels[p]] \in Colors
  <1>1. stamp.model \in Models /\ p \in DOMAIN stamp.model.voxels
    BY DEF StampInv, Stamping
  <1> QED
    BY <1>1, StampColor

LEMMA DemoColorsFinite == IsFiniteSet(DemoColors) /\ Cardinality(DemoColors) \in Nat
  <1> DEFINE f == [p \in DOMAIN Demo.voxels |-> ColorOf(Demo, p)]
  <1>1. IsFiniteSet(DOMAIN Demo.voxels)
    BY SceneAssumption, WorldAssumption
  <1>2. DOMAIN f = DOMAIN Demo.voxels /\ {f[p] : p \in DOMAIN Demo.voxels} = DemoColors
    BY DEF DemoColors
  <1>3. IsFiniteSet(DemoColors)
    BY <1>1, <1>2, ImageFinite
  <1> QED
    BY <1>3, FS_CardinalityType

\* The demo leaves a slot free: there are fewer colours than slots, and each has one slot.
LEMMA SlotLeft ==
    ASSUME PaletteInv, DemoSlots
    PROVE  paletteUsed < PaletteSize
  <1> DEFINE slots == 1..(paletteUsed - 1)
             f     == [k \in slots |-> palette[k]]
  <1>1. paletteUsed \in Nat \ {0} /\ PaletteSize \in Nat
    BY WorldAssumption DEF PaletteInv
  <1>2. IsFiniteSet(slots) /\ Cardinality(slots) = paletteUsed - 1
    BY <1>1, FS_Interval
  <1>3. f \in Injection(slots, DemoColors)
    BY DEF Injection, IsInjective, DemoSlots
  <1>4. Cardinality(slots) <= Cardinality(DemoColors)
    BY <1>2, <1>3, DemoColorsFinite, FS_Injection
  <1> QED
    BY <1>1, <1>2, <1>4, DemoColorsFinite, SceneAssumption

\* What merging does to the palette: nothing, for a colour that has a slot or finds the palette
\* full; or the slot at the watermark takes the colour.
LEMMA MergeCases ==
    ASSUME PaletteInv, NEW c \in Colors, MergeColor(c)
    PROVE  \/ /\ UNCHANGED <<palette, paletteUsed>>
              /\ ColorIndex(c) \in 1..(paletteUsed - 1)
              /\ Serves(palette, ColorIndex(c), c)
           \/ /\ \A k \in 1..(paletteUsed - 1) : palette[k] # c
              /\ paletteUsed < PaletteSize
              /\ ColorIndex(c) = paletteUsed
              /\ paletteUsed' = paletteUsed + 1
              /\ palette'[paletteUsed] = c
              /\ \A k \in 1..(paletteUsed - 1) : palette'[k] = palette[k]
  <1> DEFINE same == {k \in 1..(paletteUsed - 1) : palette[k] = c}
  <1>0. paletteUsed \in 1..PaletteSize /\ PaletteSize \in Nat /\ palette \in Palettes
    BY WorldAssumption DEF PaletteInv
  <1>1. CASE same # {}
    <2>1. same \subseteq Nat
      BY <1>0
    <2>2. \E x \in same : \A y \in same : x <= y
      BY <1>1, <2>1, NatMin
    <2>3. Min(same) \in same
      BY <2>2 DEF Min
    <2>4. ColorIndex(c) \in same
      BY <1>1, <2>3 DEF ColorIndex
    <2>5. ColorIndex(c) # paletteUsed
      BY <1>0, <2>4
    <2>6. UNCHANGED <<palette, paletteUsed>>
      BY <2>5 DEF MergeColor
    <2>7. Serves(palette, ColorIndex(c), c)
      BY <2>4, Zenon DEF Serves
    <2> QED
      BY <2>4, <2>6, <2>7
  <1>2. CASE same = {} /\ paletteUsed < PaletteSize
    <2>2. ColorIndex(c) = paletteUsed
      BY <1>2 DEF ColorIndex
    <2>3. palette' = [palette EXCEPT ![paletteUsed] = c] /\ paletteUsed' = paletteUsed + 1
      BY <2>2 DEF MergeColor
    <2>4. paletteUsed \in Materials
      BY <1>0, <1>2 DEF Materials
    <2>5. palette'[paletteUsed] = c
          /\ \A k \in 1..(paletteUsed - 1) : palette'[k] = palette[k]
      BY <1>0, <1>2, <2>3, <2>4 DEF Palettes, Materials
    <2> QED
      BY <1>2, <2>2, <2>3, <2>5
  <1>3. CASE same = {} /\ paletteUsed = PaletteSize
    <2>1. ColorIndex(c) = Nearest(c)
      BY <1>0, <1>3 DEF ColorIndex
    <2>2. Solid = 1..(PaletteSize - 1)
      BY <1>0 DEF Solid, Materials, Air
    <2>3. /\ ColorIndex(c) \in Solid
          /\ \A j \in Solid : Distance[palette[ColorIndex(c)]][c] <= Distance[palette[j]][c]
      BY <2>1, NearestType
    <2>4. \A j \in Solid : palette[j] # c
      BY <1>3, <2>2
    <2>5. ColorIndex(c) # paletteUsed /\ ColorIndex(c) \in 1..(paletteUsed - 1)
      BY <1>0, <1>3, <2>2, <2>3
    <2>6. UNCHANGED <<palette, paletteUsed>>
      BY <2>5 DEF MergeColor
    <2>7. Serves(palette, ColorIndex(c), c)
      BY <1>3, <2>3, <2>4, Zenon DEF Serves
    <2> QED
      BY <2>5, <2>6, <2>7
  <1> QED
    BY <1>0, <1>1, <1>2, <1>3

\* While the palette is not full, a slot serves the colour it has and no other.
LEMMA ServesExactly ==
    ASSUME PaletteInv, paletteUsed < PaletteSize, NEW k, NEW c, Serves(palette, k, c)
    PROVE  palette[k] = c
  BY WorldAssumption DEF Serves, PaletteInv

\* Merging gives the colour the slot that serves it, and every other slot serves what it did.
LEMMA MergeServes ==
    ASSUME PaletteInv, NEW c \in Colors, MergeColor(c)
    PROVE  /\ PaletteInv'
           /\ ColorIndex(c) \in 1..(paletteUsed' - 1)
           /\ \A i : i = ColorIndex(c) => Serves(palette, i, c)'
           /\ \A k \in 1..(paletteUsed - 1) :
                 /\ k \in 1..(paletteUsed' - 1)
                 /\ \A d : Serves(palette, k, d) => Serves(palette, k, d)'
  <1>0. paletteUsed \in Nat \ {0} /\ PaletteInv'
    BY WorldAssumption, MergeKeeps DEF PaletteInv
  <1>1. CASE UNCHANGED <<palette, paletteUsed>>
    <2>1. ColorIndex(c) \in 1..(paletteUsed - 1) /\ Serves(palette, ColorIndex(c), c)
      BY <1>0, <1>1, MergeCases
    <2> QED
      BY <1>0, <1>1, <2>1 DEF Serves
  <1>2. CASE /\ paletteUsed < PaletteSize
             /\ ColorIndex(c) = paletteUsed
             /\ paletteUsed' = paletteUsed + 1
             /\ palette'[paletteUsed] = c
             /\ \A k \in 1..(paletteUsed - 1) : palette'[k] = palette[k]
    <2>1. ASSUME NEW i, i = ColorIndex(c) PROVE Serves(palette, i, c)'
      BY <1>2, <2>1, Zenon DEF Serves
    <2>2. ASSUME NEW k \in 1..(paletteUsed - 1), NEW d, Serves(palette, k, d)
          PROVE  Serves(palette, k, d)'
      <3>1. palette[k] = d
        BY <1>2, <2>2, ServesExactly
      <3>2. palette'[k] = d
        BY <1>2, <3>1
      <3> QED
        BY <3>2, Zenon DEF Serves
    <2>3. paletteUsed \in 1..(paletteUsed' - 1)
          /\ \A k \in 1..(paletteUsed - 1) : k \in 1..(paletteUsed' - 1)
      BY <1>0, <1>2
    <2>4. ColorIndex(c) \in 1..(paletteUsed' - 1)
      BY <1>2, <2>3, Zenon
    <2> QED
      BY <1>0, <2>1, <2>2, <2>3, <2>4, Zenon
  <1> QED
    BY <1>1, <1>2, MergeCases

\* A colour of the demo is merged into a slot of its own.
LEMMA MergeDemo ==
    ASSUME PaletteInv, DemoSlots, NEW c \in Colors, c \in DemoColors, MergeColor(c)
    PROVE  DemoSlots'
  <1>0. paletteUsed \in Nat \ {0} /\ paletteUsed # PaletteSize
    BY WorldAssumption, SlotLeft DEF PaletteInv
  <1>1. CASE UNCHANGED <<palette, paletteUsed>>
    BY <1>1 DEF DemoSlots
  <1>2. CASE /\ \A k \in 1..(paletteUsed - 1) : palette[k] # c
             /\ paletteUsed' = paletteUsed + 1
             /\ palette'[paletteUsed] = c
             /\ \A k \in 1..(paletteUsed - 1) : palette'[k] = palette[k]
    <2>1. \A k \in 1..(paletteUsed' - 1) : k \in 1..(paletteUsed - 1) \/ k = paletteUsed
      BY <1>0, <1>2
    <2>2. \A k \in 1..(paletteUsed - 1) : palette'[k] # c
      BY <1>2
    <2> QED
      BY <1>2, <2>1, <2>2 DEF DemoSlots
  <1> QED
    BY <1>1, <1>2, MergeCases

LEMMA PlainInit == SceneInit => PlainIInv
  <1> SUFFICES ASSUME SceneInit PROVE SceneInv
    BY DEF PlainIInv
  <1>1. DOMAIN chunks = {} /\ palette = [k \in Materials |-> NoColor] /\ paletteUsed = 1
        /\ ~Stamping /\ phase = "boot" /\ painted = [p \in World |-> NoColor]
    BY DEF SceneInit, Init, NoChunks, Materials, NoStamp, Stamping
  <1>2. ChunksInv
    BY <1>1, FS_EmptySet DEF IsMap, NoEmptyChunks, ChunksInv
  <1>3. PaletteInv /\ UsedInv
    BY <1>1, WorldAssumption DEF PaletteInv, Palettes, UsedInv
  <1>4. PaintedInv
    BY <1>1 DEF PaintedInv, GetVoxel
  <1>5. DemoInv
    BY <1>1 DEF DemoInv, DemoSlots
  <1> QED
    BY <1>1, <1>2, <1>3, <1>4, <1>5 DEF SceneInv, StampInv, PushedInv

\* One voxel of a stamp: the cell takes the slot that serves its colour.
LEMMA PlainStamp ==
    ASSUME SceneInv, NEW p \in stamp.todo, StampPainted(p)
    PROVE  ChunksInv' /\ PaletteInv' /\ PaintedInv'
  <1>a. PICK c : c = stamp.model.palette[stamp.model.voxels[p]]
    OBVIOUS
  <1> DEFINE t == Target(p)
             w == [q \in {t} |-> ColorIndex(c)]
  <1>0. /\ ChunksInv /\ PaletteInv /\ StampInv /\ PaintedInv
        /\ c \in Colors
    BY <1>a, ModelColor DEF SceneInv
  <1>1. Target(p) = t /\ ColorOf(stamp.model, p) = c
    BY <1>a DEF Target, ColorOf
  <1>2. CASE t \in World
    <2>1. /\ MergeColor(c)
          /\ chunks' = Written(chunks, w)
          /\ painted' = [painted EXCEPT ![t] = c]
      BY <1>a, <1>1, <1>2 DEF StampPainted, StampVoxel
    <2>2. PICK i : i = ColorIndex(c)
      OBVIOUS
    <2> DEFINE Kept(k) == \A d : Serves(palette, k, d) => Serves(palette, k, d)'
    <2>3. /\ PaletteInv'
          /\ i \in 1..(paletteUsed' - 1)
          /\ Serves(palette, i, c)'
          /\ \A k \in 1..(paletteUsed - 1) : k \in 1..(paletteUsed' - 1) /\ Kept(k)
      BY <1>0, <2>1, <2>2, MergeServes
    <2>4. i \in Materials /\ t \in Coordinates
      BY <1>0, <1>2, <2>2, ColorIndexType, MaterialsFacts, WorldAssumption
         DEF Coordinates
    <2>5. IsWrites(w) /\ IsMap(chunks)
      BY <1>0, <2>2, <2>4 DEF IsWrites, ChunksInv
    <2>6. ChunksInv'
      BY <1>0, <2>1, <2>5, FewWrites, WritesKeep DEF WritesSome
    <2>7. \A q \in World : GetVoxel(chunks', q) = IF q = t THEN i ELSE GetVoxel(chunks, q)
      <3>1. World \subseteq Coordinates
        BY WorldAssumption DEF Coordinates
      <3>2. \A q \in World :
               GetVoxel(Written(chunks, w), q) = IF q \in DOMAIN w THEN w[q] ELSE GetVoxel(chunks, q)
        BY <2>5, <3>1, ReadBack
      <3>3. DOMAIN w = {t} /\ w[t] = i
        BY <2>2
      <3> HIDE DEF w, t
      <3> QED
        BY <2>1, <3>2, <3>3
    <2>8. PaintedInv'
      <3> HIDE DEF t, w
      <3>1. DOMAIN painted' = World
        BY <1>0, <2>1 DEF PaintedInv
      <3>2. ASSUME NEW q \in World, NEW m, m = GetVoxel(chunks', q), m # Air,
                   NEW d, d = painted'[q]
            PROVE  m \in 1..(paletteUsed' - 1) /\ Serves(palette, m, d)'
        <4>1. CASE q = t
          <5>1. m = i /\ d = c
            BY <1>0, <1>2, <2>1, <2>7, <3>2, <4>1 DEF PaintedInv
          <5> QED
            BY <2>3, <5>1, Zenon
        <4>2. CASE q # t
          <5>1. m = GetVoxel(chunks, q) /\ d = painted[q]
            BY <1>0, <2>1, <2>7, <3>2, <4>2 DEF PaintedInv
          <5>2. m \in 1..(paletteUsed - 1) /\ Serves(palette, m, d)
            BY <1>0, <3>2, <5>1, Zenon DEF PaintedInv
          <5> QED
            BY <2>3, <5>2, Zenon
        <4> QED
          BY <4>1, <4>2
      <3> QED
        BY <3>1, <3>2, Zenon DEF PaintedInv
    <2> QED
      BY <2>3, <2>6, <2>8
  <1>3. CASE t \notin World
    <2>1. UNCHANGED <<chunks, palette, paletteUsed, painted>>
      BY <1>1, <1>3 DEF StampPainted, StampVoxel
    <2> QED
      BY <1>0, <2>1 DEF ChunksInv, IsMap, NoEmptyChunks, PaletteInv, PaintedInv, Serves
  <1> QED
    BY <1>2, <1>3

\* While the demo is stamped, its colours go into slots of their own.
LEMMA DemoStamp ==
    ASSUME SceneInv, NEW p \in stamp.todo, StampPainted(p)
    PROVE  DemoInv'
  <1>0. /\ PaletteInv /\ StampInv /\ DemoInv /\ Stamping /\ UNCHANGED phase
        /\ stamp'.todo # {} => stamp'.model = stamp.model
    <2>1. stamp' = IF stamp.todo = {p} THEN NoStamp ELSE [stamp EXCEPT !.todo = @ \ {p}]
      BY DEF StampPainted, StampVoxel
    <2>2. stamp.todo # {p} => stamp'.model = stamp.model
      BY <2>1
    <2>3. stamp.todo = {p} => stamp'.todo = {}
      BY <2>1 DEF NoStamp
    <2> QED
      BY <2>2, <2>3 DEF SceneInv, StampPainted, Stamping
  <1> SUFFICES ASSUME phase \in {"boot", "demo", "pin"}
               PROVE  DemoSlots' /\ (Stamping' => stamp'.model = Demo)
    BY <1>0 DEF DemoInv
  <1>1. DemoSlots /\ stamp.model = Demo
    BY <1>0 DEF DemoInv
  <1> DEFINE c == stamp.model.palette[stamp.model.voxels[p]]
  <1>2. c \in Colors /\ c \in DemoColors
    <2>1. p \in DOMAIN Demo.voxels /\ c = ColorOf(Demo, p)
      BY <1>0, <1>1 DEF StampInv, ColorOf
    <2> QED
      BY <1>0, <2>1, ModelColor DEF DemoColors
  <1>3. MergeColor(c) \/ UNCHANGED <<palette, paletteUsed>>
    BY DEF StampPainted, StampVoxel
  <1>4. DemoSlots'
    <2>1. CASE MergeColor(c)
      <3> HIDE DEF c
      <3> QED
        BY <1>0, <1>1, <1>2, <2>1, MergeDemo
    <2>2. CASE UNCHANGED <<palette, paletteUsed>>
      BY <1>1, <2>2 DEF DemoSlots
    <2> QED
      BY <1>3, <2>1, <2>2
  <1> QED
    BY <1>0, <1>1, <1>4 DEF Stamping

\* The debris colour goes into a slot that no voxel refers to: the last one, which is still
\* past the watermark.
LEMMA PlainPin ==
    ASSUME SceneInv, PinDebris
    PROVE  SceneInv'
  <1>0. /\ ChunksInv /\ PaletteInv /\ UsedInv /\ DemoInv /\ StampInv /\ PaintedInv /\ PushedInv
        /\ phase = "pin" /\ phase' = "loop" /\ UNCHANGED painted
        /\ ~Stamping /\ shown = palette /\ DemoSlots
    BY DEF SceneInv, PinDebris, PushedInv, DemoInv
  <1>1. CASE ~setup.physX
    <2>1. UNCHANGED <<chunks, palette, paletteUsed, stamp, shown>>
      BY <1>1 DEF PinDebris, worldVars, vars
    <2> QED
      BY <1>0, <2>1 DEF SceneInv, ChunksInv, IsMap, NoEmptyChunks, PaletteInv, UsedInv, DemoInv,
         StampInv, PaintedInv, Serves, PushedInv, Stamping
  <1>2. CASE setup.physX
    <2> DEFINE last == PaletteSize - 1
    <2>1. /\ paletteUsed \in Nat \ {0} /\ PaletteSize \in Nat \ {0, 1}
          /\ paletteUsed < PaletteSize /\ palette \in Palettes
      BY <1>0, WorldAssumption, SlotLeft DEF PaletteInv
    <2>2. last \in Solid /\ \A j \in Solid : j \in Nat /\ j <= last
      BY <2>1 DEF Solid, Materials, Air
    <2>3. last \in FreeSlots
      BY <1>0, <2>1, <2>2 DEF FreeSlots, UsedInv, Solid
    <2>4. DebrisSlot = last
      <3> DEFINE P(k) == k \in FreeSlots /\ \A j \in FreeSlots : j <= k
      <3>1. P(last)
        BY <2>2, <2>3 DEF FreeSlots
      <3>2. \A k : P(k) => k = last
        <4> SUFFICES ASSUME NEW k, P(k) PROVE k = last
          OBVIOUS
        <4>1. k \in Solid /\ last <= k
          BY <2>3 DEF FreeSlots
        <4> QED
          BY <2>1, <2>2, <4>1
      <3>3. DebrisSlot = CHOOSE k \in FreeSlots : \A j \in FreeSlots : j <= k
        BY <2>3 DEF DebrisSlot
      <3> HIDE DEF last
      <3>4. DebrisSlot \in FreeSlots /\ \A j \in FreeSlots : j <= DebrisSlot
        BY <3>1, <3>3, Zenon
      <3> QED
        BY <3>2, <3>4
    <2>5. /\ palette' = [palette EXCEPT ![last] = DebrisColor]
          /\ shown' = [shown EXCEPT ![last] = DebrisColor]
          /\ paletteUsed' = IF last >= paletteUsed THEN last + 1 ELSE paletteUsed
          /\ UNCHANGED <<chunks, stamp>>
      BY <1>2, <2>4 DEF PinDebris, SetPaletteColor
    <2>6. paletteUsed' = PaletteSize
      BY <2>1, <2>5
    <2>7. /\ DebrisColor \in Colors /\ last \in Materials
          /\ \A k \in Materials : k < PaletteSize
      BY <2>1, <2>2, SceneAssumption DEF Solid, Materials
    <2>8. PaletteInv' /\ UsedInv'
      BY <2>1, <2>5, <2>6, <2>7 DEF PaletteInv, UsedInv, Palettes
    <2>9. \A k \in 1..(paletteUsed - 1) : k \in 1..(paletteUsed' - 1) /\ palette'[k] = palette[k]
      BY <2>1, <2>5, <2>6 DEF Palettes, Materials
    <2>10. PaintedInv'
      <3>1. DOMAIN painted' = World
        BY <1>0 DEF PaintedInv
      <3>2. ASSUME NEW q \in World, NEW m, m = GetVoxel(chunks', q), m # Air,
                   NEW d, d = painted'[q]
            PROVE  m \in 1..(paletteUsed' - 1) /\ Serves(palette, m, d)'
        <4>1. m = GetVoxel(chunks, q) /\ d = painted[q]
          BY <1>0, <2>5, <3>2, Zenon
        <4>2. m \in 1..(paletteUsed - 1) /\ Serves(palette, m, d)
          BY <1>0, <3>2, <4>1, Zenon DEF PaintedInv
        <4>3. palette[m] = d
          BY <1>0, <2>1, <4>2, ServesExactly
        <4>4. palette'[m] = d /\ m \in 1..(paletteUsed' - 1)
          BY <2>9, <4>2, <4>3
        <4> QED
          BY <4>4, Zenon DEF Serves
      <3> QED
        BY <3>1, <3>2, Zenon DEF PaintedInv
    <2> QED
      BY <1>0, <2>5, <2>8, <2>10
         DEF SceneInv, ChunksInv, IsMap, NoEmptyChunks, DemoInv, StampInv, PushedInv, Stamping
  <1> QED
    BY <1>1, <1>2

\* Carving only takes voxels away.
LEMMA PlainCarve ==
    ASSUME SceneInv, NEW c, NEW r, VoxelBreak(c, r)
    PROVE  SceneInv'
  <1> DEFINE S == {q \in Sphere(c, r) : GetVoxel(chunks, q) # Air}
             w == [p \in S |-> Air]
  <1>0. /\ ChunksInv /\ PaletteInv /\ UsedInv /\ DemoInv /\ StampInv /\ PaintedInv /\ PushedInv
        /\ UNCHANGED <<palette, paletteUsed, stamp, shown, phase, painted>>
    BY DEF SceneInv, VoxelBreak, CarveSphere
  <1>1. S \subseteq Coordinates /\ World \subseteq Coordinates
    BY WorldAssumption DEF Sphere, Coordinates
  <1>2. IsWrites(w)
    BY <1>1, MaterialsFacts DEF IsWrites
  <1>3. chunks' = Written(chunks, w)
    BY DEF VoxelBreak, CarveSphere
  <1>4. ChunksInv'
    BY <1>0, <1>2, <1>3, FewWrites, WritesKeep DEF WritesSome
  <1>5. \A q \in World : GetVoxel(chunks', q) = IF q \in S THEN Air ELSE GetVoxel(chunks, q)
    <2>1. \A q \in World :
             GetVoxel(Written(chunks, w), q) = IF q \in DOMAIN w THEN w[q] ELSE GetVoxel(chunks, q)
      BY <1>0, <1>1, <1>2, ReadBack DEF ChunksInv
    <2>2. DOMAIN w = S /\ \A q \in S : w[q] = Air
      OBVIOUS
    <2> HIDE DEF S, w
    <2> QED
      BY <1>3, <2>1, <2>2
  <1>6. PaintedInv'
    <2> HIDE DEF S
    <2> QED
      BY <1>0, <1>5 DEF PaintedInv, Serves
  <1>7. PaletteInv' /\ UsedInv' /\ DemoInv' /\ StampInv' /\ PushedInv'
    BY <1>0 DEF PaletteInv, UsedInv, DemoInv, DemoSlots, StampInv, PushedInv, Stamping
  <1> QED
    BY <1>4, <1>6, <1>7 DEF SceneInv

LEMMA PlainStep == PlainIInv /\ [SceneNext]_sceneVars => PlainIInv'
  <1> SUFFICES ASSUME PlainIInv, [SceneNext]_sceneVars, (setup.import = NoModel)' PROVE SceneInv'
    BY DEF PlainIInv
  <1>0. UNCHANGED setup
    BY DEF SceneNext, sceneVars
  <1>1. /\ setup.import = NoModel
        /\ ChunksInv /\ PaletteInv /\ UsedInv /\ DemoInv /\ StampInv /\ PaintedInv /\ PushedInv
        /\ SceneInv
    BY <1>0 DEF PlainIInv, SceneInv
  <1>2. ASSUME UNCHANGED <<chunks, palette, paletteUsed, painted>>
        PROVE  ChunksInv' /\ PaletteInv' /\ UsedInv' /\ PaintedInv' /\ (DemoSlots => DemoSlots')
    BY <1>1, <1>2 DEF ChunksInv, IsMap, NoEmptyChunks, PaletteInv, UsedInv, PaintedInv, Serves,
       DemoSlots
  <1>3. CASE UNCHANGED sceneVars
    BY <1>1, <1>2, <1>3
       DEF sceneVars, worldVars, vars, SceneInv, StampInv, DemoInv, PushedInv, Stamping
  <1>4. CASE Import
    BY <1>1, <1>4 DEF Import
  <1>5. ASSUME NEW model \in Models, NEW off, StampVox(model, off),
               phase' = "push" \/ (phase = "boot" /\ phase' = "demo" /\ model = Demo),
               UNCHANGED <<shown, painted>>
        PROVE  SceneInv'
    <2>1. /\ UNCHANGED <<chunks, palette, paletteUsed>>
          /\ stamp'.model = model /\ stamp'.todo = DOMAIN model.voxels
      BY <1>5 DEF StampVox
    <2>2. StampInv' /\ PushedInv'
      BY <1>5, <2>1 DEF StampInv, PushedInv
    <2>3. DemoInv'
      BY <1>1, <1>2, <1>5, <2>1 DEF DemoInv
    <2> QED
      BY <1>2, <1>5, <2>1, <2>2, <2>3 DEF SceneInv
  <1>6. CASE StartDemo
    <2>1. Demo \in Models
      BY SceneAssumption
    <2> QED
      BY <1>5, <1>6, <2>1 DEF StartDemo
  <1>7. ASSUME NEW next, Push(next), next = "loop" \/ (phase = "demo" /\ next = "pin")
        PROVE  SceneInv'
    <2>1. /\ ~Stamping /\ shown' = palette
          /\ UNCHANGED <<chunks, palette, paletteUsed, stamp, painted>>
          /\ phase' = next
      BY <1>7 DEF Push, worldVars, vars, Stamping
    <2>2. StampInv' /\ PushedInv'
      BY <1>1, <2>1 DEF StampInv, PushedInv, Stamping
    <2>3. DemoInv'
      BY <1>1, <1>2, <1>7, <2>1 DEF DemoInv, Stamping
    <2> QED
      BY <1>2, <2>1, <2>2, <2>3 DEF SceneInv
  <1>8. CASE DemoStamped
    BY <1>7, <1>8 DEF DemoStamped
  <1>9. CASE PinDebris
    BY <1>1, <1>9, PlainPin
  <1>10. ASSUME NEW model \in Models, NEW off \in Offsets, VoxelPlace(model, off)
         PROVE  SceneInv'
    BY <1>5, <1>10 DEF VoxelPlace
  <1>11. ASSUME NEW p \in stamp.todo, StampPainted(p)
         PROVE  SceneInv'
    <2>1. ChunksInv' /\ PaletteInv' /\ UsedInv' /\ DemoInv' /\ PaintedInv'
      BY <1>1, <1>11, PlainStamp, DemoStamp, StampUsed DEF StampPainted
    <2>2. Stamping /\ UNCHANGED <<phase, shown>>
      BY <1>11 DEF StampPainted, Stamping
    <2>3. PushedInv'
      BY <1>1, <2>2 DEF PushedInv
    <2>4. StampInv'
      <3>1. CASE stamp.todo = {p}
        BY <1>11, <3>1 DEF StampPainted, StampVoxel, NoStamp, StampInv, Stamping
      <3>2. CASE stamp.todo # {p}
        BY <1>1, <1>11, <2>2, <3>2 DEF StampPainted, StampVoxel, StampInv, Stamping
      <3> QED
        BY <3>1, <3>2
    <2> QED
      BY <2>1, <2>3, <2>4 DEF SceneInv
  <1>12. CASE Placed
    BY <1>7, <1>12 DEF Placed
  <1>13. CASE \E c \in World, r \in Radii : VoxelBreak(c, r)
    BY <1>1, <1>13, PlainCarve
  <1>14. CASE VoxelClear
    <2>1. /\ DOMAIN chunks' = {} /\ palette' = [k \in Materials |-> NoColor] /\ paletteUsed' = 1
          /\ ~Stamping /\ shown' = palette' /\ UNCHANGED <<stamp, phase, painted>>
      BY <1>14 DEF VoxelClear, Clear, NoChunks, Materials, Stamping
    <2>2. ChunksInv'
      BY <2>1, FS_EmptySet DEF IsMap, NoEmptyChunks, ChunksInv
    <2>3. PaletteInv' /\ UsedInv' /\ DemoInv'
      BY <1>14, <2>1, WorldAssumption, ClearUsed
         DEF PaletteInv, Palettes, DemoInv, VoxelClear
    <2>4. PaintedInv'
      BY <1>1, <2>1 DEF PaintedInv, GetVoxel
    <2>5. StampInv' /\ PushedInv'
      BY <1>1, <2>1 DEF StampInv, PushedInv, Stamping
    <2> QED
      BY <2>2, <2>3, <2>4, <2>5 DEF SceneInv
  <1> QED
    BY <1>3, <1>4, <1>6, <1>8, <1>9, <1>10, <1>11, <1>12, <1>13, <1>14 DEF SceneNext, Step

\* "Palette full: pick the nearest existing colour": in both builds, from the demo scene, for
\* any models, stamps, carvings and clears, every voxel is shown in the colour of the model that
\* brought it, or, where the full palette lacks that colour, in the nearest it has.
THEOREM ColorsCorrect == SceneSpec => []NearestShown
  <1>1. PlainIInv => NearestShown
    BY DEF PlainIInv, SceneInv, PaintedInv, PushedInv, NearestShown
  <1> QED
    BY <1>1, PlainInit, PlainStep, PTL DEF SceneSpec

-----------------------------------------------------------------------------
(* The import of a .vox file: the words of a file and what its chunks say. *)

\* Induction, from the least number that is left out.
LEMMA NatInductionOn ==
    ASSUME NEW S \in SUBSET Nat, 0 \in S, \A n \in S : n + 1 \in S
    PROVE  S = Nat
  <1> SUFFICES ASSUME Nat \ S # {} PROVE FALSE
    OBVIOUS
  <1> DEFINE T == Nat \ S
             R == {ss \in Nat \X Nat : ss[1] < ss[2]}
  <1>1. T \subseteq Nat /\ T # {}
    OBVIOUS
  <1>2. IsWellFoundedOn(R, Nat)
    BY NatLessThanWellFounded DEF OpToRel
  <1> HIDE DEF R, T
  <1>3. PICK m \in T : \A y \in T : <<y, m>> \notin R
    BY <1>1, <1>2, WFMin
  <1>4. m \in Nat /\ m \notin S /\ m # 0
    BY <1>3 DEF T
  <1>5. m - 1 \in Nat /\ m - 1 < m /\ (m - 1) + 1 = m
    BY <1>4
  <1>6. m - 1 \notin S
    BY <1>4, <1>5
  <1>7. <<m - 1, m>> \in R
    BY <1>4, <1>5 DEF R
  <1> QED BY <1>3, <1>5, <1>6, <1>7 DEF T

LEMMA Pairs ==
    ASSUME NEW a \in Int, NEW b \in Int
    PROVE  /\ Min({a, b}) = IF a <= b THEN a ELSE b
           /\ Max({a, b}) = IF a <= b THEN b ELSE a
  BY DEF Min, Max

LEMMA TopMax ==
    ASSUME NEW k \in Nat, NEW T \in SUBSET Nat, \A i \in T : i < k
    PROVE  Max(T \cup {k}) = k
  <1>1. \A x, y \in T \cup {k} : (\A i \in T \cup {k} : x >= i) /\ (\A i \in T \cup {k} : y >= i) => x = y
    OBVIOUS
  <1>2. k \in T \cup {k} /\ \A i \in T \cup {k} : k >= i
    OBVIOUS
  <1> QED BY <1>1, <1>2, Zenon DEF Max

\* Where the elements of two sequences stand in one.
Joins(S, s, t, u) ==
    /\ u \in Seq(S) /\ Len(u) = Len(s) + Len(t)
    /\ \A i \in 1..Len(s) : u[i] = s[i]
    /\ \A i \in 1..Len(t) : u[Len(s) + i] = t[i]

LEMMA Joined == \A S : \A s, t \in Seq(S) : Joins(S, s, t, s \o t)
  BY DEF Joins

\* Each prefix is the one before it and the next chunk.
LEMMA PrefixStep ==
    ASSUME NEW cs, Len(cs) \in Nat
    PROVE  /\ Prefixes(cs)[0] = <<>>
           /\ \A k \in 1..Len(cs) : Prefixes(cs)[k] = Prefixes(cs)[k - 1] \o ChunkWords(cs[k])
  <1> DEFINE F(f, m) == [k \in 0..m |-> IF k = 0 THEN <<>> ELSE f[k - 1] \o ChunkWords(cs[k])]
             S == {m \in Nat : \E f : f = F(f, m)}
  <1>1. 0 \in S
    <2> DEFINE f == [k \in 0..0 |-> <<>>]
    <2>1. f = F(f, 0)
      OBVIOUS
    <2> QED BY <2>1
  <1>2. ASSUME NEW m \in S PROVE m + 1 \in S
    <2>0. m \in Nat /\ m + 1 \in Nat
      OBVIOUS
    <2>1. PICK f : f = F(f, m)
      BY <1>2
    <2> DEFINE g == [k \in 0..(m + 1) |-> IF k <= m THEN f[k] ELSE f[m] \o ChunkWords(cs[m + 1])]
    <2>2. ASSUME NEW k \in 0..(m + 1)
          PROVE  g[k] = IF k = 0 THEN <<>> ELSE g[k - 1] \o ChunkWords(cs[k])
      <3>1. CASE k <= m
        <4>1. k \in 0..m /\ g[k] = f[k]
          BY <2>0, <3>1
        <4>2. f[k] = IF k = 0 THEN <<>> ELSE f[k - 1] \o ChunkWords(cs[k])
          BY <2>1, <4>1
        <4>3. k # 0 => g[k - 1] = f[k - 1]
          BY <2>0, <4>1
        <4> QED BY <4>1, <4>2, <4>3
      <3>2. CASE ~(k <= m)
        <4>1. k = m + 1 /\ k - 1 = m /\ k # 0 /\ m <= m /\ m \in 0..(m + 1)
          BY <2>0, <3>2
        <4>2. g[k] = f[m] \o ChunkWords(cs[m + 1]) /\ g[m] = f[m]
          BY <3>2, <4>1
        <4> QED BY <4>1, <4>2
      <3> QED BY <3>1, <3>2
    <2>3. g = F(g, m + 1)
      BY <2>2
    <2> HIDE DEF g
    <2> QED BY <2>0, <2>3
  <1>3. Len(cs) \in S
    <2>1. S \in SUBSET Nat
      OBVIOUS
    <2> HIDE DEF S
    <2> QED BY <1>1, <1>2, <2>1, NatInductionOn
  <1> DEFINE a == CHOOSE f : f = F(f, Len(cs))
  <1>4. a = F(a, Len(cs))
    BY <1>3
  <1>5. Prefixes(cs) = a
    BY Zenon DEF Prefixes
  <1>6. a[0] = <<>> /\ \A k \in 1..Len(cs) : a[k] = a[k - 1] \o ChunkWords(cs[k])
    <2> HIDE DEF a
    <2>1. \A k \in 0..Len(cs) : a[k] = IF k = 0 THEN <<>> ELSE a[k - 1] \o ChunkWords(cs[k])
      BY <1>4
    <2> HIDE DEF F
    <2>2. 0 \in 0..Len(cs) /\ \A k \in 1..Len(cs) : k \in 0..Len(cs) /\ k # 0
      OBVIOUS
    <2> QED BY Zenon, <2>1, <2>2
  <1> QED BY <1>5, <1>6

\* The words that chunks are made of.
ChunkWord ==
    {c.body[i] : c \in Chunks, i \in Nat}
        \cup {Word("tag", c.tag) : c \in Chunks} \cup {Num(Len(c.body)) : c \in Chunks} \cup {Num(0)}

LEMMA ChunkLaid ==
    ASSUME NEW c \in Chunks, ImportAssumption
    PROVE  /\ c.body \in Seq(ChunkWord) /\ Len(c.body) \in Nat
           /\ ChunkWords(c) \in Seq(ChunkWord)
           /\ Len(ChunkWords(c)) = 3 + Len(c.body)
           /\ ChunkWords(c)[1] = Word("tag", c.tag) /\ ChunkWords(c)[2] = Num(Len(c.body))
           /\ \A j \in 1..Len(c.body) : ChunkWords(c)[3 + j] = c.body[j]
  <1> DEFINE h == <<Word("tag", c.tag), Num(Len(c.body)), Num(0)>>
  <1>1. Len(c.body) \in Nat /\ c.body = [i \in 1..Len(c.body) |-> c.body[i]]
    BY DEF ImportAssumption
  <1>2. \A i \in 1..Len(c.body) : c.body[i] \in ChunkWord
    <2> TAKE i \in 1..Len(c.body)
    <2>1. i \in Nat
      BY <1>1
    <2> QED BY <2>1 DEF ChunkWord
  <1>3. c.body \in Seq(ChunkWord)
    <2>1. [i \in 1..Len(c.body) |-> c.body[i]] \in [1..Len(c.body) -> ChunkWord]
      BY <1>2
    <2>2. c.body \in [1..Len(c.body) -> ChunkWord]
      BY <1>1, <2>1
    <2> QED BY <1>1, <2>2, SeqDef
  <1>4. Word("tag", c.tag) \in ChunkWord /\ Num(Len(c.body)) \in ChunkWord /\ Num(0) \in ChunkWord
    BY DEF ChunkWord
  <1>5. h \in Seq(ChunkWord) /\ Len(h) = 3
    BY <1>4
  <1>6. h[1] = Word("tag", c.tag) /\ h[2] = Num(Len(c.body))
    OBVIOUS
  <1>7. ChunkWords(c) = h \o c.body
    BY DEF ChunkWords
  <1> HIDE DEF h
  <1>8. /\ h \o c.body \in Seq(ChunkWord) /\ Len(h \o c.body) = 3 + Len(c.body)
        /\ \A i \in 1..3 : (h \o c.body)[i] = h[i]
        /\ \A i \in 1..Len(c.body) : (h \o c.body)[3 + i] = c.body[i]
    <2>1. Joins(ChunkWord, h, c.body, h \o c.body)
      BY <1>3, <1>5, Joined, Zenon
    <2> QED BY <1>5, <2>1, Zenon DEF Joins
  <1>9. 1 \in 1..3 /\ 2 \in 1..3
    OBVIOUS
  <1> QED BY <1>1, <1>3, <1>6, <1>7, <1>8, <1>9, Zenon

\* Where the words of each chunk stand among those of the first m chunks.
Laid(cs, m) ==
    /\ Prefixes(cs)[m] \in Seq(ChunkWord)
    /\ \A k \in 1..m :
        /\ Len(Prefixes(cs)[k - 1]) \in Nat
        /\ Len(Prefixes(cs)[k - 1]) + 3 + Len(cs[k].body) <= Len(Prefixes(cs)[m])
        /\ \A j \in 1..(3 + Len(cs[k].body)) :
              Prefixes(cs)[m][Len(Prefixes(cs)[k - 1]) + j] = ChunkWords(cs[k])[j]

LEMMA AllLaid ==
    ASSUME NEW cs \in Seq(Chunks), ImportAssumption
    PROVE  \A m \in 0..Len(cs) : Laid(cs, m)
  <1>0. Len(cs) \in Nat /\ \A k \in 1..Len(cs) : cs[k] \in Chunks
    OBVIOUS
  <1> DEFINE S == {m \in Nat : m <= Len(cs) => Laid(cs, m)}
  <1>1. 0 \in S
    <2>1. Prefixes(cs)[0] = <<>>
      BY <1>0, PrefixStep
    <2>2. <<>> \in Seq(ChunkWord) /\ 1..0 = {}
      OBVIOUS
    <2>3. Laid(cs, 0)
      BY <2>1, <2>2, Zenon DEF Laid
    <2> QED BY <2>3
  <1>2. ASSUME NEW m \in S PROVE m + 1 \in S
    <2>0. m \in Nat /\ m + 1 \in Nat
      OBVIOUS
    <2> SUFFICES ASSUME m + 1 <= Len(cs) PROVE Laid(cs, m + 1)
      BY <2>0
    <2> DEFINE p == Prefixes(cs)[m]
               q == Prefixes(cs)[m + 1]
               w == ChunkWords(cs[m + 1])
    <2>1. Laid(cs, m) /\ m + 1 \in 1..Len(cs) /\ cs[m + 1] \in Chunks
      BY <1>0, <2>0
    <2>2. q = p \o w
      <3>1. (m + 1) - 1 = m
        BY <2>0
      <3> QED BY <1>0, <2>1, <3>1, PrefixStep
    <2>3. w \in Seq(ChunkWord) /\ Len(w) = 3 + Len(cs[m + 1].body) /\ Len(cs[m + 1].body) \in Nat
      BY <2>1, ChunkLaid
    <2>4. p \in Seq(ChunkWord) /\ Len(p) \in Nat
      BY <2>1 DEF Laid
    <2>5. /\ q \in Seq(ChunkWord) /\ Len(q) = Len(p) + Len(w)
          /\ \A i \in 1..Len(p) : q[i] = p[i]
          /\ \A i \in 1..Len(w) : q[Len(p) + i] = w[i]
      <3>1. Len(w) \in Nat
        BY <2>3
      <3> HIDE DEF p, w, q
      <3>2. Joins(ChunkWord, p, w, p \o w)
        BY <2>3, <2>4, Joined, Zenon
      <3> QED BY <2>2, <3>2, Zenon DEF Joins
    <2>6. ASSUME NEW k \in 1..(m + 1)
          PROVE  /\ Len(Prefixes(cs)[k - 1]) \in Nat
                 /\ Len(Prefixes(cs)[k - 1]) + 3 + Len(cs[k].body) <= Len(q)
                 /\ \A j \in 1..(3 + Len(cs[k].body)) :
                      q[Len(Prefixes(cs)[k - 1]) + j] = ChunkWords(cs[k])[j]
      <3>1. CASE k = m + 1
        <4>1. k - 1 = m
          BY <2>0, <3>1
        <4>2. \A j \in 1..Len(w) : q[Len(p) + j] = w[j]
          <5> HIDE DEF p, q, w
          <5> QED BY <2>3, <2>4, <2>5
        <4>3. Len(p) + 3 + Len(cs[k].body) <= Len(q)
          <5> HIDE DEF p, q, w
          <5> DEFINE b == Len(cs[m + 1].body)
          <5>1. Len(cs[k].body) = b /\ Len(w) = 3 + b /\ b \in Nat
            BY <2>3, <3>1
          <5> HIDE DEF b
          <5> QED BY <2>4, <2>5, <5>1
        <4> QED BY <2>3, <2>4, <3>1, <4>1, <4>2, <4>3
      <3>2. CASE k # m + 1
        <4>1. k \in 1..m
          BY <2>0, <3>2
        <4> DEFINE x == Len(Prefixes(cs)[k - 1])
                   b == Len(cs[k].body)
        <4>2. x \in Nat /\ x + 3 + b <= Len(p) /\ \A j \in 1..(3 + b) : p[x + j] = ChunkWords(cs[k])[j]
          BY <2>1, <4>1 DEF Laid
        <4>3. cs[k] \in Chunks /\ b \in Nat
          BY <1>0, <2>0, <4>1, ChunkLaid
        <4> HIDE DEF x, b, p, q, w
        <4>4. x + 3 + b <= Len(q) /\ \A j \in 1..(3 + b) : q[x + j] = p[x + j]
          <5>1. Len(w) \in Nat
            BY <2>3
          <5>2. Len(q) >= Len(p)
            BY <2>4, <2>5, <5>1
          <5>3. ASSUME NEW j \in 1..(3 + b) PROVE q[x + j] = p[x + j]
            <6>1. x + j \in 1..Len(p)
              BY <2>4, <4>2, <4>3, <5>1
            <6> QED BY <2>5, <6>1
          <5> QED BY <2>4, <2>5, <4>2, <4>3, <5>1, <5>2, <5>3
        <4> QED BY <4>2, <4>4 DEF x, b, q
      <3> QED BY <3>1, <3>2
    <2> QED BY <2>5, <2>6 DEF Laid
  <1>3. S = Nat
    <2>1. S \in SUBSET Nat
      OBVIOUS
    <2> HIDE DEF S
    <2> QED BY <1>1, <1>2, <2>1, NatInductionOn
  <1> QED BY <1>0, <1>3

LEMMA PrefixLen ==
    ASSUME NEW cs \in Seq(Chunks), ImportAssumption, NEW k \in 1..Len(cs)
    PROVE  /\ Len(Prefixes(cs)[k - 1]) \in Nat /\ Len(cs[k].body) \in Nat
           /\ Len(Prefixes(cs)[k]) = Len(Prefixes(cs)[k - 1]) + 3 + Len(cs[k].body)
  <1> DEFINE p == Prefixes(cs)[k - 1]
             w == ChunkWords(cs[k])
  <1>1. k - 1 \in 0..Len(cs) /\ cs[k] \in Chunks /\ Len(cs) \in Nat
    OBVIOUS
  <1>2. p \in Seq(ChunkWord) /\ Len(p) \in Nat
    <2>1. p \in Seq(ChunkWord)
      BY <1>1, AllLaid DEF Laid
    <2> HIDE DEF p
    <2> QED BY <2>1
  <1>3. w \in Seq(ChunkWord) /\ Len(w) = 3 + Len(cs[k].body) /\ Len(cs[k].body) \in Nat
    BY <1>1, ChunkLaid
  <1>4. Prefixes(cs)[k] = p \o w
    BY <1>1, PrefixStep
  <1> HIDE DEF p, w
  <1>5. Joins(ChunkWord, p, w, p \o w)
    BY <1>2, <1>3, Joined, Zenon
  <1>6. Len(Prefixes(cs)[k]) = Len(p) + Len(w)
    BY <1>4, <1>5, Zenon DEF Joins
  <1>7. Len(Prefixes(cs)[k]) = Len(p) + 3 + Len(cs[k].body)
    <2> DEFINE x == Len(p)
               y == Len(w)
               b == Len(cs[k].body)
    <2>1. x \in Nat /\ y = 3 + b /\ b \in Nat
      BY <1>2, <1>3
    <2> HIDE DEF x, y, b
    <2>2. x + y = x + 3 + b
      BY <2>1
    <2> QED BY <1>6, <2>2, Zenon DEF x, y, b
  <1> QED BY <1>2, <1>3, <1>7, Zenon DEF p

\* What SubSeq leaves.
Sliced(S, s, a, b, u) ==
    /\ u \in Seq(S) /\ Len(u) = (IF a <= b THEN b - a + 1 ELSE 0)
    /\ \A i \in 1..(b - a + 1) : u[i] = s[a + i - 1]

LEMMA Slice ==
    \A S : \A s \in Seq(S) : \A a \in Nat \ {0}, b \in Int :
        b <= Len(s) => Sliced(S, s, a, b, SubSeq(s, a, b))
  BY DEF Sliced

-----------------------------------------------------------------------------
(* The words of the file that is read. *)

ChunkCount == Len(file.chunks)
St(k) == Start(file.chunks, k)
Whole(k) == file.chunks[k].body

FileOK == file.chunks \in Seq(Chunks) /\ file.cut \in 1..Length(file.chunks)

LEMMA Ends ==
    ASSUME FileOK, ImportAssumption
    PROVE  /\ ChunkCount \in Nat /\ file.cut \in Nat /\ St(1) = 5 /\ St(ChunkCount + 1) \in Nat
           /\ file.cut <= St(ChunkCount + 1)
           /\ \A k \in 1..ChunkCount :
                /\ file.chunks[k] \in Chunks
                /\ St(k) \in Nat /\ St(k) >= 5 /\ Len(Whole(k)) \in Nat
                /\ St(k + 1) = St(k) + 3 + Len(Whole(k))
  <1> DEFINE cs == file.chunks
  <1>1. cs \in Seq(Chunks) /\ ChunkCount \in Nat /\ ChunkCount = Len(cs)
    BY DEF FileOK, ChunkCount
  <1>2. \A k \in 1..ChunkCount : cs[k] \in Chunks
    BY <1>1
  <1>3. St(1) = 5
    <2>1. Prefixes(cs)[0] = <<>>
      BY <1>1, PrefixStep
    <2> QED BY <2>1 DEF St, Start, HeaderWords
  <1>4. ASSUME NEW k \in 1..ChunkCount
        PROVE  /\ St(k) \in Nat /\ St(k) >= 5 /\ Len(Whole(k)) \in Nat
               /\ St(k + 1) = St(k) + 3 + Len(Whole(k)) /\ St(k + 1) \in Nat
    <2> DEFINE x == Len(Prefixes(cs)[k - 1])
               y == Len(Prefixes(cs)[k])
               b == Len(cs[k].body)
    <2>1. x \in Nat /\ b \in Nat /\ y = x + 3 + b
      BY <1>1, PrefixLen
    <2>2. St(k) = 5 + x /\ b = Len(Whole(k))
      BY Zenon DEF St, Start, HeaderWords, Whole
    <2>3. St(k + 1) = 5 + y
      <3>1. (k + 1) - 1 = k
        BY <1>1
      <3> QED BY Zenon, <3>1 DEF St, Start, HeaderWords
    <2> HIDE DEF x, y, b
    <2> QED BY <2>1, <2>2, <2>3
  <1>5. St(ChunkCount + 1) \in Nat
    <2>1. CASE ChunkCount = 0
      BY <1>3, <2>1
    <2>2. CASE ChunkCount # 0
      <3>1. ChunkCount \in 1..ChunkCount
        BY <1>1, <2>2
      <3> QED BY <1>4, <3>1
    <2> QED BY <2>1, <2>2
  <1>6. Length(cs) = St(ChunkCount + 1)
    BY Zenon DEF Length, St, ChunkCount
  <1>7. file.cut \in 1..St(ChunkCount + 1)
    BY <1>6 DEF FileOK
  <1>8. file.cut \in Nat /\ file.cut <= St(ChunkCount + 1)
    BY <1>5, <1>7
  <1> QED BY <1>1, <1>2, <1>3, <1>4, <1>5, <1>8

LEMMA FileWords ==
    ASSUME FileOK, ImportAssumption
    PROVE  /\ Size = file.cut
           /\ \E S : Words \in Seq(S)
           /\ file.cut >= 3 => Words[1].val = file.head[1] /\ Words[3].val = file.head[2]
           /\ \A k \in 1..ChunkCount : \A j \in 1..(3 + Len(Whole(k))) :
                St(k) + j <= file.cut => Words[St(k) + j] = ChunkWords(file.chunks[k])[j]
  <1> DEFINE cs == file.chunks
             c == Prefixes(cs)[Len(cs)]
             h == <<Word("tag", file.head[1]), Num(150), Word("tag", file.head[2]), Num(0), Num(Len(c))>>
             S == ChunkWord \cup {h[i] : i \in 1..5}
  <1>1. cs \in Seq(Chunks) /\ ChunkCount \in Nat /\ ChunkCount = Len(cs) /\ ChunkCount \in 0..ChunkCount
    BY DEF FileOK, ChunkCount
  <1>2. Laid(cs, ChunkCount)
    BY <1>1, AllLaid
  <1>3. c \in Seq(S)
    <2>1. c \in Seq(ChunkWord)
      BY <1>1, <1>2 DEF Laid
    <2> HIDE DEF c
    <2> QED BY <2>1
  <1>4. h \in Seq(S) /\ Len(h) = 5
    <2>1. h \in Seq({h[i] : i \in 1..5}) /\ Len(h) = 5
      OBVIOUS
    <2> HIDE DEF h
    <2> QED BY <2>1
  <1>5. h[1].val = file.head[1] /\ h[3].val = file.head[2]
    BY DEF Word
  <1>6. Words = SubSeq(h \o c, 1, file.cut)
    BY DEF Words, Contents
  <1>7. Len(c) + 5 = St(ChunkCount + 1) /\ Len(c) \in Nat
    <2>1. (ChunkCount + 1) - 1 = ChunkCount
      BY <1>1
    <2>2. St(ChunkCount + 1) = 5 + Len(c)
      BY Zenon, <1>1, <2>1 DEF St, Start, HeaderWords, ChunkCount
    <2>3. Len(c) \in Nat
      <3> HIDE DEF c
      <3> QED BY <1>3
    <2> HIDE DEF c
    <2> QED BY <2>2, <2>3
  <1> HIDE DEF h, c, S
  <1> DEFINE full == h \o c
  <1>8. Joins(S, h, c, full)
    BY <1>3, <1>4, Joined, Zenon
  <1>9. /\ full \in Seq(S) /\ Len(full) = 5 + Len(c)
        /\ \A i \in 1..5 : full[i] = h[i]
        /\ \A i \in 1..Len(c) : full[5 + i] = c[i]
    BY <1>4, <1>8, Zenon DEF Joins
  <1> HIDE DEF full
  <1>10. file.cut \in Nat /\ file.cut <= Len(full) /\ 1 \in Nat \ {0} /\ file.cut \in Int /\ file.cut # 0
    <2>1. file.cut <= St(ChunkCount + 1) /\ file.cut \in Nat /\ file.cut # 0
      <3>1. file.cut \in 1..Length(file.chunks)
        BY DEF FileOK
      <3>2. file.cut # 0
        BY <3>1
      <3> QED BY Ends, <3>2
    <2> QED BY <1>7, <1>9, <2>1
  <1>11. Sliced(S, full, 1, file.cut, Words)
    BY <1>6, <1>9, <1>10, Slice, Zenon DEF full
  <1>12. Words \in Seq(S) /\ Len(Words) = file.cut /\ \A i \in 1..file.cut : Words[i] = full[i]
    BY <1>10, <1>11 DEF Sliced
  <1>13. ASSUME file.cut >= 3 PROVE Words[1].val = file.head[1] /\ Words[3].val = file.head[2]
    <2>1. Words[1] = h[1] /\ Words[3] = h[3]
      BY <1>9, <1>10, <1>12, <1>13
    <2> QED BY <1>5, <2>1
  <1>14. ASSUME NEW k \in 1..ChunkCount, NEW j \in 1..(3 + Len(Whole(k))), St(k) + j <= file.cut
         PROVE  Words[St(k) + j] = ChunkWords(file.chunks[k])[j]
    <2> DEFINE x == Len(Prefixes(cs)[k - 1])
               b == Len(cs[k].body)
    <2>1. x \in Nat /\ x + 3 + b <= Len(c) /\ \A i \in 1..(3 + b) : c[x + i] = ChunkWords(cs[k])[i]
      BY <1>1, <1>2 DEF Laid, c
    <2>2. St(k) = 5 + x /\ b = Len(Whole(k)) /\ b \in Nat
      <3>1. b \in Nat
        BY <1>1, PrefixLen
      <3> QED BY Zenon, <3>1 DEF St, Start, HeaderWords, Whole
    <2> HIDE DEF x, b
    <2>3. x + j \in 1..Len(c) /\ St(k) + j = 5 + (x + j) /\ St(k) + j \in 1..file.cut /\ j \in 1..(3 + b)
      BY <1>7, <1>10, <1>14, <2>1, <2>2
    <2>4. Words[St(k) + j] = full[5 + (x + j)]
      BY <1>12, <2>3
    <2>5. full[5 + (x + j)] = c[x + j]
      BY <1>9, <2>3
    <2> QED BY <2>1, <2>3, <2>4, <2>5
  <1> QED BY <1>12, <1>13, <1>14 DEF Size

\* The reader stands before chunk k, whose header is there.
HeadAt(k) == FileOK /\ k \in 1..ChunkCount /\ Present(k) >= 0 /\ pos = St(k)

LEMMA BodyOK ==
    ASSUME FileOK, ImportAssumption, NEW k \in 1..ChunkCount, Present(k) >= 0
    PROVE  /\ Present(k) \in Nat /\ Present(k) = file.cut - St(k) - 3
           /\ Len(Body(k)) = Min({Len(Whole(k)), Present(k)})
           /\ Len(Body(k)) \in Nat /\ Len(Body(k)) <= Len(Whole(k)) /\ Len(Body(k)) <= Present(k)
           /\ Len(Body(k)) < Len(Whole(k)) => Len(Body(k)) = Present(k)
           /\ Body(k) \in Seq(ChunkWord)
           /\ \A i \in 1..Len(Body(k)) : Body(k)[i] = Whole(k)[i]
  <1> DEFINE b == Whole(k)
             n == Min({Len(b), Present(k)})
  <1>1. b \in Seq(ChunkWord) /\ Len(b) \in Nat
    BY Ends, ChunkLaid DEF Whole
  <1>2. Present(k) \in Nat /\ Present(k) = file.cut - St(k) - 3
    <2>1. file.cut \in Nat /\ St(k) \in Nat
      BY Ends
    <2>2. Present(k) = file.cut - St(k) - 3
      BY Zenon DEF Present, St, ChunkHeader
    <2> QED BY <2>1, <2>2
  <1>3. Body(k) = SubSeq(b, 1, n)
    BY DEF Body, Whole
  <1>4. n = (IF Len(b) <= Present(k) THEN Len(b) ELSE Present(k))
    <2>1. Len(b) \in Int /\ Present(k) \in Int
      BY <1>1, <1>2
    <2> QED BY <2>1, Pairs, Zenon
  <1> HIDE DEF b, n
  <1>5. n \in Nat /\ n <= Len(b) /\ n <= Present(k) /\ (n < Len(b) => n = Present(k)) /\ n \in Int /\ 1 \in Nat \ {0}
    BY <1>1, <1>2, <1>4
  <1>6. Sliced(ChunkWord, b, 1, n, Body(k))
    <2>1. Sliced(ChunkWord, b, 1, n, SubSeq(b, 1, n))
      BY <1>1, <1>5, Slice, Zenon
    <2> QED BY <1>3, <2>1, Zenon
  <1>7. Body(k) \in Seq(ChunkWord) /\ Len(Body(k)) = n /\ \A i \in 1..n : Body(k)[i] = b[i]
    BY <1>5, <1>6 DEF Sliced
  <1> QED BY <1>2, <1>5, <1>7, Zenon DEF b, n

\* What the reader finds there.
LEMMA HeaderRead ==
    ASSUME NEW k, HeadAt(k), ImportAssumption
    PROVE  /\ Tag = file.chunks[k].tag
           /\ CanRead(pos, 3)
           /\ Self = St(k) + 3 /\ SelfEnd = St(k + 1)
  <1>1. FileOK /\ k \in 1..ChunkCount /\ Present(k) >= 0 /\ pos = St(k)
    BY DEF HeadAt
  <1> DEFINE c == file.chunks[k]
             s == St(k)
             b == Len(Whole(k))
  <1>2. c \in Chunks /\ s \in Nat /\ b \in Nat /\ St(k + 1) = s + 3 + b
    BY <1>1, Ends
  <1>3. Size = file.cut /\ file.cut \in Nat /\ s + 3 <= file.cut
    <2>1. Size = file.cut
      BY <1>1, FileWords
    <2>2. file.cut \in Nat
      BY <1>1, Ends
    <2>3. Present(k) \in Nat /\ Present(k) = file.cut - s - 3
      BY <1>1, BodyOK
    <2> HIDE DEF s
    <2> QED BY <1>2, <2>1, <2>2, <2>3
  <1>4. ChunkWords(c)[1].val = c.tag /\ ChunkWords(c)[2].val = b
    <2>1. ChunkWords(c)[1] = Word("tag", c.tag) /\ ChunkWords(c)[2] = Num(Len(c.body)) /\ b = Len(c.body)
      BY <1>2, ChunkLaid DEF Whole
    <2> HIDE DEF c, b
    <2> QED BY <2>1 DEF Word, Num
  <1>5. Words[s + 1] = ChunkWords(c)[1] /\ Words[s + 2] = ChunkWords(c)[2]
    <2>1. 1 \in 1..(3 + b) /\ 2 \in 1..(3 + b) /\ s + 1 <= file.cut /\ s + 2 <= file.cut
      BY <1>2, <1>3
    <2> QED BY <1>1, <2>1, FileWords
  <1> HIDE DEF c, s, b
  <1>6. U32(s) = c.tag /\ U32(s + 1) = b
    <2>1. CanRead(s, 1) /\ CanRead(s + 1, 1) /\ (s + 1) + 1 = s + 2
      BY <1>2, <1>3 DEF CanRead
    <2> QED BY <1>4, <1>5, <2>1, Zenon DEF U32
  <1>7. CanRead(s, 3)
    BY <1>2, <1>3 DEF CanRead
  <1>8. pos = s
    BY <1>1 DEF s
  <1>9. Tag = c.tag /\ CanRead(pos, 3) /\ Self = s + 3 /\ SelfEnd = (s + 3) + b
    BY <1>6, <1>7, <1>8, Zenon DEF Tag, Self, SelfEnd, ChunkHeader
  <1>10. (s + 3) + b = St(k + 1)
    BY <1>2
  <1> QED BY <1>9, <1>10, Zenon DEF s, c

LEMMA WordRead ==
    ASSUME NEW k, HeadAt(k), ImportAssumption, NEW j \in Nat, j < Len(Whole(k))
    PROVE  U32(Self + j) = At(Body(k), j + 1)
  <1>1. FileOK /\ k \in 1..ChunkCount /\ Present(k) >= 0
    BY DEF HeadAt
  <1> DEFINE c == file.chunks[k]
             s == St(k)
             b == Len(Whole(k))
             B == Body(k)
  <1>2. c \in Chunks /\ s \in Nat /\ b \in Nat /\ Whole(k) = c.body
    BY <1>1, Ends, Zenon DEF Whole
  <1>3. Size = file.cut /\ file.cut \in Nat
    BY <1>1, Ends, FileWords
  <1>4. /\ Present(k) = file.cut - s - 3
        /\ Len(B) \in Nat /\ Len(B) <= b /\ Len(B) <= Present(k)
        /\ Len(B) < b => Len(B) = Present(k)
        /\ \A i \in 1..Len(B) : B[i] = Whole(k)[i]
    BY <1>1, BodyOK
  <1>5. Self = s + 3
    BY HeaderRead
  <1>6. s + 3 + j + 1 <= file.cut => Words[s + (3 + (j + 1))] = c.body[j + 1]
    <2> SUFFICES ASSUME s + 3 + j + 1 <= file.cut PROVE Words[s + (3 + (j + 1))] = c.body[j + 1]
      OBVIOUS
    <2>1. 3 + (j + 1) \in 1..(3 + b) /\ s + (3 + (j + 1)) <= file.cut /\ j + 1 \in 1..b
      <3> DEFINE f == file.cut
      <3>1. s \in Nat /\ b \in Nat /\ f \in Nat /\ j < b /\ s + 3 + j + 1 <= f
        BY <1>2, <1>3, Zenon
      <3> HIDE DEF s, b, f
      <3>2. 3 + (j + 1) \in 1..(3 + b) /\ s + (3 + (j + 1)) <= f /\ j + 1 \in 1..b
        BY <3>1
      <3> QED BY <3>2, Zenon DEF f
    <2>2. Words[s + (3 + (j + 1))] = ChunkWords(c)[3 + (j + 1)]
      BY <1>1, <2>1, FileWords
    <2>3. ChunkWords(c)[3 + (j + 1)] = c.body[j + 1]
      BY <1>2, <2>1, ChunkLaid
    <2> QED BY <2>2, <2>3
  <1> DEFINE z == Len(B)
             q == Present(k)
             f == file.cut
             t == Self
  <1>10. /\ z \in Nat /\ f \in Nat /\ s \in Nat /\ b \in Nat /\ t = s + 3
         /\ z <= b /\ s + 3 + z <= f /\ (z < b => s + 3 + z = f)
    <2>1. q = f - s - 3 /\ z \in Nat /\ z <= b /\ z <= q /\ (z < b => z = q)
      BY <1>4, Zenon
    <2>2. f \in Nat /\ s \in Nat /\ b \in Nat /\ t = s + 3
      BY <1>2, <1>3, <1>5, Zenon
    <2> HIDE DEF q, z, f, t, s, b
    <2> QED BY <2>1, <2>2
  <1>11. j < b
    OBVIOUS
  <1> HIDE DEF c, s, b, B
  <1>7. (s + 3 + j) + 1 = s + (3 + (j + 1)) /\ Self + j = s + 3 + j
    BY <1>2, <1>5
  <1>8. CASE j + 1 <= Len(B)
    <2>1. CanRead(Self + j, 1) /\ s + 3 + j + 1 <= file.cut /\ j + 1 \in 1..Len(B)
      <3>1. j + 1 <= z
        BY <1>8
      <3> HIDE DEF z, f, t
      <3>2. (t + j) + 1 <= f /\ s + 3 + j + 1 <= f /\ j + 1 \in 1..z
        BY <1>10, <3>1
      <3>3. CanRead(t + j, 1)
        BY <1>3, <3>2, Zenon DEF CanRead, f
      <3> QED BY <3>2, <3>3, Zenon DEF z, f, t
    <2>2. U32(Self + j) = Words[s + (3 + (j + 1))].val
      BY <1>7, <2>1, Zenon DEF U32
    <2>3. B[j + 1] = c.body[j + 1]
      BY <1>2, <1>4, <2>1
    <2>4. At(B, j + 1) = B[j + 1].val
      BY <1>8, Zenon DEF At
    <2> QED BY <1>6, <2>1, <2>2, <2>3, <2>4 DEF B
  <1>9. CASE ~(j + 1 <= Len(B))
    <2>1. ~CanRead(Self + j, 1)
      <3>1. ~(j + 1 <= z)
        BY <1>9
      <3> HIDE DEF z, f, t
      <3>2. ~((t + j) + 1 <= f)
        BY <1>10, <1>11, <3>1
      <3>3. ~CanRead(t + j, 1)
        BY <1>3, <3>2, Zenon DEF CanRead, f
      <3> QED BY <3>3, Zenon DEF t
    <2>2. U32(Self + j) = 0 /\ At(B, j + 1) = 0
      BY <1>9, <2>1, Zenon DEF U32, At
    <2> QED BY <2>2 DEF B
  <1> QED BY <1>8, <1>9

LEMMA ListRead ==
    ASSUME NEW k, HeadAt(k), ImportAssumption, NEW a \in Nat, NEW n \in Nat, a + n <= Len(Whole(k))
    PROVE  Take(Self + a, n) = SubSeq(Body(k), a + 1, Min({a + n, Len(Body(k))}))
  <1>1. FileOK /\ k \in 1..ChunkCount /\ Present(k) >= 0
    BY DEF HeadAt
  <1> DEFINE c == file.chunks[k]
             s == St(k)
             b == Len(Whole(k))
             B == Body(k)
             m == Min({a + n, Len(B)})
             p == Min({(Self + a) + n, Size})
  <1>2. c \in Chunks /\ s \in Nat /\ b \in Nat /\ Whole(k) = c.body
    BY <1>1, Ends, Zenon DEF Whole
  <1>3. Size = file.cut /\ file.cut \in Nat /\ \E S : Words \in Seq(S)
    BY <1>1, Ends, FileWords
  <1>4. /\ Present(k) = file.cut - s - 3 /\ B \in Seq(ChunkWord)
        /\ Len(B) \in Nat /\ Len(B) <= b /\ Len(B) <= Present(k)
        /\ Len(B) < b => Len(B) = Present(k)
        /\ \A i \in 1..Len(B) : B[i] = Whole(k)[i]
    BY <1>1, BodyOK
  <1>5. Self = s + 3 /\ Self \in Nat
    BY <1>2, HeaderRead
  <1>6. m = (IF a + n <= Len(B) THEN a + n ELSE Len(B))
    <2>1. a + n \in Int /\ Len(B) \in Int
      BY <1>4
    <2> QED BY <2>1, Pairs, Zenon
  <1>7. p = (IF (Self + a) + n <= file.cut THEN (Self + a) + n ELSE file.cut)
    <2>1. (Self + a) + n \in Int /\ file.cut \in Int /\ p = Min({(Self + a) + n, file.cut})
      BY <1>3, <1>5
    <2> QED BY <2>1, Pairs, Zenon
  <1>8. Take(Self + a, n) = SubSeq(Words, Self + a + 1, p)
    BY Zenon DEF Take
  <1> DEFINE z == Len(B)
             f == file.cut
             t == Self
  <1>20. /\ z \in Nat /\ f \in Nat /\ s \in Nat /\ b \in Nat /\ t = s + 3
         /\ z <= b /\ s + 3 + z <= f /\ (z < b => s + 3 + z = f)
    <2> DEFINE q == Present(k)
    <2>1. q = f - s - 3 /\ z \in Nat /\ z <= b /\ z <= q /\ (z < b => z = q)
      BY <1>4, Zenon
    <2>2. f \in Nat /\ s \in Nat /\ b \in Nat /\ t = s + 3
      BY <1>2, <1>3, <1>5, Zenon
    <2> HIDE DEF q, z, f, t, s, b
    <2> QED BY <2>1, <2>2
  <1>9. \A i \in 1..Len(B) : Words[s + (3 + i)] = B[i]
    <2> TAKE i \in 1..Len(B)
    <2>1. 3 + i \in 1..(3 + b) /\ s + (3 + i) <= file.cut /\ i \in 1..b
      <3>1. i \in 1..z
        OBVIOUS
      <3> HIDE DEF s, b, B, z, f, t
      <3>2. 3 + i \in 1..(3 + b) /\ s + (3 + i) <= f /\ i \in 1..b
        BY <1>20, <3>1
      <3> QED BY <3>2, Zenon DEF f
    <2>2. Words[s + (3 + i)] = ChunkWords(c)[3 + i]
      BY <1>1, <2>1, FileWords
    <2>3. ChunkWords(c)[3 + i] = c.body[i]
      BY <1>2, <2>1, ChunkLaid
    <2> QED BY <1>2, <1>4, <2>2, <2>3
  <1>10. PICK S : Words \in Seq(S)
    BY <1>3
  <1>11. Len(Words) = file.cut
    BY <1>3 DEF Size
  <1> DEFINE L == SubSeq(Words, Self + a + 1, p)
             R == SubSeq(B, a + 1, m)
  <1> HIDE DEF c, s, b, B, m, p
  <1>12. a + n <= b
    BY DEF b
  <1>13. /\ p \in Int /\ p <= Len(Words) /\ Self + a + 1 \in Nat \ {0}
         /\ m \in Int /\ m <= Len(B) /\ a + 1 \in Nat \ {0}
    <2>1. m = (IF a + n <= z THEN a + n ELSE z) /\ p = (IF (t + a) + n <= f THEN (t + a) + n ELSE f)
      BY <1>6, <1>7, Zenon
    <2> HIDE DEF z, f, t
    <2>2. p \in Int /\ p <= f /\ t + a + 1 \in Nat \ {0} /\ m \in Int /\ m <= z /\ a + 1 \in Nat \ {0}
      BY <1>20, <2>1
    <2> QED BY <1>11, <2>2, Zenon DEF z, f, t
  <1>14. Sliced(S, Words, Self + a + 1, p, L)
    BY <1>10, <1>13, Slice, Zenon
  <1>15. Sliced(ChunkWord, B, a + 1, m, R)
    BY <1>4, <1>13, Slice, Zenon
  <1> HIDE DEF L, R
  <1>16. \/ Self + a + 1 <= p /\ a + 1 <= m /\ p - (Self + a + 1) = m - (a + 1)
         \/ ~(Self + a + 1 <= p) /\ ~(a + 1 <= m)
    <2>1. m = (IF a + n <= z THEN a + n ELSE z) /\ p = (IF (t + a) + n <= f THEN (t + a) + n ELSE f)
      BY <1>6, <1>7, Zenon
    <2> HIDE DEF z, f, t
    <2>2. \/ t + a + 1 <= p /\ a + 1 <= m /\ p - (t + a + 1) = m - (a + 1)
          \/ ~(t + a + 1 <= p) /\ ~(a + 1 <= m)
      BY <1>20, <1>12, <2>1
    <2> QED BY <2>2, Zenon DEF t
  <1>17. L \in Seq(S) /\ R \in Seq(ChunkWord) /\ Len(L) = Len(R) /\ Len(L) \in Nat
    BY <1>13, <1>14, <1>15, <1>16 DEF Sliced
  <1>18. ASSUME NEW i \in 1..Len(L) PROVE L[i] = R[i]
    <2>1. Self + a + 1 <= p /\ a + 1 <= m
      BY <1>13, <1>14, <1>16, <1>18 DEF Sliced
    <2>2. Len(L) = p - (Self + a + 1) + 1 /\ Len(R) = m - (a + 1) + 1
      BY <1>14, <1>15, <2>1, Zenon DEF Sliced
    <2>3. L[i] = Words[(Self + a + 1) + i - 1] /\ R[i] = B[(a + 1) + i - 1]
      BY <1>14, <1>15, <1>17, <1>18, <2>2, Zenon DEF Sliced
    <2>4. (a + 1) + i - 1 = a + i /\ a + i \in 1..Len(B) /\ (Self + a + 1) + i - 1 = s + (3 + (a + i))
      <3>1. m <= z /\ m \in Int /\ i \in 1..(m - (a + 1) + 1)
        BY <1>13, <1>17, <1>18, <2>2
      <3> HIDE DEF z, f, t
      <3>2. (a + 1) + i - 1 = a + i /\ a + i \in 1..z /\ (t + a + 1) + i - 1 = s + (3 + (a + i))
        BY <1>20, <3>1
      <3> QED BY <3>2, Zenon DEF z, t
    <2> QED BY <1>9, <2>3, <2>4
  <1>19. L = R
    <2>1. L \in Seq(S \cup ChunkWord) /\ R \in Seq(S \cup ChunkWord)
      BY <1>17
    <2> QED BY <1>17, <1>18, <2>1, SeqEqual
  <1> QED BY <1>8, <1>19, Zenon DEF L, R, B, m

-----------------------------------------------------------------------------
(* The voxels of a list, and the voxels of a set of places. *)

\* f holds the cells after each voxel of the list.
PutsBy(f, world, read) ==
    /\ f[0] = world /\ PutAll(world, read) = f[Len(read)]
    /\ \A n \in 1..Len(read) : f[n] = SetVoxelAt(f[n - 1], read[n].val)

LEMMA PutStep ==
    \A world, read : Len(read) \in Nat => \E f : PutsBy(f, world, read)
  <1> TAKE world, read
  <1> SUFFICES ASSUME Len(read) \in Nat PROVE \E f : PutsBy(f, world, read)
    OBVIOUS
  <1> DEFINE F(f, m) == [n \in 0..m |-> IF n = 0 THEN world ELSE SetVoxelAt(f[n - 1], read[n].val)]
             S == {m \in Nat : \E f : f = F(f, m)}
  <1>1. 0 \in S
    <2> DEFINE f == [n \in 0..0 |-> world]
    <2>1. f = F(f, 0)
      OBVIOUS
    <2> QED BY <2>1
  <1>2. ASSUME NEW m \in S PROVE m + 1 \in S
    <2>0. m \in Nat /\ m + 1 \in Nat
      OBVIOUS
    <2>1. PICK f : f = F(f, m)
      BY <1>2
    <2> DEFINE g == [n \in 0..(m + 1) |-> IF n <= m THEN f[n] ELSE SetVoxelAt(f[m], read[m + 1].val)]
    <2>2. ASSUME NEW n \in 0..(m + 1)
          PROVE  g[n] = IF n = 0 THEN world ELSE SetVoxelAt(g[n - 1], read[n].val)
      <3>1. CASE n <= m
        <4>1. n \in 0..m /\ g[n] = f[n]
          BY <2>0, <3>1
        <4>2. f[n] = IF n = 0 THEN world ELSE SetVoxelAt(f[n - 1], read[n].val)
          BY <2>1, <4>1
        <4>3. n # 0 => g[n - 1] = f[n - 1]
          BY <2>0, <4>1
        <4> QED BY <4>1, <4>2, <4>3
      <3>2. CASE ~(n <= m)
        <4>1. n = m + 1 /\ n - 1 = m /\ n # 0 /\ m <= m /\ m \in 0..(m + 1)
          BY <2>0, <3>2
        <4>2. g[n] = SetVoxelAt(f[m], read[m + 1].val) /\ g[m] = f[m]
          BY <3>2, <4>1
        <4> QED BY <4>1, <4>2
      <3> QED BY <3>1, <3>2
    <2>3. g = F(g, m + 1)
      BY <2>2
    <2> HIDE DEF g
    <2> QED BY <2>0, <2>3
  <1>3. Len(read) \in S
    <2>1. S \in SUBSET Nat
      OBVIOUS
    <2> HIDE DEF S
    <2> QED BY <1>1, <1>2, <2>1, NatInductionOn
  <1> DEFINE a == CHOOSE f : f = F(f, Len(read))
  <1>4. a = F(a, Len(read))
    BY <1>3
  <1>5. PutAll(world, read) = a[Len(read)]
    BY Zenon DEF PutAll
  <1>6. a[0] = world /\ \A n \in 1..Len(read) : a[n] = SetVoxelAt(a[n - 1], read[n].val)
    <2> HIDE DEF a
    <2>1. \A n \in 0..Len(read) : a[n] = IF n = 0 THEN world ELSE SetVoxelAt(a[n - 1], read[n].val)
      BY <1>4
    <2> HIDE DEF F
    <2>2. 0 \in 0..Len(read) /\ \A n \in 1..Len(read) : n \in 0..Len(read) /\ n # 0
      OBVIOUS
    <2> QED BY Zenon, <2>1, <2>2
  <1> QED BY <1>5, <1>6, Zenon DEF PutsBy

CellOf(d) == Cell(Dot(d))

\* d stands last of those of its cell.
IsLast(dots, cell, d) ==
    /\ d \in dots /\ CellOf(d) = cell
    /\ \A e \in dots : CellOf(e) = cell => e = d \/ Before(e, d)

\* Places of which each cell has a last one.
Lasting(dots) ==
    /\ dots \subseteq Nat \X Nat /\ IsFiniteSet(dots)
    /\ \A e \in dots : \E d \in dots : IsLast(dots, CellOf(e), d)

LEMMA BeforeOrder == \A d, e \in Nat \X Nat : Before(d, e) => ~Before(e, d) /\ d # e
  BY DEF Before

LEMMA LastIs ==
    ASSUME NEW dots, Lasting(dots), NEW cell, NEW d, IsLast(dots, cell, d)
    PROVE  LastIn(dots, cell) = d
  <1>1. \A e : IsLast(dots, cell, e) => e = d
    <2> SUFFICES ASSUME NEW e, IsLast(dots, cell, e), e # d PROVE FALSE
      OBVIOUS
    <2>1. Before(e, d) /\ Before(d, e)
      BY DEF IsLast
    <2>2. d \in Nat \X Nat /\ e \in Nat \X Nat
      BY DEF IsLast, Lasting
    <2> QED BY <2>1, <2>2, BeforeOrder
  <1>2. LastIn(dots, cell) = CHOOSE e : IsLast(dots, cell, e)
    BY Zenon DEF LastIn, IsLast, CellOf
  <1> QED BY <1>1, <1>2, Zenon

\* A place behind all others adds one voxel.
LEMMA DotAdded ==
    ASSUME NEW D, Lasting(D), NEW d \in Nat \X Nat, \A e \in D : Before(e, d)
    PROVE  /\ Lasting(D \cup {d})
           /\ Cardinality(D \cup {d}) = Cardinality(D) + 1 /\ Cardinality(D) \in Nat
           /\ VoxelsOf(D \cup {d}) = SetVoxelAt(VoxelsOf(D), Dot(d))
  <1> DEFINE E == D \cup {d}
             v == VoxelsOf(D)
             cell == CellOf(d)
  <1>1. d \notin D
    BY BeforeOrder DEF Lasting
  <1>2. /\ Cardinality(E) = Cardinality(D) + 1 /\ Cardinality(D) \in Nat /\ IsFiniteSet(E)
    BY <1>1, FS_AddElement, FS_CardinalityType DEF Lasting
  <1>3. IsLast(E, cell, d)
    BY Zenon DEF IsLast
  <1>4. ASSUME NEW c, c # cell, NEW l, IsLast(D, c, l) PROVE IsLast(E, c, l)
    BY <1>4, Zenon DEF IsLast
  <1>5. Lasting(E)
    <2>1. E \subseteq Nat \X Nat
      BY DEF Lasting
    <2>2. ASSUME NEW e \in E PROVE \E l \in E : IsLast(E, CellOf(e), l)
      <3>1. CASE CellOf(e) = cell
        BY <1>3, <3>1, Zenon
      <3>2. CASE CellOf(e) # cell
        <4>1. e \in D
          BY <3>2
        <4>2. PICK l \in D : IsLast(D, CellOf(e), l)
          BY <4>1, Zenon DEF Lasting
        <4> QED BY <1>4, <3>2, <4>2, Zenon
      <3> QED BY <3>1, <3>2
    <2> QED BY <1>2, <2>1, <2>2, Zenon DEF Lasting
  <1> HIDE DEF E, cell
  <1>6. LastIn(E, cell) = d
    BY <1>3, <1>5, LastIs
  <1>7. ASSUME NEW e \in D, CellOf(e) # cell PROVE LastIn(E, CellOf(e)) = LastIn(D, CellOf(e))
    <2>1. PICK l \in D : IsLast(D, CellOf(e), l)
      BY Zenon DEF Lasting
    <2>2. IsLast(E, CellOf(e), l)
      BY <1>4, <1>7, <2>1
    <2>3. LastIn(D, CellOf(e)) = l
      BY <2>1, LastIs
    <2>4. LastIn(E, CellOf(e)) = l
      BY <1>5, <2>2, LastIs
    <2> QED BY <2>3, <2>4
  <1> DEFINE X == {CellOf(e) : e \in E}
             Y == {CellOf(e) : e \in D}
             w == [c \in X |-> Material(Dot(LastIn(E, c)))]
             u == [c \in Y |-> Material(Dot(LastIn(D, c)))]
  <1>8. VoxelsOf(E) = w /\ v = u
    BY Zenon DEF VoxelsOf, CellOf
  <1>9. X = Y \cup {cell}
    BY DEF E, cell
  <1>10. SetVoxelAt(u, Dot(d)) = [c \in Y \cup {cell} |-> IF c = cell THEN Material(Dot(d)) ELSE u[c]]
    <2>1. DOMAIN u = Y
      BY Zenon
    <2> QED BY <2>1, Zenon DEF SetVoxelAt, cell, CellOf
  <1>11. ASSUME NEW c \in X
         PROVE  w[c] = IF c = cell THEN Material(Dot(d)) ELSE u[c]
    <2>1. w[c] = Material(Dot(LastIn(E, c)))
      BY Zenon
    <2>2. CASE c = cell
      BY <1>6, <2>1, <2>2, Zenon
    <2>3. CASE c # cell
      <3>1. c \in Y
        BY <1>9, <2>3
      <3>2. PICK e \in D : c = CellOf(e)
        BY <3>1
      <3>3. LastIn(E, c) = LastIn(D, c)
        BY <1>7, <2>3, <3>2, Zenon
      <3>4. u[c] = Material(Dot(LastIn(D, c)))
        BY <3>1, Zenon
      <3> QED BY <2>1, <2>3, <3>3, <3>4, Zenon
    <2> QED BY <2>2, <2>3
  <1>12. w = SetVoxelAt(u, Dot(d))
    <2>1. w = [c \in X |-> w[c]]
      BY Zenon
    <2> HIDE DEF w, u, X, Y
    <2>2. [c \in X |-> w[c]] = [c \in X |-> IF c = cell THEN Material(Dot(d)) ELSE u[c]]
      BY <1>11, Zenon
    <2> QED BY <1>9, <1>10, <2>1, <2>2, Zenon
  <1>13. VoxelsOf(E) = SetVoxelAt(v, Dot(d))
    BY <1>8, <1>12, Zenon
  <1> HIDE DEF v
  <1> QED BY <1>2, <1>5, <1>13, Zenon DEF E, v

\* A list that stands behind the places D, in chunk k from its second word on.
LEMMA ListAdded ==
    ASSUME NEW D, Lasting(D), NEW k \in Nat, NEW read, Len(read) \in Nat,
           \A e \in D : e[1] < k,
           \A i \in 1..Len(read) : read[i].val = Dot(<<k, i + 1>>)
    PROVE  LET E == D \cup ({k} \X (2..(Len(read) + 1)))
           IN  /\ Lasting(E)
               /\ Cardinality(E) = Cardinality(D) + Len(read)
               /\ VoxelsOf(E) = PutAll(VoxelsOf(D), read)
  <1> DEFINE E(n) == D \cup ({k} \X (2..(n + 1)))
  <1>0. PICK f : /\ f[0] = VoxelsOf(D) /\ PutAll(VoxelsOf(D), read) = f[Len(read)]
                 /\ \A n \in 1..Len(read) : f[n] = SetVoxelAt(f[n - 1], read[n].val)
    <2>1. \E f : PutsBy(f, VoxelsOf(D), read)
      BY PutStep, Zenon
    <2> QED BY <2>1, Zenon DEF PutsBy
  <1> DEFINE P(n) == Lasting(E(n)) /\ Cardinality(E(n)) = Cardinality(D) + n /\ VoxelsOf(E(n)) = f[n]
             S == {n \in Nat : n <= Len(read) => P(n)}
  <1>1. Cardinality(D) \in Nat
    BY FS_CardinalityType DEF Lasting
  <1>2. 0 \in S
    <2>1. E(0) = D
      <3>1. 2..(0 + 1) = {}
        OBVIOUS
      <3> QED BY <3>1
    <2> HIDE DEF E
    <2>2. P(0)
      BY <1>0, <1>1, <2>1
    <2> QED BY <2>2
  <1>3. ASSUME NEW n \in S PROVE n + 1 \in S
    <2>0. n \in Nat /\ n + 1 \in Nat
      OBVIOUS
    <2> SUFFICES ASSUME n + 1 <= Len(read) PROVE P(n + 1)
      BY <2>0
    <2> DEFINE d == <<k, (n + 1) + 1>>
    <2>1. P(n) /\ n + 1 \in 1..Len(read)
      BY <2>0
    <2>2. E(n + 1) = E(n) \cup {d}
      <3>1. 2..((n + 1) + 1) = (2..(n + 1)) \cup {(n + 1) + 1}
        BY <2>0
      <3> QED BY <3>1
    <2>3. d \in Nat \X Nat
      BY <2>0
    <2>4. \A e \in E(n) : Before(e, d)
      <3> TAKE e \in E(n)
      <3>1. CASE e \in D
        BY <3>1, Zenon DEF Before
      <3>2. CASE e \in {k} \X (2..(n + 1))
        <4>1. e[1] = k /\ e[2] < (n + 1) + 1 /\ d[1] = k /\ d[2] = (n + 1) + 1
          BY <2>0, <3>2
        <4> QED BY <4>1, Zenon DEF Before
      <3> QED BY <3>1, <3>2
    <2>5. read[n + 1].val = Dot(d) /\ f[n + 1] = SetVoxelAt(f[n], read[n + 1].val)
      <3>1. (n + 1) - 1 = n
        BY <2>0
      <3> QED BY <1>0, <2>1, <3>1, Zenon
    <2> HIDE DEF d, E
    <2>6. /\ Lasting(E(n) \cup {d})
          /\ Cardinality(E(n) \cup {d}) = Cardinality(E(n)) + 1
          /\ VoxelsOf(E(n) \cup {d}) = SetVoxelAt(VoxelsOf(E(n)), Dot(d))
      BY <2>1, <2>3, <2>4, DotAdded
    <2>7. Cardinality(E(n + 1)) = Cardinality(D) + (n + 1)
      <3> DEFINE x == Cardinality(E(n))
                 y == Cardinality(D)
      <3>1. x = y + n /\ Cardinality(E(n + 1)) = x + 1 /\ y \in Nat
        BY <1>1, <2>1, <2>2, <2>6, Zenon
      <3> HIDE DEF x, y
      <3>2. Cardinality(E(n + 1)) = y + (n + 1)
        BY <2>0, <3>1
      <3> QED BY <3>2, Zenon DEF y
    <2> QED BY <2>1, <2>2, <2>5, <2>6, <2>7, Zenon
  <1>4. S = Nat
    <2>1. S \in SUBSET Nat
      OBVIOUS
    <2> HIDE DEF S
    <2> QED BY <1>2, <1>3, <2>1, NatInductionOn
  <1>5. P(Len(read))
    <2> HIDE DEF P
    <2> QED BY <1>4
  <1> QED BY <1>0, <1>5, Zenon

-----------------------------------------------------------------------------
(* What the first k chunks say, from what the first k - 1 do.              *)

LEMMA OfStep ==
    ASSUME NEW k \in Nat \ {0}, NEW tag
    PROVE  /\ file.chunks[k].tag # tag => Of(1..k, tag) = Of(1..(k - 1), tag)
           /\ file.chunks[k].tag = tag => Of(1..k, tag) = Of(1..(k - 1), tag) \cup {k}
           /\ Of(1..(k - 1), tag) \in SUBSET Nat /\ \A i \in Of(1..(k - 1), tag) : i < k
  <1>1. 1..k = (1..(k - 1)) \cup {k}
    OBVIOUS
  <1>2. Of(1..(k - 1), tag) \subseteq 1..(k - 1)
    BY DEF Of
  <1>3. file.chunks[k].tag # tag => Of(1..k, tag) = Of(1..(k - 1), tag)
    BY <1>1 DEF Of
  <1>4. file.chunks[k].tag = tag => Of(1..k, tag) = Of(1..(k - 1), tag) \cup {k}
    BY <1>1 DEF Of
  <1> QED BY <1>2, <1>3, <1>4

\* A chunk of another kind says nothing of it.
LEMMA KindKept ==
    ASSUME NEW k \in Nat \ {0}
    PROVE  /\ file.chunks[k].tag # "SIZE" => SizeOf(1..k) = SizeOf(1..(k - 1))
           /\ file.chunks[k].tag # "XYZI" => Dots(1..k) = Dots(1..(k - 1))
           /\ file.chunks[k].tag # "RGBA" => \A m : ColorIn(1..k, m) = ColorIn(1..(k - 1), m)
           /\ file.chunks[k].tag # "MATL" => \A m : GlowOf(1..k, m) = GlowOf(1..(k - 1), m)
  <1>1. file.chunks[k].tag # "SIZE" => SizeOf(1..k) = SizeOf(1..(k - 1))
    BY OfStep, Zenon DEF SizeOf
  <1>2. file.chunks[k].tag # "XYZI" => Dots(1..k) = Dots(1..(k - 1))
    BY OfStep, Zenon DEF Dots
  <1>3. file.chunks[k].tag # "RGBA" => \A m : ColorIn(1..k, m) = ColorIn(1..(k - 1), m)
    BY OfStep, Zenon DEF ColorIn
  <1>4. file.chunks[k].tag # "MATL" => \A m : GlowOf(1..k, m) = GlowOf(1..(k - 1), m)
    BY OfStep, Zenon DEF GlowOf
  <1> QED BY <1>1, <1>2, <1>3, <1>4

LEMMA SizeSaid ==
    ASSUME NEW k \in Nat \ {0}, file.chunks[k].tag = "SIZE"
    PROVE  SizeOf(1..k) = <<At(Body(k), 1), At(Body(k), 2), At(Body(k), 3)>>
  <1> DEFINE T == Of(1..(k - 1), "SIZE")
  <1>1. Of(1..k, "SIZE") = T \cup {k} /\ T \in SUBSET Nat /\ \A i \in T : i < k
    BY OfStep
  <1> HIDE DEF T
  <1>2. Max(T \cup {k}) = k
    BY <1>1, TopMax
  <1>3. T \cup {k} # {}
    OBVIOUS
  <1> QED BY <1>1, <1>2, <1>3, Zenon DEF SizeOf

LEMMA DotsSaid ==
    ASSUME NEW k \in Nat \ {0}, file.chunks[k].tag = "XYZI"
    PROVE  Dots(1..k) = Dots(1..(k - 1)) \cup DotsIn(k)
  <1>1. Of(1..k, "XYZI") = Of(1..(k - 1), "XYZI") \cup {k}
    BY OfStep
  <1> QED BY <1>1, Zenon DEF Dots

LEMMA ColorSaid ==
    ASSUME NEW k \in Nat \ {0}, file.chunks[k].tag = "RGBA", NEW m
    PROVE  ColorIn(1..k, m) = IF m # 0 /\ Len(Body(k)) >= m THEN Body(k)[m].val ELSE ColorIn(1..(k - 1), m)
  <1> DEFINE T == Of(1..(k - 1), "RGBA")
             far == {i \in T : Len(Body(i)) >= m}
  <1>1. Of(1..k, "RGBA") = T \cup {k} /\ T \in SUBSET Nat /\ \A i \in T : i < k
    BY OfStep
  <1>2. CASE m # 0 /\ Len(Body(k)) >= m
    <2>1. {i \in T \cup {k} : Len(Body(i)) >= m} = far \cup {k}
      BY <1>2
    <2>2. far \in SUBSET Nat /\ \A i \in far : i < k
      BY <1>1
    <2> HIDE DEF far, T
    <2>3. Max(far \cup {k}) = k /\ far \cup {k} # {}
      BY <2>2, TopMax
    <2> QED BY <1>1, <1>2, <2>1, <2>3, Zenon DEF ColorIn
  <1>3. CASE ~(Len(Body(k)) >= m)
    <2>1. {i \in T \cup {k} : Len(Body(i)) >= m} = far
      BY <1>3
    <2> QED BY <1>1, <1>3, <2>1, Zenon DEF ColorIn
  <1>4. CASE m = 0
    BY <1>4, Zenon DEF ColorIn
  <1> QED BY <1>2, <1>3, <1>4

LEMMA GlowSaid ==
    ASSUME NEW k \in Nat \ {0}, file.chunks[k].tag = "MATL", NEW m
    PROVE  GlowOf(1..k, m) = IF At(Body(k), 1) = m /\ Emissive(DictOf(Body(k)))
                             THEN Power(DictOf(Body(k))) ELSE GlowOf(1..(k - 1), m)
  <1> DEFINE T == Of(1..(k - 1), "MATL")
             G(i) == At(Body(i), 1) = m /\ Emissive(DictOf(Body(i)))
             own == {i \in T : G(i)}
  <1>1. Of(1..k, "MATL") = T \cup {k} /\ T \in SUBSET Nat /\ \A i \in T : i < k
    BY OfStep
  <1>2. CASE G(k)
    <2>1. {i \in T \cup {k} : G(i)} = own \cup {k}
      <3> HIDE DEF T, G
      <3> QED BY <1>2
    <2>2. own \in SUBSET Nat /\ \A i \in own : i < k
      <3> HIDE DEF T, G
      <3> QED BY <1>1
    <2> HIDE DEF own, T
    <2>3. Max(own \cup {k}) = k /\ own \cup {k} # {}
      BY <2>2, TopMax
    <2> QED BY <1>1, <1>2, <2>1, <2>3, Zenon DEF GlowOf
  <1>3. CASE ~G(k)
    <2>1. {i \in T \cup {k} : G(i)} = own
      <3> HIDE DEF T, G
      <3> QED BY <1>3
    <2> QED BY <1>1, <1>3, <2>1, Zenon DEF GlowOf
  <1> QED BY <1>2, <1>3

LEMMA NothingSaid ==
    /\ SizeOf(1..0) = <<0, 0, 0>>
    /\ Dots(1..0) = {} /\ VoxelsOf({}) = <<>>
    /\ \A m : ColorIn(1..0, m) = Grey(m) /\ GlowOf(1..0, m) = 0
  <1>1. \A tag : Of(1..0, tag) = {}
    BY DEF Of
  <1>2. SizeOf(1..0) = <<0, 0, 0>>
    BY <1>1, Zenon DEF SizeOf
  <1>3. Dots(1..0) = {}
    BY <1>1 DEF Dots
  <1>4. VoxelsOf({}) = <<>>
    BY DEF VoxelsOf
  <1>5. ASSUME NEW m PROVE ColorIn(1..0, m) = Grey(m) /\ GlowOf(1..0, m) = 0
    <2>1. {i \in Of(1..0, "RGBA") : Len(Body(i)) >= m} = {}
      BY <1>1
    <2>2. {i \in Of(1..0, "MATL") : At(Body(i), 1) = m /\ Emissive(DictOf(Body(i)))} = {}
      BY <1>1
    <2> QED BY <2>1, <2>2, Zenon DEF ColorIn, GlowOf
  <1> QED BY <1>2, <1>3, <1>4, <1>5

-----------------------------------------------------------------------------
(* The invariant.                                                          *)

\* A scene is what the first k chunks say.
DotsSay(k, voxels_, count_) ==
    \E dots : /\ dots = Dots(1..k) /\ Lasting(dots) /\ \A d \in dots : d[1] <= k
             /\ voxels_ = VoxelsOf(dots) /\ count_ = Cardinality(dots)
ColorsSay(k, colors_) == colors_ = [m \in Indices |-> ColorIn(1..k, m)]
GlowSays(k, emit_) == emit_ = [m \in Indices |-> GlowOf(1..k, m)]

Says(k, size_, voxels_, count_, colors_, emit_) ==
    size_ = SizeOf(1..k) /\ DotsSay(k, voxels_, count_) /\ ColorsSay(k, colors_) /\ GlowSays(k, emit_)

\* The reader has read the first k chunks, whose headers are there.
Walked(k) ==
    /\ k \in 0..ChunkCount /\ pos = St(k + 1)
    /\ \A i \in 1..k : Present(i) >= 0
    /\ Says(k, size, voxels, count, colors, emit)

Fresh ==
    /\ size = <<0, 0, 0>> /\ voxels = <<>> /\ count = 0
    /\ emit = [i \in Indices |-> 0]

ImportIInv ==
    /\ FileOK
    /\ pc \in {"header", "walk", "done", "failed"}
    /\ pc = "header" => Fresh
    /\ pc = "walk" => \E k \in 0..ChunkCount : Walked(k)
    /\ ImportExact

LEMMA InitImportIInv ==
    ASSUME ImportInit, ImportAssumption
    PROVE  ImportIInv
  <1>1. PICK head \in Heads, n \in 0..MaxChunks : \E cs \in [1..n -> Chunks] :
            \E cut \in 1..Length(cs) : file = [head |-> head, chunks |-> cs, cut |-> cut]
    BY DEF ImportInit
  <1>2. PICK cs \in [1..n -> Chunks] : \E cut \in 1..Length(cs) : file = [head |-> head, chunks |-> cs, cut |-> cut]
    BY <1>1
  <1>3. PICK cut \in 1..Length(cs) : file = [head |-> head, chunks |-> cs, cut |-> cut]
    BY <1>2
  <1>4. cs \in Seq(Chunks)
    BY DEF ImportAssumption
  <1>5. FileOK
    BY <1>3, <1>4 DEF FileOK
  <1>6. pc = "header" /\ Fresh
    BY DEF ImportInit, Fresh
  <1>7. ImportExact
    BY <1>6 DEF ImportExact
  <1> QED BY <1>5, <1>6, <1>7 DEF ImportIInv

-----------------------------------------------------------------------------
(* The file is only read.                                                  *)

\* The voxels of a set of places, of a file f.
VoxelsIn(f, dots) ==
    LET dot(d) == f.chunks[d[1]].body[d[2]].val
        last(cell) ==
            CHOOSE d \in dots :
                Cell(dot(d)) = cell /\ \A e \in dots : Cell(dot(e)) = cell => e = d \/ Before(e, d)
    IN  [cell \in {Cell(dot(d)) : d \in dots} |-> Material(dot(last(cell)))]

LEMMA PartsUnmoved ==
    ASSUME file' = file
    PROVE  /\ ChunkCount' = ChunkCount /\ There' = There /\ FileOK' = FileOK
           /\ \A k : St(k)' = St(k) /\ Present(k)' = Present(k) /\ Body(k)' = Body(k)
           /\ \A ks, tag : Of(ks, tag)' = Of(ks, tag)
           /\ \A ds : Lasting(ds)' = Lasting(ds)
  <1>1. ChunkCount' = ChunkCount /\ \A k : St(k)' = St(k) /\ Present(k)' = Present(k)
    BY Zenon DEF ChunkCount, St, Present, Start, Prefixes
  <1>2. \A k : Body(k)' = Body(k)
    BY <1>1, Zenon DEF Body
  <1>3. \A ks, tag : Of(ks, tag)' = Of(ks, tag)
    BY DEF Of
  <1>4. There' = There
    BY <1>1 DEF There
  <1>5. FileOK' = FileOK
    BY DEF FileOK, Length, Start, Prefixes
  <1>6. \A ds : Lasting(ds)' = Lasting(ds)
    <2>1. \A d : CellOf(d)' = CellOf(d)
      BY Zenon DEF CellOf, Dot
    <2>2. \A ds, c, d : IsLast(ds, c, d)' = IsLast(ds, c, d)
      BY <2>1 DEF IsLast
    <2> QED BY <2>1, <2>2 DEF Lasting
  <1> QED BY <1>1, <1>2, <1>3, <1>4, <1>5, <1>6

LEMMA Unmoved ==
    ASSUME file' = file
    PROVE  /\ \A ks : SizeOf(ks)' = SizeOf(ks) /\ Dots(ks)' = Dots(ks)
           /\ \A ds : VoxelsOf(ds)' = VoxelsOf(ds)
           /\ \A ks, m : ColorIn(ks, m)' = ColorIn(ks, m) /\ GlowOf(ks, m)' = GlowOf(ks, m)
  <1>1. \A ks : SizeOf(ks)' = SizeOf(ks)
    BY PartsUnmoved, Zenon DEF SizeOf, At
  <1>2. \A ks : Dots(ks)' = Dots(ks)
    <2>1. \A k : DotsIn(k)' = DotsIn(k)
      BY PartsUnmoved, Zenon DEF DotsIn
    <2> QED BY PartsUnmoved, <2>1 DEF Dots
  <1>3. \A ks, m : ColorIn(ks, m)' = ColorIn(ks, m)
    BY PartsUnmoved DEF ColorIn
  <1>4. \A ks, m : GlowOf(ks, m)' = GlowOf(ks, m)
    BY PartsUnmoved DEF GlowOf
  <1>5. \A ds : VoxelsOf(ds)' = VoxelsOf(ds)
    <2>1. \A ds : VoxelsOf(ds) = VoxelsIn(file, ds)
      BY Zenon DEF VoxelsOf, LastIn, Dot, VoxelsIn
    <2>2. \A ds : VoxelsOf(ds)' = VoxelsIn(file', ds)
      BY Zenon DEF VoxelsOf, LastIn, Dot, VoxelsIn
    <2> QED BY <2>1, <2>2, Zenon
  <1> QED BY <1>1, <1>2, <1>3, <1>4, <1>5

\* What a head says to the reader.
LEMMA HeadRead ==
    ASSUME FileOK, ImportAssumption, file.cut >= 3
    PROVE  U32(0) = file.head[1] /\ U32(2) = file.head[2]
  <1>1. Size = file.cut /\ file.cut \in Nat
    BY FileWords, Ends
  <1>2. Words[1].val = file.head[1] /\ Words[3].val = file.head[2]
    BY FileWords
  <1>3. CanRead(0, 1) /\ CanRead(2, 1) /\ 0 + 1 = 1 /\ 2 + 1 = 3
    BY <1>1 DEF CanRead
  <1> QED BY <1>2, <1>3, Zenon DEF U32

\* After a step the reader stands before the next chunk.
LEMMA WalkedOn ==
    ASSUME FileOK, ImportAssumption, file' = file, NEW k \in 0..ChunkCount,
           pc' = "walk", pos' = St(k + 1), \A i \in 1..k : Present(i) >= 0,
           Says(k, size', voxels', count', colors', emit')
    PROVE  ImportIInv'
  <1>1. /\ size' = SizeOf(1..k)'
        /\ colors' = [m \in Indices |-> ColorIn(1..k, m)']
        /\ emit' = [m \in Indices |-> GlowOf(1..k, m)']
    <2>1. \A m : ColorIn(1..k, m)' = ColorIn(1..k, m) /\ GlowOf(1..k, m)' = GlowOf(1..k, m)
      BY Unmoved, Zenon
    <2>2. /\ [m \in Indices |-> ColorIn(1..k, m)'] = [m \in Indices |-> ColorIn(1..k, m)]
          /\ [m \in Indices |-> GlowOf(1..k, m)'] = [m \in Indices |-> GlowOf(1..k, m)]
      BY <2>1, Zenon
    <2> QED BY <2>2, Unmoved, Zenon DEF Says, DotsSay, ColorsSay, GlowSays
  <1>2. PICK dots : /\ dots = Dots(1..k) /\ Lasting(dots) /\ \A d \in dots : d[1] <= k
                    /\ voxels' = VoxelsOf(dots) /\ count' = Cardinality(dots)
    BY Zenon DEF Says, DotsSay, ColorsSay, GlowSays
  <1>3. dots = Dots(1..k)' /\ Lasting(dots)' /\ voxels' = VoxelsOf(dots)'
    BY <1>2, Unmoved, PartsUnmoved, Zenon
  <1>4. Says(k, size, voxels, count, colors, emit)'
    BY <1>1, <1>2, <1>3, Zenon DEF Says, DotsSay, ColorsSay, GlowSays
  <1>5. \A i \in 1..k : Present(i)' >= 0
    BY PartsUnmoved, Zenon
  <1>6. pos' = St(k + 1)' /\ ChunkCount' = ChunkCount /\ FileOK'
    BY PartsUnmoved, Zenon
  <1>7. Walked(k)'
    BY <1>4, <1>5, <1>6, Zenon DEF Walked
  <1>8. ImportExact'
    BY Zenon DEF ImportExact
  <1> QED BY <1>6, <1>7, <1>8, Zenon DEF ImportIInv

LEMMA HeaderIInv ==
    ASSUME ImportIInv, Header, ImportAssumption
    PROVE  ImportIInv'
  <1>1. FileOK /\ file' = file /\ FileOK'
    BY PartsUnmoved DEF ImportIInv, Header
  <1>2. /\ size = <<0, 0, 0>> /\ voxels = <<>> /\ count = 0 /\ emit = [i \in Indices |-> 0]
        /\ UNCHANGED <<size, voxels, count, emit>>
    BY DEF ImportIInv, Header, Fresh
  <1>3. Size = file.cut /\ file.cut \in Nat /\ ChunkCount \in Nat /\ St(1) = 5
    BY <1>1, FileWords, Ends
  <1>4. CASE Size >= 3 /\ U32(0) = "VOX " /\ U32(2) = "MAIN"
    <2>1. pc' = "walk" /\ pos' = 5 /\ colors' = [i \in Indices |-> Grey(i)]
      BY <1>4 DEF Header, HeaderWords
    <2>2. Says(0, size', voxels', count', colors', emit')
      <3>1. /\ colors' = [m \in Indices |-> ColorIn(1..0, m)]
            /\ emit' = [m \in Indices |-> GlowOf(1..0, m)]
        BY <1>2, <2>1, NothingSaid
      <3>2. size' = SizeOf(1..0)
        BY <1>2, NothingSaid, Zenon
      <3> DEFINE dots == Dots(1..0)
      <3>3. dots = {} /\ voxels' = VoxelsOf(dots)
        BY <1>2, NothingSaid, Zenon
      <3> HIDE DEF dots
      <3>4. /\ Lasting(dots) /\ count' = Cardinality(dots) /\ \A d \in dots : d[1] <= 0
        <4>1. Cardinality({}) = 0 /\ IsFiniteSet({})
          BY FS_EmptySet
        <4>2. Lasting({})
          BY <4>1 DEF Lasting
        <4> QED BY <1>2, <3>3, <4>1, <4>2
      <3> QED BY <3>1, <3>2, <3>3, <3>4, Zenon DEF Says, DotsSay, ColorsSay, GlowSays, dots
    <2>3. 0 \in 0..ChunkCount /\ 0 + 1 = 1 /\ \A i \in 1..0 : Present(i) >= 0
      BY <1>3
    <2> QED BY <1>1, <1>3, <2>1, <2>2, <2>3, WalkedOn
  <1>5. CASE ~(Size >= 3 /\ U32(0) = "VOX " /\ U32(2) = "MAIN")
    <2>1. pc' = "failed"
      BY <1>5 DEF Header
    <2>2. file.cut >= 3 => file.head[1] # "VOX " \/ file.head[2] # "MAIN"
      <3> SUFFICES ASSUME file.cut >= 3 PROVE file.head[1] # "VOX " \/ file.head[2] # "MAIN"
        OBVIOUS
      <3>1. U32(0) = file.head[1] /\ U32(2) = file.head[2]
        BY <1>1, HeadRead
      <3>2. Size >= 3
        BY <1>3
      <3> QED BY <1>5, <3>1, <3>2, Zenon
    <2>3. file.head # <<"VOX ", "MAIN">> \/ file.cut < 3
      <3>1. \A h, v, w : h = <<v, w>> => h[1] = v /\ h[2] = w
        OBVIOUS
      <3>2. file.cut >= 3 \/ file.cut < 3
        BY <1>3
      <3> QED BY <2>2, <3>1, <3>2, Zenon
    <2>4. (file.head # <<"VOX ", "MAIN">> \/ file.cut < 3)'
      BY <1>1, <2>3, Zenon
    <2>5. ImportExact'
      BY <2>1, <2>4, Zenon DEF ImportExact
    <2> QED BY <1>1, <2>1, <2>5, Zenon DEF ImportIInv
  <1> QED BY <1>4, <1>5

-----------------------------------------------------------------------------
(* The steps.                                                              *)

\* The reader stands before chunk k and has read the ones before it.
Standing(k) ==
    /\ HeadAt(k) /\ Says(k - 1, size, voxels, count, colors, emit)
    /\ \A i \in 1..k : Present(i) >= 0

LEMMA Stands ==
    ASSUME FileOK, ImportAssumption, NEW k \in 0..ChunkCount, Walked(k), CanRead(pos, ChunkHeader)
    PROVE  Standing(k + 1)
  <1>1. ChunkCount \in Nat /\ file.cut \in Nat /\ file.cut <= St(ChunkCount + 1) /\ St(ChunkCount + 1) \in Nat
    BY Ends
  <1>2. Size = file.cut
    BY FileWords
  <1>3. pos = St(k + 1) /\ Says(k, size, voxels, count, colors, emit) /\ \A i \in 1..k : Present(i) >= 0
    BY DEF Walked
  <1>4. St(k + 1) + 3 <= file.cut
    BY <1>2, <1>3 DEF CanRead, ChunkHeader
  <1>5. k + 1 \in 1..ChunkCount
    <2>1. CASE k = ChunkCount
      BY <1>1, <1>4, <2>1
    <2>2. CASE k # ChunkCount
      BY <1>1, <2>2
    <2> QED BY <2>1, <2>2
  <1>6. Present(k + 1) >= 0
    <2>1. St(k + 1) \in Nat
      BY <1>5, Ends
    <2>2. Present(k + 1) = file.cut - St(k + 1) - 3
      BY Zenon DEF Present, St, ChunkHeader
    <2> QED BY <1>1, <1>4, <2>1, <2>2
  <1>7. (k + 1) - 1 = k /\ 1..(k + 1) = (1..k) \cup {k + 1}
    BY <1>1
  <1>8. \A i \in 1..(k + 1) : Present(i) >= 0
    BY <1>3, <1>6, <1>7
  <1> QED BY <1>3, <1>5, <1>6, <1>7, <1>8, Zenon DEF Standing, HeadAt

\* Behind the chunk it stands before the next one.
LEMMA ChunkRead ==
    ASSUME NEW k, Standing(k), ImportAssumption, NEW p \in Int, p <= SelfEnd,
           pos' = After(p), file' = file, pc' = "walk",
           Says(k, size', voxels', count', colors', emit')
    PROVE  ImportIInv'
  <1>1. HeadAt(k) /\ FileOK /\ k \in 1..ChunkCount /\ \A i \in 1..k : Present(i) >= 0
    BY Zenon DEF Standing, HeadAt
  <1>2. SelfEnd = St(k + 1) /\ St(k + 1) \in Int /\ ChunkCount \in Nat
    <2>1. St(k) \in Nat /\ Len(Whole(k)) \in Nat /\ St(k + 1) = St(k) + 3 + Len(Whole(k))
      BY <1>1, Ends
    <2>2. St(k + 1) \in Int
      BY <2>1
    <2> QED BY <1>1, <2>2, HeaderRead, Ends
  <1>3. After(p) = St(k + 1)
    <2>1. Max({p, SelfEnd}) = SelfEnd
      BY <1>2, Pairs
    <2> QED BY <1>2, <2>1, Zenon DEF After
  <1>4. k \in 0..ChunkCount
    BY <1>1, <1>2
  <1> QED BY <1>1, <1>3, <1>4, WalkedOn

\* The chunk that is read, and how long it is.
LEMMA ChunkHere ==
    ASSUME NEW k, Standing(k), ImportAssumption
    PROVE  /\ HeadAt(k) /\ k \in Nat \ {0} /\ k \in 1..ChunkCount /\ FileOK
           /\ Tag = file.chunks[k].tag /\ file.chunks[k] \in Chunks /\ Whole(k) = file.chunks[k].body
           /\ Len(Whole(k)) \in Nat /\ Self \in Nat /\ SelfEnd = Self + Len(Whole(k))
           /\ Says(k - 1, size, voxels, count, colors, emit)
  <1>1. HeadAt(k) /\ FileOK /\ k \in 1..ChunkCount /\ Says(k - 1, size, voxels, count, colors, emit)
    BY Zenon DEF Standing, HeadAt
  <1>2. ChunkCount \in Nat /\ k \in Nat \ {0}
    BY <1>1, Ends
  <1>3. /\ file.chunks[k] \in Chunks /\ St(k) \in Nat /\ Len(Whole(k)) \in Nat
        /\ St(k + 1) = St(k) + 3 + Len(Whole(k))
    BY <1>1, Ends
  <1>4. Tag = file.chunks[k].tag /\ Self = St(k) + 3 /\ SelfEnd = St(k + 1)
    BY <1>1, HeaderRead
  <1>5. Self \in Nat /\ SelfEnd = Self + Len(Whole(k))
    BY <1>3, <1>4
  <1>6. Whole(k) = file.chunks[k].body
    BY Zenon DEF Whole
  <1> QED BY <1>1, <1>2, <1>3, <1>4, <1>5, <1>6, Zenon

\* What a chunk of another kind leaves said.
LEMMA Untold ==
    ASSUME NEW k \in Nat \ {0}, Says(k - 1, size, voxels, count, colors, emit)
    PROVE  /\ file.chunks[k].tag # "SIZE" => size = SizeOf(1..k)
           /\ file.chunks[k].tag # "XYZI" => DotsSay(k, voxels, count)
           /\ file.chunks[k].tag # "RGBA" => ColorsSay(k, colors)
           /\ file.chunks[k].tag # "MATL" => GlowSays(k, emit)
  <1>1. file.chunks[k].tag # "SIZE" => size = SizeOf(1..k)
    BY KindKept, Zenon DEF Says
  <1>2. ASSUME file.chunks[k].tag # "XYZI" PROVE DotsSay(k, voxels, count)
    <2>1. Dots(1..k) = Dots(1..(k - 1))
      BY <1>2, KindKept, Zenon
    <2>2. PICK dots : /\ dots = Dots(1..(k - 1)) /\ Lasting(dots) /\ \A d \in dots : d[1] <= k - 1
                      /\ voxels = VoxelsOf(dots) /\ count = Cardinality(dots)
      BY Zenon DEF Says, DotsSay
    <2>3. ASSUME NEW d \in dots PROVE d[1] <= k
      <3>1. d[1] \in Nat
        BY <2>2 DEF Lasting
      <3> QED BY <2>2, <3>1
    <2> QED BY <2>1, <2>2, <2>3, Zenon DEF DotsSay
  <1>3. ASSUME file.chunks[k].tag # "RGBA" PROVE ColorsSay(k, colors)
    <2>1. \A m : ColorIn(1..k, m) = ColorIn(1..(k - 1), m)
      BY <1>3, KindKept, Zenon
    <2>2. [m \in Indices |-> ColorIn(1..k, m)] = [m \in Indices |-> ColorIn(1..(k - 1), m)]
      BY <2>1, Zenon
    <2> QED BY <2>2, Zenon DEF Says, ColorsSay
  <1>4. ASSUME file.chunks[k].tag # "MATL" PROVE GlowSays(k, emit)
    <2>1. \A m : GlowOf(1..k, m) = GlowOf(1..(k - 1), m)
      BY <1>4, KindKept, Zenon
    <2>2. [m \in Indices |-> GlowOf(1..k, m)] = [m \in Indices |-> GlowOf(1..(k - 1), m)]
      BY <2>1, Zenon
    <2> QED BY <2>2, Zenon DEF Says, GlowSays
  <1> QED BY <1>1, <1>2, <1>3, <1>4

LEMMA ReadSizeIInv ==
    ASSUME NEW k, Standing(k), ImportAssumption, ReadSize
    PROVE  ImportIInv'
  <1>1. /\ HeadAt(k) /\ k \in Nat \ {0} /\ Tag = file.chunks[k].tag /\ file.chunks[k] \in Chunks
        /\ Whole(k) = file.chunks[k].body /\ Len(Whole(k)) \in Nat
        /\ Self \in Nat /\ SelfEnd = Self + Len(Whole(k))
        /\ Says(k - 1, size, voxels, count, colors, emit)
    BY ChunkHere
  <1>2. /\ Tag = "SIZE" /\ pc = "walk" /\ size' = <<U32(Self), U32(Self + 1), U32(Self + 2)>>
        /\ pos' = After(Self + 3)
        /\ file' = file /\ pc' = pc /\ voxels' = voxels /\ count' = count /\ colors' = colors /\ emit' = emit
    BY DEF ReadSize, AtChunk
  <1>3. file.chunks[k].tag = "SIZE" /\ Len(Whole(k)) >= 3
    BY <1>1, <1>2, Zenon DEF ImportAssumption
  <1>4. U32(Self) = At(Body(k), 1) /\ U32(Self + 1) = At(Body(k), 2) /\ U32(Self + 2) = At(Body(k), 3)
    <2>1. /\ 0 \in Nat /\ 1 \in Nat /\ 2 \in Nat /\ 0 + 1 = 1 /\ 1 + 1 = 2 /\ 2 + 1 = 3
          /\ 0 < Len(Whole(k)) /\ 1 < Len(Whole(k)) /\ 2 < Len(Whole(k)) /\ Self + 0 = Self
      BY <1>1, <1>3
    <2>2. U32(Self + 0) = At(Body(k), 0 + 1)
      BY <1>1, <2>1, WordRead
    <2>3. U32(Self + 1) = At(Body(k), 1 + 1)
      BY <1>1, <2>1, WordRead
    <2>4. U32(Self + 2) = At(Body(k), 2 + 1)
      BY <1>1, <2>1, WordRead
    <2> QED BY <2>1, <2>2, <2>3, <2>4, Zenon
  <1>5. size' = SizeOf(1..k)
    BY <1>1, <1>2, <1>3, <1>4, SizeSaid, Zenon
  <1>6. Says(k, size', voxels', count', colors', emit')
    <2>1. "SIZE" # "XYZI" /\ "SIZE" # "RGBA" /\ "SIZE" # "MATL"
      OBVIOUS
    <2> QED BY <1>1, <1>2, <1>3, <1>5, <2>1, Untold, Zenon DEF Says
  <1>7. Self + 3 \in Int /\ Self + 3 <= SelfEnd
    BY <1>1, <1>3
  <1> QED BY <1>2, <1>6, <1>7, ChunkRead, Zenon

\* A part of a chunk's body that is there.
LEMMA PartRead ==
    ASSUME NEW k, Standing(k), ImportAssumption, NEW a \in Nat, NEW m \in Int, m <= Len(Body(k))
    PROVE  LET part == SubSeq(Body(k), a + 1, m)
           IN  /\ Len(part) = (IF a + 1 <= m THEN m - a ELSE 0) /\ Len(part) \in Nat
               /\ DOMAIN part = 1..Len(part)
               /\ \A i \in 1..Len(part) : part[i] = Body(k)[a + i] /\ part[i] = Whole(k)[a + i]
  <1> DEFINE B == Body(k)
             part == SubSeq(B, a + 1, m)
  <1>1. /\ B \in Seq(ChunkWord) /\ Len(B) \in Nat /\ \A i \in 1..Len(B) : B[i] = Whole(k)[i]
    BY ChunkHere, BodyOK DEF HeadAt
  <1> HIDE DEF B
  <1>2. Sliced(ChunkWord, B, a + 1, m, part)
    <2>1. a + 1 \in Nat \ {0} /\ m <= Len(B)
      BY DEF B
    <2> QED BY <1>1, <2>1, Slice, Zenon
  <1> HIDE DEF part
  <1>3. part \in Seq(ChunkWord) /\ Len(part) = (IF a + 1 <= m THEN m - a ELSE 0)
    BY <1>2 DEF Sliced
  <1>4. ASSUME NEW i \in 1..Len(part) PROVE part[i] = B[a + i] /\ part[i] = Whole(k)[a + i]
    <2>1. i \in 1..(m - (a + 1) + 1) /\ (a + 1) + i - 1 = a + i /\ a + i \in 1..Len(B)
      <3>1. m <= Len(B)
        BY DEF B
      <3> QED BY <1>1, <1>3, <3>1
    <2>2. part[i] = B[(a + 1) + i - 1]
      BY <1>2, <2>1, Zenon DEF Sliced
    <2> QED BY <1>1, <2>1, <2>2, Zenon
  <1>5. Len(part) \in Nat /\ DOMAIN part = 1..Len(part)
    BY <1>3
  <1> QED BY <1>3, <1>4, <1>5, Zenon DEF part, B

\* A number that a chunk counts by, as it is read.
LEMMA CountRead ==
    ASSUME NEW k, Standing(k), ImportAssumption, NEW j \in 1..Len(Whole(k)), Whole(k)[j].val \in Nat
    PROVE  At(Body(k), j) \in Nat /\ At(Body(k), j) \in {Whole(k)[j].val, 0}
  <1>1. /\ Len(Body(k)) \in Nat /\ \A i \in 1..Len(Body(k)) : Body(k)[i] = Whole(k)[i]
    BY ChunkHere, BodyOK DEF HeadAt
  <1>2. j \in Nat /\ j >= 1
    BY ChunkHere
  <1>3. CASE j <= Len(Body(k))
    <2>1. j \in 1..Len(Body(k))
      BY <1>1, <1>2, <1>3
    <2> QED BY <1>1, <1>3, <2>1 DEF At
  <1>4. CASE ~(j <= Len(Body(k)))
    BY <1>4 DEF At
  <1> QED BY <1>3, <1>4

LEMMA ReadXyziIInv ==
    ASSUME NEW k, Standing(k), ImportAssumption, ReadXyzi
    PROVE  ImportIInv'
  <1> DEFINE B == Body(k)
             b == Len(Whole(k))
             n == At(B, 1)
             z == Len(B)
             m == Min({1 + n, z})
             read == SubSeq(B, 2, m)
  <1>1. /\ HeadAt(k) /\ k \in Nat \ {0} /\ Tag = file.chunks[k].tag /\ file.chunks[k] \in Chunks
        /\ Whole(k) = file.chunks[k].body /\ b \in Nat
        /\ Self \in Nat /\ SelfEnd = Self + b
        /\ Says(k - 1, size, voxels, count, colors, emit)
    BY ChunkHere
  <1>2. /\ Tag = "XYZI" /\ pc = "walk"
        /\ voxels' = PutAll(voxels, Take(Self + 1, U32(Self)))
        /\ count' = count + Len(Take(Self + 1, U32(Self)))
        /\ pos' = After(Self + 1 + Len(Take(Self + 1, U32(Self))))
        /\ file' = file /\ pc' = pc /\ size' = size /\ colors' = colors /\ emit' = emit
    BY DEF ReadXyzi, AtChunk
  <1>3. file.chunks[k].tag = "XYZI" /\ b >= 1 /\ Whole(k)[1].val \in 0..(b - 1)
    BY <1>1, <1>2, Zenon DEF ImportAssumption
  <1>4. U32(Self) = n
    <2>1. 0 \in Nat /\ 0 + 1 = 1 /\ 0 < Len(Whole(k)) /\ Self + 0 = Self
      BY <1>1, <1>3
    <2>2. U32(Self + 0) = At(Body(k), 0 + 1)
      BY <1>1, <2>1, WordRead
    <2> QED BY <2>1, <2>2, Zenon
  <1>5. n \in Nat /\ 1 + n <= b
    <2> DEFINE v == Whole(k)[1].val
    <2>1. 1 \in 1..b /\ v \in Nat /\ v <= b - 1
      BY <1>1, <1>3
    <2>2. n \in Nat /\ n \in {v, 0}
      BY <2>1, CountRead, Zenon
    <2> HIDE DEF n, v, b
    <2> QED BY <1>1, <1>3, <2>1, <2>2
  <1>6. z \in Nat /\ z <= b
    BY <1>1, BodyOK DEF HeadAt
  <1>7. Take(Self + 1, U32(Self)) = read
    <2>1. 1 \in Nat /\ 1 + 1 = 2
      OBVIOUS
    <2>2. Take(Self + 1, n) = SubSeq(Body(k), 1 + 1, Min({1 + n, Len(Body(k))}))
      BY <1>1, <1>5, <2>1, ListRead, Zenon
    <2> QED BY <1>4, <2>1, <2>2, Zenon
  <1>8. m = (IF 1 + n <= z THEN 1 + n ELSE z)
    <2>1. 1 + n \in Int /\ z \in Int
      <3> HIDE DEF n, z
      <3> QED BY <1>5, <1>6
    <2> QED BY <2>1, Pairs, Zenon
  <1>9. m = Min({z, n + 1})
    <2>1. {1 + n, z} = {z, n + 1}
      BY <1>5
    <2> QED BY <2>1, Zenon
  <1>10. m \in Int /\ m <= Len(Body(k)) /\ m <= b
    <2> HIDE DEF m, n, b
    <2>1. m \in Int /\ m <= z /\ m <= b
      BY <1>1, <1>5, <1>6, <1>8
    <2> QED BY <2>1, Zenon
  <1>11. /\ Len(read) = (IF 2 <= m THEN m - 1 ELSE 0) /\ Len(read) \in Nat
         /\ \A i \in 1..Len(read) : read[i] = Whole(k)[1 + i]
    <2>1. 1 \in Nat /\ 1 + 1 = 2
      OBVIOUS
    <2> HIDE DEF m
    <2> QED BY <1>10, <2>1, PartRead
  <1>12. 2..(Len(read) + 1) = 2..Min({Len(Body(k)), At(Body(k), 1) + 1})
    <2>1. 2..(Len(read) + 1) = 2..m
      <3> HIDE DEF m, read
      <3> QED BY <1>10, <1>11
    <2> QED BY <1>9, <2>1, Zenon
  <1>13. {k} \X (2..(Len(read) + 1)) = DotsIn(k)
    BY <1>12, Zenon DEF DotsIn
  <1>14. \A i \in 1..Len(read) : read[i].val = Dot(<<k, i + 1>>)
    <2> TAKE i \in 1..Len(read)
    <2>1. 1 + i = i + 1
      BY <1>11
    <2>2. Dot(<<k, i + 1>>) = Whole(k)[i + 1].val
      <3>1. <<k, i + 1>>[1] = k /\ <<k, i + 1>>[2] = i + 1
        OBVIOUS
      <3> QED BY <3>1, Zenon DEF Dot, Whole
    <2> QED BY <1>11, <2>1, <2>2, Zenon
  <1>15. PICK D : /\ D = Dots(1..(k - 1)) /\ Lasting(D) /\ \A d \in D : d[1] <= k - 1
                  /\ voxels = VoxelsOf(D) /\ count = Cardinality(D)
    BY <1>1, Zenon DEF Says, DotsSay
  <1> DEFINE E == D \cup ({k} \X (2..(Len(read) + 1)))
  <1>16. \A d \in D : d[1] < k /\ d[1] <= k
    <2> TAKE d \in D
    <2>1. d[1] \in Nat
      BY <1>15 DEF Lasting
    <2> QED BY <1>1, <1>15, <2>1
  <1> HIDE DEF read, n, m
  <1>17. /\ Lasting(E) /\ Cardinality(E) = Cardinality(D) + Len(read)
         /\ VoxelsOf(E) = PutAll(VoxelsOf(D), read)
    <2>1. k \in Nat /\ Lasting(D) /\ Len(read) \in Nat /\ \A d \in D : d[1] < k
      BY <1>1, <1>11, <1>15, <1>16
    <2> QED BY <1>14, <2>1, ListAdded, Zenon
  <1>18. E = Dots(1..k)
    BY <1>1, <1>3, <1>13, <1>15, DotsSaid, Zenon
  <1>19. \A d \in E : d[1] <= k
    BY <1>1, <1>16
  <1> HIDE DEF E
  <1>20. DotsSay(k, voxels', count')
    BY <1>2, <1>7, <1>15, <1>17, <1>18, <1>19, Zenon DEF DotsSay
  <1>21. Says(k, size', voxels', count', colors', emit')
    <2>1. "XYZI" # "SIZE" /\ "XYZI" # "RGBA" /\ "XYZI" # "MATL"
      OBVIOUS
    <2> QED BY <1>1, <1>2, <1>3, <1>20, <2>1, Untold, Zenon DEF Says
  <1>22. Self + 1 + Len(read) \in Int /\ Self + 1 + Len(read) <= SelfEnd
    <2> HIDE DEF b
    <2> QED BY <1>1, <1>3, <1>10, <1>11
  <1> QED BY <1>2, <1>7, <1>21, <1>22, ChunkRead, Zenon

LEMMA ReadRgbaIInv ==
    ASSUME NEW k, Standing(k), ImportAssumption, ReadRgba
    PROVE  ImportIInv'
  <1> DEFINE B == Body(k)
             b == Len(Whole(k))
             z == Len(B)
             m == Min({ColorSlots, z})
             read == SubSeq(B, 1, m)
  <1>1. /\ HeadAt(k) /\ k \in Nat \ {0} /\ Tag = file.chunks[k].tag /\ file.chunks[k] \in Chunks
        /\ Whole(k) = file.chunks[k].body /\ b \in Nat
        /\ Self \in Nat /\ SelfEnd = Self + b
        /\ Says(k - 1, size, voxels, count, colors, emit)
    BY ChunkHere
  <1>2. /\ Tag = "RGBA" /\ pc = "walk"
        /\ LET got == Take(Self, ColorSlots)
           IN  /\ colors' = [i \in Indices |-> IF i \in DOMAIN got THEN got[i].val ELSE colors[i]]
               /\ pos' = After(Self + Len(got))
        /\ file' = file /\ pc' = pc /\ size' = size /\ voxels' = voxels /\ count' = count /\ emit' = emit
    BY DEF ReadRgba, AtChunk
  <1>3. file.chunks[k].tag = "RGBA" /\ b >= ColorSlots /\ ColorSlots \in Nat
    BY <1>1, <1>2, Zenon DEF ImportAssumption
  <1>4. z \in Nat /\ z <= b
    BY <1>1, BodyOK DEF HeadAt
  <1>5. Take(Self, ColorSlots) = read
    <2>1. 0 \in Nat /\ 0 + 1 = 1 /\ 0 + ColorSlots = ColorSlots /\ Self + 0 = Self /\ 0 + ColorSlots <= b
      <3> DEFINE t == Self
      <3>1. t \in Nat /\ b \in Nat /\ b >= ColorSlots /\ ColorSlots \in Nat
        BY <1>1, <1>3, Zenon
      <3> HIDE DEF t, b
      <3>2. 0 \in Nat /\ 0 + 1 = 1 /\ 0 + ColorSlots = ColorSlots /\ t + 0 = t /\ 0 + ColorSlots <= b
        BY <3>1
      <3> QED BY <3>2, Zenon DEF t
    <2>2. Take(Self + 0, ColorSlots) = SubSeq(Body(k), 0 + 1, Min({0 + ColorSlots, Len(Body(k))}))
      BY <1>1, <1>3, <2>1, ListRead, Zenon
    <2> QED BY <2>1, <2>2, Zenon
  <1>6. m = (IF ColorSlots <= z THEN ColorSlots ELSE z)
    <2>1. ColorSlots \in Int /\ z \in Int
      BY <1>3, <1>4
    <2> QED BY <2>1, Pairs, Zenon
  <1>7. m \in Int /\ m <= Len(Body(k)) /\ m <= b /\ m >= 0
    <2> HIDE DEF m, b
    <2>1. m \in Int /\ m <= z /\ m <= b /\ m >= 0
      BY <1>1, <1>3, <1>4, <1>6
    <2> QED BY <2>1, Zenon
  <1>8. /\ Len(read) = m /\ DOMAIN read = 1..m
        /\ \A i \in 1..m : read[i] = B[i]
    <2>1. 0 \in Nat /\ 0 + 1 = 1
      OBVIOUS
    <2>2. /\ Len(read) = (IF 1 <= m THEN m - 0 ELSE 0) /\ DOMAIN read = 1..Len(read)
          /\ \A i \in 1..Len(read) : read[i] = B[0 + i]
      <3> HIDE DEF m
      <3> QED BY <1>7, <2>1, PartRead
    <2> HIDE DEF m, read, B
    <2> QED BY <1>7, <2>2
  <1>9. colors = [i \in Indices |-> ColorIn(1..(k - 1), i)]
    BY <1>1, Zenon DEF Says, ColorsSay
  <1>10. ASSUME NEW i \in Indices
         PROVE  (IF i \in DOMAIN read THEN read[i].val ELSE colors[i]) = ColorIn(1..k, i)
    <2>1. i \in DOMAIN read <=> i # 0 /\ z >= i
      <3> HIDE DEF read, m
      <3>1. i \in 0..(ColorSlots - 1)
        BY <1>10 DEF Indices
      <3> HIDE DEF z
      <3>2. i \in 1..m <=> i # 0 /\ z >= i
        BY <1>3, <1>4, <1>6, <3>1
      <3> QED BY <1>8, <3>2, Zenon
    <2>2. ColorIn(1..k, i) = IF i # 0 /\ z >= i THEN B[i].val ELSE ColorIn(1..(k - 1), i)
      BY <1>1, <1>3, ColorSaid, Zenon
    <2>3. colors[i] = ColorIn(1..(k - 1), i)
      BY <1>9, <1>10, Zenon
    <2>4. CASE i \in DOMAIN read
      BY <1>8, <2>1, <2>2, <2>4, Zenon
    <2>5. CASE i \notin DOMAIN read
      BY <2>1, <2>2, <2>3, <2>5, Zenon
    <2> QED BY <2>4, <2>5, Zenon
  <1>11. ColorsSay(k, colors')
    <2>1. colors' = [i \in Indices |-> IF i \in DOMAIN read THEN read[i].val ELSE colors[i]]
      BY <1>2, <1>5, Zenon
    <2> HIDE DEF read
    <2>2. [i \in Indices |-> IF i \in DOMAIN read THEN read[i].val ELSE colors[i]]
            = [i \in Indices |-> ColorIn(1..k, i)]
      BY <1>10, Zenon
    <2> QED BY <2>1, <2>2, Zenon DEF ColorsSay
  <1>12. Says(k, size', voxels', count', colors', emit')
    <2>1. "RGBA" # "SIZE" /\ "RGBA" # "XYZI" /\ "RGBA" # "MATL"
      OBVIOUS
    <2> QED BY <1>1, <1>2, <1>3, <1>11, <2>1, Untold, Zenon DEF Says
  <1>13. Self + Len(read) \in Int /\ Self + Len(read) <= SelfEnd
    <2> HIDE DEF b, read, m
    <2> QED BY <1>1, <1>7, <1>8
  <1> QED BY <1>2, <1>5, <1>12, <1>13, ChunkRead, Zenon

LEMMA ReadMatlIInv ==
    ASSUME NEW k, Standing(k), ImportAssumption, ReadMatl
    PROVE  ImportIInv'
  <1> DEFINE B == Body(k)
             b == Len(Whole(k))
             z == Len(B)
             e == At(B, 2)
             n == Min({e, SelfEnd - Self - 2})
             m == Min({2 + n, z})
             dict == SubSeq(B, 3, m)
             id == At(B, 1)
  <1>1. /\ HeadAt(k) /\ k \in Nat \ {0} /\ Tag = file.chunks[k].tag /\ file.chunks[k] \in Chunks
        /\ Whole(k) = file.chunks[k].body /\ b \in Nat
        /\ Self \in Nat /\ SelfEnd = Self + b
        /\ Says(k - 1, size, voxels, count, colors, emit)
    BY ChunkHere
  <1>2. /\ Tag = "MATL" /\ pc = "walk"
        /\ LET num == U32(Self)
               got == Take(Self + 2, Min({U32(Self + 1), SelfEnd - Self - 2}))
           IN  /\ emit' = IF Emissive(got) /\ num \in Indices THEN [emit EXCEPT ![num] = Power(got)] ELSE emit
               /\ pos' = After(Self + 2 + Len(got))
        /\ file' = file /\ pc' = pc /\ size' = size /\ voxels' = voxels /\ count' = count /\ colors' = colors
    BY DEF ReadMatl, AtChunk
  <1>3. file.chunks[k].tag = "MATL" /\ b >= 2 /\ Whole(k)[2].val \in Nat
    BY <1>1, <1>2, Zenon DEF ImportAssumption
  <1>4. U32(Self) = id /\ U32(Self + 1) = e
    <2>1. 0 \in Nat /\ 1 \in Nat /\ 0 + 1 = 1 /\ 1 + 1 = 2 /\ 0 < b /\ 1 < b /\ Self + 0 = Self
      BY <1>1, <1>3
    <2>2. U32(Self + 0) = At(Body(k), 0 + 1)
      BY <1>1, <2>1, WordRead
    <2>3. U32(Self + 1) = At(Body(k), 1 + 1)
      BY <1>1, <2>1, WordRead
    <2> QED BY <2>1, <2>2, <2>3, Zenon
  <1>5. e \in Nat
    <2>1. 2 \in 1..b
      BY <1>1, <1>3
    <2> QED BY <1>3, <2>1, CountRead, Zenon
  <1>6. z \in Nat /\ z <= b
    BY <1>1, BodyOK DEF HeadAt
  <1>7. n = (IF e <= b - 2 THEN e ELSE b - 2)
    <2>1. SelfEnd - Self - 2 = b - 2 /\ b - 2 \in Int
      BY <1>1, <1>3
    <2>2. e \in Int
      BY <1>5
    <2> HIDE DEF e, b
    <2>3. Min({e, b - 2}) = (IF e <= b - 2 THEN e ELSE b - 2)
      BY <2>1, <2>2, Pairs
    <2> QED BY <2>1, <2>3, Zenon
  <1>8. n \in Nat /\ 2 + n <= b
    <2> HIDE DEF n, e, b
    <2> QED BY <1>1, <1>3, <1>5, <1>7
  <1>9. m = (IF 2 + n <= z THEN 2 + n ELSE z)
    <2>1. 2 + n \in Int /\ z \in Int
      <3> HIDE DEF n, z
      <3> QED BY <1>6, <1>8
    <2> QED BY <2>1, Pairs, Zenon
  <1>10. m = Min({z, e + 2})
    <2>1. Min({z, e + 2}) = (IF z <= e + 2 THEN z ELSE e + 2)
      BY <1>5, <1>6, Pairs
    <2> HIDE DEF m, n, e, z, b
    <2> QED BY <1>1, <1>3, <1>5, <1>6, <1>7, <1>9, <2>1
  <1>11. Take(Self + 2, Min({U32(Self + 1), SelfEnd - Self - 2})) = dict
    <2>1. 2 \in Nat /\ 2 + 1 = 3
      OBVIOUS
    <2> HIDE DEF n
    <2>2. Take(Self + 2, n) = SubSeq(Body(k), 2 + 1, Min({2 + n, Len(Body(k))}))
      BY <1>1, <1>8, <2>1, ListRead, Zenon
    <2> QED BY <1>4, <2>1, <2>2, Zenon DEF n
  <1>12. dict = DictOf(B)
    BY <1>10, Zenon DEF DictOf
  <1>13. m \in Int /\ m <= Len(Body(k)) /\ m <= b
    <2> HIDE DEF m, b, n
    <2>1. m \in Int /\ m <= z /\ m <= b
      BY <1>1, <1>6, <1>8, <1>9
    <2> QED BY <2>1, Zenon
  <1>14. Len(dict) = (IF 3 <= m THEN m - 2 ELSE 0)
    <2>1. 2 \in Nat /\ 2 + 1 = 3
      OBVIOUS
    <2> HIDE DEF m
    <2> QED BY <1>13, <2>1, PartRead
  <1>15. emit = [i \in Indices |-> GlowOf(1..(k - 1), i)]
    BY <1>1, Zenon DEF Says, GlowSays
  <1>16. emit' = IF Emissive(dict) /\ id \in Indices THEN [emit EXCEPT ![id] = Power(dict)] ELSE emit
    BY <1>2, <1>4, <1>11, Zenon
  <1>17. \A i : GlowOf(1..k, i) = IF id = i /\ Emissive(dict) THEN Power(dict) ELSE GlowOf(1..(k - 1), i)
    BY <1>1, <1>3, <1>12, GlowSaid, Zenon
  <1> HIDE DEF dict, id
  <1>18. emit' = [i \in Indices |-> GlowOf(1..k, i)]
    <2> DEFINE old(i) == GlowOf(1..(k - 1), i)
               new(i) == GlowOf(1..k, i)
    <2>1. \A i : new(i) = IF id = i /\ Emissive(dict) THEN Power(dict) ELSE old(i)
      BY <1>17, Zenon
    <2>2. emit = [i \in Indices |-> old(i)]
      BY <1>15, Zenon
    <2> HIDE DEF old, new
    <2>3. emit' = [i \in Indices |-> new(i)]
      BY <1>16, <2>1, <2>2
    <2> QED BY <2>3, Zenon DEF new
  <1>19. Says(k, size', voxels', count', colors', emit')
    <2>1. "MATL" # "SIZE" /\ "MATL" # "XYZI" /\ "MATL" # "RGBA"
      OBVIOUS
    <2> QED BY <1>1, <1>2, <1>3, <1>18, <2>1, Untold, Zenon DEF Says, GlowSays
  <1>20. Self + 2 + Len(dict) \in Int /\ Self + 2 + Len(dict) <= SelfEnd
    <2> HIDE DEF b, m
    <2> QED BY <1>1, <1>3, <1>13, <1>14
  <1> QED BY <1>2, <1>11, <1>19, <1>20, ChunkRead, Zenon

LEMMA SkipChunkIInv ==
    ASSUME NEW k, Standing(k), ImportAssumption, SkipChunk
    PROVE  ImportIInv'
  <1>1. /\ k \in Nat \ {0} /\ Tag = file.chunks[k].tag
        /\ Len(Whole(k)) \in Nat /\ Self \in Nat /\ SelfEnd = Self + Len(Whole(k))
        /\ Says(k - 1, size, voxels, count, colors, emit)
    BY ChunkHere
  <1>2. /\ Tag # "SIZE" /\ Tag # "XYZI" /\ Tag # "RGBA" /\ Tag # "MATL"
        /\ pc = "walk" /\ pos' = After(Self) /\ file' = file /\ pc' = pc
        /\ size' = size /\ voxels' = voxels /\ count' = count /\ colors' = colors /\ emit' = emit
    BY DEF SkipChunk, scene
  <1>3. Says(k, size', voxels', count', colors', emit')
    BY <1>1, <1>2, Untold, Zenon DEF Says
  <1>4. Self \in Int /\ Self <= SelfEnd
    BY <1>1
  <1> QED BY <1>2, <1>3, <1>4, ChunkRead, Zenon

\* Chunks stand one behind the other.
LEMMA StartsGrow ==
    ASSUME FileOK, ImportAssumption, NEW k \in 1..(ChunkCount + 1), NEW i \in k..ChunkCount
    PROVE  St(k) <= St(i)
  <1> DEFINE S == {n \in Nat : k + n <= ChunkCount => St(k) <= St(k + n)}
  <1>1. ChunkCount \in Nat /\ k \in Nat /\ i - k \in Nat /\ k + (i - k) = i /\ i <= ChunkCount
    BY Ends
  <1>2. \A j \in 1..ChunkCount : St(j) \in Nat /\ St(j + 1) \in Int /\ St(j) <= St(j + 1)
    <2> TAKE j \in 1..ChunkCount
    <2>1. St(j) \in Nat /\ Len(Whole(j)) \in Nat /\ St(j + 1) = St(j) + 3 + Len(Whole(j))
      BY Ends
    <2> QED BY <2>1
  <1>3. 0 \in S
    <2> SUFFICES ASSUME k + 0 <= ChunkCount PROVE St(k) <= St(k + 0)
      OBVIOUS
    <2>1. k + 0 = k /\ k \in 1..ChunkCount
      BY <1>1
    <2> QED BY <1>2, <2>1
  <1>4. ASSUME NEW n \in S PROVE n + 1 \in S
    <2>1. n \in Nat /\ n + 1 \in Nat
      OBVIOUS
    <2> SUFFICES ASSUME k + (n + 1) <= ChunkCount PROVE St(k) <= St(k + (n + 1))
      BY <2>1
    <2>2. k + n <= ChunkCount /\ k + n \in 1..ChunkCount /\ (k + n) + 1 = k + (n + 1) /\ k \in 1..ChunkCount
      BY <1>1, <2>1
    <2>3. St(k) <= St(k + n)
      BY <1>4, <2>2
    <2>4. St(k + n) <= St(k + (n + 1)) /\ St(k + n) \in Nat /\ St(k + (n + 1)) \in Int
      BY <1>2, <2>2, Zenon
    <2>5. St(k) \in Nat
      BY <1>2, <2>2
    <2> QED BY <2>3, <2>4, <2>5
  <1>5. S = Nat
    <2>1. S \in SUBSET Nat
      OBVIOUS
    <2> HIDE DEF S
    <2> QED BY <1>3, <1>4, <2>1, NatInductionOn
  <1>6. i - k \in S
    BY <1>1, <1>5
  <1> QED BY <1>1, <1>6

\* Where no more headers are, the reader has read all there are.
LEMMA AllRead ==
    ASSUME FileOK, ImportAssumption, NEW k \in 0..ChunkCount, Walked(k), ~CanRead(pos, ChunkHeader)
    PROVE  There = 1..k
  <1>1. ChunkCount \in Nat /\ file.cut \in Nat /\ Size = file.cut /\ DOMAIN file.chunks = 1..ChunkCount
    <2>1. DOMAIN file.chunks = 1..Len(file.chunks)
      BY DEF FileOK
    <2> QED BY <2>1, Ends, FileWords DEF ChunkCount
  <1>2. pos = St(k + 1) /\ \A i \in 1..k : Present(i) >= 0
    BY DEF Walked
  <1>3. St(k + 1) + 3 > file.cut
    <2>1. St(k + 1) \in Nat
      <3>1. CASE k = ChunkCount
        BY <3>1, Ends
      <3>2. CASE k # ChunkCount
        <4>1. k + 1 \in 1..ChunkCount
          BY <1>1, <3>2
        <4> QED BY <4>1, Ends
      <3> QED BY <3>1, <3>2
    <2>2. ~(St(k + 1) + 3 <= file.cut)
      BY <1>1, <1>2, Zenon DEF CanRead, ChunkHeader
    <2> QED BY <1>1, <2>1, <2>2
  <1>4. ASSUME NEW i \in (k + 1)..ChunkCount PROVE ~(Present(i) >= 0)
    <2>1. k + 1 \in 1..(ChunkCount + 1) /\ i \in 1..ChunkCount
      BY <1>1
    <2>2. St(k + 1) <= St(i) /\ St(i) \in Nat
      BY <2>1, StartsGrow, Ends
    <2>3. Present(i) = file.cut - St(i) - 3
      BY Zenon DEF Present, St, ChunkHeader
    <2>4. St(k + 1) \in Nat
      <3>1. k + 1 \in 1..ChunkCount
        BY <1>1
      <3> QED BY <3>1, Ends
    <2> QED BY <1>1, <1>3, <2>2, <2>3, <2>4
  <1>5. 1..ChunkCount = (1..k) \cup ((k + 1)..ChunkCount)
    BY <1>1
  <1> QED BY <1>1, <1>2, <1>4, <1>5 DEF There

\* A scene that is what the chunks there say is exact.
LEMMA DoneExact ==
    ASSUME FileOK, file' = file, pc' = "done",
           size' = SizeOf(There), voxels' = VoxelsOf(Dots(There)), count' = Cardinality(Dots(There)),
           colors' = [m \in Indices |-> ColorIn(There, m)],
           alpha' = [m \in Indices |-> Alpha(GlowOf(There, m))]
    PROVE  ImportIInv'
  <1>1. FileOK' /\ There' = There
    BY PartsUnmoved
  <1>2. PICK T, D : T = There /\ D = Dots(T)
    OBVIOUS
  <1>3. There' = T /\ Dots(T)' = D
    BY <1>1, <1>2, Unmoved, Zenon
  <1>4. /\ SizeOf(There)' = SizeOf(T)' /\ Dots(There)' = D /\ VoxelsOf(Dots(There))' = VoxelsOf(D)'
        /\ \A m : ColorIn(There, m)' = ColorIn(T, m)' /\ GlowOf(There, m)' = GlowOf(T, m)'
    BY <1>3, Zenon
  <1>5. SizeOf(T)' = SizeOf(T) /\ VoxelsOf(D)' = VoxelsOf(D)
    BY Unmoved, Zenon
  <1>6. /\ [m \in Indices |-> ColorIn(There, m)'] = [m \in Indices |-> ColorIn(There, m)]
        /\ [m \in Indices |-> Alpha(GlowOf(There, m)')] = [m \in Indices |-> Alpha(GlowOf(There, m))]
    <2>1. \A m : ColorIn(There, m)' = ColorIn(There, m) /\ GlowOf(There, m)' = GlowOf(There, m)
      BY <1>2, <1>4, Unmoved, Zenon
    <2> QED BY <2>1, Zenon
  <1>7. size' = SizeOf(There)' /\ voxels' = VoxelsOf(Dots(There))' /\ count' = Cardinality(Dots(There)')
    BY <1>2, <1>4, <1>5, Zenon
  <1>8. ImportExact'
    <2>1. pc' # "failed"
      OBVIOUS
    <2> QED BY <1>6, <1>7, <2>1, Zenon DEF ImportExact
  <1>9. pc' \in {"header", "walk", "done", "failed"} /\ pc' # "header" /\ pc' # "walk"
    OBVIOUS
  <1> QED BY <1>1, <1>8, <1>9, Zenon DEF ImportIInv

LEMMA PackIInv ==
    ASSUME ImportIInv, ImportAssumption, Pack
    PROVE  ImportIInv'
  <1>1. /\ pc = "walk" /\ ~CanRead(pos, ChunkHeader) /\ pc' = "done"
        /\ alpha' = [i \in Indices |-> Alpha(emit[i])]
        /\ file' = file /\ size' = size /\ voxels' = voxels /\ count' = count /\ colors' = colors
    BY DEF Pack
  <1>2. PICK k \in 0..ChunkCount : Walked(k)
    BY <1>1 DEF ImportIInv
  <1>3. FileOK /\ There = 1..k
    BY <1>1, <1>2, AllRead DEF ImportIInv
  <1>4. Says(k, size, voxels, count, colors, emit)
    BY <1>2, Zenon DEF Walked
  <1>5. alpha' = [m \in Indices |-> Alpha(GlowOf(There, m))]
    <2>1. emit = [m \in Indices |-> GlowOf(There, m)]
      BY <1>3, <1>4, Zenon DEF Says, GlowSays
    <2>2. \A m \in Indices : Alpha(emit[m]) = Alpha(GlowOf(There, m))
      BY <2>1, Zenon
    <2>3. [m \in Indices |-> Alpha(emit[m])] = [m \in Indices |-> Alpha(GlowOf(There, m))]
      BY <2>2, Zenon
    <2> QED BY <1>1, <2>3, Zenon
  <1>6. size' = SizeOf(There) /\ voxels' = VoxelsOf(Dots(There)) /\ count' = Cardinality(Dots(There))
    BY <1>1, <1>3, <1>4, Zenon DEF Says, DotsSay
  <1>7. colors' = [m \in Indices |-> ColorIn(There, m)]
    BY <1>1, <1>3, <1>4, Zenon DEF Says, ColorsSay
  <1> QED BY <1>1, <1>3, <1>5, <1>6, <1>7, DoneExact

LEMMA StutterIInv ==
    ASSUME ImportIInv, ImportAssumption, UNCHANGED importVars
    PROVE  ImportIInv'
  <1>1. /\ file' = file /\ pc' = pc /\ pos' = pos /\ emit' = emit /\ size' = size
        /\ voxels' = voxels /\ count' = count /\ colors' = colors /\ alpha' = alpha
    BY DEF importVars, scene
  <1>2. FileOK /\ FileOK' /\ pc \in {"header", "walk", "done", "failed"}
    BY <1>1, PartsUnmoved DEF ImportIInv
  <1>3. CASE pc = "header"
    <2>1. Fresh'
      BY <1>1, <1>3, Zenon DEF ImportIInv, Fresh, Indices
    <2>2. ImportExact'
      BY <1>1, <1>3 DEF ImportExact
    <2>3. pc' # "walk"
      BY <1>1, <1>3
    <2> QED BY <1>1, <1>2, <2>1, <2>2, <2>3, Zenon DEF ImportIInv
  <1>4. CASE pc = "walk"
    <2>1. PICK k \in 0..ChunkCount : Walked(k)
      BY <1>4 DEF ImportIInv
    <2> QED BY <1>1, <1>2, <1>4, <2>1, WalkedOn, Zenon DEF Walked
  <1>5. CASE pc = "done"
    <2>1. /\ size = SizeOf(There) /\ voxels = VoxelsOf(Dots(There)) /\ count = Cardinality(Dots(There))
          /\ colors = [m \in Indices |-> ColorIn(There, m)]
          /\ alpha = [m \in Indices |-> Alpha(GlowOf(There, m))]
      BY <1>5, Zenon DEF ImportIInv, ImportExact
    <2> QED BY <1>1, <1>2, <1>5, <2>1, DoneExact, Zenon
  <1>6. CASE pc = "failed"
    <2>1. (file.head # <<"VOX ", "MAIN">> \/ file.cut < 3)'
      BY <1>1, <1>6, Zenon DEF ImportIInv, ImportExact
    <2>2. pc' # "header" /\ pc' # "walk" /\ pc' # "done"
      BY <1>1, <1>6
    <2>3. ImportExact'
      BY <2>1, <2>2, Zenon DEF ImportExact
    <2> QED BY <1>1, <1>2, <2>2, <2>3, Zenon DEF ImportIInv
  <1> QED BY <1>2, <1>3, <1>4, <1>5, <1>6

LEMMA ImportNextIInv ==
    ASSUME ImportIInv, [ImportNext]_importVars, ImportAssumption
    PROVE  ImportIInv'
  <1>1. CASE Header
    BY <1>1, HeaderIInv
  <1>2. CASE Pack
    BY <1>2, PackIInv
  <1>3. CASE ReadSize \/ ReadXyzi \/ ReadRgba \/ ReadMatl \/ SkipChunk
    <2>1. pc = "walk" /\ CanRead(pos, ChunkHeader)
      BY <1>3 DEF ReadSize, ReadXyzi, ReadRgba, ReadMatl, SkipChunk, AtChunk
    <2>2. PICK k \in 0..ChunkCount : Walked(k)
      BY <2>1 DEF ImportIInv
    <2>3. Standing(k + 1)
      BY <2>1, <2>2, Stands DEF ImportIInv
    <2> QED BY <1>3, <2>3, ReadSizeIInv, ReadXyziIInv, ReadRgbaIInv, ReadMatlIInv, SkipChunkIInv
  <1>4. CASE UNCHANGED importVars
    BY <1>4, StutterIInv
  <1> QED BY <1>1, <1>2, <1>3, <1>4 DEF ImportNext

\* For every file: a scene that is imported is what the chunks say whose headers are
\* there, as far as their bodies are (CanRead's stops), and only a file without a
\* header fails.
THEOREM ImportCorrect == ImportSpec => []ImportExact
  <1>1. ImportInit => ImportIInv
    BY InitImportIInv, ImportAssumption
  <1>2. ImportIInv /\ [ImportNext]_importVars => ImportIInv'
    BY ImportNextIInv, ImportAssumption
  <1>3. ImportIInv => ImportExact
    BY DEF ImportIInv
  <1> QED BY <1>1, <1>2, <1>3, PTL DEF ImportSpec

=============================================================================
