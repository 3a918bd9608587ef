----------------------------- MODULE VoxImport -----------------------------
(***************************************************************************)
(* The MagicaVoxel importer, engine/voxel/VoxImport.cpp: a reader walks    *)
(* the chunks of a file that may end anywhere, in whatever order they come *)
(* and with chunks it does not know between them, and fills a scene.       *)
(*                                                                         *)
(* A file is a sequence of words.  A word is four bytes (a tag, a number,  *)
(* a voxel, a colour) or one entry of a material's dictionary; lengths     *)
(* and positions are counted in words.                                     *)
(***************************************************************************)
EXTENDS Integers, Sequences, FiniteSetsExt

CONSTANTS
    Heads,        \* the two tags at the head of a file
    Chunks,       \* [tag, body]
    MaxChunks,    \* bound on the chunks of a file
    ColorSlots    \* the colours of a palette (256)

\* A chunk holds at least what its kind says and what it counts; the pairs of a
\* dictionary may be fewer.
ASSUME ImportAssumption ==
    /\ ColorSlots \in Nat \ {0, 1}
    /\ MaxChunks \in Nat
    /\ \A c \in Chunks :
        /\ Len(c.body) \in Nat
        /\ c.body = [i \in 1..Len(c.body) |-> c.body[i]]
        /\ c.tag = "SIZE" => Len(c.body) >= 3
        /\ c.tag = "XYZI" => Len(c.body) >= 1 /\ c.body[1].val \in 0..(Len(c.body) - 1)
        /\ c.tag = "RGBA" => Len(c.body) >= ColorSlots
        /\ c.tag = "MATL" => Len(c.body) >= 2 /\ c.body[2].val \in Nat

VARIABLES
    file,    \* [head, chunks, cut]: what was written, and how much of it is there
    pc,      \* "header", "walk", "done" (true is returned), "failed" (false is)
    pos,     \* Reader::pos
    size,
    voxels,  \* the world's solid cells
    count,   \* voxelCount
    colors,  \* the colours of the palette
    alpha,   \* its emission bytes
    emit     \* the emission of each material

scene == <<size, voxels, count, colors, alpha>>
importVars == <<file, pc, pos, scene, emit>>

Indices == 0..(ColorSlots - 1)

Word(kind, val) == [kind |-> kind, val |-> val]
Num(n) == Word("num", n)

HeaderWords == 5
ChunkHeader == 3

ChunkWords(chunk) == <<Word("tag", chunk.tag), Num(Len(chunk.body)), Num(0)>> \o chunk.body

\* The words of the first k chunks, for each k.
Prefixes(chunks) ==
    LET prefix[k \in 0..Len(chunks)] ==
            IF k = 0 THEN <<>> ELSE prefix[k - 1] \o ChunkWords(chunks[k])
    IN  prefix

\* Where the k-th chunk starts, and behind the last one the end of the file.
Start(chunks, k) == HeaderWords + Len(Prefixes(chunks)[k - 1])
Length(chunks) == Start(chunks, Len(chunks) + 1)

Contents(f) ==
    LET children == Prefixes(f.chunks)[Len(f.chunks)]
        header == <<Word("tag", f.head[1]), Num(150), Word("tag", f.head[2]), Num(0), Num(Len(children))>>
    IN  SubSeq(header \o children, 1, f.cut)

-----------------------------------------------------------------------------
(* Reader. *)

Words == Contents(file)
Size  == Len(Words)

CanRead(p, n) == p + n <= Size

\* u32: past the end it returns 0.
U32(p) == IF CanRead(p, 1) THEN Words[p + 1].val ELSE 0

\* Mutated form of Take: a chunk that is cut off is not read at all.
Take_Complete(p, n) == IF CanRead(p, n) THEN SubSeq(Words, p + 1, p + n) ELSE <<>>

\* A loop over n words that stops where no more can be read.
Take(p, n) == SubSeq(Words, p + 1, Min({p + n, Size}))

Tag == U32(pos)
Self == pos + ChunkHeader
SelfEnd == Self + U32(pos + 1)

AtChunk(tags) == pc = "walk" /\ CanRead(pos, ChunkHeader) /\ Tag \in tags

\* Unread self-data is skipped.
After(p) == Max({p, SelfEnd})

\* Magica is Z-up, the engine Y-up; material 0 is clamped to 1.
Cell(v) == <<v.x, v.z, v.y>>
Material(v) == IF v.m = 0 THEN 1 ELSE v.m

SetVoxelAt(world, v) ==
    [c \in DOMAIN world \cup {Cell(v)} |-> IF c = Cell(v) THEN Material(v) ELSE world[c]]

\* The words of a list, one after the other.
PutAll(world, read) ==
    LET after[n \in 0..Len(read)] == IF n = 0 THEN world ELSE SetVoxelAt(after[n - 1], read[n].val)
    IN  after[Len(read)]

\* The last value of a key in a material's dictionary.
Entry(dict, key, default) ==
    LET with == {i \in DOMAIN dict : dict[i].val[1] = key}
    IN  IF with = {} THEN default ELSE dict[Max(with)].val[2]

Emissive(dict) ==
    (\E i \in DOMAIN dict : dict[i].val = <<"_type", "_emit">>) \/ Entry(dict, "_emit", 0) > 0

\* _emit * 2^(_flux - 1), the flux held between 1 and 4.
Power(dict) == Entry(dict, "_emit", 0) * 2^(Max({1, Min({Entry(dict, "_flux", 1), 4})}) - 1)

\* saturate(e / 8) * 255, rounded.
Alpha(e) == (Min({e, 8}) * 255 + 4) \div 8

-----------------------------------------------------------------------------
\* FillDefaultPalette: a ramp from black.
Grey(i) == <<"grey", i>>

ImportInit ==
    /\ \E head \in Heads, n \in 0..MaxChunks : \E chunks \in [1..n -> Chunks] :
         \E cut \in 1..Length(chunks) : file = [head |-> head, chunks |-> chunks, cut |-> cut]
    /\ pc = "header"
    /\ pos = 0
    /\ size = <<0, 0, 0>>
    /\ voxels = <<>>
    /\ count = 0
    /\ colors = [i \in Indices |-> Grey(0)]
    /\ alpha = [i \in Indices |-> 0]
    /\ emit = [i \in Indices |-> 0]

\* LoadVoxFromMemory and the head of ParseVox.
Header ==
    /\ pc = "header"
    /\ IF Size >= 3 /\ U32(0) = "VOX " /\ U32(2) = "MAIN"
       THEN pc' = "walk" /\ pos' = HeaderWords /\ colors' = [i \in Indices |-> Grey(i)]
       ELSE pc' = "failed" /\ UNCHANGED <<pos, colors>>
    /\ UNCHANGED <<file, size, voxels, count, alpha, emit>>

ReadSize ==
    /\ AtChunk({"SIZE"})
    /\ size' = <<U32(Self), U32(Self + 1), U32(Self + 2)>>
    /\ pos' = After(Self + 3)
    /\ UNCHANGED <<file, pc, voxels, count, colors, alpha, emit>>

\* Each voxel read counts, even one that overwrites another.
ReadXyzi ==
    /\ AtChunk({"XYZI"})
    /\ LET read == Take(Self + 1, U32(Self)) IN
       /\ voxels' = PutAll(voxels, read)
       /\ count' = count + Len(read)
       /\ pos' = After(Self + 1 + Len(read))
    /\ UNCHANGED <<file, pc, size, colors, alpha, emit>>

\* The i-th colour, counted from 1, goes to index i; the last is not used.
ReadRgba ==
    /\ AtChunk({"RGBA"})
    /\ LET read == Take(Self, ColorSlots) IN
       /\ colors' = [i \in Indices |-> IF i \in DOMAIN read THEN read[i].val ELSE colors[i]]
       /\ pos' = After(Self + Len(read))
    /\ UNCHANGED <<file, pc, size, voxels, count, alpha, emit>>

\* The dictionary ends with the chunk, whatever its length says.
ReadMatl ==
    /\ AtChunk({"MATL"})
    /\ LET id == U32(Self)
           dict == Take(Self + 2, Min({U32(Self + 1), SelfEnd - Self - 2}))
       IN
       /\ emit' = IF Emissive(dict) /\ id \in Indices THEN [emit EXCEPT ![id] = Power(dict)] ELSE emit
       /\ pos' = After(Self + 2 + Len(dict))
    /\ UNCHANGED <<file, pc, size, voxels, count, colors, alpha>>

SkipChunk ==
    /\ pc = "walk" /\ CanRead(pos, ChunkHeader) /\ Tag \notin {"SIZE", "XYZI", "RGBA", "MATL"}
    /\ pos' = After(Self)
    /\ UNCHANGED <<file, pc, scene, emit>>

\* At the end of the file the emission replaces the alpha of every colour.
Pack ==
    /\ pc = "walk" /\ ~CanRead(pos, ChunkHeader)
    /\ pc' = "done"
    /\ alpha' = [i \in Indices |-> Alpha(emit[i])]
    /\ UNCHANGED <<file, pos, size, voxels, count, colors, emit>>

ImportNext == Header \/ ReadSize \/ ReadXyzi \/ ReadRgba \/ ReadMatl \/ SkipChunk \/ Pack

ImportSpec == ImportInit /\ [][ImportNext]_importVars

-----------------------------------------------------------------------------
(* What the chunks ks of the file say, from the chunks and not from its words. *)

Present(k) == file.cut - Start(file.chunks, k) - ChunkHeader

\* The chunks whose header is there.
There == {k \in DOMAIN file.chunks : Present(k) >= 0}

\* The words of its body that are.
Body(k) ==
    LET body == file.chunks[k].body IN SubSeq(body, 1, Min({Len(body), Present(k)}))

At(body, i) == IF i <= Len(body) THEN body[i].val ELSE 0

Of(ks, tag) == {k \in ks : file.chunks[k].tag = tag}

SizeOf(ks) ==
    LET own == Of(ks, "SIZE")
        b == Body(Max(own))
    IN  IF own = {} THEN <<0, 0, 0>> ELSE <<At(b, 1), At(b, 2), At(b, 3)>>

\* The places of the voxels: (chunk, word).
DotsIn(k) == {k} \X (2..Min({Len(Body(k)), At(Body(k), 1) + 1}))
Dots(ks) == UNION {DotsIn(k) : k \in Of(ks, "XYZI")}
Dot(d) == file.chunks[d[1]].body[d[2]].val

Before(d, e) == d[1] < e[1] \/ (d[1] = e[1] /\ d[2] < e[2])

\* Of several voxels in a cell the last one counts.
LastIn(dots, cell) ==
    CHOOSE d \in dots :
        Cell(Dot(d)) = cell /\ \A e \in dots : Cell(Dot(e)) = cell => e = d \/ Before(e, d)
VoxelsOf(dots) == [cell \in {Cell(Dot(d)) : d \in dots} |-> Material(Dot(LastIn(dots, cell)))]

\* Material m has the colour m of the last palette that goes so far.
ColorIn(ks, m) ==
    LET far == {k \in Of(ks, "RGBA") : Len(Body(k)) >= m}
    IN  IF m = 0 \/ far = {} THEN Grey(m) ELSE Body(Max(far))[m].val

DictOf(body) == SubSeq(body, 3, Min({Len(body), At(body, 2) + 2}))

\* Material m glows as the last emissive material of that number says, whether
\* it stands before or after the palette.
GlowOf(ks, m) ==
    LET own == {k \in Of(ks, "MATL") : At(Body(k), 1) = m /\ Emissive(DictOf(Body(k)))}
    IN  IF own = {} THEN 0 ELSE Power(DictOf(Body(Max(own))))

\* An import that succeeds yields what the file says, no more and no less than
\* the part that is there says, and one fails only for want of a header.
ImportExact ==
    /\ pc = "done" =>
        /\ size = SizeOf(There)
        /\ voxels = VoxelsOf(Dots(There))
        /\ count = Cardinality(Dots(There))
        /\ colors = [m \in Indices |-> ColorIn(There, m)]
        /\ alpha = [m \in Indices |-> Alpha(GlowOf(There, m))]
    /\ pc = "failed" => file.head # <<"VOX ", "MAIN">> \/ file.cut < 3

=============================================================================
