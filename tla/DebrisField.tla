---------------------------- MODULE DebrisField ----------------------------
(***************************************************************************)
(* Carve debris of game/main.cpp: voxel.break and voxel.explode carve the  *)
(* terrain and turn what they remove into chunks, each riding on a pooled  *)
(* body of BodyPool; DebrisField::Update redraws the chunks into the       *)
(* renderer's copy of the voxel grid, which the terrain never sees.        *)
(*                                                                         *)
(* One main thread runs everything, in the order of the engine loop:       *)
(* drain a batch of console commands, cull, paint, present.  A step of     *)
(* this module is one iteration of one of those loops.                     *)
(*                                                                         *)
(* Geometry is abstract: a box, a sphere and the cells a rotated chunk     *)
(* fills are sets of cells; PhysX may move a chunk to any pose.            *)
(***************************************************************************)
EXTENDS BodyPool, SequencesExt

CONSTANTS
    Cells,         \* the cells of the voxel grid, [0,kWorldDim)^3
    BrickOf,       \* the brick (kBrickDim^3 cells) a cell lies in
    Materials,     \* palette indices of solid voxels; Air (0) is none of them
    Air,
    Blasts,        \* what break and explode can do: hit, region, sphere, parts
    Poses,         \* the [box, solid] a chunk's transform can give it
    Stamps,        \* what voxel.place, an upload or the startup import can stamp
    MaxLives,      \* the values of voxel.debris.max
    Ttl,           \* Updates a chunk survives (kTtlSeconds)
    CmdsPerDrain,  \* most commands in one batch of Console::Drain
    RendererValid  \* Renderer::Valid(): false in a headless run

Bricks == {BrickOf[c] : c \in Cells}
Voxels == Materials \cup {Air}

ASSUME DebrisAssumption ==
    /\ IsFiniteSet(Cells)
    /\ DOMAIN BrickOf = Cells
    /\ Air \notin Materials
    /\ \A b \in Blasts :
          /\ b.hit \in b.sphere
          /\ b.sphere \subseteq b.region
          /\ b.region \subseteq Cells
          /\ b.parts \in Seq(SUBSET b.region)
    /\ \A p \in Poses : p.solid \subseteq p.box /\ p.box \subseteq Cells
    /\ \A s \in Stamps : DOMAIN s \subseteq Cells /\ \A c \in DOMAIN s : s[c] \in Voxels
    /\ MaxLives \subseteq Nat
    /\ Ttl \in Nat
    /\ CmdsPerDrain \in Nat \ {0}
    /\ RendererValid \in BOOLEAN

VARIABLES
    terrain,  \* the VoxelWorld
    device,   \* the renderer's mapped buffers: voxel and brick occupancy
    live,     \* the chunks, in spawn order
    pc,       \* where the main thread is
    i,        \* iterator of the cull and paint loops
    job,      \* the break or explode being executed
    paused,   \* debug.pause_simulation
    budget    \* commands left in this batch

poolVars  == vars
fieldVars == <<poolVars, terrain, device, live, pc, i, job, paused, budget>>

\* prev is the box painted by the last Update, empty while hasPrev is false; solid is what
\* the chunk's pose filled then.
Chunk == [id : BodyIds, age : 0..Ttl, mats : SUBSET Materials,
          prev : SUBSET Cells, solid : SUBSET Cells]
NoJob == [parts |-> <<>>]

-----------------------------------------------------------------------------
(* The renderer's voxel buffer and the brick occupancy derived from it.    *)

Occupied(voxel, b) == \E c \in Cells : BrickOf[c] = b /\ voxel[c] # Air

\* Mutated form of Edited: marks bricks but never clears one.
Edited_MarkOnly(d, box, src) ==
    LET voxel == [c \in Cells |-> IF c \in box THEN src[c] ELSE d.voxel[c]]
    IN  [voxel |-> voxel, brick |-> [b \in Bricks |-> d.brick[b] \/ Occupied(voxel, b)]]

\* EditVoxels overwrites the cells of a box and rescans the bricks the box overlaps.
Edited(d, box, src) ==
    LET voxel == [c \in Cells |-> IF c \in box THEN src[c] ELSE d.voxel[c]]
    IN  IF ~RendererValid THEN d
        ELSE [voxel |-> voxel,
              brick |-> [b \in Bricks |-> IF \E c \in box : BrickOf[c] = b
                                          THEN Occupied(voxel, b)
                                          ELSE d.brick[b]]]

\* SetVoxels replaces the whole grid and rebuilds every brick.
Uploaded(d, grid) ==
    IF ~RendererValid THEN d
    ELSE [voxel |-> grid, brick |-> [b \in Bricks |-> Occupied(grid, b)]]

Stamped(grid, s) == [c \in Cells |-> IF c \in DOMAIN s THEN s[c] ELSE grid[c]]
Empty            == [c \in Cells |-> Air]

-----------------------------------------------------------------------------
(* Commands, run by Console::Drain at the top of a frame.                  *)

Boot ==
    /\ pc = "boot"
    /\ Startup
    /\ pc' = "drain"
    /\ UNCHANGED <<terrain, device, live, i, job, paused, budget>>

Command ==
    /\ pc = "drain"
    /\ budget > 0
    /\ budget' = budget - 1

\* DebrisField::ReservePool; PhysX may create none of the missing actors.
ReserveDebris(cap) == ReservePool(cap) \/ UNCHANGED poolVars

\* voxel.break and voxel.explode up to SpawnFromCarve: the ray met a solid voxel, the
\* live cap is re-read from voxel.debris.max and the pool is sized to it.
VoxelBreak(b, cap) ==
    /\ Command
    /\ terrain[b.hit] # Air
    /\ ReserveDebris(cap)
    /\ job' = [blast |-> b, parts |-> b.parts, cap |-> cap]
    /\ pc' = "spawn"
    /\ UNCHANGED <<terrain, device, live, i, paused>>

\* The solid voxels a part of the blast loses.
Captured(part) == {c \in part \cap job.blast.sphere : terrain[c] # Air}

\* Mutated form of SpawnDone: the live cap is checked with > instead of >=.
SpawnDone_CapOffByOne == job.parts = <<>> \/ Len(live) > job.cap

\* SpawnFromCarve returns after the last part, or as soon as the live cap is reached.
SpawnDone == job.parts = <<>> \/ Len(live) >= job.cap

SpawnSkip ==
    /\ pc = "spawn"
    /\ ~SpawnDone
    /\ Captured(Head(job.parts)) = {}
    /\ job' = [job EXCEPT !.parts = Tail(@)]
    /\ UNCHANGED <<poolVars, terrain, device, live, pc, i, paused, budget>>

\* One part becomes a chunk on the body AcquireBox returns.
SpawnChunk(id) ==
    LET cells == Captured(Head(job.parts))
    IN  /\ pc = "spawn"
        /\ ~SpawnDone
        /\ cells # {}
        /\ AcquireBox(id)
        /\ id \in lent'
        /\ live' = Append(live, [id |-> id, age |-> 0, mats |-> {terrain[c] : c \in cells},
                                 prev |-> {}, solid |-> {}])
        /\ job' = [job EXCEPT !.parts = Tail(@)]
        /\ UNCHANGED <<terrain, device, pc, i, paused, budget>>

\* AcquireBox returns -1 when nothing is parked and PhysX creates no actor: spawning stops.
\* (The game never calls RemoveBody, so a popped slot always has its actor.)
SpawnRefused ==
    /\ pc = "spawn"
    /\ ~SpawnDone
    /\ Captured(Head(job.parts)) # {}
    /\ freeList = <<>>
    /\ job' = [job EXCEPT !.parts = <<>>]
    /\ UNCHANGED <<poolVars, terrain, device, live, pc, i, paused, budget>>

\* CarveSphere, then EditVoxels uploads the carved region from the terrain.
Carve ==
    /\ pc = "spawn"
    /\ SpawnDone
    /\ terrain' = [c \in Cells |-> IF c \in job.blast.sphere THEN Air ELSE terrain[c]]
    /\ device' = Edited(device, job.blast.region, terrain')
    /\ job' = NoJob
    /\ pc' = "drain"
    /\ UNCHANGED <<poolVars, live, i, paused, budget>>

\* voxel.place and the web upload: StampVox, then the whole grid is pushed.
VoxelPlace(s) ==
    /\ Command
    /\ terrain' = Stamped(terrain, s)
    /\ device' = Uploaded(device, terrain')
    /\ UNCHANGED <<poolVars, live, pc, i, job, paused>>

\* Mutated form of VoxelClear: forgets the chunks but leaves their bodies in the scene.
VoxelClear_KeepsBodies ==
    /\ Command
    /\ live' = <<>>
    /\ terrain' = Empty
    /\ device' = Uploaded(device, terrain')
    /\ UNCHANGED <<poolVars, pc, i, job, paused>>

\* voxel.clear: ClearAll (its footprint clears are overwritten by the upload of the empty
\* world that follows), world.Clear, SetVoxels.
VoxelClear ==
    /\ Command
    /\ ClearDynamics
    /\ live' = <<>>
    /\ terrain' = Empty
    /\ device' = Uploaded(device, terrain')
    /\ UNCHANGED <<pc, i, job, paused>>

SetPaused(p) ==
    /\ Command
    /\ paused' = p
    /\ UNCHANGED <<poolVars, terrain, device, live, pc, i, job>>

-----------------------------------------------------------------------------
(* The frame.                                                              *)

\* The batch is done.  Update runs only when the simulation is not paused, the renderer is
\* up and there is debris; otherwise the frame renders the grid as it is.
EndDrain ==
    /\ pc = "drain"
    /\ budget' = CmdsPerDrain
    /\ pc' = IF ~paused /\ RendererValid /\ live # <<>> THEN "cull" ELSE "drain"
    /\ i' = 1
    /\ UNCHANGED <<poolVars, terrain, device, live, job, paused>>

\* Mutated form of CullDead: drops the chunk without clearing its last footprint.
CullDead_KeepsFootprint ==
    /\ pc = "cull"
    /\ i <= Len(live)
    /\ ReleaseBox(live[i].id)
    /\ live' = RemoveAt(live, i)
    /\ UNCHANGED <<terrain, device, pc, i, job, paused, budget>>

\* A chunk that fell below the kill plane (PhysX decides) or outlived Ttl: its footprint is
\* restored to terrain, its body parked, the chunk erased.
CullDead ==
    /\ pc = "cull"
    /\ i <= Len(live)
    /\ ReleaseBox(live[i].id)
    /\ device' = Edited(device, live[i].prev, terrain)
    /\ live' = RemoveAt(live, i)
    /\ UNCHANGED <<terrain, pc, i, job, paused, budget>>

\* Mutated form of CullKeep: the age does not advance.
CullKeep_Ageless ==
    /\ pc = "cull"
    /\ i <= Len(live)
    /\ live[i].age < Ttl
    /\ i' = i + 1
    /\ UNCHANGED <<poolVars, terrain, device, live, pc, job, paused, budget>>

\* A chunk that is neither too old nor fallen; BodyPosY of a parked body is NaN, which kills.
CullKeep ==
    /\ pc = "cull"
    /\ i <= Len(live)
    /\ live[i].age < Ttl
    /\ live[i].id \in Simulated
    /\ live' = [live EXCEPT ![i].age = @ + 1]
    /\ i' = i + 1
    /\ UNCHANGED <<poolVars, terrain, device, pc, job, paused, budget>>

CullDone ==
    /\ pc = "cull"
    /\ i > Len(live)
    /\ pc' = IF live = <<>> THEN "drain" ELSE "paint"
    /\ i' = 1
    /\ UNCHANGED <<poolVars, terrain, device, live, job, paused, budget>>

\* ClearBoxExcept: the whole previous box is cleared unless the new one covers it.
Leftover(prev, box) == IF prev \subseteq box THEN {} ELSE prev

\* WorldAabb: the box of the rotated chunk, padded by a cell and clamped to the grid.
WorldAabb(pose) == pose.box

\* BuildChunkRegion: a captured material where the rotated chunk is solid, else terrain.
Regions(pose, mats) == {Stamped(terrain, img) : img \in [pose.solid -> mats]}

\* One chunk of the serial upload loop: its leftover footprint is restored to terrain, then
\* its region is painted.
Paint(pose) ==
    /\ pc = "paint"
    /\ i <= Len(live)
    /\ live[i].id \in Simulated
    /\ LET box == WorldAabb(pose)
       IN  /\ \E region \in Regions(pose, live[i].mats) :
                 device' = Edited(Edited(device, Leftover(live[i].prev, box), terrain),
                                  box, region)
           /\ live' = [live EXCEPT ![i].prev = box, ![i].solid = pose.solid]
    /\ i' = i + 1
    /\ UNCHANGED <<poolVars, terrain, pc, job, paused, budget>>

PaintDone ==
    /\ pc = "paint"
    /\ i > Len(live)
    /\ pc' = "present"
    /\ i' = 1
    /\ UNCHANGED <<poolVars, terrain, device, live, job, paused, budget>>

\* RenderFrame draws and waits for the GPU before the next frame edits the grid.
Present ==
    /\ pc = "present"
    /\ pc' = "drain"
    /\ UNCHANGED <<poolVars, terrain, device, live, i, job, paused, budget>>

-----------------------------------------------------------------------------
FieldInit ==
    /\ Init
    /\ \E s \in Stamps : terrain = Stamped(Empty, s)
    /\ device = [voxel |-> terrain, brick |-> [b \in Bricks |-> Occupied(terrain, b)]]
    /\ live = <<>>
    /\ pc = "boot"
    /\ i = 1
    /\ job = NoJob
    /\ paused = FALSE
    /\ budget = CmdsPerDrain

Commands ==
    \/ \E b \in Blasts, cap \in MaxLives : VoxelBreak(b, cap)
    \/ \E s \in Stamps : VoxelPlace(s)
    \/ VoxelClear
    \/ \E p \in BOOLEAN : SetPaused(p)

MainThread ==
    \/ Boot
    \/ SpawnSkip
    \/ \E id \in BodyIds : SpawnChunk(id)
    \/ SpawnRefused
    \/ Carve
    \/ EndDrain
    \/ CullDead
    \/ CullKeep
    \/ CullDone
    \/ \E pose \in Poses : Paint(pose)
    \/ PaintDone
    \/ Present

FieldNext == Commands \/ MainThread

FieldSpec == FieldInit /\ [][FieldNext]_fieldVars

\* The loop keeps running; commands come as they please, a bounded batch per frame.
FairSpec == FieldSpec /\ WF_fieldVars(MainThread)

-----------------------------------------------------------------------------
(***************************************************************************)
(* Properties.                                                             *)
(***************************************************************************)

\* The variables keep their types.
FieldTypeOK ==
    /\ TypeOK
    /\ terrain \in [Cells -> Voxels]
    /\ device \in [voxel : [Cells -> Voxels], brick : [Bricks -> BOOLEAN]]
    /\ live \in Seq(Chunk)
    /\ pc \in {"boot", "drain", "spawn", "cull", "paint", "present"}
    /\ i \in 1..(Len(live) + 1)
    /\ paused \in BOOLEAN
    /\ budget \in 0..CmdsPerDrain

\* "Debris voxels live ONLY in the GPU grid", and only while their chunk does: after every
\* step, the renderer's grid differs from the terrain only inside a box that a live chunk
\* will clear.  No ghost of a culled, moved or cleared chunk stays behind, whatever
\* commands come between its frames.
NoGhosts ==
    RendererValid =>
        \A c \in Cells : device.voxel[c] # terrain[c]
                            => \E n \in 1..Len(live) : c \in live[n].prev

\* Empty-space skipping is sound and tight: a brick is marked occupied exactly when the
\* voxel buffer holds a solid cell in it, through every incremental edit.
BricksExact ==
    \A b \in Bricks : device.brick[b] <=> Occupied(device.voxel, b)

\* Chunks and bodies are in step: each chunk rides on its own body, and every body in the
\* PhysX scene belongs to a chunk (a break half done included).
ChunksOwnBodies ==
    /\ \A m, n \in 1..Len(live) : live[m].id = live[n].id => m = n
    /\ {live[n].id : n \in 1..Len(live)} = lent
    /\ scene = lent

\* "Pre-size the PhysX body pool to the live cap so spawns recycle actors": once the pool
\* has reached the cap, no spawn creates an actor.
SpawnsRecycle ==
    [][(pc = "spawn" /\ PoolTotal >= job.cap) => Len(dynamics') = Len(dynamics)]_fieldVars

\* Every chunk dies: a body that carries debris gets back to the pool, if the simulation is
\* not paused for ever.
ChunksExpire ==
    (<>[]~paused) => \A id \in BodyIds : (id \in lent) ~> (id \notin lent)

\* "Every frame each live chunk is re-stamped ... so the actual shape + colors fall out":
\* when a frame with an Update is presented, every cell a chunk fills is solid.
ShapesShown ==
    pc = "present" =>
        \A n \in 1..Len(live) : \A c \in live[n].solid : device.voxel[c] # Air
=============================================================================
