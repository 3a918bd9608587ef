# Voxhammer in TLA+

Voxhammer is a destructible voxel engine: a sparse voxel world, a DX12 ray
marcher with accumulated global illumination, PhysX debris, and a console that
is reached over the web, over TCP and from a file of console variables. This
directory specifies the parts of it whose correctness depends on the order of
steps, model-checks them with TLC and proves some of it with TLAPS. Paths below
are relative to the repository (`src/` in PROJECT.json).

## 1. The system

| Part | State it keeps | Operations | Talks to |
|---|---|---|---|
| Body pool, `engine/physics/PhysicsWorld.cpp` | `dynamics`, `freeList`, the PhysX scene | `Init`, `Shutdown`, `AddBox`, `AddDynamicBox`, `ReservePool`, `AcquireBox`, `ReleaseBox`, `RemoveBody`, `ClearDynamics`, `Step` | PhysX |
| Carve debris, `game/main.cpp` `DebrisField` | `live_` chunks, each with a body and the box it last painted | `SpawnFromCarve`, `Update`, `ClearAll` | body pool, voxel world, renderer |
| Voxel world, `engine/voxel/VoxelWorld.cpp` | chunk map, palette, `paletteUsed_` | `SetVoxel`, `CarveSphere`, `StampVox`, `SetPaletteColor`, `Clear`, `BakeFlatGrid`, `RaycastSolid` | the game |
| Scene palette, `game/main.cpp` | two palettes (`vs`, `world`), the debris slot | import, demo, pin, place, break, clear | voxel world, renderer |
| Renderer, `engine/render/Renderer.cpp` | mapped voxel, brick and palette buffers; GI history; tracked states of the offscreen targets; the noise tile and its bake thread | `Init`, `SetVoxels`, `EditVoxels`, `RenderFrame`, `CaptureScreenshot`, `Shutdown`, four setters | the GPU, `bluenoise64.bin` |
| Console variables, `engine/cvar/Console.cpp` | registry, unknown keys, `cvars.toml` | register, set, load, save, `cvars.reset` | everything |
| Task queue, `Console::QueueTask`/`Drain` | `tasks_` | queue (any thread), drain (main thread) | console server |
| Console server, `engine/console/ConsoleServer.cpp` | sessions, WebSocket clients, line workers | login, WebSocket messages, line clients, `Stop` | civetweb, task queue |
| Keybindings, `engine/platform/Keybindings.cpp` | `bindings_`, `last_write_`, `keybindings.toml` | load, save, bind, unbind, hot reload | the user's editor |
| Web page, `engine/web/console.js` | a copy of every cvar, a control for each, the cvar being edited; its session token | probe, login, opening, polling; list and subscribe on connection, edits, presets, reset, merge of results and events | console server |
| Vox import, `engine/voxel/VoxImport.cpp` | the reader's position, the scene it fills | `LoadVox`, `LoadVoxFromMemory` | voxel world |
| Others | job scheduler, script host, ECS, audio, ISPC, logging, window, password, tools | | |

One main thread runs the engine loop: drain the task queue (commands run here),
poll the keybindings file, step physics and debris, render a frame and wait for
the GPU. Network threads only queue tasks, except that a line worker waits two
seconds for its result, and that stopping the server joins them all from the
main thread. The hard parts are therefore: commands that fall between two
frames and change what an earlier frame left behind (debris footprints, GI
history, palettes); files shared with another process or another run; clients
that time out, close and come back; a page whose edits cross the changes of
others; attempts to log in that are judged while others are; draws of one list
that the GPU may still be busy with when the next one starts; and long sequences
of pool operations.
PROJECT.json lists each such hazard at its line with the property that covers
it, or why none does.

What makes each part correct:

* pool: parked bodies are exactly the free list; nothing is lent twice; ids are stable;
* debris: the renderer's grid differs from the terrain only where a live chunk will repair it;
* voxel world: it behaves as a function from coordinates to materials;
* palette: a voxel is shown in the colour of the model it came from, or the nearest
  one when the palette is full;
* accumulation: a running average holds samples of one image only, and converges;
* cvars: a completed save is restored exactly, and no value by-passes validation;
* keybindings: a chord has one binding; a save comes back as it was written;
* server: each line is executed once, in order, and its result answers it alone; stopping ends;
* web page: whatever overtakes what, its copy ends at the registry's values (but for a change
  between its list and its subscription), and a control that nobody edits shows the copy;
* login: a lockout stops every attempt but those already being handled, it ends, and a page
  that lost its link gets it back or asks for the password, once the server stays up;
* frames: the GPU finds each resource in the state the commands name, and each picture
  presented is whole, of this frame and of the present voxels;
* import: a scene says what the file says, as far as the file goes.

## 2. Modules

| Module | Models | Notes |
|---|---|---|
| `BodyPool` | the pool | ids are positions in `dynamics`; a slot is (actor, pooled, inScene) |
| `DebrisField` | debris, voxel and brick upload | extends `BodyPool` (`FieldInit`, `FieldNext`, `FieldSpec`); `pc` follows the main thread through drain, spawn, cull, paint, present |
| `DebrisFieldProofs` | | the pool's inductive invariant and six theorems, then the debris' and five theorems |
| `VoxelGrid` | what the voxel world promises | one total function |
| `VoxelWorld` | the chunk map and palette | implements `VoxelGrid` through `GetVoxel`; a stamp is one step per voxel |
| `VoxelWorldProofs` | | addressing lemmas, the refinement of `VoxelGrid`, five invariants; `VoxelScene` and its two properties; what `VoxImport` imports |
| `VoxelScene` | how the game uses the palette | extends `VoxelWorld` (`SceneInit`, `SceneNext`, `SceneSpec`); startup, debris pin, commands |
| `GiAccum` | GI accumulation | one pixel; a stored average is the set of images its samples belong to |
| `GiAccumProofs` | | its inductive invariant and four theorems |
| `CvarStore` | cvars over runs, builds and crashes | `StoreInit`, `StoreNext`, `StoreSpec`; a save is cut between truncating and writing |
| `Keybindings` | table, file and editor | each access to the file is a step; a table is built by the positions it keeps |
| `KeybindingsProofs` | | selections of positions, its inductive invariant and three theorems |
| `ConsoleServer` | threads, queue, main loop | a line is its number in its client's stream |
| `ConsoleProofs` | | the inductive invariant of `CvarStore` and four theorems, then that of `ConsoleServer` and three |
| `WebHud` | the web page and the WebSocket messages | a direction of a connection is a queue; a frame that outlives its connection is `old` |
| `WebHudProofs` | | its inductive invariant and three theorems |
| `LoginGate` | logins, lockouts, sessions, and the page's way to a link | times are what is left or what has passed; a token is named after the page that holds it |
| `LoginGateProofs` | | its inductive invariant and two theorems |
| `FrameGraph` | the renderer's commands, the GPU that runs them, the noise bake | a resource holds what it shows, of which frame, and how often it was filtered |
| `FrameGraphProofs` | | what a list leaves, what a frame records, its inductive invariant and two theorems |
| `VoxImport` | the `.vox` reader | a file is a sequence of words, cut off anywhere |

Each has an `MC` module with the bounds. Definitions named `X_Something` under
the comment "Mutated form of X" are not part of any specification: they are
plausible bugs, and each property is known to fail when one of them replaces X.

What a step is. `BodyPool`, `VoxelWorld`: a public call. `DebrisField`: an
iteration of one of its loops, since the buffers are observable only at
`Present` but the properties are stated for every step. `CvarStore`,
`Keybindings`: an access to the file. `ConsoleServer`: what one thread does
under a lock, or between two waits. `GiAccum`: a frame, an edit or a change of
one setting. `WebHud`: one task of the
engine, one event handler of the page, or an event of the connection.
`LoginGate`: `HandleLogin` up to the lockout check, and from there to its
answer; a callback of the page; a second of time. `FrameGraph`: what the main
thread does between two waits, one command on the GPU, one access of the bake
thread to the tile or its file, one object of `Init`. `VoxImport`: one chunk.

What is abstract. Geometry in `DebrisField`: a blast is (hit cell, region,
sphere, parts) and a pose is (box, solid cells), chosen from small sets, so
rotation and the OBB fit are left out; that the sphere lies in the region and
the solid in the box are assumptions. PhysX: any pose, any fall, and
`createRigidDynamic` may return null. Numbers in `CvarStore`: `NumberOf` and
`TextOf` are constants, with text that prints differently from how it was
written. Colours: a distance table. Moving caps in `GiAccum`: sets of integers.
civetweb: a fixed set of connection structures, reused.
`WebHud`: values are what `ApplySet` makes of them (stored, clamped or refused),
the deck shows every cvar, and what other pages, keys and TCP clients do is
`OtherSets`; the engine drops a connection before the page's `onclose` runs.
`LoginGate`: the server binds the loopback address, so the pages share one
address and, as tabs of one browser, one cookie; a page has one request at a
time; civetweb is a number of workers, each held by a request being handled or by
an open WebSocket. `FrameGraph`: what history a frame keeps is `GiAccum`'s
subject, so here any frame in QUALITY under an unchanged mode and denoiser may
keep it or not; the GPU takes commands in order, and accesses of a draw stay
pending until a barrier on the resource or the end of the list. `VoxImport`: a
word is a tag, a number, a voxel, a colour, or an entry of a dictionary, and
cuts fall between words. External actors (the operating system, the editor, the
GPU, a crash) are marked external in the map.

## 3. Runs

Every configuration takes at most about two minutes with two workers. A type
invariant that no run lists, and `BoundsCover` of `VoxelWorld`, hold in the
module's run too: add `INVARIANT TypeOK` (or `BoundsCover`) to its configuration.
Sentences of the documents and comments that the code does not keep are in
section 5, each with the way to see the behaviour.

| Run | Shows | Bounds |
|---|---|---|
| `BodyPool` | free list, lending, ids, recycling | 4 bodies, reservations of 1 and 3: one plain body beside a pool that is exhausted |
| `DebrisField` | no ghosts, exact bricks, chunks own bodies, spawns recycle, every chunk expires | 4 cells in two bricks, 3 bodies, 3 poses inside the grid whose boxes overlap and one outside, live caps 1 and 3, a command per frame (a pause lets any number of them fall between two updates) |
| `CvarStore` | validation, exact restore, unknown keys | two builds that know different names, four kinds of values |
| `Keybindings` | one binding per chord, saves stick | 2 chords, 2 targets and the empty one, 5 writes |
| `ConsoleServer` | once and in order, answers match, stopping ends | 2 line clients with 2 lines each, one WebSocket session with one message |
| `WebHud` | the last word a page hears is the registry's value, untouched controls are never stale, pages settle | 1 page, 2 cvars (a choice that redraws the deck and refuses a value, a number that is clamped), 2 edits, 1 change from elsewhere, 2 connections |
| `VoxelWorld` | refinement of `VoxelGrid`, eviction, bake, fit | 2 axes, chunks of 2, world of 4, writes inside it, below it and above it on one axis, models inside and below it |
| `VoxelScene` | debris slot never re-allocated; from the demo scene, each voxel in its colour or, when no slot is left, the nearest | every build and start, 4 palette slots: 2 colours fit beside the demo's, so the slots run out in the middle of a stamp, and with the debris colour pinned there are none after it |
| `GiAccum` | one image per average, aligned history, short history in motion, a still view reaches the cap | 3 changes of settings, 1 edit, still cap 3, moving caps 1 and 2 |
| `LoginGate` | a lockout holds and ends, and no page is left hanging | 2 tabs, 2 workers, lockout after 2 failures for 2 seconds, doubled once, unbinding after 4, sessions of 1 second, an attempt handled for at most 1 second |
| `FrameGraph` | sound use of every resource, whole pictures, the baked tile arrives | 2 back buffers, 7 settings (both modes, both denoisers, one iteration too few to one too many of at most 2), any object may fail, any number of starts and crashes |
| `VoxImport` | the scene is what the file says | 3 chunks out of 10 (two of each kind that differ in what matters, and one that is skipped), every cut, two bad heads, 4 palette entries |

Why these are enough: every property relates at most two chunks, chords,
clients, tabs or buffers, and one earlier state; the bounds let each pair meet in
every order, and let every queue, pool and palette run empty and full. The swap
chain has 3 buffers in the code; the index only cycles, so 2 buffers already give
a frame, the buffer before it and the wrap. Three chunks let a chunk be
overridden by, and stand before and after, each other one. A small
`FrameModulus` makes the wrap of `accumFrame` (2^32 in the code) happen in the
run.

Deadlock is checked except where the system stops: a `ConsoleServer` behaviour
may end with the process, and the runs with bounded writes, edits or sessions
end at their bound. One page is enough for `WebHud`: pages share nothing but the
registry, and a change made by another one reaches this one as `OtherSets`.
`VoxImport` ends when the file does.

Fairness. `DebrisField!FairSpec` and `GiAccum!FairSpec`: the main loop never
waits for anything but vsync and the GPU, so it takes another step. Commands are
never fair. `WebHud!FairSpec`: the main loop drains what has arrived, and the
page's event loop handles what it was sent; edits, connections and breaks are
not fair. `ConsoleServer!Fairness`: the frame loop runs; a worker's
`wait_for` ends with the result or after two seconds; a reading worker notices
a cleared `line_run` within its one-second receive time-out.
`LoginGate!Fairness`: time passes, a worker handles what it was given, the page's
event loop runs its callbacks and timers. That an opening page waits 1.6 seconds
only in vain if the server is down or no worker is free is an assumption about
timing, and so is `MaxDelay < LockoutSeconds`: civetweb gives up reading a
body, and verifying a password takes, well within the 60 seconds of a lockout.
`FrameGraph!Fairness`: the GPU, the bake thread and the waits of the main thread
go on. `RenderFrame` is strongly fair: a drain runs the commands queued when it
began, and a frame follows them, though each command takes the main thread away
from the point where a frame may start.

## 4. Proofs

The first part of `DebrisFieldProofs` proves of `BodyPool`, for every `MaxBodies`
and every set of reservations (`PoolAssumption` only):

* `TypeCorrect`, `FreeListCorrect`, `SceneCorrect`: `Spec => []` of the type
  invariant and of the run's two state invariants;
* `LendCorrect`, `IdsCorrect`: the two action properties;
* `PoolBounded`: the pool never owns more than was reserved or lent at once.

The argument is one inductive invariant, `IInv`: the types, that the free list
is injective and enumerates the pooled slots that are not in the scene (or are
tombstones that were parked when they were removed), and that `scene` and `lent`
agree with the slots. `FreeListSound` alone is not inductive: releasing pushes
an id without looking at the list, so one must know that a lent body is not on
it, and that a slot in the scene is. Each action has a lemma `<Action>IInv`
that treats the conjuncts it disturbs. `PoolBounded` adds `PoolRecycles` itself
to `IInv`, and counts the pooled slots by cardinality lemmas.

`GiAccumProofs` proves, for every cap, every set of moving caps and every
modulus of `accumFrame` (`GiAssumption`), `TypeCorrect`, `OneImageCorrect`,
`HistoryCorrect` and `MotionCorrect`. `OneImage` says that no frame blends
samples of two images, and that is not inductive: whether the next frame may
blend depends on what the stored average is of. `IInv` therefore relates the
two: while `accHave`, the buffer the next frame will read holds the one image
that the stored key names (`KeyInv`), seen from `prevVP`; `Single` adds that
either buffer holds one image at all. `KeptImage` is the heart of it: a frame
that keeps history has an unchanged key, so the image it adds is the image
stored. `FrameIInv` then treats the ping-pong, `ChangeIInv` and
`EditVoxelsIInv` the setters, which leave the buffers alone.

`VoxelWorldProofs` proves, for any number of axes, any chunk size and any models
(`WorldAssumption`), `NoEmptyCorrect`, `BakeCorrect`, `StampsCorrect`,
`BoundsCorrect`, `TypeCorrect` and `GridRefined`: `Spec => GridSpec`. The C++
division truncates towards zero, so `FloorDiv` corrects it; `FloorDivIsDiv`
shows that it is floor division for every integer, `WorldOfAddress`,
`AddressInjective` and `AddressOfWorld` that (chunk, local) is a bijection on
coordinates. From these, `ReadBack`: after any set of writes, evicting the chunks
they emptied, `GetVoxel` returns what was written, else what was there. Every
action is such a set of writes (`SetVoxelWrites`, `CarveWrites`, ...), so each
maps to an action of `VoxelGrid`. `IInv` carries the chunk types,
`NoEmptyChunks`, the palette and stamp facts that make every merged index a solid
material, that the chunks are finitely many (else `Bounds` is not defined), and
that the offset of a stamp under way was fitted to the model's bounds
(`FitInv`), which `StampsWhole` needs with `VoxelInBounds`: the bounds cover
every voxel. That a model is a finite list of voxels is an assumption.

The last part of the module is about the game's palette, `VoxelScene`, which
extends the world with what the game does to it: `DebrisCorrect` (`DebrisPinned`),
by the invariant that a slot at or past the watermark has no colour, whatever fills
the palette before it; and `ColorsCorrect` (`NearestShown`), for palettes of any
size, full or not. Its invariant `PaintedInv` says that the slot of every solid
voxel serves the colour the voxel came with (`Serves`): it has that colour, or
the palette is full and nothing in it is nearer. Merging keeps that by cases
(`MergeCases`): a colour that is found or added changes no slot that is in use, and
the nearest one is taken only when no slot can change any more. The pinned slot is
what could break it, if it were one that a voxel already uses; `SlotLeft` shows by
counting that the demo's colours leave a free slot past the watermark. That they
are fewer than the slots is assumed (`SceneAssumption`): `GenerateDemoScene` has four.

The second part of `DebrisFieldProofs` proves, for any cells, bricks, blasts, poses
and live caps (`DebrisAssumption`), `NoGhostsCorrect`, `BricksCorrect`,
`BodiesCorrect`, `RecycleCorrect` and `FieldTypeCorrect`. `NoGhosts` needs that the chunk that is
culled or painted is on the list with its last footprint, so `GridInv` bounds the
iterator and types the job of a spawn; each edit is one lemma on `Edited`
(`EditedVoxel`, `EditedExact`: a brick that the box does not meet keeps its mark).
`OwnInv` is the body side: the pool's `IInv`, whose lemmas on single actions serve
the game's steps unchanged, that the game asks only for pooled boxes,
and `ChunksOwnBodies`; a spawned chunk's body is new because `AcquireBox` lends
nothing twice. `SpawnsRecycle` follows by counting: with nothing parked there are
as many chunks as actors, and the live cap stops the spawn first.

The first part of `ConsoleProofs` proves of `CvarStore`, for any builds, registries, texts and numbers
(`CvarAssumption`), `ValuesCorrect`, `RestartCorrect`, `UnknownCorrect` and
`StoreTypeCorrect`. The bridge between a run and the next is `SavedInv`: loading the
file of a completed save gives what was saved. It holds only because validation is
idempotent on what it stores (`NormalStable`), which is what `ValuesNormal` adds to the invariant, and because no
unknown key can hide a registered one (`UnknownInv`). That every number in a cvar's
range prints to a text that reads back as that number is an assumption.

The second part proves of `ConsoleServer`, for any number of clients, sessions and messages,
`LinesCorrect`, `AnswersCorrect` and `TypeCorrect`. What was executed, the batch and
the queue are one stream: draining and running leave it as it is (`StreamKept`), an
arrival appends to it (`StreamGrows`). `AnswersMatch` needs `PromiseInv`: a client
that waits lacks exactly one answer, and only the result of its last line can set
its promise.

`KeybindingsProofs` proves, for any chords, targets, defaults and edits
(`KeybindingAssumption`; that the factory bindings are of distinct chords is read off
`DefaultBindings`), `NoShadowingCorrect`, `OwnSavesCorrect` and `TypeCorrect`. A
table that is loaded or unbound is what its list has at some positions, in order
(`Selected`); that the n-th of them exists is a counting argument (`Positions`: each
has a rank, no two the same; `NthMember`: hence every rank is taken). From it,
`KeptFirst`: what `Load` builds binds no chord twice and nothing blank; `KeepsDistinct`:
it drops nothing else from a table without duplicates, which is why what `Save` writes
comes back. `OwnSavesStick` speaks of the top of a frame; `Agreement` extends it to
the window between the parse and the second stat, and knows that a table on its way
to `Save` is marked as edited and that the engine's own file parses.

`LoginGateProofs` proves, for any number of tabs, workers and any thresholds and
times (`GateAssumption`), `LockoutCorrect` and `TypeCorrect`. `LockoutHolds` speaks
of the attempts judged during a lockout, which says nothing of those still to be
judged; `LateInv` counts both: while a lockout holds, they are fewer than the
workers. `MaxDelay < LockoutSeconds` is where the invariant needs the timing
assumption of section 3.

`WebHudProofs` proves, for any pages, cvars, values and presets (`HudAssumption`),
`LastWordCorrect`, `UntouchedCorrect` and `TypeCorrect`. `WordInv` follows what a
page has been told through its queue: `TailWord` and `AppendWord` say how taking
and adding a message change the last word on a cvar. `UntouchedShown` needs to know
what may be on its way (`QueuesOK`): a result is merged without building its
control anew, so results, and the sets they answer, must be of cvars that the page's
user edited.

`FrameGraphProofs` proves, for any number of back buffers, of filter iterations and
any settings (`FrameAssumption`), `UsesSoundCorrect` and `FrameWholeCorrect`. A list
is judged before it runs: `Run(list, s, t)` says that the GPU, taking the commands
one by one from the textures' states, memory and pending accesses `s`, finds each
of them ready and ends in `t`; `RunThen` appends to a list, `RunHead` takes its first
command off, as the GPU does. `Records` is what a part of `RenderFrame` adds to that,
with the renderer's tracker agreeing with the textures at its end, and there is one
lemma for each: `ShadedAt`, `IterationAt`, `CompositedAt`, `SingleAt`. The loop over
the filter's iterations has an invariant of its own (the target just written holds the
indirect light of this frame, filtered that often, and the reads of the iteration before
are still pending) and is proved by an induction over the least iteration that breaks it
(`Induction`). From `FrameRecorded`, that a frame records a list that runs to a
whole picture, `IInv` follows: `QueueRuns`, that the rest of the queue still runs to
what was promised when it was submitted, whatever of it the GPU has done;
`Bookkeeping`, that between two frames the tracker agrees with the textures and
nothing is pending, and that the history the scene key names is what the frame before
left (`Left`), which is why a kept one is sound; `Built`, that an object was created
with all before it, a denoiser that was given up excepted; and `WholeTile`.

The last part of `VoxelWorldProofs` proves of `VoxImport`, for any chunks, any number
of them, any cut and any palette size (`ImportAssumption`), `ImportCorrect`:
`ImportSpec => []ImportExact`. The assumption is the file format: a chunk holds at
least what its kind says and what it counts, with words behind that or not; only the
dictionary of a material may count more pairs than it holds, which the reader stops at
(`VoxImport.cpp:158`). A chunk that counts more voxels than it holds is not covered: its
reader would run into the next chunk. The argument goes from words to chunks
and from chunks to the scene. `AllLaid` and `FileWords`: the words of chunk `k` stand
behind those of the chunks before it, as far as the file goes, by induction on the
chunks from the least number left out (`NatInductionOn`); hence `WordRead` and
`ListRead`: what the reader reads of a chunk is what there is of its body. `SizeSaid`,
`DotsSaid`, `ColorSaid`, `GlowSaid`, `KindKept`: what `k` chunks say, from what `k - 1`
do. `ListAdded`: voxels set one after the other leave in each cell the last one. The
invariant, `ImportIInv`, is that the reader has read a first part of the chunks, stands
before the next one, and that the scene is what they say (`Walked`); at the end of the
file they are all whose header is there (`AllRead`: chunks stand one behind the
other).

Only model-checked is liveness under fairness (`ChunksExpire`, `Converges`,
`StopsWhenAsked`, `PagesSettle`, `TileArrives`, `LockoutEnds`, `ReconnectEnds`), which
is out of the prover's reach.

## 5. Not modelled

What the shaders compute, the algorithm of the noise tile, a device that is
removed, and resizing (the window has one size); `RaycastSolid` and physics
substeps (floating point); bytes within a word of a `.vox` file, strings cut
inside a dictionary, and the scene-graph chunks that the importer skips; command
parsing and aliases; origins, static files, certificates and uploads of the
console server; the page's offline mock, presets panel, telemetry, log, palette
and layout; stubs (audio, ISPC) and tools. The job scheduler, script host, ECS
and logging sinks are thin wrappers of libraries; see the plan.

A `bind` saves the whole table and so overwrites a user edit that no reload has
seen yet, and the exit save overwrites a hand edit of `cvars.toml` made while
the engine ran; both are what a whole-file save does, and no property is stated
about them. A `bind` of an empty key (`bind Ctrl+ ...`) is saved, and gone at the next
frame's reload, which skips it (`Blank`).

### Kept divergences

These sentences are also stated as definitions, which are not among the runs'
properties, and TLC shows a behaviour of the code that breaks each. Where the
second column has a keyword, put that line in the configuration of the module's
run, in place of its properties; otherwise the configuration is a file here, with
bounds of its own, for `tlc -config <name>.cfg <MC module>`.

| Configuration | Definition | What the code does |
|---|---|---|
| `BodyPool` | `PROPERTY AcquireServesWhileParked` | `RemoveBody` of a parked body leaves its id on the free list; the next `AcquireBox` returns -1 although others are parked (PhysicsWorld.h:81) |
| `BodyPool` | `PROPERTY RemovedIdsReused` | `RemoveBody` never compacts the slot list and `AddBox` always appends, so a removed id is not used again (PhysicsWorld.h:57-59, "reused after RemoveBody compacts the slot list"); `IdsStable` states what `RemoveBody`'s own comment says (PhysicsWorld.h:106-108), which the code keeps |
| `DebrisFieldHeadless` | `ChunksExpire` | without a valid renderer `Update` never runs and debris lives for ever (main.cpp:351) |
| `DebrisFieldShapes` | `ShapesShown` | a chunk's padded box is painted over the cells of an earlier one (main.cpp:122) |
| `CvarStore` | `PROPERTY CorruptFileRefused` | a `cvars.toml` that does not parse is ignored at start and overwritten at exit (adr-003:20) |
| `CvarStore` | `PROPERTY UnknownNeverDropped` | an unknown key whose value is not a string is dropped by the next save (Console.cpp:365; adr-001-cvar-versioning.md:22, "Unknown cvars are preserved, not discarded") |
| `CvarStore` | `PROPERTY ResetLeavesDefaults` | a reset prints a numeric default in another form, and archives it (main.cpp:1107) |
| `Keybindings` | `INVARIANT NoMissedEdit` | the time stamp is read after the parse (Keybindings.cpp:151): a write between the two is recorded as loaded and never reloaded (Keybindings.h:34, "reload if the file's mtime changed"); when the parse saw the file half written, the table stays empty |
| `Keybindings` | `INVARIANT ReportsReload` | a reload that failed is reported as done (Keybindings.h:34) |
| `ConsoleServerReplies` | `RepliesToSender` | a queued message is answered to the session that uses the connection structure by then (ConsoleServer.cpp:388) |
| `VoxelWorld` | `INVARIANT BoundsTight` | `Bounds` is the box of whole chunks (VoxelWorld.h:131) |
| `VoxelScenePinned` | `ColorsShown` | the debris colour is pinned in the highest free slot, usually 255 (main.cpp:871), which moves the watermark to the end: later models are shown in the nearest old colour (VoxelWorld.h:101, "Source palette entries are merged") |
| `VoxelSceneImport` | `ColorsShown` | the imported palette is replaced on the next push (main.cpp:829) |
| `VoxelSceneDebris` | `DebrisStaysColored` | `voxel.clear` resets the pinned slot (main.cpp:860) |
| `GiAccumKnobs` | `KnobsNotStored` | the history that is stored is the filter's output, so it depends on the filter's own settings, which do not restart it (Renderer.cpp:2016) |
| `WebHud` | `INVARIANT AllPagesUpdate` | a change between a page's list and its subscription is not broadcast to it (ConsoleServer.cpp:648) |
| `WebHudEditing` | `ExternalRebuilds` | a change from elsewhere within 1.5 s of an edit of the same cvar does not rebuild its control (console.js:1108) |
| `FrameGraph` | `INVARIANT ShotIsCurrent` | a screenshot copies the buffer that `GetCurrentBackBufferIndex` names after `Present`, the next one to draw and not the picture on the screen (main.cpp:1071, "Capture the current frame") |
| `LoginGate` | `PROPERTY ValidIsReused` | another tab's login replaces the cookie, and a page whose own session is still valid must log in again (console.js:374, "reuse the session if it's still valid") |
| `LoginGate` | `PROPERTY OnlyPasswordsCount` | the page's probes and polls, which carry no password, count as failed attempts towards lockout and unbinding (ConsoleServer.h:58, "20 failed auths"; ConsoleServer.cpp:324) |
| `GiAccumFrozen` | `NeverFrozen` | with denoise off and reprojection on, the shader ignores the moving cap (Renderer.cpp:2044) |

## 6. Plan

1. An abstract body allocator (a set of lent handles) implemented by `BodyPool`.
2. `LoginGate` composed with `WebHud` (its `Open` and `WsClose`) and, through
   `Stop`, with `ConsoleServer`.
3. `JobScheduler` and the debris paint jobs (disjoint scratch, wait before upload).
4. `LogSink`, `StepAccumulator`, `ScriptHost`, `EcsWorld`.
