----------------------------- MODULE FrameGraph -----------------------------
(***************************************************************************)
(* How engine/render/Renderer.cpp drives the GPU: Init creates the objects *)
(* one by one, RenderFrame records one list of draws and barriers and      *)
(* submits it, screenshots and voxel uploads fall between two frames, and  *)
(* a background thread bakes the blue-noise tile, on a cache file that     *)
(* outlives the process.                                                   *)
(*                                                                         *)
(* The main thread only appends commands to the GPU's queue; the GPU takes *)
(* them in order, but the accesses of a draw may still be pending when     *)
(* the next command starts, until a barrier on the resource (or the end of *)
(* the list) waits for them.  What a resource holds is abstracted to what  *)
(* it shows (kind), how many frames ago it was drawn (age, 2 meaning older *)
(* or of other geometry) and how often the a-trous filter went over it.    *)
(***************************************************************************)
EXTENDS Integers, Sequences, SequencesExt

CONSTANTS
    BackBuffers,    \* kFrames: the length of the swap chain
    IterMax,        \* the most a-trous iterations (6)
    Frames          \* the settings that frames are rendered with

ASSUME FrameAssumption ==
    /\ BackBuffers \in Nat \ {0, 1}
    /\ IterMax \in Nat \ {0}
    /\ Frames \subseteq [mode : {"PERFORMANCE", "QUALITY"}, denoiser : {"NONE", "ATROUS", "SVGF"}, iters : Int]

VARIABLES
    pc,           \* where the main thread is
    step,         \* the next object that Init creates
    made,         \* the objects it created
    texState,     \* the renderer's idea of the state of the six offscreen targets
    actual,       \* the state each texture is really in
    mem,          \* what each GPU resource holds
    pending,      \* accesses of executed draws that nothing has waited for
    queue,        \* commands submitted to the GPU and not executed
    camera,       \* the camera buffer: the age of its frame, whether history is kept
    target,       \* GetCurrentBackBufferIndex
    accumPair,
    accKey,       \* accHave and the mode and denoiser of accSceneKey
    frame,        \* the settings of the frame that is being rendered
    screen,       \* the picture presented last
    tile,         \* the blue-noise buffer
    baker,        \* where the bake thread is
    bnTile,       \* the tile it works on
    bnReady,
    cache         \* bluenoise64.bin

bake == <<tile, baker, bnTile, bnReady, cache>>
gpu  == <<actual, mem, pending, queue, screen>>
vars == <<pc, step, made, texState, camera, target, accumPair, accKey, frame, gpu, bake>>

Slots   == 0..5                         \* indirect, indirect, direct, albedo, gbuf, variance
Tex(s)  == <<"tex", s>>
Back(i) == <<"back", i>>
Histories == {"accum", "hitPos", "moments", "directAccum"}
Readback  == <<"readback", 0>>

Textures  == {Tex(s) : s \in Slots} \cup {Back(i) : i \in 0..(BackBuffers - 1)}
Resources == Textures \cup (Histories \X {0, 1}) \cup {Readback}

Content(age, kind, passes) == [age |-> age, kind |-> kind, passes |-> passes]
Undefined == Content(2, "undefined", 0)

Older(age) == IF age = 0 THEN 1 ELSE 2
Other(b)   == 1 - b

NoKey     == <<"none", "none">>

NoFrame == [mode |-> "PERFORMANCE", denoiser |-> "NONE", iters |-> 1]

-----------------------------------------------------------------------------
(* Commands.  A draw names what it takes each resource for: its inputs of   *)
(* this frame, the history it blends when the camera buffer says so, and    *)
(* what it leaves in its outputs.                                           *)

\* What a resource is drawn for, and is read for later.
Purpose(r) ==
    IF r[1] = "tex" THEN <<"indirect", "indirect", "direct", "albedo", "gbuf", "variance">>[r[2] + 1]
    ELSE IF r[1] = "back" THEN "picture" ELSE r[1]

For(resources) == [r \in resources |-> Purpose(r)]

None == For({})

Transition(res, before, after) ==
    [op |-> "transition", res |-> res, before |-> before, after |-> after]
UavBarrier(res) == [op |-> "uav", res |-> res]
Copy(res)       == [op |-> "copy", res |-> res]
Present(res)    == [op |-> "present", res |-> res]
EndOfList       == [op |-> "end"]

Draw(objects, inputs, history, outputs) ==
    [op |-> "draw", objects |-> objects, inputs |-> inputs, history |-> history, outputs |-> outputs]

SceneObjects == {"list", "fence", "voxels", "brick", "camera", "history", "noise", "palette"}

\* With the denoiser on, the average is stored filtered: see Feedback.
Filtered(purposes) == [r \in DOMAIN purposes |-> IF r[1] = "accum" THEN "filtered" ELSE purposes[r]]

SinglePass(f) ==
    LET pair == IF f.mode = "QUALITY" THEN {"accum", "hitPos"} ELSE {} IN
    Draw(SceneObjects \cup {"rootSig", "pso", "targets"}, None,
         For(pair \X {Other(accumPair)}), For({Back(target)} \cup (pair \X {accumPair})))

ShadePass ==
    Draw(SceneObjects \cup {"shade", "offscreen", "moments"}, None,
         Filtered(For(Histories \X {Other(accumPair)})),
         For({Tex(0), Tex(2), Tex(3), Tex(4), Tex(5)} \cup (Histories \X {accumPair})))

\* The first iteration overwrites the average that SHADE stored.
Feedback(it) == IF it = 0 THEN {<<"accum", accumPair>>} ELSE {}

AtrousPass(src, dst, it) ==
    Draw({"list", "atrous", "offscreen"}, For({Tex(src), Tex(4), Tex(5)}), None,
         Filtered(For({Tex(dst)} \cup Feedback(it))))

CompositePass(final) ==
    Draw({"list", "composite", "offscreen", "noise", "targets"},
         For({Tex(final), Tex(2), Tex(3)}), None, For({Back(target)}))

-----------------------------------------------------------------------------
(* Recording: a list and the renderer's idea of the offscreen states.       *)

Emit(rec, cmd) == [rec EXCEPT !.list = Append(@, cmd)]

\* Mutated form of ToState: the tracker is not updated.
ToState_Untracked(rec, slot, after) ==
    IF rec.tex[slot] = after THEN rec
    ELSE [list |-> Append(rec.list, Transition(Tex(slot), rec.tex[slot], after)), tex |-> rec.tex]

ToState(rec, slot, after) ==
    IF rec.tex[slot] = after THEN rec
    ELSE [list |-> Append(rec.list, Transition(Tex(slot), rec.tex[slot], after)),
          tex  |-> [rec.tex EXCEPT ![slot] = after]]

AllToTargets(rec) ==
    LET To(r, slot) == ToState(r, slot, "RT")
    IN  To(To(To(To(To(To(rec, 0), 1), 2), 3), 4), 5)

\* A pass that draws the back buffer, between its two transitions.
ToBack(rec, cmd) ==
    Emit(Emit(Emit(rec, Transition(Back(target), "PRESENT", "RT")), cmd),
         Transition(Back(target), "RT", "PRESENT"))

Iteration(rec, it) ==
    LET src == it % 2
        dst == (it + 1) % 2
    IN  Emit(ToState(ToState(rec, src, "PSR"), dst, "RT"), AtrousPass(src, dst, it))

Iterated(rec, n) ==
    LET after[k \in 0..n] == IF k = 0 THEN rec ELSE Iteration(after[k - 1], k - 1)
    IN  after[n]

\* The target that the last iteration wrote.
FinalSlot(n) == n % 2

Shaded(rec) ==
    Emit(ToState(ToState(Emit(AllToTargets(rec), ShadePass), 4, "PSR"), 5, "PSR"),
         UavBarrier(<<"accum", accumPair>>))

Composited(rec, n) ==
    LET final == FinalSlot(n) IN
    AllToTargets(ToBack(
        ToState(ToState(ToState(rec, final, "PSR"), 2, "PSR"), 3, "PSR"),
        CompositePass(final)))

DenoiserObjects == <<"offscreen", "moments", "shade", "atrous", "composite">>

DenoiseReady == Range(DenoiserObjects) \subseteq made

Multipass(f) == DenoiseReady /\ f.denoiser # "NONE" /\ f.mode = "QUALITY"

\* std::max(1, std::min(gi_atrous_iters, 6))
Clamped(n) == IF n < 1 THEN 1 ELSE IF n > IterMax THEN IterMax ELSE n

Recorded(f) ==
    LET rec == [list |-> <<>>, tex |-> texState] IN
    IF Multipass(f)
    THEN Composited(Iterated(Shaded(rec), Clamped(f.iters)), Clamped(f.iters))
    ELSE ToBack(rec, SinglePass(f))

-----------------------------------------------------------------------------
(* The GPU. *)

Idle == queue = <<>> /\ pending = {}

\* A draw may still read its inputs and write its outputs when the next starts.
Accesses(d) ==
    [res : DOMAIN d.inputs \cup DOMAIN d.history, write : {FALSE}]
        \cup [res : DOMAIN d.outputs, write : {TRUE}]

Conflicts(d) ==
    \E p \in pending, a \in Accesses(d) : p.res = a.res /\ (p.write \/ a.write)

\* How old the frame is that the draw's inputs belong to: the camera's, or that
\* of the filter's source.
Age(d) == IF d.inputs = None THEN camera.age ELSE mem[CHOOSE r \in DOMAIN d.inputs : d.inputs[r] = "indirect"].age

\* Every input holds what the shader takes it for, of one frame; a kept history
\* is that of the frame before, and the noise is a whole tile.
Sound(d) ==
    /\ ~Conflicts(d)
    /\ tile # "part"
    /\ \A r \in DOMAIN d.inputs : mem[r].kind = d.inputs[r] /\ mem[r].age = Age(d)
    /\ camera.keep =>
         \A h \in DOMAIN d.history : mem[h].kind = d.history[h] /\ mem[h].age = camera.age + 1

\* How often the filter went over what the draw leaves.
Passes(d) ==
    IF d.inputs = None THEN 0
    ELSE LET src == CHOOSE r \in DOMAIN d.inputs : d.inputs[r] = "indirect"
         IN  mem[src].passes + (IF "atrous" \in d.objects THEN 1 ELSE 0)

Drawn(d) ==
    [r \in DOMAIN mem |->
        IF r \notin DOMAIN d.outputs THEN mem[r]
        ELSE IF Sound(d) THEN Content(Age(d), d.outputs[r], Passes(d)) ELSE Undefined]

GpuDraw ==
    /\ queue # <<>> /\ Head(queue).op = "draw"
    /\ mem' = Drawn(Head(queue))
    /\ pending' = pending \cup Accesses(Head(queue))
    /\ UNCHANGED <<actual, screen>>

\* A barrier waits for the accesses to its resource.
GpuBarrier ==
    /\ queue # <<>> /\ Head(queue).op \in {"transition", "uav"}
    /\ pending' = {p \in pending : p.res # Head(queue).res}
    /\ actual' = IF Head(queue).op = "uav" THEN actual
                 ELSE [actual EXCEPT ![Head(queue).res] = Head(queue).after]
    /\ UNCHANGED <<mem, screen>>

GpuCopy ==
    /\ queue # <<>> /\ Head(queue).op = "copy"
    /\ mem' = [mem EXCEPT ![Readback] = mem[Head(queue).res]]
    /\ UNCHANGED <<actual, pending, screen>>

\* FLIP_DISCARD: what was presented is gone from its buffer.
GpuPresent ==
    /\ queue # <<>> /\ Head(queue).op = "present"
    /\ screen' = mem[Head(queue).res]
    /\ mem' = [mem EXCEPT ![Head(queue).res] = Undefined]
    /\ UNCHANGED <<actual, pending>>

GpuEnd ==
    /\ queue # <<>> /\ Head(queue).op = "end"
    /\ pending' = {}
    /\ UNCHANGED <<actual, mem, screen>>

GpuStep ==
    /\ GpuDraw \/ GpuBarrier \/ GpuCopy \/ GpuPresent \/ GpuEnd
    /\ queue' = Tail(queue)
    /\ UNCHANGED <<pc, step, made, texState, camera, target, accumPair, accKey, frame, bake>>

-----------------------------------------------------------------------------
(* The bake thread.  It may be killed with the process at any step. *)

BakeRank ==
    /\ baker = "baking"
    /\ bnTile' = "real"
    /\ baker' = "ranked"
    /\ UNCHANGED <<tile, bnReady, cache>>

\* The ofstream truncates the file; without one the bake goes on.
CacheOpen ==
    /\ baker = "ranked"
    /\ \/ cache' = "part" /\ baker' = "writing"
       \/ cache' = cache  /\ baker' = "written"
    /\ UNCHANGED <<tile, bnTile, bnReady>>

\* The write may fail half-way.
CacheWrite ==
    /\ baker = "writing"
    /\ cache' \in {"part", "full"}
    /\ baker' = "written"
    /\ UNCHANGED <<tile, bnTile, bnReady>>

\* Mutated form of BakeSignal: only a tile that reached the disk is announced.
BakeSignal_Cached ==
    /\ baker = "written"
    /\ bnReady' = (cache = "full")
    /\ baker' = "done"
    /\ UNCHANGED <<tile, bnTile, cache>>

BakeSignal ==
    /\ baker = "written"
    /\ bnReady' = TRUE
    /\ baker' = "done"
    /\ UNCHANGED <<tile, bnTile, cache>>

BakeStep ==
    /\ BakeRank \/ CacheOpen \/ CacheWrite \/ BakeSignal
    /\ UNCHANGED <<pc, step, made, texState, camera, target, accumPair, accKey, frame, gpu>>

-----------------------------------------------------------------------------
(* Init: each object may fail to be created. *)

InitOrder ==
    <<"device", "queue", "swapchain", "targets", "list", "fence", "rootSig", "pso",
      "voxels", "brick", "camera", "history">> \o DenoiserObjects \o <<"noise", "palette">>

NoiseStep == CHOOSE n \in DOMAIN InitOrder : InitOrder[n] = "noise"

\* The noise buffer is filled from a whole cache file, or with a hash while a
\* thread bakes.
LoadTile ==
    IF cache = "full"
    THEN tile' = "real" /\ UNCHANGED <<baker, bnTile>>
    ELSE tile' = "hash" /\ baker' = "baking" /\ bnTile' = "part"

InitObject ==
    /\ pc = "init"
    /\ made' = made \cup {InitOrder[step]}
    /\ step' = step + 1
    /\ pc' = IF step = Len(InitOrder) THEN "drain" ELSE "init"
    /\ IF step = NoiseStep THEN LoadTile ELSE UNCHANGED <<tile, baker, bnTile>>
    /\ UNCHANGED <<texState, camera, target, accumPair, accKey, frame, gpu, bnReady, cache>>

\* Without one of its own objects only the denoiser is given up; without any
\* other, Init returns false and the engine goes on without a renderer.
InitFails ==
    /\ pc = "init"
    /\ IF InitOrder[step] \in Range(DenoiserObjects)
       THEN pc' = pc /\ step' = NoiseStep
       ELSE pc' = "headless" /\ step' = step
    /\ UNCHANGED <<made, texState, camera, target, accumPair, accKey, frame, gpu, bake>>

-----------------------------------------------------------------------------
(* Between two frames: commands of the console. *)

\* What was drawn shows another geometry than the voxel buffer holds now.
Outdated == [r \in DOMAIN mem |-> [mem[r] EXCEPT !.age = 2]]

VoxelsWritten ==
    /\ mem' = Outdated
    /\ camera' = [camera EXCEPT !.age = 2]
    /\ accKey' = NoKey
    /\ UNCHANGED <<pc, step, made, texState, target, accumPair, frame, actual, pending, queue, screen, bake>>

\* It waits for the GPU first.
SetVoxels  == pc = "drain" /\ Idle /\ VoxelsWritten
EditVoxels == pc = "drain" /\ VoxelsWritten

CaptureScreenshot ==
    /\ pc = "drain"
    /\ pc' = "capture"
    /\ queue' = queue \o << Transition(Back(target), "PRESENT", "COPY"), Copy(Back(target)),
                            Transition(Back(target), "COPY", "PRESENT"), EndOfList >>
    /\ UNCHANGED <<step, made, texState, camera, target, accumPair, accKey, frame,
                   actual, mem, pending, screen, bake>>

\* After WaitIdle the readback buffer is mapped and written to a file.
SaveScreenshot ==
    /\ pc = "capture" /\ Idle
    /\ pc' = "drain"
    /\ UNCHANGED <<step, made, texState, camera, target, accumPair, accKey, frame, gpu, bake>>

\* A file that the bake thread has open cannot be removed.
ClearCache ==
    /\ pc \in {"drain", "headless"}
    /\ cache # "absent" /\ baker # "writing"
    /\ cache' = "absent"
    /\ UNCHANGED <<pc, step, made, texState, camera, target, accumPair, accKey, frame, gpu,
                   tile, baker, bnTile, bnReady>>

-----------------------------------------------------------------------------
(* RenderFrame. *)

\* A finished bake is swapped in once, after WaitIdle, and the thread joined.
SwapTile ==
    IF bnReady /\ baker = "done"
    THEN Idle /\ tile' = bnTile /\ baker' = "none" /\ bnTile' = "none"
    ELSE UNCHANGED <<tile, baker, bnTile>>

Key(f) == <<f.mode, f.denoiser>>

\* Mutated form of Keeps: history survives a change of the denoiser.
Keeps_AnyDenoiser(f) == IF f.mode = "QUALITY" /\ accKey[1] = f.mode THEN BOOLEAN ELSE {FALSE}

\* A history can be kept in QUALITY, under an unchanged scene key; whether it
\* is depends on the rest of the scene, the camera and the switches.
Keeps(f) == IF f.mode = "QUALITY" /\ accKey = Key(f) THEN BOOLEAN ELSE {FALSE}

Aged == [r \in DOMAIN mem |-> [mem[r] EXCEPT !.age = Older(@)]]

RenderFrame(f) ==
    /\ pc = "drain"
    /\ pc' = "wait"
    /\ frame' = f
    /\ SwapTile
    /\ \E keep \in Keeps(f) : camera' = [age |-> 0, keep |-> keep]
    /\ accKey' = Key(f)
    /\ mem' = Aged
    /\ queue' = queue \o Recorded(f).list \o <<EndOfList, Present(Back(target))>>
    /\ texState' = Recorded(f).tex
    /\ target' = (target + 1) % BackBuffers
    /\ UNCHANGED <<step, made, accumPair, actual, pending, screen, bnReady, cache>>

NextPair == Other(accumPair)

\* WaitIdle, then the history that was written becomes the one that is read.
FinishFrame ==
    /\ pc = "wait" /\ Idle
    /\ pc' = "drain"
    /\ accumPair' = NextPair
    /\ frame' = NoFrame
    /\ UNCHANGED <<step, made, texState, camera, target, accKey, gpu, bake>>

-----------------------------------------------------------------------------
(* The process.  Only the cache file outlives it. *)

Targets == [t \in Textures |-> IF t[1] = "tex" THEN "RT" ELSE "PRESENT"]

Init ==
    /\ pc = "off"
    /\ cache = "absent"
    /\ step = 1
    /\ made = {}
    /\ texState = [s \in Slots |-> "RT"]
    /\ actual = Targets
    /\ mem = [r \in Resources |-> Undefined]
    /\ pending = {}
    /\ queue = <<>>
    /\ camera = [age |-> 2, keep |-> FALSE]
    /\ target = 0
    /\ accumPair = 0
    /\ accKey = NoKey
    /\ frame = NoFrame
    /\ screen = Undefined
    /\ tile = "none"
    /\ baker = "none"
    /\ bnTile = "none"
    /\ bnReady = FALSE

Gone ==
    /\ pc' = "off"
    /\ step' = 1
    /\ made' = {}
    /\ texState' = [s \in Slots |-> "RT"]
    /\ actual' = Targets
    /\ mem' = [r \in Resources |-> Undefined]
    /\ pending' = {}
    /\ queue' = <<>>
    /\ camera' = [age |-> 2, keep |-> FALSE]
    /\ target' = 0
    /\ accumPair' = 0
    /\ accKey' = NoKey
    /\ frame' = NoFrame
    /\ screen' = Undefined
    /\ tile' = "none"
    /\ baker' = "none"
    /\ bnTile' = "none"
    /\ bnReady' = FALSE
    /\ UNCHANGED cache

Start ==
    /\ pc = "off"
    /\ pc' = "init"
    /\ UNCHANGED <<step, made, texState, camera, target, accumPair, accKey, frame, gpu, bake>>

\* Shutdown joins the bake thread and waits for the GPU.
Shutdown ==
    /\ pc \in {"drain", "headless"}
    /\ baker \in {"none", "done"} /\ Idle
    /\ Gone

Crash == pc # "off" /\ Gone

Next ==
    \/ Start \/ InitObject \/ InitFails
    \/ SetVoxels \/ EditVoxels \/ CaptureScreenshot \/ SaveScreenshot \/ ClearCache
    \/ \E f \in Frames : RenderFrame(f)
    \/ FinishFrame
    \/ GpuStep
    \/ BakeStep
    \/ Shutdown \/ Crash

Spec == Init /\ [][Next]_vars

Fairness ==
    /\ WF_vars(GpuStep)
    /\ WF_vars(BakeStep)
    /\ WF_vars(FinishFrame)
    /\ WF_vars(SaveScreenshot)
    /\ SF_vars(\E f \in Frames : RenderFrame(f))

FairSpec == Spec /\ Fairness

-----------------------------------------------------------------------------
Contents == [age : 0..2, passes : 0..IterMax,
             kind : Histories \cup {"indirect", "direct", "albedo", "gbuf", "variance",
                                    "filtered", "picture", "undefined"}]

\* The state has its types.
TypeOK ==
    /\ pc \in {"off", "init", "drain", "headless", "capture", "wait"}
    /\ step \in 1..(Len(InitOrder) + 1)
    /\ made \subseteq Range(InitOrder)
    /\ texState \in [Slots -> {"RT", "PSR"}]
    /\ actual \in [Textures -> {"RT", "PSR", "PRESENT", "COPY"}]
    /\ mem \in [Resources -> Contents]
    /\ pending \subseteq [res : Resources, write : BOOLEAN]
    /\ target \in 0..(BackBuffers - 1)
    /\ accumPair \in {0, 1}
    /\ screen \in Contents
    /\ camera \in [age : 0..2, keep : BOOLEAN]
    /\ tile \in {"none", "hash", "part", "real"}

Ready(cmd) ==
    CASE cmd.op = "transition" -> actual[cmd.res] = cmd.before
      [] cmd.op = "copy"       -> actual[cmd.res] = "COPY"
      [] cmd.op = "present"    -> actual[cmd.res] = "PRESENT"
      [] cmd.op = "draw"       ->
            /\ cmd.objects \subseteq made
            /\ ~Conflicts(cmd)
            /\ \A r \in DOMAIN cmd.inputs : actual[r] = "PSR"
            /\ \A r \in DOMAIN cmd.outputs \cap Textures : actual[r] = "RT"
      [] OTHER                 -> TRUE

\* Whatever failed in Init and however the settings change from frame to frame,
\* the GPU finds each resource of a command created, in the state the command
\* names, and with every earlier access to it finished.
UsesSound == queue # <<>> => Ready(Head(queue))

\* What a frame must show: all of it drawn for this frame, from the present
\* voxels, whole histories of the frame before and a whole noise tile, and
\* filtered as often as asked.
Shown(f) == Content(0, "picture", IF Multipass(f) THEN Clamped(f.iters) ELSE 0)

\* Each frame presents such a picture, and leaves the next one the average it
\* expects: filtered once if the denoiser ran, raw otherwise.
FrameWhole ==
    pc = "wait" /\ Idle =>
        /\ screen = Shown(frame)
        /\ frame.mode = "QUALITY" =>
             mem[<<"accum", accumPair>>] =
                Content(0, IF Multipass(frame) THEN "filtered" ELSE "accum", IF Multipass(frame) THEN 1 ELSE 0)

\* While the engine runs, a baked tile reaches the renderer, whether or not it
\* could be cached.
TileArrives == pc = "drain" /\ tile = "hash" ~> tile = "real" \/ pc = "off"

\* The help of the screenshot command: it captures the current frame.
ShotIsCurrent == pc = "capture" /\ Idle => mem[Readback] = screen

=============================================================================
