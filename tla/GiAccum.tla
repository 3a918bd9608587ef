------------------------------ MODULE GiAccum ------------------------------
(***************************************************************************)
(* Temporal accumulation of global illumination in                         *)
(* engine/render/Renderer.cpp: RenderFrame decides whether the history is  *)
(* kept (accumFrame > 0), and the pixel shaders average the new sample     *)
(* into what the previous frame left, reading one of two buffers and       *)
(* writing the other.                                                      *)
(*                                                                         *)
(* One pixel is followed.  A stored average is abstracted to the set of    *)
(* images its samples belong to, its sample count, the filter settings     *)
(* that went into it and the view it was shot from.  The main loop drains  *)
(* the console (settings, edits) between two frames and then calls the     *)
(* four SetXxx setters and RenderFrame, which waits for the GPU.           *)
(***************************************************************************)
EXTENDS Integers, FiniteSets

CONSTANTS
    Looks,          \* sun, exposure, sample counts...: the rest of the scene key
    Cameras,        \* camera poses: position, angles and field of view
    Phis,           \* edge-stop settings of the a-trous filter
    Starts,         \* the settings the program may start with
    Surfaces,       \* the views <<camera, geometry>> in which the pixel hits a voxel
    StillCap,       \* 2048: the sample cap of a still camera
    ReprojectCaps,  \* the caps a moving camera gets with reprojection (8 to 1024)
    EmaCaps,        \* the caps a moving camera gets without it (1.2 to 5.7)
    FrameModulus,   \* 2^32: accumFrame is a UINT
    DenoiseReady,   \* the multi-pass denoiser's resources were created
    MaxTunes,       \* bound: the settings change at most so often
    MaxEdits        \* bound: the geometry changes at most so often

Flags    == {"giDenoise", "emptySkip", "giDebug", "giReproject"}
Scenes   == [look : Looks, mode : {"QUALITY", "PERFORMANCE"},
             denoiser : {"NONE", "ATROUS", "SVGF"}]
Settings == [scene : Scenes, cam : Cameras, phi : Phis, flags : [Flags -> BOOLEAN]]
Geometry == 0..MaxEdits

ASSUME GiAssumption ==
    /\ Starts \subseteq Settings
    /\ Surfaces \subseteq Cameras \X Geometry
    /\ StillCap \in Nat \ {0}
    /\ ReprojectCaps \cup EmaCaps \subseteq 1..(StillCap - 1)
    /\ FrameModulus \in Nat /\ FrameModulus > StillCap + 1
    /\ DenoiseReady \in BOOLEAN
    /\ MaxTunes \in Nat /\ MaxEdits \in Nat

VARIABLES
    settings,    \* the renderer cvars and the camera
    geometry,    \* how many edits the voxel buffer has received
    flags,       \* the renderer's copies of the four switches
    accumFrame,
    accHave,
    accKey,      \* accCamKey and accSceneKey
    prevVP,      \* the camera of the previous frame's view-projection
    accumPair,
    accum,       \* the two history buffers, at the pixel
    tunes        \* bound: how often the settings changed

vars == <<settings, geometry, flags, accumFrame, accHave, accKey, prevVP, accumPair, accum, tunes>>

Unset   == "unset"       \* never written: what is read from it means nothing
NoView  == <<Unset, -1>>
NoScene == <<Unset, Unset, Unset>>
NoImage == [look |-> Unset, quantity |-> Unset, geometry |-> -1]

Other(b) == 1 - b

-----------------------------------------------------------------------------
(* The frame's inputs. *)

Scene == settings.scene

View == <<settings.cam, geometry>>

\* The a-trous passes run in QUALITY, when a denoiser is chosen and available.
Multipass ==
    DenoiseReady /\ Scene.denoiser # "NONE" /\ Scene.mode = "QUALITY"

\* What a sample of this frame is a sample of: full radiance, the GI-only view,
\* or the demodulated indirect light the denoiser works on.
Quantity ==
    IF Multipass THEN "indirect" ELSE IF settings.flags["giDebug"] THEN "bounce" ELSE "full"

Image == [look |-> Scene.look, quantity |-> Quantity, geometry |-> geometry]

\* Mutated form of SceneKey: the denoiser is not part of it.
SceneKey_NoDenoiser(scene) == <<scene.look, scene.mode>>

\* Mutated form of SceneKey: the mode is not part of it.
SceneKey_NoMode(scene) == <<scene.look, "QUALITY", scene.denoiser>>

\* What a change of which makes the existing history wrong.
SceneKey(scene) == <<scene.look, scene.mode, scene.denoiser>>

\* Mutated form of Toggled: the setters lack their early return.
Toggled_Unguarded == Flags

\* The switches whose setter finds a new value; each of them drops the history.
Toggled == {f \in Flags : settings.flags[f] # flags[f]}

-----------------------------------------------------------------------------
(* RenderFrame's decisions. *)

SceneSame == accHave /\ Toggled = {} /\ SceneKey(Scene) = accKey.scene
CamSame   == settings.cam = accKey.cam

\* History is kept for a still camera, and for a moving one if it can be
\* realigned (giReproject) or blended in screen space (giDenoise).
Keeps ==
    /\ Scene.mode = "QUALITY"
    /\ SceneSame
    /\ CamSame \/ settings.flags["giReproject"] \/ settings.flags["giDenoise"]

NextAccumFrame == IF Keeps THEN (accumFrame + 1) % FrameModulus ELSE 0

\* Mutated form of HistMaxes: the still cap, moving or not.
HistMaxes_Frozen == {StillCap}

HistMaxes ==
    IF CamSame THEN {StillCap}
    ELSE IF settings.flags["giReproject"] THEN ReprojectCaps ELSE EmaCaps

-----------------------------------------------------------------------------
(* The pixel shaders PSMain and PSShade, and iteration 0 of PSAtrous. *)

\* The shader looks at giHistMax only while giDenoise is on.
Cap(histMax) == IF settings.flags["giDenoise"] THEN histMax ELSE StillCap

\* With reprojection the hit point must be found again in the previous frame: it
\* always is from the same view, never for the sky, perhaps after a move.
HistValid ==
    IF ~settings.flags["giReproject"] THEN {TRUE}
    ELSE IF View \notin Surfaces THEN {FALSE}
    ELSE IF prevVP = settings.cam /\ accum[Other(accumPair)].view = View THEN {TRUE}
    ELSE BOOLEAN

\* Mutated form of Lesser: the cap is not applied.
Lesser_First(a, b) == a

Lesser(a, b) == IF a <= b THEN a ELSE b

\* Samples of the history that the new average keeps.
Kept(histMax, valid) ==
    IF NextAccumFrame = 0 \/ ~valid THEN 0
    ELSE Lesser(accum[Other(accumPair)].n, Cap(histMax))

\* The a-trous pass of iteration 0 stores its filtered output over the average.
Filter == IF Multipass THEN settings.phi ELSE Unset

Blend(n) ==
    LET hist == accum[Other(accumPair)] IN
    [of      |-> {Image} \cup (IF n = 0 THEN {} ELSE hist.of),
     n       |-> n + 1,
     filters |-> {Filter} \cup (IF n = 0 THEN {} ELSE hist.filters),
     view    |-> View]

\* Only QUALITY writes a history buffer.
Shaded(histMax, valid) ==
    IF Scene.mode = "QUALITY"
    THEN [accum EXCEPT ![accumPair] = Blend(Kept(histMax, valid))]
    ELSE accum

NextPair == Other(accumPair)

Frame ==
    /\ \E histMax \in HistMaxes, valid \in HistValid : accum' = Shaded(histMax, valid)
    /\ flags' = settings.flags
    /\ accumFrame' = NextAccumFrame
    /\ accHave' = TRUE
    /\ accKey' = [cam |-> settings.cam, scene |-> SceneKey(Scene)]
    /\ prevVP' = settings.cam
    /\ accumPair' = NextPair
    /\ UNCHANGED <<settings, geometry, tunes>>

-----------------------------------------------------------------------------
(* Between two frames. *)

\* EditVoxels with a box inside the grid, or SetVoxels: new geometry, no history.
EditVoxels ==
    /\ geometry < MaxEdits
    /\ geometry' = geometry + 1
    /\ accumFrame' = 0
    /\ accHave' = FALSE
    /\ UNCHANGED <<settings, flags, accKey, prevVP, accumPair, accum, tunes>>

Change(new) ==
    /\ tunes < MaxTunes
    /\ new # settings
    /\ settings' = new
    /\ tunes' = tunes + 1
    /\ UNCHANGED <<geometry, flags, accumFrame, accHave, accKey, prevVP, accumPair, accum>>

Tune      == \E scene \in Scenes : Change([settings EXCEPT !.scene = scene])
TunePhi   == \E phi \in Phis : Change([settings EXCEPT !.phi = phi])
Toggle    == \E f \in Flags : Change([settings EXCEPT !.flags[f] = ~@])
MoveCamera == \E cam \in Cameras : Change([settings EXCEPT !.cam = cam])

Init ==
    /\ settings \in Starts
    /\ geometry = 0
    /\ flags = [f \in Flags |-> f # "giDebug"]
    /\ accumFrame = 0
    /\ accHave = FALSE
    /\ accKey = [cam |-> Unset, scene |-> NoScene]
    /\ prevVP = settings.cam
    /\ accumPair = 0
    /\ accum = [b \in {0, 1} |-> [of |-> {NoImage}, n |-> StillCap, filters |-> {Unset}, view |-> NoView]]
    /\ tunes = 0

Next == Frame \/ EditVoxels \/ Tune \/ TunePhi \/ Toggle \/ MoveCamera

Spec == Init /\ [][Next]_vars

\* The main loop renders a frame on every turn.
FairSpec == Spec /\ WF_vars(Frame)

-----------------------------------------------------------------------------
\* The state has its types; no average counts more samples than the still cap
\* allows, whatever changes between the frames.
TypeOK ==
    /\ settings \in Settings
    /\ geometry \in Geometry
    /\ flags \in [Flags -> BOOLEAN]
    /\ accumFrame \in 0..(FrameModulus - 1)
    /\ accHave \in BOOLEAN
    /\ prevVP \in Cameras
    /\ accumPair \in {0, 1}
    /\ \A b \in {0, 1} : accum[b].n \in 1..(StillCap + 1)
    /\ tunes \in 0..MaxTunes

\* A history buffer never mixes samples of two images (another look, quantity or
\* geometry), nor anything that was never written: RenderFrame, the setters and
\* the voxel uploads drop the history whenever what is accumulated changes.
OneImage == \A b \in {0, 1} : Cardinality(accum[b].of) = 1

\* A frame that keeps history reads the buffer of the frame just before it, and
\* realigns it with the very view-projection that buffer was rendered with.
HistoryAligned ==
    [][accumPair' # accumPair /\ accumFrame' # 0 => accum[Other(accumPair)].view[1] = prevVP]_vars

\* While the camera moves, a kept history is cut to the moving cap (with the
\* denoise switch on), so that old samples fade within a few frames.
MotionForgets ==
    [][accumPair' # accumPair /\ accumFrame' # 0 /\ settings.cam # prevVP /\ flags'["giDenoise"]
        => accum'[accumPair].n <= StillCap]_vars

\* The comment in RenderFrame: with reprojection on, a moving camera must not
\* leave the cap frozen at its still value.
NeverFrozen ==
    [][accumPair' # accumPair /\ accumFrame' # 0 /\ settings.cam # prevVP /\ flags'["giReproject"]
        => accum'[accumPair].n <= StillCap]_vars

\* The comment on the scene key: the filter's settings do not affect what is
\* stored, so no history holds the output of two different filters.
KnobsNotStored == \A b \in {0, 1} : Cardinality(accum[b].filters) = 1

\* Once the settings stay in QUALITY and the pixel shows a surface (or is not
\* reprojected), its average keeps reaching the full still cap.
Still == Scene.mode = "QUALITY" /\ (settings.flags["giReproject"] => View \in Surfaces)

Converges == <>[]Still => []<>(accum[Other(accumPair)].n = StillCap + 1)

=============================================================================
