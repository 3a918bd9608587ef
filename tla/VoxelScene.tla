----------------------------- MODULE VoxelScene -----------------------------
(***************************************************************************)
(* How game/main.cpp uses VoxelWorld's palette: at startup the world holds *)
(* an imported model or the demo scene, the PhysX build pins a debris      *)
(* colour, the renderer copies a palette; later commands stamp models,     *)
(* carve and clear, and push the world's palette to the renderer again.    *)
(***************************************************************************)
EXTENDS VoxelWorld

CONSTANTS
    Demo,         \* the model GenerateDemoScene builds
    Setups,       \* the builds (VOX_HAVE_PHYSX or not) and what voxel.import_path loads
    NoModel,      \* nothing to import
    DebrisColor   \* kDebrisColor

VARIABLES
    setup,      \* the build that runs, and its startup import
    shown,      \* the renderer's palette buffer
    phase,      \* "boot", "demo", "pin", "loop", "push"
    debrisMat,  \* the debris slot
    painted     \* history: the colour each cell was last stamped or imported with

worldVars == vars
sceneVars == <<worldVars, setup, shown, phase, debrisMat, painted>>

ColorOf(model, p) == model.palette[model.voxels[p]]
DemoColors        == {ColorOf(Demo, p) : p \in DOMAIN Demo.voxels}

\* The demo scene has four colours, so the pinned one finds a free slot beside them.
ASSUME SceneAssumption ==
    /\ Demo \in Models
    /\ Cardinality(DemoColors) < PaletteSize - 1
    /\ Setups \subseteq [physX : BOOLEAN, import : Models \cup {NoModel}]
    /\ NoModel \notin Models
    /\ DebrisColor \in Colors \ {NoColor}
    /\ [a \in Axes |-> 0] \in Offsets

-----------------------------------------------------------------------------
\* The imported world replaces the empty one; its colours stay in the scene's own palette.
Import ==
    /\ phase = "boot"
    /\ setup.import # NoModel
    /\ chunks' = SourceWorld(setup.import)
    /\ shown' = setup.import.palette
    /\ painted' = [p \in World |-> IF p \in DOMAIN setup.import.voxels
                                     THEN ColorOf(setup.import, p) ELSE NoColor]
    /\ phase' = "pin"
    /\ UNCHANGED <<palette, paletteUsed, stamp, debrisMat>>

\* No model: the demo scene is stamped at the origin.
StartDemo ==
    /\ phase = "boot"
    /\ setup.import = NoModel
    /\ StampVox(Demo, [a \in Axes |-> 0])
    /\ phase' = "demo"
    /\ UNCHANGED <<shown, debrisMat, painted>>

\* The renderer is to show the world's palette.
Push(next) ==
    /\ ~Stamping
    /\ shown' = palette
    /\ phase' = next
    /\ UNCHANGED <<worldVars, debrisMat, painted>>

DemoStamped == phase = "demo" /\ Push("pin")

\* The free slots of the palette handed to the renderer; 255 when there is none.
FreeSlots  == {k \in Solid : shown[k] = NoColor}
DebrisSlot == IF FreeSlots = {} THEN PaletteSize - 1
              ELSE CHOOSE k \in FreeSlots : \A j \in FreeSlots : j <= k

\* The PhysX build writes its colour there, in the renderer's palette and in the world's.
PinDebris ==
    /\ phase = "pin"
    /\ IF setup.physX
       THEN /\ debrisMat' = DebrisSlot
            /\ shown' = [shown EXCEPT ![DebrisSlot] = DebrisColor]
            /\ SetPaletteColor(DebrisSlot, DebrisColor)
       ELSE UNCHANGED <<worldVars, shown, debrisMat>>
    /\ phase' = "loop"
    /\ UNCHANGED painted

-----------------------------------------------------------------------------
\* voxel.place and the web upload: the model is stamped...
VoxelPlace(model, off) ==
    /\ phase = "loop"
    /\ StampVox(model, off)
    /\ phase' = "push"
    /\ UNCHANGED <<shown, debrisMat, painted>>

StampPainted(p) ==
    /\ StampVoxel(p)
    /\ painted' = IF Target(p) \in World
                  THEN [painted EXCEPT ![Target(p)] = ColorOf(stamp.model, p)]
                  ELSE painted
    /\ UNCHANGED <<shown, phase, debrisMat>>

\* ...then SetVoxels copies the grid and the world's palette.
Placed == phase = "push" /\ Push("loop")

\* voxel.break, voxel.explode: the palette is not touched.
VoxelBreak(c, r) ==
    /\ phase = "loop"
    /\ CarveSphere(c, r)
    /\ UNCHANGED <<shown, phase, debrisMat, painted>>

VoxelClear ==
    /\ phase = "loop"
    /\ Clear
    /\ shown' = palette'
    /\ UNCHANGED <<phase, debrisMat, painted>>

-----------------------------------------------------------------------------
SceneInit ==
    /\ Init
    /\ setup \in Setups
    /\ shown = palette
    /\ phase = "boot"
    /\ debrisMat = PaletteSize - 1
    /\ painted = [p \in World |-> NoColor]

Step ==
    \/ Import
    \/ StartDemo
    \/ DemoStamped
    \/ PinDebris
    \/ \E model \in Models, off \in Offsets : VoxelPlace(model, off)
    \/ \E p \in stamp.todo : StampPainted(p)
    \/ Placed
    \/ \E c \in World, r \in Radii : VoxelBreak(c, r)
    \/ VoxelClear

SceneNext == Step /\ UNCHANGED setup

SceneSpec == SceneInit /\ [][SceneNext]_sceneVars

-----------------------------------------------------------------------------
(***************************************************************************)
(* Properties.                                                             *)
(***************************************************************************)

\* The variables keep their types, and the palette's watermark stays in the palette.
SceneTypeOK ==
    /\ TypeOK
    /\ setup \in Setups
    /\ shown \in Palettes
    /\ phase \in {"boot", "demo", "pin", "loop", "push"}
    /\ debrisMat \in Solid
    /\ painted \in [World -> Colors]

\* "StampVox merges the palette into the world, so carving keeps colors", and voxel.place is
\* "Additive": between commands every solid voxel is shown in the colour of the model that
\* brought it in, however many models, carvings and clears came before and after it.
ColorsShown ==
    phase = "loop" =>
        \A p \in World :
            LET m == GetVoxel(chunks, p) IN m # Air => shown[m] = painted[p]

\* Slot k of pal shows colour c as well as pal can: it has that colour, or all slots are
\* taken, none has it, and none is nearer to it.
Serves(pal, k, c) ==
    \/ pal[k] = c
    \/ /\ paletteUsed = PaletteSize
       /\ \A j \in Solid : pal[j] # c /\ Distance[pal[k]][c] <= Distance[pal[j]][c]

\* What the code keeps of it, with PhysX or without, from the demo scene: "Palette full: pick
\* the nearest existing colour".  When the slots run out in the middle of a stamp, no cell that
\* was stamped before changes its colour, and each later one gets its own if a slot has it,
\* else the nearest of all; the debris colour takes no slot from a cell.
NearestShown ==
    (setup.import = NoModel /\ phase = "loop") =>
        \A p \in World :
            LET m == GetVoxel(chunks, p) IN m # Air => Serves(shown, m, painted[p])

\* "Don't reuse this slot": however many models are stamped, no allocation takes the debris
\* slot of the palette every push copies.  (voxel.clear, which resets the palette, frees it.)
DebrisPinned ==
    [][(phase \in {"loop", "push"} /\ ~VoxelClear /\ palette[debrisMat] = DebrisColor)
          => palette'[debrisMat] = DebrisColor]_sceneVars

\* main.cpp on the pin: mirrored into the world's palette "so later place/clear/drop
\* re-pushes keep debris colored".
DebrisStaysColored == (setup.physX /\ phase = "loop") => shown[debrisMat] = DebrisColor
=============================================================================
