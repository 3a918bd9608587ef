----------------------------- MODULE VoxelGrid -----------------------------
(***************************************************************************)
(* What engine/voxel/VoxelWorld.h promises about voxels: a total function  *)
(* from coordinates to materials.  SetVoxel writes one cell, CarveSphere   *)
(* and Clear empty cells, and nothing else ever changes.                   *)
(***************************************************************************)
CONSTANTS
    Space,      \* the coordinates
    World,      \* those of the renderer's grid, [0,kWorldDim) on each axis
    Materials,  \* 0..255
    Air         \* material 0

VARIABLE voxel

Init == voxel = [p \in Space |-> Air]

Set(p, m) == voxel' = [voxel EXCEPT ![p] = m]

\* Some cells of the world are emptied, the others and everything outside of it stay.
Carve == voxel' = [p \in Space |-> IF p \in World /\ voxel'[p] = Air THEN Air ELSE voxel[p]]

Clear == voxel' = [p \in Space |-> Air]

Next ==
    \/ \E p \in Space, m \in Materials : Set(p, m)
    \/ Carve
    \/ Clear

Spec == Init /\ [][Next]_voxel
=============================================================================
