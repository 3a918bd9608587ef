---------------------------- MODULE MCVoxelWorld ----------------------------
(* Bounds for VoxelWorld: two axes, chunks of 2x2, a world of 4x4, with writes
   inside, below and above it, models inside it, and one material. *)
EXTENDS VoxelWorld

MCDistance == [c \in Colors |-> [d \in Colors |-> (c - d) * (c - d)]]
Paints(k)  == [m \in Materials |-> IF m = 0 THEN NoColor ELSE (m + k) % Cardinality(Colors)]

MCAxes    == {1, 2}
MCOutside == {<<-1, 0>>, <<-1, -3>>, <<4, 2>>}
MCSpace   == World \cup MCOutside
MCWrites  == MCOutside \cup {<<1, 1>>}
MCModels  ==
    {[voxels |-> [p \in {<<0, 0>>, <<1, 2>>} |-> 1], palette |-> Paints(0)],
     [voxels |-> [p \in {<<1, 3>>, <<3, 3>>} |-> 1], palette |-> Paints(0)]}
MCOffsets == {<<-1, 0>>, <<1, 3>>}
=============================================================================
