---------------------------- MODULE MCVoxelScene ----------------------------
(* Bounds for VoxelScene: one axis of two cells in two chunks; a demo of one
   colour, and models of one or two others; a build with PhysX or without,
   starting from the demo or an import.  Four palette slots leave one for the
   last model when the second one came before it, so that they run out between
   its two cells; with the pinned colour they are all taken from the start.
   Six hold everything. *)
EXTENDS VoxelScene

MCAxes     == {1}
MCCell(x)  == [a \in MCAxes |-> x]
MCSpace    == {MCCell(x) : x \in 0..1}
MCDistance == [c \in Colors |-> [d \in Colors |-> (c - d) * (c - d)]]
MCOffsets  == {MCCell(0)}

\* A model with colour c in slot 1, d in slot 2 and nothing in the others.
MCModel(cells, c, d) ==
    [voxels |-> [p \in {MCCell(x) : x \in cells} |-> 1 + p[1]],
     palette |-> [k \in 0..(PaletteSize - 1) |-> IF k = 1 THEN c ELSE IF k = 2 THEN d ELSE NoColor]]

MCDemo    == MCModel({0, 1}, 1, 1)
MCModels  == {MCDemo, MCModel({0, 1}, 2, 1), MCModel({1}, 1, 3), MCModel({0, 1}, 3, 5)}
MCImport  == MCModel({0, 1}, 2, 1)
MCSetups  == [physX : BOOLEAN, import : {NoModel, MCImport}]
MCPinned  == {[physX |-> TRUE, import |-> NoModel]}
MCImported == {[physX |-> FALSE, import |-> MCImport]}
=============================================================================
