--------------------------- MODULE MCDebrisField ---------------------------
(* Bounds for DebrisField: a row of four cells in two bricks, chunks of one
   cell whose padded boxes overlap each other and both bricks, one of them able
   to leave the grid; two blasts that overlap, one of them split in two parts. *)
EXTENDS DebrisField

MCCells   == 0..3
MCBrickOf == [c \in MCCells |-> c \div 2]

Near(x)   == {c \in MCCells : c \in (x - 1)..(x + 1)}
MCPoses   == {[box |-> Near(x), solid |-> {x} \cap MCCells] : x \in {0, 1, 3}}
                \cup {[box |-> {}, solid |-> {}]}

MCBlasts  == {[hit |-> 1, region |-> {0, 1, 2}, sphere |-> {0, 1, 2},
               parts |-> <<{0}, {1, 2}>>],
              [hit |-> 2, region |-> {1, 2, 3}, sphere |-> {2}, parts |-> <<{1, 2, 3}>>]}

MCStamps  == {[c \in {1, 2} |-> 1], [c \in {0, 3} |-> 2]}
MCMaxLives      == {1, 3}
MCMaxLivesSmall == {2}
=============================================================================
