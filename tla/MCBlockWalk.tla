---------------------------- MODULE MCBlockWalk -----------------------------
(* Frames for TLC: small enough to walk every partition tree of them, and cut *)
(* on the right and at the bottom, where the tree is only partly coded.       *)
EXTENDS BlockWalk

F(w, h, sb, ssH, ssV, cols, rows, lr) ==
    [width |-> w, height |-> h, sb |-> sb, ssH |-> ssH, ssV |-> ssV,
     cols |-> cols, rows |-> rows, lr |-> lr]

\* Whole and cut superblocks, two tile rows; then the other two layouts.
WholeFrames ==
    {F(84, 77, 16, 1, 1, <<0, 2>>, <<0, 1, 2>>, <<64, 32>>),
     F(40, 47, 16, 1, 0, <<0, 1>>, <<0, 1>>, <<64, 64>>),
     F(44, 36, 16, 0, 0, <<0, 1>>, <<0, 1>>, <<64, 64>>),
     F(136, 40, 32, 1, 1, <<0, 2>>, <<0, 1>>, <<128, 64>>)}
TiledFrames == {F(72, 72, 16, 1, 1, <<0, 1, 2>>, <<0, 2>>, <<64, 64>>)}
=============================================================================
