--------------------------- MODULE MCMarchingCubes ---------------------------
(***************************************************************************)
(* Instances of MarchingCubes for TLC.  A surface lies inside the box of   *)
(* its tree, so every point of the grid's border is below the iso value;   *)
(* one that meets the border is drawn too, but is not closed.              *)
(***************************************************************************)
EXTENDS MarchingCubes

(* One point inside, and two cells at work at a time; and surfaces around  *)
(* the eight inner points of a larger grid, a cell at a time: none, and    *)
(* every one with a given point inside.                                    *)
Centre == [ above |-> { <<1, 1, 1>> }, res |-> 3, workers |-> 2 ]
Whole(a) == [ above |-> a, res |-> 4, workers |-> 1 ]
Others == ((1 .. 2) \X (1 .. 2) \X (1 .. 2)) \ { <<1, 1, 1>> }
MCScenes ==
    { Centre, Whole({}), Whole({ <<2, 3, 1>> }) } \cup { Whole(a \cup { <<1, 1, 1>> }) : a \in SUBSET Others }
=============================================================================
