------------------------------- MODULE Lattice -------------------------------
(***************************************************************************)
(* The line segments drawn for a list of voxels: the twelve edges of each, *)
(* as indices into a list of points in which no point is there twice.  A   *)
(* point of a voxel stands for itself: equal ids give equal points.        *)
(***************************************************************************)
EXTENDS MarchingTables, SequencesExt

(* The pairs of corners that are joined, which the code lists once more.   *)
LatticeLines ==
    << <<0, 1>>, <<1, 2>>, <<2, 3>>, <<3, 0>>,
       <<4, 5>>, <<5, 6>>, <<6, 7>>, <<7, 4>>,
       <<0, 4>>, <<1, 5>>, <<2, 6>>, <<3, 7>> >>

(* The points named by the lines of all voxels, in order. *)
LinePoints(voxels) ==
    FlattenSeq([ v \in DOMAIN voxels |->
        [ n \in 1 .. 24 |-> Corner(voxels[v], LatticeLines[(n + 1) \div 2][2 - (n % 2)]) ] ])

clearBuffers == [ vertices |-> << >>, indices |-> << >> ]

(* A point not met before is numbered; otherwise its number is found. *)
AddLatticePoint(b, p) ==
    IF p \notin Range(b.vertices)
    THEN [ vertices |-> Append(b.vertices, p), indices |-> Append(b.indices, Len(b.vertices)) ]
    ELSE [ b EXCEPT !.indices = Append(@, (CHOOSE i \in DOMAIN b.vertices : b.vertices[i] = p) - 1) ]

makeLattice(voxels) == FoldLeft(AddLatticePoint, clearBuffers, LinePoints(voxels))
=============================================================================
