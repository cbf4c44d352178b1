--------------------------- MODULE MCMeshAssembly ----------------------------
(***************************************************************************)
(* Instances of MeshAssembly for TLC, over a grid of two voxels a side.    *)
(***************************************************************************)
EXTENDS MeshAssembly

(* A surface recorded whole: every voxel of the grid, in one order, that   *)
(* is not wholly on one side.                                              *)
Crossed(low, v) == Corners(v) \cap low # {} /\ ~(Corners(v) \subseteq low)
AllVoxels ==
    << <<0, 0, 0>>, <<1, 0, 0>>, <<0, 1, 0>>, <<1, 1, 0>>,
       <<0, 0, 1>>, <<1, 0, 1>>, <<0, 1, 1>>, <<1, 1, 1>> >>
Everywhere(low) ==
    [ below |-> low, voxels |-> SelectSeq(AllVoxels, LAMBDA v : Crossed(low, v)) ]

(* For the parallel build: few voxels, so that every interleaving of their *)
(* tasks is met.                                                           *)
Pair == << <<0, 0, 0>>, <<1, 0, 0>> >>
MCParallel ==
    << \* two voxels that share a face, with a triangle each
       [ below |-> {<<1, 0, 0>>}, voxels |-> Pair ],
       \* two voxels one above the other
       [ below |-> {<<0, 0, 1>>}, voxels |-> << <<0, 0, 0>>, <<0, 0, 1>> >> ],
       \* a voxel with corners at, but not below, the iso value
       [ below |-> {<<0, 0, 0>>}, voxels |-> Pair ],
       \* two triangles each, and two shared edges
       [ below |-> {<<0, 0, 0>>, <<1, 0, 0>>, <<2, 0, 0>>}, voxels |-> Pair ],
       \* three voxels around a corner
       [ below |-> {<<0, 0, 0>>, <<1, 0, 0>>, <<0, 1, 0>>}, voxels |-> << <<0, 0, 0>>, <<1, 0, 0>>, <<0, 1, 0>> >> ] >>

(* For the serial build: every surface around some of these grid points.   *)
Points == { <<1, 1, 1>>, <<0, 1, 1>>, <<1, 0, 1>>, <<1, 1, 0>>, <<0, 0, 1>>, <<2, 2, 2>>, <<2, 1, 0>> }
MCSerial == [ low \in SUBSET Points |-> Everywhere(low) ]
=============================================================================
