------------------------------ MODULE VoxelGrid ------------------------------
(***************************************************************************)
(* The cubic voxel grid of the Bsoid polygonizer and the tables that       *)
(* describe one voxel: its corners, its edges and its face neighbours.     *)
(*                                                                         *)
(* Ids are triples <<x, y, z>> of unsigned 64-bit coordinates.  The model  *)
(* writes the value 2^64 - 1, which the code calls invalidUint and reaches *)
(* by stepping below zero, as -1.                                          *)
(*                                                                         *)
(* Sequences are 1-based, the tables of the code 0-based: entry i of a     *)
(* table is Table[i + 1].                                                  *)
(***************************************************************************)
EXTENDS Integers, Sequences

CONSTANT GridSize            \* mGridSize: voxels along one side of the grid

ASSUME GridSizeAssumption == GridSize \in Nat \ {0}

Coord   == -1 .. GridSize + 1
VoxelId == Coord \X Coord \X Coord

(* The voxels a march can visit: those of the grid, and those one past its *)
(* upper faces, where a seed on the boundary of the tree's box lands.      *)
Cell == (0 .. GridSize) \X (0 .. GridSize) \X (0 .. GridSize)

(* The grid points that are corners of those voxels.                       *)
PointId == (0 .. GridSize + 1) \X (0 .. GridSize + 1) \X (0 .. GridSize + 1)

Plus(a, b) == << a[1] + b[1], a[2] + b[2], a[3] + b[3] >>
Minus(a)   == << -a[1], -a[2], -a[3] >>
Sub(a, b)  == Plus(a, Minus(b))

(* How the corners a, b and c turn, seen from where n points: the sign     *)
(* tells one way from the other.                                           *)
CrossProduct(a, b) ==
    << a[2] * b[3] - a[3] * b[2], a[3] * b[1] - a[1] * b[3], a[1] * b[2] - a[2] * b[1] >>
DotProduct(a, b)   == a[1] * b[1] + a[2] * b[2] + a[3] * b[3]
Turn(a, b, c, n)   == DotProduct(CrossProduct(Sub(b, a), Sub(c, a)), n)

VoxelDecals ==
    << <<0, 0, 0>>, <<1, 0, 0>>, <<1, 0, 1>>, <<0, 0, 1>>,
       <<0, 1, 0>>, <<1, 1, 0>>, <<1, 1, 1>>, <<0, 1, 1>> >>

(* A fault: the upper and lower neighbour swapped. *)
NeighbourDecalsSwapped ==
    << <<0, 0, -1>>, <<1, 0, 0>>, <<0, 0, 1>>, <<-1, 0, 0>>,
       <<0, -1, 0>>, <<0, 1, 0>> >>

NeighbourDecals ==
    << <<0, 0, -1>>, <<1, 0, 0>>, <<0, 0, 1>>, <<-1, 0, 0>>,
       <<0, 1, 0>>, <<0, -1, 0>> >>

(* The corners each edge joins.  Entry 7 joins corners 7 and 0, a diagonal *)
(* of the cube face x = 0, where the edge of the voxel joins 7 and 4.      *)
EdgeDecals ==
    << <<0, 1>>, <<1, 2>>, <<2, 3>>, <<3, 0>>,
       <<4, 5>>, <<5, 6>>, <<6, 7>>, <<7, 0>>,
       <<0, 4>>, <<1, 5>>, <<2, 6>>, <<3, 7>> >>

(* The two neighbours that share each edge's faces. *)
NeighbourMap ==
    << {0, 5}, {1, 5}, {2, 5}, {3, 5},
       {0, 4}, {1, 4}, {2, 4}, {3, 4},
       {0, 3}, {0, 1}, {1, 2}, {2, 3} >>

CornerIndex    == 0 .. 7
EdgeIndex      == 0 .. 11
NeighbourIndex == 0 .. 5

Corner(v, c)    == Plus(v, VoxelDecals[c + 1])
Corners(v)      == { Corner(v, c) : c \in CornerIndex }
Neighbour(v, n) == Plus(v, NeighbourDecals[n + 1])

(* A coordinate below zero has wrapped, so the unsigned comparison fails.  *)
validVoxel(v) == \A k \in 1 .. 3 : 0 <= v[k] /\ v[k] < GridSize

GridVoxel == { v \in Cell : validVoxel(v) }

(* The corners a voxel shares with its neighbour n: the face between them. *)
FaceCorners ==
    [n \in NeighbourIndex |->
        { c \in CornerIndex : \E d \in CornerIndex :
            VoxelDecals[c + 1] = Plus(NeighbourDecals[n + 1], VoxelDecals[d + 1]) }]

(* The voxels in V go on wherever the surface around the points in low     *)
(* does: where a face of one has corners in low and others, the voxel      *)
(* beyond, if the grid has it, is in V too.                                *)
Continues(low, V) ==
    \A v \in V, n \in NeighbourIndex :
        /\ validVoxel(Neighbour(v, n))
        /\ \E c, d \in FaceCorners[n] : Corner(v, c) \in low /\ Corner(v, d) \notin low
        => Neighbour(v, n) \in V
=============================================================================
