----------------------------- MODULE PatchTables ------------------------------
(***************************************************************************)
(* What the rows of TriangleTable say about one voxel and its neighbours:  *)
(* the directed sides of its triangles, each a pair of its edges, and      *)
(* which edges two neighbours share.                                       *)
(***************************************************************************)
EXTENDS MarchingTables

(* The triangles of combination k have a side from each of their corners   *)
(* to the next.                                                            *)
Place(k)     == (DOMAIN TrianglesOf(k)) \X (1 .. 3)
SideAt(k, p) == << TrianglesOf(k)[p[1]][p[2]], TrianglesOf(k)[p[1]][(p[2] % 3) + 1] >>
SidesOf      == [k \in Config |-> { SideAt(k, p) : p \in Place(k) }]
Turned(s)    == << s[2], s[1] >>

(* Twice the midpoint of edge e, and the way from its end above the iso    *)
(* value to the one below, where the corners in low are below.             *)
EdgeMid(e)   == Plus(VoxelDecals[EdgeEnds[e + 1][1] + 1], VoxelDecals[EdgeEnds[e + 1][2] + 1])
Fall(low, e) ==
    LET a == VoxelDecals[EdgeEnds[e + 1][1] + 1]
        b == VoxelDecals[EdgeEnds[e + 1][2] + 1]
    IN  IF EdgeEnds[e + 1][1] \in low THEN Sub(a, b) ELSE Sub(b, a)

(* Corner c of a voxel is corner d of its neighbour n. *)
SameCorner(n, c, d) == VoxelDecals[c + 1] = Plus(NeighbourDecals[n + 1], VoxelDecals[d + 1])

(* Edge e of a voxel lies on its face towards neighbour n. *)
OnFace(n, e) == { EdgeEnds[e + 1][1], EdgeEnds[e + 1][2] } \subseteq FaceCorners[n]

(* Edge e of a voxel is edge f of its neighbour n. *)
SameEdge(n, e, f) ==
    \A x \in {1, 2} : \E y \in {1, 2} : SameCorner(n, EdgeEnds[e + 1][x], EdgeEnds[f + 1][y])
SharedEdges ==
    [n \in NeighbourIndex |-> { p \in EdgeIndex \X EdgeIndex : SameEdge(n, p[1], p[2]) }]

(* The corners of the face towards n that are in low, as the neighbour     *)
(* numbers them.                                                           *)
Across(n, low) == { d \in CornerIndex : \E c \in low : SameCorner(n, c, d) }

(* The corners of the neighbour that are on the face between the two. *)
FaceFrom == [n \in NeighbourIndex |-> Across(n, CornerIndex)]
=============================================================================
