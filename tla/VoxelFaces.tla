----------------------------- MODULE VoxelFaces ------------------------------
(***************************************************************************)
(* The marching-cubes tables, voxel by voxel: a walk through a field from  *)
(* one voxel to a face neighbour.  All that is fixed of the field is which *)
(* corners of the voxel the walk is in lie below the iso value; those of   *)
(* the neighbour that are not on the face between them are arbitrary.  So  *)
(* the walk meets every pair of neighbouring voxels there can be.          *)
(***************************************************************************)
EXTENDS Lattice, PatchTables, FiniteSets

VARIABLES
    low,          \* the corners of the voxel below the iso value
    through       \* the neighbour index of the face it was entered through

vars == <<low, through>>

Init == low \in SUBSET CornerIndex /\ through = 0

Cross(n) ==
    /\ low' \in SUBSET CornerIndex
    /\ \A c, d \in CornerIndex : SameCorner(n, c, d) => (c \in low <=> d \in low')
    /\ through' = n

Next == \E n \in NeighbourIndex : Cross(n)

Spec == Init /\ [][Next]_vars

-----------------------------------------------------------------------------
(* The sides that the patch of each combination leaves open, and those of  *)
(* them that run along the face towards each neighbour.                    *)
OpenSides ==
    [k \in Config |-> LET all == SidesOf[k] IN { s \in all : << s[2], s[1] >> \notin all }]
OpenOn ==
    [k \in Config, n \in NeighbourIndex |->
        { s \in OpenSides[k] : OnFace(n, s[1]) /\ OnFace(n, s[2]) }]

Opposite(n) == CHOOSE m \in NeighbourIndex : NeighbourDecals[m + 1] = Minus(NeighbourDecals[n + 1])

(* The lattice of a voxel and the one it was entered from through n.       *)
LatticeThrough ==
    [n \in NeighbourIndex |-> makeLattice(<< <<0, 0, 0>>, Minus(NeighbourDecals[n + 1]) >>)]

(* The two tables agree with each other and with the corners: EdgeTable    *)
(* has a bit for exactly the edges whose ends lie on different sides of    *)
(* the iso value, and those are the edges TriangleTable draws on.  So      *)
(* vertList is never read where makeTriangles has not set it.  And the     *)
(* lattice of this voxel and the one the walk came from draws the edges    *)
(* that makeTriangles reads, each with the index of its point, and a point *)
(* that the two share once.                                                *)
TablesAgree ==
    LET k       == voxelIndex(low)
        lattice == LatticeThrough[through]
        line(n) == { lattice.vertices[lattice.indices[2 * n - 1] + 1],
                     lattice.vertices[lattice.indices[2 * n] + 1] }
    IN
    /\ { line(n) : n \in 1 .. 12 } =
         { { VoxelDecals[EdgeEnds[e + 1][i] + 1] : i \in 1 .. 2 } : e \in EdgeIndex }
    /\ Len(lattice.vertices) = 12 /\ Len(lattice.indices) = 48
    /\ EdgesOf(k) = { e \in EdgeIndex : EdgeEnds[e + 1][1] \in low <=> EdgeEnds[e + 1][2] \notin low }
    /\ EdgesOf(k) = UNION { {s[1], s[2]} : s \in SidesOf[k] }

(* Inside a voxel the triangles fit together: no side is drawn twice, and  *)
(* a side left open runs along a face of the voxel.                        *)
PatchClosedInside ==
    LET k == voxelIndex(low) IN
    /\ Cardinality(SidesOf[k]) = 3 * Len(TrianglesOf(k))
    /\ \A s \in OpenSides[k] : \E n \in NeighbourIndex : s \in OpenOn[k, n]

(* Across a face the triangles fit together, the ambiguous faces included: *)
(* the sides one voxel leaves open on the face are those its neighbour     *)
(* leaves open there, run the other way.                                   *)
PatchesMeet ==
    [][ LET n    == through'
            mine == OpenOn[voxelIndex(low), n]
            its  == OpenOn[voxelIndex(low'), Opposite(n)]
        IN  /\ Cardinality(mine) = Cardinality(its)
            /\ \A s \in mine : \E r \in its : SameEdge(n, s[1], r[2]) /\ SameEdge(n, s[2], r[1])
      ]_vars
=============================================================================
