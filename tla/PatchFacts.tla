------------------------------ MODULE PatchFacts ------------------------------
(***************************************************************************)
(* Facts about the 256 rows of the tables that the surfaces of more voxels *)
(* than one are built on.                                                  *)
(***************************************************************************)
EXTENDS PatchTables

(* In one voxel: a triangle's corners lie on three edges whose ends differ,*)
(* no side is drawn twice, and a side that no triangle runs the other way  *)
(* lies on a face.                                                         *)
PatchesFit ==
    \A low \in SUBSET CornerIndex :
        LET k == voxelIndex(low) IN
        /\ \A e \in EdgesOf(k) : EdgeEnds[e + 1][1] \in low <=> EdgeEnds[e + 1][2] \notin low
        /\ TrianglesOf(k) \in Seq(EdgesOf(k) \X EdgesOf(k) \X EdgesOf(k))
        /\ \A p \in Place(k) : SideAt(k, p)[1] # SideAt(k, p)[2]
        /\ \A p, q \in Place(k) : SideAt(k, p) = SideAt(k, q) => p = q
        /\ \A s \in SidesOf[k] :
              Turned(s) \in SidesOf[k] \/ \E n \in NeighbourIndex : OnFace(n, s[1]) /\ OnFace(n, s[2])

(* Across a face, whatever the neighbour's other corners are: a side on it *)
(* is run the other way by one of the two voxels and not by both.          *)
FacesFit ==
    \A low \in SUBSET CornerIndex, n \in NeighbourIndex :
        \A rest \in SUBSET (CornerIndex \ FaceFrom[n]) :
            LET k == voxelIndex(low)
                m == voxelIndex(Across(n, low) \cup rest)
            IN  \A s \in SidesOf[k] :
                    OnFace(n, s[1]) /\ OnFace(n, s[2]) =>
                        (Turned(s) \in SidesOf[k] <=>
                            ~ \E t \in SidesOf[m] : << s[1], t[2] >> \in SharedEdges[n]
                                                /\ << s[2], t[1] >> \in SharedEdges[n])

(* All triangles of all rows turn the same way about the fall of the field.*)
WindingFit ==
    \A low \in SUBSET CornerIndex :
        LET k == voxelIndex(low) IN
        \A n \in DOMAIN TrianglesOf(k) :
            LET m == TrianglesOf(k)[n]
            IN  Turn(EdgeMid(m[1]), EdgeMid(m[2]), EdgeMid(m[3]),
                     Plus(Fall(low, m[1]), Plus(Fall(low, m[2]), Fall(low, m[3])))) < 0

ASSUME PatchesAssumption == PatchesFit
ASSUME FacesAssumption   == FacesFit
ASSUME WindingAssumption == WindingFit
=============================================================================
