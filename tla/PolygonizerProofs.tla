-------------------------- MODULE PolygonizerProofs ---------------------------
(***************************************************************************)
(* Proofs that the mesh made of what the march recorded is whole, for      *)
(* every grid size, field and list of seeds: the march (SurfaceMarchProofs)*)
(* recorded every voxel that the sides of the triangles continue in        *)
(* (VoxelGridProofs).                                                      *)
(***************************************************************************)
EXTENDS Polygonizer, SurfaceMarchProofs

-----------------------------------------------------------------------------
(* The march inside the polygonizer.                                       *)

(* polygonize runs the march as it is: what is proved of the march alone   *)
(* holds while the mesh is made too.                                       *)
THEOREM PolygonizerMarches == SpecPolygonizer => Spec
  <1>1. InitPolygonizer => Init
    BY DEF InitPolygonizer
  <1>2. [polygonize]_allVars => [Next]_vars
    BY DEF polygonize, allVars, makeVoxels, constructMesh, Returned
  <1>3. QED
    BY <1>1, <1>2, PTL DEF SpecPolygonizer, Spec

(* The mesh is the triangles of the voxels recorded in the end. *)
THEOREM MeshOfTheMarch == SpecPolygonizer => []MeshInv
  <1>1. InitPolygonizer => MeshInv
    BY DEF InitPolygonizer, MeshInv
  <1>2. MeshInv /\ [polygonize]_allVars => MeshInv'
    <2> SUFFICES ASSUME MeshInv, [polygonize]_allVars PROVE MeshInv'
      OBVIOUS
    <2>1. CASE makeVoxels
      BY <2>1 DEF makeVoxels, MeshInv
    <2>2. ASSUME UNCHANGED vars
          PROVE  Entries' = Entries /\ \A v, n : TriangleIn(v, n)' = TriangleIn(v, n)
      BY <2>2 DEF vars, Entries, TriangleIn, TrianglesIn, EdgeIn, Below
    <2>3. CASE constructMesh
      <3>1. UNCHANGED vars /\ phase' = "done" /\ mMesh' = [ t \in Entries |-> TriangleIn(t[1], t[3]) ]
        BY <2>3 DEF constructMesh, vars
      <3>2. QED
        BY <3>1, <2>2 DEF MeshInv
    <2>4. CASE UNCHANGED allVars
      <3>1. UNCHANGED vars /\ phase' = phase /\ mMesh' = mMesh /\ stage' = stage
        BY <2>4 DEF allVars, vars
      <3>2. QED
        BY <3>1, <2>2 DEF MeshInv
    <2>5. QED
      BY <2>1, <2>3, <2>4 DEF polygonize, Returned
  <1>3. QED
    BY <1>1, <1>2, PTL DEF SpecPolygonizer

-----------------------------------------------------------------------------
(* The surface of the recorded voxels.                                     *)

Points == { p \in PointId : Below(p) }

LEMMA TrianglesOfRow ==
    ASSUME NEW v \in Cell
    PROVE  /\ TrianglesIn(v) = TrianglesOf(RowOf(Points, v))
           /\ \A c \in CornerIndex : c \in LowCorners(Points, v) <=> Below(Corner(v, c))
  <1>1. \A c \in CornerIndex : Corner(v, c) \in Points <=> Below(Corner(v, c))
    BY CellInGrid DEF Points
  <1>2. LowCorners(Points, v) = { c \in CornerIndex : Below(Corner(v, c)) }
    BY <1>1 DEF LowCorners
  <1>3. QED
    BY <1>2 DEF TrianglesIn, RowOf

-----------------------------------------------------------------------------
(* The mesh.                                                               *)

(* The sides of the mesh are those of the voxels, at their places. *)
SideOf(v, p) == << << v, 1, p[1] >>, p[2] >>

LEMMA SidesOfMesh ==
    ASSUME MarchInv, MeshInv, stage = "mesh"
    PROVE  /\ Sides = UNION { { SideOf(v, p) : p \in Place(RowOf(Points, v)) } : v \in Recorded }
           /\ \A v \in Recorded : \A p \in Place(RowOf(Points, v)) :
                 Side(SideOf(v, p)[1], SideOf(v, p)[2]) = SideIn(v, SideAt(RowOf(Points, v), p))
  <1>1. Recorded \subseteq Cell /\ \A v \in Recorded : mVoxels[v] = 1
    BY DEF MarchInv, TypeOK, RecordInv, NoRepeatedVoxels
  <1>2. mMesh = [ t \in Entries |-> TriangleIn(t[1], t[3]) ]
    BY DEF MeshInv
  <1>3. \A v \in Recorded : TrianglesIn(v) = TrianglesOf(RowOf(Points, v))
    BY <1>1, TrianglesOfRow
  <1>4. \A v \in Recorded : { << v, k, n >> : k \in 1 .. mVoxels[v], n \in DOMAIN TrianglesIn(v) }
                          = { << v, 1, n >> : n \in DOMAIN TrianglesOf(RowOf(Points, v)) }
    BY <1>1, <1>3
  <1>5. Entries = UNION { { << v, 1, n >> : n \in DOMAIN TrianglesOf(RowOf(Points, v)) } : v \in Recorded }
    BY <1>4 DEF Entries, Recorded
  <1>6. Sides = { << t, k >> : t \in Entries, k \in 1 .. 3 }
    BY <1>2 DEF Sides
  <1>7. \A v : \A p \in Place(RowOf(Points, v)) :
            p[1] \in DOMAIN TrianglesOf(RowOf(Points, v)) /\ p[2] \in 1 .. 3
    BY DEF Place
  <1>8. \A v : \A n \in DOMAIN TrianglesOf(RowOf(Points, v)), k \in 1 .. 3 :
            << n, k >> \in Place(RowOf(Points, v))
    BY DEF Place
  <1>9. ASSUME NEW r \in Sides
        PROVE  \E v \in Recorded : \E p \in Place(RowOf(Points, v)) : r = SideOf(v, p)
    <2>1. PICK t \in Entries, k \in 1 .. 3 : r = << t, k >>
      BY <1>6
    <2>2. PICK v \in Recorded : \E n \in DOMAIN TrianglesOf(RowOf(Points, v)) : t = << v, 1, n >>
      BY <1>5
    <2>3. PICK n \in DOMAIN TrianglesOf(RowOf(Points, v)) : t = << v, 1, n >>
      BY <2>2
    <2>4. << n, k >> \in Place(RowOf(Points, v)) /\ r = SideOf(v, << n, k >>)
      BY <1>8, <2>1, <2>3 DEF SideOf
    <2>5. QED
      BY <2>4
  <1>10. ASSUME NEW v \in Recorded, NEW p \in Place(RowOf(Points, v))
         PROVE  << v, 1, p[1] >> \in Entries /\ SideOf(v, p) \in Sides
    <2>1. p[1] \in DOMAIN TrianglesOf(RowOf(Points, v)) /\ p[2] \in 1 .. 3
      BY <1>7
    <2>2. << v, 1, p[1] >> \in Entries
      BY <1>5, <2>1
    <2>3. QED
      BY <1>6, <2>1, <2>2 DEF SideOf
  <1>11. ASSUME NEW v \in Recorded, NEW p \in Place(RowOf(Points, v))
         PROVE  Side(SideOf(v, p)[1], SideOf(v, p)[2]) = SideIn(v, SideAt(RowOf(Points, v), p))
    <2> DEFINE T == TrianglesOf(RowOf(Points, v))
               t == << v, 1, p[1] >>
    <2>1. p[1] \in DOMAIN T /\ p[2] \in 1 .. 3 /\ (p[2] % 3) + 1 \in 1 .. 3
      <3>1. p[1] \in DOMAIN T /\ p[2] \in {1, 2, 3}
        BY <1>7
      <3>2. (p[2] % 3) + 1 \in {1, 2, 3}
        BY <3>1
      <3>3. QED
        BY <3>1, <3>2
    <2>2. mMesh[t] = [ k \in 1 .. 3 |-> EdgeIn(v, TrianglesIn(v)[p[1]][k]) ]
      BY <1>2, <1>10 DEF TriangleIn
    <2>3. TrianglesIn(v) = T
      BY <1>3
    <2>4. \A e : EdgeIn(v, e) = PairOf(v, e)
      BY DEF EdgeIn, PairOf
    <2>5. \A k \in 1 .. 3 : mMesh[t][k] = PairOf(v, T[p[1]][k])
      BY <2>2, <2>3, <2>4
    <2>6. Side(t, p[2]) = << PairOf(v, T[p[1]][p[2]]), PairOf(v, T[p[1]][(p[2] % 3) + 1]) >>
      BY <2>1, <2>5 DEF Side
    <2>7. QED
      BY <2>6 DEF SideOf, SideIn, SideAt
  <1>12. Sides = UNION { { SideOf(v, p) : p \in Place(RowOf(Points, v)) } : v \in Recorded }
    <2>1. ASSUME NEW r PROVE r \in Sides <=>
              \E v \in Recorded : \E p \in Place(RowOf(Points, v)) : r = SideOf(v, p)
      BY <1>9, <1>10
    <2>2. QED
      BY <2>1
  <1>13. QED
    BY <1>11, <1>12

LEMMA SideOfInjective ==
    ASSUME NEW k, NEW m, NEW v, NEW p \in Place(k), NEW w, NEW q \in Place(m), SideOf(v, p) = SideOf(w, q)
    PROVE  v = w /\ p = q
  <1>1. v = w /\ p[1] = q[1] /\ p[2] = q[2]
    BY DEF SideOf
  <1>2. p = << p[1], p[2] >> /\ q = << q[1], q[2] >>
    BY DEF Place
  <1>3. QED
    BY <1>1, <1>2

(* Where a side inside the grid lies on a face, the march went on.         *)
LEMMA BeyondIsRecorded ==
    ASSUME MarchInv, phase = "done", NEW v \in Recorded, NEW s \in SidesOf[RowOf(Points, v)],
           NEW n \in NeighbourIndex, OnFace(n, s[1]), OnFace(n, s[2]), Inside(SideIn(v, s))
    PROVE  Neighbour(v, n) \in Recorded
  <1>1. v \in Cell
    BY DEF MarchInv, TypeOK
  <1>2. LowCorners(Points, v) \in SUBSET CornerIndex
    BY DEF LowCorners
  <1>3. /\ s[1] \in EdgeIndex /\ s[2] \in EdgeIndex
        /\ EdgeEnds[s[1] + 1][1] \in LowCorners(Points, v)
             <=> EdgeEnds[s[1] + 1][2] \notin LowCorners(Points, v)
    BY <1>2, SidesType DEF RowOf
  <1>4. validVoxel(Neighbour(v, n))
    BY <1>1, <1>3, BeyondIsValid DEF SideIn, Inside
  <1>5. FaceCrossed(job, v, n)
    <2> DEFINE c == EdgeEnds[s[1] + 1][1]
               d == EdgeEnds[s[1] + 1][2]
    <2>1. c \in FaceCorners[n] /\ d \in FaceCorners[n]
      BY DEF OnFace
    <2>2. c \in CornerIndex /\ d \in CornerIndex
      BY <1>3, EdgeEndsType
    <2>3. c \in LowCorners(Points, v) <=> d \notin LowCorners(Points, v)
      BY <1>3
    <2> HIDE DEF c, d
    <2>4. Below(Corner(v, c)) <=> ~Below(Corner(v, d))
      BY <1>1, <2>2, <2>3, TrianglesOfRow
    <2>5. SignAt(job, v, c) # SignAt(job, v, d)
      BY <2>4 DEF Below, SignAt
    <2>6. QED
      BY <2>1, <2>5 DEF FaceCrossed
  <1>6. NothingMissed
    BY MarchCloses
  <1>7. QED
    BY <1>4, <1>5, <1>6 DEF NothingMissed

(* What the march leaves in mVoxels is what makeTriangles takes surfaces   *)
(* to be (MeshAssembly's WholeAssumption): it goes on across every face    *)
(* with a change of sign, the edge that EdgeDecals gets wrong or not       *)
(* (Bsoid.cpp:727-812).                                                    *)
THEOREM MarchLeavesWhole ==
    SpecPolygonizer => [](phase = "done" => Continues(Points, Recorded))
  <1>1. MarchInv => (phase = "done" => Continues(Points, Recorded))
    <2> SUFFICES ASSUME MarchInv, phase = "done", NEW v \in Recorded, NEW n \in NeighbourIndex,
                        validVoxel(Neighbour(v, n)),
                        NEW c \in FaceCorners[n], NEW d \in FaceCorners[n],
                        Corner(v, c) \in Points, Corner(v, d) \notin Points
                 PROVE  Neighbour(v, n) \in Recorded
      BY DEF Continues
    <2>1. v \in Cell
      BY DEF MarchInv, TypeOK
    <2>2. c \in CornerIndex /\ d \in CornerIndex
      BY FaceDecals
    <2>3. Below(Corner(v, c)) /\ ~Below(Corner(v, d))
      BY <2>1, <2>2, CellInGrid DEF Points
    <2>4. SignAt(job, v, c) # SignAt(job, v, d)
      BY <2>3 DEF Below, SignAt
    <2>5. FaceCrossed(job, v, n)
      BY <2>4 DEF FaceCrossed
    <2>6. QED
      BY <2>5, MarchCloses DEF NothingMissed
  <1>2. QED
    BY <1>1, PolygonizerMarches, Invariant, PTL

(* The mesh has no hole inside the grid, and no triangle twice. *)
THEOREM MeshIsWhole == SpecPolygonizer => []MeshWhole
  <1>1. MarchInv /\ MeshInv => MeshWhole
    <2> SUFFICES ASSUME MarchInv, MeshInv, stage = "mesh", NEW z \in Sides, Inside(Side(z[1], z[2]))
                 PROVE  \E q : { r \in Sides : Side(r[1], r[2]) =
                                    << Side(z[1], z[2])[2], Side(z[1], z[2])[1] >> } = {q}
      BY DEF MeshWhole
    <2> DEFINE Row(v) == RowOf(Points, v)
    <2>0. PICK v \in Recorded : \E p \in Place(Row(v)) : z = SideOf(v, p)
      BY SidesOfMesh
    <2>1. PICK p \in Place(Row(v)) : z = SideOf(v, p)
      BY <2>0
    <2> DEFINE s == SideAt(Row(v), p)
    <2>2. Side(z[1], z[2]) = SideIn(v, s)
      BY <2>1, SidesOfMesh
    <2>3. s \in SidesOf[Row(v)]
      <3>1. LowCorners(Points, v) \in SUBSET CornerIndex
        BY DEF LowCorners
      <3>2. QED
        BY <3>1, SidesType DEF RowOf
    <2>4. \A n \in NeighbourIndex : OnFace(n, s[1]) /\ OnFace(n, s[2]) => Neighbour(v, n) \in Recorded
      BY <2>2, <2>3, BeyondIsRecorded DEF MeshInv
    <2>5. Recorded \in SUBSET Grid
      BY CellInGrid DEF MarchInv, TypeOK
    <2>6. PICK w \in Recorded : \E q \in Place(Row(w)) :
             \A x \in Recorded : \A r \in Place(Row(x)) :
                SideIn(x, SideAt(Row(x), r)) = Turned(SideIn(v, s)) <=> x = w /\ r = q
      BY <2>4, <2>5, OpposedOnce
    <2>7. PICK q \in Place(Row(w)) :
             \A x \in Recorded : \A r \in Place(Row(x)) :
                SideIn(x, SideAt(Row(x), r)) = Turned(SideIn(v, s)) <=> x = w /\ r = q
      BY <2>6
    <2>8. Turned(SideIn(v, s)) = << Side(z[1], z[2])[2], Side(z[1], z[2])[1] >>
      BY <2>2 DEF Turned
    <2> HIDE DEF s, Row
    <2>9. ASSUME NEW x \in Recorded, NEW r \in Place(Row(x))
          PROVE  Side(SideOf(x, r)[1], SideOf(x, r)[2]) = Turned(SideIn(v, s)) <=> x = w /\ r = q
      BY <2>7, SidesOfMesh DEF Row
    <2>10. SideOf(w, q) \in Sides
      BY SidesOfMesh DEF Row
    <2>11. ASSUME NEW y \in Sides
           PROVE  Side(y[1], y[2]) = Turned(SideIn(v, s)) <=> y = SideOf(w, q)
      <3>0. PICK x \in Recorded : \E r \in Place(Row(x)) : y = SideOf(x, r)
        BY SidesOfMesh DEF Row
      <3>1. PICK r \in Place(Row(x)) : y = SideOf(x, r)
        BY <3>0
      <3>2. y = SideOf(w, q) <=> x = w /\ r = q
        BY <3>1, SideOfInjective
      <3>3. QED
        BY <2>9, <3>1, <3>2
    <2>12. { y \in Sides : Side(y[1], y[2]) = Turned(SideIn(v, s)) } = { SideOf(w, q) }
      BY <2>10, <2>11
    <2>13. QED
      BY <2>8, <2>12
  <1>2. QED
    BY <1>1, PolygonizerMarches, Invariant, MeshOfTheMarch, PTL

-----------------------------------------------------------------------------
(* Winding.                                                                *)

(* Of an edge whose ends differ, Low and High are the two ends. *)
LEMMA LowAndHigh ==
    ASSUME NEW v \in Cell, NEW e \in EdgeIndex,
           Below(Corner(v, EdgeEnds[e + 1][1])) <=> ~Below(Corner(v, EdgeEnds[e + 1][2]))
    PROVE  /\ Mid(PairOf(v, e)) = MidIn(v, e)
           /\ Normal(PairOf(v, e)) = FallIn(v, LowCorners(Points, v), e)
  <1> DEFINE c == EdgeEnds[e + 1][1]
             d == EdgeEnds[e + 1][2]
             p == Corner(v, c)
             q == Corner(v, d)
  <1>1. c \in CornerIndex /\ d \in CornerIndex
    BY EdgeEndsType
  <1>2. c \in LowCorners(Points, v) <=> Below(p)
    BY <1>1, TrianglesOfRow
  <1>3. p \in Grid /\ q \in Grid
    BY <1>1, CellInGrid, CornerType
  <1>4. PairOf(v, e) = {p, q}
    BY DEF PairOf
  <1>5. MidIn(v, e) = Plus(p, q)
        /\ FallIn(v, LowCorners(Points, v), e) = IF c \in LowCorners(Points, v) THEN Sub(p, q) ELSE Sub(q, p)
    BY DEF MidIn, FallIn
  <1>6. Below(p) <=> ~Below(q)
    OBVIOUS
  <1> HIDE DEF c, d, p, q
  <1>7. CASE Below(p)
    <2>1. Low({p, q}) = p /\ High({p, q}) = q
      BY <1>6, <1>7 DEF Low, High
    <2>2. QED
      BY <1>2, <1>4, <1>5, <1>7, <2>1 DEF Mid, Normal
  <1>8. CASE ~Below(p)
    <2>1. Low({p, q}) = q /\ High({p, q}) = p
      BY <1>6, <1>8 DEF Low, High
    <2>2. Plus(q, p) = Plus(p, q)
      BY <1>3 DEF Plus, Grid
    <2>3. QED
      BY <1>2, <1>4, <1>5, <1>8, <2>1, <2>2 DEF Mid, Normal
  <1>9. QED
    BY <1>7, <1>8

(* No triangle of the mesh is turned inside out: its corners, in the order *)
(* makeTriangles pushes them, wind against the fall of the field.          *)
THEOREM MeshIsWoundInward == SpecPolygonizer => []WoundInward
  <1>1. MarchInv /\ MeshInv => WoundInward
    <2> SUFFICES ASSUME MarchInv, MeshInv, stage = "mesh", NEW t \in DOMAIN mMesh
                 PROVE  Turn(Mid(mMesh[t][1]), Mid(mMesh[t][2]), Mid(mMesh[t][3]),
                             Plus(Normal(mMesh[t][1]), Plus(Normal(mMesh[t][2]), Normal(mMesh[t][3])))) < 0
      BY DEF WoundInward
    <2>1. mMesh = [ u \in Entries |-> TriangleIn(u[1], u[3]) ]
      BY DEF MeshInv
    <2>2. PICK v \in DOMAIN mVoxels : \E k \in 1 .. mVoxels[v], n \in DOMAIN TrianglesIn(v) : t = << v, k, n >>
      BY <2>1 DEF Entries
    <2>3. PICK n \in DOMAIN TrianglesIn(v) : t[1] = v /\ t[3] = n
      BY <2>2
    <2>4. v \in Cell
      BY DEF MarchInv, TypeOK, Recorded
    <2> DEFINE low == LowCorners(Points, v)
               m == TrianglesOf(voxelIndex(low))[n]
    <2>5. low \in SUBSET CornerIndex /\ n \in DOMAIN TrianglesOf(voxelIndex(low)) /\ v \in Grid
      BY <2>4, TrianglesOfRow, CellInGrid DEF LowCorners, RowOf
    <2>6. TrianglesIn(v)[n] = m
      BY <2>4, TrianglesOfRow DEF RowOf
    <2>7. mMesh[t] = [ k \in 1 .. 3 |-> EdgeIn(v, m[k]) ]
      BY <2>1, <2>3, <2>6 DEF TriangleIn
    <2>8. \A e : EdgeIn(v, e) = PairOf(v, e)
      BY DEF EdgeIn, PairOf
    <2>9. Turn(MidIn(v, m[1]), MidIn(v, m[2]), MidIn(v, m[3]),
               Plus(FallIn(v, low, m[1]), Plus(FallIn(v, low, m[2]), FallIn(v, low, m[3])))) < 0
      BY <2>5, TrianglesTurn
    <2>10. ASSUME NEW i \in {1, 2, 3}
           PROVE  /\ m[i] \in EdgeIndex
                  /\ EdgeEnds[m[i] + 1][1] \in low <=> EdgeEnds[m[i] + 1][2] \notin low
      <3>1. m[i] \in EdgesOf(voxelIndex(low))
        <4>1. TrianglesOf(voxelIndex(low)) \in
                Seq(EdgesOf(voxelIndex(low)) \X EdgesOf(voxelIndex(low)) \X EdgesOf(voxelIndex(low)))
          BY <2>5, PatchesAssumption DEF PatchesFit
        <4> HIDE DEF low
        <4>2. m \in EdgesOf(voxelIndex(low)) \X EdgesOf(voxelIndex(low)) \X EdgesOf(voxelIndex(low))
          BY <2>5, <4>1
        <4> HIDE DEF m
        <4>3. QED
          BY <4>2
      <3>2. \A e \in EdgesOf(voxelIndex(low)) : EdgeEnds[e + 1][1] \in low <=> EdgeEnds[e + 1][2] \notin low
        BY <2>5, PatchesAssumption DEF PatchesFit
      <3>3. QED
        BY <3>1, <3>2 DEF EdgesOf
    <2>11. ASSUME NEW i \in {1, 2, 3}
           PROVE  Mid(mMesh[t][i]) = MidIn(v, m[i]) /\ Normal(mMesh[t][i]) = FallIn(v, low, m[i])
      <3>1. mMesh[t][i] = PairOf(v, m[i])
        BY <2>7, <2>8
      <3>2. m[i] \in EdgeIndex
        BY <2>10
      <3>3. EdgeEnds[m[i] + 1][1] \in CornerIndex /\ EdgeEnds[m[i] + 1][2] \in CornerIndex
        BY <3>2, EdgeEndsType
      <3>4. Below(Corner(v, EdgeEnds[m[i] + 1][1])) <=> ~Below(Corner(v, EdgeEnds[m[i] + 1][2]))
        BY <2>4, <2>10, <3>3, TrianglesOfRow
      <3> HIDE DEF m
      <3>5. QED
        BY <2>4, <3>1, <3>2, <3>4, LowAndHigh
    <2> HIDE DEF low, m
    <2>12. QED
      BY <2>9, <2>11
  <1>2. QED
    BY <1>1, PolygonizerMarches, Invariant, MeshOfTheMarch, PTL
=============================================================================
