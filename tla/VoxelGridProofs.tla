--------------------------- MODULE VoxelGridProofs ----------------------------
(***************************************************************************)
(* The geometry of the voxel grid and of marching cubes: what the tables   *)
(* promise the code that steps from voxel to voxel, and that the triangles *)
(* of neighbouring voxels fit together.                                    *)
(***************************************************************************)
EXTENDS PatchFacts, TLAPS

(* A step of at most one along each axis leads from a cell to an id.       *)
LEMMA StepIsId ==
    ASSUME NEW v \in Cell, NEW d \in {-1, 0, 1} \X {-1, 0, 1} \X {-1, 0, 1}
    PROVE  Plus(v, d) \in VoxelId
  <1>1. /\ v[1] \in 0 .. GridSize /\ v[2] \in 0 .. GridSize /\ v[3] \in 0 .. GridSize
        /\ d[1] \in {-1, 0, 1} /\ d[2] \in {-1, 0, 1} /\ d[3] \in {-1, 0, 1}
    BY DEF Cell
  <1>2. QED
    BY <1>1, GridSizeAssumption DEF Plus, VoxelId, Coord

(* A valid id is a cell. *)
LEMMA ValidIsCell ==
    ASSUME NEW v \in VoxelId, validVoxel(v)
    PROVE  v \in Cell
  <1>1. v = << v[1], v[2], v[3] >> /\ v[1] \in Coord /\ v[2] \in Coord /\ v[3] \in Coord
    BY DEF VoxelId
  <1>2. v[1] \in 0 .. GridSize /\ v[2] \in 0 .. GridSize /\ v[3] \in 0 .. GridSize
    BY <1>1, GridSizeAssumption DEF validVoxel, Coord
  <1>3. QED
    BY <1>1, <1>2 DEF Cell

LEMMA NeighbourDecalsType ==
    \A n \in NeighbourIndex : NeighbourDecals[n + 1] \in {-1, 0, 1} \X {-1, 0, 1} \X {-1, 0, 1}
  BY DEF NeighbourIndex, NeighbourDecals

LEMMA VoxelDecalsType ==
    \A c \in CornerIndex : VoxelDecals[c + 1] \in {0, 1} \X {0, 1} \X {0, 1}
  BY DEF CornerIndex, VoxelDecals

LEMMA NeighbourIsId ==
    ASSUME NEW v \in Cell, NEW n \in NeighbourIndex
    PROVE  Neighbour(v, n) \in VoxelId
  BY StepIsId, NeighbourDecalsType DEF Neighbour

LEMMA PlusAssociates ==
    ASSUME NEW a \in Int \X Int \X Int, NEW b \in Int \X Int \X Int, NEW c \in Int \X Int \X Int
    PROVE  Plus(a, Plus(b, c)) = Plus(Plus(a, b), c)
  BY DEF Plus

(* Every corner on the face towards neighbour n is a corner of that        *)
(* neighbour: the same grid point.                                         *)
LEMMA FaceIsShared ==
    ASSUME NEW v \in Cell, NEW n \in NeighbourIndex, NEW c \in FaceCorners[n]
    PROVE  c \in CornerIndex /\ \E d \in CornerIndex : Corner(v, c) = Corner(Neighbour(v, n), d)
  <1>1. PICK d \in CornerIndex :
            VoxelDecals[c + 1] = Plus(NeighbourDecals[n + 1], VoxelDecals[d + 1])
    BY DEF FaceCorners
  <1>2. v \in Int \X Int \X Int
    BY GridSizeAssumption DEF Cell
  <1>3. NeighbourDecals[n + 1] \in Int \X Int \X Int /\ VoxelDecals[d + 1] \in Int \X Int \X Int
    BY NeighbourDecalsType, VoxelDecalsType
  <1>4. Corner(v, c) = Corner(Neighbour(v, n), d)
    BY <1>1, <1>2, <1>3, PlusAssociates DEF Corner, Neighbour
  <1>5. QED
    BY <1>4 DEF FaceCorners

(* Every combination of low and high is a corner. *)
LEMMA CornersAreAll ==
    ASSUME NEW x \in {0, 1}, NEW y \in {0, 1}, NEW z \in {0, 1}
    PROVE  \E c \in CornerIndex : VoxelDecals[c + 1] = << x, y, z >>
  BY DEF CornerIndex, VoxelDecals

(* A diagonal step, of at most one along each axis, lands on a voxel that  *)
(* shares a corner with the one it leaves.                                 *)
LEMMA StepSharesCorner ==
    ASSUME NEW v \in Cell, NEW d \in {-1, 0, 1} \X {-1, 0, 1} \X {-1, 0, 1}
    PROVE  \E b, c \in CornerIndex : Corner(v, b) = Corner(Plus(v, d), c)
  <1>1. v \in Int \X Int \X Int /\ d \in Int \X Int \X Int
    BY GridSizeAssumption DEF Cell
  <1>2. \A k \in {1, 2, 3} : d[k] \in {-1, 0, 1}
    OBVIOUS
  <1> DEFINE high(k) == IF d[k] = 1 THEN 1 ELSE 0
             low(k)  == IF d[k] = -1 THEN 1 ELSE 0
  <1>3. PICK b \in CornerIndex : VoxelDecals[b + 1] = << high(1), high(2), high(3) >>
    <2>1. high(1) \in {0, 1} /\ high(2) \in {0, 1} /\ high(3) \in {0, 1}
      OBVIOUS
    <2> HIDE DEF high
    <2>2. QED
      BY <2>1, CornersAreAll
  <1>4. PICK c \in CornerIndex : VoxelDecals[c + 1] = << low(1), low(2), low(3) >>
    <2>1. low(1) \in {0, 1} /\ low(2) \in {0, 1} /\ low(3) \in {0, 1}
      OBVIOUS
    <2> HIDE DEF low
    <2>2. QED
      BY <2>1, CornersAreAll
  <1>5. VoxelDecals[b + 1] = Plus(d, VoxelDecals[c + 1])
    BY <1>2, <1>3, <1>4 DEF Plus
  <1>6. VoxelDecals[c + 1] \in Int \X Int \X Int
    BY VoxelDecalsType
  <1>7. QED
    BY <1>1, <1>5, <1>6, PlusAssociates DEF Corner

-----------------------------------------------------------------------------
(* Edges.  An edge is known by twice its midpoint, which has one odd       *)
(* coordinate, that of its direction.                                      *)

Grid == Int \X Int \X Int
PairOf(v, e) == { Corner(v, EdgeEnds[e + 1][1]), Corner(v, EdgeEnds[e + 1][2]) }

LEMMA EdgeMids ==
    /\ EdgeMid(0) = <<1, 0, 0>> /\ EdgeMid(1) = <<2, 0, 1>> /\ EdgeMid(2) = <<1, 0, 2>>
    /\ EdgeMid(3) = <<0, 0, 1>> /\ EdgeMid(4) = <<1, 2, 0>> /\ EdgeMid(5) = <<2, 2, 1>>
    /\ EdgeMid(6) = <<1, 2, 2>> /\ EdgeMid(7) = <<0, 2, 1>> /\ EdgeMid(8) = <<0, 1, 0>>
    /\ EdgeMid(9) = <<2, 1, 0>> /\ EdgeMid(10) = <<2, 1, 2>> /\ EdgeMid(11) = <<0, 1, 2>>
  BY DEF EdgeMid, EdgeEnds, VoxelDecals, Plus

LEMMA EdgeMidType ==
    ASSUME NEW e \in EdgeIndex
    PROVE  /\ EdgeMid(e) \in {0, 1, 2} \X {0, 1, 2} \X {0, 1, 2}
           /\ EdgeMid(e)[1] = 1 => EdgeMid(e)[2] # 1 /\ EdgeMid(e)[3] # 1
           /\ EdgeMid(e)[1] # 1 /\ EdgeMid(e)[2] # 1 => EdgeMid(e)[3] = 1
           /\ EdgeMid(e)[2] = 1 => EdgeMid(e)[3] # 1
  <1>1. e \in {0, 1, 2, 3, 4, 5, 6, 7, 8, 9, 10, 11}
    BY DEF EdgeIndex
  <1>2. QED
    BY <1>1, EdgeMids

LEMMA EdgeMidInjective ==
    ASSUME NEW e \in EdgeIndex, NEW f \in EdgeIndex, EdgeMid(e) = EdgeMid(f)
    PROVE  e = f
  <1>1. e \in {0, 1, 2, 3, 4, 5, 6, 7, 8, 9, 10, 11} /\ f \in {0, 1, 2, 3, 4, 5, 6, 7, 8, 9, 10, 11}
    BY DEF EdgeIndex
  <1>2. QED
    BY <1>1, EdgeMids

LEMMA EdgeEndsType ==
    \A e \in EdgeIndex : /\ EdgeEnds[e + 1][1] \in CornerIndex /\ EdgeEnds[e + 1][2] \in CornerIndex
                         /\ EdgeEnds[e + 1][1] # EdgeEnds[e + 1][2]
  BY DEF EdgeIndex, EdgeEnds, CornerIndex

LEMMA CornerType ==
    ASSUME NEW v \in Grid, NEW c \in CornerIndex
    PROVE  /\ VoxelDecals[c + 1] \in Grid /\ Corner(v, c) \in Grid
           /\ \A k \in {1, 2, 3} : Corner(v, c)[k] = v[k] + VoxelDecals[c + 1][k]
  <1>1. VoxelDecals[c + 1] \in Grid
    BY VoxelDecalsType DEF Grid
  <1>2. QED
    BY <1>1 DEF Corner, Plus, Grid

(* The corners of a voxel are eight points. *)
LEMMA CornersApart ==
    ASSUME NEW v \in Grid, NEW c \in CornerIndex, NEW d \in CornerIndex, Corner(v, c) = Corner(v, d)
    PROVE  c = d
  <1>1. VoxelDecals[c + 1] = VoxelDecals[d + 1]
    <2>1. \A k \in {1, 2, 3} : v[k] + VoxelDecals[c + 1][k] = v[k] + VoxelDecals[d + 1][k]
      BY CornerType
    <2>2. VoxelDecals[c + 1] \in Grid /\ VoxelDecals[d + 1] \in Grid
      BY CornerType
    <2> DEFINE a == VoxelDecals[c + 1]
               b == VoxelDecals[d + 1]
    <2> HIDE DEF a, b
    <2>3. a \in Grid /\ b \in Grid /\ \A k \in {1, 2, 3} : v[k] + a[k] = v[k] + b[k]
      BY <2>1, <2>2 DEF a, b
    <2>4. a[1] = b[1] /\ a[2] = b[2] /\ a[3] = b[3]
      BY <2>3 DEF Grid
    <2>5. a = b
      BY <2>3, <2>4 DEF Grid
    <2>6. QED
      BY <2>5 DEF a, b
  <1>2. c \in {0, 1, 2, 3, 4, 5, 6, 7} /\ d \in {0, 1, 2, 3, 4, 5, 6, 7}
    BY DEF CornerIndex
  <1>3. QED
    BY <1>1, <1>2 DEF VoxelDecals

LEMMA PairSum ==
    ASSUME NEW a, NEW b, NEW c, NEW d, a \in Grid, b \in Grid, {a, b} = {c, d}
    PROVE  Plus(a, b) = Plus(c, d)
  <1>1. (a = c /\ b = d) \/ (a = d /\ b = c)
    OBVIOUS
  <1>2. Plus(a, b) = Plus(b, a)
    BY DEF Plus, Grid
  <1>3. QED
    BY <1>1, <1>2

LEMMA MidOfPair ==
    ASSUME NEW v \in Grid, NEW e \in EdgeIndex
    PROVE  Plus(Corner(v, EdgeEnds[e + 1][1]), Corner(v, EdgeEnds[e + 1][2]))
             = << 2 * v[1] + EdgeMid(e)[1], 2 * v[2] + EdgeMid(e)[2], 2 * v[3] + EdgeMid(e)[3] >>
  <1> DEFINE c == EdgeEnds[e + 1][1]
             d == EdgeEnds[e + 1][2]
  <1>1. c \in CornerIndex /\ d \in CornerIndex
    BY EdgeEndsType
  <1>2. EdgeMid(e) = Plus(VoxelDecals[c + 1], VoxelDecals[d + 1])
    BY DEF EdgeMid
  <1> HIDE DEF c, d
  <1>3. VoxelDecals[c + 1] \in Grid /\ VoxelDecals[d + 1] \in Grid
    BY <1>1, CornerType
  <1>4. Plus(Corner(v, c), Corner(v, d))
          = << 2 * v[1] + EdgeMid(e)[1], 2 * v[2] + EdgeMid(e)[2], 2 * v[3] + EdgeMid(e)[3] >>
    BY <1>2, <1>3 DEF Corner, Plus, Grid
  <1>5. QED
    BY <1>4 DEF c, d

(* Edges that coincide have the same midpoint. *)
LEMMA SameMid ==
    ASSUME NEW v \in Grid, NEW w \in Grid, NEW e \in EdgeIndex, NEW f \in EdgeIndex,
           PairOf(v, e) = PairOf(w, f)
    PROVE  \A k \in {1, 2, 3} : 2 * v[k] + EdgeMid(e)[k] = 2 * w[k] + EdgeMid(f)[k]
  <1>1. /\ Corner(v, EdgeEnds[e + 1][1]) \in Grid /\ Corner(v, EdgeEnds[e + 1][2]) \in Grid
        /\ Corner(w, EdgeEnds[f + 1][1]) \in Grid /\ Corner(w, EdgeEnds[f + 1][2]) \in Grid
    BY EdgeEndsType, CornerType
  <1>2. Plus(Corner(v, EdgeEnds[e + 1][1]), Corner(v, EdgeEnds[e + 1][2])) =
        Plus(Corner(w, EdgeEnds[f + 1][1]), Corner(w, EdgeEnds[f + 1][2]))
    BY <1>1, PairSum DEF PairOf
  <1>3. QED
    BY <1>2, MidOfPair

(* Within a voxel an edge is its pair of points. *)
LEMMA PairInjective ==
    ASSUME NEW v \in Grid, NEW e \in EdgeIndex, NEW f \in EdgeIndex, PairOf(v, e) = PairOf(v, f)
    PROVE  e = f
  <1>1. \A k \in {1, 2, 3} : EdgeMid(e)[k] = EdgeMid(f)[k]
    BY SameMid, EdgeMidType DEF Grid
  <1>2. EdgeMid(e) = EdgeMid(f)
    BY <1>1, EdgeMidType
  <1>3. QED
    BY <1>2, EdgeMidInjective

(* Two voxels that have two edges in common are one, or face neighbours.   *)
LEMMA TwoSharedEdges ==
    ASSUME NEW v \in Grid, NEW w \in Grid, v # w,
           NEW e \in EdgeIndex, NEW f \in EdgeIndex, e # f,
           NEW g \in EdgeIndex, NEW h \in EdgeIndex,
           PairOf(v, e) = PairOf(w, g), PairOf(v, f) = PairOf(w, h)
    PROVE  \E n \in NeighbourIndex : w = Neighbour(v, n)
  <1> DEFINE d(k) == w[k] - v[k]
  <1>1. \A k \in {1, 2, 3} : /\ EdgeMid(e)[k] = 2 * d(k) + EdgeMid(g)[k]
                             /\ EdgeMid(f)[k] = 2 * d(k) + EdgeMid(h)[k]
    <2> SUFFICES ASSUME NEW k \in {1, 2, 3}
                 PROVE  /\ EdgeMid(e)[k] = 2 * d(k) + EdgeMid(g)[k]
                        /\ EdgeMid(f)[k] = 2 * d(k) + EdgeMid(h)[k]
      OBVIOUS
    <2>1. v[k] \in Int /\ w[k] \in Int
      BY DEF Grid
    <2>2. /\ EdgeMid(e)[k] \in {0, 1, 2} /\ EdgeMid(f)[k] \in {0, 1, 2}
          /\ EdgeMid(g)[k] \in {0, 1, 2} /\ EdgeMid(h)[k] \in {0, 1, 2}
      BY EdgeMidType
    <2>3. /\ 2 * v[k] + EdgeMid(e)[k] = 2 * w[k] + EdgeMid(g)[k]
          /\ 2 * v[k] + EdgeMid(f)[k] = 2 * w[k] + EdgeMid(h)[k]
      BY SameMid
    <2> DEFINE a == v[k]
               b == w[k]
               me == EdgeMid(e)[k]
               mf == EdgeMid(f)[k]
               mg == EdgeMid(g)[k]
               mh == EdgeMid(h)[k]
    <2>4. /\ a \in Int /\ b \in Int /\ me \in Int /\ mf \in Int /\ mg \in Int /\ mh \in Int
          /\ 2 * a + me = 2 * b + mg /\ 2 * a + mf = 2 * b + mh
      BY <2>1, <2>2, <2>3
    <2> HIDE DEF a, b, me, mf, mg, mh
    <2>5. me = 2 * (b - a) + mg /\ mf = 2 * (b - a) + mh
      BY <2>4
    <2>6. QED
      BY <2>5 DEF a, b, me, mf, mg, mh
  <1>2. \A k \in {1, 2, 3} : v[k] \in Int /\ w[k] \in Int
    BY DEF Grid
  <1>3. \A k \in {1, 2, 3} : /\ d(k) \in {-1, 0, 1}
                             /\ d(k) # 0 => EdgeMid(e)[k] = EdgeMid(f)[k] /\ EdgeMid(e)[k] # 1
    <2> SUFFICES ASSUME NEW k \in {1, 2, 3}
                 PROVE  /\ d(k) \in {-1, 0, 1}
                        /\ d(k) # 0 => EdgeMid(e)[k] = EdgeMid(f)[k] /\ EdgeMid(e)[k] # 1
      OBVIOUS
    <2>1. d(k) \in Int
      BY <1>2
    <2>2. /\ EdgeMid(e)[k] \in {0, 1, 2} /\ EdgeMid(f)[k] \in {0, 1, 2}
          /\ EdgeMid(g)[k] \in {0, 1, 2} /\ EdgeMid(h)[k] \in {0, 1, 2}
      BY EdgeMidType
    <2>3. /\ EdgeMid(e)[k] = 2 * d(k) + EdgeMid(g)[k]
          /\ EdgeMid(f)[k] = 2 * d(k) + EdgeMid(h)[k]
      BY <1>1
    <2> HIDE DEF d
    <2>4. QED
      BY <2>1, <2>2, <2>3
  <1>4. EdgeMid(e) # EdgeMid(f)
    BY EdgeMidInjective
  <1>5. \E k \in {1, 2, 3} : EdgeMid(e)[k] # EdgeMid(f)[k]
    BY <1>4, EdgeMidType
  <1>6. \E k \in {1, 2, 3} : d(k) # 0
    <2> SUFFICES ASSUME d(1) = 0, d(2) = 0, d(3) = 0 PROVE FALSE
      OBVIOUS
    <2>1. v[1] = w[1] /\ v[2] = w[2] /\ v[3] = w[3]
      BY <1>2
    <2>2. v = w
      BY <2>1 DEF Grid
    <2>3. QED
      BY <2>2
  <1>7. \A j, k \in {1, 2, 3} : d(j) # 0 /\ d(k) # 0 => j = k
    <2> SUFFICES ASSUME NEW j \in {1, 2, 3}, NEW k \in {1, 2, 3}, j # k, d(j) # 0, d(k) # 0
                 PROVE  FALSE
      OBVIOUS
    <2> HIDE DEF d
    <2>1. PICK i \in {1, 2, 3} : i # j /\ i # k
      OBVIOUS
    <2>2. EdgeMid(e)[i] = 1 /\ EdgeMid(f)[i] = 1
      BY <1>3, <2>1, EdgeMidType
    <2>3. QED
      BY <1>3, <1>5, <2>1, <2>2
  <1> HIDE DEF d
  <1>8. \E n \in NeighbourIndex : NeighbourDecals[n + 1] = << d(1), d(2), d(3) >>
    BY <1>3, <1>6, <1>7 DEF NeighbourDecals, NeighbourIndex
  <1>9. w = Plus(v, << d(1), d(2), d(3) >>)
    BY DEF d, Plus, Grid
  <1>10. QED
    BY <1>8, <1>9 DEF Neighbour

-----------------------------------------------------------------------------
(* Faces.                                                                  *)

(* The faces of a voxel, as the corners and the edges on them.             *)
LEMMA Faces ==
    /\ FaceCorners[0] = {0, 1, 4, 5} /\ FaceCorners[1] = {1, 2, 5, 6}
    /\ FaceCorners[2] = {2, 3, 6, 7} /\ FaceCorners[3] = {0, 3, 4, 7}
    /\ FaceCorners[4] = {4, 5, 6, 7} /\ FaceCorners[5] = {0, 1, 2, 3}
  <1>1. \A n \in NeighbourIndex : FaceCorners[n] =
          { c \in CornerIndex : \E d \in CornerIndex :
              VoxelDecals[c + 1] = Plus(NeighbourDecals[n + 1], VoxelDecals[d + 1]) }
    BY DEF FaceCorners
  <1>2. FaceCorners[0] = {0, 1, 4, 5}
    <2>1. FaceCorners[0] = { c \in CornerIndex : \E d \in CornerIndex :
              VoxelDecals[c + 1] = Plus(NeighbourDecals[1], VoxelDecals[d + 1]) }
      BY <1>1 DEF NeighbourIndex
    <2>2. QED
      BY <2>1 DEF CornerIndex, VoxelDecals, NeighbourDecals, Plus
  <1>3. FaceCorners[1] = {1, 2, 5, 6}
    <2>1. FaceCorners[1] = { c \in CornerIndex : \E d \in CornerIndex :
              VoxelDecals[c + 1] = Plus(NeighbourDecals[2], VoxelDecals[d + 1]) }
      BY <1>1 DEF NeighbourIndex
    <2>2. QED
      BY <2>1 DEF CornerIndex, VoxelDecals, NeighbourDecals, Plus
  <1>4. FaceCorners[2] = {2, 3, 6, 7}
    <2>1. FaceCorners[2] = { c \in CornerIndex : \E d \in CornerIndex :
              VoxelDecals[c + 1] = Plus(NeighbourDecals[3], VoxelDecals[d + 1]) }
      BY <1>1 DEF NeighbourIndex
    <2>2. QED
      BY <2>1 DEF CornerIndex, VoxelDecals, NeighbourDecals, Plus
  <1>5. FaceCorners[3] = {0, 3, 4, 7}
    <2>1. FaceCorners[3] = { c \in CornerIndex : \E d \in CornerIndex :
              VoxelDecals[c + 1] = Plus(NeighbourDecals[4], VoxelDecals[d + 1]) }
      BY <1>1 DEF NeighbourIndex
    <2>2. QED
      BY <2>1 DEF CornerIndex, VoxelDecals, NeighbourDecals, Plus
  <1>6. FaceCorners[4] = {4, 5, 6, 7}
    <2>1. FaceCorners[4] = { c \in CornerIndex : \E d \in CornerIndex :
              VoxelDecals[c + 1] = Plus(NeighbourDecals[5], VoxelDecals[d + 1]) }
      BY <1>1 DEF NeighbourIndex
    <2>2. QED
      BY <2>1 DEF CornerIndex, VoxelDecals, NeighbourDecals, Plus
  <1>7. FaceCorners[5] = {0, 1, 2, 3}
    <2>1. FaceCorners[5] = { c \in CornerIndex : \E d \in CornerIndex :
              VoxelDecals[c + 1] = Plus(NeighbourDecals[6], VoxelDecals[d + 1]) }
      BY <1>1 DEF NeighbourIndex
    <2>2. QED
      BY <2>1 DEF CornerIndex, VoxelDecals, NeighbourDecals, Plus
  <1>8. QED
    BY <1>2, <1>3, <1>4, <1>5, <1>6, <1>7

LEMMA EdgesOnFaces ==
    \A e \in EdgeIndex :
        /\ OnFace(0, e) <=> e \in {0, 4, 8, 9}
        /\ OnFace(1, e) <=> e \in {1, 5, 9, 10}
        /\ OnFace(2, e) <=> e \in {2, 6, 10, 11}
        /\ OnFace(3, e) <=> e \in {3, 7, 8, 11}
        /\ OnFace(4, e) <=> e \in {4, 5, 6, 7}
        /\ OnFace(5, e) <=> e \in {0, 1, 2, 3}
  BY Faces DEF OnFace, EdgeIndex, EdgeEnds

(* Two edges have at most one face in common. *)
LEMMA OneCommonFace ==
    ASSUME NEW e \in EdgeIndex, NEW f \in EdgeIndex, e # f,
           NEW n \in NeighbourIndex, NEW m \in NeighbourIndex,
           OnFace(n, e), OnFace(n, f), OnFace(m, e), OnFace(m, f)
    PROVE  n = m
  <1>1. n \in {0, 1, 2, 3, 4, 5} /\ m \in {0, 1, 2, 3, 4, 5}
    BY DEF NeighbourIndex
  <1>2. QED
    BY <1>1, EdgesOnFaces

(* The points on the face towards a neighbour, by the direction of it. *)
LEMMA FaceDecals ==
    ASSUME NEW n \in NeighbourIndex, NEW c \in FaceCorners[n], NEW k \in {1, 2, 3}
    PROVE  /\ NeighbourDecals[n + 1][k] \in {-1, 0, 1}
           /\ NeighbourDecals[n + 1][k] = -1 => VoxelDecals[c + 1][k] = 0
           /\ NeighbourDecals[n + 1][k] = 1 => VoxelDecals[c + 1][k] = 1
           /\ c \in CornerIndex /\ VoxelDecals[c + 1][k] \in {0, 1}
  <1>1. PICK d \in CornerIndex : VoxelDecals[c + 1] = Plus(NeighbourDecals[n + 1], VoxelDecals[d + 1])
    BY DEF FaceCorners
  <1>2. c \in CornerIndex
    BY DEF FaceCorners
  <1>3. /\ NeighbourDecals[n + 1][k] \in {-1, 0, 1}
        /\ VoxelDecals[c + 1][k] \in {0, 1} /\ VoxelDecals[d + 1][k] \in {0, 1}
    BY <1>2, NeighbourDecalsType, VoxelDecalsType
  <1>4. VoxelDecals[c + 1][k] = NeighbourDecals[n + 1][k] + VoxelDecals[d + 1][k]
    BY <1>1 DEF Plus
  <1>5. QED
    BY <1>2, <1>3, <1>4

(* A corner of a voxel is that corner of its neighbour which SameCorner    *)
(* gives.                                                                  *)
LEMMA SharedCorner ==
    ASSUME NEW v \in Grid, NEW n \in NeighbourIndex, NEW c \in CornerIndex, NEW d \in CornerIndex
    PROVE  SameCorner(n, c, d) <=> Corner(v, c) = Corner(Neighbour(v, n), d)
  <1>1. NeighbourDecals[n + 1] \in Grid /\ VoxelDecals[c + 1] \in Grid /\ VoxelDecals[d + 1] \in Grid
    BY NeighbourDecalsType, VoxelDecalsType DEF Grid
  <1> DEFINE x == VoxelDecals[c + 1]
             y == NeighbourDecals[n + 1]
             z == VoxelDecals[d + 1]
  <1> HIDE DEF x, y, z
  <1>2. ASSUME NEW a \in Int, NEW b \in Int, NEW i \in Int, NEW j \in Int
        PROVE  a + b = (a + i) + j <=> b = i + j
    OBVIOUS
  <1>3. ASSUME x \in Grid, y \in Grid, z \in Grid
        PROVE  Plus(v, x) = Plus(Plus(v, y), z) <=> x = Plus(y, z)
    <2>1. x = << x[1], x[2], x[3] >>
      BY <1>3 DEF Grid
    <2>2. /\ v[1] + x[1] = (v[1] + y[1]) + z[1] <=> x[1] = y[1] + z[1]
          /\ v[2] + x[2] = (v[2] + y[2]) + z[2] <=> x[2] = y[2] + z[2]
          /\ v[3] + x[3] = (v[3] + y[3]) + z[3] <=> x[3] = y[3] + z[3]
      BY <1>2, <1>3 DEF Grid
    <2>3. x = Plus(y, z) <=> x[1] = y[1] + z[1] /\ x[2] = y[2] + z[2] /\ x[3] = y[3] + z[3]
      BY <2>1 DEF Plus
    <2>4. QED
      BY <2>2, <2>3 DEF Plus
  <1>4. QED
    BY <1>1, <1>3 DEF x, y, z, SameCorner, Corner, Neighbour

(* A shared edge is one pair of points. *)
LEMMA SharedEdge ==
    ASSUME NEW v \in Grid, NEW n \in NeighbourIndex, NEW e \in EdgeIndex, NEW f \in EdgeIndex
    PROVE  /\ << e, f >> \in SharedEdges[n] <=> PairOf(v, e) = PairOf(Neighbour(v, n), f)
           /\ << e, f >> \in SharedEdges[n] => OnFace(n, e)
  <1> DEFINE a == EdgeEnds[e + 1][1]
             b == EdgeEnds[e + 1][2]
             g == EdgeEnds[f + 1][1]
             h == EdgeEnds[f + 1][2]
             w == Neighbour(v, n)
  <1>1. a \in CornerIndex /\ b \in CornerIndex /\ g \in CornerIndex /\ h \in CornerIndex
        /\ a # b /\ g # h
    BY EdgeEndsType
  <1>2. << e, f >> \in SharedEdges[n] <=> SameEdge(n, e, f)
    BY DEF SharedEdges
  <1>3. SameEdge(n, e, f) <=> /\ SameCorner(n, a, g) \/ SameCorner(n, a, h)
                              /\ SameCorner(n, b, g) \/ SameCorner(n, b, h)
    BY DEF SameEdge
  <1>4. PairOf(v, e) = {Corner(v, a), Corner(v, b)} /\ PairOf(w, f) = {Corner(w, g), Corner(w, h)}
    BY DEF PairOf
  <1>5. OnFace(n, e) <=> a \in FaceCorners[n] /\ b \in FaceCorners[n]
    BY DEF OnFace
  <1>6. \A c, d \in CornerIndex : SameCorner(n, c, d) => c \in FaceCorners[n]
    BY DEF SameCorner, FaceCorners
  <1> HIDE DEF a, b, g, h, w
  <1>7. Corner(v, a) # Corner(v, b)
    BY <1>1, CornersApart
  <1>8. \A c, d \in CornerIndex : SameCorner(n, c, d) <=> Corner(v, c) = Corner(w, d)
    BY SharedCorner DEF w
  <1>9. SameEdge(n, e, f) <=> PairOf(v, e) = PairOf(w, f)
    BY <1>1, <1>3, <1>4, <1>7, <1>8
  <1>10. SameEdge(n, e, f) => OnFace(n, e)
    BY <1>1, <1>3, <1>5, <1>6
  <1>11. QED
    BY <1>2, <1>9, <1>10 DEF w

(* The facts about faces hold for any two neighbours whose corners agree.  *)
LEMMA FacesMeet ==
    ASSUME NEW low \in SUBSET CornerIndex, NEW its \in SUBSET CornerIndex, NEW n \in NeighbourIndex,
           \A c, d \in CornerIndex : SameCorner(n, c, d) => (c \in low <=> d \in its),
           NEW s \in SidesOf[voxelIndex(low)], OnFace(n, s[1]), OnFace(n, s[2])
    PROVE  Turned(s) \in SidesOf[voxelIndex(low)] <=>
               ~ \E t \in SidesOf[voxelIndex(its)] :
                    << s[1], t[2] >> \in SharedEdges[n] /\ << s[2], t[1] >> \in SharedEdges[n]
  <1>1. its = Across(n, low) \cup (its \ FaceFrom[n])
    BY DEF Across, FaceFrom
  <1>2. its \ FaceFrom[n] \in SUBSET (CornerIndex \ FaceFrom[n])
    OBVIOUS
  <1>3. QED
    BY <1>1, <1>2, FacesAssumption DEF FacesFit

LEMMA CellInGrid ==
    ASSUME NEW v \in Cell
    PROVE  v \in Grid /\ \A c \in CornerIndex : Corner(v, c) \in PointId
  <1>1. v \in Grid /\ \A k \in {1, 2, 3} : v[k] \in 0 .. GridSize
    BY GridSizeAssumption DEF Cell, Grid
  <1>2. ASSUME NEW c \in CornerIndex PROVE Corner(v, c) \in PointId
    <2>1. /\ VoxelDecals[c + 1][1] \in {0, 1} /\ VoxelDecals[c + 1][2] \in {0, 1}
          /\ VoxelDecals[c + 1][3] \in {0, 1}
      BY VoxelDecalsType
    <2>2. QED
      BY <1>1, <2>1, GridSizeAssumption DEF Corner, Plus, PointId
  <1>3. QED
    BY <1>1, <1>2

(* Where a side inside the grid lies on a face, the voxel beyond is valid. *)
LEMMA BeyondIsValid ==
    ASSUME NEW v \in Cell, NEW e \in EdgeIndex, NEW f \in EdgeIndex, NEW n \in NeighbourIndex,
           OnFace(n, e), OnFace(n, f),
           \A p \in PairOf(v, e) \cup PairOf(v, f), k \in 1 .. 3 : p[k] <= GridSize,
           \A k \in 1 .. 3, b \in {0, GridSize} : \E p \in PairOf(v, e) \cup PairOf(v, f) : p[k] # b
    PROVE  validVoxel(Neighbour(v, n))
  <1> DEFINE ends == PairOf(v, e) \cup PairOf(v, f)
             dn == NeighbourDecals[n + 1]
  <1>1. ASSUME NEW p \in ends
        PROVE  \E c \in FaceCorners[n] : p = Corner(v, c)
    BY DEF OnFace, PairOf
  <1>2. /\ \A p \in ends, k \in {1, 2, 3} : p[k] <= GridSize
        /\ \A k \in {1, 2, 3}, b \in {0, GridSize} : \E p \in ends : p[k] # b
    OBVIOUS
  <1>3. v \in Grid /\ \A k \in {1, 2, 3} : v[k] \in 0 .. GridSize
    BY GridSizeAssumption DEF Cell, Grid
  <1> HIDE DEF ends
  <1>4. ASSUME NEW k \in {1, 2, 3} PROVE dn[k] \in {-1, 0, 1} /\ 0 <= v[k] + dn[k] /\ v[k] + dn[k] < GridSize
    <2>1. ASSUME NEW p \in ends
          PROVE  /\ dn[k] \in {-1, 0, 1} /\ p[k] \in {v[k], v[k] + 1} /\ p[k] <= GridSize
                 /\ dn[k] = -1 => p[k] = v[k]
                 /\ dn[k] = 1 => p[k] = v[k] + 1
      <3>1. PICK c \in FaceCorners[n] : p = Corner(v, c)
        BY <1>1
      <3>2. c \in CornerIndex
        BY FaceDecals
      <3>3. p[k] = v[k] + VoxelDecals[c + 1][k]
        BY <1>3, <3>1, <3>2, CornerType
      <3>4. p[k] <= GridSize
        BY <1>2
      <3>5. QED
        BY <1>3, <3>3, <3>4, FaceDecals
    <2>2. PICK p \in ends : p[k] # 0
      BY <1>2
    <2>3. PICK q \in ends : q[k] # GridSize
      BY <1>2
    <2>4. v[k] \in 0 .. GridSize
      BY <1>3
    <2> DEFINE a == v[k]
               b == p[k]
               c == q[k]
               d == dn[k]
    <2>5. /\ d \in {-1, 0, 1} /\ a \in 0 .. GridSize
          /\ b \in {a, a + 1} /\ c \in {a, a + 1} /\ b # 0 /\ c # GridSize
          /\ b <= GridSize /\ c <= GridSize
          /\ d = -1 => b = a
          /\ d = 1 => c = a + 1
      BY <2>1, <2>2, <2>3, <2>4
    <2> HIDE DEF a, b, c, d
    <2>6. d \in {-1, 0, 1} /\ 0 <= a + d /\ a + d < GridSize
      BY <2>5, GridSizeAssumption
    <2>7. QED
      BY <2>6 DEF a, d
  <1>5. QED
    BY <1>4 DEF validVoxel, Neighbour, Plus

-----------------------------------------------------------------------------
(* Surfaces of many voxels: V, of which the corners in B are below.        *)

LowCorners(B, v) == { c \in CornerIndex : Corner(v, c) \in B }
RowOf(B, v)      == voxelIndex(LowCorners(B, v))
SideIn(v, s)     == << PairOf(v, s[1]), PairOf(v, s[2]) >>

LEMMA RowType ==
    ASSUME NEW low \in SUBSET CornerIndex
    PROVE  voxelIndex(low) \in Config
  <1> DEFINE bit(c) == IF c \in low THEN coeffs[c + 1] ELSE 0
  <1>1. /\ bit(0) \in {0, 1} /\ bit(1) \in {0, 2} /\ bit(2) \in {0, 4} /\ bit(3) \in {0, 8}
        /\ bit(4) \in {0, 16} /\ bit(5) \in {0, 32} /\ bit(6) \in {0, 64} /\ bit(7) \in {0, 128}
    BY DEF coeffs
  <1>2. voxelIndex(low) = bit(0) + bit(1) + bit(2) + bit(3) + bit(4) + bit(5) + bit(6) + bit(7)
    BY DEF voxelIndex
  <1> HIDE DEF bit
  <1>3. QED
    BY <1>1, <1>2 DEF Config

(* The sides of one voxel. *)
LEMMA SidesType ==
    ASSUME NEW low \in SUBSET CornerIndex
    PROVE  LET k == voxelIndex(low) IN
           /\ SidesOf[k] = { SideAt(k, p) : p \in Place(k) }
           /\ \A s \in SidesOf[k] :
                 /\ s[1] \in EdgeIndex /\ s[2] \in EdgeIndex /\ s = << s[1], s[2] >> /\ s[1] # s[2]
                 /\ \A i \in {1, 2} : EdgeEnds[s[i] + 1][1] \in low <=> EdgeEnds[s[i] + 1][2] \notin low
           /\ \A p, q \in Place(k) : SideAt(k, p) = SideAt(k, q) => p = q
  <1> DEFINE k == voxelIndex(low)
  <1>1. SidesOf[k] = { SideAt(k, p) : p \in Place(k) }
    BY RowType DEF SidesOf
  <1>2. /\ \A e \in EdgesOf(k) : EdgeEnds[e + 1][1] \in low <=> EdgeEnds[e + 1][2] \notin low
        /\ TrianglesOf(k) \in Seq(EdgesOf(k) \X EdgesOf(k) \X EdgesOf(k))
        /\ \A p \in Place(k) : SideAt(k, p)[1] # SideAt(k, p)[2]
        /\ \A p, q \in Place(k) : SideAt(k, p) = SideAt(k, q) => p = q
    BY PatchesAssumption DEF PatchesFit
  <1>3. EdgesOf(k) \subseteq EdgeIndex
    BY DEF EdgesOf
  <1> HIDE DEF k
  <1>4. ASSUME NEW p \in Place(k)
        PROVE  LET s == SideAt(k, p) IN
               s[1] \in EdgesOf(k) /\ s[2] \in EdgesOf(k) /\ s = << s[1], s[2] >>
    <2>1. p[1] \in DOMAIN TrianglesOf(k) /\ p[2] \in 1 .. 3
      BY DEF Place
    <2>2. TrianglesOf(k)[p[1]] \in EdgesOf(k) \X EdgesOf(k) \X EdgesOf(k)
      BY <1>2, <2>1
    <2>3. \A i \in 1 .. 3 : TrianglesOf(k)[p[1]][i] \in EdgesOf(k)
      BY <2>2
    <2>4. (p[2] % 3) + 1 \in 1 .. 3
      BY <2>1
    <2>5. QED
      BY <2>1, <2>3, <2>4 DEF SideAt
  <1>5. ASSUME NEW s \in SidesOf[k]
        PROVE  /\ s[1] \in EdgeIndex /\ s[2] \in EdgeIndex /\ s = << s[1], s[2] >> /\ s[1] # s[2]
               /\ \A i \in {1, 2} : EdgeEnds[s[i] + 1][1] \in low <=> EdgeEnds[s[i] + 1][2] \notin low
    <2>1. PICK p \in Place(k) : s = SideAt(k, p)
      BY <1>1
    <2>2. s[1] \in EdgesOf(k) /\ s[2] \in EdgesOf(k) /\ s = << s[1], s[2] >> /\ s[1] # s[2]
      BY <1>2, <1>4, <2>1
    <2>3. QED
      BY <1>2, <1>3, <2>2
  <1>6. QED
    BY <1>1, <1>2, <1>5 DEF k

(* Within a voxel a side is its two pairs of points. *)
LEMMA SideInjective ==
    ASSUME NEW v \in Grid, NEW e \in EdgeIndex, NEW f \in EdgeIndex,
           NEW g \in EdgeIndex, NEW h \in EdgeIndex,
           SideIn(v, << e, f >>) = SideIn(v, << g, h >>)
    PROVE  << e, f >> = << g, h >>
  <1>1. PairOf(v, e) = PairOf(v, g) /\ PairOf(v, f) = PairOf(v, h)
    BY DEF SideIn
  <1>2. QED
    BY <1>1, PairInjective

LEMMA NeighbourInGrid ==
    ASSUME NEW v \in Grid, NEW n \in NeighbourIndex
    PROVE  Neighbour(v, n) \in Grid
  <1>1. NeighbourDecals[n + 1] \in Grid
    BY NeighbourDecalsType DEF Grid
  <1>2. QED
    BY <1>1 DEF Neighbour, Plus, Grid

(* A side of voxel v on its face towards n is run the other way by v or by *)
(* that neighbour, and not by both.                                        *)
LEMMA AcrossTheFace ==
    ASSUME NEW B, NEW v \in Grid, NEW n \in NeighbourIndex,
           NEW s \in SidesOf[RowOf(B, v)], OnFace(n, s[1]), OnFace(n, s[2])
    PROVE  Turned(s) \in SidesOf[RowOf(B, v)] <=>
               ~ \E t \in SidesOf[RowOf(B, Neighbour(v, n))] :
                    SideIn(Neighbour(v, n), t) = Turned(SideIn(v, s))
  <1> DEFINE w == Neighbour(v, n)
             low == LowCorners(B, v)
             its == LowCorners(B, w)
  <1>1. low \in SUBSET CornerIndex /\ its \in SUBSET CornerIndex
    BY DEF LowCorners
  <1>2. \A c, d \in CornerIndex : SameCorner(n, c, d) => (c \in low <=> d \in its)
    BY SharedCorner DEF LowCorners
  <1>3. s \in SidesOf[voxelIndex(low)]
    BY DEF RowOf
  <1> HIDE DEF w, low, its
  <1>4. Turned(s) \in SidesOf[voxelIndex(low)] <=>
            ~ \E t \in SidesOf[voxelIndex(its)] :
                << s[1], t[2] >> \in SharedEdges[n] /\ << s[2], t[1] >> \in SharedEdges[n]
    BY <1>1, <1>2, <1>3, FacesMeet
  <1>5. s[1] \in EdgeIndex /\ s[2] \in EdgeIndex
    BY <1>1, <1>3, SidesType
  <1>6. ASSUME NEW t \in SidesOf[voxelIndex(its)]
        PROVE  << s[1], t[2] >> \in SharedEdges[n] /\ << s[2], t[1] >> \in SharedEdges[n]
                 <=> SideIn(w, t) = Turned(SideIn(v, s))
    <2>1. t[1] \in EdgeIndex /\ t[2] \in EdgeIndex
      BY <1>1, <1>6, SidesType
    <2>2. /\ << s[1], t[2] >> \in SharedEdges[n] <=> PairOf(v, s[1]) = PairOf(w, t[2])
          /\ << s[2], t[1] >> \in SharedEdges[n] <=> PairOf(v, s[2]) = PairOf(w, t[1])
      BY <1>5, <2>1, SharedEdge DEF w
    <2>3. QED
      BY <2>2 DEF SideIn, Turned
  <1>7. QED
    BY <1>4, <1>6 DEF RowOf, w, low, its

(* A side of voxel x that runs against one of another voxel v lies on a    *)
(* face the two share, and v does not run against it itself.               *)
LEMMA OpposedElsewhere ==
    ASSUME NEW B, NEW v \in Grid, NEW x \in Grid, x # v,
           NEW s \in SidesOf[RowOf(B, v)], NEW t \in SidesOf[RowOf(B, x)],
           SideIn(x, t) = Turned(SideIn(v, s))
    PROVE  /\ Turned(s) \notin SidesOf[RowOf(B, v)]
           /\ \E n \in NeighbourIndex : x = Neighbour(v, n) /\ OnFace(n, s[1]) /\ OnFace(n, s[2])
  <1>1. LowCorners(B, v) \in SUBSET CornerIndex /\ LowCorners(B, x) \in SUBSET CornerIndex
    BY DEF LowCorners
  <1>2. /\ s[1] \in EdgeIndex /\ s[2] \in EdgeIndex /\ s[1] # s[2]
        /\ t[1] \in EdgeIndex /\ t[2] \in EdgeIndex
    BY <1>1, SidesType DEF RowOf
  <1>3. PairOf(v, s[1]) = PairOf(x, t[2]) /\ PairOf(v, s[2]) = PairOf(x, t[1])
    BY DEF SideIn, Turned
  <1>4. PICK n \in NeighbourIndex : x = Neighbour(v, n)
    BY <1>2, <1>3, TwoSharedEdges
  <1>5. << s[1], t[2] >> \in SharedEdges[n] /\ << s[2], t[1] >> \in SharedEdges[n]
    BY <1>2, <1>3, <1>4, SharedEdge
  <1>6. OnFace(n, s[1]) /\ OnFace(n, s[2])
    BY <1>2, <1>5, SharedEdge
  <1>7. QED
    BY <1>4, <1>6, AcrossTheFace

(* A side is drawn by one voxel only. *)
LEMMA SideOnce ==
    ASSUME NEW B, NEW v \in Grid, NEW x \in Grid,
           NEW s \in SidesOf[RowOf(B, v)], NEW t \in SidesOf[RowOf(B, x)],
           SideIn(v, s) = SideIn(x, t)
    PROVE  v = x
  <1> SUFFICES ASSUME x # v PROVE FALSE
    OBVIOUS
  <1>1. LowCorners(B, v) \in SUBSET CornerIndex /\ LowCorners(B, x) \in SUBSET CornerIndex
    BY DEF LowCorners
  <1>2. /\ s[1] \in EdgeIndex /\ s[2] \in EdgeIndex /\ s[1] # s[2] /\ s = << s[1], s[2] >>
        /\ t[1] \in EdgeIndex /\ t[2] \in EdgeIndex /\ t = << t[1], t[2] >>
    BY <1>1, SidesType DEF RowOf
  <1>3. PairOf(v, s[1]) = PairOf(x, t[1]) /\ PairOf(v, s[2]) = PairOf(x, t[2])
    BY DEF SideIn
  <1>4. CASE Turned(s) \in SidesOf[RowOf(B, v)]
    <2> DEFINE u == Turned(s)
    <2>1. u \in SidesOf[RowOf(B, v)] /\ Turned(u) = s
      BY <1>2, <1>4 DEF Turned
    <2>2. SideIn(x, t) = Turned(SideIn(v, u))
      BY <1>3 DEF Turned, SideIn
    <2> HIDE DEF u
    <2>3. Turned(u) \notin SidesOf[RowOf(B, v)]
      BY <2>1, <2>2, OpposedElsewhere
    <2>4. QED
      BY <2>1, <2>3
  <1>5. CASE Turned(s) \notin SidesOf[RowOf(B, v)]
    <2>1. PICK n \in NeighbourIndex : x = Neighbour(v, n)
      BY <1>2, <1>3, TwoSharedEdges
    <2>2. OnFace(n, s[1]) /\ OnFace(n, s[2])
      <3>1. << s[1], t[1] >> \in SharedEdges[n] /\ << s[2], t[2] >> \in SharedEdges[n]
        BY <1>2, <1>3, <2>1, SharedEdge
      <3>2. QED
        BY <1>2, <3>1, SharedEdge
    <2>3. PICK u \in SidesOf[RowOf(B, x)] : SideIn(x, u) = Turned(SideIn(v, s))
      BY <1>5, <2>1, <2>2, AcrossTheFace
    <2>4. u[1] \in EdgeIndex /\ u[2] \in EdgeIndex /\ u = << u[1], u[2] >>
      BY <1>1, SidesType DEF RowOf
    <2>5. SideIn(v, s) = Turned(SideIn(x, u))
      BY <2>3 DEF Turned, SideIn
    <2>6. Turned(u) \notin SidesOf[RowOf(B, x)]
      BY <2>5, OpposedElsewhere
    <2>7. SideIn(x, Turned(u)) = SideIn(x, t)
      BY <2>5 DEF Turned, SideIn
    <2>8. Turned(u) = t
      BY <1>2, <2>4, <2>7, SideInjective DEF Turned
    <2>9. QED
      BY <2>6, <2>8
  <1>6. QED
    BY <1>4, <1>5

(* If the neighbours across the faces that a side lies on are drawn too,   *)
(* exactly one side of the whole surface runs against it.                  *)
LEMMA OpposedOnce ==
    ASSUME NEW B, NEW V \in SUBSET Grid, NEW v \in V, NEW p \in Place(RowOf(B, v)),
           \A n \in NeighbourIndex :
              /\ OnFace(n, SideAt(RowOf(B, v), p)[1])
              /\ OnFace(n, SideAt(RowOf(B, v), p)[2])
              => Neighbour(v, n) \in V
    PROVE  \E w \in V : \E q \in Place(RowOf(B, w)) :
              \A x \in V : \A r \in Place(RowOf(B, x)) :
                 SideIn(x, SideAt(RowOf(B, x), r)) = Turned(SideIn(v, SideAt(RowOf(B, v), p)))
                   <=> x = w /\ r = q
  <1> DEFINE s == SideAt(RowOf(B, v), p)
             Against(x, r) == SideIn(x, SideAt(RowOf(B, x), r)) = Turned(SideIn(v, s))
  <1>1. \A x : LowCorners(B, x) \in SUBSET CornerIndex
    BY DEF LowCorners
  <1>2. \A x : /\ SidesOf[RowOf(B, x)] = { SideAt(RowOf(B, x), r) : r \in Place(RowOf(B, x)) }
               /\ \A r, q \in Place(RowOf(B, x)) :
                     SideAt(RowOf(B, x), r) = SideAt(RowOf(B, x), q) => r = q
               /\ \A t \in SidesOf[RowOf(B, x)] :
                     t[1] \in EdgeIndex /\ t[2] \in EdgeIndex /\ t = << t[1], t[2] >> /\ t[1] # t[2]
    BY <1>1, SidesType DEF RowOf
  <1>3. s \in SidesOf[RowOf(B, v)]
    BY <1>2
  <1>4. s[1] \in EdgeIndex /\ s[2] \in EdgeIndex /\ s[1] # s[2]
    BY <1>2, <1>3
  <1>5. \A n \in NeighbourIndex : OnFace(n, s[1]) /\ OnFace(n, s[2]) => Neighbour(v, n) \in V
    OBVIOUS
  <1>6. Turned(SideIn(v, s)) = SideIn(v, Turned(s))
    BY DEF Turned, SideIn
  <1> HIDE DEF s
  <1>7. ASSUME NEW x \in V, NEW r \in Place(RowOf(B, x)), Against(x, r), x # v
        PROVE  /\ Turned(s) \notin SidesOf[RowOf(B, v)]
               /\ \E n \in NeighbourIndex : x = Neighbour(v, n) /\ OnFace(n, s[1]) /\ OnFace(n, s[2])
    <2>1. SideAt(RowOf(B, x), r) \in SidesOf[RowOf(B, x)]
      BY <1>2
    <2>2. QED
      BY <1>3, <1>7, <2>1, OpposedElsewhere
  (* Two sides of one voxel that run against s are one. *)
  <1>8. ASSUME NEW x \in V, NEW q \in Place(RowOf(B, x)), NEW r \in Place(RowOf(B, x)),
               Against(x, q), Against(x, r)
        PROVE  q = r
    <2> DEFINE t == SideAt(RowOf(B, x), q)
               u == SideAt(RowOf(B, x), r)
    <2>1. t \in SidesOf[RowOf(B, x)] /\ u \in SidesOf[RowOf(B, x)]
      BY <1>2
    <2>2. SideIn(x, t) = SideIn(x, u)
      BY <1>8
    <2>3. /\ t = << t[1], t[2] >> /\ u = << u[1], u[2] >>
          /\ t[1] \in EdgeIndex /\ t[2] \in EdgeIndex /\ u[1] \in EdgeIndex /\ u[2] \in EdgeIndex
      BY <1>2, <2>1
    <2>4. t = u
      <3> HIDE DEF t, u
      <3>1. QED
        BY <2>2, <2>3, SideInjective
    <2>5. QED
      BY <1>2, <2>4
  <1>9. \E w \in V : \E q \in Place(RowOf(B, w)) :
           /\ Against(w, q)
           /\ \A x \in V : \A r \in Place(RowOf(B, x)) : Against(x, r) => x = w
    <2>1. CASE Turned(s) \in SidesOf[RowOf(B, v)]
      <3>1. PICK q \in Place(RowOf(B, v)) : SideAt(RowOf(B, v), q) = Turned(s)
        BY <1>2, <2>1
      <3>2. Against(v, q)
        BY <1>6, <3>1
      <3>3. \A x \in V : \A r \in Place(RowOf(B, x)) : Against(x, r) => x = v
        BY <1>7, <2>1
      <3>4. QED
        BY <3>2, <3>3
    <2>2. CASE Turned(s) \notin SidesOf[RowOf(B, v)]
      <3>1. PICK n \in NeighbourIndex : OnFace(n, s[1]) /\ OnFace(n, s[2])
        BY <1>1, <1>3, <2>2, PatchesAssumption DEF PatchesFit, RowOf
      <3>2. Neighbour(v, n) \in V
        BY <1>5, <3>1
      <3>3. PICK t \in SidesOf[RowOf(B, Neighbour(v, n))] :
                SideIn(Neighbour(v, n), t) = Turned(SideIn(v, s))
        BY <1>3, <2>2, <3>1, AcrossTheFace
      <3>4. PICK q \in Place(RowOf(B, Neighbour(v, n))) :
                t = SideAt(RowOf(B, Neighbour(v, n)), q)
        BY <1>2
      <3>5. Against(Neighbour(v, n), q)
        BY <3>3, <3>4
      <3>6. ASSUME NEW x \in V, NEW r \in Place(RowOf(B, x)), Against(x, r)
            PROVE  x = Neighbour(v, n)
        <4>1. x # v
          <5> SUFFICES ASSUME x = v PROVE FALSE
            OBVIOUS
          <5> DEFINE u == SideAt(RowOf(B, v), r)
          <5>1. u \in SidesOf[RowOf(B, v)]
            BY <1>2
          <5>2. u[1] \in EdgeIndex /\ u[2] \in EdgeIndex /\ u = << u[1], u[2] >>
            BY <1>2, <5>1
          <5>3. SideIn(v, u) = SideIn(v, Turned(s))
            BY <1>6, <3>6
          <5> HIDE DEF u
          <5>4. u = Turned(s)
            BY <1>4, <5>2, <5>3, SideInjective DEF Turned
          <5>5. QED
            BY <2>2, <5>1, <5>4
        <4>2. PICK m \in NeighbourIndex : x = Neighbour(v, m) /\ OnFace(m, s[1]) /\ OnFace(m, s[2])
          BY <1>7, <3>6, <4>1
        <4>3. m = n
          BY <1>4, <3>1, <4>2, OneCommonFace
        <4>4. QED
          BY <4>2, <4>3
      <3>7. QED
        BY <3>2, <3>5, <3>6
    <2>3. QED
      BY <2>1, <2>2
  <1>10. PICK w \in V : \E q \in Place(RowOf(B, w)) :
           /\ Against(w, q)
           /\ \A x \in V : \A r \in Place(RowOf(B, x)) : Against(x, r) => x = w
    BY <1>9
  <1>11. PICK q \in Place(RowOf(B, w)) :
           /\ Against(w, q)
           /\ \A x \in V : \A r \in Place(RowOf(B, x)) : Against(x, r) => x = w
    BY <1>10
  <1>12. ASSUME NEW x \in V, NEW r \in Place(RowOf(B, x))
         PROVE  Against(x, r) <=> x = w /\ r = q
    BY <1>8, <1>11
  <1>13. \A x \in V : \A r \in Place(RowOf(B, x)) :
            SideIn(x, SideAt(RowOf(B, x), r)) = Turned(SideIn(v, SideAt(RowOf(B, v), p)))
              <=> x = w /\ r = q
    BY <1>12 DEF s
  <1>14. QED
    BY <1>13

-----------------------------------------------------------------------------
(* Winding.  It is the same wherever the voxel lies.                       *)

MidIn(v, e)       == Plus(Corner(v, EdgeEnds[e + 1][1]), Corner(v, EdgeEnds[e + 1][2]))
FallIn(v, low, e) ==
    LET a == Corner(v, EdgeEnds[e + 1][1])
        b == Corner(v, EdgeEnds[e + 1][2])
    IN  IF EdgeEnds[e + 1][1] \in low THEN Sub(a, b) ELSE Sub(b, a)

LEMMA SubMoved ==
    ASSUME NEW t \in Grid, NEW a \in Grid, NEW b \in Grid
    PROVE  Sub(Plus(t, a), Plus(t, b)) = Sub(a, b) /\ Plus(t, a) \in Grid
  BY DEF Sub, Plus, Minus, Grid

LEMMA TurnMoved ==
    ASSUME NEW t \in Grid, NEW a \in Grid, NEW b \in Grid, NEW c \in Grid, NEW n
    PROVE  Turn(Plus(t, a), Plus(t, b), Plus(t, c), n) = Turn(a, b, c, n)
  BY SubMoved DEF Turn

LEMMA EdgeMoved ==
    ASSUME NEW v \in Grid, NEW low, NEW e \in EdgeIndex
    PROVE  /\ MidIn(v, e) = Plus(Plus(v, v), EdgeMid(e))
           /\ FallIn(v, low, e) = Fall(low, e)
           /\ Plus(v, v) \in Grid /\ EdgeMid(e) \in Grid
  <1> DEFINE c == EdgeEnds[e + 1][1]
             d == EdgeEnds[e + 1][2]
  <1>1. EdgeMid(e) \in Grid
    BY EdgeMidType DEF Grid
  <1>2. Plus(v, v) \in Grid
    BY DEF Plus, Grid
  <1>3. MidIn(v, e) = Plus(Plus(v, v), EdgeMid(e))
    <2>1. MidIn(v, e) = << 2 * v[1] + EdgeMid(e)[1], 2 * v[2] + EdgeMid(e)[2], 2 * v[3] + EdgeMid(e)[3] >>
      BY MidOfPair DEF MidIn
    <2>2. \A k \in {1, 2, 3} : v[k] \in Int /\ EdgeMid(e)[k] \in Int
      BY <1>1 DEF Grid
    <2>3. \A k \in {1, 2, 3} : 2 * v[k] + EdgeMid(e)[k] = (v[k] + v[k]) + EdgeMid(e)[k]
      BY <2>2
    <2>4. QED
      BY <2>1, <2>3 DEF Plus
  <1>4. c \in CornerIndex /\ d \in CornerIndex
    BY EdgeEndsType
  <1>5. VoxelDecals[c + 1] \in Grid /\ VoxelDecals[d + 1] \in Grid
    BY <1>4, CornerType
  <1>6. FallIn(v, low, e) = Fall(low, e)
    <2>1. /\ Sub(Corner(v, c), Corner(v, d)) = Sub(VoxelDecals[c + 1], VoxelDecals[d + 1])
          /\ Sub(Corner(v, d), Corner(v, c)) = Sub(VoxelDecals[d + 1], VoxelDecals[c + 1])
      <3> HIDE DEF c, d
      <3>1. QED
        BY <1>5, SubMoved DEF Corner
    <2>2. QED
      BY <2>1 DEF Fall, FallIn
  <1>7. QED
    BY <1>1, <1>2, <1>3, <1>6

LEMMA RowEdges ==
    ASSUME NEW low \in SUBSET CornerIndex, NEW n \in DOMAIN TrianglesOf(voxelIndex(low))
    PROVE  \A i \in {1, 2, 3} : TrianglesOf(voxelIndex(low))[n][i] \in EdgeIndex
  <1> DEFINE T == TrianglesOf(voxelIndex(low))
  <1>1. T \in Seq(EdgesOf(voxelIndex(low)) \X EdgesOf(voxelIndex(low)) \X EdgesOf(voxelIndex(low)))
    BY PatchesAssumption DEF PatchesFit
  <1>2. EdgesOf(voxelIndex(low)) \subseteq EdgeIndex
    BY DEF EdgesOf
  <1> HIDE DEF T
  <1>3. T[n] \in EdgesOf(voxelIndex(low)) \X EdgesOf(voxelIndex(low)) \X EdgesOf(voxelIndex(low))
    BY <1>1 DEF T
  <1>4. QED
    BY <1>2, <1>3 DEF T

(* Every triangle of every voxel turns the same way. *)
LEMMA TrianglesTurn ==
    ASSUME NEW v \in Grid, NEW low \in SUBSET CornerIndex,
           NEW n \in DOMAIN TrianglesOf(voxelIndex(low))
    PROVE  LET m == TrianglesOf(voxelIndex(low))[n]
           IN  Turn(MidIn(v, m[1]), MidIn(v, m[2]), MidIn(v, m[3]),
                    Plus(FallIn(v, low, m[1]), Plus(FallIn(v, low, m[2]), FallIn(v, low, m[3])))) < 0
  <1> DEFINE m == TrianglesOf(voxelIndex(low))[n]
  <1>1. m[1] \in EdgeIndex /\ m[2] \in EdgeIndex /\ m[3] \in EdgeIndex
    BY RowEdges
  <1>2. Turn(EdgeMid(m[1]), EdgeMid(m[2]), EdgeMid(m[3]),
             Plus(Fall(low, m[1]), Plus(Fall(low, m[2]), Fall(low, m[3])))) < 0
    BY WindingAssumption DEF WindingFit
  <1> HIDE DEF m
  <1>3. \A i \in {1, 2, 3} : /\ MidIn(v, m[i]) = Plus(Plus(v, v), EdgeMid(m[i]))
                             /\ FallIn(v, low, m[i]) = Fall(low, m[i])
                             /\ Plus(v, v) \in Grid /\ EdgeMid(m[i]) \in Grid
    BY <1>1, EdgeMoved
  <1>4. Turn(MidIn(v, m[1]), MidIn(v, m[2]), MidIn(v, m[3]),
             Plus(FallIn(v, low, m[1]), Plus(FallIn(v, low, m[2]), FallIn(v, low, m[3])))) < 0
    BY <1>2, <1>3, TurnMoved
  <1>5. QED
    BY <1>4 DEF m
=============================================================================
