-------------------------- MODULE SurfaceMarchProofs --------------------------
(***************************************************************************)
(* Proofs about the surface march, for every grid size, field and seeds.   *)
(***************************************************************************)
EXTENDS SurfaceMarch, VoxelGridProofs

-----------------------------------------------------------------------------
(* The field's tables.                                                     *)

LEMMA getEdgesType == \A j, v : getEdges(j, v) \subseteq NeighbourIndex
  BY DEF getEdges, EdgeIndex, NeighbourMap, NeighbourIndex

(* When no edge differs, all eight corners have the same sign: EdgeDecals  *)
(* still joins every corner to every other.                                *)
LEMMA NoEdgeNoChange ==
    ASSUME NEW j, NEW v, ~containsSurface(j, v)
    PROVE  \A c, d \in CornerIndex : SignAt(j, v, c) = SignAt(j, v, d)
  <1>1. \A e \in EdgeIndex : ~Differs(j, v, e)
    <2> SUFFICES ASSUME NEW e \in EdgeIndex, Differs(j, v, e) PROVE FALSE
      OBVIOUS
    <2>1. NeighbourMap[e + 1] # {}
      BY DEF NeighbourMap, EdgeIndex
    <2>2. QED
      BY <2>1 DEF containsSurface, getEdges
  <1> DEFINE S(c) == SignAt(j, v, c)
  <1>2. /\ S(0) = S(1) /\ S(1) = S(2) /\ S(2) = S(3)
        /\ S(4) = S(5) /\ S(5) = S(6) /\ S(6) = S(7) /\ S(7) = S(0)
    BY <1>1 DEF EdgeIndex, Differs, EdgeDecals
  <1> HIDE DEF S
  <1>3. \A c \in CornerIndex : S(c) = S(0)
    BY <1>2 DEF CornerIndex
  <1>4. QED
    BY <1>3 DEF S

(* A voxel whose corners agree has no differing edge. *)
LEMMA NoChangeNoEdge ==
    ASSUME NEW j, NEW v, containsSurface(j, v)
    PROVE  \E c, d \in CornerIndex : SignAt(j, v, c) # SignAt(j, v, d)
  <1>1. PICK e \in EdgeIndex : Differs(j, v, e)
    BY DEF containsSurface, getEdges
  <1>2. EdgeDecals[e + 1][1] \in CornerIndex /\ EdgeDecals[e + 1][2] \in CornerIndex
    BY DEF EdgeDecals, EdgeIndex, CornerIndex
  <1>3. QED
    BY <1>1, <1>2 DEF Differs

(* Entry 7 of EdgeDecals notwithstanding, a surface that crosses a face    *)
(* differs on an edge whose NeighbourMap entry names that face.            *)
LEMMA CrossedFaceIsFollowed ==
    ASSUME NEW j, NEW v, NEW n \in NeighbourIndex, FaceCrossed(j, v, n)
    PROVE  n \in getEdges(j, v)
  <1> DEFINE S(c) == SignAt(j, v, c)
  <1>1. \A e \in EdgeIndex :
            n \in NeighbourMap[e + 1] /\ n \notin getEdges(j, v)
                => S(EdgeDecals[e + 1][1]) = S(EdgeDecals[e + 1][2])
    BY DEF getEdges, Differs
  <1>2. \E c, d \in FaceCorners[n] : S(c) # S(d)
    BY DEF FaceCrossed
  <1> HIDE DEF S
  <1>3. CASE n = 0
    <2>1. n \notin getEdges(j, v) => S(0) = S(1) /\ S(4) = S(5) /\ S(0) = S(4) /\ S(1) = S(5)
      BY <1>1, <1>3 DEF EdgeIndex, NeighbourMap, EdgeDecals
    <2>2. QED
      BY <2>1, <1>2, <1>3, Faces
  <1>4. CASE n = 1
    <2>1. n \notin getEdges(j, v) => S(1) = S(2) /\ S(5) = S(6) /\ S(1) = S(5) /\ S(2) = S(6)
      BY <1>1, <1>4 DEF EdgeIndex, NeighbourMap, EdgeDecals
    <2>2. QED
      BY <2>1, <1>2, <1>4, Faces
  <1>5. CASE n = 2
    <2>1. n \notin getEdges(j, v) => S(2) = S(3) /\ S(6) = S(7) /\ S(2) = S(6) /\ S(3) = S(7)
      BY <1>1, <1>5 DEF EdgeIndex, NeighbourMap, EdgeDecals
    <2>2. QED
      BY <2>1, <1>2, <1>5, Faces
  <1>6. CASE n = 3
    <2>1. n \notin getEdges(j, v) => S(3) = S(0) /\ S(7) = S(0) /\ S(0) = S(4) /\ S(3) = S(7)
      BY <1>1, <1>6 DEF EdgeIndex, NeighbourMap, EdgeDecals
    <2>2. QED
      BY <2>1, <1>2, <1>6, Faces
  <1>7. CASE n = 4
    <2>1. n \notin getEdges(j, v) => S(4) = S(5) /\ S(5) = S(6) /\ S(6) = S(7)
      BY <1>1, <1>7 DEF EdgeIndex, NeighbourMap, EdgeDecals
    <2>2. QED
      BY <2>1, <1>2, <1>7, Faces
  <1>8. CASE n = 5
    <2>1. n \notin getEdges(j, v) => S(0) = S(1) /\ S(1) = S(2) /\ S(2) = S(3)
      BY <1>1, <1>8 DEF EdgeIndex, NeighbourMap, EdgeDecals
    <2>2. QED
      BY <2>1, <1>2, <1>8, Faces
  <1>9. QED
    BY <1>3, <1>4, <1>5, <1>6, <1>7, <1>8 DEF NeighbourIndex

(* A surface that crosses a face passes through the voxel beyond it.       *)
LEMMA CrossedFaceIsShared ==
    ASSUME NEW j, NEW v \in Cell, NEW n \in NeighbourIndex, FaceCrossed(j, v, n)
    PROVE  containsSurface(j, Neighbour(v, n))
  <1>1. PICK c \in FaceCorners[n], d \in FaceCorners[n] : SignAt(j, v, c) # SignAt(j, v, d)
    BY DEF FaceCrossed
  <1>2. PICK b \in CornerIndex : Corner(v, c) = Corner(Neighbour(v, n), b)
    BY FaceIsShared
  <1>3. PICK e \in CornerIndex : Corner(v, d) = Corner(Neighbour(v, n), e)
    BY FaceIsShared
  <1>4. SignAt(j, Neighbour(v, n), b) # SignAt(j, Neighbour(v, n), e)
    BY <1>1, <1>2, <1>3 DEF SignAt
  <1>5. QED
    BY <1>4, NoEdgeNoChange

-----------------------------------------------------------------------------
(* Types.                                                                  *)

LEMMA JobType ==
    ASSUME job \in DOMAIN Jobs
    PROVE  /\ Jobs[job] \in Job
           /\ Seeds \in [SeedIds -> Cell]
  <1>1. Jobs[job] \in Job
    BY JobsAssumption
  <1>2. Jobs[job].seeds \in Seq(Cell)
    BY <1>1 DEF Job
  <1>3. QED
    BY <1>1, <1>2 DEF Seeds, SeedIds

LEMMA StepType ==
    ASSUME job \in DOMAIN Jobs, NEW v \in Cell
    PROVE  \E d \in Direction : Step(v) = Plus(v, d)
  <1>1. Jobs[job].grad[v] \in Direction
    BY JobType DEF Job
  <1>2. Minus(Jobs[job].grad[v]) \in Direction
    BY <1>1 DEF Direction, Minus
  <1>3. QED
    BY <1>1, <1>2 DEF Step

LEMMA BagAddType ==
    ASSUME NEW B, B \in [DOMAIN B -> Nat], NEW x
    PROVE  /\ DOMAIN BagAdd(B, x) = DOMAIN B \cup {x}
           /\ BagAdd(B, x) \in [DOMAIN B \cup {x} -> Nat]
           /\ \A y \in DOMAIN B : y # x => BagAdd(B, x)[y] = B[y]
           /\ x \notin DOMAIN B => BagAdd(B, x)[x] = 1
  BY DEF BagAdd

LEMMA InitType == Init => TypeOK
  <1> SUFFICES ASSUME Init PROVE TypeOK
    OBVIOUS
  <1> USE DEF Init
  <1>1. task \in [SeedIds -> TaskPc] /\ phase \in Phase
    BY DEF TaskPc, Phase
  <1>2. at \in [SeedIds -> VoxelId]
    <2>1. Cell \subseteq VoxelId
      BY GridSizeAssumption DEF Cell, VoxelId, Coord
    <2>2. QED
      BY <2>1, JobType
  <1>3. current \in Cell
    BY GridSizeAssumption DEF Cell
  <1>4. QED
    BY <1>1, <1>2, <1>3 DEF TypeOK, Recorded

LEMMA StepTypeOK == MarchInv /\ [Next]_vars => TypeOK'
  <1> SUFFICES ASSUME TypeOK, SeedsInv, [Next]_vars PROVE TypeOK'
    BY DEF MarchInv
  <1> USE DEF TypeOK, Phase, TaskPc, Recorded, SeedIds, Seeds
  <1>1. ASSUME NEW i \in SeedIds, CheckSeed(i) PROVE TypeOK'
    BY <1>1 DEF CheckSeed
  <1>2. ASSUME NEW i \in SeedIds, Walk(i) PROVE TypeOK'
    <2>1. at[i] \in Cell
      BY <1>2 DEF Walk, SeedsInv
    <2>2. Step(at[i]) \in VoxelId
      BY <2>1, StepType, StepIsId DEF Direction
    <2>3. QED
      BY <1>2, <2>2 DEF Walk
  <1>3. ASSUME NEW i \in SeedIds, SeedThrows(i) PROVE TypeOK'
    BY <1>3 DEF SeedThrows
  <1>4. ASSUME NEW i \in SeedIds, PushSeed(i) PROVE TypeOK'
    <2>1. at[i] \in Cell
      BY <1>4 DEF PushSeed, SeedsInv
    <2>2. QED
      BY <1>4, <2>1 DEF PushSeed
  <1>5. CASE JoinSeeds
    BY <1>5 DEF JoinSeeds
  <1>6. ASSUME NEW t \in frontier, PopSeen(t) PROVE TypeOK'
    BY <1>6 DEF PopSeen
  <1>7. ASSUME NEW t \in frontier, PopEmpty(t) PROVE TypeOK'
    BY <1>7 DEF PopEmpty, Visit, SeenAfter
  <1>8. ASSUME NEW t \in frontier, PopSurface(t) PROVE TypeOK'
    BY <1>8, getEdgesType DEF PopSurface, Visit, SeenAfter
  <1>9. ASSUME NEW t \in frontier, PopThrows(t) PROVE TypeOK'
    BY <1>9 DEF PopThrows, Visit, SeenAfter
  <1>10. ASSUME NEW n \in NeighbourIndex, PushNeighbour(n) PROVE TypeOK'
    <2>1. validVoxel(Neighbour(current, n)) => Neighbour(current, n) \in Cell
      BY NeighbourIsId, ValidIsCell
    <2>2. frontier' \subseteq Nat \X Cell
      BY <1>10, <2>1 DEF PushNeighbour
    <2>3. QED
      BY <1>10, <2>2 DEF PushNeighbour
  <1>11. CASE Record
    <2>1. mVoxels \in [DOMAIN mVoxels -> Nat]
      OBVIOUS
    <2>2. /\ DOMAIN mVoxels' = DOMAIN mVoxels \cup {current}
          /\ mVoxels' \in [DOMAIN mVoxels' -> Nat]
      BY <1>11, <2>1, BagAddType DEF Record
    <2>3. QED
      BY <1>11, <2>2 DEF Record
  <1>12. CASE Finish
    BY <1>12 DEF Finish
  <1>13. CASE UNCHANGED vars
    BY <1>13 DEF vars
  <1>14. QED
    BY <1>1, <1>2, <1>3, <1>4, <1>5, <1>6, <1>7, <1>8, <1>9, <1>10, <1>11, <1>12, <1>13
    DEF Next, SeedTask, MainThread, Pop, Expand, Ended

-----------------------------------------------------------------------------
(* The seed tasks.                                                         *)

(* A pop keeps its voxel among those seen or waiting. *)
LEMMA VisitKeeps ==
    ASSUME NEW t \in frontier, Visit(t)
    PROVE  /\ seen \cup Waiting \subseteq seen' \cup Waiting'
           /\ Waiting' \subseteq Waiting
           /\ seen' = seen \cup {t[2]}
           /\ t[2] \in Waiting
  BY DEF Visit, Waiting, SeenAfter

LEMMA InitSeeds == Init => SeedsInv
  <1> SUFFICES ASSUME Init PROVE SeedsInv
    OBVIOUS
  <1>1. \A i \in SeedIds : task[i] = "check" /\ at[i] \in Cell
    BY JobType DEF Init
  <1>2. QED
    BY <1>1 DEF Init, SeedsInv, Recorded

LEMMA StepSeeds == MarchInv /\ [Next]_vars => SeedsInv'
  <1> SUFFICES ASSUME TypeOK, SeedsInv, [Next]_vars PROVE SeedsInv'
    BY DEF MarchInv
  <1>t. /\ task \in [SeedIds -> TaskPc]
        /\ at \in [SeedIds -> VoxelId]
    BY DEF TypeOK
  <1> USE DEF SeedsInv, SeedIds, Seeds, Recorded, SeedsJoined
  <1>1. ASSUME NEW i \in SeedIds, CheckSeed(i) PROVE SeedsInv'
    BY <1>t, <1>1 DEF CheckSeed, Waiting, containsSurface, getEdges
  <1>2. ASSUME NEW i \in SeedIds, Walk(i) PROVE SeedsInv'
    <2>1. at'[i] \in VoxelId
      <3>1. at[i] \in Cell
        BY <1>2 DEF Walk
      <3>2. Step(at[i]) \in VoxelId
        BY <3>1, StepType, StepIsId DEF Direction, TypeOK
      <3>3. QED
        BY <1>2, <3>2, <1>t DEF Walk
    <2>2. validVoxel(at'[i]) => at'[i] \in Cell
      BY <2>1, ValidIsCell
    <2>3. \A k \in SeedIds : k # i => at'[k] = at[k] /\ task'[k] = task[k]
      BY <1>2, <1>t DEF Walk
    <2>4. \/ task'[i] = "dropped"
          \/ /\ at'[i] \in Cell
             /\ task'[i] = IF containsSurface(job, at'[i]) THEN "push" ELSE "walk"
      BY <1>2, <1>t, <2>2 DEF Walk
    <2>5. /\ job' = job /\ phase = "seeding" /\ phase' = phase /\ seen' = seen /\ frontier' = frontier
          /\ mVoxels' = mVoxels
      BY <1>2 DEF Walk
    <2>6. \A k \in SeedIds :
            /\ task'[k] # "dropped" => at'[k] \in Cell
            /\ task'[k] = "walk" => ~containsSurface(job, at'[k])
            /\ task'[k] \in {"push", "pushed"} => containsSurface(job, at'[k])
            /\ task'[k] = "pushed" => at'[k] \in seen \cup Waiting
      BY <2>3, <2>4
    <2>7. QED
      BY <2>5, <2>6 DEF Waiting, containsSurface, getEdges
  <1>3. ASSUME NEW i \in SeedIds, SeedThrows(i) PROVE SeedsInv'
    BY <1>3 DEF SeedThrows, Waiting
  <1>4. ASSUME NEW i \in SeedIds, PushSeed(i) PROVE SeedsInv'
    <2>1. at[i] \in Waiting' /\ Waiting \subseteq Waiting'
      <3>1. frontier' = frontier \cup { <<0, at[i]>> }
        BY <1>4 DEF PushSeed
      <3>2. << 0, at[i] >>[2] = at[i]
        OBVIOUS
      <3>3. QED
        BY <3>1, <3>2 DEF Waiting
    <2>2. QED
      BY <1>t, <1>4, <2>1 DEF PushSeed
  <1>5. CASE JoinSeeds
    BY <1>5 DEF JoinSeeds, Waiting
  <1>6. ASSUME NEW t \in frontier, PopSeen(t) PROVE SeedsInv'
    BY <1>6 DEF PopSeen, Waiting
  <1>7. ASSUME NEW t \in frontier, PopEmpty(t) PROVE SeedsInv'
    <2>1. phase = "marching"
      BY <1>7 DEF PopEmpty, Visit
    <2>2. QED
      BY <1>7, <2>1, VisitKeeps DEF PopEmpty
  <1>8. ASSUME NEW t \in frontier, PopSurface(t) PROVE SeedsInv'
    <2>1. phase = "marching"
      BY <1>8 DEF PopSurface, Visit
    <2>2. QED
      BY <1>8, <2>1, VisitKeeps DEF PopSurface
  <1>9. ASSUME NEW t \in frontier, PopThrows(t) PROVE SeedsInv'
    <2>1. phase = "marching"
      BY <1>9 DEF PopThrows, Visit
    <2>2. QED
      BY <1>9, <2>1, VisitKeeps DEF PopThrows
  <1>10. ASSUME NEW n \in NeighbourIndex, PushNeighbour(n) PROVE SeedsInv'
    <2>1. Waiting \subseteq Waiting'
      BY <1>10 DEF PushNeighbour, Waiting
    <2>2. QED
      BY <1>10, <2>1 DEF PushNeighbour
  <1>11. CASE Record
    BY <1>11 DEF Record, Waiting
  <1>12. CASE Finish
    BY <1>12 DEF Finish, Waiting
  <1>13. CASE UNCHANGED vars
    BY <1>13 DEF vars, Waiting
  <1>14. QED
    BY <1>1, <1>2, <1>3, <1>4, <1>5, <1>6, <1>7, <1>8, <1>9, <1>10, <1>11, <1>12, <1>13
    DEF Next, SeedTask, MainThread, Pop, Expand, Ended

-----------------------------------------------------------------------------
(* Recording.                                                              *)

LEMMA InitRecord == Init => RecordInv
  BY DEF Init, RecordInv, NoRepeatedVoxels, Expanding, Recorded

LEMMA StepRecord == MarchInv /\ [Next]_vars => RecordInv'
  <1> SUFFICES ASSUME TypeOK, SeedsInv, RecordInv, [Next]_vars PROVE RecordInv'
    BY DEF MarchInv
  <1> USE DEF RecordInv, NoRepeatedVoxels, Recorded, Expanding
  <1>s. ASSUME NEW v, job' = job PROVE containsSurface(job, v)' <=> containsSurface(job, v)
    BY <1>s DEF containsSurface, getEdges
  <1>1. ASSUME NEW i \in SeedIds, CheckSeed(i) PROVE RecordInv'
    BY <1>1 DEF CheckSeed
  <1>2. ASSUME NEW i \in SeedIds, Walk(i) PROVE RecordInv'
    BY <1>2 DEF Walk
  <1>3. ASSUME NEW i \in SeedIds, SeedThrows(i) PROVE RecordInv'
    BY <1>3 DEF SeedThrows
  <1>4. ASSUME NEW i \in SeedIds, PushSeed(i) PROVE RecordInv'
    BY <1>4 DEF PushSeed
  <1>5. CASE JoinSeeds
    BY <1>5 DEF JoinSeeds
  <1>6. ASSUME NEW t \in frontier, PopSeen(t) PROVE RecordInv'
    BY <1>6 DEF PopSeen
  <1>7. ASSUME NEW t \in frontier, PopEmpty(t) PROVE RecordInv'
    BY <1>7, VisitKeeps DEF PopEmpty, Visit
  <1>8. ASSUME NEW t \in frontier, PopSurface(t) PROVE RecordInv'
    BY <1>8, VisitKeeps DEF PopSurface, Visit
  <1>9. ASSUME NEW t \in frontier, PopThrows(t) PROVE RecordInv'
    BY <1>9, VisitKeeps DEF PopThrows, Visit
  <1>10. ASSUME NEW n \in NeighbourIndex, PushNeighbour(n) PROVE RecordInv'
    BY <1>10 DEF PushNeighbour
  <1>11. CASE Record
    <2>1. mVoxels \in [DOMAIN mVoxels -> Nat]
      BY DEF TypeOK
    <2>2. mVoxels' = BagAdd(mVoxels, current) /\ current \notin DOMAIN mVoxels
      BY <1>11 DEF Record
    <2>3. /\ DOMAIN mVoxels' = DOMAIN mVoxels \cup {current}
          /\ \A v \in DOMAIN mVoxels' : mVoxels'[v] = 1
      <3>1. \A v \in DOMAIN mVoxels : mVoxels[v] = 1
        OBVIOUS
      <3>2. /\ DOMAIN BagAdd(mVoxels, current) = DOMAIN mVoxels \cup {current}
            /\ \A v \in DOMAIN mVoxels : v # current => BagAdd(mVoxels, current)[v] = mVoxels[v]
            /\ BagAdd(mVoxels, current)[current] = 1
        BY <2>1, <2>2, BagAddType
      <3>3. QED
        BY <2>2, <3>1, <3>2
    <2>4. QED
      BY <1>11, <2>3 DEF Record
  <1>12. CASE Finish
    BY <1>12 DEF Finish
  <1>13. CASE UNCHANGED vars
    BY <1>13 DEF vars
  <1>14. QED
    BY <1>1, <1>2, <1>3, <1>4, <1>5, <1>6, <1>7, <1>8, <1>9, <1>10, <1>11, <1>12, <1>13
    DEF Next, SeedTask, MainThread, Pop, Expand, Ended

-----------------------------------------------------------------------------
(* Crossings.                                                              *)

LEMMA InitCrossing == Init => CrossingInv
  BY DEF Init, CrossingInv, NoCrossingLost, Expanding, Recorded

(* As long as what has been seen or waits is kept, so are the crossings.   *)
LEMMA CrossingsKept ==
    ASSUME CrossingInv, job' = job, mVoxels' = mVoxels,
           seen \cup Waiting \subseteq seen' \cup Waiting'
    PROVE  NoCrossingLost'
  <1> SUFFICES ASSUME NEW v \in Recorded, NEW n \in NeighbourIndex,
                      validVoxel(Neighbour(v, n)), FaceCrossed(job, v, n)
               PROVE  Neighbour(v, n) \in seen' \cup Waiting'
    BY DEF NoCrossingLost, Recorded, Waiting, FaceCrossed, SignAt
  <1>1. Neighbour(v, n) \in seen \cup Waiting
    BY DEF CrossingInv, NoCrossingLost, Waiting
  <1>2. QED
    BY <1>1

LEMMA StepCrossing == MarchInv /\ [Next]_vars => CrossingInv'
  <1> SUFFICES ASSUME TypeOK, SeedsInv, RecordInv, CrossingInv, [Next]_vars PROVE CrossingInv'
    BY DEF MarchInv
  <1> DEFINE Followed(v) ==
               \A n \in NeighbourIndex :
                  validVoxel(Neighbour(v, n)) /\ FaceCrossed(job, v, n) =>
                      n \in pending \/ Neighbour(v, n) \in seen \cup Waiting
  <1>e. ASSUME NoCrossingLost', phase' # "expanding", phase' = "done" => frontier' = {}
        PROVE  CrossingInv'
    BY <1>e DEF CrossingInv, Expanding
  <1>1. ASSUME NEW i \in SeedIds, CheckSeed(i) PROVE CrossingInv'
    <2>1. NoCrossingLost'
      BY <1>1, CrossingsKept DEF CheckSeed, Waiting
    <2>2. QED
      BY <1>1, <1>e, <2>1 DEF CheckSeed
  <1>2. ASSUME NEW i \in SeedIds, Walk(i) PROVE CrossingInv'
    <2>1. NoCrossingLost'
      BY <1>2, CrossingsKept DEF Walk, Waiting
    <2>2. QED
      BY <1>2, <1>e, <2>1 DEF Walk
  <1>3. ASSUME NEW i \in SeedIds, SeedThrows(i) PROVE CrossingInv'
    <2>1. NoCrossingLost'
      BY <1>3, CrossingsKept DEF SeedThrows, Waiting
    <2>2. QED
      BY <1>3, <1>e, <2>1 DEF SeedThrows
  <1>4. ASSUME NEW i \in SeedIds, PushSeed(i) PROVE CrossingInv'
    <2>1. NoCrossingLost'
      BY <1>4, CrossingsKept DEF PushSeed, Waiting
    <2>2. QED
      BY <1>4, <1>e, <2>1 DEF PushSeed
  <1>5. CASE JoinSeeds
    <2>1. NoCrossingLost'
      BY <1>5, CrossingsKept DEF JoinSeeds, Waiting
    <2>2. QED
      BY <1>5, <1>e, <2>1 DEF JoinSeeds
  <1>6. ASSUME NEW t \in frontier, PopSeen(t) PROVE CrossingInv'
    <2>1. seen \cup Waiting \subseteq seen' \cup Waiting'
      BY <1>6 DEF PopSeen, Waiting
    <2>2. NoCrossingLost'
      BY <1>6, <2>1, CrossingsKept DEF PopSeen
    <2>3. QED
      BY <1>6, <1>e, <2>2 DEF PopSeen
  <1>7. ASSUME NEW t \in frontier, PopEmpty(t) PROVE CrossingInv'
    <2>1. NoCrossingLost'
      BY <1>7, VisitKeeps, CrossingsKept DEF PopEmpty
    <2>2. QED
      BY <1>7, <1>e, <2>1 DEF PopEmpty, Visit
  <1>8. ASSUME NEW t \in frontier, PopSurface(t) PROVE CrossingInv'
    <2>1. NoCrossingLost'
      BY <1>8, VisitKeeps, CrossingsKept DEF PopSurface
    <2>2. \A n \in NeighbourIndex : FaceCrossed(job', current', n) => n \in pending'
      BY <1>8, CrossedFaceIsFollowed DEF PopSurface
    <2>3. \A v \in Expanding' : v = current'
      BY DEF Expanding
    <2>4. phase' = "expanding"
      BY <1>8 DEF PopSurface
    <2>5. \A v, n : FaceCrossed(job, v, n)' <=> FaceCrossed(job', v, n)
      BY DEF FaceCrossed, SignAt
    <2>6. QED
      BY <2>1, <2>2, <2>3, <2>4, <2>5 DEF CrossingInv
  <1>9. ASSUME NEW t \in frontier, PopThrows(t) PROVE CrossingInv'
    <2>1. NoCrossingLost'
      BY <1>9, VisitKeeps, CrossingsKept DEF PopThrows
    <2>2. QED
      BY <1>9, <1>e, <2>1 DEF PopThrows
  <1>10. ASSUME NEW n \in NeighbourIndex, PushNeighbour(n) PROVE CrossingInv'
    <2>1. /\ frontier \subseteq frontier'
          /\ validVoxel(Neighbour(current, n)) => << batch, Neighbour(current, n) >> \in frontier'
      BY <1>10 DEF PushNeighbour
    <2>2. << batch, Neighbour(current, n) >>[2] = Neighbour(current, n)
      OBVIOUS
    <2>3. /\ Waiting \subseteq Waiting'
          /\ validVoxel(Neighbour(current, n)) => Neighbour(current, n) \in Waiting'
      BY <2>1, <2>2 DEF Waiting
    <2>4. NoCrossingLost'
      BY <1>10, <2>3, CrossingsKept DEF PushNeighbour
    <2>5. /\ phase = "expanding" /\ phase' = "expanding" /\ current' = current
          /\ job' = job /\ seen' = seen /\ pending' = pending \ {n}
      BY <1>10 DEF PushNeighbour
    <2>6. Followed(current)
      BY <2>5 DEF CrossingInv, Expanding
    <2>7. Followed(current)'
      <3>1. \A v, m : FaceCrossed(job, v, m)' <=> FaceCrossed(job, v, m)
        BY <2>5 DEF FaceCrossed, SignAt
      <3>2. QED
        BY <2>3, <2>5, <2>6, <3>1
    <2>8. QED
      BY <2>4, <2>5, <2>7 DEF CrossingInv, Expanding
  <1>11. CASE Record
    <2>1. Recorded' = Recorded \cup {current}
      <3>1. mVoxels \in [DOMAIN mVoxels -> Nat]
        BY DEF TypeOK, Recorded
      <3>2. QED
        BY <1>11, <3>1, BagAddType DEF Record, Recorded
    <2>2. /\ phase = "expanding" /\ phase' = "marching" /\ pending = {}
          /\ job' = job /\ seen' = seen /\ frontier' = frontier
      BY <1>11 DEF Record
    <2>3. Followed(current)
      BY <2>2 DEF CrossingInv, Expanding
    <2>4. NoCrossingLost'
      <3>1. \A v, m : FaceCrossed(job, v, m)' <=> FaceCrossed(job, v, m)
        BY <2>2 DEF FaceCrossed, SignAt
      <3>2. \A v \in Recorded', m \in NeighbourIndex :
              validVoxel(Neighbour(v, m)) /\ FaceCrossed(job, v, m) =>
                  Neighbour(v, m) \in seen \/ \E t \in frontier : t[2] = Neighbour(v, m)
        BY <2>1, <2>2, <2>3 DEF CrossingInv, NoCrossingLost, Waiting
      <3>3. QED
        BY <2>2, <3>1, <3>2 DEF NoCrossingLost
    <2>5. QED
      BY <1>e, <2>2, <2>4
  <1>12. CASE Finish
    <2>1. NoCrossingLost'
      BY <1>12, CrossingsKept DEF Finish, Waiting
    <2>2. QED
      BY <1>12, <1>e, <2>1 DEF Finish
  <1>13. CASE UNCHANGED vars
    BY <1>13 DEF vars, CrossingInv, NoCrossingLost, Expanding, Recorded, Waiting, FaceCrossed, SignAt
  <1>14. QED
    BY <1>1, <1>2, <1>3, <1>4, <1>5, <1>6, <1>7, <1>8, <1>9, <1>10, <1>11, <1>12, <1>13
    DEF Next, SeedTask, MainThread, Pop, Expand, Ended

-----------------------------------------------------------------------------
(* Reachability.                                                           *)

LEMMA InitReach == Init => ReachInv
  BY DEF Init, ReachInv, Waiting, Expanding

(* While a seed task takes a step, no task's pushed voxel is forgotten.    *)
LEMMA StartsKept ==
    ASSUME TypeOK, NEW i \in SeedIds, job' = job, task[i] # "pushed",
           \/ UNCHANGED <<task, at>>
           \/ /\ task' = [task EXCEPT ![i] = task'[i]]
              /\ at' = [at EXCEPT ![i] = at'[i]]
    PROVE  /\ Starts \subseteq Starts'
           /\ task'[i] # "pushed" => Starts' = Starts
           /\ task'[i] = "pushed" => Starts' = Starts \cup {at'[i]}
  <1>t. task \in [SeedIds -> TaskPc] /\ at \in [SeedIds -> VoxelId] /\ SeedIds' = SeedIds
    BY DEF TypeOK, SeedIds, Seeds
  <1>1. \A k \in SeedIds : k # i => task'[k] = task[k] /\ at'[k] = at[k]
    BY <1>t
  <1>2. QED
    BY <1>t, <1>1 DEF Starts

LEMMA StepReach == MarchInv /\ [Next]_vars => ReachInv'
  <1> SUFFICES ASSUME TypeOK, SeedsInv, RecordInv, ReachInv, [Next]_vars PROVE ReachInv'
    BY DEF MarchInv
  <1>t. task \in [SeedIds -> TaskPc] /\ at \in [SeedIds -> VoxelId]
    BY DEF TypeOK
  <1>n. \A v, w : Near(v, w)' <=> Near(v, w)
    BY DEF Near
  <1>u. ASSUME UNCHANGED <<task, at, job>> PROVE Starts' = Starts
    BY <1>u DEF Starts, SeedIds, Seeds
  <1> USE DEF ReachInv, Expanding, Recorded
  <1>1. ASSUME NEW i \in SeedIds, CheckSeed(i) PROVE ReachInv'
    <2>1. Starts \subseteq Starts'
      BY <1>t, <1>1, StartsKept DEF CheckSeed
    <2>2. QED
      BY <1>1, <1>n, <2>1 DEF CheckSeed, Waiting
  <1>2. ASSUME NEW i \in SeedIds, Walk(i) PROVE ReachInv'
    <2>1. Starts \subseteq Starts'
      BY <1>t, <1>2, StartsKept DEF Walk
    <2>2. QED
      BY <1>2, <1>n, <2>1 DEF Walk, Waiting
  <1>3. ASSUME NEW i \in SeedIds, SeedThrows(i) PROVE ReachInv'
    BY <1>3, <1>n, <1>u DEF SeedThrows, Waiting
  <1>4. ASSUME NEW i \in SeedIds, PushSeed(i) PROVE ReachInv'
    <2>1. Starts' = Starts \cup {at[i]}
      BY <1>t, <1>4, StartsKept DEF PushSeed
    <2>2. Waiting' \subseteq Waiting \cup {at[i]}
      BY <1>4 DEF PushSeed, Waiting
    <2>3. QED
      BY <1>4, <1>n, <2>1, <2>2 DEF PushSeed
  <1>5. CASE JoinSeeds
    BY <1>5, <1>n, <1>u DEF JoinSeeds, Waiting
  <1>6. ASSUME NEW t \in frontier, PopSeen(t) PROVE ReachInv'
    <2>1. Waiting' \subseteq Waiting
      BY <1>6 DEF PopSeen, Waiting
    <2>2. QED
      BY <1>6, <1>n, <1>u, <2>1 DEF PopSeen
  <1>7. ASSUME NEW t \in frontier, PopEmpty(t) PROVE ReachInv'
    BY <1>7, <1>n, <1>u, VisitKeeps DEF PopEmpty
  <1>8. ASSUME NEW t \in frontier, PopSurface(t) PROVE ReachInv'
    <2>1. phase = "marching" /\ phase' = "expanding" /\ current' = t[2] /\ Visit(t)
          /\ UNCHANGED <<job, task, at, mVoxels>>
      BY <1>8 DEF PopSurface, Visit
    <2>2. Waiting' \subseteq Waiting /\ t[2] \in Waiting
      BY <2>1, VisitKeeps
    <2>3. \A w \in Waiting : w \in Starts \/ \E f \in Recorded : Near(f, w)
      BY <2>1
    <2>4. Starts' = Starts /\ Recorded' = Recorded
      BY <2>1, <1>u
    <2>5. QED
      BY <1>n, <2>1, <2>2, <2>3, <2>4
  <1>9. ASSUME NEW t \in frontier, PopThrows(t) PROVE ReachInv'
    BY <1>9, <1>n, <1>u, VisitKeeps DEF PopThrows, Visit
  <1>10. ASSUME NEW n \in NeighbourIndex, PushNeighbour(n) PROVE ReachInv'
    <2>1. \A w \in Waiting' : w \in Waiting \/ (validVoxel(w) /\ w = Neighbour(current, n))
      BY <1>10 DEF PushNeighbour, Waiting
    <2>2. \A w \in Waiting' : w \in Waiting \/ Near(current, w)
      BY <2>1 DEF Near
    <2>3. phase = "expanding" /\ phase' = "expanding" /\ current' = current
          /\ UNCHANGED <<job, task, at, mVoxels>>
      BY <1>10 DEF PushNeighbour
    <2>4. QED
      BY <1>n, <1>u, <2>2, <2>3
  <1>11. CASE Record
    <2>1. Recorded' = Recorded \cup {current}
      BY <1>11, BagAddType DEF Record, TypeOK
    <2>2. QED
      BY <1>11, <1>n, <1>u, <2>1 DEF Record, Waiting
  <1>12. CASE Finish
    BY <1>12, <1>n, <1>u DEF Finish, Waiting
  <1>13. CASE UNCHANGED vars
    BY <1>13, <1>n, <1>u DEF vars, Waiting
  <1>14. QED
    BY <1>1, <1>2, <1>3, <1>4, <1>5, <1>6, <1>7, <1>8, <1>9, <1>10, <1>11, <1>12, <1>13
    DEF Next, SeedTask, MainThread, Pop, Expand, Ended

-----------------------------------------------------------------------------
(* The invariant, for every grid size, field and list of seeds.            *)
THEOREM Invariant == Spec => []MarchInv
  <1>1. Init => MarchInv
    BY InitType, InitSeeds, InitRecord, InitCrossing, InitReach DEF MarchInv
  <1>2. MarchInv /\ [Next]_vars => MarchInv'
    BY StepTypeOK, StepSeeds, StepRecord, StepCrossing, StepReach DEF MarchInv
  <1>3. QED
    BY <1>1, <1>2, PTL DEF Spec

(* Every variable keeps its type: in particular no voxel outside the grid, *)
(* or further than one past its upper faces, is ever queued or recorded.   *)
THEOREM TypeCorrect == Spec => []TypeOK
  <1>1. MarchInv => TypeOK
    BY DEF MarchInv
  <1>2. QED
    BY <1>1, Invariant, PTL

(* The assertion of Bsoid::validateVoxels holds. *)
THEOREM NoRepeats == Spec => []NoRepeatedVoxels
  <1>1. MarchInv => NoRepeatedVoxels
    BY DEF MarchInv, RecordInv
  <1>2. QED
    BY <1>1, Invariant, PTL

(* Every recorded voxel has a sign change. *)
THEOREM RecordedOnSurface == Spec => []OnlySurface
  <1>1. MarchInv => OnlySurface
    BY DEF MarchInv, RecordInv, OnlySurface
  <1>2. QED
    BY <1>1, Invariant, PTL

(* No crossing out of a recorded voxel is lost on the way. *)
THEOREM CrossingsFollowed == Spec => []NoCrossingLost
  <1>1. MarchInv => NoCrossingLost
    BY DEF MarchInv, CrossingInv
  <1>2. QED
    BY <1>1, Invariant, PTL

(* When nothing waits any more, what the surface joins to a recorded voxel *)
(* is recorded, and so is every voxel a seed task pushed.                  *)
LEMMA ClosedWhenDrained ==
    ASSUME MarchInv, frontier = {}, phase \in {"marching", "done"}
    PROVE  /\ \A v \in Recorded, n \in NeighbourIndex :
                 validVoxel(Neighbour(v, n)) /\ FaceCrossed(job, v, n) =>
                     Neighbour(v, n) \in Recorded
           /\ \A i \in SeedIds : task[i] = "pushed" => at[i] \in Recorded
  <1>1. Waiting = {} /\ Expanding = {}
    BY DEF Waiting, Expanding
  <1>2. \A v \in seen : containsSurface(job, v) => v \in Recorded
    BY <1>1 DEF MarchInv, RecordInv
  <1>3. ASSUME NEW v \in Recorded, NEW n \in NeighbourIndex,
               validVoxel(Neighbour(v, n)), FaceCrossed(job, v, n)
        PROVE  Neighbour(v, n) \in Recorded
    <2>1. Neighbour(v, n) \in seen
      BY <1>3 DEF MarchInv, CrossingInv, NoCrossingLost
    <2>2. containsSurface(job, Neighbour(v, n))
      BY <1>3, CrossedFaceIsShared DEF MarchInv, TypeOK
    <2>3. QED
      BY <1>2, <2>1, <2>2
  <1>4. ASSUME NEW i \in SeedIds, task[i] = "pushed" PROVE at[i] \in Recorded
    BY <1>1, <1>2, <1>4 DEF MarchInv, SeedsInv
  <1>5. QED
    BY <1>3, <1>4

(* The march is complete when it returns. *)
LEMMA MarchCloses == MarchInv => NothingMissed /\ SeedsRecorded
  <1> SUFFICES ASSUME MarchInv, phase = "done" PROVE NothingMissed /\ SeedsRecorded
    BY DEF NothingMissed, SeedsRecorded
  <1>1. frontier = {}
    BY DEF MarchInv, CrossingInv
  <1>2. QED
    BY <1>1, ClosedWhenDrained DEF NothingMissed, SeedsRecorded

(* When the march returns, the surface leaves no recorded voxel through an *)
(* inner face into a voxel that is missing: the mesh has no hole there.    *)
THEOREM MarchIsComplete == Spec => []NothingMissed
  BY MarchCloses, Invariant, PTL

(* When the march returns, the voxel of every seed task that pushed one is *)
(* recorded: no part of the surface that has a seed is lost.               *)
THEOREM SeedsAreRecorded == Spec => []SeedsRecorded
  BY MarchCloses, Invariant, PTL

-----------------------------------------------------------------------------
(* The walk of findSurface.                                                *)

LEMMA JobConstant == [Next]_vars => job' = job
  BY DEF Next, SeedTask, MainThread, Pop, Expand, Ended, vars, CheckSeed, Walk, SeedThrows,
         PushSeed, JoinSeeds, PopSeen, PopEmpty, PopSurface, PopThrows, Visit,
         PushNeighbour, Record, Finish

(* A task that is walking before and after a step has stood still, or      *)
(* taken one step.                                                         *)
LEMMA WalkSteps ==
    ASSUME TypeOK, [Next]_vars, NEW i \in SeedIds, task[i] = "walk", task'[i] = "walk"
    PROVE  at'[i] = at[i] \/ at'[i] = Step(at[i])
  <1>t. task \in [SeedIds -> TaskPc] /\ at \in [SeedIds -> VoxelId]
    BY DEF TypeOK
  <1>1. ASSUME NEW k \in SeedIds, Walk(k) PROVE at'[i] = at[i] \/ at'[i] = Step(at[i])
    BY <1>t, <1>1 DEF Walk
  <1>2. ASSUME NEW k \in SeedIds, CheckSeed(k) \/ SeedThrows(k) \/ PushSeed(k) PROVE at' = at
    BY <1>2 DEF CheckSeed, SeedThrows, PushSeed
  <1>3. ASSUME MainThread \/ Ended \/ UNCHANGED vars PROVE at' = at
    BY <1>3 DEF MainThread, Pop, Expand, Ended, vars, JoinSeeds, PopSeen, PopEmpty,
                PopSurface, PopThrows, Visit, PushNeighbour, Record, Finish
  <1>4. QED
    BY <1>1, <1>2, <1>3 DEF Next, SeedTask

(* A walk never steps over the surface: it stays among voxels whose        *)
(* corners all have the sign of those it started from.                     *)
THEOREM WalkDoesNotTunnel == Spec => NoTunnelling
  <1>1. ASSUME MarchInv, MarchInv', [Next]_vars, NEW i \in SeedIds,
               task[i] = "walk", task'[i] = "walk",
               NEW c \in CornerIndex, NEW d \in CornerIndex
        PROVE  SignAt(job, at'[i], c) = SignAt(job, at[i], d)
    <2>1. job' = job /\ SeedIds' = SeedIds
      BY <1>1, JobConstant DEF SeedIds, Seeds
    <2>2. ~containsSurface(job, at[i]) /\ at[i] \in Cell
      BY <1>1 DEF MarchInv, SeedsInv
    <2>3. ~containsSurface(job, at'[i])
      <3>1. ~containsSurface(job', at'[i])
        BY <1>1, <2>1 DEF MarchInv, SeedsInv, containsSurface, getEdges
      <3>2. QED
        BY <2>1, <3>1
    <2>4. PICK b \in CornerIndex, e \in CornerIndex : Corner(at[i], b) = Corner(at'[i], e)
      <3>1. CASE at'[i] = at[i]
        BY <3>1, <1>1
      <3>2. CASE at'[i] = Step(at[i])
        <4>1. PICK m \in Direction : Step(at[i]) = Plus(at[i], m)
          BY <2>2, StepType, <1>1 DEF MarchInv, TypeOK
        <4>2. \E b, e \in CornerIndex : Corner(at[i], b) = Corner(Plus(at[i], m), e)
          BY <2>2, StepSharesCorner DEF Direction
        <4>3. QED
          BY <3>2, <4>1, <4>2
      <3>3. QED
        BY <1>1, <3>1, <3>2, WalkSteps DEF MarchInv
    <2>5. SignAt(job, at[i], b) = SignAt(job, at'[i], e)
      BY <2>4 DEF SignAt
    <2>6. QED
      BY <2>2, <2>3, <2>5, NoEdgeNoChange, <1>1
  <1>2. MarchInv /\ MarchInv' /\ [Next]_vars =>
          [\A i \in SeedIds : task[i] = "walk" /\ task'[i] = "walk" =>
              \A c, d \in CornerIndex : SignAt(job, at'[i], c) = SignAt(job, at[i], d)]_vars
    BY <1>1
  <1>3. QED
    BY <1>2, Invariant, PTL DEF Spec, NoTunnelling

-----------------------------------------------------------------------------
(* The abstract search.                                                    *)

LEMMA InitSearch == Init => Search!Init
  <1> SUFFICES ASSUME Init PROVE Search!Init
    OBVIOUS
  <1>1. Starts = {}
    BY DEF Init, Starts
  <1>2. QED
    BY <1>1 DEF Init, Search!Init, Recorded

LEMMA StepSearch == MarchInv /\ [Next]_vars => [Search!Next]_Search!vars
  <1> SUFFICES ASSUME MarchInv, [Next]_vars PROVE [Search!Next]_Search!vars
    OBVIOUS
  <1>t. TypeOK
    BY DEF MarchInv
  <1>u. ASSUME UNCHANGED <<task, at, job, mVoxels>>, phase' # "done", phase # "done"
        PROVE  UNCHANGED Search!vars
    BY <1>u DEF Search!vars, Starts, Recorded, SeedIds, Seeds
  <1>s. ASSUME NEW i \in SeedIds, Starts' = Starts, phase' = phase, job' = job, mVoxels' = mVoxels
        PROVE  UNCHANGED Search!vars
    BY <1>s DEF Search!vars, Recorded
  <1>1. ASSUME NEW i \in SeedIds, CheckSeed(i) PROVE UNCHANGED Search!vars
    <2>1. Starts' = Starts
      BY <1>t, <1>1, StartsKept DEF CheckSeed, TypeOK
    <2>2. QED
      BY <1>1, <1>s, <2>1 DEF CheckSeed
  <1>2. ASSUME NEW i \in SeedIds, Walk(i) PROVE UNCHANGED Search!vars
    <2>1. Starts' = Starts
      BY <1>t, <1>2, StartsKept DEF Walk, TypeOK
    <2>2. QED
      BY <1>2, <1>s, <2>1 DEF Walk
  <1>3. ASSUME NEW i \in SeedIds, SeedThrows(i) PROVE UNCHANGED Search!vars
    BY <1>3, <1>u DEF SeedThrows
  <1>4. ASSUME NEW i \in SeedIds, PushSeed(i) PROVE Search!Next
    <2>1. Starts' = Starts \cup {at[i]}
      BY <1>t, <1>4, StartsKept DEF PushSeed, TypeOK
    <2>2. at[i] \in Cell /\ containsSurface(job, at[i])
      BY <1>4 DEF PushSeed, MarchInv, SeedsInv
    <2>3. Search!Start(at[i])
      BY <1>4, <2>1, <2>2 DEF PushSeed, Search!Start, MarchInv, SeedsInv, Recorded
    <2>4. QED
      BY <2>2, <2>3 DEF Search!Next
  <1>f. ASSUME UNCHANGED <<task, at, job, mVoxels>>, phase # "done", phase' = "done",
               Starts \subseteq Recorded,
               \A v \in Recorded, n \in NeighbourIndex :
                  validVoxel(Neighbour(v, n)) /\ FaceCrossed(job, v, n) =>
                      Neighbour(v, n) \in Recorded
        PROVE  Search!Next
    <2>1. \A f \in Recorded, c \in Cell : Linked(job, f, c) => c \in Recorded
      BY <1>f DEF Linked
    <2>2. Search!Finish
      BY <1>f, <2>1 DEF Search!Finish, Starts, Recorded, SeedIds, Seeds
    <2>3. QED
      BY <2>2 DEF Search!Next
  <1>5. CASE JoinSeeds
    <2>1. CASE frontier = {}
      <3>1. phase = "seeding" /\ phase' = "done" /\ UNCHANGED <<task, at, job, mVoxels>>
        BY <1>5, <2>1 DEF JoinSeeds
      <3>2. Recorded = {} /\ seen = {} /\ Waiting = {}
        BY <2>1, <3>1 DEF MarchInv, SeedsInv, Waiting
      <3>3. Starts = {}
        BY <3>2 DEF MarchInv, SeedsInv, Starts
      <3>4. QED
        BY <3>1, <3>2, <3>3, <1>f
    <2>2. CASE frontier # {}
      BY <1>5, <2>2, <1>u DEF JoinSeeds
    <2>3. QED
      BY <2>1, <2>2
  <1>6. ASSUME NEW t \in frontier, PopSeen(t) PROVE UNCHANGED Search!vars
    BY <1>6, <1>u DEF PopSeen
  <1>7. ASSUME NEW t \in frontier, PopEmpty(t) PROVE UNCHANGED Search!vars
    BY <1>7, <1>u DEF PopEmpty, Visit
  <1>8. ASSUME NEW t \in frontier, PopSurface(t) PROVE UNCHANGED Search!vars
    BY <1>8, <1>u DEF PopSurface, Visit
  <1>9. ASSUME NEW t \in frontier, PopThrows(t) PROVE UNCHANGED Search!vars
    BY <1>9, <1>u DEF PopThrows, Visit
  <1>10. ASSUME NEW n \in NeighbourIndex, PushNeighbour(n) PROVE UNCHANGED Search!vars
    BY <1>10, <1>u DEF PushNeighbour
  <1>11. CASE Record
    <2>1. phase = "expanding" /\ phase' = "marching" /\ UNCHANGED <<task, at, job>>
      BY <1>11 DEF Record
    <2>2. Recorded' = Recorded \cup {current}
      BY <1>11, BagAddType DEF Record, MarchInv, TypeOK, Recorded
    <2>3. current \in Cell /\ current \notin Recorded /\ containsSurface(job, current)
      BY <2>1 DEF MarchInv, TypeOK, RecordInv, Expanding
    <2>4. current \in Starts \/ \E f \in Recorded : Near(f, current)
      BY <2>1 DEF MarchInv, ReachInv, Expanding
    <2>5. Starts' = Starts
      BY <2>1 DEF Starts, SeedIds, Seeds
    <2>6. Search!Find(current)
      BY <2>1, <2>2, <2>3, <2>4, <2>5 DEF Search!Find
    <2>7. QED
      BY <2>3, <2>6 DEF Search!Next
  <1>12. CASE Finish
    <2>1. phase = "marching" /\ phase' = "done" /\ frontier = {}
          /\ UNCHANGED <<task, at, job, mVoxels>>
      BY <1>12 DEF Finish
    <2>2. Starts \subseteq Recorded
      BY <2>1, ClosedWhenDrained DEF Starts
    <2>3. QED
      BY <1>f, <2>1, <2>2, ClosedWhenDrained
  <1>13. CASE UNCHANGED vars
    BY <1>13 DEF vars, Search!vars, Starts, Recorded, SeedIds, Seeds
  <1>14. QED
    BY <1>1, <1>2, <1>3, <1>4, <1>5, <1>6, <1>7, <1>8, <1>9, <1>10, <1>11, <1>12, <1>13
    DEF Next, SeedTask, MainThread, Pop, Expand, Ended

(* The march is an implementation of the abstract search. *)
THEOREM MarchIsSearch == Spec => ImplementsFloodFill
  <1>1. Init => Search!Init
    BY InitSearch
  <1>2. MarchInv /\ [Next]_vars => [Search!Next]_Search!vars
    BY StepSearch
  <1>3. QED
    BY <1>1, <1>2, Invariant, PTL DEF Spec, ImplementsFloodFill, Search!Spec
=============================================================================
