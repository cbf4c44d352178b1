---------------------------- MODULE SurfaceMarch -----------------------------
(***************************************************************************)
(* Bsoid::marchVoxelOnSurface: find every voxel the surface passes         *)
(* through, starting from the seeds of the blob tree.                      *)
(*                                                                         *)
(* One task per seed runs in parallel.  A task whose seed voxel has no     *)
(* sign change walks along the gradient until it meets the surface, or     *)
(* leaves the grid and is dropped.  The voxel a task ends on goes to the   *)
(* frontier.  Then the main thread pops voxels from the frontier; for each *)
(* new one with a sign change, one task per differing edge pushes the      *)
(* neighbours across it, and the voxel is recorded in mVoxels.             *)
(*                                                                         *)
(* The scalar field is its sign relative to the iso value at the grid      *)
(* points, so a job carries: sign, the points whose super-voxel exists     *)
(* (have), the sign of the gradient at the centre of each voxel (grad),    *)
(* whether the field there exceeds the iso value (above), and the seeds.   *)
(*                                                                         *)
(* The frontier is a queue into which the tasks of one parallel_for push   *)
(* in any order while the main thread waits.  So an entry is <<batch, id>> *)
(* with the number of its parallel_for, and a pop takes any entry of the   *)
(* oldest batch.  Copies of an id in one batch are one entry: all but the  *)
(* first popped are skipped by seenVoxel.                                  *)
(***************************************************************************)
EXTENDS VoxelGrid, BagsExt

CONSTANT Jobs                \* the fields and seed lists the march may be given,
                             \* by number

Direction == {-1, 0, 1} \X {-1, 0, 1} \X {-1, 0, 1}
Job == [ sign  : [PointId -> {-1, 0, 1}],
         have  : SUBSET PointId,
         grad  : [Cell -> Direction],
         above : SUBSET Cell,
         seeds : Seq(Cell) ]

ASSUME JobsAssumption == Jobs \in Seq(Job)

VARIABLES
    job,          \* the number of the field and seeds marched on
    phase,        \* where the main thread is
    task,         \* task[i]: where the task of seed i is
    at,           \* at[i]: the voxel that task has reached
    frontier,     \* the queue of voxels to visit
    batch,        \* parallel loops that have pushed to the frontier
    seen,         \* mSeenVoxels
    current,      \* the voxel being expanded
    pending,      \* neighbours of current still to be pushed
    mVoxels       \* the bag of voxels recorded

vars == <<job, phase, task, at, frontier, batch, seen, current, pending, mVoxels>>

Phase   == {"seeding", "marching", "expanding", "done", "threw"}
TaskPc  == {"check", "walk", "push", "pushed", "dropped"}
Seeds   == Jobs[job].seeds
SeedIds == DOMAIN Seeds

-----------------------------------------------------------------------------
(* findVoxelPoint throws (mSuperVoxels.at) at a point whose super-voxel    *)
(* has no field, and fillVoxel asks for every corner.                      *)
CanFill(v) == Corners(v) \subseteq Jobs[job].have

SignAt(j, v, c) == Jobs[j].sign[Corner(v, c)]

Differs(j, v, e) ==
    LET d == EdgeDecals[e + 1] IN SignAt(j, v, d[1]) # SignAt(j, v, d[2])

(* The neighbours across the edges whose ends have different signs. *)
getEdges(j, v) == UNION { NeighbourMap[e + 1] : e \in { f \in EdgeIndex : Differs(j, v, f) } }

containsSurface(j, v) == getEdges(j, v) # {}

(* A fault: the step is taken in the half cells of the centre's position.  *)
StepInHalfCells(v) == Plus(v, Plus(Jobs[job].grad[v], Jobs[job].grad[v]))

Step(v) == Plus(v, IF v \in Jobs[job].above THEN Minus(Jobs[job].grad[v]) ELSE Jobs[job].grad[v])

-----------------------------------------------------------------------------
Init ==
    /\ job \in DOMAIN Jobs
    /\ phase = "seeding"
    /\ task = [i \in SeedIds |-> "check"]
    /\ at = Seeds
    /\ frontier = {}
    /\ batch = 0
    /\ seen = {}
    /\ current = <<0, 0, 0>>
    /\ pending = {}
    /\ mVoxels = [v \in {} |-> 0]

(* The seed's own voxel is not checked against the grid. *)
CheckSeed(i) ==
    /\ phase = "seeding"
    /\ task[i] = "check"
    /\ CanFill(at[i])
    /\ task' = [task EXCEPT ![i] = IF containsSurface(job, at[i]) THEN "push" ELSE "walk"]
    /\ UNCHANGED <<job, phase, at, frontier, batch, seen, current, pending, mVoxels>>

(* One round of findSurface. *)
Walk(i) ==
    /\ phase = "seeding"
    /\ task[i] = "walk"
    /\ at' = [at EXCEPT ![i] = Step(@)]
    /\ \/ /\ ~validVoxel(at'[i])
          /\ task' = [task EXCEPT ![i] = "dropped"]
       \/ /\ validVoxel(at'[i])
          /\ CanFill(at'[i])
          /\ task' = [task EXCEPT ![i] = IF containsSurface(job, at'[i]) THEN "push" ELSE "walk"]
    /\ UNCHANGED <<job, phase, frontier, batch, seen, current, pending, mVoxels>>

(* A seed task throws: the parallel_for rethrows once its tasks stop. *)
SeedThrows(i) ==
    /\ phase = "seeding"
    /\ \/ /\ task[i] = "check"
          /\ ~CanFill(at[i])
       \/ /\ task[i] = "walk"
          /\ validVoxel(Step(at[i]))
          /\ ~CanFill(Step(at[i]))
    /\ phase' = "threw"
    /\ UNCHANGED <<job, task, at, frontier, batch, seen, current, pending, mVoxels>>

(* A fault: the task marks the voxel it pushes as seen. *)
PushSeedAsSeen(i) ==
    /\ phase = "seeding"
    /\ task[i] = "push"
    /\ frontier' = frontier \cup { <<0, at[i]>> }
    /\ task' = [task EXCEPT ![i] = "pushed"]
    /\ seen' = seen \cup {at[i]}
    /\ UNCHANGED <<job, phase, at, batch, current, pending, mVoxels>>

PushSeed(i) ==
    /\ phase = "seeding"
    /\ task[i] = "push"
    /\ frontier' = frontier \cup { <<0, at[i]>> }
    /\ task' = [task EXCEPT ![i] = "pushed"]
    /\ UNCHANGED <<job, phase, at, batch, seen, current, pending, mVoxels>>

(* A fault: the join waits for every seed to reach the surface.            *)
SeedsJoinedOnSurface == \A i \in SeedIds : task[i] = "pushed"

SeedsJoined == \A i \in SeedIds : task[i] \in {"pushed", "dropped"}

(* All seed tasks have ended.  An empty frontier ends the march, as it does *)
(* at once when there are no seeds.                                        *)
JoinSeeds ==
    /\ phase = "seeding"
    /\ SeedsJoined
    /\ phase' = IF frontier = {} THEN "done" ELSE "marching"
    /\ UNCHANGED <<job, task, at, frontier, batch, seen, current, pending, mVoxels>>

-----------------------------------------------------------------------------
Front(t) == t \in frontier /\ \A u \in frontier : t[1] <= u[1]

(* A fault: seenVoxel looks a voxel up and never adds it. *)
SeenAfterForgetting(v) == seen

(* seenVoxel adds a voxel it has not seen. *)
SeenAfter(v) == seen \cup {v}

(* continue: the voxel was visited before. *)
PopSeen(t) ==
    /\ phase = "marching"
    /\ Front(t)
    /\ t[2] \in seen
    /\ frontier' = frontier \ {t}
    /\ UNCHANGED <<job, phase, task, at, batch, seen, current, pending, mVoxels>>

Visit(t) ==
    /\ phase = "marching"
    /\ Front(t)
    /\ t[2] \notin seen
    /\ frontier' = frontier \ {t}
    /\ seen' = SeenAfter(t[2])

(* continue: no sign change, so no surface. *)
PopEmpty(t) ==
    /\ Visit(t)
    /\ CanFill(t[2])
    /\ ~containsSurface(job, t[2])
    /\ UNCHANGED <<job, phase, task, at, batch, current, pending, mVoxels>>

PopSurface(t) ==
    /\ Visit(t)
    /\ CanFill(t[2])
    /\ containsSurface(job, t[2])
    /\ current' = t[2]
    /\ pending' = getEdges(job, t[2])
    /\ batch' = batch + 1
    /\ phase' = "expanding"
    /\ UNCHANGED <<job, task, at, mVoxels>>

PopThrows(t) ==
    /\ Visit(t)
    /\ ~CanFill(t[2])
    /\ phase' = "threw"
    /\ UNCHANGED <<job, task, at, batch, current, pending, mVoxels>>

(* A fault: a pushed neighbour is not checked against the grid. *)
PushUnchecked(n) ==
    /\ phase = "expanding"
    /\ n \in pending
    /\ pending' = pending \ {n}
    /\ frontier' = frontier \cup { <<batch, Neighbour(current, n)>> }
    /\ UNCHANGED <<job, phase, task, at, batch, seen, current, mVoxels>>

(* A fault: a neighbour is marked as seen when it is pushed. *)
PushAsSeen(n) ==
    /\ phase = "expanding"
    /\ n \in pending
    /\ pending' = pending \ {n}
    /\ frontier' = frontier \cup
          { t \in { <<batch, Neighbour(current, n)>> } : validVoxel(t[2]) }
    /\ seen' = seen \cup {Neighbour(current, n)}
    /\ UNCHANGED <<job, phase, task, at, batch, current, mVoxels>>

(* One task of the loop over the differing edges of current. *)
PushNeighbour(n) ==
    /\ phase = "expanding"
    /\ n \in pending
    /\ pending' = pending \ {n}
    /\ frontier' = frontier \cup
          { t \in { <<batch, Neighbour(current, n)>> } : validVoxel(t[2]) }
    /\ UNCHANGED <<job, phase, task, at, batch, seen, current, mVoxels>>

(* The tasks have joined: mVoxels.push_back(v). *)
Record ==
    /\ phase = "expanding"
    /\ pending = {}
    /\ mVoxels' = BagAdd(mVoxels, current)
    /\ phase' = "marching"
    /\ UNCHANGED <<job, task, at, frontier, batch, seen, current, pending>>

Finish ==
    /\ phase = "marching"
    /\ frontier = {}
    /\ phase' = "done"
    /\ UNCHANGED <<job, task, at, frontier, batch, seen, current, pending, mVoxels>>

(* The march has returned, or its exception ended the program. *)
Ended == phase \in {"done", "threw"} /\ UNCHANGED vars

SeedTask(i) == CheckSeed(i) \/ Walk(i) \/ SeedThrows(i) \/ PushSeed(i)

Pop == \E t \in frontier : PopSeen(t) \/ PopEmpty(t) \/ PopSurface(t) \/ PopThrows(t)

Expand == (\E n \in NeighbourIndex : PushNeighbour(n)) \/ Record

MainThread == JoinSeeds \/ Pop \/ Expand \/ Finish

Next == (\E i \in SeedIds : SeedTask(i)) \/ MainThread \/ Ended

Spec == Init /\ [][Next]_vars

(* Some thread that can take a step takes one.  Nothing fairer is assumed  *)
(* of the seed tasks: one worker may run them all, one after another.      *)
FairSpec == Spec /\ WF_vars(Next)

-----------------------------------------------------------------------------
Recorded == DOMAIN mVoxels

(* Two cells share a face, and the second lies in the grid.                *)
Near(v, w) == validVoxel(w) /\ \E n \in NeighbourIndex : w = Neighbour(v, n)

(* The field of job j joins them: its surface crosses the face they share. *)
FaceCrossed(j, v, n) ==
    \E c, d \in FaceCorners[n] : SignAt(j, v, c) # SignAt(j, v, d)
Linked(j, v, w) ==
    /\ validVoxel(w)
    /\ \E n \in NeighbourIndex : w = Neighbour(v, n) /\ FaceCrossed(j, v, n)

TypeOK ==
    /\ job \in DOMAIN Jobs
    /\ phase \in Phase
    /\ task \in [SeedIds -> TaskPc]
    /\ at \in [SeedIds -> VoxelId]
    /\ frontier \subseteq Nat \X Cell
    /\ batch \in Nat
    /\ seen \subseteq Cell
    /\ current \in Cell
    /\ pending \subseteq NeighbourIndex
    /\ Recorded \subseteq Cell
    /\ mVoxels \in [Recorded -> Nat]

(* "There should be no repeated voxels in the lattice", the assertion of   *)
(* Bsoid::validateVoxels: however the seeds collide and the parallel       *)
(* pushes interleave, no voxel is recorded twice.                          *)
NoRepeatedVoxels == \A v \in Recorded : mVoxels[v] = 1

(* Only a voxel with a sign change is recorded, though EdgeDecals has      *)
(* voxels visited that have none.                                          *)
OnlySurface == \A v \in Recorded : containsSurface(job, v)

(* No crossing is lost: once a voxel is recorded, every in-grid neighbour  *)
(* that the surface reaches through their common face has been visited or  *)
(* waits in the frontier, whatever happens in between.                     *)
NoCrossingLost ==
    \A v \in Recorded, n \in NeighbourIndex :
        LET w == Neighbour(v, n) IN
        validVoxel(w) /\ FaceCrossed(job, v, n) =>
            w \in seen \/ \E t \in frontier : t[2] = w

(* When the march returns, the recorded voxels are closed: the surface     *)
(* leaves no recorded voxel, through a face inside the grid, into a voxel  *)
(* that is missing.  A miss here is a hole in the mesh.                    *)
NothingMissed ==
    phase = "done" =>
        \A v \in Recorded, n \in NeighbourIndex :
            validVoxel(Neighbour(v, n)) /\ FaceCrossed(job, v, n) =>
                Neighbour(v, n) \in Recorded

(* Every seed whose task pushed a voxel has that voxel recorded when the   *)
(* march returns: no component of the surface with a seed on it is lost.   *)
SeedsRecorded ==
    phase = "done" => \A i \in SeedIds : task[i] = "pushed" => at[i] \in Recorded

(* findSurface cannot step over the surface: as long as a walk goes on, it *)
(* stays among voxels whose corners all have the sign it started with.     *)
NoTunnelling ==
    [][\A i \in SeedIds : task[i] = "walk" /\ task'[i] = "walk" =>
          \A c, d \in CornerIndex : SignAt(job, at'[i], c) = SignAt(job, at[i], d)]_vars

(* Only a walk of findSurface, which has no bound, can keep the march from *)
(* ending: if it does not end, some seed task walks for ever.              *)
EndsUnlessWalking ==
    <>(phase \in {"done", "threw"}) \/ <>[](\E i \in SeedIds : task[i] = "walk")

-----------------------------------------------------------------------------
(* The inductive invariant.                                               *)
Starts    == { at[i] : i \in { k \in SeedIds : task[k] = "pushed" } }
Waiting   == { t[2] : t \in frontier }
Expanding == IF phase = "expanding" THEN {current} ELSE {}

(* What the tasks know of the voxels they have reached. *)
SeedsInv ==
    /\ phase = "seeding" => seen = {} /\ Recorded = {}
    /\ phase \notin {"seeding", "threw"} => SeedsJoined
    /\ \A i \in SeedIds :
          /\ task[i] # "dropped" => at[i] \in Cell
          /\ task[i] = "walk" => ~containsSurface(job, at[i])
          /\ task[i] \in {"push", "pushed"} => containsSurface(job, at[i])
          /\ task[i] = "pushed" => at[i] \in seen \cup Waiting

(* A voxel is recorded, or being expanded, when it has been seen and has a *)
(* sign change, and then once.                                             *)
RecordInv ==
    /\ NoRepeatedVoxels
    /\ Recorded \cup Expanding \subseteq { v \in seen : containsSurface(job, v) }
    /\ Expanding \cap Recorded = {}
    /\ phase # "threw" =>
          \A v \in seen : containsSurface(job, v) => v \in Recorded \cup Expanding

(* No crossing is lost, those of the voxel being expanded included. *)
CrossingInv ==
    /\ NoCrossingLost
    /\ \A v \in Expanding, n \in NeighbourIndex :
          validVoxel(Neighbour(v, n)) /\ FaceCrossed(job, v, n) =>
              n \in pending \/ Neighbour(v, n) \in seen \cup Waiting
    /\ phase = "done" => frontier = {}

(* What waits was started, or touches a voxel recorded or being expanded.  *)
ReachInv ==
    /\ \A w \in Waiting : w \in Starts \/ \E f \in Recorded \cup Expanding : Near(f, w)
    /\ \A w \in Expanding : w \in Starts \/ \E f \in Recorded : Near(f, w)

MarchInv == TypeOK /\ SeedsInv /\ RecordInv /\ CrossingInv /\ ReachInv

-----------------------------------------------------------------------------
(* The march implements the abstract search.  A cell is started when its   *)
(* task pushes it and found when it is recorded.                           *)
Search == INSTANCE FloodFill WITH
    Scene <- DOMAIN Jobs, Surface <- containsSurface,
    scene <- job, starts <- Starts, found <- Recorded, finished <- (phase = "done")

ImplementsFloodFill == Search!Spec
=============================================================================
