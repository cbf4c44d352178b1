----------------------------- MODULE SuperVoxels ------------------------------
(***************************************************************************)
(* Bsoid::makeVoxels up to the march, and findVoxelPoint, which the march  *)
(* calls from many tasks: one task per super-voxel prunes the volume tree  *)
(* to its cell, the seeds of the model become voxels, and a grid point is  *)
(* evaluated in the field of its super-voxel and kept in mSeenPoints.      *)
(*                                                                         *)
(* The grid is a line of the code's, whose loops over y and z are left     *)
(* out; VolumeTree says what a tree is along that line.  A quotient of     *)
(* floats that is exact may come out just below.  It does so for all of    *)
(* them or for none here, which is enough for what is said of one point or *)
(* seed at a time.  mSeenPoints is searched without the lock it is filled  *)
(* under: a search during an insertion may miss any entry.                 *)
(***************************************************************************)
EXTENDS VolumeTree, GridArithmetic, FiniteSets

CONSTANTS
    Models,      \* what may be polygonized: name |-> a model, res and svRes
    Iso,         \* the iso value
    Tasks,       \* the tasks that call findVoxelPoint
    MaxSeen      \* bound on the calls that miss: points kept and calls under way

Jobs == [ j \in DOMAIN Models |-> Along(Models[j].made, Models[j].res, Models[j].svRes) ]

(* A point of value 0, as all are outside the trees, is not in the surface.*)
ASSUME IsoAssumption == Iso \in Nat \ {0}

(* Every tree is one of those VolumeTree describes.                        *)
ASSUME ModelsAssumption == \A j \in DOMAIN Models : ModelOK(Models[j].made, Iso)

(* The grids may have any numbers of steps. *)
ASSUME ResolutionsAssumption ==
    \A j \in DOMAIN Models : Models[j].res \in Nat \ {0} /\ Models[j].svRes \in Nat \ {0}

VARIABLES
    model,          \* the job at work
    down,           \* whether exact quotients come out just below
    stage,          \* "cells", "seeds" or "points"
    left,           \* the cells, then the seeds, not done yet
    mSuperVoxels,   \* hash |-> the cell the field was pruned to
    seedVoxels,     \* the voxels of the seeds done
    mSeenPoints,    \* hash |-> value
    task            \* task[t]: where its call of findVoxelPoint is

vars == <<model, down, stage, left, mSuperVoxels, seedVoxels, mSeenPoints, task>>

mGridSize == model.res
mSvSize   == model.svRes

(* A fault: the seed is divided without its distance to mMin. *)
SeedIdFromOrigin(seed) == (seed * mGridSize) \div Extent(model.box)

(* The voxel of a seed, at n / w steps of the grid from its near end: the  *)
(* cast to uint64 drops the fraction of the quotient.                      *)
SeedId(seed) ==
    LET w == Extent(model.box)
        n == (seed - model.box.pMin) * mGridSize
    IN  n \div w - (IF down /\ n % w = 0 /\ n > 0 THEN 1 ELSE 0)

Key(x) == hash(x, 0, 0)

(* The super-voxel of grid coordinate x, and its value there. *)
SvOf(x)   == superVoxel(x, mGridSize, mSvSize, IF down /\ OnCellBorder(x, mGridSize, mSvSize) THEN 1 ELSE 0)
Pruned(x) == model.pruned[mSuperVoxels[Key(SvOf(x))]][x]
Whole(x)  == model.whole[x]

(* f with k |-> v, unless f has k: insert of a map. *)
Inserted(f, k, v) == [ l \in DOMAIN f \cup {k} |-> IF l \in DOMAIN f THEN f[l] ELSE v ]
Call(pc, id, val) == [ pc |-> pc, id |-> id, val |-> val ]
Idle == Call("idle", 0, 0)

-----------------------------------------------------------------------------
Init ==
    /\ down \in BOOLEAN
    /\ model \in { Jobs[j] : j \in DOMAIN Jobs }
    /\ stage = "cells"
    /\ left = 0 .. mSvSize - 1
    /\ mSuperVoxels = [k \in {} |-> 0]
    /\ seedVoxels = {}
    /\ mSeenPoints = [k \in {} |-> 0]
    /\ task = [t \in Tasks |-> Idle]

(* The task of super-voxel x.  The insertion is under mSvMutex. *)
MakeCell(x) ==
    /\ stage = "cells" /\ x \in left
    /\ mSuperVoxels' = IF x \notin model.occupied THEN mSuperVoxels
                       ELSE Inserted(mSuperVoxels, Key(x), x)
    /\ left' = IF left = {x} THEN DOMAIN model.seeds ELSE left \ {x}
    /\ stage' = IF left = {x} THEN "seeds" ELSE stage
    /\ UNCHANGED <<model, down, seedVoxels, mSeenPoints, task>>

(* The task of seed i. *)
MakeSeed(i) ==
    /\ stage = "seeds" /\ i \in left
    /\ seedVoxels' = seedVoxels \cup {SeedId(model.seeds[i])}
    /\ left' = left \ {i}
    /\ stage' = IF left = {i} THEN "points" ELSE stage
    /\ UNCHANGED <<model, down, mSuperVoxels, mSeenPoints, task>>

-----------------------------------------------------------------------------
(* The march asks for the corners of valid voxels and of seeds'. *)
Asked == 0 .. mGridSize \cup UNION { {v, v + 1} : v \in seedVoxels }

Inserting == { t \in Tasks : task[t].pc = "inserting" }

(* A fault: points are kept under their super-voxel's key. *)
PointKeyOfCell(x) == Key(SvOf(x))

PointKey(x) == Key(x)

Calling == { t \in Tasks : task[t].pc # "idle" }

(* The search, without the lock: a hit is returned at once. *)
Find(t, x) ==
    /\ stage = "points" /\ task[t].pc = "idle"
    /\ \/ /\ PointKey(x) \in DOMAIN mSeenPoints
          /\ UNCHANGED task
       \/ /\ PointKey(x) \notin DOMAIN mSeenPoints \/ Inserting # {}
          /\ Cardinality(DOMAIN mSeenPoints) + Cardinality(Calling) < MaxSeen
          /\ task' = [task EXCEPT ![t] = Call("eval", x, 0)]
    /\ UNCHANGED <<model, down, stage, left, mSuperVoxels, seedVoxels, mSeenPoints>>

(* The super-voxel's field at the point; at() throws when there is none.   *)
Eval(t) ==
    /\ task[t].pc = "eval"
    /\ task' = [task EXCEPT ![t] =
                  IF Key(SvOf(@.id)) \in DOMAIN mSuperVoxels
                  THEN Call("computed", @.id, Pruned(@.id)) ELSE Call("threw", @.id, 0)]
    /\ UNCHANGED <<model, down, stage, left, mSuperVoxels, seedVoxels, mSeenPoints>>

Lock(t) ==
    /\ task[t].pc = "computed" /\ Inserting = {}
    /\ task' = [task EXCEPT ![t].pc = "inserting"]
    /\ UNCHANGED <<model, down, stage, left, mSuperVoxels, seedVoxels, mSeenPoints>>

(* A fault: a point another task has entered is waited for. *)
InsertOnce(t) ==
    /\ task[t].pc = "inserting" /\ PointKey(task[t].id) \notin DOMAIN mSeenPoints
    /\ mSeenPoints' = Inserted(mSeenPoints, PointKey(task[t].id), task[t].val)
    /\ task' = [task EXCEPT ![t] = Idle]
    /\ UNCHANGED <<model, down, stage, left, mSuperVoxels, seedVoxels>>

(* The insertion, the unlock, and the return of the task's own value. *)
Insert(t) ==
    /\ task[t].pc = "inserting"
    /\ mSeenPoints' = Inserted(mSeenPoints, PointKey(task[t].id), task[t].val)
    /\ task' = [task EXCEPT ![t] = Idle]
    /\ UNCHANGED <<model, down, stage, left, mSuperVoxels, seedVoxels>>

Step(t) == Eval(t) \/ Lock(t) \/ Insert(t)

Next ==
    \/ \E x \in left : MakeCell(x) \/ MakeSeed(x)
    \/ \E t \in Tasks : (\E x \in Asked : Find(t, x)) \/ Step(t)

(* The loops run on, and so does a task inside findVoxelPoint; a lock is   *)
(* given in the end to a task that keeps asking for it.                    *)
Spec == Init /\ [][Next]_vars
FairSpec == Spec /\ WF_vars(\E x \in left : MakeCell(x) \/ MakeSeed(x))
                 /\ \A t \in Tasks : WF_vars(Eval(t) \/ Insert(t)) /\ SF_vars(Lock(t))

-----------------------------------------------------------------------------
(* mSuperVoxels.at never throws: there is a field for every point the      *)
(* march asks for, at the far end of the grid and where the quotient is    *)
(* rounded either way, though a cell that the tree's box does not overlap  *)
(* has none.                                                               *)
NeverThrows == \A t \in Tasks : task[t].pc # "threw"

(* Every seed of a model lies in the tree's box, so that the truncation of *)
(* its coordinates is defined and gives a voxel of the grid, whose corners *)
(* have super-voxels.                                                      *)
SeedsInGrid == \A v \in seedVoxels : 0 <= v /\ v < mGridSize

(* The field of a super-voxel is a pruned one; the march only compares it  *)
(* with the iso value, and must find every point on the side the whole     *)
(* field has it, whichever cell of a border it is looked up in and however *)
(* the unlocked cache answered.                                            *)
Side(v) == IF v < Iso THEN "below" ELSE IF v = Iso THEN "at" ELSE "above"
ReadsKeepSides ==
    /\ \A t \in Tasks : task[t].pc \in {"computed", "inserting"} =>
          Side(task[t].val) = Side(Whole(task[t].id))
    /\ \A x \in Asked : PointKey(x) \in DOMAIN mSeenPoints =>
          Side(mSeenPoints[PointKey(x)]) = Side(Whole(x))

(* What the cache holds is what a search that misses it would compute:     *)
(* two tasks that race on a point end with the same value.                 *)
CacheSound ==
    \A x \in Asked : PointKey(x) \in DOMAIN mSeenPoints =>
        mSeenPoints[PointKey(x)] = Pruned(x)

(* A call of findVoxelPoint returns: a task that misses does not wait for  *)
(* ever for the lock, or for a point that was entered meanwhile.           *)
CallsReturn == \A t \in Tasks : (task[t].pc = "eval") ~> (task[t].pc = "idle")
=============================================================================
