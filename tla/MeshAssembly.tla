---------------------------- MODULE MeshAssembly -----------------------------
(***************************************************************************)
(* Bsoid::makeTriangles and generateLinePoint: draw the triangles of every *)
(* recorded voxel into one indexed mesh.                                   *)
(*                                                                         *)
(* One task per voxel.  For each edge of its voxel that carries a vertex,  *)
(* a task looks in mComputedPoints for the edge under the key of its own   *)
(* orientation and under the reversed one, and computes and inserts the    *)
(* point under its own when it finds neither.  Then, one triangle at a     *)
(* time, it adds the three points to the mesh, giving a new index to a key *)
(* indexMap does not hold.                                                 *)
(*                                                                         *)
(* A key is the pair of grid points an edge joins, in the order of the     *)
(* voxel's table.  The point interpolated on an edge is a function of its  *)
(* key, so a vertex is modelled as the key it was made under; normals are  *)
(* pushed along with vertices and are left out.                            *)
(*                                                                         *)
(* The look-up takes no lock, the insertion holds mPointMutex.  A look-up  *)
(* while another task inserts reads a std::map that is being rebuilt: it   *)
(* may miss any entry, and may or may not see the new one.                 *)
(***************************************************************************)
EXTENDS MarchingTables

CONSTANTS DISABLE_PARALLEL,  \* which branch of makeTriangles is built
          Surfaces           \* the surfaces the mesh may be made of, by name

(* below: the grid points where the field is below the iso value; voxels:  *)
(* mVoxels, none of them repeated.                                         *)
Surface == { s \in [ below : SUBSET PointId, voxels : Seq(Cell) ] :
               \A i, j \in DOMAIN s.voxels : s.voxels[i] = s.voxels[j] => i = j }

ASSUME BuildAssumption == DISABLE_PARALLEL \in BOOLEAN
ASSUME SurfacesAssumption == \A k \in DOMAIN Surfaces : Surfaces[k] \in Surface

(* A surface goes on across faces, as the march that fills mVoxels leaves  *)
(* it (SurfaceMarch!NothingMissed).                                        *)
ASSUME WholeAssumption ==
    \A k \in DOMAIN Surfaces :
        LET voxels == Surfaces[k].voxels
        IN  Continues(Surfaces[k].below, { voxels[i] : i \in DOMAIN voxels })

(* What makeTriangles takes from the tables: a triangle of a combination   *)
(* uses three edges that carry a vertex, and where there are edges there   *)
(* are triangles.  It is a fact about the tables above, all 256 rows of    *)
(* which TLC evaluates.                                                    *)
ASSUME TablesAssumption ==
    \A k \in Config :
        /\ TrianglesOf(k) \in Seq(EdgesOf(k) \X EdgesOf(k) \X EdgesOf(k))
        /\ EdgesOf(k) # {} => Len(TrianglesOf(k)) > 0

VARIABLES
    scene,            \* the name of the surface drawn
    pc,               \* pc[i]: where the task of voxel i is
    config,           \* config[i]: its voxelIndex, once it has started
    edges,            \* edges[i]: the edges it has still to find a point for
    vertList,         \* vertList[i]: the keys it has found, by edge
    drawn,            \* drawn[i]: the triangles it has added
    mComputedPoints,  \* the keys computed so far
    mesh              \* mMesh and indexMap

vars == <<scene, pc, config, edges, vertList, drawn, mComputedPoints, mesh>>

TaskPc  == {"waiting", "edges", "compute", "inserting", "triangles", "done"}
mVoxels == Surfaces[scene].voxels
Tasks   == DOMAIN mVoxels

-----------------------------------------------------------------------------
(* The corner combination of a voxel of surface s. *)
ConfigIn(s, v) == voxelIndex({ c \in CornerIndex : Corner(v, c) \in Surfaces[s].below })

Key == PointId \X PointId
Reversed(k) == << k[2], k[1] >>
Ends(k)     == { k[1], k[2] }

(* A fault: the voxel's id is left out of the points hashed. *)
EdgeKeyLocal(v, e) ==
    << VoxelDecals[EdgeEnds[e + 1][1] + 1], VoxelDecals[EdgeEnds[e + 1][2] + 1] >>

(* A fault: the corner's offset is subtracted. *)
EdgeKeyBelow(v, e) ==
    << Plus(v, Minus(VoxelDecals[EdgeEnds[e + 1][1] + 1])),
       Plus(v, Minus(VoxelDecals[EdgeEnds[e + 1][2] + 1])) >>

EdgeKey(v, e) == << Corner(v, EdgeEnds[e + 1][1]), Corner(v, EdgeEnds[e + 1][2]) >>

NextEdge(i) == CHOOSE e \in edges[i] : \A f \in edges[i] : e <= f
NextKey(i)  == EdgeKey(mVoxels[i], NextEdge(i))

-----------------------------------------------------------------------------
(* The mesh: vertices, indices and indexMap, filled one point at a time.   *)
EmptyMesh == [ vertices |-> << >>, indices |-> << >>, indexMap |-> [k \in {} |-> 0] ]

Indexed(m, k) == k \in DOMAIN m.indexMap

(* A fault: a new vertex is not entered in indexMap. *)
AddPointForgetful(m, k) ==
    IF Indexed(m, k)
    THEN [ m EXCEPT !.indices = Append(@, m.indexMap[k]) ]
    ELSE [ m EXCEPT !.vertices = Append(@, k),
                    !.indices = Append(@, Len(m.vertices)) ]

AddPoint(m, k) ==
    IF Indexed(m, k)
    THEN [ m EXCEPT !.indices = Append(@, m.indexMap[k]) ]
    ELSE [ vertices |-> Append(m.vertices, k),
           indices  |-> Append(m.indices, Len(m.vertices)),
           indexMap |-> [ l \in DOMAIN m.indexMap \cup {k} |->
                            IF l = k THEN Len(m.vertices) ELSE m.indexMap[l] ] ]

(* n is m with the three points of a triangle added. *)
AddsTriangle(m, n, k) ==
    \E m1 \in {AddPoint(m, k[1])} : \E m2 \in {AddPoint(m1, k[2])} : n = AddPoint(m2, k[3])

-----------------------------------------------------------------------------
Init ==
    /\ scene \in DOMAIN Surfaces
    /\ pc = [i \in Tasks |-> "waiting"]
    /\ config = [i \in Tasks |-> 0]
    /\ edges = [i \in Tasks |-> {}]
    /\ vertList = [i \in Tasks |-> [e \in {} |-> << >>]]
    /\ drawn = [i \in Tasks |-> 0]
    /\ mComputedPoints = {}
    /\ mesh = EmptyMesh

(* The serial loop goes through mVoxels in order. *)
MayStart(i) == DISABLE_PARALLEL => \A j \in Tasks : j < i => pc[j] = "done"

(* A fault: a voxel whose EdgeTable entry is 0 never ends. *)
StartWithEdges(i) ==
    /\ pc[i] = "waiting"
    /\ MayStart(i)
    /\ config' = [config EXCEPT ![i] = ConfigIn(scene, mVoxels[i])]
    /\ edges' = [edges EXCEPT ![i] = EdgesOf(config'[i])]
    /\ edges'[i] # {}
    /\ pc' = [pc EXCEPT ![i] = "edges"]
    /\ UNCHANGED <<scene, vertList, drawn, mComputedPoints, mesh>>

(* A voxel is recorded for a change of sign, but has no vertices when its  *)
(* corners are only at or above the iso value.                             *)
Start(i) ==
    /\ pc[i] = "waiting"
    /\ MayStart(i)
    /\ config' = [config EXCEPT ![i] = ConfigIn(scene, mVoxels[i])]
    /\ edges' = [edges EXCEPT ![i] = EdgesOf(config'[i])]
    /\ pc' = [pc EXCEPT ![i] = IF edges'[i] = {} THEN "done" ELSE "edges"]
    /\ UNCHANGED <<scene, vertList, drawn, mComputedPoints, mesh>>

(* Task i has key k for its next edge. *)
Take(i, k) ==
    /\ vertList' = [vertList EXCEPT ![i] =
                      [ e \in DOMAIN @ \cup {NextEdge(i)} |->
                          IF e = NextEdge(i) THEN k ELSE vertList[i][e] ]]
    /\ edges' = [edges EXCEPT ![i] = @ \ {NextEdge(i)}]
    /\ pc' = [pc EXCEPT ![i] = IF edges[i] = {NextEdge(i)} THEN "triangles" ELSE "edges"]

Inserting == { j \in Tasks : pc[j] = "inserting" }

(* What a look-up may find in mComputedPoints. *)
Lookups ==
    IF Inserting = {} THEN {mComputedPoints}
    ELSE SUBSET (mComputedPoints \cup { NextKey(j) : j \in Inserting })

(* A fault: only the key of the task's own orientation is looked up. *)
EitherOwn(k, hits) == hits \cap {k}

Either(k, hits) == hits \cap {k, Reversed(k)}

(* The unlocked look-up of both keys: the task's own takes precedence.     *)
LookUp(i) ==
    /\ pc[i] = "edges"
    /\ \E hits \in Lookups :
          LET found == Either(NextKey(i), hits) IN
          \/ /\ found # {}
             /\ Take(i, IF NextKey(i) \in found THEN NextKey(i) ELSE Reversed(NextKey(i)))
          \/ /\ found = {}
             /\ pc' = [pc EXCEPT ![i] = "compute"]
             /\ UNCHANGED <<edges, vertList>>
    /\ UNCHANGED <<scene, config, drawn, mComputedPoints, mesh>>

(* The point is interpolated, and mPointMutex taken. *)
Lock(i) ==
    /\ pc[i] = "compute"
    /\ Inserting = {}
    /\ pc' = [pc EXCEPT ![i] = "inserting"]
    /\ UNCHANGED <<scene, config, edges, vertList, drawn, mComputedPoints, mesh>>

(* The insertion, which keeps an entry already there, and the unlock.      *)
Insert(i) ==
    /\ pc[i] = "inserting"
    /\ mComputedPoints' = mComputedPoints \cup {NextKey(i)}
    /\ Take(i, NextKey(i))
    /\ UNCHANGED <<scene, config, drawn, mesh>>

(* The task's next triangle, added under indexMapMutex. *)
Emit(i) ==
    /\ pc[i] = "triangles"
    /\ LET t == TrianglesOf(config[i])[drawn[i] + 1] IN
       AddsTriangle(mesh, mesh', << vertList[i][t[1]], vertList[i][t[2]], vertList[i][t[3]] >>)
    /\ drawn' = [drawn EXCEPT ![i] = @ + 1]
    /\ pc' = [pc EXCEPT ![i] = IF drawn[i] + 1 = Len(TrianglesOf(config[i])) THEN "done" ELSE @]
    /\ UNCHANGED <<scene, config, edges, vertList, mComputedPoints>>

(* The loop has joined. *)
Finished == \A i \in Tasks : pc[i] = "done"
Joined   == Finished /\ UNCHANGED vars

Task(i) == Start(i) \/ LookUp(i) \/ Lock(i) \/ Insert(i) \/ Emit(i)

Next == (\E i \in Tasks : Task(i)) \/ Joined

Spec == Init /\ [][Next]_vars

(* Some worker takes a step as long as one can. *)
FairSpec == Spec /\ WF_vars(Next)

-----------------------------------------------------------------------------
vertices == mesh.vertices
indices  == mesh.indices

TypeOK ==
    /\ scene \in DOMAIN Surfaces
    /\ pc \in [Tasks -> TaskPc]
    /\ config \in [Tasks -> Config]
    /\ edges \in [Tasks -> SUBSET EdgeIndex]
    /\ DOMAIN vertList = Tasks
    /\ \A i \in Tasks : vertList[i] \in [DOMAIN vertList[i] -> Key]
    /\ drawn \in [Tasks -> Nat]
    /\ mComputedPoints \subseteq Key
    /\ vertices \in Seq(Key)
    /\ indices \in Seq(Nat)
    /\ mesh.indexMap \in [DOMAIN mesh.indexMap -> Nat]

(* However the tasks interleave, the mesh can be drawn as it is: every     *)
(* index names a vertex, and indexMap numbers the vertices one to one, so  *)
(* that no key is given two.                                               *)
MeshIndexed ==
    /\ \A n \in DOMAIN indices : indices[n] < Len(vertices)
    /\ \A k \in DOMAIN mesh.indexMap :
          mesh.indexMap[k] < Len(vertices) /\ vertices[mesh.indexMap[k] + 1] = k
    /\ \A n \in DOMAIN vertices :
          vertices[n] \in DOMAIN mesh.indexMap /\ mesh.indexMap[vertices[n]] = n - 1

(* "Check if we have seen this point before.": a grid edge has one vertex, *)
(* whichever of the voxels around it draws it.                             *)
OneVertexPerEdge ==
    \A m, n \in DOMAIN vertices : Ends(vertices[m]) = Ends(vertices[n]) => m = n

(* The triangles of the mesh, each corner the grid edge it lies on.        *)
EdgeAt(n) == Ends(vertices[indices[n] + 1])
Drawn == [ n \in 1 .. Len(indices) \div 3 |->
             << EdgeAt(3 * n - 2), EdgeAt(3 * n - 1), EdgeAt(3 * n) >> ]

(* The directed sides of its triangles, as positions in indices.           *)
Sides == { << n, IF n % 3 = 0 THEN n - 2 ELSE n + 1 >> : n \in DOMAIN indices }

(* A side runs along the border of the grid, or past it. *)
OnBorder(s) ==
    LET ends == EdgeAt(s[1]) \cup EdgeAt(s[2]) IN
    \/ \E k \in 1 .. 3, b \in {0, GridSize} : \A p \in ends : p[k] = b
    \/ \E p \in ends, k \in 1 .. 3 : p[k] > GridSize

(* The finished surface is closed but for the border of the grid: every    *)
(* side of a triangle is the side of one other triangle, run the other way.*)
SurfaceClosed ==
    Finished =>
        \A s \in Sides : ~OnBorder(s) =>
            \E r \in Sides :
                \A q \in Sides :
                    (EdgeAt(q[1]) = EdgeAt(s[2]) /\ EdgeAt(q[2]) = EdgeAt(s[1])) <=> q = r

(* The finished mesh is closed the same way by its indices, which is what  *)
(* makes the triangles on either side of an edge share its vertices.       *)
MeshClosed ==
    Finished =>
        \A s \in Sides : ~OnBorder(s) =>
            \E r \in Sides :
                \A q \in Sides :
                    (indices[q[1]] = indices[s[2]] /\ indices[q[2]] = indices[s[1]]) <=> q = r

(* Every voxel is drawn in the end, those with no triangles included: no   *)
(* task waits for a lock for ever, and none is forgotten.                  *)
Completes == <>(Finished /\ \A i \in Tasks : drawn[i] = Len(TrianglesOf(config[i])))

-----------------------------------------------------------------------------
(* The triangles the tables have for voxel v of surface s.                 *)
GridEdge(v, e) == { Corner(v, EdgeEnds[e + 1][1]), Corner(v, EdgeEnds[e + 1][2]) }
Patch(s, v) ==
    LET tris == TrianglesOf(ConfigIn(s, v))
    IN  [ n \in 1 .. Len(tris) |->
            << GridEdge(v, tris[n][1]), GridEdge(v, tris[n][2]), GridEdge(v, tris[n][3]) >> ]
Patches(s) == [ i \in DOMAIN Surfaces[s].voxels |-> Patch(s, Surfaces[s].voxels[i]) ]

Soup == INSTANCE TriangleSoup WITH Scene <- DOMAIN Surfaces, soup <- Drawn

(* Whatever vertices the race leaves shared or doubled, the triangles that *)
(* are drawn are the right ones, each once.                                *)
ImplementsTriangleSoup == Soup!Spec
=============================================================================
