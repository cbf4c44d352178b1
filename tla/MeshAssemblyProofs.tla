-------------------------- MODULE MeshAssemblyProofs --------------------------
(***************************************************************************)
(* Proofs about mesh assembly, for every surface and number of tasks.      *)
(***************************************************************************)
EXTENDS MeshAssembly, VoxelGridProofs

-----------------------------------------------------------------------------
(* The mesh as a data structure.                                           *)

(* Vertices V, indices X and index map M in good order: typed, and indexed *)
(* as MeshIndexed says.                                                    *)
InOrder(V, X, M) ==
    /\ V \in Seq(Key)
    /\ X \in Seq(Nat)
    /\ M \in [DOMAIN M -> Nat]
    /\ \A n \in 1 .. Len(X) : X[n] < Len(V)
    /\ \A k \in DOMAIN M : M[k] < Len(V) /\ V[M[k] + 1] = k
    /\ \A n \in 1 .. Len(V) : V[n] \in DOMAIN M /\ M[V[n]] = n - 1

MeshOK(m) ==
    /\ m = [ vertices |-> m.vertices, indices |-> m.indices, indexMap |-> m.indexMap ]
    /\ InOrder(m.vertices, m.indices, m.indexMap)

(* The vertex that index number n of a mesh names. *)
VertexAt(m, n) == m.vertices[m.indices[n] + 1]

LEMMA AppendFacts ==
    ASSUME NEW S, NEW s \in Seq(S), NEW x \in S
    PROVE  /\ Append(s, x) \in Seq(S) /\ Len(s) \in Nat /\ Len(Append(s, x)) = Len(s) + 1
           /\ Append(s, x)[Len(s) + 1] = x
           /\ \A n \in 1 .. Len(s) : Append(s, x)[n] = s[n] /\ s[n] \in S
  OBVIOUS

(* A point whose key is known adds its index. *)
LEMMA KnownPoint ==
    ASSUME NEW V, NEW X, NEW M, InOrder(V, X, M), NEW k \in DOMAIN M
    PROVE  InOrder(V, Append(X, M[k]), M) /\ V[M[k] + 1] = k
  <1>1. M[k] \in Nat /\ M[k] < Len(V) /\ V[M[k] + 1] = k /\ X \in Seq(Nat)
    BY DEF InOrder
  <1> DEFINE Y == Append(X, M[k])
  <1>2. Y \in Seq(Nat) /\ Len(X) \in Nat /\ Len(Y) = Len(X) + 1 /\ Y[Len(X) + 1] = M[k]
        /\ \A n \in 1 .. Len(X) : Y[n] = X[n]
    BY <1>1, AppendFacts
  <1> HIDE DEF Y
  <1>3. \A n \in 1 .. Len(Y) : n \in 1 .. Len(X) \/ n = Len(X) + 1
    BY <1>2
  <1>4. \A n \in 1 .. Len(Y) : Y[n] < Len(V)
    BY <1>1, <1>2, <1>3 DEF InOrder
  <1>5. QED
    BY <1>1, <1>2, <1>4 DEF InOrder, Y

(* A point whose key is new adds a vertex, its index, and an entry. *)
LEMMA NewPoint ==
    ASSUME NEW V, NEW X, NEW M, InOrder(V, X, M), NEW k \in Key, k \notin DOMAIN M,
           NEW N, N = [ l \in DOMAIN M \cup {k} |-> IF l = k THEN Len(V) ELSE M[l] ]
    PROVE  InOrder(Append(V, k), Append(X, Len(V)), N)
  <1> DEFINE W == Append(V, k)
             Y == Append(X, Len(V))
  <1>1. W \in Seq(Key) /\ Len(V) \in Nat /\ Len(W) = Len(V) + 1 /\ W[Len(V) + 1] = k
        /\ \A n \in 1 .. Len(V) : W[n] = V[n]
    BY AppendFacts DEF InOrder
  <1>2. Y \in Seq(Nat) /\ Len(X) \in Nat /\ Len(Y) = Len(X) + 1 /\ Y[Len(X) + 1] = Len(V)
        /\ \A n \in 1 .. Len(X) : Y[n] = X[n] /\ X[n] \in Nat
    BY <1>1, AppendFacts DEF InOrder
  <1> HIDE DEF W, Y
  <1>3. /\ DOMAIN N = DOMAIN M \cup {k} /\ N[k] = Len(V)
        /\ \A l \in DOMAIN M : l # k /\ N[l] = M[l] /\ M[l] \in Nat
        /\ N \in [DOMAIN N -> Nat]
    BY <1>1 DEF InOrder
  <1>4. \A n \in 1 .. Len(Y) : Y[n] < Len(W)
    <2>1. \A n \in 1 .. Len(Y) : n \in 1 .. Len(X) \/ n = Len(X) + 1
      BY <1>2
    <2>2. \A n \in 1 .. Len(X) : X[n] < Len(V)
      BY DEF InOrder
    <2>3. QED
      BY <1>1, <1>2, <2>1, <2>2
  <1>5. \A l \in DOMAIN N : N[l] < Len(W) /\ W[N[l] + 1] = l
    <2>1. ASSUME NEW l \in DOMAIN M PROVE N[l] < Len(W) /\ W[N[l] + 1] = l
      <3>1. M[l] \in Nat /\ M[l] < Len(V) /\ V[M[l] + 1] = l
        BY <1>3 DEF InOrder
      <3>2. M[l] + 1 \in 1 .. Len(V)
        BY <1>1, <3>1
      <3>3. QED
        BY <1>1, <1>3, <3>1, <3>2
    <2>2. QED
      BY <1>1, <1>3, <2>1
  <1>6. \A n \in 1 .. Len(W) : W[n] \in DOMAIN N /\ N[W[n]] = n - 1
    <2>1. \A n \in 1 .. Len(W) : n \in 1 .. Len(V) \/ n = Len(V) + 1
      BY <1>1
    <2>2. \A n \in 1 .. Len(V) : V[n] \in DOMAIN M /\ M[V[n]] = n - 1
      BY DEF InOrder
    <2>3. \A n \in 1 .. Len(V) : W[n] \in DOMAIN N /\ N[W[n]] = n - 1
      BY <1>1, <1>3, <2>2
    <2>4. W[Len(V) + 1] \in DOMAIN N /\ N[W[Len(V) + 1]] = Len(V) /\ Len(V) = (Len(V) + 1) - 1
      BY <1>1, <1>3
    <2>5. QED
      BY <1>1, <2>1, <2>3, <2>4
  <1>7. QED
    BY <1>1, <1>2, <1>3, <1>4, <1>5, <1>6 DEF InOrder, W, Y

(* Mesh a is m with one more index, which names the point k; it keeps what *)
(* the indices of m name, and has no vertex but k and those of m.          *)
AddsIndex(m, a, k) ==
    /\ MeshOK(a)
    /\ Len(a.indices) = Len(m.indices) + 1
    /\ VertexAt(a, Len(m.indices) + 1) = k
    /\ \A n \in 1 .. Len(m.indices) : VertexAt(a, n) = VertexAt(m, n)
    /\ \A n \in DOMAIN a.vertices :
          a.vertices[n] = k \/ (n \in DOMAIN m.vertices /\ a.vertices[n] = m.vertices[n])

LEMMA AddPointOK ==
    ASSUME NEW m, MeshOK(m), NEW k \in Key, NEW a, a = AddPoint(m, k)
    PROVE  AddsIndex(m, a, k)
  <1> DEFINE V == m.vertices
             X == m.indices
             M == m.indexMap
  <1>0. /\ m = [ vertices |-> V, indices |-> X, indexMap |-> M ]
        /\ InOrder(V, X, M) /\ V \in Seq(Key) /\ X \in Seq(Nat) /\ Len(X) \in Nat
        /\ Len(V) \in Nat
        /\ \A n \in 1 .. Len(X) : X[n] \in Nat /\ X[n] < Len(V)
    BY DEF MeshOK, InOrder
  <1>1. CASE k \in DOMAIN M
    <2>1. a.vertices = V /\ a.indices = Append(X, M[k]) /\ a.indexMap = M
          /\ a = [ vertices |-> a.vertices, indices |-> a.indices, indexMap |-> a.indexMap ]
      BY <1>0, <1>1 DEF AddPoint, Indexed
    <2>2. InOrder(V, Append(X, M[k]), M) /\ V[M[k] + 1] = k
      BY <1>0, <1>1, KnownPoint
    <2>3. M[k] \in Nat
      BY <1>1, <2>2 DEF InOrder
    <2> HIDE DEF V, X, M
    <2>4. Len(a.indices) = Len(X) + 1 /\ a.indices[Len(X) + 1] = M[k]
          /\ \A n \in 1 .. Len(X) : a.indices[n] = X[n]
      BY <1>0, <2>1, <2>3, AppendFacts
    <2>5. QED
      BY <2>1, <2>2, <2>4 DEF AddsIndex, MeshOK, VertexAt, V, X
  <1>2. CASE k \notin DOMAIN M
    <2> DEFINE N == [ l \in DOMAIN M \cup {k} |-> IF l = k THEN Len(V) ELSE M[l] ]
    <2>1. a.vertices = Append(V, k) /\ a.indices = Append(X, Len(V)) /\ a.indexMap = N
          /\ a = [ vertices |-> a.vertices, indices |-> a.indices, indexMap |-> a.indexMap ]
      BY <1>2 DEF AddPoint, Indexed
    <2> HIDE DEF V, X, M
    <2>2. InOrder(Append(V, k), Append(X, Len(V)), N)
      BY <1>0, <1>2, NewPoint
    <2> HIDE DEF N
    <2>3. Len(a.indices) = Len(X) + 1 /\ a.indices[Len(X) + 1] = Len(V)
          /\ \A n \in 1 .. Len(X) : a.indices[n] = X[n]
      BY <1>0, <2>1, AppendFacts
    <2>4. Len(a.vertices) = Len(V) + 1 /\ a.vertices[Len(V) + 1] = k
          /\ \A n \in 1 .. Len(V) : a.vertices[n] = V[n]
      BY <1>0, <2>1, AppendFacts
    <2>5. \A n \in 1 .. Len(X) : a.vertices[a.indices[n] + 1] = V[X[n] + 1]
      <3>1. \A n \in 1 .. Len(X) : X[n] + 1 \in 1 .. Len(V)
        BY <1>0
      <3>2. QED
        BY <2>3, <2>4, <3>1
    <2>6. \A n \in 1 .. Len(V) + 1 : n \in 1 .. Len(V) \/ n = Len(V) + 1
      BY <1>0
    <2>7. DOMAIN a.vertices = 1 .. Len(V) + 1 /\ DOMAIN V = 1 .. Len(V)
      BY <1>0, <2>1
    <2>8. MeshOK(a)
      BY <2>1, <2>2 DEF MeshOK
    <2>9. QED
      BY <2>3, <2>4, <2>5, <2>6, <2>7, <2>8 DEF AddsIndex, VertexAt, V, X
  <1>3. QED
    BY <1>1, <1>2

(* The same of a whole triangle. *)
LEMMA AddsTriangleOK ==
    ASSUME NEW m, MeshOK(m), NEW n, NEW k \in Key \X Key \X Key, AddsTriangle(m, n, k)
    PROVE  /\ MeshOK(n)
           /\ Len(n.indices) = Len(m.indices) + 3
           /\ VertexAt(n, Len(m.indices) + 1) = k[1]
           /\ VertexAt(n, Len(m.indices) + 2) = k[2]
           /\ VertexAt(n, Len(m.indices) + 3) = k[3]
           /\ \A i \in 1 .. Len(m.indices) : VertexAt(n, i) = VertexAt(m, i)
           /\ \A i \in DOMAIN n.vertices :
                 n.vertices[i] \in {k[1], k[2], k[3]}
                 \/ (i \in DOMAIN m.vertices /\ n.vertices[i] = m.vertices[i])
  <1>1. PICK m1, m2 : m1 = AddPoint(m, k[1]) /\ m2 = AddPoint(m1, k[2]) /\ n = AddPoint(m2, k[3])
    BY Zenon DEF AddsTriangle
  <1>2. k[1] \in Key /\ k[2] \in Key /\ k[3] \in Key
    OBVIOUS
  <1>3. MeshOK(m1) /\ MeshOK(m2) /\ AddsIndex(m, m1, k[1]) /\ AddsIndex(m1, m2, k[2])
        /\ AddsIndex(m2, n, k[3])
    <2>1. AddsIndex(m, m1, k[1])
      BY <1>1, <1>2, AddPointOK
    <2>2. MeshOK(m1)
      BY <2>1 DEF AddsIndex
    <2>3. AddsIndex(m1, m2, k[2])
      BY <1>1, <1>2, <2>2, AddPointOK
    <2>4. MeshOK(m2)
      BY <2>3 DEF AddsIndex
    <2>5. AddsIndex(m2, n, k[3])
      BY <1>1, <1>2, <2>4, AddPointOK
    <2>6. QED
      BY <2>1, <2>2, <2>3, <2>4, <2>5
  <1> DEFINE I == Len(m.indices)
  <1>0. I \in Nat
    BY DEF MeshOK, InOrder
  <1>4. /\ Len(m1.indices) = I + 1 /\ VertexAt(m1, I + 1) = k[1]
        /\ \A i \in 1 .. I : VertexAt(m1, i) = VertexAt(m, i)
    BY <1>3 DEF AddsIndex
  <1>5. /\ Len(m2.indices) = I + 1 + 1 /\ VertexAt(m2, I + 1 + 1) = k[2]
        /\ \A i \in 1 .. I + 1 : VertexAt(m2, i) = VertexAt(m1, i)
    BY <1>3, <1>4 DEF AddsIndex
  <1>6. /\ Len(n.indices) = I + 1 + 1 + 1 /\ VertexAt(n, I + 1 + 1 + 1) = k[3]
         /\ \A i \in 1 .. I + 1 + 1 : VertexAt(n, i) = VertexAt(m2, i)
    BY <1>3, <1>5 DEF AddsIndex
  <1> HIDE DEF I
  <1>7. I + 1 + 1 = I + 2 /\ I + 1 + 1 + 1 = I + 3 /\ I + 1 \in 1 .. I + 1 /\ I + 1 \in 1 .. I + 2
        /\ I + 2 \in 1 .. I + 2 /\ \A i \in 1 .. I : i \in 1 .. I + 1 /\ i \in 1 .. I + 2
    BY <1>0
  <1>8. /\ Len(n.indices) = I + 3 /\ VertexAt(n, I + 1) = k[1]
        /\ VertexAt(n, I + 2) = k[2] /\ VertexAt(n, I + 3) = k[3]
        /\ \A i \in 1 .. I : VertexAt(n, i) = VertexAt(m, i)
    BY <1>4, <1>5, <1>6, <1>7
  <1>9. \A i \in DOMAIN n.vertices :
            n.vertices[i] \in {k[1], k[2], k[3]}
            \/ (i \in DOMAIN m.vertices /\ n.vertices[i] = m.vertices[i])
    BY <1>3 DEF AddsIndex
  <1>10. QED
    BY <1>3, <1>8, <1>9 DEF AddsIndex, I
-----------------------------------------------------------------------------
(* The tasks.                                                              *)

(* What a task has found and has still to find are the edges of its voxel, *)
(* and its triangles come last.                                            *)
TaskOK(i) ==
    /\ pc[i] = "waiting" => DOMAIN vertList[i] = {} /\ drawn[i] = 0
    /\ pc[i] # "waiting" => DOMAIN vertList[i] \cup edges[i] = EdgesOf(config[i])
    /\ pc[i] \in {"edges", "compute", "inserting"} => edges[i] # {} /\ drawn[i] = 0
    /\ pc[i] = "triangles" => edges[i] = {} /\ drawn[i] < Len(TrianglesOf(config[i]))
    /\ pc[i] = "done" => drawn[i] = Len(TrianglesOf(config[i]))
    /\ pc[i] # "waiting" => config[i] = ConfigIn(scene, mVoxels[i])
    /\ \A e \in DOMAIN vertList[i] : Ends(vertList[i][e]) = GridEdge(mVoxels[i], e)

TaskInv == \A i \in Tasks : TaskOK(i)

(* The types of what the tasks keep. *)
TaskTypes ==
    /\ pc \in [Tasks -> TaskPc]
    /\ config \in [Tasks -> Config]
    /\ edges \in [Tasks -> SUBSET EdgeIndex]
    /\ DOMAIN vertList = Tasks
    /\ \A i \in Tasks : vertList[i] \in [DOMAIN vertList[i] -> Key]
    /\ drawn \in [Tasks -> Nat]

(* TypeOK follows: MeshOK has the types of the mesh.                       *)
Inv ==
    /\ scene \in DOMAIN Surfaces
    /\ TaskTypes
    /\ mComputedPoints \subseteq Key
    /\ MeshOK(mesh)
    /\ TaskInv

LEMMA LeastEdge ==
    ASSUME NEW E \in SUBSET EdgeIndex, E # {}
    PROVE  \E e \in E : \A f \in E : e <= f
  <1>0. EdgeIndex = {0, 1, 2, 3, 4, 5, 6, 7, 8, 9, 10, 11}
    BY DEF EdgeIndex
  <1>1. 0 \in E \/ 1 \in E \/ 2 \in E \/ 3 \in E \/ 4 \in E \/ 5 \in E
        \/ 6 \in E \/ 7 \in E \/ 8 \in E \/ 9 \in E \/ 10 \in E \/ 11 \in E
    BY <1>0
  <1>2. QED
    BY <1>1 DEF EdgeIndex

LEMMA NextEdgeIsEdge ==
    ASSUME NEW i, edges[i] \in SUBSET EdgeIndex, edges[i] # {}
    PROVE  NextEdge(i) \in edges[i] /\ NextEdge(i) \in EdgeIndex
  BY LeastEdge DEF NextEdge

LEMMA SurfaceFacts ==
    ASSUME scene \in DOMAIN Surfaces
    PROVE  /\ mVoxels \in Seq(Cell)
           /\ Tasks = 1 .. Len(mVoxels) /\ Len(mVoxels) \in Nat
           /\ \A i \in Tasks : mVoxels[i] \in Cell
  <1>1. Surfaces[scene] \in Surface
    BY SurfacesAssumption
  <1>2. mVoxels \in Seq(Cell)
    BY <1>1 DEF Surface, mVoxels
  <1>3. QED
    BY <1>2 DEF Tasks

LEMMA CornerIsPoint ==
    ASSUME NEW v \in Cell, NEW c \in CornerIndex
    PROVE  Corner(v, c) \in PointId
  <1>1. VoxelDecals[c + 1] \in {0, 1} \X {0, 1} \X {0, 1}
    BY VoxelDecalsType
  <1> DEFINE d == VoxelDecals[c + 1]
  <1>2. /\ d[1] \in {0, 1} /\ d[2] \in {0, 1} /\ d[3] \in {0, 1}
        /\ v[1] \in 0 .. GridSize /\ v[2] \in 0 .. GridSize /\ v[3] \in 0 .. GridSize
    BY <1>1 DEF Cell
  <1> HIDE DEF d
  <1>3. Plus(v, d) \in PointId
    BY <1>2, GridSizeAssumption DEF Plus, PointId
  <1>4. QED
    BY <1>3 DEF Corner, d

LEMMA EdgeKeyType ==
    ASSUME NEW v \in Cell, NEW e \in EdgeIndex
    PROVE  EdgeKey(v, e) \in Key /\ Reversed(EdgeKey(v, e)) \in Key
  <1>1. EdgeEnds[e + 1][1] \in CornerIndex /\ EdgeEnds[e + 1][2] \in CornerIndex
    BY DEF EdgeIndex, CornerIndex, EdgeEnds
  <1>2. QED
    BY <1>1, CornerIsPoint DEF EdgeKey, Key, Reversed

LEMMA VoxelIndexType ==
    ASSUME NEW low
    PROVE  voxelIndex(low) \in Config
  BY DEF voxelIndex, coeffs, Config

LEMMA InvInit == Init => Inv
  <1> SUFFICES ASSUME Init PROVE Inv
    OBVIOUS
  <1> USE DEF Init
  <1>1. mesh.vertices = << >> /\ mesh.indices = << >> /\ mesh.indexMap = [k \in {} |-> 0]
        /\ mesh = [ vertices |-> mesh.vertices, indices |-> mesh.indices,
                    indexMap |-> mesh.indexMap ]
    BY DEF EmptyMesh
  <1>2. TypeOK
    <2>1. 0 \in Config /\ "waiting" \in TaskPc
      BY DEF Config, TaskPc
    <2>2. \A i \in Tasks : vertList[i] = [e \in {} |-> << >>]
      OBVIOUS
    <2>3. [e \in {} |-> << >>] \in [DOMAIN [e \in {} |-> << >>] -> Key]
      OBVIOUS
    <2>4. mesh.indexMap \in [DOMAIN mesh.indexMap -> Nat]
      BY <1>1
    <2>5. vertices \in Seq(Key) /\ indices \in Seq(Nat)
      BY <1>1 DEF vertices, indices
    <2>6. QED
      BY <2>1, <2>2, <2>3, <2>4, <2>5 DEF TypeOK
  <1>3. MeshOK(mesh)
    <2>1. InOrder(<< >>, << >>, [k \in {} |-> 0])
      BY DEF InOrder
    <2>2. QED
      BY <1>1, <2>1 DEF MeshOK
  <1>4. TaskInv
    BY DEF TaskInv, TaskOK
  <1>5. QED
    BY <1>2, <1>3, <1>4 DEF Inv, TypeOK, TaskTypes

LEMMA SameTasks ==
    ASSUME scene' = scene
    PROVE  /\ Tasks' = Tasks /\ mVoxels' = mVoxels
           /\ \A j : ConfigIn(scene, mVoxels[j])' = ConfigIn(scene, mVoxels[j])
           /\ \A j, e : GridEdge(mVoxels[j], e)' = GridEdge(mVoxels[j], e)
  <1>1. Tasks' = Tasks /\ mVoxels' = mVoxels
    BY DEF Tasks, mVoxels
  <1>2. QED
    BY <1>1 DEF ConfigIn, GridEdge

LEMMA NoEdgesNoTriangles ==
    ASSUME NEW k \in Config, EdgesOf(k) = {}
    PROVE  Len(TrianglesOf(k)) = 0
  <1> DEFINE T == TrianglesOf(k)
             S == EdgesOf(k) \X EdgesOf(k) \X EdgesOf(k)
  <1>1. T \in Seq(S)
    BY TablesAssumption
  <1>2. \A x \in S : FALSE
    OBVIOUS
  <1> HIDE DEF T, S
  <1>3. QED
    BY <1>1, <1>2 DEF T

(* A task that starts. *)
LEMMA StartOK ==
    ASSUME scene \in DOMAIN Surfaces, TaskTypes, TaskInv, NEW i \in Tasks, Start(i)
    PROVE  TaskTypes' /\ TaskInv'
  <1> DEFINE k == ConfigIn(scene, mVoxels[i])
  <1>0. /\ scene' = scene /\ Tasks' = Tasks /\ mVoxels' = mVoxels
        /\ \A j : ConfigIn(scene, mVoxels[j])' = ConfigIn(scene, mVoxels[j])
        /\ \A j, e : GridEdge(mVoxels[j], e)' = GridEdge(mVoxels[j], e)
    BY SameTasks DEF Start
  <1>1. k \in Config
    BY VoxelIndexType DEF ConfigIn
  <1>2. EdgesOf(k) \in SUBSET EdgeIndex
    BY DEF EdgesOf
  <1> HIDE DEF k
  <1>3. /\ config' = [config EXCEPT ![i] = k]
        /\ config'[i] = k
        /\ edges' = [edges EXCEPT ![i] = EdgesOf(k)]
        /\ edges'[i] = EdgesOf(k)
        /\ pc' = [pc EXCEPT ![i] = IF EdgesOf(k) = {} THEN "done" ELSE "edges"]
        /\ vertList' = vertList /\ drawn' = drawn
    BY DEF Start, TaskTypes, k
  <1>4. TaskTypes'
    BY <1>0, <1>1, <1>2, <1>3 DEF TaskTypes, TaskPc
  <1>5. TaskInv'
    <2>1. EdgesOf(k) = {} => Len(TrianglesOf(k)) = 0
      BY <1>1, NoEdgesNoTriangles
    <2>2. k = ConfigIn(scene, mVoxels[i])
      BY DEF k
    <2>3. ASSUME NEW j \in Tasks PROVE TaskOK(j)'
      BY <1>0, <1>3, <2>1, <2>2 DEF TaskInv, TaskOK, TaskTypes, Start
    <2>4. QED
      BY <1>0, <2>3 DEF TaskInv
  <1>6. QED
    BY <1>4, <1>5

(* A task that has a key for its next edge. *)
LEMMA TakeOK ==
    ASSUME TaskTypes, TaskInv, NEW i \in Tasks, pc[i] \in {"edges", "inserting"},
           NEW k \in Key, Ends(k) = GridEdge(mVoxels[i], NextEdge(i)),
           Take(i, k), UNCHANGED <<scene, config, drawn>>
    PROVE  TaskTypes' /\ TaskInv'
  <1>0. /\ scene' = scene /\ Tasks' = Tasks /\ mVoxels' = mVoxels
        /\ \A j : ConfigIn(scene, mVoxels[j])' = ConfigIn(scene, mVoxels[j])
        /\ \A j, e : GridEdge(mVoxels[j], e)' = GridEdge(mVoxels[j], e)
    BY SameTasks
  <1> DEFINE e == NextEdge(i)
  <1>1. e \in edges[i] /\ e \in EdgeIndex
    BY NextEdgeIsEdge DEF TaskTypes, TaskInv, TaskOK
  <1> HIDE DEF e
  <1>2. /\ vertList' = [vertList EXCEPT ![i] =
                         [ f \in DOMAIN vertList[i] \cup {e} |->
                             IF f = e THEN k ELSE vertList[i][f] ]]
        /\ edges' = [edges EXCEPT ![i] = edges[i] \ {e}]
        /\ pc' = [pc EXCEPT ![i] = IF edges[i] = {e} THEN "triangles" ELSE "edges"]
    BY DEF Take, e
  <1>3. vertList'[i] \in [DOMAIN vertList'[i] -> Key] /\ DOMAIN vertList'[i] = DOMAIN vertList[i] \cup {e}
    BY <1>2 DEF TaskTypes
  <1>4. TaskTypes'
    BY <1>0, <1>2, <1>3 DEF TaskTypes, TaskPc
  <1>5. DOMAIN vertList'[i] \cup edges'[i] = EdgesOf(config[i])
    BY <1>1, <1>2, <1>3 DEF TaskTypes, TaskInv, TaskOK
  <1>6. edges[i] = {e} => drawn[i] < Len(TrianglesOf(config[i]))
    <2>1. config[i] \in Config /\ drawn[i] = 0 /\ EdgesOf(config[i]) # {}
      BY <1>1 DEF TaskTypes, TaskInv, TaskOK
    <2>2. QED
      BY <2>1, TablesAssumption
  <1>7. \A f \in DOMAIN vertList'[i] : Ends(vertList'[i][f]) = GridEdge(mVoxels[i], f)
    BY <1>2, <1>3 DEF TaskInv, TaskOK, TaskTypes, e
  <1>8. TaskInv'
    <2>1. TaskOK(i)'
      <3>1. /\ pc'[i] = IF edges[i] = {e} THEN "triangles" ELSE "edges"
            /\ edges'[i] = edges[i] \ {e} /\ config'[i] = config[i] /\ drawn'[i] = drawn[i]
        BY <1>2 DEF TaskTypes
      <3>2. config[i] = ConfigIn(scene, mVoxels[i]) /\ drawn[i] = 0
        BY DEF TaskInv, TaskOK
      <3>3. edges'[i] = {} <=> edges[i] = {e}
        BY <1>1, <3>1
      <3>4. QED
        BY <1>0, <1>5, <1>6, <1>7, <3>1, <3>2, <3>3 DEF TaskOK
    <2>2. ASSUME NEW j \in Tasks, j # i PROVE TaskOK(j)'
      <3>1. /\ pc'[j] = pc[j] /\ edges'[j] = edges[j] /\ vertList'[j] = vertList[j]
            /\ config'[j] = config[j] /\ drawn'[j] = drawn[j]
        BY <1>2, <2>2 DEF TaskTypes
      <3>2. TaskOK(j)
        BY DEF TaskInv
      <3>3. QED
        BY <1>0, <3>1, <3>2 DEF TaskOK
    <2>3. QED
      BY <1>0, <2>1, <2>2 DEF TaskInv
  <1>9. QED
    BY <1>4, <1>8

(* The keys a task may take for its next edge. *)
LEMMA NextKeyType ==
    ASSUME scene \in DOMAIN Surfaces, TaskTypes, NEW i \in Tasks, edges[i] # {}
    PROVE  /\ NextKey(i) \in Key /\ Reversed(NextKey(i)) \in Key
           /\ Ends(NextKey(i)) = GridEdge(mVoxels[i], NextEdge(i))
           /\ Ends(Reversed(NextKey(i))) = GridEdge(mVoxels[i], NextEdge(i))
  <1>1. NextEdge(i) \in EdgeIndex /\ mVoxels[i] \in Cell
    BY NextEdgeIsEdge, SurfaceFacts DEF TaskTypes
  <1>2. NextKey(i) \in Key /\ Reversed(NextKey(i)) \in Key
    BY <1>1, EdgeKeyType DEF NextKey
  <1>3. QED
    BY <1>2 DEF NextKey, EdgeKey, Ends, Reversed, GridEdge

(* The three keys of a task's next triangle lie on its edges. *)
LEMMA NextTriangle ==
    ASSUME TaskTypes, TaskInv, NEW i \in Tasks, pc[i] = "triangles",
           NEW t, t = TrianglesOf(config[i])[drawn[i] + 1]
    PROVE  \A x \in {1, 2, 3} :
               /\ t[x] \in DOMAIN vertList[i] /\ vertList[i][t[x]] \in Key
               /\ Ends(vertList[i][t[x]]) = GridEdge(mVoxels[i], t[x])
  <1> DEFINE S == EdgesOf(config[i])
             T == TrianglesOf(config[i])
  <1>1. T \in Seq(S \X S \X S)
    BY TablesAssumption DEF TaskTypes
  <1>2. drawn[i] \in Nat /\ drawn[i] < Len(T) /\ DOMAIN vertList[i] = S
    BY DEF TaskTypes, TaskInv, TaskOK
  <1>3. t = T[drawn[i] + 1]
    OBVIOUS
  <1> HIDE DEF S, T
  <1>4. drawn[i] + 1 \in 1 .. Len(T)
    BY <1>1, <1>2
  <1>5. t \in S \X S \X S
    BY <1>1, <1>3, <1>4
  <1>6. \A x \in {1, 2, 3} : t[x] \in S
    BY <1>5
  <1>7. QED
    BY <1>2, <1>6 DEF TaskTypes, TaskInv, TaskOK

(* A task that adds a triangle. *)
LEMMA EmitOK ==
    ASSUME scene \in DOMAIN Surfaces, TaskTypes, TaskInv, MeshOK(mesh), NEW i \in Tasks, Emit(i)
    PROVE  TaskTypes' /\ TaskInv' /\ MeshOK(mesh')
  <1> DEFINE t == TrianglesOf(config[i])[drawn[i] + 1]
             k == << vertList[i][t[1]], vertList[i][t[2]], vertList[i][t[3]] >>
             T == TrianglesOf(config[i])
  <1>0. /\ scene' = scene /\ Tasks' = Tasks /\ mVoxels' = mVoxels
        /\ \A j : ConfigIn(scene, mVoxels[j])' = ConfigIn(scene, mVoxels[j])
        /\ \A j, e : GridEdge(mVoxels[j], e)' = GridEdge(mVoxels[j], e)
    BY SameTasks DEF Emit
  <1>1. pc[i] = "triangles" /\ AddsTriangle(mesh, mesh', k)
    BY DEF Emit
  <1>2. k \in Key \X Key \X Key
    BY <1>1, NextTriangle
  <1> HIDE DEF k
  <1>3. MeshOK(mesh')
    BY <1>1, <1>2, AddsTriangleOK
  <1>4. /\ drawn' = [drawn EXCEPT ![i] = drawn[i] + 1]
        /\ pc' = [pc EXCEPT ![i] = IF drawn[i] + 1 = Len(T) THEN "done" ELSE pc[i]]
        /\ config' = config /\ edges' = edges /\ vertList' = vertList
    BY DEF Emit
  <1>5. drawn[i] < Len(T) /\ drawn[i] \in Nat /\ Len(T) \in Nat
    <2>1. T \in Seq(EdgesOf(config[i]) \X EdgesOf(config[i]) \X EdgesOf(config[i]))
      BY TablesAssumption DEF TaskTypes
    <2>2. QED
      BY <1>1, <2>1 DEF TaskTypes, TaskInv, TaskOK
  <1> HIDE DEF T
  <1>6. TaskTypes'
    BY <1>0, <1>4, <1>5 DEF TaskTypes, TaskPc
  <1>7. TaskInv'
    <2>1. TaskOK(i)'
      <3>1. /\ pc'[i] = IF drawn[i] + 1 = Len(T) THEN "done" ELSE "triangles"
            /\ drawn'[i] = drawn[i] + 1
        BY <1>1, <1>4 DEF TaskTypes
      <3>2. TaskOK(i)
        BY DEF TaskInv
      <3>3. drawn[i] + 1 # Len(T) => drawn'[i] < Len(T)
        BY <1>5, <3>1
      <3>4. QED
        BY <1>0, <1>1, <1>4, <3>1, <3>2, <3>3 DEF TaskOK, T
    <2>2. ASSUME NEW j \in Tasks, j # i PROVE TaskOK(j)'
      <3>1. /\ pc'[j] = pc[j] /\ edges'[j] = edges[j] /\ vertList'[j] = vertList[j]
            /\ config'[j] = config[j] /\ drawn'[j] = drawn[j]
        BY <1>4, <2>2 DEF TaskTypes
      <3>2. TaskOK(j)
        BY DEF TaskInv
      <3>3. QED
        BY <1>0, <3>1, <3>2 DEF TaskOK
    <2>3. QED
      BY <1>0, <2>1, <2>2 DEF TaskInv
  <1>8. QED
    BY <1>3, <1>6, <1>7

(* A task whose counter alone moves, between two places before the         *)
(* triangles.                                                              *)
LEMMA MoveOK ==
    ASSUME TaskTypes, TaskInv, NEW i \in Tasks, pc[i] \in {"edges", "compute"},
           NEW p \in {"compute", "inserting"}, pc' = [pc EXCEPT ![i] = p],
           UNCHANGED <<scene, config, edges, vertList, drawn>>
    PROVE  TaskTypes' /\ TaskInv'
  <1>0. /\ scene' = scene /\ Tasks' = Tasks /\ mVoxels' = mVoxels
        /\ \A j : ConfigIn(scene, mVoxels[j])' = ConfigIn(scene, mVoxels[j])
        /\ \A j, e : GridEdge(mVoxels[j], e)' = GridEdge(mVoxels[j], e)
    BY SameTasks
  <1>1. TaskTypes'
    BY <1>0 DEF TaskTypes, TaskPc
  <1>2. ASSUME NEW j \in Tasks PROVE TaskOK(j)'
    <2>1. j # i => pc'[j] = pc[j]
      BY DEF TaskTypes
    <2>2. j = i => pc'[j] = p
      BY DEF TaskTypes
    <2>3. TaskOK(j)
      BY DEF TaskInv
    <2>4. QED
      BY <1>0, <2>1, <2>2, <2>3 DEF TaskOK
  <1>3. QED
    BY <1>0, <1>1, <1>2 DEF TaskInv

(* What a look-up finds is a key already computed or being inserted.       *)
LEMMA EitherFacts ==
    ASSUME NEW k, NEW hits
    PROVE  /\ Either(k, hits) \subseteq {k, Reversed(k)} \cap hits
           /\ Either(k, hits) = {} => k \notin hits /\ Reversed(k) \notin hits
  BY DEF Either

LEMMA LookUpOK ==
    ASSUME scene \in DOMAIN Surfaces, TaskTypes, TaskInv, NEW i \in Tasks, LookUp(i)
    PROVE  TaskTypes' /\ TaskInv'
  <1>1. pc[i] = "edges" /\ edges[i] # {} /\ UNCHANGED <<scene, config, drawn>>
    BY DEF LookUp, TaskInv, TaskOK
  <1>2. PICK hits \in Lookups :
            LET found == Either(NextKey(i), hits) IN
            \/ /\ found # {}
               /\ Take(i, IF NextKey(i) \in found THEN NextKey(i) ELSE Reversed(NextKey(i)))
            \/ /\ found = {}
               /\ pc' = [pc EXCEPT ![i] = "compute"]
               /\ UNCHANGED <<edges, vertList>>
    BY DEF LookUp
  <1>3. CASE pc' = [pc EXCEPT ![i] = "compute"] /\ UNCHANGED <<edges, vertList>>
    BY <1>1, <1>3, MoveOK
  <1>4. CASE Take(i, IF NextKey(i) \in Either(NextKey(i), hits) THEN NextKey(i)
                     ELSE Reversed(NextKey(i)))
    <2> DEFINE k == IF NextKey(i) \in Either(NextKey(i), hits) THEN NextKey(i)
                    ELSE Reversed(NextKey(i))
    <2>1. k \in Key /\ Ends(k) = GridEdge(mVoxels[i], NextEdge(i))
      BY <1>1, NextKeyType
    <2>2. Take(i, k)
      BY <1>4
    <2> HIDE DEF k
    <2>3. QED
      BY <1>1, <2>1, <2>2, TakeOK
  <1>5. QED
    BY <1>2, <1>3, <1>4

LEMMA InvNext == Inv /\ [Next]_vars => Inv'
  <1> SUFFICES ASSUME Inv, [Next]_vars PROVE Inv'
    OBVIOUS
  <1>0. /\ scene \in DOMAIN Surfaces /\ TaskTypes /\ mComputedPoints \subseteq Key
        /\ MeshOK(mesh) /\ TaskInv
    BY DEF Inv
  <1>1. ASSUME NEW i \in Tasks, Start(i)
        PROVE  Inv'
    <2>1. scene' = scene /\ mComputedPoints' = mComputedPoints /\ mesh' = mesh
      BY <1>1 DEF Start
    <2>2. QED
      BY <1>0, <1>1, <2>1, StartOK DEF Inv
  <1>2. ASSUME NEW i \in Tasks, LookUp(i)
        PROVE  Inv'
    <2>1. scene' = scene /\ mComputedPoints' = mComputedPoints /\ mesh' = mesh
      BY <1>2 DEF LookUp
    <2>2. QED
      BY <1>0, <1>2, <2>1, LookUpOK DEF Inv
  <1>3. ASSUME NEW i \in Tasks, Lock(i)
        PROVE  Inv'
    <2>1. /\ scene' = scene /\ mComputedPoints' = mComputedPoints /\ mesh' = mesh
          /\ pc[i] = "compute" /\ pc' = [pc EXCEPT ![i] = "inserting"]
          /\ UNCHANGED <<scene, config, edges, vertList, drawn>>
      BY <1>3 DEF Lock
    <2>2. QED
      BY <1>0, <2>1, MoveOK DEF Inv
  <1>4. ASSUME NEW i \in Tasks, Insert(i)
        PROVE  Inv'
    <2>1. /\ scene' = scene /\ mComputedPoints' = mComputedPoints \cup {NextKey(i)}
          /\ mesh' = mesh /\ pc[i] = "inserting" /\ Take(i, NextKey(i))
          /\ UNCHANGED <<scene, config, drawn>>
      BY <1>4 DEF Insert
    <2>2. NextKey(i) \in Key /\ Ends(NextKey(i)) = GridEdge(mVoxels[i], NextEdge(i))
      BY <1>0, <2>1, NextKeyType DEF TaskInv, TaskOK
    <2>3. QED
      BY <1>0, <2>1, <2>2, TakeOK DEF Inv
  <1>5. ASSUME NEW i \in Tasks, Emit(i)
        PROVE  Inv'
    <2>1. scene' = scene /\ mComputedPoints' = mComputedPoints
      BY <1>5 DEF Emit
    <2>2. QED
      BY <1>0, <1>5, <2>1, EmitOK DEF Inv
  <1>6. CASE UNCHANGED vars
    BY <1>6 DEF vars, Inv, TaskTypes, TaskInv, TaskOK, Tasks, mVoxels, ConfigIn, GridEdge
  <1>7. QED
    BY <1>1, <1>2, <1>3, <1>4, <1>5, <1>6 DEF Next, Task, Joined

LEMMA MeshOKIndexed == MeshOK(mesh) => MeshIndexed
  <1> SUFFICES ASSUME MeshOK(mesh) PROVE MeshIndexed
    OBVIOUS
  <1> DEFINE V == mesh.vertices
             X == mesh.indices
             M == mesh.indexMap
  <1>1. InOrder(V, X, M)
    BY DEF MeshOK
  <1> HIDE DEF V, X, M
  <1>2. DOMAIN V = 1 .. Len(V) /\ DOMAIN X = 1 .. Len(X)
    BY <1>1 DEF InOrder
  <1>3. /\ \A n \in DOMAIN X : X[n] < Len(V)
        /\ \A k \in DOMAIN M : M[k] < Len(V) /\ V[M[k] + 1] = k
        /\ \A n \in DOMAIN V : V[n] \in DOMAIN M /\ M[V[n]] = n - 1
    BY <1>1, <1>2 DEF InOrder
  <1>4. QED
    BY <1>3, Zenon DEF MeshIndexed, vertices, indices, V, X, M

(* However the tasks interleave, and whichever branch is built, every      *)
(* variable keeps its type.                                                *)
THEOREM TypeCorrect == Spec => []TypeOK
  <1>1. Inv => TypeOK
    BY DEF Inv, TypeOK, TaskTypes, MeshOK, InOrder, vertices, indices
  <1>2. QED
    BY <1>1, InvInit, InvNext, PTL DEF Spec

(* However the tasks interleave and whatever their look-ups miss, every    *)
(* index of the mesh names a vertex and indexMap numbers them one to one.  *)
THEOREM IndexedMesh == Spec => []MeshIndexed
  <1>1. Inv => MeshIndexed
    BY MeshOKIndexed DEF Inv
  <1>2. QED
    BY <1>1, InvInit, InvNext, PTL DEF Spec

-----------------------------------------------------------------------------
(* The serial build.                                                       *)

(* The voxels are gone through in order. *)
InSequence ==
    \A i, j \in Tasks : i < j /\ pc[j] # "waiting" => pc[i] = "done"

(* No edge is computed under both its keys. *)
OneKeyPerEdge ==
    \A k \in mComputedPoints : Reversed(k) \in mComputedPoints => Reversed(k) = k

(* A task computes only an edge that has not been.                         *)
StillUnseen(i) ==
    pc[i] \in {"compute", "inserting"} =>
        NextKey(i) \notin mComputedPoints /\ Reversed(NextKey(i)) \notin mComputedPoints

(* What is drawn has been computed. *)
KeysComputed ==
    /\ \A i \in Tasks : \A e \in DOMAIN vertList[i] : vertList[i][e] \in mComputedPoints
    /\ \A n \in DOMAIN mesh.vertices : mesh.vertices[n] \in mComputedPoints

SerialInv ==
    InSequence /\ OneKeyPerEdge /\ (\A i \in Tasks : StillUnseen(i)) /\ KeysComputed

(* While one task is at work, the others have not started or are done. *)
LEMMA AtWorkAlone ==
    ASSUME scene \in DOMAIN Surfaces, InSequence, NEW i \in Tasks, pc[i] \notin {"waiting", "done"}
    PROVE  /\ \A j \in Tasks : j < i => pc[j] = "done"
           /\ \A j \in Tasks : j # i => pc[j] \in {"waiting", "done"}
  <1>1. \A j \in Tasks : j # i => j < i \/ i < j
    BY SurfaceFacts
  <1>2. QED
    BY <1>1 DEF InSequence

LEMMA StaysInSequence ==
    ASSUME scene \in DOMAIN Surfaces, scene' = scene, InSequence, pc \in [Tasks -> TaskPc],
           NEW i \in Tasks, pc[i] # "done", \A j \in Tasks : j < i => pc[j] = "done",
           NEW p, pc' = [pc EXCEPT ![i] = p]
    PROVE  InSequence'
  <1>1. Tasks' = Tasks
    BY SameTasks
  <1>2. \A j \in Tasks : j # i => pc'[j] = pc[j]
    OBVIOUS
  <1>3. \A j \in Tasks : i < j => pc[j] = "waiting"
    BY DEF InSequence
  <1>4. \A j \in Tasks : ~(j < j)
    BY SurfaceFacts
  <1>5. ASSUME NEW a \in Tasks, NEW b \in Tasks, a < b, pc'[b] # "waiting"
        PROVE  pc'[a] = "done"
    <2>1. b # a /\ a # i
      BY <1>2, <1>3, <1>4, <1>5
    <2>2. QED
      BY <1>2, <1>5, <2>1 DEF InSequence
  <1>6. QED
    BY <1>1, <1>5 DEF InSequence

(* The keys of a task that has a key for its next edge.                    *)
LEMMA TakeKeys ==
    ASSUME TaskTypes, KeysComputed, NEW i \in Tasks, NEW k, Take(i, k),
           scene' = scene, mesh' = mesh, mComputedPoints \subseteq mComputedPoints',
           k \in mComputedPoints'
    PROVE  KeysComputed'
  <1>1. Tasks' = Tasks
    BY SameTasks
  <1>2. vertList' = [vertList EXCEPT ![i] =
                       [ e \in DOMAIN vertList[i] \cup {NextEdge(i)} |->
                           IF e = NextEdge(i) THEN k ELSE vertList[i][e] ]]
    BY DEF Take
  <1>3. ASSUME NEW j \in Tasks, NEW e \in DOMAIN vertList'[j]
        PROVE  vertList'[j][e] \in mComputedPoints'
    <2>1. CASE j = i
      BY <1>2, <1>3, <2>1 DEF KeysComputed, TaskTypes
    <2>2. CASE j # i
      BY <1>2, <1>3, <2>2 DEF KeysComputed, TaskTypes
    <2>3. QED
      BY <2>1, <2>2
  <1>4. QED
    BY <1>1, <1>3 DEF KeysComputed

LEMMA SerialInit == Init => SerialInv
  <1> SUFFICES ASSUME Init PROVE SerialInv
    OBVIOUS
  <1>1. mesh.vertices = << >> /\ mComputedPoints = {}
    BY DEF Init, EmptyMesh
  <1>2. \A i \in Tasks : pc[i] = "waiting" /\ vertList[i] = [e \in {} |-> << >>]
    BY DEF Init
  <1>3. QED
    BY <1>1, <1>2 DEF SerialInv, InSequence, OneKeyPerEdge, StillUnseen, KeysComputed

(* The serial part of the invariant, kept by each action of a task at      *)
(* work.  Only that task can be computing, before the step and after it.   *)
LEMMA SerialLookUp ==
    ASSUME Inv, SerialInv, NEW i \in Tasks, LookUp(i)
    PROVE  SerialInv'
  <1>0. pc[i] = "edges" /\ scene' = scene /\ mesh' = mesh /\ mComputedPoints' = mComputedPoints
    BY DEF LookUp
  <1>1. /\ \A j \in Tasks : j < i => pc[j] = "done"
        /\ \A j \in Tasks : j # i => pc[j] \in {"waiting", "done"}
    BY <1>0, AtWorkAlone DEF Inv, SerialInv
  <1>2. Lookups = {mComputedPoints}
    BY <1>0, <1>1 DEF Lookups, Inserting
  <1> DEFINE found == Either(NextKey(i), mComputedPoints)
             k == IF NextKey(i) \in found THEN NextKey(i) ELSE Reversed(NextKey(i))
  <1>3. \/ found # {} /\ Take(i, k)
        \/ found = {} /\ pc' = [pc EXCEPT ![i] = "compute"] /\ UNCHANGED <<edges, vertList>>
    BY <1>2 DEF LookUp
  <1>4. Tasks' = Tasks /\ mVoxels' = mVoxels
    BY <1>0, SameTasks
  <1>5. CASE found # {} /\ Take(i, k)
    <2>1. k \in mComputedPoints
      BY <1>5, EitherFacts
    <2> HIDE DEF k, found
    <2>2. KeysComputed'
      BY <1>0, <1>5, <2>1, TakeKeys DEF Inv, SerialInv
    <2>3. PICK p \in {"triangles", "edges"} : pc' = [pc EXCEPT ![i] = p]
      BY <1>5 DEF Take
    <2>4. InSequence'
      BY <1>0, <1>1, <2>3, StaysInSequence DEF Inv, TaskTypes, SerialInv
    <2>5. \A j \in Tasks : pc'[j] \notin {"compute", "inserting"}
      BY <1>1, <2>3 DEF Inv, TaskTypes
    <2>6. QED
      BY <1>0, <1>4, <2>2, <2>4, <2>5 DEF SerialInv, OneKeyPerEdge, StillUnseen
  <1>6. CASE found = {} /\ pc' = [pc EXCEPT ![i] = "compute"] /\ UNCHANGED <<edges, vertList>>
    <2>1. NextKey(i) \notin mComputedPoints /\ Reversed(NextKey(i)) \notin mComputedPoints
      BY <1>6, EitherFacts
    <2>2. NextKey(i)' = NextKey(i)
      BY <1>4, <1>6 DEF NextKey, NextEdge
    <2>3. InSequence'
      BY <1>0, <1>1, <1>6, StaysInSequence DEF Inv, TaskTypes, SerialInv
    <2>4. \A j \in Tasks : j # i => pc'[j] \notin {"compute", "inserting"}
      BY <1>1, <1>6 DEF Inv, TaskTypes
    <2>5. \A j \in Tasks : StillUnseen(j)'
      BY <1>0, <2>1, <2>2, <2>4 DEF StillUnseen
    <2>6. QED
      BY <1>0, <1>4, <1>6, <2>3, <2>5 DEF SerialInv, OneKeyPerEdge, KeysComputed
  <1>7. QED
    BY <1>3, <1>5, <1>6

LEMMA SerialLock ==
    ASSUME Inv, SerialInv, NEW i \in Tasks, Lock(i)
    PROVE  SerialInv'
  <1>0. /\ pc[i] = "compute" /\ scene' = scene /\ mesh' = mesh
        /\ mComputedPoints' = mComputedPoints
        /\ pc' = [pc EXCEPT ![i] = "inserting"] /\ UNCHANGED <<edges, vertList>>
    BY DEF Lock
  <1>1. /\ \A j \in Tasks : j < i => pc[j] = "done"
        /\ \A j \in Tasks : j # i => pc[j] \in {"waiting", "done"}
    BY <1>0, AtWorkAlone DEF Inv, SerialInv
  <1>2. Tasks' = Tasks /\ mVoxels' = mVoxels
    BY <1>0, SameTasks
  <1>3. NextKey(i)' = NextKey(i)
    BY <1>0, <1>2 DEF NextKey, NextEdge
  <1>4. InSequence'
    BY <1>0, <1>1, StaysInSequence DEF Inv, TaskTypes, SerialInv
  <1>5. \A j \in Tasks : j # i => pc'[j] \notin {"compute", "inserting"}
    BY <1>0, <1>1 DEF Inv, TaskTypes
  <1>6. \A j \in Tasks : StillUnseen(j)'
    BY <1>0, <1>3, <1>5 DEF StillUnseen, SerialInv
  <1>7. QED
    BY <1>0, <1>2, <1>4, <1>6 DEF SerialInv, OneKeyPerEdge, KeysComputed

LEMMA SerialInsert ==
    ASSUME Inv, SerialInv, NEW i \in Tasks, Insert(i)
    PROVE  SerialInv'
  <1> DEFINE k == NextKey(i)
  <1>0. /\ pc[i] = "inserting" /\ scene' = scene /\ mesh' = mesh
        /\ mComputedPoints' = mComputedPoints \cup {k} /\ Take(i, k)
    BY DEF Insert
  <1>1. /\ \A j \in Tasks : j < i => pc[j] = "done"
        /\ \A j \in Tasks : j # i => pc[j] \in {"waiting", "done"}
    BY <1>0, AtWorkAlone DEF Inv, SerialInv
  <1>2. Tasks' = Tasks
    BY <1>0, SameTasks
  <1>3. Reversed(k) \notin mComputedPoints
    BY <1>0 DEF SerialInv, StillUnseen
  <1>4. k \in Key
    BY <1>0, NextKeyType DEF Inv, TaskInv, TaskOK
  <1> HIDE DEF k
  <1>5. KeysComputed'
    BY <1>0, TakeKeys DEF Inv, SerialInv
  <1>6. PICK p \in {"triangles", "edges"} : pc' = [pc EXCEPT ![i] = p]
    BY <1>0 DEF Take
  <1>7. InSequence'
    BY <1>0, <1>1, <1>6, StaysInSequence DEF Inv, TaskTypes, SerialInv
  <1>8. \A j \in Tasks : pc'[j] \notin {"compute", "inserting"}
    BY <1>1, <1>6 DEF Inv, TaskTypes
  <1>9. OneKeyPerEdge'
    <2>1. \A l \in Key : Reversed(Reversed(l)) = l
      BY DEF Reversed, Key
    <2>2. ASSUME NEW l \in mComputedPoints', Reversed(l) \in mComputedPoints'
          PROVE  Reversed(l) = l
      <3>1. CASE l = k
        BY <1>0, <1>3, <2>2, <3>1
      <3>2. CASE l # k /\ Reversed(l) = k
        BY <1>0, <1>3, <2>1, <2>2, <3>2 DEF Inv
      <3>3. CASE l # k /\ Reversed(l) # k
        BY <1>0, <2>2, <3>3 DEF SerialInv, OneKeyPerEdge
      <3>4. QED
        BY <3>1, <3>2, <3>3
    <2>3. QED
      BY <2>2 DEF OneKeyPerEdge
  <1>10. QED
    BY <1>2, <1>5, <1>7, <1>8, <1>9 DEF SerialInv, StillUnseen

LEMMA SerialEmit ==
    ASSUME Inv, SerialInv, NEW i \in Tasks, Emit(i)
    PROVE  SerialInv'
  <1> DEFINE t == TrianglesOf(config[i])[drawn[i] + 1]
             k == << vertList[i][t[1]], vertList[i][t[2]], vertList[i][t[3]] >>
  <1>0. /\ pc[i] = "triangles" /\ scene' = scene /\ mComputedPoints' = mComputedPoints
        /\ UNCHANGED <<edges, vertList>> /\ AddsTriangle(mesh, mesh', k)
    BY DEF Emit
  <1>1. /\ \A j \in Tasks : j < i => pc[j] = "done"
        /\ \A j \in Tasks : j # i => pc[j] \in {"waiting", "done"}
    BY <1>0, AtWorkAlone DEF Inv, SerialInv
  <1>2. Tasks' = Tasks
    BY <1>0, SameTasks
  <1>3. \A x \in {1, 2, 3} : t[x] \in DOMAIN vertList[i] /\ vertList[i][t[x]] \in Key
    BY <1>0, NextTriangle DEF Inv
  <1>4. \A x \in {1, 2, 3} : k[x] \in mComputedPoints /\ k \in Key \X Key \X Key
    BY <1>3 DEF SerialInv, KeysComputed
  <1> HIDE DEF k
  <1>5. \A n \in DOMAIN mesh'.vertices :
            mesh'.vertices[n] \in {k[1], k[2], k[3]}
            \/ (n \in DOMAIN mesh.vertices /\ mesh'.vertices[n] = mesh.vertices[n])
    BY <1>0, <1>4, AddsTriangleOK DEF Inv
  <1>6. KeysComputed'
    BY <1>0, <1>2, <1>4, <1>5 DEF SerialInv, KeysComputed
  <1>7. PICK p \in {"triangles", "done"} : pc' = [pc EXCEPT ![i] = p]
    BY <1>0 DEF Emit
  <1>8. InSequence'
    BY <1>0, <1>1, <1>7, StaysInSequence DEF Inv, TaskTypes, SerialInv
  <1>9. \A j \in Tasks : pc'[j] \notin {"compute", "inserting"}
    BY <1>1, <1>7 DEF Inv, TaskTypes
  <1>10. QED
    BY <1>0, <1>2, <1>6, <1>8, <1>9 DEF SerialInv, OneKeyPerEdge, StillUnseen

LEMMA SerialStart ==
    ASSUME DISABLE_PARALLEL, Inv, SerialInv, NEW i \in Tasks, Start(i)
    PROVE  SerialInv'
  <1>0. /\ pc[i] = "waiting" /\ scene' = scene /\ mComputedPoints' = mComputedPoints
        /\ mesh' = mesh /\ vertList' = vertList
        /\ \A j \in Tasks : j < i => pc[j] = "done"
    BY DEF Start, MayStart
  <1>1. PICK p \in {"done", "edges"} : pc' = [pc EXCEPT ![i] = p]
    BY DEF Start
  <1>2. Tasks' = Tasks /\ mVoxels' = mVoxels
    BY <1>0, SameTasks
  <1>3. InSequence'
    BY <1>0, <1>1, StaysInSequence DEF Inv, TaskTypes, SerialInv
  <1>4. KeysComputed'
    BY <1>0, <1>2 DEF SerialInv, KeysComputed
  <1>5. ASSUME NEW j \in Tasks PROVE StillUnseen(j)'
    <2>1. CASE j = i
      BY <1>1, <2>1 DEF StillUnseen, Inv, TaskTypes
    <2>2. CASE j # i
      <3>1. pc'[j] = pc[j] /\ edges'[j] = edges[j]
        BY <1>1, <2>2 DEF Inv, TaskTypes, Start
      <3>2. NextKey(j)' = NextKey(j)
        BY <1>2, <3>1 DEF NextKey, NextEdge
      <3>3. StillUnseen(j)
        BY DEF SerialInv
      <3>4. QED
        BY <1>0, <3>1, <3>2, <3>3 DEF StillUnseen
    <2>3. QED
      BY <2>1, <2>2
  <1>6. QED
    BY <1>0, <1>2, <1>3, <1>4, <1>5 DEF SerialInv, OneKeyPerEdge

LEMMA SerialNext ==
    ASSUME DISABLE_PARALLEL
    PROVE  Inv /\ SerialInv /\ [Next]_vars => SerialInv'
  <1> SUFFICES ASSUME Inv, SerialInv, [Next]_vars PROVE SerialInv'
    OBVIOUS
  <1>1. CASE UNCHANGED vars
    BY <1>1 DEF vars, SerialInv, InSequence, OneKeyPerEdge, StillUnseen, KeysComputed,
                NextKey, NextEdge, Tasks, mVoxels
  <1>2. CASE \E i \in Tasks : Task(i)
    BY <1>2, SerialStart, SerialLookUp, SerialLock, SerialInsert, SerialEmit DEF Task
  <1>3. QED
    BY <1>1, <1>2 DEF Next, Joined

(* Built without parallelism, the look-up under both keys does what its    *)
(* comment says: no grid edge is given two vertices.                       *)
THEOREM SerialSharesVertices ==
    ASSUME DISABLE_PARALLEL
    PROVE  Spec => []OneVertexPerEdge
  <1>1. Inv /\ SerialInv => OneVertexPerEdge
    <2> SUFFICES ASSUME Inv, SerialInv, NEW m \in DOMAIN vertices, NEW n \in DOMAIN vertices,
                        Ends(vertices[m]) = Ends(vertices[n])
                 PROVE  m = n
      BY DEF OneVertexPerEdge
    <2>1. MeshIndexed
      BY MeshOKIndexed DEF Inv
    <2>2. /\ vertices[m] \in mComputedPoints /\ vertices[n] \in mComputedPoints
          /\ vertices[m] \in Key /\ vertices[n] \in Key
      BY DEF Inv, SerialInv, KeysComputed, vertices
    <2>3. vertices[n] = vertices[m] \/ vertices[n] = Reversed(vertices[m])
      BY <2>2 DEF Ends, Reversed, Key
    <2>4. vertices[n] = vertices[m]
      BY <2>2, <2>3 DEF SerialInv, OneKeyPerEdge
    <2>5. mesh.indexMap[vertices[m]] = m - 1 /\ mesh.indexMap[vertices[n]] = n - 1
      BY <2>1 DEF MeshIndexed
    <2>6. m \in Nat /\ n \in Nat
      BY DEF Inv, MeshOK, InOrder, vertices
    <2>7. QED
      BY <2>4, <2>5, <2>6
  <1>2. QED
    BY <1>1, InvInit, InvNext, SerialInit, SerialNext, PTL DEF Spec

-----------------------------------------------------------------------------
(* What is drawn.                                                          *)

WholeTriangles == Len(mesh.indices) % 3 = 0

LEMMA WholeInit == Init => WholeTriangles
  BY DEF Init, EmptyMesh, WholeTriangles

(* A triangle added to the mesh is a triangle appended to what is drawn.   *)
LEMMA DrawnAppends ==
    ASSUME MeshOK(mesh), WholeTriangles, NEW k \in Key \X Key \X Key, AddsTriangle(mesh, mesh', k)
    PROVE  WholeTriangles' /\ Drawn' = Append(Drawn, << Ends(k[1]), Ends(k[2]), Ends(k[3]) >>)
  <1> DEFINE I == Len(mesh.indices)
             q == I \div 3
             t == << Ends(k[1]), Ends(k[2]), Ends(k[3]) >>
             D(n) == << EdgeAt(3 * n - 2), EdgeAt(3 * n - 1), EdgeAt(3 * n) >>
  <1>1. I \in Nat /\ I = 3 * q /\ q \in Nat
    <2>1. I \in Nat
      BY DEF MeshOK, InOrder
    <2>2. I % 3 = 0
      BY DEF WholeTriangles
    <2> HIDE DEF I
    <2>3. QED
      BY <2>1, <2>2
  <1>2. /\ Len(mesh'.indices) = I + 3
        /\ VertexAt(mesh', I + 1) = k[1] /\ VertexAt(mesh', I + 2) = k[2]
        /\ VertexAt(mesh', I + 3) = k[3]
        /\ \A n \in 1 .. I : VertexAt(mesh', n) = VertexAt(mesh, n)
    BY AddsTriangleOK
  <1>3. \A n : EdgeAt(n) = Ends(VertexAt(mesh, n)) /\ EdgeAt(n)' = Ends(VertexAt(mesh', n))
    BY DEF EdgeAt, VertexAt, vertices, indices, Ends
  <1> HIDE DEF I, q
  <1>4. WholeTriangles'
    BY <1>1, <1>2 DEF WholeTriangles
  <1>5. Len(mesh'.indices) \div 3 = q + 1 /\ Len(mesh.indices) \div 3 = q
    BY <1>1, <1>2 DEF I
  <1>6. Drawn = [ n \in 1 .. q |-> D(n) ]
    BY <1>5 DEF Drawn, indices
  <1>7. Drawn' = [ n \in 1 .. q + 1 |-> D(n)' ]
    BY <1>5 DEF Drawn, indices
  <1>8. \A n \in 1 .. q : D(n)' = D(n)
    <2>1. ASSUME NEW n \in 1 .. q PROVE D(n)' = D(n)
      <3>1. 3 * n - 2 \in 1 .. I /\ 3 * n - 1 \in 1 .. I /\ 3 * n \in 1 .. I
        BY <1>1
      <3>2. QED
        BY <1>2, <1>3, <3>1
    <2>2. QED
      BY <2>1
  <1>9. \A n : n = q + 1 => D(n)' = t
    <2>1. ASSUME NEW n, n = q + 1 PROVE D(n)' = t
      <3>1. 3 * n - 2 = I + 1 /\ 3 * n - 1 = I + 2 /\ 3 * n = I + 3
        BY <1>1, <2>1
      <3>2. QED
        BY <1>2, <1>3, <3>1
    <2>2. QED
      BY <2>1
  <1> HIDE DEF D, t
  <1>10. Drawn' = Append(Drawn, t)
    <2>1. Drawn \in Seq({ D(n) : n \in 1 .. q }) /\ Len(Drawn) = q
      BY <1>1, <1>6
    <2>2. Append(Drawn, t) = [ n \in 1 .. q + 1 |-> IF n = q + 1 THEN t ELSE D(n) ]
      BY <1>1, <1>6, <2>1
    <2>3. \A n \in 1 .. q + 1 : D(n)' = IF n = q + 1 THEN t ELSE D(n)
      BY <1>1, <1>8, <1>9
    <2>4. QED
      BY <1>7, <2>2, <2>3
  <1>11. QED
    BY <1>4, <1>10 DEF t

(* The next triangle of a task's voxel, as its patch has it.               *)
LEMMA NextOfPatch ==
    ASSUME scene \in DOMAIN Surfaces, TaskTypes, TaskInv, NEW i \in Tasks, pc[i] = "triangles",
           NEW t, t = TrianglesOf(config[i])[drawn[i] + 1]
    PROVE  /\ i \in DOMAIN Patches(scene)
           /\ drawn[i] < Len(Patches(scene)[i])
           /\ Patches(scene)[i][drawn[i] + 1] =
                 << GridEdge(mVoxels[i], t[1]), GridEdge(mVoxels[i], t[2]), GridEdge(mVoxels[i], t[3]) >>
  <1> DEFINE T == TrianglesOf(config[i])
             v == mVoxels[i]
             P == [ n \in 1 .. Len(T) |->
                      << GridEdge(v, T[n][1]), GridEdge(v, T[n][2]), GridEdge(v, T[n][3]) >> ]
  <1>1. i \in DOMAIN Patches(scene) /\ Patches(scene)[i] = Patch(scene, v)
    BY DEF Patches, Tasks, mVoxels
  <1>2. config[i] = ConfigIn(scene, v) /\ drawn[i] \in Nat /\ drawn[i] < Len(T)
    BY DEF TaskInv, TaskOK, TaskTypes
  <1>3. Patch(scene, v) = P
    BY <1>2 DEF Patch
  <1>4. T \in Seq(EdgesOf(config[i]) \X EdgesOf(config[i]) \X EdgesOf(config[i]))
    BY TablesAssumption DEF TaskTypes
  <1>5. t = T[drawn[i] + 1]
    OBVIOUS
  <1> HIDE DEF T, v
  <1>6. Len(T) \in Nat /\ drawn[i] + 1 \in 1 .. Len(T)
    BY <1>2, <1>4
  <1>7. P \in Seq({ P[n] : n \in 1 .. Len(T) }) /\ Len(P) = Len(T)
    BY <1>6
  <1>8. P[drawn[i] + 1] = << GridEdge(v, t[1]), GridEdge(v, t[2]), GridEdge(v, t[3]) >>
    BY <1>5, <1>6
  <1> HIDE DEF P
  <1>9. QED
    BY <1>1, <1>2, <1>3, <1>7, <1>8 DEF v

LEMMA DrawnInit == Init => Soup!Init
  <1> SUFFICES ASSUME Init PROVE Soup!Init
    OBVIOUS
  <1>1. scene \in DOMAIN Surfaces /\ drawn = [i \in Tasks |-> 0] /\ indices = << >>
    BY DEF Init, EmptyMesh, indices
  <1>2. Tasks = DOMAIN Patches(scene)
    BY DEF Tasks, mVoxels, Patches
  <1>3. Drawn = << >>
    <2>1. Len(indices) \div 3 = 0
      BY <1>1
    <2>2. Drawn = [ n \in 1 .. 0 |-> << EdgeAt(3 * n - 2), EdgeAt(3 * n - 1), EdgeAt(3 * n) >> ]
      BY <2>1 DEF Drawn
    <2> DEFINE D(n) == << EdgeAt(3 * n - 2), EdgeAt(3 * n - 1), EdgeAt(3 * n) >>
    <2> HIDE DEF D
    <2>3. [ n \in 1 .. 0 |-> D(n) ] = << >>
      OBVIOUS
    <2>4. QED
      BY <2>2, <2>3 DEF D
  <1>4. QED
    BY <1>1, <1>2, <1>3 DEF Soup!Init

LEMMA DrawnNext ==
    Inv /\ WholeTriangles /\ [Next]_vars =>
        WholeTriangles' /\ [Soup!Next]_(Soup!vars)
  <1> SUFFICES ASSUME Inv, WholeTriangles, [Next]_vars
               PROVE  WholeTriangles' /\ [Soup!Next]_(Soup!vars)
    OBVIOUS
  <1>1. ASSUME UNCHANGED <<scene, drawn, mesh>>
        PROVE  WholeTriangles' /\ [Soup!Next]_(Soup!vars)
    <2>1. Drawn' = Drawn
      BY <1>1 DEF Drawn, EdgeAt, Ends, vertices, indices
    <2>2. QED
      BY <1>1, <2>1 DEF WholeTriangles, Soup!vars
  <1>2. ASSUME NEW i \in Tasks, Emit(i)
        PROVE  WholeTriangles' /\ [Soup!Next]_(Soup!vars)
    <2> DEFINE t == TrianglesOf(config[i])[drawn[i] + 1]
               k == << vertList[i][t[1]], vertList[i][t[2]], vertList[i][t[3]] >>
               P == Patches(scene)[i]
    <2>1. /\ pc[i] = "triangles" /\ AddsTriangle(mesh, mesh', k) /\ scene' = scene
          /\ drawn' = [drawn EXCEPT ![i] = drawn[i] + 1]
      BY <1>2 DEF Emit
    <2>2. \A x \in {1, 2, 3} : vertList[i][t[x]] \in Key
                               /\ Ends(vertList[i][t[x]]) = GridEdge(mVoxels[i], t[x])
      BY <2>1, NextTriangle DEF Inv
    <2>3. /\ k \in Key \X Key \X Key
          /\ << Ends(k[1]), Ends(k[2]), Ends(k[3]) >> =
                << GridEdge(mVoxels[i], t[1]), GridEdge(mVoxels[i], t[2]), GridEdge(mVoxels[i], t[3]) >>
      BY <2>2
    <2>4. /\ i \in DOMAIN Patches(scene) /\ drawn[i] < Len(P)
          /\ P[drawn[i] + 1] =
                << GridEdge(mVoxels[i], t[1]), GridEdge(mVoxels[i], t[2]), GridEdge(mVoxels[i], t[3]) >>
      BY <2>1, NextOfPatch DEF Inv
    <2> HIDE DEF k, t, P
    <2>5. /\ WholeTriangles'
          /\ Drawn' = Append(Drawn, << Ends(k[1]), Ends(k[2]), Ends(k[3]) >>)
      BY <2>1, <2>3, DrawnAppends DEF Inv
    <2>6. Drawn' = Append(Drawn, P[drawn[i] + 1])
      BY <2>3, <2>4, <2>5
    <2>7. Soup!Draw(i)
      BY <2>1, <2>4, <2>6 DEF Soup!Draw, P
    <2>8. QED
      BY <2>4, <2>5, <2>7 DEF Soup!Next
  <1>3. CASE UNCHANGED vars
    BY <1>1, <1>3 DEF vars
  <1>4. ASSUME NEW i \in Tasks, Start(i) \/ LookUp(i) \/ Lock(i) \/ Insert(i)
        PROVE  UNCHANGED <<scene, drawn, mesh>>
    BY <1>4 DEF Start, LookUp, Lock, Insert
  <1>5. QED
    BY <1>1, <1>2, <1>3, <1>4 DEF Next, Task, Joined

(* Whatever vertices are doubled by the race, the triangles that are drawn *)
(* are those of the tables, each once and each voxel's in order.           *)
THEOREM MeshIsSoup == Spec => ImplementsTriangleSoup
  BY InvInit, InvNext, WholeInit, DrawnInit, DrawnNext, PTL
     DEF Spec, ImplementsTriangleSoup, Soup!Spec

-----------------------------------------------------------------------------
(* The surface that is drawn.                                              *)

(* Which triangle of which voxel each triangle drawn is: f numbers those   *)
(* drawn, each once.                                                       *)
Emitted == { p \in Tasks \X Nat : p[2] \in 1 .. drawn[p[1]] }
Numbers(f) ==
    /\ f \in [1 .. Len(Drawn) -> Emitted]
    /\ \A p \in Emitted : \E n \in 1 .. Len(Drawn) : f[n] = p
    /\ \A m, n \in 1 .. Len(Drawn) : f[m] = f[n] => m = n
    /\ \A n \in 1 .. Len(Drawn) : Drawn[n] = Patches(scene)[f[n][1]][f[n][2]]
Numbered == \E f : Numbers(f)

(* What is drawn is a sequence: one triangle for three indices. *)
LEMMA DrawnLength ==
    ASSUME Inv
    PROVE  /\ Len(Drawn) = Len(indices) \div 3 /\ Len(Drawn) \in Nat
           /\ \E T : Drawn \in Seq(T)
  <1> DEFINE q == Len(indices) \div 3
             D(n) == << EdgeAt(3 * n - 2), EdgeAt(3 * n - 1), EdgeAt(3 * n) >>
  <1>1. q \in Nat
    <2>1. Len(indices) \in Nat
      BY DEF Inv, MeshOK, InOrder, indices
    <2>2. QED
      BY <2>1
  <1>2. Drawn = [ n \in 1 .. q |-> D(n) ]
    BY DEF Drawn
  <1> HIDE DEF q, D
  <1>3. Drawn \in Seq({ D(n) : n \in 1 .. q }) /\ Len(Drawn) = q
    BY <1>1, <1>2
  <1>4. QED
    BY <1>1, <1>3 DEF q

LEMMA NumberedInit == Init => Numbered
  <1> SUFFICES ASSUME Init PROVE Numbered
    OBVIOUS
  <1>1. Len(Drawn) = 0
    <2>1. Inv
      BY InvInit
    <2>2. indices = << >>
      BY DEF Init, EmptyMesh, indices
    <2>3. QED
      BY <2>1, <2>2, DrawnLength
  <1>2. Emitted = {}
    BY DEF Init, Emitted
  <1>3. Numbers([n \in 1 .. 0 |-> << >>])
    BY <1>1, <1>2 DEF Numbers
  <1>4. QED
    BY <1>3 DEF Numbered

LEMMA NumberedDraw ==
    ASSUME Inv, Numbered, NEW i \in Tasks, Soup!Draw(i)
    PROVE  Numbered'
  <1> DEFINE N == Len(Drawn)
             p == << i, drawn[i] + 1 >>
  <1>1. N \in Nat /\ \E T : Drawn \in Seq(T)
    BY DrawnLength
  <1>2. PICK f : Numbers(f)
    BY DEF Numbered
  <1>3. /\ scene' = scene /\ drawn' = [drawn EXCEPT ![i] = @ + 1]
        /\ Drawn' = Append(Drawn, Patches(scene)[i][drawn[i] + 1])
    BY DEF Soup!Draw
  <1>4. drawn \in [Tasks -> Nat] /\ Tasks' = Tasks /\ Patches(scene)' = Patches(scene)
    BY <1>3 DEF Inv, TaskTypes, Tasks, mVoxels, Patches
  <1>5. /\ Len(Drawn') = N + 1 /\ Drawn'[N + 1] = Patches(scene)[p[1]][p[2]]
        /\ \A n \in 1 .. N : Drawn'[n] = Drawn[n]
    <2>1. PICK T : Drawn \in Seq(T)
      BY <1>1
    <2>2. QED
      BY <1>3, <2>1
  <1> HIDE DEF N
  <1>6. Emitted' = Emitted \cup {p} /\ p \notin Emitted
    <2>1. \A q \in Tasks \X Nat : q[2] \in 1 .. drawn'[q[1]] <=> q[2] \in 1 .. drawn[q[1]] \/ q = p
      <3> SUFFICES ASSUME NEW j \in Tasks, NEW t \in Nat
                   PROVE  t \in 1 .. drawn'[j] <=> t \in 1 .. drawn[j] \/ << j, t >> = p
        OBVIOUS
      <3>1. drawn[j] \in Nat /\ drawn'[j] = IF j = i THEN drawn[j] + 1 ELSE drawn[j]
        BY <1>3, <1>4
      <3>2. QED
        BY <3>1
    <2>2. p \in Tasks \X Nat
      BY <1>4
    <2>3. drawn[i] \in Nat
      BY <1>4
    <2>4. QED
      BY <1>4, <2>1, <2>2, <2>3 DEF Emitted
  <1>7. /\ f \in [1 .. N -> Emitted]
        /\ \A q \in Emitted : \E n \in 1 .. N : f[n] = q
        /\ \A m, n \in 1 .. N : f[m] = f[n] => m = n
        /\ \A n \in 1 .. N : Drawn[n] = Patches(scene)[f[n][1]][f[n][2]]
    BY <1>2 DEF Numbers, N
  <1>8. PICK g : g = [n \in 1 .. N + 1 |-> IF n = N + 1 THEN p ELSE f[n]]
    OBVIOUS
  <1>9. N \in Nat
    BY <1>1 DEF N
  <1> HIDE DEF p
  <1>10. /\ g[N + 1] = p /\ N + 1 \in 1 .. N + 1
         /\ \A n \in 1 .. N : n \in 1 .. N + 1 /\ g[n] = f[n] /\ f[n] \in Emitted
         /\ \A n \in 1 .. N + 1 : n \in 1 .. N \/ n = N + 1
    BY <1>7, <1>8, <1>9
  <1>11. g \in [1 .. N + 1 -> Emitted']
    <2>1. \A n \in 1 .. N + 1 : g[n] \in Emitted'
      BY <1>6, <1>10
    <2>2. QED
      BY <1>8, <2>1
  <1>12. \A q \in Emitted' : \E n \in 1 .. N + 1 : g[n] = q
    BY <1>6, <1>7, <1>10
  <1>13. ASSUME NEW m \in 1 .. N + 1, NEW n \in 1 .. N + 1, g[m] = g[n]
         PROVE  m = n
    <2>1. CASE m \in 1 .. N /\ n \in 1 .. N
      BY <1>7, <1>10, <1>13, <2>1
    <2>2. CASE m = N + 1 \/ n = N + 1
      BY <1>6, <1>10, <1>13, <2>2
    <2>3. QED
      BY <1>10, <2>1, <2>2
  <1>14. \A n \in 1 .. N + 1 : Drawn'[n] = Patches(scene)[g[n][1]][g[n][2]]
    <2>1. ASSUME NEW n \in 1 .. N
          PROVE  Drawn'[n] = Patches(scene)[g[n][1]][g[n][2]]
      BY <1>5, <1>7, <1>10
    <2>2. Drawn'[N + 1] = Patches(scene)[g[N + 1][1]][g[N + 1][2]]
      BY <1>5, <1>10
    <2>3. QED
      BY <1>10, <2>1, <2>2
  <1>15. Numbers(g)'
    BY <1>3, <1>4, <1>5, <1>11, <1>12, <1>13, <1>14 DEF Numbers
  <1>16. QED
    BY <1>15 DEF Numbered

LEMMA NumberedNext == Inv /\ WholeTriangles /\ Numbered /\ [Next]_vars => Numbered'
  <1> SUFFICES ASSUME Inv, WholeTriangles, Numbered, [Next]_vars PROVE Numbered'
    OBVIOUS
  <1>1. [Soup!Next]_(Soup!vars)
    BY DrawnNext
  <1>2. CASE Soup!Next
    <2>1. PICK i \in DOMAIN Patches(scene) : Soup!Draw(i)
      BY <1>2 DEF Soup!Next
    <2>2. i \in Tasks
      BY <2>1 DEF Patches, Tasks, mVoxels
    <2>3. QED
      BY <2>1, <2>2, NumberedDraw
  <1>3. CASE UNCHANGED Soup!vars
    <2>1. scene' = scene /\ drawn' = drawn /\ Drawn' = Drawn
      BY <1>3 DEF Soup!vars
    <2>2. Emitted' = Emitted /\ Patches(scene)' = Patches(scene)
      BY <2>1 DEF Emitted, Tasks, mVoxels, Patches
    <2>3. PICK f : Numbers(f)
      BY DEF Numbered
    <2>4. Numbers(f)'
      BY <2>1, <2>2, <2>3 DEF Numbers
    <2>5. QED
      BY <2>4 DEF Numbered
  <1>4. QED
    BY <1>1, <1>2, <1>3

(* The corners of the triangles, by their place in indices. *)
First(n, k)  == 3 * n - 3 + k
Second(n, k) == 3 * n - 3 + (IF k = 3 THEN 1 ELSE k + 1)
PlaceIn(n, k) == << First(n, k), Second(n, k) >>

LEMMA SidesOfDrawn ==
    ASSUME Inv, WholeTriangles
    PROVE  /\ \A s : s \in Sides <=> \E n \in 1 .. Len(Drawn), k \in 1 .. 3 : s = PlaceIn(n, k)
           /\ \A n \in 1 .. Len(Drawn), k \in 1 .. 3 :
                 /\ EdgeAt(First(n, k)) = Drawn[n][k]
                 /\ EdgeAt(Second(n, k)) = Drawn[n][(k % 3) + 1]
  <1> DEFINE I == Len(indices)
             N == Len(Drawn)
  <1>1. I \in Nat /\ N \in Nat /\ N = I \div 3 /\ I % 3 = 0 /\ DOMAIN indices = 1 .. I
    BY DrawnLength DEF Inv, MeshOK, InOrder, indices, WholeTriangles
  <1>2. Drawn = [ n \in 1 .. N |-> << EdgeAt(3 * n - 2), EdgeAt(3 * n - 1), EdgeAt(3 * n) >> ]
    BY <1>1 DEF Drawn
  <1>3. Sides = { << n, IF n % 3 = 0 THEN n - 2 ELSE n + 1 >> : n \in 1 .. I }
    BY <1>1 DEF Sides
  <1> HIDE DEF I, N
  <1>4. I = 3 * N
    BY <1>1
  <1>5. ASSUME NEW n \in 1 .. N, NEW k \in 1 .. 3
        PROVE  /\ First(n, k) \in 1 .. I
               /\ Second(n, k) = IF First(n, k) % 3 = 0 THEN First(n, k) - 2 ELSE First(n, k) + 1
    <2>1. n \in Nat /\ N \in Nat /\ k \in {1, 2, 3}
      BY <1>1
    <2>2. First(n, k) \in 1 .. I
      BY <1>1, <1>4, <2>1 DEF First
    <2>3. CASE k = 1
      <3>1. (3 * n - 3 + 1) % 3 # 0 /\ (3 * n - 3 + 1) + 1 = 3 * n - 3 + 2
        BY <2>1
      <3>2. QED
        BY <2>2, <2>3, <3>1 DEF First, Second
    <2>4. CASE k = 2
      <3>1. (3 * n - 3 + 2) % 3 # 0 /\ (3 * n - 3 + 2) + 1 = 3 * n - 3 + 3
        BY <2>1
      <3>2. QED
        BY <2>2, <2>4, <3>1 DEF First, Second
    <2>5. CASE k = 3
      <3>1. (3 * n - 3 + 3) % 3 = 0 /\ (3 * n - 3 + 3) - 2 = 3 * n - 3 + 1
        BY <2>1
      <3>2. QED
        BY <2>2, <2>5, <3>1 DEF First, Second
    <2>6. QED
      BY <2>1, <2>3, <2>4, <2>5, <2>2
  <1>6. ASSUME NEW m \in 1 .. I
        PROVE  \E n \in 1 .. N, k \in 1 .. 3 : m = First(n, k)
    <2>1. m \in Nat /\ m >= 1 /\ m <= 3 * N
      BY <1>1, <1>4
    <2> DEFINE n == (m + 2) \div 3
               k == m - 3 * n + 3
    <2>2. n \in 1 .. N /\ k \in 1 .. 3
      BY <1>1, <2>1
    <2>3. 3 * n - 3 + k = m
      BY <1>1, <2>1, <2>2
    <2> HIDE DEF n, k
    <2>4. QED
      BY <2>2, <2>3 DEF First
  <1>7. \A s : s \in Sides <=> \E n \in 1 .. N, k \in 1 .. 3 : s = PlaceIn(n, k)
    <2>1. ASSUME NEW s \in Sides PROVE \E n \in 1 .. N, k \in 1 .. 3 : s = PlaceIn(n, k)
      <3>1. PICK m \in 1 .. I : s = << m, IF m % 3 = 0 THEN m - 2 ELSE m + 1 >>
        BY <1>3
      <3>2. PICK n \in 1 .. N, k \in 1 .. 3 : m = First(n, k)
        BY <1>6
      <3>3. QED
        BY <1>5, <3>1, <3>2 DEF PlaceIn
    <2>2. ASSUME NEW n \in 1 .. N, NEW k \in 1 .. 3 PROVE PlaceIn(n, k) \in Sides
      BY <1>3, <1>5 DEF PlaceIn
    <2>3. QED
      BY <2>1, <2>2
  <1>8. ASSUME NEW n \in 1 .. N, NEW k \in 1 .. 3
        PROVE  /\ EdgeAt(First(n, k)) = Drawn[n][k]
               /\ EdgeAt(Second(n, k)) = Drawn[n][(k % 3) + 1]
    <2>1. n \in Nat /\ k \in {1, 2, 3}
      BY <1>1
    <2>2. /\ Drawn[n][1] = EdgeAt(3 * n - 2) /\ Drawn[n][2] = EdgeAt(3 * n - 1)
          /\ Drawn[n][3] = EdgeAt(3 * n)
      BY <1>2
    <2>3. 3 * n - 3 + 1 = 3 * n - 2 /\ 3 * n - 3 + 2 = 3 * n - 1 /\ 3 * n - 3 + 3 = 3 * n
      BY <2>1
    <2>4. (1 % 3) + 1 = 2 /\ (2 % 3) + 1 = 3 /\ (3 % 3) + 1 = 1
      OBVIOUS
    <2>5. CASE k = 1
      BY <2>2, <2>3, <2>4, <2>5 DEF First, Second
    <2>6. CASE k = 2
      BY <2>2, <2>3, <2>4, <2>6 DEF First, Second
    <2>7. CASE k = 3
      BY <2>2, <2>3, <2>4, <2>7 DEF First, Second
    <2>8. QED
      BY <2>1, <2>5, <2>6, <2>7
  <1>9. QED
    BY <1>7, <1>8 DEF N

(* The surface drawn: the voxels of the scene, whose tables say what of    *)
(* them is drawn.                                                          *)
VoxelsDrawn == { mVoxels[i] : i \in Tasks }
LowPoints   == Surfaces[scene].below
RowAt(v)    == RowOf(LowPoints, v)

LEMMA ConfigIsRow ==
    ASSUME NEW v
    PROVE  ConfigIn(scene, v) = RowAt(v) /\ \A e : GridEdge(v, e) = PairOf(v, e)
  BY DEF ConfigIn, RowAt, RowOf, LowCorners, LowPoints, GridEdge, PairOf

(* The triangles of a patch, corner by corner. *)
LEMMA CornerOfPatch ==
    ASSUME Inv, NEW i \in Tasks, NEW t \in 1 .. Len(TrianglesOf(RowAt(mVoxels[i]))), NEW k \in 1 .. 3
    PROVE  /\ << t, k >> \in Place(RowAt(mVoxels[i]))
           /\ Patches(scene)[i][t][k] = SideIn(mVoxels[i], SideAt(RowAt(mVoxels[i]), << t, k >>))[1]
           /\ Patches(scene)[i][t][(k % 3) + 1]
                = SideIn(mVoxels[i], SideAt(RowAt(mVoxels[i]), << t, k >>))[2]
  <1> DEFINE v == mVoxels[i]
             T == TrianglesOf(RowAt(v))
             P == [ n \in 1 .. Len(T) |->
                      << GridEdge(v, T[n][1]), GridEdge(v, T[n][2]), GridEdge(v, T[n][3]) >> ]
  <1>1. Patches(scene)[i] = Patch(scene, v)
    BY DEF Patches, Tasks, mVoxels
  <1>2. Patch(scene, v) = P
    BY ConfigIsRow DEF Patch
  <1>3. RowAt(v) \in Config
    <2>1. LowCorners(LowPoints, v) \in SUBSET CornerIndex
      BY DEF LowCorners
    <2>2. QED
      BY <2>1, RowType DEF RowAt, RowOf
  <1>4. T \in Seq(EdgesOf(RowAt(v)) \X EdgesOf(RowAt(v)) \X EdgesOf(RowAt(v)))
    BY <1>3, TablesAssumption
  <1> HIDE DEF v, T
  <1>5. DOMAIN T = 1 .. Len(T)
    BY <1>4
  <1>6. P[t] = << GridEdge(v, T[t][1]), GridEdge(v, T[t][2]), GridEdge(v, T[t][3]) >>
    BY DEF T, v
  <1> HIDE DEF P
  <1>7. \A j \in {1, 2, 3} : P[t][j] = PairOf(v, T[t][j])
    <2>1. \A e : GridEdge(v, e) = PairOf(v, e)
      BY ConfigIsRow
    <2>2. /\ P[t][1] = GridEdge(v, T[t][1]) /\ P[t][2] = GridEdge(v, T[t][2])
          /\ P[t][3] = GridEdge(v, T[t][3])
      BY <1>6
    <2>3. QED
      BY <2>1, <2>2
  <1>8. k \in {1, 2, 3} /\ (k % 3) + 1 \in {1, 2, 3}
    <2>1. k \in {1, 2, 3}
      OBVIOUS
    <2>2. QED
      BY <2>1
  <1>9. << t, k >> \in Place(RowAt(v))
    BY <1>5 DEF Place, T, v
  <1>10. SideIn(v, SideAt(RowAt(v), << t, k >>)) = << PairOf(v, T[t][k]), PairOf(v, T[t][(k % 3) + 1]) >>
    BY DEF SideIn, SideAt, T
  <1>11. QED
    BY <1>1, <1>2, <1>7, <1>8, <1>9, <1>10 DEF v

LEMMA PlaceInInjective ==
    ASSUME NEW m \in Nat, NEW n \in Nat, NEW k \in 1 .. 3, NEW l \in 1 .. 3,
           PlaceIn(m, k) = PlaceIn(n, l)
    PROVE  m = n /\ k = l
  <1>1. First(m, k) = First(n, l)
    BY DEF PlaceIn
  <1>2. 3 * m - 3 + k = 3 * n - 3 + l
    BY <1>1 DEF First
  <1>3. QED
    BY <1>2

(* Inside the grid the march went on: the voxels that a side lies between  *)
(* are both drawn.                                                         *)
LEMMA BeyondIsDrawn ==
    ASSUME Inv, NEW v \in VoxelsDrawn, NEW s \in SidesOf[RowAt(v)], NEW z,
           EdgeAt(z[1]) = SideIn(v, s)[1], EdgeAt(z[2]) = SideIn(v, s)[2], ~OnBorder(z),
           NEW n \in NeighbourIndex, OnFace(n, s[1]), OnFace(n, s[2])
    PROVE  Neighbour(v, n) \in VoxelsDrawn
  <1>1. v \in Cell
    BY SurfaceFacts DEF Inv, VoxelsDrawn
  <1>2. LowCorners(LowPoints, v) \in SUBSET CornerIndex
    BY DEF LowCorners
  <1>3. /\ s[1] \in EdgeIndex /\ s[2] \in EdgeIndex
        /\ EdgeEnds[s[1] + 1][1] \in LowCorners(LowPoints, v)
             <=> EdgeEnds[s[1] + 1][2] \notin LowCorners(LowPoints, v)
    BY <1>2, SidesType DEF RowAt, RowOf
  <1> DEFINE ends == PairOf(v, s[1]) \cup PairOf(v, s[2])
  <1>4. ends = EdgeAt(z[1]) \cup EdgeAt(z[2])
    BY DEF SideIn
  <1>5. \A p \in ends : p \in PointId
    <2>1. EdgeEnds[s[1] + 1][1] \in CornerIndex /\ EdgeEnds[s[1] + 1][2] \in CornerIndex
          /\ EdgeEnds[s[2] + 1][1] \in CornerIndex /\ EdgeEnds[s[2] + 1][2] \in CornerIndex
      BY <1>3, EdgeEndsType
    <2>2. QED
      BY <1>1, <2>1, CornerIsPoint DEF PairOf
  <1> HIDE DEF ends
  <1>6. \A p \in ends, k \in 1 .. 3 : p[k] <= GridSize
    <2> SUFFICES ASSUME NEW p \in ends, NEW k \in 1 .. 3 PROVE p[k] <= GridSize
      OBVIOUS
    <2>1. p[k] \in 0 .. GridSize + 1
      <3>1. p \in PointId /\ k \in {1, 2, 3}
        BY <1>5
      <3>2. QED
        BY <3>1 DEF PointId
    <2>2. ~(p[k] > GridSize)
      BY <1>4 DEF OnBorder
    <2>3. QED
      BY <2>1, <2>2, GridSizeAssumption
  <1>7. \A k \in 1 .. 3, b \in {0, GridSize} : \E p \in ends : p[k] # b
    BY <1>4 DEF OnBorder
  <1>8. validVoxel(Neighbour(v, n))
    BY <1>1, <1>3, <1>6, <1>7, BeyondIsValid DEF ends
  <1>9. \E c, d \in FaceCorners[n] : Corner(v, c) \in LowPoints /\ Corner(v, d) \notin LowPoints
    <2> DEFINE c == EdgeEnds[s[1] + 1][1]
               d == EdgeEnds[s[1] + 1][2]
    <2>1. c \in FaceCorners[n] /\ d \in FaceCorners[n]
      BY DEF OnFace
    <2>2. c \in CornerIndex /\ d \in CornerIndex
      BY <1>3, EdgeEndsType
    <2>3. c \in LowCorners(LowPoints, v) <=> d \notin LowCorners(LowPoints, v)
      BY <1>3
    <2> HIDE DEF c, d
    <2>4. Corner(v, c) \in LowPoints <=> Corner(v, d) \notin LowPoints
      BY <2>2, <2>3 DEF LowCorners
    <2>5. QED
      BY <2>1, <2>4
  <1>10. VoxelsDrawn = { Surfaces[scene].voxels[i] : i \in DOMAIN Surfaces[scene].voxels }
    BY DEF VoxelsDrawn, mVoxels, Tasks
  <1>11. Continues(LowPoints, VoxelsDrawn)
    BY <1>10, WholeAssumption DEF Inv, LowPoints
  <1>12. QED
    BY <1>8, <1>9, <1>11 DEF Continues

LEMMA ClosedWhenFinished == Inv /\ WholeTriangles /\ Numbered => SurfaceClosed
  <1> SUFFICES ASSUME Inv, WholeTriangles, Numbered, Finished, NEW s \in Sides, ~OnBorder(s)
               PROVE  \E r \in Sides : \A q \in Sides :
                          (EdgeAt(q[1]) = EdgeAt(s[2]) /\ EdgeAt(q[2]) = EdgeAt(s[1])) <=> q = r
    BY DEF SurfaceClosed
  <1> DEFINE N == Len(Drawn)
  <1>0. N \in Nat
    BY DrawnLength
  <1>1. PICK f : Numbers(f)
    BY DEF Numbered
  <1> DEFINE Vox(n) == mVoxels[f[n][1]]
             Pl(n, k) == << f[n][2], k >>
             SideOf(x, r) == SideIn(x, SideAt(RowAt(x), r))
  <1>2. \A i \in Tasks : drawn[i] = Len(TrianglesOf(RowAt(mVoxels[i]))) /\ drawn[i] \in Nat
    <2> SUFFICES ASSUME NEW i \in Tasks
                 PROVE  drawn[i] = Len(TrianglesOf(RowAt(mVoxels[i]))) /\ drawn[i] \in Nat
      OBVIOUS
    <2>1. pc[i] = "done" /\ drawn[i] \in Nat
      BY DEF Finished, Inv, TaskTypes
    <2>2. drawn[i] = Len(TrianglesOf(config[i])) /\ config[i] = ConfigIn(scene, mVoxels[i])
      BY <2>1 DEF Inv, TaskInv, TaskOK
    <2>3. QED
      BY <2>1, <2>2, ConfigIsRow
  <1>3. ASSUME NEW n \in 1 .. N
        PROVE  /\ f[n][1] \in Tasks /\ f[n][2] \in 1 .. Len(TrianglesOf(RowAt(Vox(n))))
               /\ f[n] = << f[n][1], f[n][2] >>
               /\ Drawn[n] = Patches(scene)[f[n][1]][f[n][2]]
    <2>1. f[n] \in Emitted /\ Drawn[n] = Patches(scene)[f[n][1]][f[n][2]]
      BY <1>1 DEF Numbers
    <2>2. QED
      BY <1>2, <2>1 DEF Emitted
  <1>4. ASSUME NEW n \in 1 .. N, NEW k \in 1 .. 3
        PROVE  /\ Vox(n) \in VoxelsDrawn /\ Pl(n, k) \in Place(RowAt(Vox(n)))
               /\ EdgeAt(First(n, k)) = SideOf(Vox(n), Pl(n, k))[1]
               /\ EdgeAt(Second(n, k)) = SideOf(Vox(n), Pl(n, k))[2]
    <2>1. /\ EdgeAt(First(n, k)) = Drawn[n][k] /\ EdgeAt(Second(n, k)) = Drawn[n][(k % 3) + 1]
      BY SidesOfDrawn
    <2>2. Vox(n) \in VoxelsDrawn
      BY <1>3 DEF VoxelsDrawn
    <2>3. QED
      BY <1>3, <2>1, <2>2, CornerOfPatch
  <1>5. ASSUME NEW x \in VoxelsDrawn, NEW r \in Place(RowAt(x))
        PROVE  \E n \in 1 .. N, k \in 1 .. 3 : Vox(n) = x /\ Pl(n, k) = r
    <2>1. PICK i \in Tasks : x = mVoxels[i]
      BY DEF VoxelsDrawn
    <2>2. r[1] \in DOMAIN TrianglesOf(RowAt(x)) /\ r[2] \in 1 .. 3 /\ r = << r[1], r[2] >>
      BY DEF Place
    <2>3. RowAt(x) \in Config
      <3>1. LowCorners(LowPoints, x) \in SUBSET CornerIndex
        BY DEF LowCorners
      <3>2. QED
        BY <3>1, RowType DEF RowAt, RowOf
    <2> DEFINE T == TrianglesOf(RowAt(x))
               E == EdgesOf(RowAt(x))
    <2>4. T \in Seq(E \X E \X E)
      BY <2>3, TablesAssumption
    <2>5. r[1] \in 1 .. Len(T) /\ Len(T) = drawn[i]
      <3>1. Len(T) = drawn[i]
        BY <1>2, <2>1
      <3> HIDE DEF T
      <3>2. r[1] \in DOMAIN T
        BY <2>2 DEF T
      <3>3. QED
        BY <2>4, <3>1, <3>2
    <2> HIDE DEF T, E
    <2>6. << i, r[1] >> \in Emitted
      BY <1>2, <2>5 DEF Emitted
    <2>7. PICK n \in 1 .. N : f[n] = << i, r[1] >>
      BY <1>1, <2>6 DEF Numbers
    <2>8. Vox(n) = x /\ Pl(n, r[2]) = r
      BY <2>1, <2>2, <2>7
    <2>9. QED
      BY <2>2, <2>8
  <1>6. ASSUME NEW m \in 1 .. N, NEW k \in 1 .. 3, NEW n \in 1 .. N, NEW l \in 1 .. 3,
               Vox(m) = Vox(n), Pl(m, k) = Pl(n, l)
        PROVE  m = n /\ k = l
    <2>1. f[m][2] = f[n][2] /\ k = l
      BY <1>6
    <2>2. f[m][1] = f[n][1]
      <3>1. Surfaces[scene] \in Surface
        BY SurfacesAssumption DEF Inv
      <3>2. \A i, j \in Tasks : mVoxels[i] = mVoxels[j] => i = j
        BY <3>1 DEF Surface, Tasks, mVoxels
      <3>3. QED
        BY <1>3, <1>6, <3>2
    <2>3. f[m] = f[n]
      BY <1>3, <2>1, <2>2
    <2>4. QED
      BY <1>1, <2>1, <2>3 DEF Numbers
  <1>7. PICK n \in 1 .. N, k \in 1 .. 3 : s = PlaceIn(n, k)
    BY SidesOfDrawn
  <1> HIDE DEF N
  <1> DEFINE v == Vox(n)
             p == Pl(n, k)
  <1>8. /\ v \in VoxelsDrawn /\ p \in Place(RowAt(v))
        /\ EdgeAt(s[1]) = SideOf(v, p)[1] /\ EdgeAt(s[2]) = SideOf(v, p)[2]
    BY <1>4, <1>7 DEF PlaceIn
  <1> HIDE DEF Vox, Pl, v, p
  <1>9. SideAt(RowAt(v), p) \in SidesOf[RowAt(v)]
    <2>1. LowCorners(LowPoints, v) \in SUBSET CornerIndex
      BY DEF LowCorners
    <2>2. QED
      BY <1>8, <2>1, SidesType DEF RowAt, RowOf
  <1>10. \A j \in NeighbourIndex :
            OnFace(j, SideAt(RowAt(v), p)[1]) /\ OnFace(j, SideAt(RowAt(v), p)[2])
              => Neighbour(v, j) \in VoxelsDrawn
    BY <1>8, <1>9, BeyondIsDrawn
  <1>11. VoxelsDrawn \in SUBSET Grid
    BY SurfaceFacts, CellInGrid DEF Inv, VoxelsDrawn
  <1>12. \E w \in VoxelsDrawn : \E q \in Place(RowAt(w)) :
            \A x \in VoxelsDrawn : \A r \in Place(RowAt(x)) :
              SideOf(x, r) = Turned(SideOf(v, p)) <=> x = w /\ r = q
    BY <1>8, <1>10, <1>11, OpposedOnce DEF RowAt
  <1>13. PICK w \in VoxelsDrawn : \E q \in Place(RowAt(w)) :
            \A x \in VoxelsDrawn : \A r \in Place(RowAt(x)) :
              SideOf(x, r) = Turned(SideOf(v, p)) <=> x = w /\ r = q
    BY <1>12
  <1>14. PICK q \in Place(RowAt(w)) :
            \A x \in VoxelsDrawn : \A r \in Place(RowAt(x)) :
              SideOf(x, r) = Turned(SideOf(v, p)) <=> x = w /\ r = q
    BY <1>13
  <1>15. PICK m \in 1 .. N, l \in 1 .. 3 : Vox(m) = w /\ Pl(m, l) = q
    BY <1>5
  <1>16. PlaceIn(m, l) \in Sides
    BY SidesOfDrawn DEF N
  <1>17. ASSUME NEW a \in 1 .. N, NEW b \in 1 .. 3
         PROVE  (EdgeAt(First(a, b)) = EdgeAt(s[2]) /\ EdgeAt(Second(a, b)) = EdgeAt(s[1]))
                  <=> PlaceIn(a, b) = PlaceIn(m, l)
    <2>1. /\ Vox(a) \in VoxelsDrawn /\ Pl(a, b) \in Place(RowAt(Vox(a)))
          /\ EdgeAt(First(a, b)) = SideOf(Vox(a), Pl(a, b))[1]
          /\ EdgeAt(Second(a, b)) = SideOf(Vox(a), Pl(a, b))[2]
      BY <1>4
    <2>2. SideOf(Vox(a), Pl(a, b)) = Turned(SideOf(v, p)) <=> Vox(a) = w /\ Pl(a, b) = q
      BY <1>14, <2>1
    <2>3. SideOf(Vox(a), Pl(a, b)) = Turned(SideOf(v, p))
            <=> SideOf(Vox(a), Pl(a, b))[1] = SideOf(v, p)[2] /\ SideOf(Vox(a), Pl(a, b))[2] = SideOf(v, p)[1]
      BY DEF SideIn, Turned
    <2>4. Vox(a) = w /\ Pl(a, b) = q <=> a = m /\ b = l
      BY <1>6, <1>15
    <2>5. PlaceIn(a, b) = PlaceIn(m, l) <=> a = m /\ b = l
      BY <1>0, PlaceInInjective
    <2>6. QED
      BY <1>8, <2>1, <2>2, <2>3, <2>4, <2>5
  <1>18. \A r \in Sides : \E a \in 1 .. N, b \in 1 .. 3 :
            r = PlaceIn(a, b) /\ r[1] = First(a, b) /\ r[2] = Second(a, b)
    BY SidesOfDrawn DEF N, PlaceIn
  <1>19. \A r \in Sides : (EdgeAt(r[1]) = EdgeAt(s[2]) /\ EdgeAt(r[2]) = EdgeAt(s[1]))
                            <=> r = PlaceIn(m, l)
    BY <1>17, <1>18
  <1>20. QED
    BY <1>16, <1>19

(* However the tasks interleave, and whatever the race doubles, the        *)
(* finished surface has no hole inside the grid and no triangle twice.     *)
THEOREM SurfaceIsClosed == Spec => []SurfaceClosed
  BY InvInit, InvNext, WholeInit, DrawnNext, NumberedInit, NumberedNext, ClosedWhenFinished, PTL
     DEF Spec

(* A side joins two indices. *)
LEMMA EndsOfSides ==
    ASSUME Inv, WholeTriangles
    PROVE  \A q \in Sides : q[1] \in DOMAIN indices /\ q[2] \in DOMAIN indices
  <1> DEFINE I == Len(indices)
  <1>1. I \in Nat /\ I % 3 = 0 /\ DOMAIN indices = 1 .. I
    BY DEF Inv, MeshOK, InOrder, indices, WholeTriangles
  <1> HIDE DEF I
  <1>2. \A n \in 1 .. I : (IF n % 3 = 0 THEN n - 2 ELSE n + 1) \in 1 .. I
    BY <1>1
  <1>3. QED
    BY <1>1, <1>2 DEF Sides

(* In the serial build the mesh is closed by its indices as well: where    *)
(* the surface is, so is the mesh, since no grid edge has two vertices.    *)
THEOREM MeshIsClosed ==
    ASSUME DISABLE_PARALLEL
    PROVE  Spec => []MeshClosed
  <1>1. Inv /\ OneVertexPerEdge /\ SurfaceClosed /\ WholeTriangles => MeshClosed
    <2> SUFFICES ASSUME Inv, OneVertexPerEdge, SurfaceClosed, WholeTriangles,
                        Finished, NEW s \in Sides, ~OnBorder(s)
                 PROVE  \E r \in Sides : \A q \in Sides :
                            (indices[q[1]] = indices[s[2]] /\ indices[q[2]] = indices[s[1]]) <=> q = r
      BY DEF MeshClosed
    <2>1. \A m, n \in DOMAIN indices : indices[m] = indices[n] <=> EdgeAt(m) = EdgeAt(n)
      <3> SUFFICES ASSUME NEW m \in DOMAIN indices, NEW n \in DOMAIN indices, EdgeAt(m) = EdgeAt(n)
                   PROVE  indices[m] = indices[n]
        BY DEF EdgeAt
      <3>1. /\ vertices \in Seq(Key) /\ indices \in Seq(Nat)
            /\ \A j \in DOMAIN indices : indices[j] < Len(vertices)
        <4>1. InOrder(vertices, indices, mesh.indexMap)
          BY DEF Inv, MeshOK, vertices, indices
        <4>2. /\ vertices \in Seq(Key) /\ indices \in Seq(Nat)
              /\ \A j \in 1 .. Len(indices) : indices[j] < Len(vertices)
          BY <4>1 DEF InOrder
        <4>3. DOMAIN indices = 1 .. Len(indices)
          BY <4>2
        <4>4. QED
          BY <4>2, <4>3
      <3>2. \A j \in DOMAIN indices : indices[j] \in Nat /\ indices[j] + 1 \in DOMAIN vertices
        <4>1. Len(vertices) \in Nat /\ DOMAIN vertices = 1 .. Len(vertices)
          BY <3>1
        <4>2. \A j \in DOMAIN indices : indices[j] \in Nat
          BY <3>1
        <4>3. QED
          BY <3>1, <4>1, <4>2
      <3>3. indices[m] + 1 = indices[n] + 1
        BY <3>2 DEF EdgeAt, OneVertexPerEdge
      <3>4. QED
        BY <3>2, <3>3
    <2>2. \A q \in Sides : q[1] \in DOMAIN indices /\ q[2] \in DOMAIN indices
      BY EndsOfSides
    <2>3. PICK r \in Sides : \A q \in Sides :
             (EdgeAt(q[1]) = EdgeAt(s[2]) /\ EdgeAt(q[2]) = EdgeAt(s[1])) <=> q = r
      BY DEF SurfaceClosed
    <2>4. QED
      BY <2>1, <2>2, <2>3
  <1>2. QED
    BY <1>1, InvInit, InvNext, WholeInit, DrawnNext, SurfaceIsClosed, SerialSharesVertices, PTL DEF Spec
=============================================================================
