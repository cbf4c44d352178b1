-------------------------- MODULE MarchingCubesProofs --------------------------
(* Proofs about the second polygonizer, for a grid of any size, any number of    *)
(* cells at work and any order in which they get the lock.                       *)
EXTENDS MarchingCubes, VoxelGridProofs

(* What a cell can push. *)
Pushable == { VertexPushed(c, n) : c \in Nat, n \in Nat }

(* The soup, and the cells at work: at most one has the lock, and the others     *)
(* have not pushed anything.                                                     *)
Working ==
  /\ mVertices \in Seq(Pushable) /\ mNormals \in Seq(Pushable)
  /\ working \subseteq Nat /\ (\A c \in working : c < next) /\ pushes \in [working -> Nat] /\ next \in Nat
  /\ inside \subseteq working /\ \A c, d \in inside : c = d
  /\ \A c \in working \ inside : pushes[c] = 0
  /\ stage = "new" => mVertices = << >> /\ mNormals = << >>
  /\ stage # "cells" => working = {}

AtPush(c) ==
  IF pushes[c] % 2 = 0 THEN Len(mNormals) = Len(mVertices)
  ELSE /\ Len(mVertices) = Len(mNormals) + 1
       /\ mVertices[Len(mVertices)] = VertexPushed(c, pushes[c])
(* A vertex waits for its normal exactly while its cell is between the two. *)
Paired ==
  /\ \A n \in 1 .. Len(mNormals) : n <= Len(mVertices) /\ mNormals[n] = mVertices[n]
  /\ inside = {} => Len(mNormals) = Len(mVertices)
  /\ \A c \in inside : AtPush(c)

(* A mesh whose normals are those of its vertices, and whose vertices are those   *)
(* looked up, each under its own number.                                          *)
Numbered(b, S) ==
  /\ b = [vertices |-> b.vertices, normals |-> b.vertices, indices |-> b.indices,
          uniqueVertices |-> b.uniqueVertices]
  /\ b.vertices \in Seq(S) /\ b.indices \in Seq(Nat)
  /\ b.uniqueVertices \in [DOMAIN b.uniqueVertices -> Nat]
  /\ \A k \in DOMAIN b.uniqueVertices :
        /\ b.uniqueVertices[k] < Len(b.vertices)
        /\ k = << b.vertices[b.uniqueVertices[k] + 1], b.vertices[b.uniqueVertices[k] + 1] >>
  /\ \A m \in 1 .. Len(b.vertices) :
        /\ << b.vertices[m], b.vertices[m] >> \in DOMAIN b.uniqueVertices
        /\ b.uniqueVertices[<< b.vertices[m], b.vertices[m] >>] = m - 1

(* Mesh b has the soup's vertices v as far as its indices go. *)
Resolved(b, v) ==
  /\ Len(b.indices) <= Len(v)
  /\ \A n \in 1 .. Len(b.indices) :
        b.indices[n] < Len(b.vertices) /\ b.vertices[b.indices[n] + 1] = v[n]

(* The mesh is made of the finished soup, and drawn once it is finished. *)
Made ==
  /\ Numbered(mMesh, Pushable) /\ Resolved(mMesh, mVertices)
  /\ stage \in {"new", "cells"} => mMesh = EmptySoup
  /\ stage = "mesh" => /\ mIndices = [n \in DOMAIN mVertices |-> n - 1]
                       /\ Len(mMesh.indices) < Len(mVertices)
  /\ stage \in {"done", "loading", "loaded", "drawn"} => Len(mMesh.indices) = Len(mVertices)
  /\ stage = "drawn" =>
        mMCData = [i \in DOMAIN mMesh.vertices |-> << mMesh.vertices[i], mMesh.vertices[i] >>]

--------------------------------------------------------------------------------
(* The n-th push and the next are about the same corner if n is even. *)
LEMMA SameVertex ==
  ASSUME NEW c \in Nat, NEW n \in Nat, n % 2 = 0
  PROVE  VertexPushed(c, n + 1) = VertexPushed(c, n)
  <1>1. (n + 1) \div 2 = n \div 2
    BY Z3
  <1>2. QED
    BY <1>1 DEF VertexPushed

(* Every case of a cell has a row. *)
LEMMA CaseHasRow ==
  ASSUME NEW low
  PROVE  voxelIndex(low) \in Config
  BY DEF voxelIndex, coeffs, Config

LEMMA RowLength ==
  ASSUME NEW cell
  PROVE  Len(Triangles(CaseOf(cell))) \in Nat
  <1> DEFINE k == CaseOf(cell)
  <1>1. k \in Config
    BY CaseHasRow DEF CaseOf
  <1> HIDE DEF k
  <1>2. TrianglesOf(k) \in Seq(EdgesOf(k) \X EdgesOf(k) \X EdgesOf(k))
    BY <1>1, RowsAssumption
  <1>3. Len(TrianglesOf(k)) \in Nat
    BY <1>2
  <1>4. QED
    BY <1>3 DEF Triangles, k

LEMMA AppendTo ==
  ASSUME NEW S, NEW s \in Seq(S), NEW e \in S
  PROVE  /\ Append(s, e) \in Seq(S) /\ Len(s) \in Nat
         /\ Len(Append(s, e)) = Len(s) + 1 /\ Append(s, e)[Len(s) + 1] = e
         /\ \A n \in 1 .. Len(s) : Append(s, e)[n] = s[n]
  OBVIOUS

LEMMA WorkingAtStart == Init => Working /\ Paired
  BY DEF Init, Working, Paired, working

LEMMA PushPairs ==
  ASSUME Working, Paired, NEW c \in working, Push(c)
  PROVE  Working' /\ Paired'
  <1> DEFINE v == VertexPushed(c, pushes[c])
             rest == Len(Triangles(CaseOf(CellAt(mResolution, c))))
  <1>1. c \in inside /\ c \in Nat /\ pushes[c] \in Nat /\ stage = "cells" /\ rest \in Nat
    BY RowLength DEF Push, Working
  <1>2. v \in Pushable
    BY <1>1 DEF Pushable
  <1>3. /\ IF pushes[c] % 2 = 0
           THEN mVertices' = Append(mVertices, v) /\ mNormals' = mNormals
           ELSE mNormals' = Append(mNormals, v) /\ mVertices' = mVertices
        /\ IF pushes[c] + 1 = 6 * rest
           THEN pushes' = [d \in working \ {c} |-> pushes[d]] /\ inside' = inside \ {c}
           ELSE pushes' = [pushes EXCEPT ![c] = @ + 1] /\ inside' = inside
        /\ UNCHANGED <<scene, rounds, stage, mGrid, next>>
    BY DEF Push
  <1>4. \A d, n : VertexPushed(d, n)' = VertexPushed(d, n)
    BY <1>3 DEF VertexPushed, mResolution, vertList, interpolateVertices, CaseOf
  <1>5. Pushable' = Pushable
    BY <1>4 DEF Pushable
  <1> HIDE DEF v, rest
  <1>6. mVertices' \in Seq(Pushable) /\ mNormals' \in Seq(Pushable)
    <2>1. /\ mVertices \in Seq(Pushable) /\ Append(mVertices, v) \in Seq(Pushable)
          /\ mNormals \in Seq(Pushable) /\ Append(mNormals, v) \in Seq(Pushable)
      BY <1>2, AppendTo DEF Working
    <2>2. CASE pushes[c] % 2 = 0
      BY <1>3, <2>1, <2>2
    <2>3. CASE pushes[c] % 2 # 0
      BY <1>3, <2>1, <2>3
    <2>4. QED
      BY <2>2, <2>3
  <1>7. inside = {c} /\ (inside' = {} \/ inside' = {c})
    BY <1>1, <1>3 DEF Working
  <1>8. Working'
    <2>1. working' \subseteq working /\ inside' \subseteq working'
      BY <1>1, <1>3, <1>7 DEF working, Working
    <2>2. pushes' \in [working' -> Nat]
      <3>1. pushes \in [working -> Nat]
        BY DEF Working
      <3>2. CASE pushes[c] + 1 = 6 * rest
        <4>1. pushes' = [d \in working \ {c} |-> pushes[d]]
          BY <1>3, <3>2
        <4>2. working' = working \ {c}
          BY <4>1 DEF working
        <4>3. QED
          BY <3>1, <4>1, <4>2
      <3>3. CASE pushes[c] + 1 # 6 * rest
        <4>1. pushes' = [pushes EXCEPT ![c] = @ + 1]
          BY <1>3, <3>3
        <4>2. working' = working
          BY <4>1 DEF working
        <4>3. QED
          BY <1>1, <3>1, <4>1, <4>2
      <3>4. QED
        BY <3>2, <3>3
    <2>3. \A d \in working' \ inside' : pushes'[d] = 0
      BY <1>3, <1>7 DEF working, Working
    <2>4. QED
      BY <1>1, <1>3, <1>5, <1>6, <1>7, <2>1, <2>2, <2>3 DEF Working
  <1>9. CASE pushes[c] % 2 = 0
    <2>1. Len(mNormals) = Len(mVertices) /\ Len(mVertices) \in Nat /\ Len(mNormals) \in Nat
      BY <1>1, <1>9 DEF Paired, AtPush, Working
    <2>2. mVertices' = Append(mVertices, v) /\ mNormals' = mNormals
      BY <1>3, <1>9
    <2>3. Len(mVertices') = Len(mVertices) + 1 /\ mVertices'[Len(mVertices')] = v
          /\ \A n \in 1 .. Len(mVertices) : mVertices'[n] = mVertices[n]
      BY <1>2, <2>2, AppendTo DEF Working
    <2>4. pushes' = [pushes EXCEPT ![c] = @ + 1] /\ inside' = {c}
      BY <1>1, <1>3, <1>7, <1>9
    <2>5. pushes'[c] = pushes[c] + 1 /\ (pushes[c] + 1) % 2 = 1
      BY <1>1, <1>9, <2>4 DEF Working
    <2>6. VertexPushed(c, pushes'[c]) = v
      BY <1>1, <1>9, <2>5, SameVertex DEF v
    <2>7. \A d \in inside' : VertexPushed(d, pushes[d])' = v
      BY <1>4, <2>4, <2>6
    <2>8. \A n \in 1 .. Len(mNormals') : n <= Len(mVertices') /\ mNormals'[n] = mVertices'[n]
      BY <2>1, <2>2, <2>3 DEF Paired
    <2>9. AtPush(c)'
      BY <2>1, <2>2, <2>3, <2>4, <2>5, <2>7 DEF AtPush
    <2>10. (\A d \in inside : AtPush(d))' /\ inside' # {}
      BY <2>4, <2>9
    <2>11. QED
      BY <1>8, <2>8, <2>10 DEF Paired
  <1>10. CASE pushes[c] % 2 = 1
    <2>1. Len(mVertices) = Len(mNormals) + 1 /\ mVertices[Len(mVertices)] = v
          /\ Len(mVertices) \in Nat /\ Len(mNormals) \in Nat
      BY <1>1, <1>10 DEF Paired, AtPush, Working, v
    <2>2. mNormals' = Append(mNormals, v) /\ mVertices' = mVertices
      BY <1>3, <1>10
    <2>3. Len(mNormals') = Len(mVertices') /\ mNormals'[Len(mNormals')] = v
          /\ \A n \in 1 .. Len(mNormals) : mNormals'[n] = mNormals[n]
      BY <1>2, <2>1, <2>2, AppendTo DEF Working
    <2>4. \A n \in 1 .. Len(mNormals') : n <= Len(mVertices') /\ mNormals'[n] = mVertices'[n]
      BY <2>1, <2>2, <2>3 DEF Paired
    <2>5. \A d \in inside' : pushes'[d] % 2 = 0
      <3>1. CASE inside' = {}
        BY <3>1
      <3>2. CASE inside' = {c}
        <4>1. pushes' = [pushes EXCEPT ![c] = @ + 1]
          BY <1>3, <1>7, <3>2
        <4>2. pushes'[c] = pushes[c] + 1
          BY <4>1 DEF Working
        <4>3. (pushes[c] + 1) % 2 = 0
          BY <1>1, <1>10
        <4>4. QED
          BY <3>2, <4>2, <4>3
      <3>3. QED
        BY <1>7, <3>1, <3>2
    <2>6. (\A d \in inside : AtPush(d))'
      BY <2>3, <2>5 DEF AtPush
    <2>7. QED
      BY <1>8, <2>3, <2>4, <2>6 DEF Paired
  <1>11. QED
    BY <1>1, <1>9, <1>10

LEMMA PairedNext == Working /\ Paired /\ [Next]_vars => Working' /\ Paired'
  <1> SUFFICES ASSUME Working, Paired, [Next]_vars PROVE Working' /\ Paired'
    OBVIOUS
  <1> USE DEF soup
  <1>1. CASE constructGrid
    <2>1. mVertices' = << >> /\ mNormals' = << >> /\ working = {}
      BY <1>1 DEF constructGrid, Working
    <2>2. mVertices' \in Seq(Pushable') /\ mNormals' \in Seq(Pushable')
      BY <2>1
    <2>3. inside = {} /\ UNCHANGED <<working, pushes, inside, next>>
      BY <1>1, <2>1 DEF constructGrid, working, Working
    <2>4. stage' = "cells"
      BY <1>1 DEF constructGrid
    <2>5. Working'
      BY <2>2, <2>3, <2>4 DEF Working
    <2>6. Paired'
      BY <2>1, <2>3 DEF Paired
    <2>7. QED
      BY <2>5, <2>6
  <1>2. ASSUME UNCHANGED <<scene, rounds, mGrid, mVertices, mNormals>>
        PROVE  UNCHANGED Pushable /\ \A d \in inside : pushes'[d] = pushes[d] => (AtPush(d) => AtPush(d)')
    <2>1. \A d, n : VertexPushed(d, n)' = VertexPushed(d, n)
      BY <1>2 DEF VertexPushed, mResolution, vertList, interpolateVertices, CaseOf
    <2>2. QED
      BY <1>2, <2>1 DEF Pushable, AtPush
  <1>3. CASE Take
    <2>1. /\ UNCHANGED <<scene, rounds, mGrid, mVertices, mNormals, inside, stage>> /\ next' = next + 1
          /\ stage = "cells"
      BY <1>3 DEF Take
    <2>2. UNCHANGED pushes \/ pushes' = [c \in working \cup {next} |-> IF c = next THEN 0 ELSE pushes[c]]
      BY <1>3 DEF Take
    <2>3. working \subseteq working' /\ working' \subseteq Nat /\ pushes' \in [working' -> Nat]
          /\ (\A c \in working' : c < next') /\ (\A c \in working : pushes'[c] = pushes[c])
          /\ \A c \in working' \ working : pushes'[c] = 0
      <3>1. next \in Nat /\ working \subseteq Nat /\ (\A c \in working : c < next) /\ pushes \in [working -> Nat]
        BY DEF Working
      <3>2. CASE UNCHANGED pushes
        BY <2>1, <3>1, <3>2 DEF working
      <3>3. CASE pushes' = [c \in working \cup {next} |-> IF c = next THEN 0 ELSE pushes[c]]
        <4>1. working' = working \cup {next}
          BY <3>3 DEF working
        <4>2. QED
          BY <2>1, <3>1, <3>3, <4>1
      <3>4. QED
        BY <2>2, <3>2, <3>3
    <2>4. UNCHANGED Pushable /\ \A d \in inside : AtPush(d) => AtPush(d)'
      BY <1>2, <2>1, <2>3 DEF Working
    <2>5. Working'
      BY <2>1, <2>3, <2>4 DEF Working
    <2>6. Paired'
      BY <2>1, <2>4 DEF Paired
    <2>7. QED
      BY <2>5, <2>6
  <1>4. CASE \E c \in working : Lock(c)
    <2>1. PICK c \in working : Lock(c)
      BY <1>4
    <2>2. /\ UNCHANGED <<scene, rounds, mGrid, mVertices, mNormals, pushes, stage, next>>
          /\ inside = {} /\ inside' = {c} /\ pushes[c] = 0
      BY <2>1 DEF Lock, Working
    <2>3. UNCHANGED <<Pushable, working>>
      BY <1>2, <2>2 DEF working
    <2>4. Working'
      BY <2>2, <2>3 DEF Working
    <2>5. (\A d \in inside : AtPush(d))'
      BY <2>2 DEF AtPush, Paired
    <2>6. Paired'
      BY <2>2, <2>5 DEF Paired
    <2>7. QED
      BY <2>4, <2>6
  <1>5. CASE \E c \in working : Push(c)
    BY <1>5, PushPairs
  <1>6. CASE MakeIndices \/ AddIndex \/ Save \/ LoadIndex \/ Upload \/ UNCHANGED vars
    <2>1. /\ UNCHANGED <<scene, rounds, mGrid, next, pushes, inside, mVertices, mNormals>>
          /\ (working = {} \/ UNCHANGED stage) /\ (stage' = "new" => stage = "new")
      BY <1>6 DEF MakeIndices, AddIndex, Save, LoadIndex, Upload, vars, Working
    <2>2. UNCHANGED <<Pushable, working>> /\ \A d \in inside : AtPush(d) => AtPush(d)'
      BY <1>2, <2>1 DEF working
    <2>3. Working'
      BY <2>1, <2>2 DEF Working
    <2>4. Paired'
      BY <2>1, <2>2 DEF Paired
    <2>5. QED
      BY <2>3, <2>4
  <1>7. QED
    BY <1>1, <1>3, <1>4, <1>5, <1>6 DEF Next

--------------------------------------------------------------------------------
(* A corner is added under the number of its vertex, old or new. *)
LEMMA CornerAdded ==
  ASSUME NEW S, NEW b, Numbered(b, S), NEW v \in S
  PROVE  /\ Numbered(AddCorner(b, v, v), S)
         /\ \E i \in Nat : /\ AddCorner(b, v, v).indices = Append(b.indices, i)
                           /\ i < Len(AddCorner(b, v, v).vertices)
                           /\ AddCorner(b, v, v).vertices[i + 1] = v
         /\ Len(b.vertices) <= Len(AddCorner(b, v, v).vertices)
         /\ \A m \in 1 .. Len(b.vertices) : AddCorner(b, v, v).vertices[m] = b.vertices[m]
  <1> DEFINE c == AddCorner(b, v, v)
             u == b.uniqueVertices
  <1>0. /\ b.vertices \in Seq(S) /\ b.indices \in Seq(Nat) /\ Len(b.vertices) \in Nat
        /\ b = [vertices |-> b.vertices, normals |-> b.vertices, indices |-> b.indices,
                uniqueVertices |-> u]
        /\ u \in [DOMAIN u -> Nat]
    BY DEF Numbered
  <1>1. CASE Seen(b, v, v)
    <2>1. << v, v >> \in DOMAIN u /\ u[<< v, v >>] \in Nat
      BY <1>0, <1>1 DEF Seen
    <2>2. c = [vertices |-> b.vertices, normals |-> b.vertices,
               indices |-> Append(b.indices, u[<< v, v >>]), uniqueVertices |-> u]
      <3>1. c = [b EXCEPT !.indices = Append(b.indices, u[<< v, v >>])]
        BY <1>1 DEF AddCorner
      <3> DEFINE R(i) == [vertices |-> b.vertices, normals |-> b.vertices, indices |-> i,
                          uniqueVertices |-> u]
      <3>2. \A i, j : [R(i) EXCEPT !.indices = j] = R(j)
        OBVIOUS
      <3>3. b = R(b.indices)
        BY <1>0
      <3> HIDE DEF R
      <3>4. [b EXCEPT !.indices = Append(b.indices, u[<< v, v >>])] = R(Append(b.indices, u[<< v, v >>]))
        BY <3>2, <3>3
      <3>5. QED
        BY <3>1, <3>4 DEF R
    <2>3. u[<< v, v >>] < Len(b.vertices) /\ b.vertices[u[<< v, v >>] + 1] = v
      BY <2>1 DEF Numbered
    <2>4. c.indices \in Seq(Nat)
      BY <1>0, <2>1, <2>2
    <2>5. Numbered(c, S)
      BY <1>0, <2>2, <2>4 DEF Numbered
    <2>6. QED
      BY <1>0, <2>1, <2>2, <2>3, <2>5
  <1>2. CASE ~Seen(b, v, v)
    <2> DEFINE l == Len(b.vertices)
               w == Append(b.vertices, v)
    <2>1. << v, v >> \notin DOMAIN u
      BY <1>2 DEF Seen
    <2>2. c = [vertices |-> w, normals |-> w, indices |-> Append(b.indices, l),
               uniqueVertices |-> [k \in DOMAIN u \cup {<< v, v >>} |->
                                     IF k = << v, v >> THEN l ELSE u[k]]]
      <3>1. b.normals = b.vertices
        BY <1>0
      <3>2. QED
        BY <1>2, <3>1 DEF AddCorner
    <2>3. /\ w \in Seq(S) /\ Len(w) = l + 1 /\ w[l + 1] = v /\ \A m \in 1 .. l : w[m] = b.vertices[m]
      BY <1>0, AppendTo
    <2>4. Append(b.indices, l) \in Seq(Nat)
      BY <1>0
    <2>5. \A k \in DOMAIN u : u[k] \in 0 .. l - 1 /\ k # << v, v >> /\ k = << w[u[k] + 1], w[u[k] + 1] >>
      BY <1>0, <2>1, <2>3 DEF Numbered
    <2>6. \A m \in 1 .. l : /\ << w[m], w[m] >> \in DOMAIN u /\ << w[m], w[m] >> # << v, v >>
                            /\ u[<< w[m], w[m] >>] = m - 1
      BY <1>0, <2>1, <2>3 DEF Numbered
    <2> HIDE DEF w, l
    <2>7. c.vertices = w /\ c.normals = w /\ c.indices = Append(b.indices, l)
          /\ DOMAIN c.uniqueVertices = DOMAIN u \cup {<< v, v >>}
          /\ c.uniqueVertices[<< v, v >>] = l
          /\ \A k \in DOMAIN u : c.uniqueVertices[k] = u[k]
      BY <2>2, <2>5
    <2>8. l \in Nat
      BY <1>0 DEF l
    <2>9. c.uniqueVertices \in [DOMAIN c.uniqueVertices -> Nat]
      BY <1>0, <2>2, <2>8
    <2>10. \A k \in DOMAIN c.uniqueVertices :
             /\ c.uniqueVertices[k] < Len(w)
             /\ k = << w[c.uniqueVertices[k] + 1], w[c.uniqueVertices[k] + 1] >>
      BY <2>3, <2>5, <2>7, <2>8
    <2>11. \A m \in 1 .. Len(w) : << w[m], w[m] >> \in DOMAIN c.uniqueVertices
                                /\ c.uniqueVertices[<< w[m], w[m] >>] = m - 1
      <3>1. \A m \in 1 .. Len(w) : m = l + 1 \/ m \in 1 .. l
        BY <2>3, <2>8
      <3>2. \A m \in 1 .. l : << w[m], w[m] >> \in DOMAIN c.uniqueVertices
                           /\ c.uniqueVertices[<< w[m], w[m] >>] = m - 1
        BY <2>6, <2>7
      <3>3. << w[l + 1], w[l + 1] >> = << v, v >> /\ l = (l + 1) - 1
        BY <2>3, <2>8
      <3>4. QED
        BY <2>7, <3>1, <3>2, <3>3
    <2>12. c = [vertices |-> c.vertices, normals |-> c.vertices, indices |-> c.indices,
                uniqueVertices |-> c.uniqueVertices]
      BY <2>2
    <2>13. Numbered(c, S)
      BY <2>3, <2>4, <2>7, <2>9, <2>10, <2>11, <2>12 DEF Numbered
    <2>14. QED
      BY <2>3, <2>7, <2>8, <2>13 DEF l
  <1>3. QED
    BY <1>1, <1>2

LEMMA MadeAtStart == Init => Made
  <1> SUFFICES ASSUME Init PROVE Made
    OBVIOUS
  <1>1. /\ mMesh = EmptySoup /\ mMesh.vertices = << >> /\ mMesh.normals = << >> /\ mMesh.indices = << >>
        /\ mMesh.uniqueVertices = [k \in {} |-> 0] /\ DOMAIN mMesh.uniqueVertices = {}
    BY DEF Init, EmptySoup
  <1>2. Numbered(mMesh, Pushable)
    BY <1>1 DEF Numbered, EmptySoup
  <1>3. Resolved(mMesh, mVertices)
    BY <1>1 DEF Resolved, Init
  <1>4. QED
    BY <1>1, <1>2, <1>3 DEF Init, Made

(* Once all cells are done, normals and vertices agree. *)
LEMMA SoupDone ==
  ASSUME Working, Paired, working = {}
  PROVE  mNormals = mVertices /\ Len(mVertices) \in Nat /\ mVertices \in Seq(Pushable)
  <1>1. mVertices \in Seq(Pushable) /\ mNormals \in Seq(Pushable) /\ Len(mNormals) = Len(mVertices)
    BY DEF Working, Paired
  <1>2. \A n \in 1 .. Len(mNormals) : mNormals[n] = mVertices[n]
    BY DEF Paired
  <1>3. QED
    BY <1>1, <1>2

LEMMA MadeNext == Working /\ Paired /\ Made /\ [Next]_vars => Made'
  <1> SUFFICES ASSUME Working, Paired, Made, [Next]_vars PROVE Made'
    OBVIOUS
  <1> USE DEF soup
  <1>1. ASSUME UNCHANGED <<scene, rounds, mGrid>>
        PROVE  UNCHANGED Pushable
    <2>1. \A d, n : VertexPushed(d, n)' = VertexPushed(d, n)
      BY <1>1 DEF VertexPushed, mResolution, vertList, interpolateVertices, CaseOf
    <2>2. QED
      BY <2>1 DEF Pushable
  <1>2. CASE constructGrid \/ Take \/ (\E c \in working : Lock(c) \/ Push(c))
    <2>1. stage \in {"new", "cells"} /\ stage' = "cells" /\ UNCHANGED mMesh
      BY <1>2 DEF constructGrid, Take, Lock, Push, Working
    <2>2. mMesh = EmptySoup
      BY <2>1 DEF Made
    <2>3. /\ mMesh.vertices = << >> /\ mMesh.normals = << >> /\ mMesh.indices = << >>
          /\ mMesh.uniqueVertices = [k \in {} |-> 0] /\ DOMAIN mMesh.uniqueVertices = {}
      BY <2>2 DEF EmptySoup
    <2>4. Numbered(mMesh, Pushable')
      BY <2>2, <2>3 DEF Numbered, EmptySoup
    <2>5. mVertices' \in Seq(Pushable')
      BY PairedNext DEF Working
    <2>6. Resolved(mMesh, mVertices')
      BY <2>3, <2>5 DEF Resolved
    <2>7. QED
      BY <2>1, <2>2, <2>4, <2>6 DEF Made
  <1>3. CASE MakeIndices
    <2>1. /\ stage = "cells" /\ working = {} /\ UNCHANGED <<scene, rounds, mGrid, mMesh, mVertices>>
          /\ mIndices' = [n \in DOMAIN mVertices |-> n - 1]
          /\ stage' = IF Fits(mVertices, mNormals) /\ mVertices # << >> THEN "mesh" ELSE "done"
      BY <1>3 DEF MakeIndices
    <2>2. UNCHANGED Pushable
      BY <1>1, <2>1
    <2>3. mMesh = EmptySoup /\ Len(mMesh.indices) = 0
      BY <2>1 DEF Made, EmptySoup
    <2>4. Fits(mVertices, mNormals) /\ Len(mVertices) \in Nat /\ mVertices \in Seq(Pushable)
      BY <2>1, SoupDone DEF Fits
    <2>5. CASE mVertices = << >>
      BY <2>1, <2>2, <2>3, <2>5 DEF Made
    <2>6. CASE mVertices # << >>
      <3>1. stage' = "mesh" /\ Len(mVertices) > 0
        BY <2>1, <2>4, <2>6
      <3>2. QED
        BY <2>1, <2>2, <2>3, <3>1 DEF Made
    <2>7. QED
      BY <2>5, <2>6
  <1>4. CASE AddIndex
    <2> DEFINE k == Len(mMesh.indices) + 1
    <2>1. stage = "mesh" /\ working = {} /\ k - 1 < Len(mVertices) /\ mIndices = [n \in DOMAIN mVertices |-> n - 1]
          /\ UNCHANGED <<scene, rounds, mGrid, mVertices, mIndices, mMCData>>
      BY <1>4 DEF AddIndex, Made, Working
    <2>2. Numbered(mMesh, Pushable) /\ Resolved(mMesh, mVertices) /\ UNCHANGED Pushable
      BY <1>1, <2>1 DEF Made
    <2>3. mNormals = mVertices /\ mVertices \in Seq(Pushable) /\ Len(mVertices) \in Nat
      BY <2>1, SoupDone
    <2>4. mMesh.indices \in Seq(Nat) /\ mMesh.vertices \in Seq(Pushable) /\ k \in 1 .. Len(mVertices)
          /\ Len(mMesh.vertices) \in Nat /\ Len(mMesh.indices) \in Nat
      BY <2>1, <2>2, <2>3 DEF Numbered
    <2>5. mIndices[k] + 1 = k /\ mVertices[k] \in Pushable /\ Len(mIndices) = Len(mVertices)
      BY <2>1, <2>3, <2>4
    <2>6. mMesh' = AddCorner(mMesh, mVertices[k], mVertices[k])
          /\ stage' = IF k = Len(mVertices) THEN "done" ELSE "mesh"
      BY <1>4, <2>1, <2>3, <2>5 DEF AddIndex
    <2> HIDE DEF k
    <2>7. Numbered(mMesh', Pushable')
      BY <2>2, <2>5, <2>6, CornerAdded
    <2>8. PICK i \in Nat : /\ mMesh'.indices = Append(mMesh.indices, i)
                          /\ i < Len(mMesh'.vertices) /\ mMesh'.vertices[i + 1] = mVertices[k]
      <3>1. Numbered(mMesh, Pushable) /\ mVertices[k] \in Pushable
        BY <2>2, <2>5
      <3>2. PICK v \in Pushable : v = mVertices[k]
        BY <3>1
      <3>3. \E i \in Nat : /\ AddCorner(mMesh, v, v).indices = Append(mMesh.indices, i)
                          /\ i < Len(AddCorner(mMesh, v, v).vertices)
                          /\ AddCorner(mMesh, v, v).vertices[i + 1] = v
        BY <3>1, CornerAdded
      <3>4. mMesh' = AddCorner(mMesh, v, v)
        BY <2>6, <3>2
      <3>5. QED
        BY <3>2, <3>3, <3>4
    <2>9. Len(mMesh.vertices) <= Len(mMesh'.vertices)
          /\ \A m \in 1 .. Len(mMesh.vertices) : mMesh'.vertices[m] = mMesh.vertices[m]
      BY <2>2, <2>5, <2>6, CornerAdded
    <2>10. /\ Len(mMesh'.indices) = k /\ mMesh'.indices[k] = i
           /\ \A n \in 1 .. k - 1 : mMesh'.indices[n] = mMesh.indices[n] /\ mMesh.indices[n] \in Nat
      BY <2>4, <2>8 DEF k
    <2>11. \A n \in 1 .. k - 1 : mMesh.indices[n] < Len(mMesh.vertices)
                               /\ mMesh.vertices[mMesh.indices[n] + 1] = mVertices[n]
      BY <2>2, <2>4 DEF Resolved, k
    <2>12. Len(mMesh'.vertices) \in Nat
      BY <2>7 DEF Numbered
    <2>13. ASSUME NEW n \in 1 .. k
           PROVE  mMesh'.indices[n] < Len(mMesh'.vertices)
                  /\ mMesh'.vertices[mMesh'.indices[n] + 1] = mVertices[n]
      <3>1. CASE n = k
        BY <2>8, <2>10, <3>1
      <3>2. CASE n \in 1 .. k - 1
        <4>1. mMesh'.indices[n] = mMesh.indices[n] /\ mMesh.indices[n] + 1 \in 1 .. Len(mMesh.vertices)
          <5>1. mMesh'.indices[n] = mMesh.indices[n] /\ mMesh.indices[n] \in Nat
            BY <2>10, <3>2
          <5>2. mMesh.indices[n] < Len(mMesh.vertices) /\ Len(mMesh.vertices) \in Nat
            BY <2>4, <2>11, <3>2
          <5>3. QED
            BY <5>1, <5>2
        <4>2. mMesh.vertices[mMesh.indices[n] + 1] = mVertices[n]
          BY <2>11, <3>2
        <4>3. mMesh'.vertices[mMesh.indices[n] + 1] = mVertices[n]
          BY <2>9, <4>1, <4>2
        <4>4. mMesh.indices[n] < Len(mMesh'.vertices)
          <5>1. mMesh.indices[n] \in Nat /\ mMesh.indices[n] < Len(mMesh.vertices)
            BY <2>10, <2>11, <3>2
          <5>2. Len(mMesh.vertices) <= Len(mMesh'.vertices)
            BY <2>9
          <5>3. QED
            BY <2>4, <2>12, <5>1, <5>2
        <4>5. QED
          BY <4>1, <4>3, <4>4
      <3>3. QED
        BY <2>4, <3>1, <3>2
    <2>14. Resolved(mMesh', mVertices)
      BY <2>4, <2>10, <2>13 DEF Resolved
    <2>15. QED
      BY <2>1, <2>3, <2>4, <2>6, <2>7, <2>10, <2>14 DEF Made
  <1>5. CASE Save \/ LoadIndex
    BY <1>1, <1>5 DEF Save, LoadIndex, Made
  <1>6. CASE Upload
    <2>1. UNCHANGED Pushable
      BY <1>1, <1>6 DEF Upload
    <2>2. mMesh.normals = mMesh.vertices
      BY DEF Made, Numbered
    <2>3. QED
      BY <1>6, <2>1, <2>2 DEF Upload, Made
  <1>7. CASE UNCHANGED vars
    BY <1>1, <1>7 DEF vars, Made
  <1>8. QED
    BY <1>2, <1>3, <1>4, <1>5, <1>6, <1>7 DEF Next

(* A normal stays with its vertex, however the cells take their turns              *)
(* (MarchingCubes.cpp:646-671).                                                    *)
THEOREM NormalsStay == Spec => []NormalsPaired
  <1>1. Working /\ Paired => NormalsPaired
    BY DEF Working, Paired, NormalsPaired
  <1>2. QED
    BY <1>1, WorkingAtStart, PairedNext, PTL DEF Spec

(* The mesh is the soup, corner by corner, without a vertex twice, and so is what  *)
(* is drawn (Mesh.cpp:72-129, ModelView.cpp:221-270).                               *)
THEOREM MeshIsSoup == Spec => []MeshResolves
  <1>1. Working /\ Paired /\ Made => MeshResolves
    <2> SUFFICES ASSUME Working, Paired, Made PROVE MeshResolves
      OBVIOUS
    <2>1. /\ mMesh.vertices \in Seq(Pushable) /\ mMesh.normals = mMesh.vertices
          /\ mMesh.indices \in Seq(Nat) /\ Len(mMesh.vertices) \in Nat
      BY DEF Made, Numbered
    <2>2. \A n \in 1 .. Len(mMesh.indices) :
             /\ mMesh.indices[n] \in 0 .. Len(mMesh.vertices) - 1
             /\ mMesh.vertices[mMesh.indices[n] + 1] = mVertices[n]
      BY <2>1 DEF Made, Resolved
    <2>3. \A n \in 1 .. Len(mMesh.indices) : mNormals[n] = mVertices[n]
      <3>1. CASE stage \in {"new", "cells"}
        BY <3>1 DEF Made, EmptySoup
      <3>2. CASE stage \notin {"new", "cells"}
        BY <3>2, SoupDone DEF Working
      <3>3. QED
        BY <3>1, <3>2
    <2>4. \A m, n \in 1 .. Len(mMesh.vertices) : mMesh.vertices[m] = mMesh.vertices[n] => m = n
      <3> SUFFICES ASSUME NEW m \in 1 .. Len(mMesh.vertices), NEW n \in 1 .. Len(mMesh.vertices),
                          mMesh.vertices[m] = mMesh.vertices[n]
                   PROVE  m = n
        OBVIOUS
      <3> DEFINE number(k) == mMesh.uniqueVertices[<< mMesh.vertices[k], mMesh.vertices[k] >>]
      <3>1. number(m) = m - 1 /\ number(n) = n - 1
        BY DEF Made, Numbered
      <3>2. QED
        BY <2>1, <3>1
    <2>5. stage \in {"done", "drawn"} => Len(mMesh.indices) = Len(mVertices)
      BY DEF Made
    <2>6. stage = "drawn" =>
            \A n \in DOMAIN mVertices : mMCData[mMesh.indices[n] + 1] = << mVertices[n], mNormals[n] >>
      <3> SUFFICES ASSUME stage = "drawn", NEW n \in DOMAIN mVertices
                   PROVE  mMCData[mMesh.indices[n] + 1] = << mVertices[n], mNormals[n] >>
        OBVIOUS
      <3>1. n \in 1 .. Len(mMesh.indices)
        BY <2>5 DEF Working
      <3>2. mMesh.indices[n] + 1 \in DOMAIN mMesh.vertices
        BY <2>1, <2>2, <3>1
      <3>3. mMCData = [i \in DOMAIN mMesh.vertices |-> << mMesh.vertices[i], mMesh.vertices[i] >>]
        BY DEF Made
      <3>4. QED
        BY <2>2, <2>3, <3>1, <3>2, <3>3
    <2>7. \A n \in DOMAIN mMesh.indices :
            /\ mMesh.indices[n] < Len(mMesh.vertices)
            /\ At(mMesh, n) = mVertices[n] /\ mMesh.normals[mMesh.indices[n] + 1] = mNormals[n]
      <3>1. DOMAIN mMesh.indices = 1 .. Len(mMesh.indices)
        BY <2>1
      <3>2. \A n \in 1 .. Len(mMesh.indices) : mMesh.indices[n] < Len(mMesh.vertices)
        BY <2>1, <2>2
      <3>3. QED
        BY <2>1, <2>2, <2>3, <3>1, <3>2 DEF At
    <2>8. QED
      <3>1. DOMAIN mMesh.vertices = 1 .. Len(mMesh.vertices)
        BY <2>1
      <3>2. QED
        BY <2>4, <2>5, <2>6, <2>7, <3>1 DEF MeshResolves
  <1>2. QED
    BY <1>1, WorkingAtStart, PairedNext, MadeAtStart, MadeNext, PTL DEF Spec

--------------------------------------------------------------------------------
(* The cells by their numbers: each number below NumCells is a cell, and each    *)
(* cell has one.                                                                 *)

LEMMA Divide ==
  ASSUME NEW n \in Nat, NEW r \in Nat, r > 0
  PROVE  n = r * (n \div r) + (n % r) /\ n % r \in 0 .. r - 1 /\ n \div r \in Nat
  <1>1. n = r * (n \div r) + (n % r) /\ n % r \in 0 .. r - 1
    BY Z3
  <1>2. n \div r \in Nat
    BY <1>1, Z3
  <1>3. QED
    BY <1>1, <1>2

LEMMA Between ==
  ASSUME NEW a \in Int, NEW b \in Int, NEW r \in Nat, r > 0, a < b
  PROVE  r * a + r <= r * b
  BY Z3

(* A number has one quotient and one rest. *)
LEMMA Unique ==
  ASSUME NEW r \in Nat, r > 0, NEW q \in Int, NEW d \in 0 .. r - 1, NEW p \in Int, NEW e \in 0 .. r - 1,
         r * q + d = r * p + e
  PROVE  q = p /\ d = e
  <1>1. ~(q < p)
    <2> SUFFICES ASSUME q < p PROVE FALSE
      OBVIOUS
    <2>1. r * q + r <= r * p
      BY Between
    <2>2. r * q \in Int /\ r * p \in Int
      OBVIOUS
    <2>3. QED
      BY <2>1, <2>2
  <1>2. ~(p < q)
    <2> SUFFICES ASSUME p < q PROVE FALSE
      OBVIOUS
    <2>1. r * p + r <= r * q
      BY Between
    <2>2. r * q \in Int /\ r * p \in Int
      OBVIOUS
    <2>3. QED
      BY <2>1, <2>2
  <1>3. q = p
    BY <1>1, <1>2
  <1>4. r * q \in Int
    OBVIOUS
  <1>5. QED
    BY <1>3, <1>4


(* The digits of a cell's number. *)
LEMMA Digits ==
  ASSUME NEW r \in Nat, r > 0, NEW n \in Nat
  PROVE  LET x == (n \div r) \div r
             y == (n \div r) % r
             z == n % r
         IN  /\ n = r * (r * x + y) + z /\ x \in Nat /\ y \in 0 .. r - 1 /\ z \in 0 .. r - 1
             /\ n \div (r * r) = x
  <1> DEFINE a == n \div r
             x == a \div r
             y == a % r
             z == n % r
  <1>1. n = r * a + z /\ z \in 0 .. r - 1 /\ a \in Nat
    BY Divide
  <1>2. a = r * x + y /\ y \in 0 .. r - 1 /\ x \in Nat
    <2> HIDE DEF a
    <2>1. QED
      BY <1>1, Divide
  <1>3. r * r \in Nat /\ r * r > 0
    BY Z3
  <1>4. n = (r * r) * (n \div (r * r)) + (n % (r * r)) /\ n % (r * r) \in 0 .. (r * r) - 1
        /\ n \div (r * r) \in Nat
    BY <1>3, Divide
  <1> HIDE DEF a, x, y, z
  <1>5. r * y \in Nat /\ r * y + r <= r * r
    <2>1. y \in Int /\ y < r /\ r \in Int
      BY <1>2
    <2>2. r * y + r <= r * r
      BY <2>1, Between
    <2>3. r * y \in Nat
      BY <1>2, Z3
    <2>4. QED
      BY <2>2, <2>3
  <1>6. r * y + z \in 0 .. (r * r) - 1
    BY <1>1, <1>3, <1>5
  <1>7. n = (r * r) * x + (r * y + z)
    <2>1. n = r * (r * x + y) + z
      BY <1>1, <1>2
    <2>2. r * (r * x + y) = (r * r) * x + r * y
      BY <1>2, Z3
    <2>3. (r * r) * x \in Int
      BY <1>2, <1>3
    <2>4. QED
      BY <1>1, <1>5, <2>1, <2>2, <2>3
  <1>8. n \div (r * r) = x
    <2> DEFINE R == r * r
               q == n \div R
               d == n % R
               e == r * y + z
    <2>1. R \in Nat /\ R > 0 /\ q \in Int /\ d \in 0 .. R - 1 /\ x \in Int /\ e \in 0 .. R - 1
      BY <1>2, <1>3, <1>4, <1>6
    <2>2. R * q + d = R * x + e
      BY <1>4, <1>7
    <2> HIDE DEF R, q, d, e
    <2>3. q = x
      BY <2>1, <2>2, Unique
    <2>4. QED
      BY <2>3 DEF q, R
  <1>9. n = r * (r * x + y) + z
    BY <1>1, <1>2
  <1>10. QED
    BY <1>1, <1>2, <1>8, <1>9 DEF a, x, y, z

LEMMA CellAtInjective ==
  ASSUME NEW r \in Nat, r > 0, NEW n \in Nat, NEW m \in Nat, CellAt(r, n) = CellAt(r, m)
  PROVE  n = m
  <1>1. n \div (r * r) = m \div (r * r) /\ (n \div r) % r = (m \div r) % r /\ n % r = m % r
    BY DEF CellAt
  <1> DEFINE x(k) == (k \div r) \div r
             y(k) == (k \div r) % r
             z(k) == k % r
  <1>2. n \div (r * r) = x(n) /\ n = r * (r * x(n) + y(n)) + z(n)
    BY Digits
  <1>3. m \div (r * r) = x(m) /\ m = r * (r * x(m) + y(m)) + z(m)
    BY Digits
  <1>4. x(n) = x(m) /\ y(n) = y(m) /\ z(n) = z(m)
    BY <1>1, <1>2, <1>3
  <1> HIDE DEF x, y, z
  <1>5. QED
    BY <1>2, <1>3, <1>4

LEMMA CellAtOnto ==
  ASSUME NEW r \in Nat, r > 0, NEW c \in AllPoints(r)
  PROVE  \E n \in Nat : n < r * r * r /\ CellAt(r, n) = c
  <1> DEFINE a == r * c[1] + c[2]
             n == r * a + c[3]
  <1>1. c[1] \in 0 .. r - 1 /\ c[2] \in 0 .. r - 1 /\ c[3] \in 0 .. r - 1 /\ c = << c[1], c[2], c[3] >>
    BY DEF AllPoints
  <1>2. a \in Nat /\ n \in Nat
    BY <1>1, Z3
  <1>3. a + 1 <= r * r
    <2>1. r * c[1] + r <= r * r
      BY <1>1, Between
    <2>2. r * c[1] \in Int /\ r * r \in Int /\ c[2] \in Int /\ c[2] + 1 <= r
      BY <1>1
    <2>3. QED
      BY <2>1, <2>2
  <1>4. n < r * r * r
    <2>1. a < r * r /\ a \in Int /\ r * r \in Int
      BY <1>2, <1>3
    <2> HIDE DEF a
    <2>2. r * a + r <= r * (r * r)
      BY <2>1, Between
    <2>3. r * (r * r) = r * r * r /\ r * a \in Int /\ r * r * r \in Int
      BY <1>2, Z3
    <2> DEFINE b == r * a
               d == r * r * r
    <2>4. b + r <= d /\ b \in Int /\ d \in Int /\ c[3] \in Int /\ c[3] < r /\ n = b + c[3]
      BY <1>1, <2>2, <2>3
    <2> HIDE DEF b, d, n
    <2>5. n < d
      BY <2>4
    <2>6. QED
      BY <2>5 DEF d
  <1>5. n \div r = a /\ n % r = c[3]
    <2> HIDE DEF a
    <2>1. n = r * (n \div r) + (n % r) /\ n % r \in 0 .. r - 1 /\ n \div r \in Nat
      BY <1>2, Divide
    <2>2. QED
      BY <1>1, <1>2, <2>1, Unique
  <1>6. a \div r = c[1] /\ a % r = c[2]
    <2>1. a = r * (a \div r) + (a % r) /\ a % r \in 0 .. r - 1 /\ a \div r \in Nat
      BY <1>2, Divide
    <2>2. QED
      BY <1>1, <1>2, <2>1, Unique
  <1>7. n \div (r * r) = c[1]
    <2> HIDE DEF a, n
    <2>1. QED
      BY <1>2, <1>5, <1>6, Digits
  <1>8. CellAt(r, n) = c
    BY <1>1, <1>5, <1>6, <1>7 DEF CellAt
  <1>9. QED
    BY <1>2, <1>4, <1>8

LEMMA CellAtType ==
  ASSUME NEW r \in Nat, r > 0, NEW n \in Nat, n < r * r * r
  PROVE  CellAt(r, n) \in AllPoints(r)
  <1> DEFINE x == (n \div r) \div r
             y == (n \div r) % r
             z == n % r
  <1>1. /\ n = r * (r * x + y) + z /\ x \in Nat /\ y \in 0 .. r - 1 /\ z \in 0 .. r - 1
        /\ n \div (r * r) = x
    BY Digits
  <1> HIDE DEF x, y, z
  <1>2. x < r
    <2> SUFFICES ASSUME r <= x PROVE FALSE
      BY <1>1
    <2>1. r * r * r <= r * (r * x)
      <3>1. r * r <= r * x
        BY <1>1, Z3
      <3>2. r * r \in Nat /\ r * x \in Nat
        BY <1>1, Z3
      <3>3. QED
        BY <3>1, <3>2, Z3
    <2>2. r * (r * x + y) = r * (r * x) + r * y /\ r * y \in Nat /\ r * (r * x) \in Nat /\ r * r * r \in Nat
      BY <1>1, Z3
    <2>3. QED
      BY <1>1, <2>1, <2>2
  <1>3. QED
    BY <1>1, <1>2 DEF CellAt, AllPoints, x, y, z

--------------------------------------------------------------------------------
(* Whose vertices the soup holds.                                                *)

Rows(c) == Len(Triangles(CaseOf(CellAt(mResolution, c))))

(* How many vertices the cell numbered c has pushed. *)
Due(c) == IF c \in working THEN (pushes[c] + 1) \div 2 ELSE IF c < next THEN 3 * Rows(c) ELSE 0

(* The cells and the stages: a cell at work has something left to push, and what *)
(* is pushed outside the lock is whole triangles.                                *)
Steady ==
  /\ scene \in Scenes
  /\ next <= NumCells(mResolution)
  /\ stage = "new" => next = 0
  /\ stage # "new" => mGrid = AllPoints(mResolution) \ scene.above
  /\ stage \notin {"new", "cells"} => next = NumCells(mResolution)
  /\ \A c \in working : pushes[c] < 6 * Rows(c)
  /\ inside = {} => Len(mVertices) % 3 = 0
  /\ \A c \in inside : Len(mVertices) % 3 = Due(c) % 3

(* Each vertex is one that a cell has pushed, and its number within the cell; no *)
(* two are the same, and the vertices of a triangle follow each other.           *)
OwnedBy(own) ==
  /\ own \in [1 .. Len(mVertices) -> Nat \X Nat]
  /\ \A n \in 1 .. Len(mVertices) :
        /\ mVertices[n] = VertexPushed(own[n][1], 2 * own[n][2])
        /\ own[n][1] < next /\ own[n][2] < Due(own[n][1])
        /\ own[n][2] % 3 = (n - 1) % 3
        /\ n % 3 # 1 => own[n] = << own[n - 1][1], own[n - 1][2] + 1 >>
  /\ \A m, n \in 1 .. Len(mVertices) : own[m] = own[n] => m = n
  /\ \A c, i \in Nat : c < next /\ i < Due(c) => \E n \in 1 .. Len(mVertices) : own[n] = << c, i >>
  /\ \A c \in inside : Due(c) > 0 => own[Len(mVertices)] = << c, Due(c) - 1 >>

Owned == \E own : OwnedBy(own)

LEMMA RowsType == \A c : Rows(c) \in Nat
  BY RowLength DEF Rows

LEMMA SceneType ==
  ASSUME Steady
  PROVE  mResolution \in Nat /\ mResolution >= 2 /\ NumCells(mResolution) \in Nat
  <1>1. scene \in Scene
    BY ScenesAssumption DEF Steady
  <1>2. scene.res \in 2 .. GridSize + 2
    BY <1>1 DEF Scene
  <1>3. mResolution \in Nat /\ mResolution >= 2
    BY <1>2, GridSizeAssumption DEF mResolution
  <1>4. QED
    BY <1>3 DEF NumCells

LEMMA OwnedAtStart == Init => Steady /\ Owned
  <1> SUFFICES ASSUME Init PROVE Steady /\ Owned
    OBVIOUS
  <1>1. /\ scene \in Scenes /\ stage = "new" /\ next = 0 /\ pushes = [c \in {} |-> 0] /\ inside = {}
        /\ mVertices = << >>
    BY DEF Init
  <1>2. working = {}
    BY <1>1 DEF working
  <1>3. scene.res \in 2 .. GridSize + 2
    BY <1>1, ScenesAssumption DEF Scene
  <1>4. 0 <= NumCells(mResolution)
    <2>1. mResolution \in Nat
      BY <1>3, GridSizeAssumption DEF mResolution
    <2>2. QED
      BY <2>1 DEF NumCells
  <1>5. Steady
    BY <1>1, <1>2, <1>4 DEF Steady
  <1>6. OwnedBy(<< >>)
    BY <1>1, <1>2 DEF OwnedBy
  <1>7. QED
    BY <1>5, <1>6 DEF Owned

(* The vertices a cell has pushed, by the pushes it has made. *)
LEMMA Halves ==
  ASSUME NEW p \in Nat
  PROVE  /\ p % 2 = 0 => (p + 1) \div 2 \in Nat /\ p = 2 * ((p + 1) \div 2)
                         /\ (p + 2) \div 2 = (p + 1) \div 2 + 1
         /\ p % 2 # 0 => (p + 1) \div 2 \in Nat /\ p + 1 = 2 * ((p + 1) \div 2)
                         /\ (p + 2) \div 2 = (p + 1) \div 2
  OBVIOUS

LEMMA NextOfThree ==
  ASSUME NEW a \in Nat, NEW b \in Nat, a % 3 = b % 3
  PROVE  (a + 1) % 3 = (b + 1) % 3
  OBVIOUS

(* A vertex is pushed. *)
LEMMA VertexOwned ==
  ASSUME Working, Steady, NEW own, OwnedBy(own), NEW c \in working, Push(c), pushes[c] % 2 = 0
  PROVE  Steady' /\ Owned'
  <1> DEFINE L == Len(mVertices)
             d == Due(c)
             new == Append(own, << c, d >>)
  <1>1. /\ c \in inside /\ c \in Nat /\ pushes[c] \in Nat /\ next \in Nat /\ c < next /\ stage = "cells"
        /\ L \in Nat /\ pushes \in [working -> Nat] /\ inside = {c} /\ mVertices \in Seq(Pushable)
    <2>1. c \in inside
      BY DEF Push
    <2>2. /\ mVertices \in Seq(Pushable) /\ working \subseteq Nat /\ (\A b \in working : b < next)
          /\ pushes \in [working -> Nat] /\ next \in Nat /\ (stage # "cells" => working = {})
          /\ inside \subseteq working /\ \A a, b \in inside : a = b
      BY DEF Working
    <2>3. L \in Nat /\ pushes[c] \in Nat
      BY <2>2
    <2>4. inside = {c} /\ stage = "cells"
      BY <2>1, <2>2
    <2>5. QED
      BY <2>1, <2>2, <2>3, <2>4
  <1>2. d \in Nat /\ pushes[c] = 2 * d /\ (pushes[c] + 2) \div 2 = d + 1
    BY <1>1, Halves DEF Due
  <1>3. \A b : Rows(b) \in Nat
    BY RowsType
  <1>4. /\ mVertices' = Append(mVertices, VertexPushed(c, pushes[c]))
        /\ pushes' = [pushes EXCEPT ![c] = @ + 1] /\ inside' = inside
        /\ UNCHANGED <<scene, rounds, stage, mGrid, next>>
    <2>1. pushes[c] + 1 # 6 * Rows(c)
      BY <1>2, <1>3
    <2>2. QED
      BY <2>1 DEF Push, Rows
  <1>5. working' = working /\ pushes'[c] = 2 * d + 1 /\ \A b \in working : b # c => pushes'[b] = pushes[b]
    BY <1>1, <1>2, <1>4 DEF working
  <1>6. (\A b : Rows(b)' = Rows(b)) /\ \A b, n : VertexPushed(b, n)' = VertexPushed(b, n)
    BY <1>4 DEF Rows, VertexPushed, mResolution, vertList, interpolateVertices, CaseOf
  <1>7. Due(c)' = d + 1 /\ \A b : b # c => Due(b)' = Due(b)
    <2>1. Due(c)' = (pushes'[c] + 1) \div 2 /\ pushes'[c] = pushes[c] + 1
      BY <1>1, <1>4, <1>5 DEF Due
    <2>2. Due(c)' = (pushes[c] + 2) \div 2
      BY <1>1, <2>1
    <2>3. \A b : b # c => Due(b)' = Due(b)
      BY <1>4, <1>5, <1>6 DEF Due
    <2>4. QED
      BY <1>2, <2>2, <2>3
  <1>8. Len(mVertices') = L + 1 /\ mVertices'[L + 1] = VertexPushed(c, 2 * d)
        /\ \A n \in 1 .. L : mVertices'[n] = mVertices[n]
    BY <1>1, <1>2, <1>4
  <1>9. L % 3 = d % 3 /\ 2 * d < 6 * Rows(c)
    BY <1>1, <1>2 DEF Steady
  <1> HIDE DEF d, L
  <1>10. Steady'
    <2>1. \A b \in working' : pushes'[b] < 6 * Rows(b)'
      <3>1. 2 * d + 1 < 6 * Rows(c)
        BY <1>2, <1>3, <1>9
      <3>2. QED
        BY <1>5, <1>6, <3>1 DEF Steady
    <2>2. \A b \in inside' : Len(mVertices') % 3 = Due(b)' % 3
      <3>1. L \in Nat
        BY <1>1 DEF L
      <3>2. (L + 1) % 3 = (d + 1) % 3
        BY <1>2, <1>9, <3>1, NextOfThree
      <3>3. QED
        BY <1>1, <1>4, <1>7, <1>8, <3>2
    <2>3. UNCHANGED <<mResolution, NumCells(mResolution), AllPoints(mResolution)>>
      BY <1>4 DEF mResolution
    <2>4. inside' # {}
      BY <1>1, <1>4
    <2>5. QED
      BY <1>4, <2>1, <2>2, <2>3, <2>4 DEF Steady
  <1>11. /\ own \in [1 .. L -> Nat \X Nat]
         /\ \A n \in 1 .. L :
              /\ mVertices[n] = VertexPushed(own[n][1], 2 * own[n][2])
              /\ own[n][1] < next /\ own[n][2] < Due(own[n][1])
              /\ own[n][2] % 3 = (n - 1) % 3
              /\ n % 3 # 1 => own[n] = << own[n - 1][1], own[n - 1][2] + 1 >>
         /\ \A m, n \in 1 .. L : own[m] = own[n] => m = n
         /\ \A b, i \in Nat : b < next /\ i < Due(b) => \E n \in 1 .. L : own[n] = << b, i >>
         /\ d > 0 => own[L] = << c, d - 1 >>
    BY <1>1 DEF OwnedBy, L, d
  <1>12. PICK new1 : new1 \in [1 .. L + 1 -> Nat \X Nat] /\ new1[L + 1] = << c, d >>
                     /\ \A n \in 1 .. L : new1[n] = own[n]
    <2> DEFINE f == [n \in 1 .. L + 1 |-> IF n = L + 1 THEN << c, d >> ELSE own[n]]
    <2>1. L \in Nat
      BY <1>1 DEF L
    <2>2. f \in [1 .. L + 1 -> Nat \X Nat] /\ f[L + 1] = << c, d >> /\ \A n \in 1 .. L : f[n] = own[n]
      <3>1. \A n \in 1 .. L : own[n] \in Nat \X Nat
        BY <1>11
      <3>2. << c, d >> \in Nat \X Nat
        BY <1>1, <1>2
      <3>3. QED
        BY <2>1, <3>1, <3>2
    <2>3. QED
      BY <2>2
  <1>13. OwnedBy(new1)'
    <2>0. L \in Nat /\ \A n \in 1 .. L + 1 : n \in 1 .. L \/ n = L + 1
      BY <1>1 DEF L
    <2>1. ASSUME NEW n \in 1 .. L + 1
          PROVE  /\ mVertices'[n] = VertexPushed(new1[n][1], 2 * new1[n][2])
                 /\ new1[n][1] < next /\ new1[n][2] < Due(new1[n][1])'
                 /\ new1[n][2] % 3 = (n - 1) % 3
                 /\ n % 3 # 1 => new1[n] = << new1[n - 1][1], new1[n - 1][2] + 1 >>
      <3>1. CASE n \in 1 .. L
        <4>1. new1[n] = own[n] /\ mVertices'[n] = mVertices[n] /\ own[n] \in Nat \X Nat
          BY <1>8, <1>11, <1>12, <3>1
        <4>2. own[n][2] < Due(own[n][1])'
          <5>1. own[n][2] < Due(own[n][1]) /\ own[n][2] \in Nat
            BY <1>11, <3>1, <4>1
          <5>2. CASE own[n][1] = c
            <6>1. own[n][2] < d + 1
              BY <1>2, <5>1, <5>2 DEF d
            <6>2. QED
              BY <1>7, <5>2, <6>1
          <5>3. CASE own[n][1] # c
            <6>1. Due(own[n][1])' = Due(own[n][1])
              BY <1>7, <5>3
            <6>2. QED
              BY <5>1, <6>1
          <5>4. QED
            BY <5>2, <5>3
        <4>3. n % 3 # 1 => n - 1 \in 1 .. L
          BY <2>0, <3>1
        <4>4. n % 3 # 1 => new1[n - 1] = own[n - 1]
          BY <1>12, <4>3
        <4>5. QED
          BY <1>11, <3>1, <4>1, <4>2, <4>4
      <3>2. CASE n = L + 1
        <4>1. new1[n][1] = c /\ new1[n][2] = d /\ new1[n] = << c, d >>
          BY <1>12, <3>2
        <4>2. d % 3 = (n - 1) % 3 /\ d < d + 1
          BY <1>2, <1>9, <2>0, <3>2
        <4>3. ASSUME n % 3 # 1
              PROVE  new1[n - 1] = << c, d - 1 >> /\ d - 1 \in Nat
          <5>1. L % 3 # 0 /\ n - 1 = L
            BY <2>0, <3>2, <4>3
          <5>2. d > 0 /\ L \in 1 .. L
            BY <1>2, <1>9, <2>0, <5>1
          <5>3. new1[L] = own[L] /\ own[L] = << c, d - 1 >>
            BY <1>11, <1>12, <5>2
          <5>4. QED
            BY <1>2, <5>1, <5>2, <5>3
        <4>4. n % 3 # 1 => new1[n] = << new1[n - 1][1], new1[n - 1][2] + 1 >>
          BY <1>2, <4>1, <4>3
        <4>5. QED
          BY <1>1, <1>7, <1>8, <3>2, <4>1, <4>2, <4>4
      <3>3. QED
        BY <2>0, <3>1, <3>2
    <2>2. ASSUME NEW m \in 1 .. L + 1, NEW n \in 1 .. L + 1, new1[m] = new1[n] PROVE m = n
      <3>1. \A k \in 1 .. L : own[k] # << c, d >>
        BY <1>2, <1>11 DEF d
      <3>2. QED
        BY <1>11, <1>12, <2>0, <2>2, <3>1
    <2>3. ASSUME NEW b \in Nat, NEW i \in Nat, b < next, i < Due(b)'
          PROVE  \E n \in 1 .. L + 1 : new1[n] = << b, i >>
      <3>1. CASE b = c /\ i = d
        BY <1>12, <2>0, <3>1
      <3>2. CASE ~(b = c /\ i = d)
        <4>1. i < Due(b)
          BY <1>2, <1>7, <2>3, <3>2 DEF d
        <4>2. PICK n \in 1 .. L : own[n] = << b, i >>
          BY <1>11, <2>3, <4>1
        <4>3. n \in 1 .. L + 1
          BY <2>0
        <4>4. QED
          BY <1>12, <4>2, <4>3
      <3>3. QED
        BY <3>1, <3>2
    <2>4. \A b \in inside' : Due(b)' > 0 => new1[L + 1] = << b, Due(b)' - 1 >>
      BY <1>1, <1>2, <1>4, <1>7, <1>12
    <2>5. Len(mVertices') = L + 1 /\ next' = next
      BY <1>4, <1>8
    <2>6. \A b, n : VertexPushed(b, n)' = VertexPushed(b, n)
      BY <1>6
    <2>7. \A n \in 1 .. L + 1 : mVertices'[n] = VertexPushed(new1[n][1], 2 * new1[n][2])'
      BY <2>1, <2>6
    <2>8. new1 \in [1 .. L + 1 -> Nat \X Nat]
      BY <1>12
    <2>9. \A n \in 1 .. L + 1 :
             /\ new1[n][1] < next' /\ new1[n][2] < Due(new1[n][1])'
             /\ new1[n][2] % 3 = (n - 1) % 3
             /\ n % 3 # 1 => new1[n] = << new1[n - 1][1], new1[n - 1][2] + 1 >>
      BY <2>1, <2>5
    <2>10. /\ new1 \in [1 .. Len(mVertices)' -> Nat \X Nat]
           /\ \A n \in 1 .. Len(mVertices)' :
                 /\ mVertices'[n] = VertexPushed(new1[n][1], 2 * new1[n][2])'
                 /\ new1[n][1] < next' /\ new1[n][2] < Due(new1[n][1])'
                 /\ new1[n][2] % 3 = (n - 1) % 3
                 /\ n % 3 # 1 => new1[n] = << new1[n - 1][1], new1[n - 1][2] + 1 >>
      BY <2>5, <2>7, <2>8, <2>9
    <2>11. \A m, n \in 1 .. Len(mVertices)' : new1[m] = new1[n] => m = n
      BY <2>2, <2>5
    <2>12. \A b, i \in Nat : b < next' /\ i < Due(b)' => \E n \in 1 .. Len(mVertices)' : new1[n] = << b, i >>
      BY <2>3, <2>5
    <2>13. \A b \in inside' : Due(b)' > 0 => new1[Len(mVertices)'] = << b, Due(b)' - 1 >>
      BY <2>4, <2>5
    <2>14. QED
      BY <2>10, <2>11, <2>12, <2>13 DEF OwnedBy
  <1>14. QED
    BY <1>10, <1>13 DEF Owned

(* A normal is pushed, and the last of a cell ends it. *)
LEMMA NormalOwned ==
  ASSUME Working, Steady, NEW own, OwnedBy(own), NEW c \in working, Push(c), pushes[c] % 2 # 0
  PROVE  Steady' /\ Owned'
  <1> DEFINE d == Due(c)
  <1>1. /\ c \in inside /\ c \in Nat /\ pushes[c] \in Nat /\ next \in Nat /\ c < next
        /\ pushes \in [working -> Nat] /\ inside = {c} /\ stage = "cells"
    <2>1. c \in inside
      BY DEF Push
    <2>2. /\ working \subseteq Nat /\ (\A b \in working : b < next)
          /\ pushes \in [working -> Nat] /\ next \in Nat /\ (stage # "cells" => working = {})
          /\ inside \subseteq working /\ \A a, b \in inside : a = b
      BY DEF Working
    <2>3. pushes[c] \in Nat
      BY <2>2
    <2>4. inside = {c} /\ stage = "cells"
      BY <2>1, <2>2
    <2>5. QED
      BY <2>1, <2>2, <2>3, <2>4
  <1>2. d \in Nat /\ pushes[c] + 1 = 2 * d /\ (pushes[c] + 2) \div 2 = d
    BY <1>1, Halves DEF Due
  <1>3. Rows(c) \in Nat /\ pushes[c] < 6 * Rows(c)
    BY RowsType DEF Steady
  <1>4. /\ IF pushes[c] + 1 = 6 * Rows(c)
           THEN pushes' = [b \in working \ {c} |-> pushes[b]] /\ inside' = inside \ {c}
           ELSE pushes' = [pushes EXCEPT ![c] = @ + 1] /\ inside' = inside
        /\ UNCHANGED <<scene, rounds, stage, mGrid, next, mVertices>>
    BY DEF Push, Rows
  <1>5. (\A b : Rows(b)' = Rows(b)) /\ \A b, n : VertexPushed(b, n)' = VertexPushed(b, n)
    BY <1>4 DEF Rows, VertexPushed, mResolution, vertList, interpolateVertices, CaseOf
  <1>6. /\ working' \subseteq working /\ \A b \in working : b # c => b \in working' /\ pushes'[b] = pushes[b]
        /\ \A b \in working' : pushes'[b] < 6 * Rows(b)
        /\ (inside' = {c} /\ Due(c)' = d) \/ (inside' = {} /\ Due(c)' = d /\ d % 3 = 0)
    <2>1. \A b \in working : pushes[b] < 6 * Rows(b)
      BY DEF Steady
    <2>2. CASE pushes[c] + 1 = 6 * Rows(c)
      <3>1. pushes' = [b \in working \ {c} |-> pushes[b]] /\ inside' = {}
        BY <1>1, <1>4, <2>2
      <3>2. working' = working \ {c} /\ \A b \in working' : pushes'[b] = pushes[b]
        BY <3>1 DEF working
      <3>3. Due(c)' = 3 * Rows(c)
        BY <1>1, <1>4, <1>5, <3>2 DEF Due
      <3>4. 3 * Rows(c) = d /\ d % 3 = 0
        BY <1>2, <1>3, <2>2
      <3>5. QED
        BY <2>1, <3>1, <3>2, <3>3, <3>4
    <2>3. CASE pushes[c] + 1 # 6 * Rows(c)
      <3>1. pushes' = [pushes EXCEPT ![c] = @ + 1] /\ inside' = {c}
        BY <1>1, <1>4, <2>3
      <3>2. working' = working /\ pushes'[c] = pushes[c] + 1 /\ \A b \in working : b # c => pushes'[b] = pushes[b]
        BY <1>1, <3>1 DEF working
      <3>3. Due(c)' = (pushes[c] + 2) \div 2
        <4>1. Due(c)' = ((pushes[c] + 1) + 1) \div 2
          BY <3>2 DEF Due
        <4>2. QED
          BY <1>1, <4>1
      <3>4. pushes[c] + 1 < 6 * Rows(c)
        BY <1>1, <1>3, <2>3
      <3>5. QED
        BY <1>2, <2>1, <3>1, <3>2, <3>3, <3>4
    <2>4. QED
      BY <2>2, <2>3
  <1>7. \A b : Due(b)' = Due(b)
    BY <1>4, <1>5, <1>6 DEF Due
  <1>8. Len(mVertices) % 3 = d % 3
    BY <1>1 DEF Steady
  <1> HIDE DEF d
  <1>9. Steady'
    <2>1. (inside' = {} => Len(mVertices') % 3 = 0)
          /\ \A b \in inside' : Len(mVertices') % 3 = Due(b)' % 3
      BY <1>4, <1>6, <1>8
    <2>2. UNCHANGED <<mResolution, NumCells(mResolution), AllPoints(mResolution)>>
      BY <1>4 DEF mResolution
    <2>3. QED
      BY <1>4, <1>5, <1>6, <2>1, <2>2 DEF Steady
  <1>10. OwnedBy(own)'
    BY <1>1, <1>4, <1>5, <1>6, <1>7 DEF OwnedBy
  <1>11. QED
    BY <1>9, <1>10 DEF Owned

(* Steps that neither push nor take a cell. *)
LEMMA OwnedStays ==
  ASSUME Steady, Owned, UNCHANGED <<scene, rounds, mGrid, next, pushes, mVertices>>,
         inside' = inside \/ (inside = {} /\ \A c \in inside' : c \in working /\ pushes[c] = 0)
  PROVE  (stage' = stage \/ (stage # "new" /\ stage' # "new" /\
                             (stage' \notin {"new", "cells"} => next = NumCells(mResolution))))
           => Steady' /\ Owned'
  <1>1. (\A b : Rows(b)' = Rows(b)) /\ \A b, n : VertexPushed(b, n)' = VertexPushed(b, n)
    BY DEF Rows, VertexPushed, mResolution, vertList, interpolateVertices, CaseOf
  <1>2. working' = working /\ \A b : Due(b)' = Due(b)
    BY <1>1 DEF Due, working
  <1>3. \A c \in inside' \ inside : Due(c) = 0 /\ Len(mVertices) % 3 = 0
    <2>1. 1 \div 2 = 0
      OBVIOUS
    <2>2. QED
      BY <2>1 DEF Due, Steady
  <1>4. UNCHANGED <<mResolution, NumCells(mResolution), AllPoints(mResolution)>>
    BY DEF mResolution
  <1>5. PICK own : OwnedBy(own)
    BY DEF Owned
  <1>6. OwnedBy(own)'
    <2>1. \A n \in 1 .. Len(mVertices)' :
             /\ mVertices'[n] = VertexPushed(own[n][1], 2 * own[n][2])'
             /\ own[n][1] < next' /\ own[n][2] < Due(own[n][1])'
             /\ own[n][2] % 3 = (n - 1) % 3
             /\ n % 3 # 1 => own[n] = << own[n - 1][1], own[n - 1][2] + 1 >>
      BY <1>1, <1>2, <1>5 DEF OwnedBy
    <2>2. \A b, i \in Nat : b < next' /\ i < Due(b)' => \E n \in 1 .. Len(mVertices)' : own[n] = << b, i >>
      BY <1>2, <1>5 DEF OwnedBy
    <2>3. \A b \in inside' : Due(b)' > 0 => own[Len(mVertices)'] = << b, Due(b)' - 1 >>
      <3>1. ~(0 > 0)
        OBVIOUS
      <3>2. \A b \in inside' : b \in inside \/ Due(b)' = 0
        BY <1>2, <1>3
      <3>3. QED
        BY <1>2, <1>5, <3>1, <3>2 DEF OwnedBy
    <2>4. /\ own \in [1 .. Len(mVertices)' -> Nat \X Nat]
          /\ \A m, n \in 1 .. Len(mVertices)' : own[m] = own[n] => m = n
      BY <1>5 DEF OwnedBy
    <2>5. QED
      BY <2>1, <2>2, <2>3, <2>4 DEF OwnedBy
  <1>7. ASSUME stage' = stage \/ (stage # "new" /\ stage' # "new" /\
                             (stage' \notin {"new", "cells"} => next = NumCells(mResolution)))
        PROVE  Steady'
    <2>1. (inside' = {} => Len(mVertices') % 3 = 0)
          /\ \A b \in inside' : Len(mVertices') % 3 = Due(b)' % 3
      <3>1. 0 % 3 = 0
        OBVIOUS
      <3>2. QED
        BY <1>2, <1>3, <3>1 DEF Steady
    <2>2. QED
      BY <1>1, <1>2, <1>4, <1>7, <2>1 DEF Steady
  <1>8. QED
    BY <1>6, <1>7 DEF Owned

(* A cell is taken: it is at work with nothing pushed, or it has no triangles. *)
LEMMA TakeOwned ==
  ASSUME Working, Steady, Owned, Take
  PROVE  Steady' /\ Owned'
  <1>0. PICK t \in Nat : t = next
    BY DEF Working
  <1> DEFINE k == CaseOf(CellAt(mResolution, next))
  <1>1. /\ next' = next + 1 /\ next < NumCells(mResolution) /\ stage = "cells"
        /\ pushes' = IF EdgesOn(k) = {} THEN pushes
                     ELSE [b \in working \cup {next} |-> IF b = next THEN 0 ELSE pushes[b]]
        /\ UNCHANGED <<scene, rounds, stage, mGrid, inside, mVertices>>
    BY DEF Take, soup
  <1>2. next \in Nat /\ NumCells(mResolution) \in Nat /\ working \subseteq Nat /\ (\A b \in working : b < next)
        /\ pushes \in [working -> Nat] /\ inside \subseteq working
    BY SceneType DEF Working
  <1>3. (\A b : Rows(b)' = Rows(b)) /\ \A b, n : VertexPushed(b, n)' = VertexPushed(b, n)
    BY <1>1 DEF Rows, VertexPushed, mResolution, vertList, interpolateVertices, CaseOf
  <1>4. IF EdgesOn(k) = {} THEN Rows(next) = 0 ELSE Rows(next) \in Nat /\ Rows(next) > 0
    <2>1. k \in Config
      BY CaseHasRow DEF CaseOf
    <2>2. Rows(next) = Len(TrianglesOf(k)) /\ EdgesOn(k) = EdgesOf(k)
      BY DEF Rows, Triangles, EdgesOn
    <2> HIDE DEF k
    <2>3. TrianglesOf(k) \in Seq(EdgesOf(k) \X EdgesOf(k) \X EdgesOf(k))
          /\ (TrianglesOf(k) = << >> => EdgesOf(k) = {})
      BY <2>1, RowsAssumption
    <2>4. CASE EdgesOf(k) = {}
      <3>1. TrianglesOf(k) \in Seq({})
        BY <2>3, <2>4
      <3>2. Len(TrianglesOf(k)) = 0
        BY <3>1
      <3>3. QED
        BY <2>2, <2>4, <3>2
    <2>5. CASE EdgesOf(k) # {}
      BY <2>2, <2>3, <2>5
    <2>6. QED
      BY <2>4, <2>5
  <1> HIDE DEF k
  <1>5. /\ working \subseteq working' /\ working' \subseteq working \cup {next}
        /\ \A b \in working : pushes'[b] = pushes[b]
        /\ \A b \in working' : pushes'[b] < 6 * Rows(b)
        /\ Due(t)' = 0
    <2>1. next \notin working /\ \A b \in working : pushes[b] < 6 * Rows(b)
      BY <1>2 DEF Steady
    <2>2. CASE EdgesOn(k) = {}
      <3>1. pushes' = pushes /\ working' = working
        BY <1>1, <2>2 DEF working
      <3>2. Due(t)' = 3 * Rows(t)
        BY <1>0, <1>1, <1>2, <1>3, <2>1, <3>1 DEF Due
      <3>3. QED
        BY <1>0, <1>4, <2>1, <2>2, <3>1, <3>2
    <2>3. CASE EdgesOn(k) # {}
      <3>1. pushes' = [b \in working \cup {next} |-> IF b = next THEN 0 ELSE pushes[b]]
        BY <1>1, <2>3
      <3>2. working' = working \cup {next} /\ pushes'[next] = 0 /\ \A b \in working : pushes'[b] = pushes[b]
        BY <2>1, <3>1 DEF working
      <3>3. Due(t)' = (0 + 1) \div 2
        BY <1>0, <3>2 DEF Due
      <3>4. 0 < 6 * Rows(next)
        BY <1>4, <2>3
      <3>5. QED
        BY <2>1, <3>2, <3>3, <3>4
    <2>4. QED
      BY <2>2, <2>3
  <1>6. \A b \in Nat : b < next => Due(b)' = Due(b)
    <2>1. \A b \in Nat : b < next => b < next' /\ b # next
      BY <1>1, <1>2
    <2>2. QED
      BY <1>3, <1>5, <2>1 DEF Due
  <1>7. \A b \in Nat : b < next' <=> b < next \/ b = next
    BY <1>1, <1>2
  <1>8. Steady'
    <2>1. UNCHANGED <<mResolution, NumCells(mResolution), AllPoints(mResolution)>>
      BY <1>1 DEF mResolution
    <2>2. next' <= NumCells(mResolution)
      BY <1>1, <1>2
    <2>3. \A b \in inside' : Len(mVertices') % 3 = Due(b)' % 3
      BY <1>1, <1>2, <1>6 DEF Steady
    <2>4. QED
      BY <1>1, <1>3, <1>5, <2>1, <2>2, <2>3 DEF Steady
  <1>9. PICK own : OwnedBy(own)
    BY DEF Owned
  <1>10. OwnedBy(own)'
    <2>1. \A n \in 1 .. Len(mVertices) : own[n] \in Nat \X Nat /\ own[n][1] < next /\ own[n][2] < Due(own[n][1])
      BY <1>9 DEF OwnedBy
    <2>2. \A n \in 1 .. Len(mVertices) : own[n][1] < next' /\ own[n][2] < Due(own[n][1])'
      BY <1>6, <1>7, <2>1
    <2>3. \A b, i \in Nat : b < next' /\ i < Due(b)' => \E n \in 1 .. Len(mVertices) : own[n] = << b, i >>
      <3> SUFFICES ASSUME NEW b \in Nat, NEW i \in Nat, b < next', i < Due(b)'
                   PROVE  \E n \in 1 .. Len(mVertices) : own[n] = << b, i >>
        OBVIOUS
      <3>1. b # next
        BY <1>0, <1>5
      <3>2. b < next /\ i < Due(b)
        BY <1>6, <1>7, <3>1
      <3>3. QED
        BY <1>9, <3>2 DEF OwnedBy
    <2>4. \A b \in inside' : Due(b)' > 0 => own[Len(mVertices)] = << b, Due(b)' - 1 >>
      <3>1. \A b \in inside : Due(b)' = Due(b)
        BY <1>2, <1>6
      <3>2. QED
        BY <1>1, <1>9, <3>1 DEF OwnedBy
    <2>5. QED
      BY <1>1, <1>3, <1>9, <2>2, <2>3, <2>4 DEF OwnedBy
  <1>11. QED
    BY <1>8, <1>10 DEF Owned

LEMMA OwnedNext == Working /\ Steady /\ Owned /\ [Next]_vars => Steady' /\ Owned'
  <1> SUFFICES ASSUME Working, Steady, Owned, [Next]_vars PROVE Steady' /\ Owned'
    OBVIOUS
  <1> USE DEF soup
  <1>1. CASE constructGrid
    <2>1. /\ stage = "new" /\ stage' = "cells" /\ mGrid' = AllPoints(mResolution) \ scene.above
          /\ UNCHANGED <<scene, rounds, next, pushes, inside, mVertices>>
          /\ mVertices = << >> /\ working = {} /\ inside = {} /\ next = 0
      BY <1>1 DEF constructGrid, Working, Steady
    <2>2. working' = {} /\ UNCHANGED <<mResolution, NumCells(mResolution), AllPoints(mResolution)>>
      BY <2>1 DEF working, mResolution
    <2>3. Steady'
      BY <2>1, <2>2 DEF Steady
    <2>4. OwnedBy(<< >>)'
      BY <2>1 DEF OwnedBy
    <2>5. QED
      BY <2>3, <2>4 DEF Owned
  <1>2. CASE Take
    BY <1>2, TakeOwned
  <1>3. CASE \E c \in working : Lock(c)
    <2>1. PICK c \in working : Lock(c)
      BY <1>3
    <2>2. /\ UNCHANGED <<scene, rounds, mGrid, mVertices, pushes, stage, next>>
          /\ inside = {} /\ inside' = {c} /\ pushes[c] = 0
      BY <2>1 DEF Lock, Working
    <2>3. QED
      BY <2>2, OwnedStays
  <1>4. CASE \E c \in working : Push(c)
    <2>1. PICK c \in working : Push(c)
      BY <1>4
    <2>2. PICK own : OwnedBy(own)
      BY DEF Owned
    <2>3. QED
      BY <2>1, <2>2, VertexOwned, NormalOwned
  <1>5. CASE MakeIndices
    BY <1>5, OwnedStays DEF MakeIndices
  <1>6. CASE AddIndex \/ Save \/ LoadIndex \/ Upload
    <2>1. UNCHANGED <<scene, rounds, mGrid, next, pushes, inside, mVertices>>
          /\ stage \notin {"new", "cells"} /\ stage' \notin {"new", "cells"}
      BY <1>6 DEF AddIndex, Save, LoadIndex, Upload
    <2>2. next = NumCells(mResolution)
      BY <2>1 DEF Steady
    <2>3. QED
      BY <2>1, <2>2, OwnedStays
  <1>7. CASE UNCHANGED vars
    BY <1>7, OwnedStays DEF vars
  <1>8. QED
    BY <1>1, <1>2, <1>3, <1>4, <1>5, <1>6, <1>7 DEF Next

--------------------------------------------------------------------------------
(* The finished soup: at each place the corner of a triangle of a cell.          *)

EdgeAtPlace(c, p) == TrianglesOf(CaseOf(c))[p[1]][p[2]]

Laid(cell, pl) ==
  /\ Len(mVertices) \in Nat /\ Len(mVertices) % 3 = 0
  /\ cell \in [1 .. Len(mVertices) -> AllPoints(mResolution)]
  /\ pl \in [1 .. Len(mVertices) -> Nat \X (1 .. 3)]
  /\ \A n \in 1 .. Len(mVertices) :
        /\ pl[n] \in Place(CaseOf(cell[n])) /\ pl[n][2] = ((n - 1) % 3) + 1
        /\ mVertices[n] = vertList(cell[n], EdgeAtPlace(cell[n], pl[n]))
        /\ n % 3 # 1 => cell[n] = cell[n - 1] /\ pl[n] = << pl[n - 1][1], pl[n - 1][2] + 1 >>
  /\ \A m, n \in 1 .. Len(mVertices) : cell[m] = cell[n] /\ pl[m] = pl[n] => m = n
  /\ \A c \in AllPoints(mResolution) : \A p \in Place(CaseOf(c)) :
        \E n \in 1 .. Len(mVertices) : cell[n] = c /\ pl[n] = p

LEMMA Thirds ==
  ASSUME NEW i \in Nat
  PROVE  /\ i \div 3 \in Nat /\ i % 3 \in 0 .. 2 /\ i = 3 * (i \div 3) + (i % 3)
         /\ i % 3 # 2 => (i + 1) \div 3 = i \div 3 /\ (i + 1) % 3 = (i % 3) + 1
         /\ (2 * i) \div 2 = i
  <1>1. i \div 3 \in Nat /\ i % 3 \in 0 .. 2 /\ i = 3 * (i \div 3) + (i % 3)
    OBVIOUS
  <1>2. i % 3 # 2 => (i + 1) \div 3 = i \div 3 /\ (i + 1) % 3 = (i % 3) + 1
    BY Z3
  <1>3. (2 * i) \div 2 = i
    OBVIOUS
  <1>4. QED
    BY <1>1, <1>2, <1>3

LEMMA ThirdsBound ==
  ASSUME NEW q \in Nat, NEW i \in Nat, NEW l \in Nat
  PROVE  /\ i < 3 * l => (i \div 3) + 1 \in 1 .. l
         /\ q \in 1 .. l => \A j \in 1 .. 3 :
               LET k == 3 * (q - 1) + (j - 1)
               IN  k \in Nat /\ k < 3 * l /\ (k \div 3) + 1 = q /\ (k % 3) + 1 = j
  OBVIOUS

LEMMA RowPlaces ==
  ASSUME NEW c
  PROVE  /\ DOMAIN TrianglesOf(CaseOf(c)) = 1 .. Len(TrianglesOf(CaseOf(c)))
         /\ Len(TrianglesOf(CaseOf(c))) \in Nat
         /\ Place(CaseOf(c)) = (1 .. Len(TrianglesOf(CaseOf(c)))) \X (1 .. 3)
  <1>1. CaseOf(c) \in Config
    BY CaseHasRow DEF CaseOf
  <1> DEFINE k == CaseOf(c)
  <1> HIDE DEF k
  <1>2. TrianglesOf(k) \in Seq(EdgesOf(k) \X EdgesOf(k) \X EdgesOf(k))
    BY <1>1, RowsAssumption DEF k
  <1>3. DOMAIN TrianglesOf(k) = 1 .. Len(TrianglesOf(k)) /\ Len(TrianglesOf(k)) \in Nat
    BY <1>2
  <1>4. QED
    BY <1>3 DEF k, Place

(* Once the loops have joined, the soup is laid out: every corner of every       *)
(* triangle of every cell has one place in it.                                   *)
LEMMA SoupLaid ==
  ASSUME Working, Steady, Owned, stage \notin {"new", "cells"}
  PROVE  \E cell, pl : Laid(cell, pl)
  <1> DEFINE r == mResolution
             L == Len(mVertices)
  <1>1. PICK own : OwnedBy(own)
    BY DEF Owned
  <1>2. working = {} /\ inside = {} /\ next = r * r * r /\ L \in Nat /\ L % 3 = 0
    BY DEF Working, Steady, NumCells
  <1>3. r \in Nat /\ r > 0
    BY SceneType
  <1>4. \A c \in Nat : c < next => Due(c) = 3 * Rows(c)
    BY <1>2 DEF Due
  <1> DEFINE cell == [n \in 1 .. L |-> CellAt(r, own[n][1])]
             pl   == [n \in 1 .. L |-> << (own[n][2] \div 3) + 1, (own[n][2] % 3) + 1 >>]
  <1>5. ASSUME NEW n \in 1 .. L
        PROVE  /\ own[n] \in Nat \X Nat /\ own[n][1] \in Nat /\ own[n][2] \in Nat
               /\ own[n] = << own[n][1], own[n][2] >>
               /\ mVertices[n] = VertexPushed(own[n][1], 2 * own[n][2])
               /\ own[n][1] < r * r * r /\ own[n][2] < 3 * Rows(own[n][1])
               /\ own[n][2] % 3 = (n - 1) % 3
               /\ n % 3 # 1 => own[n] = << own[n - 1][1], own[n - 1][2] + 1 >>
    <2>1. own \in [1 .. L -> Nat \X Nat]
      BY <1>1 DEF OwnedBy
    <2>2. own[n] \in Nat \X Nat
      BY <2>1
    <2>3. /\ mVertices[n] = VertexPushed(own[n][1], 2 * own[n][2])
          /\ own[n][1] < next /\ own[n][2] < Due(own[n][1])
          /\ own[n][2] % 3 = (n - 1) % 3
          /\ n % 3 # 1 => own[n] = << own[n - 1][1], own[n - 1][2] + 1 >>
      BY <1>1 DEF OwnedBy
    <2>4. own[n][1] < r * r * r /\ own[n][2] < 3 * Rows(own[n][1])
      <3>1. own[n][1] \in Nat
        BY <2>2
      <3>2. QED
        BY <1>2, <1>4, <2>3, <3>1
    <2>5. QED
      BY <2>2, <2>3, <2>4
  <1>6. \A c \in Nat : Rows(c) = Len(TrianglesOf(CaseOf(CellAt(r, c))))
    BY DEF Rows, Triangles
  <1>7. /\ \A m, n \in 1 .. L : own[m] = own[n] => m = n
        /\ \A c, i \in Nat : c < r * r * r /\ i < 3 * Rows(c) => \E n \in 1 .. L : own[n] = << c, i >>
    BY <1>1, <1>2, <1>4 DEF OwnedBy
  <1> HIDE DEF r, L
  <1>8. ASSUME NEW n \in 1 .. L
        PROVE  /\ cell[n] \in AllPoints(r) /\ pl[n] \in Nat \X (1 .. 3)
               /\ pl[n] \in Place(CaseOf(cell[n])) /\ pl[n][2] = ((n - 1) % 3) + 1
               /\ mVertices[n] = vertList(cell[n], EdgeAtPlace(cell[n], pl[n]))
               /\ n % 3 # 1 => cell[n] = cell[n - 1] /\ pl[n] = << pl[n - 1][1], pl[n - 1][2] + 1 >>
    <2> DEFINE c == own[n][1]
               i == own[n][2]
    <2>1. cell[n] = CellAt(r, c) /\ pl[n] = << (i \div 3) + 1, (i % 3) + 1 >>
      OBVIOUS
    <2>2. c \in Nat /\ i \in Nat /\ c < r * r * r /\ i < 3 * Rows(c) /\ i % 3 = (n - 1) % 3
          /\ mVertices[n] = VertexPushed(c, 2 * i)
      BY <1>5
    <2>3. ASSUME n % 3 # 1
          PROVE  n - 1 \in 1 .. L /\ own[n - 1][1] = c /\ own[n - 1][2] \in Nat /\ i = own[n - 1][2] + 1
                 /\ i % 3 # 0
      <3>1. n - 1 \in 1 .. L /\ (n - 1) % 3 # 0
        BY <1>2, <2>3 DEF L
      <3>2. own[n] = << own[n - 1][1], own[n - 1][2] + 1 >>
        BY <1>5, <2>3
      <3>3. own[n - 1] \in Nat \X Nat
        BY <1>5, <3>1
      <3>4. QED
        BY <2>2, <3>1, <3>2, <3>3
    <2> HIDE DEF c, i, cell, pl
    <2>4. cell[n] \in AllPoints(r)
      BY <1>3, <2>1, <2>2, CellAtType
    <2>5. Rows(c) \in Nat /\ Rows(c) = Len(TrianglesOf(CaseOf(cell[n])))
      BY <1>6, <2>1, <2>2, RowsType
    <2>6. pl[n][1] \in 1 .. Rows(c) /\ pl[n][2] \in 1 .. 3 /\ pl[n][1] \in Nat /\ pl[n] = << pl[n][1], pl[n][2] >>
      BY <2>1, <2>2, <2>5, ThirdsBound, Thirds
    <2>7. pl[n] \in Place(CaseOf(cell[n])) /\ pl[n] \in Nat \X (1 .. 3)
      BY <2>5, <2>6, RowPlaces
    <2>8. pl[n][2] = ((n - 1) % 3) + 1
      BY <2>1, <2>2
    <2>9. mVertices[n] = vertList(cell[n], EdgeAtPlace(cell[n], pl[n]))
      <3>1. (2 * i) \div 2 = i
        BY <2>2, Thirds
      <3>2. QED
        BY <2>1, <2>2, <3>1 DEF VertexPushed, EdgeAtPlace, Triangles, r
    <2>10. ASSUME n % 3 # 1
           PROVE  cell[n] = cell[n - 1] /\ pl[n] = << pl[n - 1][1], pl[n - 1][2] + 1 >>
      <3> DEFINE j == own[n - 1][2]
      <3>1. n - 1 \in 1 .. L /\ own[n - 1][1] = c /\ j \in Nat /\ i = j + 1 /\ i % 3 # 0
        BY <2>3, <2>10
      <3>2. cell[n - 1] = CellAt(r, c) /\ pl[n - 1] = << (j \div 3) + 1, (j % 3) + 1 >>
        BY <3>1 DEF cell, pl
      <3> HIDE DEF j
      <3>3. j % 3 # 2
        BY <3>1
      <3>4. i \div 3 = j \div 3 /\ i % 3 = (j % 3) + 1
        BY <3>1, <3>3, Thirds
      <3>5. QED
        BY <2>1, <3>2, <3>4
    <2>11. QED
      BY <2>4, <2>7, <2>8, <2>9, <2>10
  <1>9. ASSUME NEW m \in 1 .. L, NEW n \in 1 .. L, cell[m] = cell[n], pl[m] = pl[n]
        PROVE  m = n
    <2>1. CellAt(r, own[m][1]) = CellAt(r, own[n][1])
      BY <1>9
    <2>2. own[m][1] = own[n][1]
      BY <1>3, <1>5, <2>1, CellAtInjective
    <2>3. (own[m][2] \div 3) + 1 = (own[n][2] \div 3) + 1 /\ (own[m][2] % 3) + 1 = (own[n][2] % 3) + 1
      BY <1>9
    <2>4. own[m][2] = own[n][2]
      <3> DEFINE i == own[m][2]
                 j == own[n][2]
      <3>1. i \in Nat /\ j \in Nat /\ (i \div 3) + 1 = (j \div 3) + 1 /\ (i % 3) + 1 = (j % 3) + 1
        BY <1>5, <2>3
      <3> HIDE DEF i, j
      <3>2. i = j
        BY <3>1, Thirds
      <3>3. QED
        BY <3>2 DEF i, j
    <2>5. own[m] = own[n]
      BY <1>5, <2>2, <2>4
    <2>6. QED
      BY <1>7, <2>5
  <1>10. ASSUME NEW c \in AllPoints(r), NEW p \in Place(CaseOf(c))
         PROVE  \E n \in 1 .. L : cell[n] = c /\ pl[n] = p
    <2>1. PICK m \in Nat : m < r * r * r /\ CellAt(r, m) = c
      BY <1>3, CellAtOnto
    <2>2. Rows(m) = Len(TrianglesOf(CaseOf(c))) /\ Rows(m) \in Nat
      BY <1>6, <2>1, RowsType
    <2>3. p \in (1 .. Rows(m)) \X (1 .. 3)
      BY <2>2, RowPlaces
    <2>4. p[1] \in 1 .. Rows(m) /\ p[2] \in 1 .. 3 /\ p = << p[1], p[2] >> /\ p[1] \in Nat
      BY <2>3
    <2> DEFINE k == 3 * (p[1] - 1) + (p[2] - 1)
    <2>5. k \in Nat /\ k < 3 * Rows(m) /\ (k \div 3) + 1 = p[1] /\ (k % 3) + 1 = p[2]
      BY <2>2, <2>4, ThirdsBound
    <2> HIDE DEF k
    <2>6. PICK n \in 1 .. L : own[n] = << m, k >>
      BY <1>7, <2>1, <2>5
    <2>7. cell[n] = CellAt(r, m) /\ pl[n] = << (k \div 3) + 1, (k % 3) + 1 >>
      BY <2>6
    <2>8. QED
      BY <2>1, <2>4, <2>5, <2>7
  <1>11. cell \in [1 .. L -> AllPoints(r)] /\ pl \in [1 .. L -> Nat \X (1 .. 3)]
    BY <1>8
  <1> HIDE DEF cell, pl
  <1>12. Laid(cell, pl)
    BY <1>2, <1>8, <1>9, <1>10, <1>11 DEF Laid, r, L
  <1>13. QED
    BY <1>12

--------------------------------------------------------------------------------
(* The cells are voxels of the other polygonizer seen in a mirror: y and z are   *)
(* exchanged.                                                                    *)

Swap(p) == << p[1], p[3], p[2] >>

(* A cell whose corners are all its own: none is pulled back to the grid. *)
Inner(c) == c \in AllPoints(mResolution) /\ \A k \in 1 .. 3 : c[k] + 1 < mResolution

(* The points below the iso value, in the mirror. *)
Below == { p \in Grid : Swap(p) \in mGrid }

(* The points edge e of cell c joins. *)
EdgePoints(c, e) ==
  { CornerOf(mResolution, c, EdgeEnds[e + 1][1]), CornerOf(mResolution, c, EdgeEnds[e + 1][2]) }

LEMMA SwapTwice ==
  ASSUME NEW p \in Grid
  PROVE  Swap(p) \in Grid /\ Swap(Swap(p)) = p /\ p = << p[1], p[2], p[3] >>
         /\ p[1] \in Int /\ p[2] \in Int /\ p[3] \in Int
  BY DEF Swap, Grid

LEMMA PointInGrid ==
  ASSUME NEW r \in Nat, NEW c \in AllPoints(r)
  PROVE  /\ c \in Grid /\ c = << c[1], c[2], c[3] >>
         /\ c[1] \in 0 .. r - 1 /\ c[2] \in 0 .. r - 1 /\ c[3] \in 0 .. r - 1
  BY DEF AllPoints, Grid

LEMMA MirroredDecals ==
  \A i \in CornerIndex : mcDecals[i + 1] = Swap(VoxelDecals[i + 1])
  BY DEF mcDecals, VoxelDecals, Swap, CornerIndex

(* Whatever the cell, its corners are points of the grid. *)
LEMMA CornersInGrid ==
  ASSUME NEW r \in Nat, r >= 2, NEW c \in AllPoints(r), NEW i \in CornerIndex
  PROVE  /\ CornerOf(r, c, i) \in AllPoints(r)
         /\ \A k \in 1 .. 3 : c[k] + 1 = r => CornerOf(r, c, i)[k] + 1 = r
  <1> DEFINE d == mcDecals[i + 1]
             p == Plus(c, d)
  <1>1. d[1] \in {0, 1} /\ d[2] \in {0, 1} /\ d[3] \in {0, 1}
    BY MirroredDecals, VoxelDecalsType DEF Swap
  <1>2. c[1] \in 0 .. r - 1 /\ c[2] \in 0 .. r - 1 /\ c[3] \in 0 .. r - 1
    BY PointInGrid
  <1>3. p[1] = c[1] + d[1] /\ p[2] = c[2] + d[2] /\ p[3] = c[3] + d[3]
    BY DEF Plus
  <1> HIDE DEF d, p
  <1>4. ASSUME NEW k \in {1, 2, 3}
        PROVE  Clamp(r, p[k]) \in 0 .. r - 1 /\ (c[k] + 1 = r => Clamp(r, p[k]) + 1 = r)
    BY <1>1, <1>2, <1>3 DEF Clamp
  <1>5. CornerOf(r, c, i) = << Clamp(r, p[1]), Clamp(r, p[2]), Clamp(r, p[3]) >>
    BY DEF CornerOf, d, p
  <1>6. QED
    BY <1>4, <1>5 DEF AllPoints

(* The corners of an inner cell are those of the voxel in the mirror. *)
LEMMA InnerCorner ==
  ASSUME NEW c, Inner(c), mResolution \in Nat, NEW i \in CornerIndex
  PROVE  /\ Swap(c) \in Grid
         /\ CornerOf(mResolution, c, i) = Swap(Corner(Swap(c), i))
         /\ Corner(Swap(c), i) = Swap(CornerOf(mResolution, c, i))
         /\ Corner(Swap(c), i) \in Grid
  <1> DEFINE r == mResolution
             e == VoxelDecals[i + 1]
  <1>1. /\ c[1] \in 0 .. r - 1 /\ c[2] \in 0 .. r - 1 /\ c[3] \in 0 .. r - 1 /\ c \in Grid
        /\ c[1] + 1 < r /\ c[2] + 1 < r /\ c[3] + 1 < r /\ r \in Nat
    BY PointInGrid DEF Inner
  <1>2. e[1] \in {0, 1} /\ e[2] \in {0, 1} /\ e[3] \in {0, 1}
    BY VoxelDecalsType
  <1>3. mcDecals[i + 1] = << e[1], e[3], e[2] >>
    BY MirroredDecals DEF Swap
  <1>4. Corner(Swap(c), i) = << c[1] + e[1], c[3] + e[2], c[2] + e[3] >>
    BY DEF Corner, Swap, Plus
  <1>5. CornerOf(r, c, i) = << Clamp(r, c[1] + e[1]), Clamp(r, c[2] + e[3]), Clamp(r, c[3] + e[2]) >>
    BY <1>3 DEF CornerOf, Plus
  <1> HIDE DEF r, e
  <1>6. CornerOf(r, c, i) = << c[1] + e[1], c[2] + e[3], c[3] + e[2] >>
    BY <1>1, <1>2, <1>5 DEF Clamp
  <1>7. Corner(Swap(c), i) \in Grid
    BY <1>1, <1>2, <1>4 DEF Grid
  <1>8. Swap(c) \in Grid
    BY <1>1, SwapTwice
  <1>9. QED
    BY <1>4, <1>6, <1>7, <1>8 DEF Swap, r

(* So is its case. *)
LEMMA InnerCase ==
  ASSUME NEW c, Inner(c), mResolution \in Nat
  PROVE  /\ \A i \in CornerIndex : i \in LowCorners(Below, Swap(c)) <=> CornerOf(mResolution, c, i) \in mGrid
         /\ CaseOf(c) = RowOf(Below, Swap(c))
  <1>1. \A i \in CornerIndex : Corner(Swap(c), i) \in Below <=> CornerOf(mResolution, c, i) \in mGrid
    BY InnerCorner DEF Below
  <1>2. LowCorners(Below, Swap(c)) = { i \in CornerIndex : CornerOf(mResolution, c, i) \in mGrid }
    BY <1>1 DEF LowCorners
  <1>3. QED
    BY <1>2 DEF CaseOf, RowOf

(* A cell at the upper faces sees the border only, and has nothing to draw where *)
(* the surface keeps off it.                                                     *)
LEMMA OuterEmpty ==
  ASSUME Steady, stage # "new", Enclosed(scene), NEW c \in AllPoints(mResolution), ~Inner(c)
  PROVE  Place(CaseOf(c)) = {}
  <1> DEFINE r == mResolution
  <1>1. r \in Nat /\ r >= 2
    BY SceneType
  <1>2. PICK k \in 1 .. 3 : c[k] + 1 = r
    <2>1. c[1] \in 0 .. r - 1 /\ c[2] \in 0 .. r - 1 /\ c[3] \in 0 .. r - 1
      BY <1>1, PointInGrid
    <2>2. PICK k \in 1 .. 3 : ~(c[k] + 1 < r)
      BY DEF Inner
    <2>3. c[k] \in 0 .. r - 1
      BY <2>1
    <2>4. QED
      BY <1>1, <2>2, <2>3
  <1>3. ASSUME NEW i \in CornerIndex
        PROVE  CornerOf(r, c, i) \in mGrid
    <2>1. CornerOf(r, c, i) \in AllPoints(r) /\ CornerOf(r, c, i)[k] + 1 = r
      BY <1>1, <1>2, CornersInGrid
    <2>2. CornerOf(r, c, i) \notin scene.above
      BY <1>1, <2>1 DEF Enclosed, mResolution
    <2>3. QED
      BY <2>1, <2>2 DEF Steady
  <1>4. CaseOf(c) = voxelIndex(CornerIndex)
    <2>1. { i \in CornerIndex : CornerOf(mResolution, c, i) \in mGrid } = CornerIndex
      BY <1>3
    <2>2. QED
      BY <2>1 DEF CaseOf
  <1>5. /\ \A e \in EdgesOf(voxelIndex(CornerIndex)) :
              EdgeEnds[e + 1][1] \in CornerIndex <=> EdgeEnds[e + 1][2] \notin CornerIndex
        /\ TrianglesOf(voxelIndex(CornerIndex)) \in Seq(EdgesOf(voxelIndex(CornerIndex))
              \X EdgesOf(voxelIndex(CornerIndex)) \X EdgesOf(voxelIndex(CornerIndex)))
    BY PatchesAssumption DEF PatchesFit
  <1>6. EdgesOf(voxelIndex(CornerIndex)) = {}
    BY <1>5, EdgeEndsType DEF EdgesOf
  <1>7. TrianglesOf(voxelIndex(CornerIndex)) = << >>
    <2> DEFINE T == TrianglesOf(voxelIndex(CornerIndex))
    <2>1. T \in Seq({} \X {} \X {})
      BY <1>5, <1>6
    <2> HIDE DEF T
    <2>2. T = << >>
      BY <2>1
    <2>3. QED
      BY <2>2 DEF T
  <1>8. QED
    BY <1>4, <1>7 DEF Place

(* The voxels in the mirror. *)
Mirrored == { v \in Grid : Inner(Swap(v)) }

LEMMA InnerMirrored ==
  ASSUME NEW c, Inner(c), mResolution \in Nat
  PROVE  Swap(c) \in Mirrored /\ Swap(Swap(c)) = c /\ c \in Grid
  BY PointInGrid, SwapTwice DEF Inner, Mirrored

(* Where a side lies on a face, the surface goes on in a cell of the grid.       *)
LEMMA BeyondIsInner ==
  ASSUME Steady, stage # "new", Enclosed(scene), NEW v \in Mirrored,
         NEW s \in SidesOf[RowOf(Below, v)], NEW n \in NeighbourIndex, OnFace(n, s[1])
  PROVE  Neighbour(v, n) \in Mirrored
  <1> DEFINE r == mResolution
             c == Swap(v)
             dn == NeighbourDecals[n + 1]
  <1>1. r \in Nat /\ r >= 2
    BY SceneType
  <1>2. v \in Grid /\ Inner(c) /\ Swap(c) = v
    BY SwapTwice DEF Mirrored
  <1>3. LowCorners(Below, v) \in SUBSET CornerIndex
    BY DEF LowCorners
  <1>4. /\ s[1] \in EdgeIndex
        /\ EdgeEnds[s[1] + 1][1] \in LowCorners(Below, v) <=> EdgeEnds[s[1] + 1][2] \notin LowCorners(Below, v)
    BY <1>3, SidesType DEF RowOf
  <1>5. /\ EdgeEnds[s[1] + 1][1] \in FaceCorners[n] /\ EdgeEnds[s[1] + 1][2] \in FaceCorners[n]
        /\ EdgeEnds[s[1] + 1][1] \in CornerIndex /\ EdgeEnds[s[1] + 1][2] \in CornerIndex
    BY <1>4, EdgeEndsType DEF OnFace
  <1>6. PICK i \in CornerIndex : i \in FaceCorners[n] /\ i \notin LowCorners(Below, v)
    BY <1>4, <1>5
  <1> DEFINE q == CornerOf(r, c, i)
             e == VoxelDecals[i + 1]
  <1>7. q \in AllPoints(r) /\ q \notin mGrid
    <2>1. i \in LowCorners(Below, Swap(c)) <=> CornerOf(mResolution, c, i) \in mGrid
      BY <1>1, <1>2, InnerCase
    <2>2. c \in AllPoints(r)
      BY <1>2 DEF Inner
    <2>3. q \in AllPoints(r)
      BY <1>1, <2>2, CornersInGrid
    <2>4. QED
      BY <1>2, <1>6, <2>1, <2>3
  <1>8. q \in scene.above
    BY <1>7 DEF Steady
  <1>9. 0 < q[1] /\ q[1] + 1 < r /\ 0 < q[2] /\ q[2] + 1 < r /\ 0 < q[3] /\ q[3] + 1 < r
    BY <1>8 DEF Enclosed, mResolution
  <1>10. q[1] = v[1] + e[1] /\ q[3] = v[2] + e[2] /\ q[2] = v[3] + e[3]
    <2>1. q = Swap(Corner(v, i))
      BY <1>1, <1>2, InnerCorner
    <2>2. QED
      BY <2>1 DEF Swap, Corner, Plus
  <1>11. ASSUME NEW k \in {1, 2, 3}
         PROVE  /\ dn[k] \in {-1, 0, 1} /\ e[k] \in {0, 1}
                /\ dn[k] = -1 => e[k] = 0
                /\ dn[k] = 1 => e[k] = 1
    BY <1>6, FaceDecals
  <1>12. /\ v[1] \in Int /\ v[2] \in Int /\ v[3] \in Int
         /\ v[1] \in 0 .. r - 1 /\ v[2] \in 0 .. r - 1 /\ v[3] \in 0 .. r - 1
         /\ v[1] + 1 < r /\ v[2] + 1 < r /\ v[3] + 1 < r
    <2>1. c[1] \in 0 .. r - 1 /\ c[2] \in 0 .. r - 1 /\ c[3] \in 0 .. r - 1
      BY <1>1, <1>2, PointInGrid DEF Inner
    <2>2. c[1] + 1 < r /\ c[2] + 1 < r /\ c[3] + 1 < r
      BY <1>2 DEF Inner
    <2>3. QED
      BY <1>1, <2>1, <2>2 DEF Swap
  <1> DEFINE w(k) == v[k] + dn[k]
  <1>13. ASSUME NEW k \in {1, 2, 3}
         PROVE  w(k) \in 0 .. r - 1 /\ w(k) + 1 < r
    <2> DEFINE x == v[k]
               y == dn[k]
               z == e[k]
    <2>1. /\ x \in 0 .. r - 1 /\ x + 1 < r /\ r \in Nat /\ y \in {-1, 0, 1} /\ z \in {0, 1}
          /\ 0 < x + z /\ x + z + 1 < r
          /\ y = -1 => z = 0
          /\ y = 1 => z = 1
      BY <1>1, <1>9, <1>10, <1>11, <1>12
    <2> HIDE DEF x, y, z, r
    <2>2. x + y \in 0 .. r - 1 /\ x + y + 1 < r
      BY <2>1
    <2>3. QED
      BY <2>2 DEF x, y
  <1>14. Neighbour(v, n) = << w(1), w(2), w(3) >>
    BY DEF Neighbour, Plus
  <1>15. Neighbour(v, n) \in Grid
    BY <1>2, NeighbourInGrid
  <1> HIDE DEF w
  <1>16. Swap(Neighbour(v, n)) = << w(1), w(3), w(2) >>
    BY <1>14 DEF Swap
  <1>17. Inner(Swap(Neighbour(v, n)))
    BY <1>13, <1>16 DEF Inner, AllPoints
  <1>18. QED
    BY <1>15, <1>17 DEF Mirrored

(* The edges of an inner cell, in the mirror. *)
LEMMA EdgesMirrored ==
  ASSUME mResolution \in Nat, NEW c, Inner(c), NEW d, Inner(d), NEW e \in EdgeIndex, NEW f \in EdgeIndex
  PROVE  EdgePoints(c, e) = EdgePoints(d, f) <=> PairOf(Swap(c), e) = PairOf(Swap(d), f)
  <1> DEFINE a == EdgeEnds[e + 1][1]
             b == EdgeEnds[e + 1][2]
             g == EdgeEnds[f + 1][1]
             h == EdgeEnds[f + 1][2]
             E == EdgePoints(c, e)
             F == EdgePoints(d, f)
             P == PairOf(Swap(c), e)
             Q == PairOf(Swap(d), f)
  <1>1. a \in CornerIndex /\ b \in CornerIndex /\ g \in CornerIndex /\ h \in CornerIndex
    BY EdgeEndsType
  <1>2. E = { CornerOf(mResolution, c, a), CornerOf(mResolution, c, b) } /\ P = { Corner(Swap(c), a), Corner(Swap(c), b) }
    BY DEF EdgePoints, PairOf
  <1>3. F = { CornerOf(mResolution, d, g), CornerOf(mResolution, d, h) } /\ Q = { Corner(Swap(d), g), Corner(Swap(d), h) }
    BY DEF EdgePoints, PairOf
  <1> HIDE DEF a, b, g, h, E, F, P, Q
  <1>4. E = { Swap(p) : p \in P } /\ P = { Swap(p) : p \in E }
    <2>1. /\ CornerOf(mResolution, c, a) = Swap(Corner(Swap(c), a)) /\ Corner(Swap(c), a) = Swap(CornerOf(mResolution, c, a))
          /\ CornerOf(mResolution, c, b) = Swap(Corner(Swap(c), b)) /\ Corner(Swap(c), b) = Swap(CornerOf(mResolution, c, b))
      BY <1>1, InnerCorner
    <2>2. QED
      BY <1>2, <2>1
  <1>5. F = { Swap(p) : p \in Q } /\ Q = { Swap(p) : p \in F }
    <2>1. /\ CornerOf(mResolution, d, g) = Swap(Corner(Swap(d), g)) /\ Corner(Swap(d), g) = Swap(CornerOf(mResolution, d, g))
          /\ CornerOf(mResolution, d, h) = Swap(Corner(Swap(d), h)) /\ Corner(Swap(d), h) = Swap(CornerOf(mResolution, d, h))
      BY <1>1, InnerCorner
    <2>2. QED
      BY <1>3, <2>1
  <1>6. E = F <=> P = Q
    BY <1>4, <1>5
  <1>7. QED
    BY <1>6 DEF E, F, P, Q

(* The corner after a corner is the next of its triangle. *)
LEMMA AfterIsNext ==
  ASSUME NEW cell, NEW pl, Laid(cell, pl), NEW n \in 1 .. Len(mVertices)
  PROVE  /\ After(n) \in 1 .. Len(mVertices)
         /\ cell[After(n)] = cell[n]
         /\ pl[n] = << pl[n][1], pl[n][2] >> /\ pl[n][2] \in 1 .. 3
         /\ pl[After(n)] = << pl[n][1], (pl[n][2] % 3) + 1 >>
  <1> DEFINE L == Len(mVertices)
  <1>1. L \in Nat /\ L % 3 = 0
    BY DEF Laid
  <1>2. \A m \in 1 .. L : /\ pl[m] = << pl[m][1], pl[m][2] >> /\ pl[m][1] \in Nat
                          /\ pl[m][2] = ((m - 1) % 3) + 1 /\ pl[m][2] \in 1 .. 3
                          /\ m % 3 # 1 => cell[m] = cell[m - 1] /\ pl[m] = << pl[m - 1][1], pl[m - 1][2] + 1 >>
    <2> SUFFICES ASSUME NEW m \in 1 .. L
                 PROVE  /\ pl[m] = << pl[m][1], pl[m][2] >> /\ pl[m][1] \in Nat
                        /\ pl[m][2] = ((m - 1) % 3) + 1 /\ pl[m][2] \in 1 .. 3
                        /\ m % 3 # 1 => cell[m] = cell[m - 1] /\ pl[m] = << pl[m - 1][1], pl[m - 1][2] + 1 >>
      OBVIOUS
    <2>1. pl \in [1 .. L -> Nat \X (1 .. 3)]
      BY DEF Laid
    <2>2. pl[m] \in Nat \X (1 .. 3)
      BY <2>1
    <2>3. /\ pl[m][2] = ((m - 1) % 3) + 1
          /\ m % 3 # 1 => cell[m] = cell[m - 1] /\ pl[m] = << pl[m - 1][1], pl[m - 1][2] + 1 >>
      BY DEF Laid
    <2>4. QED
      BY <2>2, <2>3
  <1> HIDE DEF L
  <1>3. n \in 1 .. L
    BY DEF L
  <1>4. CASE n % 3 = 0
    <2>1. /\ After(n) = n - 2 /\ n - 2 \in 1 .. L /\ n - 1 \in 1 .. L
          /\ (n - 1) % 3 # 1 /\ (n - 1) % 3 = 2 /\ (n - 2) % 3 = 1 /\ (n - 3) % 3 = 0 /\ (n - 1) - 1 = n - 2 /\ (n - 2) - 1 = n - 3
      BY <1>1, <1>3, <1>4, Z3 DEF After
    <2>2. cell[n] = cell[n - 1] /\ pl[n] = << pl[n - 1][1], pl[n - 1][2] + 1 >>
      BY <1>2, <1>3, <1>4
    <2>3. cell[n - 1] = cell[n - 2] /\ pl[n - 1] = << pl[n - 2][1], pl[n - 2][2] + 1 >>
      BY <1>2, <2>1
    <2>4. pl[n - 2] = << pl[n - 2][1], pl[n - 2][2] >> /\ pl[n - 2][2] = 1 /\ pl[n][2] = 3
      BY <1>2, <1>3, <2>1
    <2>5. pl[n][1] = pl[n - 2][1] /\ (pl[n][2] % 3) + 1 = 1
      BY <2>2, <2>3, <2>4
    <2>6. pl[After(n)] = << pl[n][1], (pl[n][2] % 3) + 1 >> /\ cell[After(n)] = cell[n]
      BY <2>1, <2>2, <2>3, <2>4, <2>5
    <2>7. QED
      BY <1>2, <1>3, <2>1, <2>6 DEF L
  <1>5. CASE n % 3 # 0
    <2>1. /\ After(n) = n + 1 /\ n + 1 \in 1 .. L /\ (n + 1) % 3 # 1 /\ (n + 1) - 1 = n
          /\ (n - 1) % 3 \in {0, 1}
      BY <1>1, <1>3, <1>5, Z3 DEF After
    <2>2. cell[n + 1] = cell[n] /\ pl[n + 1] = << pl[n][1], pl[n][2] + 1 >>
      BY <1>2, <2>1
    <2>3. (pl[n][2] % 3) + 1 = pl[n][2] + 1
      <3>1. pl[n][2] \in {1, 2}
        BY <1>2, <1>3, <2>1
      <3>2. QED
        BY <3>1
    <2>4. QED
      BY <1>2, <1>3, <2>1, <2>2, <2>3 DEF L
  <1>6. QED
    BY <1>4, <1>5

(* The vertices lie on the edges of their cells. *)
LEMMA SoupEdges ==
  ASSUME NEW cell, NEW pl, Laid(cell, pl), NEW n \in 1 .. Len(mVertices)
  PROVE  /\ cell[n] \in AllPoints(mResolution) /\ pl[n] \in Place(CaseOf(cell[n]))
         /\ SoupEdge(n) = EdgePoints(cell[n], EdgeAtPlace(cell[n], pl[n]))
  <1>1. /\ cell[n] \in AllPoints(mResolution) /\ pl[n] \in Place(CaseOf(cell[n]))
        /\ mVertices[n] = vertList(cell[n], EdgeAtPlace(cell[n], pl[n]))
    BY DEF Laid
  <1> DEFINE e == EdgeAtPlace(cell[n], pl[n])
             p == CornerOf(mResolution, cell[n], EdgeEnds[e + 1][1])
             q == CornerOf(mResolution, cell[n], EdgeEnds[e + 1][2])
  <1>2. mVertices[n] = interpolateVertices(p, q) /\ EdgePoints(cell[n], e) = {p, q}
    BY <1>1 DEF vertList, EdgePoints
  <1> HIDE DEF e, p, q
  <1>3. mVertices[n] = << p, q >> \/ mVertices[n] = << q, p >>
    BY <1>2 DEF interpolateVertices, Canonical
  <1>4. SoupEdge(n) = {p, q}
    BY <1>3 DEF SoupEdge
  <1>5. QED
    BY <1>1, <1>2, <1>4 DEF e

(* A side of the soup is one of its cell's row, in the mirror. *)
LEMMA SoupSides ==
  ASSUME Steady, stage # "new", Enclosed(scene), NEW cell, NEW pl, Laid(cell, pl), NEW n \in 1 .. Len(mVertices)
  PROVE  /\ Inner(cell[n]) /\ Swap(cell[n]) \in Mirrored
         /\ pl[n] \in Place(RowOf(Below, Swap(cell[n])))
         /\ LET s == SideAt(RowOf(Below, Swap(cell[n])), pl[n])
            IN  /\ s \in SidesOf[RowOf(Below, Swap(cell[n]))]
                /\ s[1] \in EdgeIndex /\ s[2] \in EdgeIndex /\ s = << s[1], s[2] >>
                /\ SoupEdge(n) = EdgePoints(cell[n], s[1])
                /\ SoupEdge(After(n)) = EdgePoints(cell[n], s[2])
  <1>1. mResolution \in Nat
    BY SceneType
  <1>2. /\ cell[n] \in AllPoints(mResolution) /\ pl[n] \in Place(CaseOf(cell[n]))
        /\ SoupEdge(n) = EdgePoints(cell[n], EdgeAtPlace(cell[n], pl[n]))
    BY SoupEdges
  <1>3. Inner(cell[n])
    BY <1>2, OuterEmpty
  <1>4. CaseOf(cell[n]) = RowOf(Below, Swap(cell[n])) /\ Swap(cell[n]) \in Mirrored
    BY <1>1, <1>3, InnerCase, InnerMirrored
  <1> DEFINE k == RowOf(Below, Swap(cell[n]))
             s == SideAt(k, pl[n])
  <1>5. /\ SidesOf[k] = { SideAt(k, p) : p \in Place(k) }
        /\ \A t \in SidesOf[k] : t[1] \in EdgeIndex /\ t[2] \in EdgeIndex /\ t = << t[1], t[2] >>
    <2>1. LowCorners(Below, Swap(cell[n])) \in SUBSET CornerIndex
      BY DEF LowCorners
    <2>2. QED
      BY <2>1, SidesType DEF RowOf
  <1>6. s \in SidesOf[k] /\ s[1] \in EdgeIndex /\ s[2] \in EdgeIndex /\ s = << s[1], s[2] >>
    BY <1>2, <1>4, <1>5
  <1>7. /\ After(n) \in 1 .. Len(mVertices) /\ cell[After(n)] = cell[n]
        /\ pl[After(n)] = << pl[n][1], (pl[n][2] % 3) + 1 >>
    BY AfterIsNext
  <1>8. SoupEdge(After(n)) = EdgePoints(cell[n], EdgeAtPlace(cell[n], pl[After(n)]))
    BY <1>7, SoupEdges
  <1>9. s[1] = EdgeAtPlace(cell[n], pl[n]) /\ s[2] = EdgeAtPlace(cell[n], pl[After(n)])
    BY <1>4, <1>7 DEF SideAt, EdgeAtPlace
  <1>10. QED
    BY <1>2, <1>3, <1>4, <1>6, <1>8, <1>9

(* Two sides of the soup have the same points where they have them in the mirror. *)
LEMMA SoupSidesMirrored ==
  ASSUME Steady, stage # "new", Enclosed(scene), NEW cell, NEW pl, Laid(cell, pl),
         NEW m \in 1 .. Len(mVertices), NEW n \in 1 .. Len(mVertices)
  PROVE  LET side(k) == SideIn(Swap(cell[k]), SideAt(RowOf(Below, Swap(cell[k])), pl[k]))
         IN  /\ SoupEdge(m) = SoupEdge(n) /\ SoupEdge(After(m)) = SoupEdge(After(n)) <=> side(m) = side(n)
             /\ SoupEdge(m) = SoupEdge(After(n)) /\ SoupEdge(After(m)) = SoupEdge(n) <=> side(m) = Turned(side(n))
  <1> DEFINE s(k) == SideAt(RowOf(Below, Swap(cell[k])), pl[k])
  <1>1. \A k \in {m, n} : /\ Inner(cell[k]) /\ s(k)[1] \in EdgeIndex /\ s(k)[2] \in EdgeIndex
                          /\ SoupEdge(k) = EdgePoints(cell[k], s(k)[1])
                          /\ SoupEdge(After(k)) = EdgePoints(cell[k], s(k)[2])
    BY SoupSides
  <1>2. mResolution \in Nat
    BY SceneType
  <1> HIDE DEF s
  <1>3. \A i, j \in {1, 2} : EdgePoints(cell[m], s(m)[i]) = EdgePoints(cell[n], s(n)[j])
                          <=> PairOf(Swap(cell[m]), s(m)[i]) = PairOf(Swap(cell[n]), s(n)[j])
    BY <1>1, <1>2, EdgesMirrored
  <1>4. /\ SoupEdge(m) = SoupEdge(n) /\ SoupEdge(After(m)) = SoupEdge(After(n))
             <=> SideIn(Swap(cell[m]), s(m)) = SideIn(Swap(cell[n]), s(n))
        /\ SoupEdge(m) = SoupEdge(After(n)) /\ SoupEdge(After(m)) = SoupEdge(n)
             <=> SideIn(Swap(cell[m]), s(m)) = Turned(SideIn(Swap(cell[n]), s(n)))
    BY <1>1, <1>3 DEF SideIn, Turned
  <1>5. QED
    BY <1>4 DEF s

--------------------------------------------------------------------------------
(* The surface is closed.                                                        *)

(* The soup by its grid edges: exactly one side runs against each. *)
LEMMA SoupClosed ==
  ASSUME Steady, stage # "new", Enclosed(scene), NEW cell, NEW pl, Laid(cell, pl)
  PROVE  Closed([ n \in 1 .. Len(mVertices) |-> SoupEdge(n) ])
  <1> DEFINE L == Len(mVertices)
             f == [ n \in 1 .. L |-> SoupEdge(n) ]
             Row(v) == RowOf(Below, v)
  <1>1. SUFFICES ASSUME NEW n \in 1 .. L
                 PROVE  LET other == { m \in 1 .. L : f[m] = f[After(n)] /\ f[After(m)] = f[n] }
                        IN  \E m \in other : other = {m}
    BY DEF Closed
  <1>2. \A m \in 1 .. L : After(m) \in 1 .. L
    BY AfterIsNext
  <1> DEFINE v == Swap(cell[n])
             p == pl[n]
  <1>3. v \in Mirrored /\ p \in Place(Row(v)) /\ SideAt(Row(v), p) \in SidesOf[Row(v)]
    BY SoupSides
  <1>4. \A k \in NeighbourIndex :
            OnFace(k, SideAt(Row(v), p)[1]) /\ OnFace(k, SideAt(Row(v), p)[2]) => Neighbour(v, k) \in Mirrored
    <2> HIDE DEF v, p
    <2>1. QED
      BY <1>3, BeyondIsInner
  <1>5. Mirrored \in SUBSET Grid
    BY DEF Mirrored
  <1> HIDE DEF v, p, L, f
  <1>6. PICK w \in Mirrored : \E q \in Place(Row(w)) :
           \A x \in Mirrored : \A r \in Place(Row(x)) :
              SideIn(x, SideAt(Row(x), r)) = Turned(SideIn(v, SideAt(Row(v), p))) <=> x = w /\ r = q
    BY <1>3, <1>4, <1>5, OpposedOnce
  <1>7. PICK q \in Place(Row(w)) :
           \A x \in Mirrored : \A r \in Place(Row(x)) :
              SideIn(x, SideAt(Row(x), r)) = Turned(SideIn(v, SideAt(Row(v), p))) <=> x = w /\ r = q
    BY <1>6
  <1>8. ASSUME NEW m \in 1 .. L
        PROVE  f[m] = f[After(n)] /\ f[After(m)] = f[n] <=> Swap(cell[m]) = w /\ pl[m] = q
    <2>1. Swap(cell[m]) \in Mirrored /\ pl[m] \in Place(Row(Swap(cell[m])))
      BY SoupSides DEF L
    <2>2. SoupEdge(m) = SoupEdge(After(n)) /\ SoupEdge(After(m)) = SoupEdge(n)
            <=> SideIn(Swap(cell[m]), SideAt(Row(Swap(cell[m])), pl[m])) = Turned(SideIn(v, SideAt(Row(v), p)))
      BY SoupSidesMirrored DEF L, v, p
    <2>3. f[m] = SoupEdge(m) /\ f[After(m)] = SoupEdge(After(m)) /\ f[n] = SoupEdge(n) /\ f[After(n)] = SoupEdge(After(n))
      BY <1>2 DEF f
    <2>4. QED
      BY <1>7, <2>1, <2>2, <2>3
  <1>9. /\ mResolution \in Nat /\ w \in Grid /\ Inner(Swap(w)) /\ Swap(Swap(w)) = w
        /\ \A m \in 1 .. L : Swap(cell[m]) = w <=> cell[m] = Swap(w)
    <2>1. mResolution \in Nat
      BY SceneType
    <2>2. w \in Grid /\ Inner(Swap(w)) /\ Swap(Swap(w)) = w
      BY SwapTwice DEF Mirrored
    <2>3. \A m \in 1 .. L : Swap(Swap(cell[m])) = cell[m]
      BY <2>1, SoupSides, InnerMirrored DEF L
    <2>4. QED
      BY <2>1, <2>2, <2>3
  <1>10. q \in Place(CaseOf(Swap(w))) /\ Swap(w) \in AllPoints(mResolution)
    BY <1>9, InnerCase DEF Inner
  <1>11. PICK m \in 1 .. L : cell[m] = Swap(w) /\ pl[m] = q
    BY <1>10 DEF Laid, L
  <1>12. \A k \in 1 .. L : cell[k] = Swap(w) /\ pl[k] = q => k = m
    BY <1>11 DEF Laid, L
  <1>13. { k \in 1 .. L : f[k] = f[After(n)] /\ f[After(k)] = f[n] } = {m}
    BY <1>8, <1>9, <1>11, <1>12
  <1>14. QED
    BY <1>13

(* Corners that coincide where others do are as closed as those. *)
LEMMA ClosedAlike ==
  ASSUME NEW D, NEW f, NEW g, DOMAIN f = D, DOMAIN g = D,
         \A n \in D : After(n) \in D,
         \A m, n \in D : f[m] = f[n] <=> g[m] = g[n],
         Closed(f)
  PROVE  Closed(g)
  <1> SUFFICES ASSUME NEW n \in D
               PROVE  LET other == { m \in D : g[m] = g[After(n)] /\ g[After(m)] = g[n] }
                      IN  \E m \in other : other = {m}
    BY DEF Closed
  <1>1. { m \in D : g[m] = g[After(n)] /\ g[After(m)] = g[n] }
      = { m \in D : f[m] = f[After(n)] /\ f[After(m)] = f[n] }
    OBVIOUS
  <1>2. \E m \in { k \in D : f[k] = f[After(n)] /\ f[After(k)] = f[n] } :
           { k \in D : f[k] = f[After(n)] /\ f[After(k)] = f[n] } = {m}
    BY DEF Closed
  <1>3. QED
    BY <1>1, <1>2

(* The ends of an edge are one apart in height, so that a vertex without         *)
(* rounding is known by its edge.                                                *)
LEMMA EndsApart ==
  ASSUME NEW v \in Grid, NEW e \in EdgeIndex
  PROVE  Height(Corner(v, EdgeEnds[e + 1][1])) # Height(Corner(v, EdgeEnds[e + 1][2]))
  <1> DEFINE a == VoxelDecals[EdgeEnds[e + 1][1] + 1]
             b == VoxelDecals[EdgeEnds[e + 1][2] + 1]
  <1>1. Height(a) # Height(b)
    BY DEF EdgeIndex, EdgeEnds, VoxelDecals, Height
  <1>2. a \in Grid /\ b \in Grid
    BY EdgeEndsType, CornerType
  <1>3. Corner(v, EdgeEnds[e + 1][1]) = Plus(v, a) /\ Corner(v, EdgeEnds[e + 1][2]) = Plus(v, b)
    BY DEF Corner
  <1> HIDE DEF a, b
  <1>4. Height(Plus(v, a)) = Height(v) + Height(a) /\ Height(Plus(v, b)) = Height(v) + Height(b)
        /\ Height(v) \in Int /\ Height(a) \in Int /\ Height(b) \in Int
    BY <1>2 DEF Height, Plus, Grid
  <1>5. \A x, y, z \in Int : y # z => x + y # x + z
    OBVIOUS
  <1>6. Height(Plus(v, a)) # Height(Plus(v, b))
    BY <1>1, <1>4, <1>5 DEF a, b
  <1>7. QED
    BY <1>3, <1>6

LEMMA VertexByEdge ==
  ASSUME Steady, stage # "new", Enclosed(scene), ~rounds, NEW cell, NEW pl, Laid(cell, pl),
         NEW m \in 1 .. Len(mVertices), NEW n \in 1 .. Len(mVertices)
  PROVE  mVertices[m] = mVertices[n] <=> SoupEdge(m) = SoupEdge(n)
  <1>1. ASSUME NEW k \in 1 .. Len(mVertices)
        PROVE  \E p, q \in Grid : Height(p) # Height(q) /\ mVertices[k] = Canonical(<< p, q >>)
    <2>1. mResolution \in Nat
      BY SceneType
    <2>2. Inner(cell[k])
      BY SoupSides
    <2> DEFINE e == EdgeAtPlace(cell[k], pl[k])
               c == EdgeEnds[e + 1][1]
               d == EdgeEnds[e + 1][2]
               v == Swap(cell[k])
    <2>3. e \in EdgeIndex
      <3>1. /\ pl[k] \in Place(CaseOf(cell[k])) /\ CaseOf(cell[k]) = RowOf(Below, v)
        BY <2>1, <2>2, SoupEdges, InnerCase
      <3>2. LowCorners(Below, v) \in SUBSET CornerIndex
        BY DEF LowCorners
      <3>3. /\ pl[k][1] \in DOMAIN TrianglesOf(RowOf(Below, v)) /\ pl[k][2] \in {1, 2, 3}
        BY <3>1 DEF Place
      <3> HIDE DEF v
      <3>4. TrianglesOf(RowOf(Below, v))[pl[k][1]][pl[k][2]] \in EdgeIndex
        BY <3>2, <3>3, RowEdges DEF RowOf
      <3>5. QED
        BY <3>1, <3>4 DEF EdgeAtPlace
    <2>4. c \in CornerIndex /\ d \in CornerIndex /\ v \in Grid
      BY <2>1, <2>2, <2>3, EdgeEndsType, InnerMirrored DEF Mirrored
    <2> DEFINE p == CornerOf(mResolution, cell[k], c)
               q == CornerOf(mResolution, cell[k], d)
    <2>5. mVertices[k] = Canonical(<< p, q >>)
      BY DEF Laid, vertList, interpolateVertices
    <2>6. Height(Corner(v, c)) # Height(Corner(v, d))
      <3> HIDE DEF v, e
      <3>1. QED
        BY <2>3, <2>4, EndsApart
    <2> HIDE DEF c, d, e
    <2>7. /\ p = Swap(Corner(v, c)) /\ q = Swap(Corner(v, d))
          /\ Corner(v, c) \in Grid /\ Corner(v, d) \in Grid
      BY <2>1, <2>2, <2>4, InnerCorner
    <2>8. p \in Grid /\ q \in Grid
      BY <2>7, SwapTwice
    <2>9. Height(p) # Height(q)
      <3> DEFINE x == Corner(v, c)
                 y == Corner(v, d)
      <3> HIDE DEF v, x, y, p, q
      <3>1. x \in Grid /\ y \in Grid /\ p = Swap(x) /\ q = Swap(y) /\ Height(x) # Height(y)
        BY <2>6, <2>7 DEF x, y
      <3>2. Height(Swap(x)) = Height(x) /\ Height(Swap(y)) = Height(y)
        BY <3>1 DEF Swap, Height, Grid
      <3>3. QED
        BY <3>1, <3>2
    <2> HIDE DEF p, q
    <2>10. QED
      BY <2>5, <2>8, <2>9
  <1>2. PICK p, q \in Grid : Height(p) # Height(q) /\ mVertices[m] = Canonical(<< p, q >>)
    BY <1>1
  <1>3. PICK x, y \in Grid : Height(x) # Height(y) /\ mVertices[n] = Canonical(<< x, y >>)
    BY <1>1
  <1>4. SoupEdge(m) = {p, q} /\ SoupEdge(n) = {x, y}
    BY <1>2, <1>3 DEF SoupEdge, Canonical
  <1>5. Height(p) \in Int /\ Height(q) \in Int /\ Height(x) \in Int /\ Height(y) \in Int
    <2>1. ASSUME NEW z \in Grid PROVE Height(z) \in Int
      BY SwapTwice DEF Height
    <2>2. QED
      BY <1>2, <1>3, <2>1
  <1>6. Canonical(<< p, q >>) = IF Height(q) < Height(p) THEN << q, p >> ELSE << p, q >>
    BY DEF Canonical
  <1>7. Canonical(<< x, y >>) = IF Height(y) < Height(x) THEN << y, x >> ELSE << x, y >>
    BY DEF Canonical
  <1>8. {p, q} = {x, y} => Canonical(<< p, q >>) = Canonical(<< x, y >>)
    <2> SUFFICES ASSUME {p, q} = {x, y} PROVE Canonical(<< p, q >>) = Canonical(<< x, y >>)
      OBVIOUS
    <2>1. (p = x /\ q = y) \/ (p = y /\ q = x)
      OBVIOUS
    <2>2. QED
      BY <1>2, <1>3, <1>5, <1>6, <1>7, <2>1
  <1>9. mVertices[m] = mVertices[n] => SoupEdge(m) = SoupEdge(n)
    BY DEF SoupEdge
  <1>10. QED
    BY <1>2, <1>3, <1>4, <1>8, <1>9

(* The mesh of MarchingCubes is closed, for any grid, any surface inside it and  *)
(* any order of the cells (MarchingCubes.cpp:592-690).                           *)
THEOREM MeshIsWatertight == Spec => []Watertight
  <1>1. Working /\ Paired /\ Made /\ Steady /\ Owned => Watertight
    <2> SUFFICES ASSUME Working, Paired, Made, Steady, Owned, stage = "done", Enclosed(scene)
                 PROVE  /\ Closed([ n \in DOMAIN mMesh.indices |-> EdgeAt(mMesh, n) ])
                        /\ ~rounds => Closed(mMesh.indices)
      BY DEF Watertight
    <2> DEFINE L == Len(mVertices)
               D == 1 .. L
    <2>1. PICK cell, pl : Laid(cell, pl)
      BY SoupLaid
    <2>2. Closed([ n \in D |-> SoupEdge(n) ])
      BY <2>1, SoupClosed
    <2>3. \A n \in D : After(n) \in D
      BY <2>1, AfterIsNext
    <2>4. /\ mMesh.vertices \in Seq(Pushable) /\ mMesh.indices \in Seq(Nat)
          /\ Len(mMesh.indices) = L /\ L \in Nat
      BY DEF Made, Numbered, Working
    <2>5. DOMAIN mMesh.indices = D
      BY <2>4
    <2>6. \A n \in D : /\ At(mMesh, n) = mVertices[n] /\ mMesh.indices[n] + 1 \in 1 .. Len(mMesh.vertices)
                       /\ mMesh.indices[n] \in Nat
      <3>1. \A n \in D : mMesh.indices[n] \in Nat
        BY <2>4, <2>5
      <3>2. \A n \in D : mMesh.indices[n] < Len(mMesh.vertices) /\ mMesh.vertices[mMesh.indices[n] + 1] = mVertices[n]
        BY <2>4 DEF Made, Resolved
      <3>3. Len(mMesh.vertices) \in Nat
        BY <2>4
      <3>4. QED
        BY <3>1, <3>2, <3>3 DEF At
    <2>7. \A n \in D : EdgeAt(mMesh, n) = SoupEdge(n)
      BY <2>6 DEF EdgeAt, SoupEdge
    <2>8. Closed([ n \in DOMAIN mMesh.indices |-> EdgeAt(mMesh, n) ])
      <3>1. [ n \in DOMAIN mMesh.indices |-> EdgeAt(mMesh, n) ] = [ n \in D |-> SoupEdge(n) ]
        BY <2>5, <2>7
      <3>2. QED
        BY <2>2, <3>1
    <2>9. ASSUME ~rounds PROVE Closed(mMesh.indices)
      <3> DEFINE f == [ n \in D |-> SoupEdge(n) ]
                 g == mMesh.indices
      <3>1. ASSUME NEW m \in D, NEW n \in D
            PROVE  f[m] = f[n] <=> g[m] = g[n]
        <4>1. f[m] = f[n] <=> mVertices[m] = mVertices[n]
          BY <2>1, <2>9, VertexByEdge
        <4>2. g[m] = g[n] => mVertices[m] = mVertices[n]
          BY <2>6 DEF At
        <4>3. ASSUME mVertices[m] = mVertices[n] PROVE g[m] = g[n]
          <5>1. \A k \in 1 .. Len(mMesh.vertices) :
                   mMesh.uniqueVertices[<< mMesh.vertices[k], mMesh.vertices[k] >>] = k - 1
            BY DEF Made, Numbered
          <5>2. mMesh.uniqueVertices[<< mVertices[m], mVertices[m] >>] = (g[m] + 1) - 1
            BY <2>6, <5>1 DEF At
          <5>3. mMesh.uniqueVertices[<< mVertices[n], mVertices[n] >>] = (g[n] + 1) - 1
            BY <2>6, <5>1 DEF At
          <5>4. (g[m] + 1) - 1 = g[m] /\ (g[n] + 1) - 1 = g[n]
            <6>1. \A k \in Nat : (k + 1) - 1 = k
              OBVIOUS
            <6>2. g[m] \in Nat /\ g[n] \in Nat
              BY <2>6
            <6> HIDE DEF g
            <6>3. QED
              BY <6>1, <6>2
          <5>5. QED
            BY <4>3, <5>2, <5>3, <5>4
        <4>4. QED
          BY <4>1, <4>2, <4>3
      <3>2. DOMAIN f = D /\ DOMAIN g = D
        BY <2>5
      <3>3. Closed(f)
        BY <2>2
      <3> HIDE DEF f, g, D
      <3>4. Closed(g)
        BY <2>3, <3>1, <3>2, <3>3, ClosedAlike
      <3>5. QED
        BY <3>4 DEF g
    <2>10. QED
      BY <2>8, <2>9
  <1>2. QED
    BY <1>1, WorkingAtStart, PairedNext, MadeAtStart, MadeNext, OwnedAtStart, OwnedNext, PTL DEF Spec

--------------------------------------------------------------------------------
(* The mirror turns every triangle round. *)

LEMMA SwapCross ==
  ASSUME NEW a \in Grid, NEW b \in Grid
  PROVE  /\ CrossProduct(a, b) \in Grid
         /\ CrossProduct(Swap(a), Swap(b)) = Minus(Swap(CrossProduct(a, b)))
  <1>1. /\ a[1] \in Int /\ a[2] \in Int /\ a[3] \in Int /\ b[1] \in Int /\ b[2] \in Int /\ b[3] \in Int
    BY SwapTwice
  <1> DEFINE x == a[2] * b[3]
             y == a[3] * b[2]
             z == a[3] * b[1]
             u == a[1] * b[3]
             v == a[1] * b[2]
             w == a[2] * b[1]
  <1>2. x \in Int /\ y \in Int /\ z \in Int /\ u \in Int /\ v \in Int /\ w \in Int
    BY <1>1
  <1>3. CrossProduct(a, b) = << x - y, z - u, v - w >>
    BY DEF CrossProduct
  <1>4. CrossProduct(Swap(a), Swap(b)) = << y - x, w - v, u - z >>
    BY DEF CrossProduct, Swap
  <1> HIDE DEF x, y, z, u, v, w
  <1>5. y - x = -(x - y) /\ w - v = -(v - w) /\ u - z = -(z - u)
        /\ x - y \in Int /\ z - u \in Int /\ v - w \in Int
    BY <1>2
  <1>6. QED
    BY <1>3, <1>4, <1>5 DEF Minus, Swap, Grid

LEMMA SwapSub ==
  ASSUME NEW a \in Grid, NEW b \in Grid
  PROVE  /\ Plus(a, b) \in Grid /\ Plus(Swap(a), Swap(b)) = Swap(Plus(a, b))
         /\ Sub(a, b) \in Grid /\ Sub(Swap(a), Swap(b)) = Swap(Sub(a, b))
  BY DEF Plus, Sub, Minus, Swap, Grid

LEMMA SwapDot ==
  ASSUME NEW a \in Grid, NEW b \in Grid
  PROVE  DotProduct(a, b) \in Int /\ DotProduct(Minus(Swap(a)), Swap(b)) = -DotProduct(a, b)
  <1>1. /\ a[1] \in Int /\ a[2] \in Int /\ a[3] \in Int /\ b[1] \in Int /\ b[2] \in Int /\ b[3] \in Int
    BY SwapTwice
  <1> DEFINE x == a[1] * b[1]
             y == a[2] * b[2]
             z == a[3] * b[3]
  <1>2. x \in Int /\ y \in Int /\ z \in Int
    BY <1>1
  <1>3. \A i, j \in Int : (-i) * j = -(i * j)
    OBVIOUS
  <1>4. (-a[1]) * b[1] = -x /\ (-a[2]) * b[2] = -y /\ (-a[3]) * b[3] = -z
    BY <1>1, <1>3
  <1>5. DotProduct(a, b) = x + y + z
    BY DEF DotProduct
  <1>6. DotProduct(Minus(Swap(a)), Swap(b)) = (-x) + (-z) + (-y)
    BY <1>4 DEF DotProduct, Minus, Swap
  <1> HIDE DEF x, y, z
  <1>7. QED
    BY <1>2, <1>5, <1>6

LEMMA SwapTurn ==
  ASSUME NEW a \in Grid, NEW b \in Grid, NEW c \in Grid, NEW n \in Grid, Turn(a, b, c, n) < 0
  PROVE  Turn(Swap(a), Swap(b), Swap(c), Swap(n)) > 0
  <1> DEFINE x == Sub(b, a)
             y == Sub(c, a)
             z == CrossProduct(x, y)
  <1>1. /\ x \in Grid /\ Sub(Swap(b), Swap(a)) = Swap(x)
        /\ y \in Grid /\ Sub(Swap(c), Swap(a)) = Swap(y)
    BY SwapSub
  <1> HIDE DEF x, y
  <1>2. z \in Grid /\ CrossProduct(Swap(x), Swap(y)) = Minus(Swap(z))
    BY <1>1, SwapCross
  <1> HIDE DEF z
  <1>3. DotProduct(z, n) \in Int /\ DotProduct(Minus(Swap(z)), Swap(n)) = -DotProduct(z, n)
    BY <1>2, SwapDot
  <1>4. Turn(a, b, c, n) = DotProduct(z, n)
    BY DEF Turn, x, y, z
  <1>5. Turn(Swap(a), Swap(b), Swap(c), Swap(n)) = -DotProduct(z, n)
    BY <1>1, <1>2, <1>3 DEF Turn
  <1> DEFINE d == DotProduct(z, n)
  <1> HIDE DEF d
  <1>6. \A i \in Int : i < 0 => -i > 0
    OBVIOUS
  <1>7. QED
    BY <1>3, <1>4, <1>5, <1>6 DEF d

(* Where a vertex lies and which way the field falls there, in the mirror. *)
LEMMA VertexMirrored ==
  ASSUME mResolution \in Nat, NEW c, Inner(c), NEW e \in EdgeIndex,
         LET low == LowCorners(Below, Swap(c))
         IN  EdgeEnds[e + 1][1] \in low <=> EdgeEnds[e + 1][2] \notin low
  PROVE  LET low == LowCorners(Below, Swap(c))
         IN  /\ Mid(vertList(c, e)) = Swap(MidIn(Swap(c), e)) /\ MidIn(Swap(c), e) \in Grid
             /\ Outward(vertList(c, e)) = Swap(FallIn(Swap(c), low, e)) /\ FallIn(Swap(c), low, e) \in Grid
  <1> DEFINE i == EdgeEnds[e + 1][1]
             j == EdgeEnds[e + 1][2]
             v == Swap(c)
             low == LowCorners(Below, v)
             x == Corner(v, i)
             y == Corner(v, j)
             p == CornerOf(mResolution, c, i)
             q == CornerOf(mResolution, c, j)
  <1>1. i \in CornerIndex /\ j \in CornerIndex
    BY EdgeEndsType
  <1>2. p = Swap(x) /\ q = Swap(y) /\ x \in Grid /\ y \in Grid
    BY <1>1, InnerCorner
  <1>3. (i \in low <=> p \in mGrid) /\ (j \in low <=> q \in mGrid)
    BY <1>1, InnerCase
  <1>4. vertList(c, e) = interpolateVertices(p, q)
    BY DEF vertList
  <1>5. MidIn(v, e) = Plus(x, y) /\ FallIn(v, low, e) = IF i \in low THEN Sub(x, y) ELSE Sub(y, x)
    BY DEF MidIn, FallIn
  <1>6. i \in low <=> j \notin low
    OBVIOUS
  <1> HIDE DEF i, j, v, low, x, y, p, q
  <1>7. /\ Plus(x, y) \in Grid /\ Plus(p, q) = Swap(Plus(x, y)) /\ Plus(q, p) = Plus(p, q)
        /\ Sub(x, y) \in Grid /\ Sub(p, q) = Swap(Sub(x, y))
        /\ Sub(y, x) \in Grid /\ Sub(q, p) = Swap(Sub(y, x))
    <2>1. /\ Plus(x, y) \in Grid /\ Plus(p, q) = Swap(Plus(x, y))
          /\ Sub(x, y) \in Grid /\ Sub(p, q) = Swap(Sub(x, y))
          /\ Sub(y, x) \in Grid /\ Sub(q, p) = Swap(Sub(y, x))
      BY <1>2, SwapSub
    <2>2. p \in Grid /\ q \in Grid
      BY <1>2, SwapTwice
    <2>3. Plus(q, p) = Plus(p, q)
      BY <2>2 DEF Plus, Grid
    <2>4. QED
      BY <2>1, <2>3
  <1>8. vertList(c, e) = << p, q >> \/ vertList(c, e) = << q, p >>
    BY <1>4 DEF interpolateVertices, Canonical
  <1>9. Mid(vertList(c, e)) = Plus(p, q)
    BY <1>7, <1>8 DEF Mid
  <1>10. Outward(vertList(c, e)) = IF i \in low THEN Sub(p, q) ELSE Sub(q, p)
    BY <1>3, <1>6, <1>8 DEF Outward
  <1>11. /\ Mid(vertList(c, e)) = Swap(MidIn(v, e)) /\ MidIn(v, e) \in Grid
         /\ Outward(vertList(c, e)) = Swap(FallIn(v, low, e)) /\ FallIn(v, low, e) \in Grid
    BY <1>5, <1>7, <1>9, <1>10
  <1>12. QED
    BY <1>11 DEF v, low

(* The three corners of a triangle of the soup. *)
LEMMA SoupTriangle ==
  ASSUME NEW cell, NEW pl, Laid(cell, pl), NEW t \in 1 .. Len(mVertices) \div 3
  PROVE  LET n == 3 * (t - 1) + 1
         IN  /\ n \in 1 .. Len(mVertices) /\ n + 1 \in 1 .. Len(mVertices) /\ n + 2 \in 1 .. Len(mVertices)
             /\ After(n) = n + 1 /\ After(n + 1) = n + 2
             /\ n = 3 * t - 2 /\ n + 1 = 3 * t - 1 /\ n + 2 = 3 * t
             /\ cell[n + 1] = cell[n] /\ cell[n + 2] = cell[n]
             /\ pl[n][1] \in DOMAIN TrianglesOf(CaseOf(cell[n]))
             /\ pl[n] = << pl[n][1], 1 >>
             /\ pl[n + 1] = << pl[n][1], 2 >> /\ pl[n + 2] = << pl[n][1], 3 >>
  <1> DEFINE L == Len(mVertices)
             n == 3 * (t - 1) + 1
  <1>1. L \in Nat
    BY DEF Laid
  <1>2. /\ n \in 1 .. L /\ n + 1 \in 1 .. L /\ n + 2 \in 1 .. L /\ n % 3 = 1 /\ (n + 1) % 3 = 2 /\ (n - 1) % 3 = 0
        /\ n = 3 * t - 2 /\ n + 1 = 3 * t - 1 /\ n + 2 = 3 * t /\ (n + 1) + 1 = n + 2
    <2> HIDE DEF L
    <2>1. QED
      BY <1>1, Z3 DEF L
  <1>3. After(n) = n + 1 /\ After(n + 1) = n + 2
    BY <1>2 DEF After
  <1> HIDE DEF n
  <1>4. /\ cell[n + 1] = cell[n] /\ pl[n] = << pl[n][1], pl[n][2] >>
        /\ pl[n + 1] = << pl[n][1], (pl[n][2] % 3) + 1 >>
    BY <1>2, <1>3, AfterIsNext
  <1>5. /\ cell[n + 2] = cell[n + 1]
        /\ pl[n + 2] = << pl[n + 1][1], (pl[n + 1][2] % 3) + 1 >>
    <2> DEFINE k == n + 1
    <2>1. k \in 1 .. L /\ After(k) = n + 2
      BY <1>2, <1>3
    <2> HIDE DEF k
    <2>2. cell[After(k)] = cell[k] /\ pl[After(k)] = << pl[k][1], (pl[k][2] % 3) + 1 >>
      BY <2>1, AfterIsNext
    <2>3. QED
      BY <2>1, <2>2 DEF k
  <1>6. pl[n][2] = 1 /\ pl[n] \in Place(CaseOf(cell[n]))
    <2>1. pl[n][2] = ((n - 1) % 3) + 1 /\ pl[n] \in Place(CaseOf(cell[n]))
      BY <1>2 DEF Laid
    <2>2. QED
      BY <1>2, <2>1
  <1>7. pl[n][1] \in DOMAIN TrianglesOf(CaseOf(cell[n]))
    BY <1>6 DEF Place
  <1>8. pl[n + 1] = << pl[n][1], 2 >> /\ pl[n + 2] = << pl[n][1], 3 >>
    BY <1>4, <1>5, <1>6
  <1>9. QED
    BY <1>2, <1>3, <1>4, <1>5, <1>6, <1>7, <1>8 DEF n

(* Seen from outside, all triangles of the mesh turn one way: the tables, made   *)
(* for the numbering of the corners that the mirror shows, wind them the other   *)
(* way (MarchingCubes.cpp:24-32, 640-676).                                       *)
THEOREM MeshIsWoundOutward == Spec => []WoundOutward
  <1>1. Working /\ Steady /\ Owned => WoundOutward
    <2> SUFFICES ASSUME Working, Steady, Owned, stage = "done", Enclosed(scene),
                        NEW t \in 1 .. Len(mVertices) \div 3
                 PROVE  LET v(k) == mVertices[3 * (t - 1) + k]
                        IN  Turn(Mid(v(1)), Mid(v(2)), Mid(v(3)),
                                 Plus(Outward(v(1)), Plus(Outward(v(2)), Outward(v(3))))) > 0
      BY DEF WoundOutward
    <2>1. PICK cell, pl : Laid(cell, pl)
      BY SoupLaid
    <2> DEFINE n == 3 * (t - 1) + 1
               c == cell[n]
               low == LowCorners(Below, Swap(c))
               m == TrianglesOf(voxelIndex(low))[pl[n][1]]
    <2>2. /\ n \in 1 .. Len(mVertices) /\ n + 1 \in 1 .. Len(mVertices) /\ n + 2 \in 1 .. Len(mVertices)
          /\ cell[n + 1] = c /\ cell[n + 2] = c
          /\ pl[n][1] \in DOMAIN TrianglesOf(CaseOf(c))
          /\ pl[n] = << pl[n][1], 1 >>
          /\ pl[n + 1] = << pl[n][1], 2 >> /\ pl[n + 2] = << pl[n][1], 3 >>
      BY <2>1, SoupTriangle
    <2>3. 3 * (t - 1) + 2 = n + 1 /\ 3 * (t - 1) + 3 = n + 2
      OBVIOUS
    <2> HIDE DEF n
    <2>4. Inner(c) /\ mResolution \in Nat
      BY <2>1, <2>2, SceneType, SoupSides
    <2>5. CaseOf(c) = voxelIndex(low) /\ low \in SUBSET CornerIndex /\ Swap(c) \in Grid
      BY <2>4, InnerCase, InnerMirrored DEF RowOf, LowCorners, Mirrored
    <2>6. /\ mVertices[n] = vertList(c, m[1]) /\ mVertices[n + 1] = vertList(c, m[2])
          /\ mVertices[n + 2] = vertList(c, m[3])
      <3>1. \A k \in {n, n + 1, n + 2} : mVertices[k] = vertList(c, EdgeAtPlace(c, pl[k]))
        BY <2>1, <2>2 DEF Laid
      <3>2. /\ EdgeAtPlace(c, pl[n]) = m[1] /\ EdgeAtPlace(c, pl[n + 1]) = m[2]
            /\ EdgeAtPlace(c, pl[n + 2]) = m[3]
        BY <2>2, <2>5 DEF EdgeAtPlace
      <3>3. QED
        BY <3>1, <3>2
    <2>7. Turn(MidIn(Swap(c), m[1]), MidIn(Swap(c), m[2]), MidIn(Swap(c), m[3]),
               Plus(FallIn(Swap(c), low, m[1]),
                    Plus(FallIn(Swap(c), low, m[2]), FallIn(Swap(c), low, m[3])))) < 0
      BY <2>2, <2>5, TrianglesTurn
    <2>8. ASSUME NEW i \in {1, 2, 3}
          PROVE  /\ m[i] \in EdgeIndex
                 /\ EdgeEnds[m[i] + 1][1] \in low <=> EdgeEnds[m[i] + 1][2] \notin low
      <3> DEFINE T == TrianglesOf(voxelIndex(low))
                 E == EdgesOf(voxelIndex(low))
      <3>1. T \in Seq(E \X E \X E) /\ \A e \in E : EdgeEnds[e + 1][1] \in low <=> EdgeEnds[e + 1][2] \notin low
        BY <2>5, PatchesAssumption DEF PatchesFit
      <3>2. E \subseteq EdgeIndex
        BY DEF EdgesOf
      <3>3. pl[n][1] \in DOMAIN T
        BY <2>2, <2>5
      <3> HIDE DEF E, T
      <3>4. T[pl[n][1]] \in E \X E \X E
        BY <3>1, <3>3
      <3>5. m \in E \X E \X E
        BY <3>4 DEF T
      <3> HIDE DEF m
      <3>6. m[i] \in E
        BY <3>5
      <3>7. QED
        BY <3>1, <3>2, <3>6
    <2>9. ASSUME NEW i \in {1, 2, 3}
          PROVE  /\ Mid(vertList(c, m[i])) = Swap(MidIn(Swap(c), m[i])) /\ MidIn(Swap(c), m[i]) \in Grid
                 /\ Outward(vertList(c, m[i])) = Swap(FallIn(Swap(c), low, m[i]))
                 /\ FallIn(Swap(c), low, m[i]) \in Grid
      <3>1. /\ m[i] \in EdgeIndex
            /\ EdgeEnds[m[i] + 1][1] \in low <=> EdgeEnds[m[i] + 1][2] \notin low
        BY <2>8
      <3> HIDE DEF m, c
      <3>2. QED
        BY <2>4, <3>1, VertexMirrored
    <2> DEFINE F(i) == FallIn(Swap(c), low, m[i])
               M(i) == MidIn(Swap(c), m[i])
               S == Plus(F(1), Plus(F(2), F(3)))
    <2> HIDE DEF m, c, low
    <2>10. \A i \in {1, 2, 3} : F(i) \in Grid /\ M(i) \in Grid
      BY <2>9
    <2>11. Turn(M(1), M(2), M(3), S) < 0
      BY <2>7
    <2>12. \A i \in {1, 2, 3} : Mid(vertList(c, m[i])) = Swap(M(i)) /\ Outward(vertList(c, m[i])) = Swap(F(i))
      BY <2>9
    <2> HIDE DEF F, M
    <2>13. S \in Grid /\ Plus(Swap(F(1)), Plus(Swap(F(2)), Swap(F(3)))) = Swap(S)
      <3>1. Plus(F(2), F(3)) \in Grid /\ Plus(Swap(F(2)), Swap(F(3))) = Swap(Plus(F(2), F(3)))
        BY <2>10, SwapSub
      <3>2. QED
        BY <2>10, <3>1, SwapSub
    <2> HIDE DEF S
    <2>14. Turn(Swap(M(1)), Swap(M(2)), Swap(M(3)), Swap(S)) > 0
      BY <2>10, <2>11, <2>13, SwapTurn
    <2>15. QED
      BY <2>3, <2>6, <2>12, <2>13, <2>14 DEF n
  <1>2. QED
    BY <1>1, WorkingAtStart, PairedNext, OwnedAtStart, OwnedNext, PTL DEF Spec

--------------------------------------------------------------------------------
(* The soup is the triangles of the cells.                                       *)

(* The triangle of the soup that starts at a given place. *)
LEMMA DrawnTriangle ==
  ASSUME NEW cell, NEW pl, Laid(cell, pl), NEW t \in 1 .. Len(mVertices) \div 3
  PROVE  LET n == 3 * (t - 1) + 1
             m == TrianglesOf(CaseOf(cell[n]))[pl[n][1]]
         IN  /\ cell[n] \in AllPoints(mResolution) /\ pl[n][1] \in DOMAIN TrianglesOf(CaseOf(cell[n]))
             /\ Drawn[t] = << EdgePoints(cell[n], m[1]), EdgePoints(cell[n], m[2]), EdgePoints(cell[n], m[3]) >>
  <1> DEFINE n == 3 * (t - 1) + 1
             m == TrianglesOf(CaseOf(cell[n]))[pl[n][1]]
  <1>1. /\ n \in 1 .. Len(mVertices) /\ n + 1 \in 1 .. Len(mVertices) /\ n + 2 \in 1 .. Len(mVertices)
        /\ n = 3 * t - 2 /\ n + 1 = 3 * t - 1 /\ n + 2 = 3 * t
        /\ cell[n + 1] = cell[n] /\ cell[n + 2] = cell[n]
        /\ pl[n][1] \in DOMAIN TrianglesOf(CaseOf(cell[n])) /\ pl[n] = << pl[n][1], 1 >>
        /\ pl[n + 1] = << pl[n][1], 2 >> /\ pl[n + 2] = << pl[n][1], 3 >>
    BY SoupTriangle
  <1>2. Drawn[t] = << SoupEdge(n), SoupEdge(n + 1), SoupEdge(n + 2) >>
    BY <1>1 DEF Drawn
  <1> HIDE DEF n
  <1>3. \A k \in {n, n + 1, n + 2} : /\ cell[k] \in AllPoints(mResolution)
                                     /\ SoupEdge(k) = EdgePoints(cell[k], EdgeAtPlace(cell[k], pl[k]))
    BY <1>1, SoupEdges
  <1>4. /\ EdgeAtPlace(cell[n], pl[n]) = m[1]
        /\ EdgeAtPlace(cell[n], pl[n + 1]) = m[2] /\ EdgeAtPlace(cell[n], pl[n + 2]) = m[3]
    BY <1>1 DEF EdgeAtPlace
  <1> HIDE DEF m
  <1>5. Drawn[t] = << EdgePoints(cell[n], m[1]), EdgePoints(cell[n], m[2]), EdgePoints(cell[n], m[3]) >>
    BY <1>1, <1>2, <1>3, <1>4
  <1>6. QED
    BY <1>1, <1>3, <1>5 DEF m, n

(* The triangles the scene has for a cell are those of its row. *)
LEMMA PatchOfRow ==
  ASSUME Steady, stage # "new", NEW c \in AllPoints(mResolution)
  PROVE  Patch(scene, c) = { << EdgePoints(c, TrianglesOf(CaseOf(c))[i][1]),
                                EdgePoints(c, TrianglesOf(CaseOf(c))[i][2]),
                                EdgePoints(c, TrianglesOf(CaseOf(c))[i][3]) >> :
                             i \in DOMAIN TrianglesOf(CaseOf(c)) }
  <1> DEFINE r == mResolution
             T == TrianglesOf(CaseOf(c))
  <1>1. \A i \in CornerIndex : CornerOf(r, c, i) \notin scene.above <=> CornerOf(r, c, i) \in mGrid
    <2>1. \A i \in CornerIndex : CornerOf(r, c, i) \in AllPoints(r)
      BY SceneType, CornersInGrid
    <2>2. QED
      BY <2>1 DEF Steady
  <1>2. CaseIn(scene, c) = CaseOf(c)
    <2>1. { i \in CornerIndex : CornerOf(scene.res, c, i) \notin scene.above }
          = { i \in CornerIndex : CornerOf(mResolution, c, i) \in mGrid }
      BY <1>1 DEF mResolution
    <2>2. QED
      BY <2>1 DEF CaseIn, CaseOf
  <1>3. \A e : { CornerOf(scene.res, c, EdgeEnds[e + 1][i]) : i \in 1 .. 2 } = EdgePoints(c, e)
    <2> TAKE e
    <2>1. 1 .. 2 = {1, 2}
      OBVIOUS
    <2>2. QED
      BY <2>1 DEF EdgePoints, mResolution
  <1> HIDE DEF T
  <1>4. Range(T) = { T[i] : i \in DOMAIN T }
    BY DEF Range
  <1> DEFINE edge(e) == { CornerOf(scene.res, c, EdgeEnds[e + 1][i]) : i \in 1 .. 2 }
  <1>5. Patch(scene, c) = { << edge(t[1]), edge(t[2]), edge(t[3]) >> : t \in Range(T) }
    BY <1>2 DEF Patch, T
  <1>6. \A e : edge(e) = EdgePoints(c, e)
    BY <1>3
  <1> HIDE DEF edge
  <1>7. Patch(scene, c) = { << EdgePoints(c, t[1]), EdgePoints(c, t[2]), EdgePoints(c, t[3]) >> : t \in Range(T) }
    BY <1>5, <1>6
  <1>8. Patch(scene, c) = { << EdgePoints(c, T[i][1]), EdgePoints(c, T[i][2]), EdgePoints(c, T[i][3]) >> : i \in DOMAIN T }
    BY <1>4, <1>7
  <1>9. QED
    BY <1>8 DEF T

(* The finished soup has the triangles of every cell, whole, and each once where *)
(* the surface is inside the grid, whatever the order of the cells               *)
(* (MarchingCubes.cpp:592-690).                                                  *)
THEOREM SoupIsComplete == Spec => []SoupComplete
  <1>1. Working /\ Steady /\ Owned => SoupComplete
    <2> SUFFICES ASSUME Working, Steady, Owned, stage = "mesh"
                 PROVE  /\ Len(mVertices) % 3 = 0
                        /\ Range(Drawn) = UNION { Patch(scene, c) : c \in AllPoints(mResolution) }
                        /\ Enclosed(scene) => IsInjective(Drawn)
      BY DEF SoupComplete
    <2>1. PICK cell, pl : Laid(cell, pl)
      BY SoupLaid
    <2> DEFINE L == Len(mVertices)
               first(t) == 3 * (t - 1) + 1
    <2>2. L \in Nat /\ L % 3 = 0
      BY <2>1 DEF Laid
    <2>3. DOMAIN Drawn = 1 .. L \div 3
      BY DEF Drawn
    <2>4. ASSUME NEW t \in 1 .. L \div 3
          PROVE  \E c \in AllPoints(mResolution) : Drawn[t] \in Patch(scene, c)
      <3> DEFINE n == first(t)
                 c == cell[n]
                 m == TrianglesOf(CaseOf(c))[pl[n][1]]
      <3>1. /\ c \in AllPoints(mResolution) /\ pl[n][1] \in DOMAIN TrianglesOf(CaseOf(c))
            /\ Drawn[t] = << EdgePoints(c, m[1]), EdgePoints(c, m[2]), EdgePoints(c, m[3]) >>
        BY <2>1, DrawnTriangle
      <3> HIDE DEF c, n
      <3>2. QED
        BY <3>1, PatchOfRow
    <2>5. ASSUME NEW c \in AllPoints(mResolution), NEW d \in Patch(scene, c)
          PROVE  \E t \in 1 .. L \div 3 : Drawn[t] = d
      <3> DEFINE T == TrianglesOf(CaseOf(c))
      <3>1. PICK i \in DOMAIN T : d = << EdgePoints(c, T[i][1]), EdgePoints(c, T[i][2]), EdgePoints(c, T[i][3]) >>
        BY PatchOfRow
      <3>2. << i, 1 >> \in Place(CaseOf(c))
        BY DEF Place
      <3>3. PICK n \in 1 .. L : cell[n] = c /\ pl[n] = << i, 1 >>
        BY <2>1, <3>2 DEF Laid
      <3>4. pl[n][2] = ((n - 1) % 3) + 1
        BY <2>1 DEF Laid
      <3>5. \E t \in 1 .. L \div 3 : n = first(t)
        <4>1. (n - 1) % 3 = 0
          <5>1. ((n - 1) % 3) + 1 = 1
            BY <3>3, <3>4
          <5>2. (n - 1) % 3 \in 0 .. 2
            BY <2>2, <3>3
          <5>3. QED
            BY <5>1, <5>2
        <4> HIDE DEF L
        <4> DEFINE t == ((n - 1) \div 3) + 1
        <4>2. t \in 1 .. L \div 3 /\ n = 3 * (t - 1) + 1
          BY <2>2, <3>3, <4>1, Z3
        <4>3. QED
          BY <4>2
      <3>6. PICK t \in 1 .. L \div 3 : n = first(t)
        BY <3>5
      <3>7. Drawn[t] = << EdgePoints(cell[n], TrianglesOf(CaseOf(cell[n]))[pl[n][1]][1]),
                          EdgePoints(cell[n], TrianglesOf(CaseOf(cell[n]))[pl[n][1]][2]),
                          EdgePoints(cell[n], TrianglesOf(CaseOf(cell[n]))[pl[n][1]][3]) >>
        BY <2>1, <3>6, DrawnTriangle
      <3>8. QED
        BY <3>1, <3>3, <3>7
    <2>6. Range(Drawn) = UNION { Patch(scene, c) : c \in AllPoints(mResolution) }
      <3>1. Range(Drawn) = { Drawn[t] : t \in 1 .. L \div 3 }
        BY <2>3 DEF Range
      <3>2. QED
        BY <2>4, <2>5, <3>1
    <2>7. ASSUME Enclosed(scene) PROVE IsInjective(Drawn)
      <3> SUFFICES ASSUME NEW t \in 1 .. L \div 3, NEW u \in 1 .. L \div 3, Drawn[t] = Drawn[u]
                   PROVE  t = u
        BY <2>3 DEF IsInjective
      <3> DEFINE m == first(t)
                 n == first(u)
                 Row(k) == RowOf(Below, Swap(cell[k]))
                 s(k) == SideAt(Row(k), pl[k])
      <3>1. /\ m \in 1 .. L /\ n \in 1 .. L /\ After(m) = m + 1 /\ After(n) = n + 1
            /\ m = 3 * t - 2 /\ m + 1 = 3 * t - 1 /\ n = 3 * u - 2 /\ n + 1 = 3 * u - 1
        BY <2>1, SoupTriangle
      <3>2. SoupEdge(m) = SoupEdge(n) /\ SoupEdge(After(m)) = SoupEdge(After(n))
        BY <3>1 DEF Drawn
      <3> HIDE DEF m, n
      <3>3. \A k \in {m, n} : /\ Inner(cell[k]) /\ Swap(cell[k]) \in Grid /\ Swap(Swap(cell[k])) = cell[k]
                              /\ pl[k] \in Place(Row(k)) /\ s(k) \in SidesOf[Row(k)]
                              /\ s(k)[1] \in EdgeIndex /\ s(k)[2] \in EdgeIndex /\ s(k) = << s(k)[1], s(k)[2] >>
        <4> SUFFICES ASSUME NEW k \in {m, n}
                     PROVE  /\ Inner(cell[k]) /\ Swap(cell[k]) \in Grid /\ Swap(Swap(cell[k])) = cell[k]
                            /\ pl[k] \in Place(Row(k)) /\ s(k) \in SidesOf[Row(k)]
                            /\ s(k)[1] \in EdgeIndex /\ s(k)[2] \in EdgeIndex /\ s(k) = << s(k)[1], s(k)[2] >>
          OBVIOUS
        <4>1. k \in 1 .. L
          BY <3>1
        <4>2. /\ Inner(cell[k]) /\ Swap(cell[k]) \in Mirrored
              /\ pl[k] \in Place(Row(k)) /\ s(k) \in SidesOf[Row(k)]
              /\ s(k)[1] \in EdgeIndex /\ s(k)[2] \in EdgeIndex /\ s(k) = << s(k)[1], s(k)[2] >>
          BY <2>1, <2>7, <4>1, SoupSides
        <4>3. Swap(cell[k]) \in Grid /\ Swap(Swap(cell[k])) = cell[k]
          BY <4>2, SceneType, InnerMirrored DEF Mirrored
        <4>4. QED
          BY <4>2, <4>3
      <3>4. SideIn(Swap(cell[m]), s(m)) = SideIn(Swap(cell[n]), s(n))
        BY <2>1, <2>7, <3>1, <3>2, SoupSidesMirrored
      <3>5. Swap(cell[m]) = Swap(cell[n])
        <4> HIDE DEF s
        <4>1. QED
          BY <3>3, <3>4, SideOnce
      <3>6. cell[m] = cell[n] /\ Row(m) = Row(n)
        BY <3>3, <3>5
      <3>7. s(m) = s(n)
        <4> HIDE DEF s
        <4>1. QED
          BY <3>3, <3>4, <3>5, SideInjective
      <3>8. pl[m] = pl[n]
        <4>1. LowCorners(Below, Swap(cell[m])) \in SUBSET CornerIndex
          BY DEF LowCorners
        <4>2. \A p, q \in Place(Row(m)) : SideAt(Row(m), p) = SideAt(Row(m), q) => p = q
          BY <4>1, SidesType DEF RowOf
        <4>3. QED
          BY <3>3, <3>6, <3>7, <4>2
      <3>9. m = n
        BY <2>1, <3>1, <3>6, <3>8 DEF Laid
      <3>10. QED
        <4>1. 3 * t - 2 = 3 * u - 2 /\ t \in Int /\ u \in Int
          BY <3>1, <3>9
        <4>2. QED
          BY <4>1
    <2>8. QED
      BY <2>2, <2>6, <2>7
  <1>2. QED
    BY <1>1, WorkingAtStart, PairedNext, OwnedAtStart, OwnedNext, PTL DEF Spec

--------------------------------------------------------------------------------
(* The file and the mesh read back from it.  The mesh's vertices are numbered in *)
(* the order its corners first use them: c of them are used by the first k.      *)
UsedBy(x, k, c) ==
  /\ \A n \in 1 .. k : x[n] < c
  /\ \A i \in Nat : i < c => \E n \in 1 .. k : x[n] = i
FirstUse ==
  /\ UsedBy(mMesh.indices, Len(mMesh.indices), Len(mMesh.vertices))
  /\ \A k \in 0 .. Len(mMesh.indices) : \E c \in Nat : UsedBy(mMesh.indices, k, c)

(* The file has the mesh's corners, and its vertices as they are printed. *)
OnDisk ==
  stage \in {"loading", "loaded"} =>
    /\ file.f = [ n \in DOMAIN mMesh.indices |-> mMesh.indices[n] + 1 ]
    /\ \A i \in DOMAIN mMesh.vertices : file.v[i] \in { mMesh.vertices[i], Canonical(mMesh.vertices[i]) }

(* What is printed for the mesh's i-th vertex. *)
Line(i) == << file.v[i + 1], file.vn[i + 1] >>

(* Each corner read names the point printed for it.  Lines that coincide become  *)
(* one vertex; where none has, the corners have kept their numbers.              *)
Read(b, x) ==
  LET k == Len(b.indices) IN
  /\ b = [ vertices |-> b.vertices, normals |-> b.normals, indices |-> b.indices,
           uniqueVertices |-> b.uniqueVertices ]
  /\ \E S : b.vertices \in Seq(S)
  /\ b.indices \in Seq(Nat) /\ k <= Len(x)
  /\ \A l \in DOMAIN b.uniqueVertices :
        /\ b.uniqueVertices[l] \in Nat /\ b.uniqueVertices[l] < Len(b.vertices)
        /\ b.vertices[b.uniqueVertices[l] + 1] = l[1]
  /\ \A n \in 1 .. k :
        /\ Line(x[n]) \in DOMAIN b.uniqueVertices
        /\ b.uniqueVertices[Line(x[n])] = b.indices[n]
  /\ \A c \in Nat : UsedBy(x, k, c) =>
        /\ Len(b.vertices) <= c
        /\ Len(b.vertices) = c => \A n \in 1 .. k : b.indices[n] = x[n]
ReadBack ==
  /\ stage \notin {"loading", "loaded", "drawn"} => loaded = EmptySoup
  /\ stage \in {"loading", "loaded"} => Read(loaded, mMesh.indices)
  /\ stage = "loading" => Len(loaded.indices) < Len(mMesh.indices)
  /\ stage = "loaded" => Len(loaded.indices) = Len(mMesh.indices)

(* The first corners use one number of vertices. *)
LEMMA UsedOnce ==
  ASSUME NEW x \in Seq(Nat), NEW k \in Nat, k <= Len(x),
         NEW c \in Nat, NEW d \in Nat, UsedBy(x, k, c), UsedBy(x, k, d)
  PROVE  c = d
  <1>1. \A n \in 1 .. k : x[n] \in Nat
    OBVIOUS
  <1>2. ~(c < d)
    <2>1. SUFFICES ASSUME c < d PROVE FALSE
      OBVIOUS
    <2>2. PICK n \in 1 .. k : x[n] = c
      BY <2>1 DEF UsedBy
    <2>3. QED
      BY <2>2 DEF UsedBy
  <1>3. ~(d < c)
    <2>1. SUFFICES ASSUME d < c PROVE FALSE
      OBVIOUS
    <2>2. PICK n \in 1 .. k : x[n] = d
      BY <2>1 DEF UsedBy
    <2>3. QED
      BY <2>2 DEF UsedBy
  <1>4. QED
    BY <1>2, <1>3

(* The next corner uses the next vertex for the first time, or an earlier one    *)
(* again.                                                                        *)
LEMMA NextUse ==
  ASSUME NEW x \in Seq(Nat), NEW k \in Nat, k < Len(x), \E c \in Nat : UsedBy(x, k, c),
         NEW d \in Nat, UsedBy(x, k + 1, d)
  PROVE  \/ UsedBy(x, k, d) /\ \E n \in 1 .. k : x[n] = x[k + 1]
         \/ d > 0 /\ UsedBy(x, k, d - 1) /\ x[k + 1] = d - 1
  <1> DEFINE i == x[k + 1]
  <1>1. PICK c \in Nat : UsedBy(x, k, c)
    OBVIOUS
  <1>2. i \in Nat /\ k + 1 <= Len(x) /\ \A n \in 1 .. k + 1 : x[n] \in Nat
    OBVIOUS
  <1>3. CASE i < c
    <2>1. UsedBy(x, k + 1, c)
      BY <1>1, <1>2, <1>3 DEF UsedBy
    <2>2. d = c
      BY <1>2, <2>1, UsedOnce
    <2>3. \E n \in 1 .. k : x[n] = i
      BY <1>1, <1>2, <1>3 DEF UsedBy
    <2>4. QED
      BY <1>1, <2>2, <2>3
  <1>4. CASE ~(i < c)
    <2>1. i < d
      BY <1>2 DEF UsedBy
    <2>2. PICK n \in 1 .. k + 1 : x[n] = c
      <3>1. c < d
        BY <1>1, <1>2, <1>4, <2>1
      <3>2. QED
        BY <1>1, <3>1 DEF UsedBy
    <2>3. n = k + 1
      <3>1. n \notin 1 .. k
        BY <1>1, <2>2 DEF UsedBy
      <3>2. QED
        BY <3>1
    <2>4. i = c
      BY <2>2, <2>3
    <2>5. UsedBy(x, k + 1, c + 1)
      <3>1. \A m \in 1 .. k + 1 : x[m] < c + 1
        <4>1. \A m \in 1 .. k : x[m] < c /\ x[m] \in Nat
          BY <1>1, <1>2 DEF UsedBy
        <4>2. \A m \in 1 .. k + 1 : m \in 1 .. k \/ m = k + 1
          OBVIOUS
        <4>3. QED
          BY <2>4, <4>1, <4>2
      <3>2. \A j \in Nat : j < c + 1 => \E m \in 1 .. k + 1 : x[m] = j
        BY <1>1, <2>4 DEF UsedBy
      <3>3. QED
        BY <3>1, <3>2 DEF UsedBy
    <2>6. d = c + 1
      BY <1>2, <2>5, UsedOnce
    <2>7. QED
      BY <1>1, <2>4, <2>6
  <1>5. QED
    BY <1>3, <1>4

(* A corner read from the file. *)
LEMMA CornerRead ==
  ASSUME NEW x \in Seq(Nat), \A k \in 0 .. Len(x) : \E c \in Nat : UsedBy(x, k, c),
         NEW b, Read(b, x),
         Len(b.indices) < Len(x),
         file.f = [ n \in DOMAIN x |-> x[n] + 1 ]
  PROVE  /\ Read(fromFile(b, file), x)
         /\ Len(fromFile(b, file).indices) = Len(b.indices) + 1
  <1> DEFINE k == Len(b.indices)
             i == x[k + 1]
             v == file.v[i + 1]
             m == file.vn[i + 1]
             u == b.uniqueVertices
             e == AddCorner(b, v, m)
             old == Len(b.vertices)
  <1>1. /\ k \in Nat /\ old \in Nat /\ i \in Nat /\ k + 1 \in DOMAIN x
        /\ b.indices \in Seq(Nat) /\ k + 1 <= Len(x)
        /\ Len(b.indices) = k /\ Len(b.vertices) = old /\ x[k + 1] = i
    BY DEF Read
  <1>2. fromFile(b, file) = e
    BY <1>1 DEF fromFile
  <1>3. Line(i) = << v, m >>
    BY DEF Line
  <1>11. \E c \in Nat : UsedBy(x, k, c)
    <2>1. k \in 0 .. Len(x)
      BY <1>1
    <2> HIDE DEF k
    <2>2. QED
      BY <2>1, Zenon
  <1>13. /\ k < Len(x) /\ k + 1 \in Nat /\ old + 1 \in Nat
         /\ \A n \in 1 .. k + 1 : n \in 1 .. k \/ n = k + 1
         /\ \A n \in 1 .. old + 1 : n \in 1 .. old \/ n = old + 1
    <2> HIDE DEF k, old
    <2>1. QED
      BY <1>1
  <1>4. PICK S : b.vertices \in Seq(S)
    BY DEF Read
  <1>5. \A l \in DOMAIN u : u[l] \in Nat /\ u[l] < old /\ b.vertices[u[l] + 1] = l[1]
    BY DEF Read
  <1>6. \A n \in 1 .. k : /\ Line(x[n]) \in DOMAIN u
                         /\ u[Line(x[n])] = b.indices[n]
    BY DEF Read
  <1>7. \A c \in Nat : UsedBy(x, k, c) =>
           old <= c /\ (old = c => \A n \in 1 .. k : b.indices[n] = x[n])
    BY DEF Read
  <1>12. \A d \in Nat : UsedBy(x, k + 1, d) =>
           \/ UsedBy(x, k, d) /\ \E n \in 1 .. k : x[n] = x[k + 1]
           \/ d > 0 /\ UsedBy(x, k, d - 1) /\ x[k + 1] = d - 1
    <2> HIDE DEF k
    <2>1. SUFFICES ASSUME NEW d \in Nat, UsedBy(x, k + 1, d)
                   PROVE  \/ UsedBy(x, k, d) /\ \E n \in 1 .. k : x[n] = x[k + 1]
                          \/ d > 0 /\ UsedBy(x, k, d - 1) /\ x[k + 1] = d - 1
      OBVIOUS
    <2>2. k \in Nat /\ x \in Seq(Nat) /\ k < Len(x)
      BY <1>1, <1>13
    <2>3. QED
      BY <1>11, <2>1, <2>2, NextUse
  <1>8. CASE << v, m >> \in DOMAIN u
    <2> DEFINE j == u[<< v, m >>]
    <2>1. /\ e.vertices = b.vertices /\ e.indices = Append(b.indices, j) /\ e.uniqueVertices = u
          /\ e = [ vertices |-> e.vertices, normals |-> e.normals, indices |-> e.indices,
                   uniqueVertices |-> e.uniqueVertices ]
      <3> DEFINE R(y) == [ vertices |-> b.vertices, normals |-> b.normals, indices |-> y,
                           uniqueVertices |-> u ]
      <3>1. b = R(b.indices)
        BY DEF Read
      <3>2. e = [ b EXCEPT !.indices = Append(b.indices, j) ]
        BY <1>8 DEF AddCorner, Seen
      <3>3. \A y, z : [ R(y) EXCEPT !.indices = z ] = R(z)
        OBVIOUS
      <3>4. e = R(Append(b.indices, j))
        BY <3>1, <3>2, <3>3
      <3> HIDE DEF e, j, u
      <3>5. QED
        BY <3>4
    <2>2. j \in Nat /\ u[<< v, m >>] = j
      BY <1>5, <1>8
    <2> HIDE DEF e, j, u, v, m, old, k, i
    <2>3. /\ e.indices \in Seq(Nat) /\ Len(e.indices) = k + 1 /\ e.indices[k + 1] = j
          /\ \A n \in 1 .. k : e.indices[n] = b.indices[n]
      BY <1>1, <2>1, <2>2
    <2>4. \A n \in 1 .. k + 1 : /\ Line(x[n]) \in DOMAIN u
                               /\ u[Line(x[n])] = e.indices[n]
      <3> SUFFICES ASSUME NEW n \in 1 .. k + 1
                   PROVE  /\ Line(x[n]) \in DOMAIN u
                          /\ u[Line(x[n])] = e.indices[n]
        OBVIOUS
      <3>1. CASE n = k + 1
        BY <1>1, <1>3, <1>8, <2>2, <2>3, <3>1
      <3>2. CASE n \in 1 .. k
        BY <1>6, <2>3, <3>2
      <3>3. QED
        BY <1>1, <3>1, <3>2
    <2>5. ASSUME NEW d \in Nat, UsedBy(x, k + 1, d)
          PROVE  old <= d /\ (old = d => \A n \in 1 .. k + 1 : e.indices[n] = x[n])
      <3>1. CASE UsedBy(x, k, d) /\ \E n \in 1 .. k : x[n] = i
        <4>1. old <= d /\ (old = d => \A n \in 1 .. k : b.indices[n] = x[n])
          BY <1>7, <3>1
        <4>2. PICK n \in 1 .. k : x[n] = i
          BY <3>1
        <4>3. j = b.indices[n]
          BY <1>3, <1>6, <2>2, <4>2
        <4>4. old = d => j = i
          BY <4>1, <4>2, <4>3
        <4>5. QED
          BY <1>1, <1>13, <2>3, <4>1, <4>4
      <3>2. CASE d > 0 /\ UsedBy(x, k, d - 1) /\ i = d - 1
        <4>1. old <= d - 1
          BY <1>7, <3>2
        <4>2. QED
          BY <1>1, <4>1
      <3>3. QED
        BY <1>1, <1>12, <2>5, <3>1, <3>2
    <2>6. QED
      <3>1. /\ \E T : e.vertices \in Seq(T)
            /\ e.indices \in Seq(Nat) /\ Len(e.indices) = k + 1 /\ k + 1 <= Len(x)
        BY <1>1, <1>4, <2>1, <2>3
      <3>2. \A l \in DOMAIN e.uniqueVertices :
               /\ e.uniqueVertices[l] \in Nat /\ e.uniqueVertices[l] < Len(e.vertices)
               /\ e.vertices[e.uniqueVertices[l] + 1] = l[1]
        BY <1>1, <1>5, <2>1
      <3>3. QED
        BY <1>1, <1>2, <2>1, <2>4, <2>5, <3>1, <3>2, Zenon DEF Read
  <1>9. CASE << v, m >> \notin DOMAIN u
    <2> DEFINE w == [ l \in DOMAIN u \cup {<< v, m >>} |-> IF l = << v, m >> THEN old ELSE u[l] ]
    <2>1. e = [ vertices |-> Append(b.vertices, v), normals |-> Append(b.normals, m),
                indices |-> Append(b.indices, old), uniqueVertices |-> w ]
      BY <1>9 DEF AddCorner, Seen
    <2>9. /\ DOMAIN w = DOMAIN u \cup {<< v, m >>} /\ w[<< v, m >>] = old
          /\ \A l \in DOMAIN u : l # << v, m >> => w[l] = u[l]
      OBVIOUS
    <2> HIDE DEF e, w
    <2>2. /\ e.vertices = Append(b.vertices, v) /\ e.indices = Append(b.indices, old)
          /\ e.uniqueVertices = w
          /\ e = [ vertices |-> e.vertices, normals |-> e.normals, indices |-> e.indices,
                   uniqueVertices |-> e.uniqueVertices ]
      BY <2>1
    <2> HIDE DEF u, v, m, old, k, i
    <2>3. /\ e.indices \in Seq(Nat) /\ Len(e.indices) = k + 1 /\ e.indices[k + 1] = old
          /\ \A n \in 1 .. k : e.indices[n] = b.indices[n]
      BY <1>1, <2>2
    <2>4. /\ e.vertices \in Seq(S \cup {v}) /\ Len(e.vertices) = old + 1
          /\ e.vertices[old + 1] = v
          /\ \A n \in 1 .. old : e.vertices[n] = b.vertices[n]
      <3>1. b.vertices \in Seq(S \cup {v})
        BY <1>4
      <3>2. QED
        BY <1>1, <2>2, <3>1
    <2>5. ASSUME NEW l \in DOMAIN w
          PROVE  w[l] \in Nat /\ w[l] < old + 1 /\ e.vertices[w[l] + 1] = l[1]
      <3>1. CASE l = << v, m >>
        BY <1>1, <2>4, <2>9, <3>1
      <3>2. CASE l # << v, m >>
        <4>1. w[l] = u[l] /\ u[l] \in Nat /\ u[l] < old /\ b.vertices[u[l] + 1] = l[1]
          BY <1>5, <2>5, <2>9, <3>2
        <4>2. u[l] + 1 \in 1 .. old /\ u[l] < old + 1
          BY <1>1, <4>1
        <4>3. e.vertices[u[l] + 1] = b.vertices[u[l] + 1]
          BY <2>4, <4>2
        <4>4. QED
          BY <4>1, <4>2, <4>3
      <3>3. QED
        BY <3>1, <3>2
    <2>6. \A n \in 1 .. k + 1 : /\ Line(x[n]) \in DOMAIN w
                               /\ w[Line(x[n])] = e.indices[n]
      <3> SUFFICES ASSUME NEW n \in 1 .. k + 1
                   PROVE  /\ Line(x[n]) \in DOMAIN w
                          /\ w[Line(x[n])] = e.indices[n]
        OBVIOUS
      <3>1. CASE n = k + 1
        BY <1>1, <1>3, <2>3, <2>9, <3>1
      <3>2. CASE n \in 1 .. k
        <4>1. Line(x[n]) \in DOMAIN u /\ u[Line(x[n])] = b.indices[n]
          BY <1>6, <3>2
        <4>2. Line(x[n]) # << v, m >>
          BY <1>9, <4>1
        <4>3. QED
          BY <2>3, <2>9, <3>2, <4>1, <4>2
      <3>3. QED
        BY <1>1, <3>1, <3>2
    <2>7. ASSUME NEW d \in Nat, UsedBy(x, k + 1, d)
          PROVE  old + 1 <= d /\ (old + 1 = d => \A n \in 1 .. k + 1 : e.indices[n] = x[n])
      <3>1. ~(\E n \in 1 .. k : x[n] = i)
        BY <1>1, <1>3, <1>6, <1>9
      <3>2. d > 0 /\ UsedBy(x, k, d - 1) /\ i = d - 1
        BY <1>1, <1>12, <2>7, <3>1
      <3>3. old <= d - 1 /\ (old = d - 1 => \A n \in 1 .. k : b.indices[n] = x[n])
        BY <1>7, <3>2
      <3>4. old + 1 <= d /\ (old + 1 = d => old = d - 1)
        BY <1>1, <3>3
      <3>5. ASSUME old + 1 = d, NEW n \in 1 .. k + 1
            PROVE  e.indices[n] = x[n]
        <4>1. old = d - 1
          BY <3>4, <3>5
        <4>2. CASE n = k + 1
          BY <1>1, <2>3, <3>2, <4>1, <4>2
        <4>3. CASE n \in 1 .. k
          BY <2>3, <3>3, <4>1, <4>3
        <4>4. QED
          BY <1>13, <3>5, <4>2, <4>3
      <3>6. QED
        BY <3>4, <3>5
    <2>8. QED
      <3> HIDE DEF w, v, m
      <3>1. QED
        BY <1>1, <1>2, <2>2, <2>3, <2>4, <2>5, <2>6, <2>7 DEF Read
  <1>10. QED
    BY <1>8, <1>9

(* A vertex is given its number where a corner first uses it. *)
LEMMA CornerNumber ==
  ASSUME NEW S, NEW b, Numbered(b, S), NEW v \in S
  PROVE  \E i \in Nat :
           /\ AddCorner(b, v, v).indices = Append(b.indices, i)
           /\ \/ i < Len(b.vertices) /\ Len(AddCorner(b, v, v).vertices) = Len(b.vertices)
              \/ i = Len(b.vertices) /\ Len(AddCorner(b, v, v).vertices) = Len(b.vertices) + 1
  <1> DEFINE u == b.uniqueVertices
  <1>1. Len(b.vertices) \in Nat /\ b.vertices \in Seq(S)
    BY DEF Numbered
  <1>2. CASE Seen(b, v, v)
    <2>1. << v, v >> \in DOMAIN u
      BY <1>2 DEF Seen
    <2>2. u[<< v, v >>] \in Nat /\ u[<< v, v >>] < Len(b.vertices)
      BY <2>1 DEF Numbered
    <2>3. AddCorner(b, v, v) = [b EXCEPT !.indices = Append(b.indices, u[<< v, v >>])]
      BY <1>2 DEF AddCorner
    <2>4. b = [vertices |-> b.vertices, normals |-> b.vertices, indices |-> b.indices,
               uniqueVertices |-> b.uniqueVertices]
      BY DEF Numbered
    <2>5. /\ AddCorner(b, v, v).indices = Append(b.indices, u[<< v, v >>])
          /\ AddCorner(b, v, v).vertices = b.vertices
      <3> HIDE DEF u
      <3>1. DOMAIN b = {"vertices", "normals", "indices", "uniqueVertices"}
        BY <2>4
      <3>2. QED
        BY <2>3, <3>1
    <2>6. QED
      BY <2>2, <2>5
  <1>3. CASE ~Seen(b, v, v)
    <2>1. /\ AddCorner(b, v, v).indices = Append(b.indices, Len(b.vertices))
          /\ AddCorner(b, v, v).vertices = Append(b.vertices, v)
      BY <1>3 DEF AddCorner
    <2>2. Len(Append(b.vertices, v)) = Len(b.vertices) + 1
      BY <1>1
    <2>3. QED
      BY <1>1, <2>1, <2>2
  <1>4. QED
    BY <1>2, <1>3

(* One more corner leaves the numbers in the order of their first use. *)
LEMMA UseAdded ==
  ASSUME NEW x \in Seq(Nat), NEW L \in Nat, UsedBy(x, Len(x), L),
         \A k \in 0 .. Len(x) : \E c \in Nat : UsedBy(x, k, c),
         NEW i \in Nat, NEW M \in Nat,
         (i < L /\ M = L) \/ (i = L /\ M = L + 1),
         NEW y, y = Append(x, i)
  PROVE  /\ UsedBy(y, Len(y), M)
         /\ \A k \in 0 .. Len(y) : \E c \in Nat : UsedBy(y, k, c)
  <1> DEFINE l == Len(x)
  <1>1. /\ l \in Nat /\ Len(y) = l + 1 /\ y[l + 1] = i
        /\ \A n \in 1 .. l : y[n] = x[n] /\ x[n] \in Nat
    OBVIOUS
  <1>2. \A k \in 0 .. l : \A c \in Nat : UsedBy(x, k, c) => UsedBy(y, k, c)
    <2>1. \A k \in 0 .. l : \A n \in 1 .. k : n \in 1 .. l
      BY <1>1
    <2> HIDE DEF l
    <2>2. \A k \in 0 .. l : \A n \in 1 .. k : y[n] = x[n]
      BY <1>1, <2>1
    <2>3. QED
      BY <2>2 DEF UsedBy
  <1>3. UsedBy(x, l, L)
    OBVIOUS
  <1>4. \A k \in 0 .. l : \E c \in Nat : UsedBy(x, k, c)
    OBVIOUS
  <1> HIDE DEF l
  <1>9. i < M /\ \A a \in Nat : a < L => a < M
    OBVIOUS
  <1>5. UsedBy(y, l + 1, M)
    <2>1. \A n \in 1 .. l + 1 : n \in 1 .. l \/ n = l + 1
      BY <1>1
    <2>2. \A n \in 1 .. l : y[n] \in Nat /\ y[n] < L
      BY <1>1, <1>3 DEF UsedBy
    <2>3. ASSUME NEW n \in 1 .. l + 1 PROVE y[n] < M
      <3>1. CASE n = l + 1
        BY <1>1, <1>9, <3>1, Zenon
      <3>2. CASE n \in 1 .. l
        BY <1>9, <2>2, <3>2, Zenon
      <3>3. QED
        BY <2>1, <3>1, <3>2
    <2>4. ASSUME NEW j \in Nat, j < M PROVE \E n \in 1 .. l + 1 : y[n] = j
      <3>1. CASE j < L
        <4>1. PICK n \in 1 .. l : x[n] = j
          BY <1>3, <3>1 DEF UsedBy
        <4>2. n \in 1 .. l + 1 /\ y[n] = j
          BY <1>1, <4>1
        <4>3. QED
          BY <4>2
      <3>2. CASE ~(j < L)
        <4>1. j = i /\ l + 1 \in 1 .. l + 1
          BY <1>1, <2>4, <3>2
        <4>2. QED
          BY <1>1, <4>1
      <3>3. QED
        BY <3>1, <3>2
    <2>5. QED
      BY <2>3, <2>4 DEF UsedBy
  <1>6. \A k \in 0 .. l + 1 : k \in 0 .. l \/ k = l + 1
    BY <1>1
  <1>7. ASSUME NEW k \in 0 .. l + 1 PROVE \E c \in Nat : UsedBy(y, k, c)
    <2>1. CASE k \in 0 .. l
      <3>1. PICK c \in Nat : UsedBy(x, k, c)
        BY <1>4, <2>1
      <3>2. QED
        BY <1>2, <2>1, <3>1
    <2>2. CASE k = l + 1
      BY <1>5, <2>2
    <2>3. QED
      BY <1>6, <2>1, <2>2
  <1>8. QED
    BY <1>1, <1>5, <1>7

LEMMA FirstUseAtStart ==
  ASSUME mMesh = EmptySoup
  PROVE  FirstUse
  <1>1. mMesh.indices = << >> /\ mMesh.vertices = << >>
    BY DEF EmptySoup
  <1>2. UsedBy(<< >>, 0, 0)
    BY DEF UsedBy
  <1>3. QED
    BY <1>1, <1>2 DEF FirstUse

LEMMA FirstUseNext == Working /\ Paired /\ Made /\ FirstUse /\ [Next]_vars => FirstUse'
  <1> SUFFICES ASSUME Working, Paired, Made, FirstUse, [Next]_vars PROVE FirstUse'
    OBVIOUS
  <1>1. CASE UNCHANGED mMesh
    BY <1>1 DEF FirstUse
  <1>2. CASE AddIndex
    <2> DEFINE k == Len(mMesh.indices) + 1
    <2>1. /\ stage = "mesh" /\ working = {} /\ k - 1 < Len(mVertices)
          /\ mIndices = [n \in DOMAIN mVertices |-> n - 1]
          /\ mMesh' = AddCorner(mMesh, mVertices[mIndices[k] + 1], mNormals[mIndices[k] + 1])
      BY <1>2 DEF AddIndex, Made, Working
    <2>2. mNormals = mVertices /\ mVertices \in Seq(Pushable) /\ Len(mVertices) \in Nat
      BY <2>1, SoupDone
    <2>3. Numbered(mMesh, Pushable)
      BY DEF Made
    <2>4. mMesh.indices \in Seq(Nat) /\ Len(mMesh.vertices) \in Nat /\ k \in 1 .. Len(mVertices)
      BY <2>1, <2>2, <2>3 DEF Numbered
    <2>5. mIndices[k] + 1 = k /\ mVertices[k] \in Pushable
      BY <2>1, <2>2, <2>4
    <2> HIDE DEF k
    <2>6. PICK v \in Pushable : mMesh' = AddCorner(mMesh, v, v)
      BY <2>1, <2>2, <2>5
    <2>7. PICK i \in Nat :
            /\ mMesh'.indices = Append(mMesh.indices, i)
            /\ \/ i < Len(mMesh.vertices) /\ Len(mMesh'.vertices) = Len(mMesh.vertices)
               \/ i = Len(mMesh.vertices) /\ Len(mMesh'.vertices) = Len(mMesh.vertices) + 1
      BY <2>3, <2>6, CornerNumber
    <2>8. Len(mMesh'.vertices) \in Nat
      BY <2>4, <2>7
    <2>9. /\ UsedBy(mMesh'.indices, Len(mMesh'.indices), Len(mMesh'.vertices))
          /\ \A m \in 0 .. Len(mMesh'.indices) : \E c \in Nat : UsedBy(mMesh'.indices, m, c)
      <3> DEFINE x == mMesh.indices
                 y == mMesh'.indices
                 L == Len(mMesh.vertices)
                 M == Len(mMesh'.vertices)
      <3>1. UsedBy(x, Len(x), L) /\ \A m \in 0 .. Len(x) : \E c \in Nat : UsedBy(x, m, c)
        BY DEF FirstUse
      <3>2. x \in Seq(Nat) /\ L \in Nat /\ M \in Nat /\ y = Append(x, i) /\ ((i < L /\ M = L) \/ (i = L /\ M = L + 1))
        BY <2>4, <2>7, <2>8
      <3> HIDE DEF x, y, L, M
      <3>3. UsedBy(y, Len(y), M) /\ \A m \in 0 .. Len(y) : \E c \in Nat : UsedBy(y, m, c)
        BY <3>1, <3>2, UseAdded, Zenon
      <3>4. QED
        BY <3>3 DEF y, M
    <2>10. QED
      BY <2>9 DEF FirstUse, UsedBy
  <1>3. QED
    BY <1>1, <1>2 DEF Next, vars, constructGrid, Take, MakeIndices, Save, LoadIndex, Upload, Lock, Push

(* Nothing has been read of a file just opened. *)
LEMMA NothingRead ==
  ASSUME NEW x \in Seq(Nat)
  PROVE  Read(EmptySoup, x) /\ Len(EmptySoup.indices) = 0
  <1>1. /\ EmptySoup = [ vertices |-> EmptySoup.vertices, normals |-> EmptySoup.normals,
                         indices |-> EmptySoup.indices, uniqueVertices |-> EmptySoup.uniqueVertices ]
        /\ EmptySoup.vertices = << >> /\ EmptySoup.indices = << >>
        /\ DOMAIN EmptySoup.uniqueVertices = {}
    BY DEF EmptySoup
  <1>2. \E S : EmptySoup.vertices \in Seq(S)
    BY <1>1
  <1>3. Len(EmptySoup.indices) = 0 /\ Len(EmptySoup.vertices) = 0 /\ 0 <= Len(x)
        /\ EmptySoup.indices \in Seq(Nat)
    BY <1>1
  <1>4. \A n : n \notin 1 .. 0
    OBVIOUS
  <1>5. \A c \in Nat : 0 <= c
    OBVIOUS
  <1>6. QED
    BY <1>1, <1>2, <1>3, <1>4, <1>5 DEF Read

LEMMA OnDiskNext == Working /\ Made /\ OnDisk /\ [Next]_vars => OnDisk'
  <1> SUFFICES ASSUME Working, Made, OnDisk, [Next]_vars PROVE OnDisk'
    OBVIOUS
  <1>1. CASE Save
    <2>1. UNCHANGED mMesh
      BY <1>1 DEF Save
    <2>2. PICK V \in BOOLEAN, N \in BOOLEAN :
            file' = saveToFile(mMesh,
                               [ v \in Range(mMesh.vertices) |-> IF V THEN Canonical(v) ELSE v ],
                               [ n \in Range(mMesh.normals) |-> IF N THEN Canonical(n) ELSE n ])
      BY <1>1 DEF Save
    <2>3. file'.f = [ n \in DOMAIN mMesh.indices |-> mMesh.indices[n] + 1 ]
      BY <2>2 DEF saveToFile
    <2>4. ASSUME NEW i \in DOMAIN mMesh.vertices
          PROVE  file'.v[i] \in { mMesh.vertices[i], Canonical(mMesh.vertices[i]) }
      <3>1. mMesh.vertices[i] \in Range(mMesh.vertices)
        BY DEF Range
      <3>2. file'.v[i] = IF V THEN Canonical(mMesh.vertices[i]) ELSE mMesh.vertices[i]
        BY <2>2, <3>1 DEF saveToFile
      <3>3. QED
        BY <3>2
    <2>5. QED
      BY <2>1, <2>3, <2>4 DEF OnDisk, Canonical, Height
  <1>2. CASE LoadIndex
    <2>1. stage = "loading" /\ mMesh' = mMesh /\ file' = file
      BY <1>2 DEF LoadIndex
    <2>2. QED
      BY <2>1 DEF OnDisk, Canonical, Height
  <1>3. CASE constructGrid \/ Take \/ MakeIndices \/ AddIndex \/ Upload \/ (\E c \in working : Lock(c) \/ Push(c))
    <2>1. stage' \notin {"loading", "loaded"}
      BY <1>3 DEF Working, constructGrid, Take, MakeIndices, AddIndex, Upload, Lock, Push
    <2>2. QED
      BY <2>1 DEF OnDisk
  <1>4. CASE UNCHANGED vars
    BY <1>4 DEF vars, OnDisk, Canonical, Height
  <1>5. QED
    BY <1>1, <1>2, <1>3, <1>4 DEF Next

LEMMA ReadBackNext == Working /\ Made /\ FirstUse /\ OnDisk /\ ReadBack /\ [Next]_vars => ReadBack'
  <1> SUFFICES ASSUME Working, Made, FirstUse, OnDisk, ReadBack, [Next]_vars PROVE ReadBack'
    OBVIOUS
  <1> DEFINE x == mMesh.indices
  <1>1. x \in Seq(Nat) /\ Len(x) \in Nat
    BY DEF Made, Numbered
  <1>2. \A k \in 0 .. Len(x) : \E c \in Nat : UsedBy(x, k, c)
    BY DEF FirstUse
  <1>3. CASE Save
    <2>1. /\ stage = "done" /\ mMesh' = mMesh /\ loaded' = loaded
          /\ stage' = IF file'.f = << >> THEN "loaded" ELSE "loading"
          /\ \E V, N : file' = saveToFile(mMesh, V, N)
      BY <1>3 DEF Save
    <2>2. file'.f = [ n \in DOMAIN x |-> x[n] + 1 ]
      BY <2>1 DEF saveToFile
    <2>3. loaded = EmptySoup
      BY <2>1 DEF ReadBack
    <2>4. Read(loaded, x)' /\ Len(loaded'.indices) = 0
      <3>1. /\ EmptySoup = [ vertices |-> EmptySoup.vertices, normals |-> EmptySoup.normals,
                             indices |-> EmptySoup.indices, uniqueVertices |-> EmptySoup.uniqueVertices ]
            /\ Len(EmptySoup.indices) = 0
        BY DEF EmptySoup
      <3>5. Read(EmptySoup, x)
        BY <1>1, NothingRead
      <3>2. \A n : n \notin 1 .. 0
        OBVIOUS
      <3>3. DOMAIN EmptySoup.uniqueVertices = {}
        BY DEF EmptySoup
      <3>4. QED
        BY <1>1, <2>1, <2>3, <3>1, <3>2, <3>3, <3>5 DEF Read
    <2>5. file'.f = << >> <=> Len(x) = 0
      BY <1>1, <2>2
    <2>6. QED
      BY <1>1, <2>1, <2>4, <2>5 DEF ReadBack
  <1>4. CASE LoadIndex
    <2>1. /\ stage = "loading" /\ mMesh' = mMesh /\ file' = file
          /\ loaded' = fromFile(loaded, file)
          /\ stage' = IF Len(loaded.indices) + 1 = Len(file.f) THEN "loaded" ELSE stage
      BY <1>4 DEF LoadIndex
    <2>2. /\ Read(loaded, x) /\ Len(loaded.indices) < Len(x)
          /\ file.f = [ n \in DOMAIN x |-> x[n] + 1 ]
      BY <2>1 DEF ReadBack, OnDisk
    <2>3. Len(file.f) = Len(x)
      BY <1>1, <2>2
    <2>4. Read(loaded', x) /\ Len(loaded'.indices) = Len(loaded.indices) + 1
      <3> HIDE DEF x
      <3>1. QED
        BY <1>1, <1>2, <2>1, <2>2, CornerRead
    <2>5. Read(loaded, x)'
      BY <2>1, <2>4 DEF Read, Line
    <2>6. Len(loaded.indices) \in Nat
      BY <2>2 DEF Read
    <2>7. QED
      BY <1>1, <2>1, <2>2, <2>3, <2>4, <2>5, <2>6 DEF ReadBack
  <1>5. CASE constructGrid \/ Take \/ MakeIndices \/ AddIndex \/ (\E c \in working : Lock(c) \/ Push(c))
    <2>1. /\ stage \notin {"loading", "loaded", "drawn"} /\ stage' \notin {"loading", "loaded", "drawn"}
          /\ loaded' = loaded
      BY <1>5 DEF constructGrid, Take, MakeIndices, AddIndex, Lock, Push, Working
    <2>2. QED
      BY <2>1 DEF ReadBack
  <1>6. CASE Upload
    BY <1>6 DEF Upload, ReadBack
  <1>7. CASE UNCHANGED vars
    BY <1>7 DEF vars, ReadBack, Read, Line
  <1>8. QED
    BY <1>3, <1>4, <1>5, <1>6, <1>7 DEF Next

(* The mesh read back has the triangles of the mesh saved, and is the same mesh  *)
(* unless vertices coincide in print (Mesh.cpp:105-194).                         *)
THEOREM ReloadIsTheMesh == Spec => []ReloadKeepsMesh
  <1>1. Made /\ FirstUse /\ OnDisk /\ ReadBack => ReloadKeepsMesh
    <2> SUFFICES ASSUME Made, FirstUse, OnDisk, ReadBack, stage = "loaded"
                 PROVE  /\ Len(loaded.indices) = Len(mMesh.indices)
                        /\ \A n \in DOMAIN mMesh.indices : EdgeAt(loaded, n) = EdgeAt(mMesh, n)
                        /\ Len(loaded.vertices) = Len(mMesh.vertices) => loaded.indices = mMesh.indices
      BY DEF ReloadKeepsMesh
    <2> DEFINE x == mMesh.indices
               u == loaded.uniqueVertices
               c == Len(mMesh.vertices)
    <2>1. x \in Seq(Nat) /\ c \in Nat /\ DOMAIN mMesh.vertices = 1 .. c /\ DOMAIN x = 1 .. Len(x)
      BY DEF Made, Numbered
    <2>2. Read(loaded, x) /\ Len(loaded.indices) = Len(x) /\ UsedBy(x, Len(x), c)
      BY DEF ReadBack, FirstUse
    <2>3. ASSUME NEW n \in DOMAIN x
          PROVE  EdgeAt(loaded, n) = EdgeAt(mMesh, n)
      <3> DEFINE v == mMesh.vertices[x[n] + 1]
                 w == file.v[x[n] + 1]
      <3>1. n \in 1 .. Len(x) /\ x[n] \in Nat /\ x[n] < c
        <4> HIDE DEF x, c
        <4>1. QED
          BY <2>1, <2>2 DEF UsedBy
      <3>2. x[n] + 1 \in DOMAIN mMesh.vertices
        <4> HIDE DEF x, c
        <4>1. QED
          BY <2>1, <3>1
      <3>3. w \in { v, Canonical(v) }
        BY <3>2 DEF OnDisk
      <3>4. Line(x[n]) \in DOMAIN u /\ u[Line(x[n])] = loaded.indices[n]
        BY <2>2, <3>1 DEF Read
      <3>5. loaded.vertices[loaded.indices[n] + 1] = Line(x[n])[1]
        BY <2>2, <3>4 DEF Read
      <3>6. At(loaded, n) = w /\ At(mMesh, n) = v
        BY <3>5 DEF At, Line
      <3>7. { Canonical(v)[1], Canonical(v)[2] } = { v[1], v[2] }
        <4> HIDE DEF v
        <4>1. Canonical(v) = << v[2], v[1] >> \/ Canonical(v) = v
          BY DEF Canonical
        <4>2. QED
          BY <4>1
      <3> HIDE DEF v, w
      <3>8. QED
        BY <3>3, <3>6, <3>7 DEF EdgeAt
    <2>4. ASSUME Len(loaded.vertices) = c PROVE loaded.indices = x
      <3>1. loaded.indices \in Seq(Nat) /\ \A n \in 1 .. Len(x) : loaded.indices[n] = x[n]
        BY <2>1, <2>2, <2>4 DEF Read
      <3> DEFINE y == loaded.indices
      <3>2. y \in Seq(Nat) /\ Len(y) = Len(x) /\ \A n \in 1 .. Len(x) : y[n] = x[n]
        BY <2>2, <3>1
      <3>3. y = x
        <4> HIDE DEF x, y
        <4>1. y = [ n \in 1 .. Len(y) |-> y[n] ] /\ x = [ n \in 1 .. Len(x) |-> x[n] ]
          BY <2>1, <3>2
        <4>2. QED
          BY <3>2, <4>1
      <3>4. QED
        BY <3>3
    <2>5. QED
      BY <2>2, <2>3, <2>4
  <1>2. Init => FirstUse /\ OnDisk /\ ReadBack
    BY FirstUseAtStart DEF Init, OnDisk, ReadBack
  <1>3. QED
    BY <1>1, <1>2, WorkingAtStart, PairedNext, MadeAtStart, MadeNext, FirstUseNext, OnDiskNext,
       ReadBackNext, PTL DEF Spec
================================================================================
