---------------------------- MODULE MarchingCubes -----------------------------
(***************************************************************************)
(* The second polygonizer, MarchingCubes: the field at every point of a    *)
(* grid, one task per cell that appends the cell's triangles to a soup     *)
(* under a lock, and the mesh made of the soup.  The mesh is then saved,   *)
(* read back from its file, and handed to OpenGL by the ModelView.         *)
(*                                                                         *)
(* A vertex is the grid edge it lies on, in the direction the cell's table *)
(* has it: cells on the two sides of an edge may interpolate from opposite *)
(* ends, and floats may then come out different (rounds) or not.  A normal *)
(* is modelled as the vertex whose gradient it is.                         *)
(*                                                                         *)
(* The cells are numbered; a cell is taken when fewer than a bounded       *)
(* number of earlier ones are at work.                                     *)
(***************************************************************************)
EXTENDS PatchFacts, Mesh, FiniteSets, Functions

CONSTANT Scenes     \* the surfaces that may be polygonized

(* above: the points not below the iso value; res: mResolution; workers:   *)
(* the bound on the cells at work at a time.                               *)
Scene == { s \in [ above : SUBSET PointId, res : 2 .. GridSize + 2, workers : Nat \ {0} ] :
             \A p \in s.above : \A k \in 1 .. 3 : p[k] < s.res }
ASSUME ScenesAssumption == \A s \in Scenes : s \in Scene

(* What createTriangles takes from the tables: every edge that a triangle  *)
(* uses is one of the edges that carry a vertex, and a case with edges has *)
(* triangles, so that its cell has something to push.                      *)
ASSUME RowsAssumption ==
    \A k \in Config :
        /\ TrianglesOf(k) \in Seq(EdgesOf(k) \X EdgesOf(k) \X EdgesOf(k))
        /\ TrianglesOf(k) = << >> => EdgesOf(k) = {}

VARIABLES
    scene,       \* the surface at work
    rounds,      \* whether a point depends on the end it is interpolated from
    stage,       \* "new", "cells", "mesh", "done", "loading", "loaded" or "drawn"
    mGrid,       \* the grid points below the iso value, once they are known
    next,        \* the first cell not taken
    pushes,      \* for each cell at work, what it has pushed
    inside,      \* the cells that hold mDataMutex
    mVertices, mNormals, mIndices,   \* the soup
    mMesh,       \* the mesh, under construction in fromTriangleSoup
    file,        \* the file the mesh is saved to
    loaded,      \* the mesh read back from it, under construction
    mMCData      \* the buffer drawn from: a vertex and a normal in turn

vars == <<scene, rounds, stage, mGrid, next, pushes, inside,
          mVertices, mNormals, mIndices, mMesh, file, loaded, mMCData>>
soup == <<mVertices, mNormals, mIndices>>

mResolution == scene.res
AllPoints(r) == (0 .. r - 1) \X (0 .. r - 1) \X (0 .. r - 1)
CellAt(r, n) == << n \div (r * r), (n \div r) % r, n % r >>

(* A fault: the loop over x stops two steps too early. *)
NumCellsShort(r) == r * r * (r - 2)

NumCells(r) == r * r * r

-----------------------------------------------------------------------------
(* A fault: the numbering of the other polygonizer. *)
mcDecalsExchanged ==
    << <<0, 0, 0>>, <<1, 0, 0>>, <<1, 0, 1>>, <<0, 0, 1>>,
       <<0, 1, 0>>, <<1, 1, 0>>, <<1, 1, 1>>, <<0, 1, 1>> >>

(* The corners of a cell as this polygonizer numbers them: those of        *)
(* Tables.hpp with y and z exchanged.                                      *)
mcDecals ==
    << <<0, 0, 0>>, <<1, 0, 0>>, <<1, 1, 0>>, <<0, 1, 0>>,
       <<0, 0, 1>>, <<1, 0, 1>>, <<1, 1, 1>>, <<0, 1, 1>> >>

(* A fault: rows are read no further than their third triangle. *)
TrianglesCut(k) == IF Len(TrianglesOf(k)) > 3 THEN SubSeq(TrianglesOf(k), 1, 3) ELSE TrianglesOf(k)

(* The other tables are, entry for entry, those of Tables.hpp. *)
EdgesOn(k)   == EdgesOf(k)
Triangles(k) == TrianglesOf(k)

(* Cells at the upper faces have their corners pulled back to the grid.    *)
Clamp(r, x) == IF x < r THEN x ELSE r - 1

CornerOf(r, c, i) ==
    LET p == Plus(c, mcDecals[i + 1])
    IN  << Clamp(r, p[1]), Clamp(r, p[2]), Clamp(r, p[3]) >>
CaseOf(c) == voxelIndex({ i \in CornerIndex : CornerOf(mResolution, c, i) \in mGrid })

(* The point on the edge from p to q. *)
Height(p) == p[1] + p[2] + p[3]
Canonical(v) == IF Height(v[2]) < Height(v[1]) THEN << v[2], v[1] >> ELSE v
interpolateVertices(p, q) == IF rounds THEN << p, q >> ELSE Canonical(<< p, q >>)
vertList(c, e) ==
    interpolateVertices(CornerOf(mResolution, c, EdgeEnds[e + 1][1]),
                        CornerOf(mResolution, c, EdgeEnds[e + 1][2]))

-----------------------------------------------------------------------------
Init ==
    /\ scene \in Scenes
    /\ rounds \in BOOLEAN
    /\ stage = "new"
    /\ mGrid = {}
    /\ next = 0 /\ pushes = [c \in {} |-> 0] /\ inside = {}
    /\ mVertices = << >> /\ mNormals = << >> /\ mIndices = << >>
    /\ mMesh = EmptySoup
    /\ file = saveToFile(EmptySoup, << >>, << >>)
    /\ loaded = EmptySoup
    /\ mMCData = << >>

(* The tasks of constructGrid write an entry each. *)
constructGrid ==
    /\ stage = "new"
    /\ mGrid' = AllPoints(mResolution) \ scene.above
    /\ stage' = "cells"
    /\ UNCHANGED <<scene, rounds, next, pushes, inside, soup, mMesh, file, loaded, mMCData>>

(* A task finds its cell's case, and ends if the case has no edges. *)
working == DOMAIN pushes
Take ==
    /\ stage = "cells" /\ next < NumCells(mResolution)
    /\ Cardinality(working) < scene.workers
    /\ next' = next + 1
    /\ pushes' = IF EdgesOn(CaseOf(CellAt(mResolution, next))) = {} THEN pushes
                 ELSE [ c \in working \cup {next} |-> IF c = next THEN 0 ELSE pushes[c] ]
    /\ UNCHANGED <<scene, rounds, stage, mGrid, inside, soup, mMesh, file, loaded, mMCData>>

(* A fault: the lock of a cell keeps no other out. *)
LockOwn(c) ==
    /\ c \in working \ inside
    /\ inside' = inside \cup {c}
    /\ UNCHANGED <<scene, rounds, stage, mGrid, next, pushes, soup, mMesh, file, loaded, mMCData>>

Lock(c) ==
    /\ c \in working /\ inside = {}
    /\ inside' = {c}
    /\ UNCHANGED <<scene, rounds, stage, mGrid, next, pushes, soup, mMesh, file, loaded, mMCData>>

(* A cell pushes the vertices and normals of its row in turn: the vertex   *)
(* its n-th push is about, counted from zero.                              *)
VertexPushed(c, n) ==
    LET cell   == CellAt(mResolution, c)
        corner == n \div 2
    IN  vertList(cell, Triangles(CaseOf(cell))[corner \div 3 + 1][(corner % 3) + 1])

Push(c) ==
    /\ c \in inside
    /\ IF pushes[c] % 2 = 0
       THEN mVertices' = Append(mVertices, VertexPushed(c, pushes[c])) /\ UNCHANGED mNormals
       ELSE mNormals' = Append(mNormals, VertexPushed(c, pushes[c])) /\ UNCHANGED mVertices
    /\ IF pushes[c] + 1 = 6 * Len(Triangles(CaseOf(CellAt(mResolution, c))))
       THEN /\ pushes' = [ d \in working \ {c} |-> pushes[d] ]
            /\ inside' = inside \ {c}
       ELSE /\ pushes' = [ pushes EXCEPT ![c] = @ + 1 ]
            /\ UNCHANGED inside
    /\ UNCHANGED <<scene, rounds, stage, mGrid, next, mIndices, mMesh, file, loaded, mMCData>>

(* The loops have joined: the soup's indices are counted up. *)
MakeIndices ==
    /\ stage = "cells" /\ next = NumCells(mResolution) /\ working = {}
    /\ mIndices' = [ n \in DOMAIN mVertices |-> n - 1 ]
    /\ stage' = IF Fits(mVertices, mNormals) /\ mVertices # << >> THEN "mesh" ELSE "done"
    /\ UNCHANGED <<scene, rounds, mGrid, next, pushes, inside, mVertices, mNormals, mMesh, file, loaded, mMCData>>

(* The next index of the loop of fromTriangleSoup. *)
AddIndex ==
    /\ stage = "mesh"
    /\ LET idx == mIndices[Len(mMesh.indices) + 1] + 1
       IN  mMesh' = AddCorner(mMesh, mVertices[idx], mNormals[idx])
    /\ stage' = IF Len(mMesh.indices) + 1 = Len(mIndices) THEN "done" ELSE stage
    /\ UNCHANGED <<scene, rounds, mGrid, next, pushes, inside, soup, file, loaded, mMCData>>

(* saveMesh.  In print the two points of one edge may coincide, and so may *)
(* their normals.                                                          *)
Save ==
    /\ stage = "done"
    /\ \E V, N \in BOOLEAN :
          LET printV == [ v \in Range(mMesh.vertices) |-> IF V THEN Canonical(v) ELSE v ]
              printN == [ n \in Range(mMesh.normals) |-> IF N THEN Canonical(n) ELSE n ]
          IN  file' = saveToFile(mMesh, printV, printN)
    /\ stage' = IF file'.f = << >> THEN "loaded" ELSE "loading"
    /\ UNCHANGED <<scene, rounds, mGrid, next, pushes, inside, soup, mMesh, loaded, mMCData>>

(* The file is loaded again, a corner of its faces at a time. *)
LoadIndex ==
    /\ stage = "loading"
    /\ loaded' = fromFile(loaded, file)
    /\ stage' = IF Len(loaded.indices) + 1 = Len(file.f) THEN "loaded" ELSE stage
    /\ UNCHANGED <<scene, rounds, mGrid, next, pushes, inside, soup, mMesh, file, mMCData>>

(* ModelView::initShaders, once the mesh is saved: vertices and normals go *)
(* into one buffer, side by side, and all the indices into another.        *)
Upload ==
    /\ stage = "loaded"
    /\ mMCData' = [ i \in DOMAIN mMesh.vertices |-> << mMesh.vertices[i], mMesh.normals[i] >> ]
    /\ stage' = "drawn"
    /\ UNCHANGED <<scene, rounds, mGrid, next, pushes, inside, soup, mMesh, file, loaded>>

Next ==
    \/ constructGrid \/ Take \/ MakeIndices \/ AddIndex \/ Save \/ LoadIndex \/ Upload
    \/ \E c \in working : Lock(c) \/ Push(c)

Spec == Init /\ [][Next]_vars

-----------------------------------------------------------------------------
(* A normal stays with its vertex, whatever the order of the cells, and    *)
(* the soup of the finished loops is one that fromTriangleSoup accepts.    *)
NormalsPaired ==
    /\ \A n \in DOMAIN mNormals : n \in DOMAIN mVertices /\ mNormals[n] = mVertices[n]
    /\ inside = {} => Len(mNormals) = Len(mVertices)

(* What the corner of a mesh is: the vertex its index names. *)
At(b, n) == b.vertices[b.indices[n] + 1]

(* However far fromTriangleSoup has come, each index names a vertex equal  *)
(* to the soup's, with its normal, and no vertex is there twice; and what  *)
(* is drawn in the end is the soup, corner by corner.                      *)
MeshResolves ==
    /\ \A n \in DOMAIN mMesh.indices :
          /\ mMesh.indices[n] < Len(mMesh.vertices)
          /\ At(mMesh, n) = mVertices[n]
          /\ mMesh.normals[mMesh.indices[n] + 1] = mNormals[n]
    /\ \A m, n \in DOMAIN mMesh.vertices : mMesh.vertices[m] = mMesh.vertices[n] => m = n
    /\ stage = "done" => Len(mMesh.indices) = Len(mVertices)
    /\ stage = "drawn" =>
          \A n \in DOMAIN mVertices : mMCData[mMesh.indices[n] + 1] = << mVertices[n], mNormals[n] >>

(* The surface lies inside the grid, as it does inside the box of its tree.*)
Enclosed(s) == \A p \in s.above : \A k \in 1 .. 3 : 0 < p[k] /\ p[k] + 1 < s.res

(* The directed sides of the triangles, each from a corner to the one      *)
(* after it, and whether each is run the other way exactly once.           *)
After(n) == IF n % 3 = 0 THEN n - 2 ELSE n + 1
Closed(corners) ==
    \A n \in DOMAIN corners :
        LET other == { m \in DOMAIN corners :
                         corners[m] = corners[After(n)] /\ corners[After(m)] = corners[n] }
        IN  \E m \in other : other = {m}

EdgeAt(b, n) == { At(b, n)[1], At(b, n)[2] }

(* The finished mesh is a closed surface, though every cell is a task of   *)
(* its own and the last of each line see clamped corners; and it is closed *)
(* by its indices where rounding keeps the points of an edge together.     *)
Watertight ==
    stage = "done" /\ Enclosed(scene) =>
        /\ Closed([ n \in DOMAIN mMesh.indices |-> EdgeAt(mMesh, n) ])
        /\ ~rounds => Closed(mMesh.indices)

(* The triangles are wound about the normals stored with them: seen from   *)
(* the outside, where the field falls, all turn the same way.              *)
Mid(v)     == Plus(v[1], v[2])
Outward(v) == IF v[1] \in mGrid THEN Sub(v[1], v[2]) ELSE Sub(v[2], v[1])
WoundOutward ==
    stage = "done" /\ Enclosed(scene) =>
        \A t \in 1 .. Len(mVertices) \div 3 :
            LET v(k) == mVertices[3 * (t - 1) + k]
            IN  Turn(Mid(v(1)), Mid(v(2)), Mid(v(3)),
                     Plus(Outward(v(1)), Plus(Outward(v(2)), Outward(v(3))))) > 0

(* A mesh that is saved and loaded draws the same triangles, whatever      *)
(* vertices coincide in print, and is the same mesh where none do.         *)
ReloadKeepsMesh ==
    stage = "loaded" =>
        /\ Len(loaded.indices) = Len(mMesh.indices)
        /\ \A n \in DOMAIN mMesh.indices : EdgeAt(loaded, n) = EdgeAt(mMesh, n)
        /\ Len(loaded.vertices) = Len(mMesh.vertices) => loaded.indices = mMesh.indices

-----------------------------------------------------------------------------
(* The triangles the tables have for cell c of a scene.                    *)
CaseIn(s, c) ==
    voxelIndex({ i \in CornerIndex : CornerOf(s.res, c, i) \notin s.above })
Patch(s, c) ==
    LET tris == TrianglesOf(CaseIn(s, c))
        edge(e) == { CornerOf(s.res, c, EdgeEnds[e + 1][i]) : i \in 1 .. 2 }
    IN  { << edge(t[1]), edge(t[2]), edge(t[3]) >> : t \in Range(tris) }

(* Whatever the order the lock is given in, the finished soup has the      *)
(* triangles of every cell and none mixed of two cells, and each once if   *)
(* the surface is inside the grid.                                         *)
SoupEdge(n) == { mVertices[n][1], mVertices[n][2] }
Drawn == [ n \in 1 .. Len(mVertices) \div 3 |->
             << SoupEdge(3 * n - 2), SoupEdge(3 * n - 1), SoupEdge(3 * n) >> ]
SoupComplete ==
    stage = "mesh" /\ mMesh = EmptySoup =>
        /\ Len(mVertices) % 3 = 0
        /\ Range(Drawn) = UNION { Patch(scene, c) : c \in AllPoints(mResolution) }
        /\ Enclosed(scene) => IsInjective(Drawn)
=============================================================================
