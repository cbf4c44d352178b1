----------------------------- MODULE Polygonizer ------------------------------
(***************************************************************************)
(* Bsoid::polygonize: the march fills mVoxels, and when it has returned    *)
(* the mesh is made of what it recorded.  The march is that of             *)
(* SurfaceMarch, step by step.  makeTriangles is one step that leaves what *)
(* TriangleSoup promises and MeshAssembly implements: the triangles of     *)
(* every entry of mVoxels, each once, whatever the order of the tasks.     *)
(*                                                                         *)
(* The march compares signs, of which there are three, along the edges of  *)
(* EdgeDecals; makeTriangles tells points below the iso value from others, *)
(* along the true edges.                                                   *)
(***************************************************************************)
EXTENDS SurfaceMarch, PatchFacts

VARIABLES
    stage,       \* "voxels" or "mesh"
    mMesh        \* the triangles drawn, by voxel, its copy and its row

allVars == <<vars, stage, mMesh>>

-----------------------------------------------------------------------------
Below(p) == Jobs[job].sign[p] < 0
TrianglesIn(v) == TrianglesOf(voxelIndex({ c \in CornerIndex : Below(Corner(v, c)) }))

(* The grid edges a triangle's corners lie on. *)
EdgeIn(v, e) == { Corner(v, EdgeEnds[e + 1][i]) : i \in 1 .. 2 }

(* A fault: the corners of a triangle are pushed in the opposite order. *)
TriangleTurned(v, n) == [ k \in 1 .. 3 |-> EdgeIn(v, TrianglesIn(v)[n][4 - k]) ]

TriangleIn(v, n) == [ k \in 1 .. 3 |-> EdgeIn(v, TrianglesIn(v)[n][k]) ]
Entries == UNION { { << v, k, n >> : k \in 1 .. mVoxels[v], n \in DOMAIN TrianglesIn(v) } :
                   v \in DOMAIN mVoxels }

InitPolygonizer == Init /\ stage = "voxels" /\ mMesh = [e \in {} |-> << >>]

makeVoxels ==
    /\ stage = "voxels" /\ phase \notin {"done", "threw"}
    /\ Next
    /\ UNCHANGED <<stage, mMesh>>

(* An exception of the march leaves polygonize: no mesh is made then. *)
constructMesh ==
    /\ stage = "voxels" /\ phase = "done"
    /\ stage' = "mesh"
    /\ mMesh' = [ t \in Entries |-> TriangleIn(t[1], t[3]) ]
    /\ UNCHANGED vars

Returned == (stage = "mesh" \/ phase = "threw") /\ UNCHANGED allVars

polygonize == makeVoxels \/ constructMesh \/ Returned

SpecPolygonizer == InitPolygonizer /\ [][polygonize]_allVars

-----------------------------------------------------------------------------
(* The directed sides of the triangles, each at its place in the mesh.     *)
Side(t, k) == << mMesh[t][k], mMesh[t][(k % 3) + 1] >>
Sides == { << t, k >> : t \in DOMAIN mMesh, k \in 1 .. 3 }

(* A side inside the grid: not along its border, nor past it. *)
Inside(side) ==
    LET ends == side[1] \cup side[2] IN
    /\ \A p \in ends, k \in 1 .. 3 : p[k] <= GridSize
    /\ \A k \in 1 .. 3, b \in {0, GridSize} : \E p \in ends : p[k] # b

(* The mesh made of what the march recorded has no hole and no triangle    *)
(* twice: inside the grid every side is run the other way by exactly one   *)
(* triangle.  The march must have found, from the seeds and with the signs *)
(* and edges it compares, every voxel that the tables continue the         *)
(* surface in.                                                             *)
MeshWhole ==
    stage = "mesh" =>
        \A s \in Sides :
            LET side  == Side(s[1], s[2])
                other == { r \in Sides : Side(r[1], r[2]) = << side[2], side[1] >> }
            IN  Inside(side) => \E r \in other : other = {r}

(* All triangles are wound the same way: against the normals, which point  *)
(* to where the field falls.  (The other polygonizer, which numbers the    *)
(* corners differently, winds them the other way.)                         *)
Low(edge)   == CHOOSE p \in edge : Below(p)
High(edge)  == CHOOSE p \in edge : ~Below(p)
Mid(edge)   == Plus(Low(edge), High(edge))
Normal(edge) == Sub(Low(edge), High(edge))
WoundInward ==
    stage = "mesh" =>
        \A t \in DOMAIN mMesh :
            LET m == mMesh[t]
            IN  Turn(Mid(m[1]), Mid(m[2]), Mid(m[3]),
                     Plus(Normal(m[1]), Plus(Normal(m[2]), Normal(m[3])))) < 0

(* The inductive invariant, beside that of the march: the mesh is made of  *)
(* the finished march.                                                     *)
MeshInv ==
    stage = "mesh" => phase = "done" /\ mMesh = [ t \in Entries |-> TriangleIn(t[1], t[3]) ]
=============================================================================
