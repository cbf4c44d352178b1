-------------------------------- MODULE Mesh ---------------------------------
(***************************************************************************)
(* The indexed mesh of atlas, made from a triangle soup one corner at a    *)
(* time, and the file it is saved to and loaded from.                      *)
(*                                                                         *)
(* Both polygonizers give normals and no texture coordinates, so the       *)
(* latter are left out, in memory and in the file.  Corners that share a   *)
(* mesh vertex have the same normal, as it is part of what is looked up,   *)
(* so the running average the code then takes of a vertex's normals is     *)
(* that normal.                                                            *)
(***************************************************************************)
EXTENDS Integers, Sequences, SequencesExt

(* A mesh under construction, with the number each of its vertices has.    *)
EmptySoup == [ vertices |-> << >>, normals |-> << >>, indices |-> << >>,
               uniqueVertices |-> [k \in {} |-> 0] ]

(* The first check of fromTriangleSoup, which returns false on a mismatch. *)
Fits(vertices, normals) == normals = << >> \/ Len(vertices) = Len(normals)

Seen(b, v, n) == << v, n >> \in DOMAIN b.uniqueVertices

(* A fault: a new vertex is not entered among those seen. *)
AddCornerForgetful(b, v, n) ==
    [ b EXCEPT !.vertices = Append(@, v), !.normals = Append(@, n),
               !.indices = Append(@, Len(b.vertices)) ]

(* One corner of the soup: vertex v with normal n. *)
AddCorner(b, v, n) ==
    IF Seen(b, v, n)
    THEN [ b EXCEPT !.indices = Append(@, b.uniqueVertices[<< v, n >>]) ]
    ELSE [ vertices |-> Append(b.vertices, v),
           normals  |-> Append(b.normals, n),
           indices  |-> Append(b.indices, Len(b.vertices)),
           uniqueVertices |->
               [ k \in DOMAIN b.uniqueVertices \cup {<< v, n >>} |->
                   IF k = << v, n >> THEN Len(b.vertices) ELSE b.uniqueVertices[k] ] ]

-----------------------------------------------------------------------------
(* The .obj file: lines v and vn, and the corners of the lines f, which    *)
(* count from one.  Numbers are written with six digits: printV and printN *)
(* give the points and normals that are read back.                         *)
saveToFileShort(b, printV, printN) ==   \* a fault: a face too few
    [ v  |-> [ i \in DOMAIN b.vertices |-> printV[b.vertices[i]] ],
      vn |-> [ i \in DOMAIN b.normals |-> printN[b.normals[i]] ],
      f  |-> [ i \in 1 .. Len(b.indices) - 3 |-> b.indices[i] + 1 ] ]

saveToFile(b, printV, printN) ==
    [ v  |-> [ i \in DOMAIN b.vertices |-> printV[b.vertices[i]] ],
      vn |-> [ i \in DOMAIN b.normals |-> printN[b.normals[i]] ],
      f  |-> [ i \in DOMAIN b.indices |-> b.indices[i] + 1 ] ]

(* The next corner of the faces becomes a soup vertex of its own. *)
fromFile(b, file) ==
    LET i == file.f[Len(b.indices) + 1]
    IN  AddCorner(b, file.v[i], file.vn[i])
=============================================================================
