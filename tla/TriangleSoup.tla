---------------------------- MODULE TriangleSoup -----------------------------
(***************************************************************************)
(* What mesh assembly promises of the geometry it draws, whatever vertices *)
(* it shares: the triangles of every patch, each exactly once, and the     *)
(* triangles of one patch in order.                                        *)
(***************************************************************************)
EXTENDS Naturals, Sequences

CONSTANTS Scene,             \* the surfaces that can be drawn
          Patches(_)         \* the patches of a scene, sequences of triangles

VARIABLES scene,             \* the surface drawn
          drawn,             \* how many triangles of each patch are drawn
          soup               \* the triangles drawn, in order

vars == <<scene, drawn, soup>>

Init ==
    /\ scene \in Scene
    /\ drawn = [p \in DOMAIN Patches(scene) |-> 0]
    /\ soup = << >>

Draw(p) ==
    /\ drawn[p] < Len(Patches(scene)[p])
    /\ drawn' = [drawn EXCEPT ![p] = @ + 1]
    /\ soup' = Append(soup, Patches(scene)[p][drawn[p] + 1])
    /\ UNCHANGED scene

Next == \E p \in DOMAIN Patches(scene) : Draw(p)

Spec == Init /\ [][Next]_vars
=============================================================================
