------------------------------ MODULE FloodFill ------------------------------
(***************************************************************************)
(* What the surface march promises, without queues, threads or tables:     *)
(* starting from some cells on the surface, every cell found is on the     *)
(* surface and next to one found before (or is a start), and when the      *)
(* search ends no link leads from a found cell to one that is missing.     *)
(***************************************************************************)
CONSTANTS Scene,             \* what may be searched
          Cell,              \* the cells that can be found
          Near(_, _),        \* two cells touch
          Surface(_, _),     \* the surface of a scene passes through a cell
          Linked(_, _, _)    \* the surface of a scene joins two touching cells

VARIABLES scene,             \* the scene searched
          starts,            \* the cells the search starts from
          found,             \* the cells found so far
          finished           \* the search has ended

vars == <<scene, starts, found, finished>>

Init ==
    /\ scene \in Scene
    /\ starts = {}
    /\ found = {}
    /\ finished = FALSE

Start(c) ==
    /\ ~finished
    /\ found = {}
    /\ starts' = starts \cup {c}
    /\ Surface(scene, c)
    /\ UNCHANGED <<scene, found, finished>>

Find(c) ==
    /\ ~finished
    /\ c \notin found
    /\ found' = found \cup {c}
    /\ Surface(scene, c)
    /\ c \in starts \/ \E f \in found : Near(f, c)
    /\ UNCHANGED <<scene, starts, finished>>

Finish ==
    /\ ~finished
    /\ finished' = TRUE
    /\ starts \subseteq found
    /\ \A f \in found, c \in Cell : Linked(scene, f, c) => c \in found
    /\ UNCHANGED <<scene, starts, found>>

Next == (\E c \in Cell : Start(c) \/ Find(c)) \/ Finish

Spec == Init /\ [][Next]_vars
=============================================================================
