----------------------------- MODULE MCApplication ------------------------------
(* Two buttons, and places of the pointer that are alike. *)
EXTENDS Application, TLC

MCButton == {"left", "right"}
PlaceSymmetry == Permutations(Place)
================================================================================
