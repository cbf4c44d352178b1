---------------------------- MODULE MCPolygonizer -----------------------------
(***************************************************************************)
(* Instances of Polygonizer for TLC: fields that are below the iso value   *)
(* but for a few points at it or above, with one seed on the surface.      *)
(***************************************************************************)
EXTENDS Polygonizer

(* The points of high are above the iso value, those of on at it. *)
MCJob(high, on, seed) ==
    [ sign  |-> [p \in PointId |-> IF p \in high THEN 1 ELSE IF p \in on THEN 0 ELSE -1],
      have  |-> PointId, grad |-> [v \in Cell |-> <<0, 0, 0>>], above |-> {},
      seeds |-> << seed >> ]

A == <<1, 1, 1>>
Above(high) == MCJob(high, {}, <<0, 0, 0>>)
MCJobs ==
    << \* one point, and one at the iso value beside it
       Above({A}), MCJob({A}, {<<2, 1, 1>>}, <<0, 0, 0>>),
       \* two or three points across a face or a voxel, where a voxel's
       \* triangles may be in several pieces
       Above({A, <<2, 2, 1>>}), Above({A, <<2, 2, 2>>}),
       Above({A, <<2, 1, 1>>, <<2, 2, 2>>}), Above({A, <<2, 2, 1>>, <<1, 2, 2>>}),
       MCJob({A, <<2, 1, 2>>}, {<<2, 1, 1>>}, <<0, 0, 0>>),
       \* a point at the iso value alone, and beside one above it
       MCJob({}, {A}, <<1, 1, 1>>), MCJob({<<2, 2, 1>>}, {A}, <<1, 1, 0>>),
       \* a part of the surface that has no seed
       Above({A, <<3, 3, 3>>}),
       \* surfaces that the border cuts, one with its seed past the grid
       MCJob({<<0, 1, 1>>, <<0, 2, 2>>}, {}, <<0, 1, 1>>), MCJob({<<3, 1, 1>>}, {}, <<3, 1, 1>>) >>
=============================================================================
