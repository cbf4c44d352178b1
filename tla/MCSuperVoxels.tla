---------------------------- MODULE MCSuperVoxels -----------------------------
(***************************************************************************)
(* The models of Models.hpp, some at resolutions that divide their boxes   *)
(* and some at ones that do not, with the borders of super-voxels on grid  *)
(* points and between them.                                                *)
(***************************************************************************)
EXTENDS SuperVoxels

Job(m, r, s) == [ made |-> m, res |-> r, svRes |-> s ]

(* Places 2.0, 4.0 and nothing apart, where 1.0 has four units. *)
MCModels ==
    [ sphere       |-> Job(makeSphere, 6, 3),
      torus        |-> Job(makeTorus, 10, 4),
      blend        |-> Job(makeBlend, 8, 3),
      intersection |-> Job(makeIntersection, 10, 4),
      union        |-> Job(makeUnion, 9, 6),
      transform    |-> Job(makeTransform, 9, 3),
      butterfly0   |-> Job(makeButterfly(0), 12, 7),
      butterfly1   |-> Job(makeButterfly(DefaultIso \div 4), 16, 4),
      butterfly2   |-> Job(makeButterfly(One), 16, 4),
      particles8   |-> Job(makeParticles(<< 0, 8 >>), 12, 8),
      particles16  |-> Job(makeParticles(<< 8, -8, 8 >>), 9, 6),
      chain        |-> Job(makeChain(3), 8, 4) ]
=============================================================================
