--------------------------- MODULE MCSurfaceMarch ----------------------------
(***************************************************************************)
(* Instances of SurfaceMarch for TLC: fields whose signs and gradients     *)
(* come from a few balls, planes and single points.                        *)
(***************************************************************************)
EXTENDS SurfaceMarch, FiniteSets

Sgn(n) == IF n > 0 THEN 1 ELSE IF n = 0 THEN 0 ELSE -1
Sq(n)  == n * n

(* Lengths are in half cells, as createCellPoint places voxel centres.     *)
Double(p) == Plus(p, p)
Centre(v) == Plus(Double(v), <<1, 1, 1>>)

(* The field of a ball: r - |q - c|^2. *)
Ball(b, q) == b.r - Sq(q[1] - b.c[1]) - Sq(q[2] - b.c[2]) - Sq(q[3] - b.c[3])

(* The union of two balls takes its value and gradient from the higher.    *)
Higher(b1, b2, q) == IF Ball(b1, q) >= Ball(b2, q) THEN b1 ELSE b2

(* Below reach the compact filter is flat: no gradient.                    *)
UnionJob(b1, b2, reach, seeds) ==
    LET value(q) == Ball(Higher(b1, b2, q), q)
        slope(q, k) == Sgn(Higher(b1, b2, q).c[k] - q[k])
    IN  [ sign  |-> [p \in PointId |-> Sgn(value(Double(p)))],
          have  |-> PointId,
          grad  |-> [v \in Cell |->
                       LET q == Centre(v) IN
                       IF value(q) < reach THEN <<0, 0, 0>>
                       ELSE << slope(q, 1), slope(q, 2), slope(q, 3) >>],
          above |-> { v \in Cell : value(Centre(v)) > 0 },
          seeds |-> seeds ]

BallJob(c, r, reach, seeds) ==
    LET b == [c |-> c, r |-> r] IN UnionJob(b, b, reach, seeds)

(* The points beyond height z have no super-voxel. *)
Cut(j, z) == [j EXCEPT !.have = { p \in PointId : p[3] <= z }]

MCJobs ==
    << \* one grid point inside: eight voxels, found from two seeds
       BallJob(<<2, 2, 2>>, 2, -99, << <<0, 0, 0>>, <<1, 1, 1>> >>),
       \* a corner of the grid: one walk meets it, one leaves the grid
       BallJob(<<0, 0, 0>>, 2, -99, << <<2, 2, 2>>, <<0, 2, 1>> >>),
       \* two components, one seed each, and a grid point on the surface
       UnionJob([c |-> <<0, 0, 0>>, r |-> 2], [c |-> <<6, 4, 6>>, r |-> 0], -99,
                << <<0, 0, 0>>, <<2, 2, 2>> >>),
       \* inside everywhere near the seed: the walk goes down to the surface
       BallJob(<<0, 0, 0>>, 13, -99, << <<0, 0, 0>> >>),
       \* outside near one seed, inside near the other, the surface between
       BallJob(<<8, 8, 8>>, 50, -99, << <<0, 0, 0>>, <<2, 2, 2>> >>),
       \* a seed one past the upper face of the grid, on the surface
       BallJob(<<7, 0, 0>>, 2, -99, << <<3, 0, 0>> >>),
       \* no gradient at the seed: its walk never moves
       BallJob(<<0, 0, 0>>, 2, -12, << <<2, 2, 2>>, <<0, 0, 0>> >>),
       \* no surface at all: the walk goes to and fro below the iso value
       BallJob(<<4, 3, 3>>, -2, -99, << <<1, 1, 1>> >>),
       \* super-voxels missing at the seed, on a walk and at a neighbour
       Cut(BallJob(<<0, 0, 6>>, 2, -99, << <<0, 0, 2>>, <<1, 1, 0>> >>), 2),
       Cut(BallJob(<<0, 0, 4>>, 2, -99, << <<0, 0, 1>> >>), 2),
       \* no seeds
       BallJob(<<0, 0, 0>>, 2, -99, << >>) >>
=============================================================================
