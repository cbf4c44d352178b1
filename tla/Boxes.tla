-------------------------------- MODULE Boxes ---------------------------------
(***************************************************************************)
(* BBox along one line, and the points and cells a grid of n steps over a  *)
(* box has.                                                                *)
(***************************************************************************)
EXTENDS Integers

join(b, c) == [ pMin |-> IF b.pMin < c.pMin THEN b.pMin ELSE c.pMin,
                pMax |-> IF b.pMax > c.pMax THEN b.pMax ELSE c.pMax ]

(* A fault: only a box that covers the cell's upper end overlaps it. *)
overlapsAbove(b, c) == b.pMax >= c.pMax /\ b.pMin <= c.pMax

overlaps(b, c) == b.pMax >= c.pMin /\ b.pMin <= c.pMax
expand(b, delta) == [ pMin |-> b.pMin - delta, pMax |-> b.pMax + delta ]

Extent(b) == b.pMax - b.pMin

(* createCellPoint, of a grid point or of an end of a cell: x of n equal   *)
(* steps from the near end of the box, cut to the unit of length.          *)
PointOf(b, n, x) == b.pMin + (x * Extent(b)) \div n
CellOf(b, n, c)  == [ pMin |-> PointOf(b, n, c), pMax |-> PointOf(b, n, c + 1) ]
=============================================================================
