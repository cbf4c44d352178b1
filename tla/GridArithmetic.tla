---------------------------- MODULE GridArithmetic ----------------------------
(***************************************************************************)
(* The arithmetic that maps voxels to super-voxels and ids to hash keys,   *)
(* for coordinates of the grid: a hash key of coordinates below 2^bits is  *)
(* the number with those digits.  (The mask of BsoidHash is ~(0 << bits),  *)
(* which has every bit set: it masks nothing, and ids are apart only while *)
(* their coordinates are below 2^bits.)                                    *)
(***************************************************************************)
EXTENDS Integers

CONSTANT HashBase   \* 2^bits, with bits = 64 / 3 = 21 in the code

ASSUME HashBaseAssumption == HashBase \in Nat \ {0}

hash(x, y, z) == ((x * HashBase) + y) * HashBase + z

(* A fault: the coordinate at the far end of the grid is not pulled back.  *)
superVoxelUnclamped(id, res, svRes, down) == ((id * svRes) \div res) - down

(* The super-voxel findVoxelPoint looks grid coordinate id up in, for      *)
(* mGridSize = res and mSvSize = svRes.  Where the division is exact the   *)
(* quotient of floats may come out just below it: down is 1 then.          *)
superVoxel(id, res, svRes, down) ==
    LET v == ((id * svRes) \div res) - down
    IN  IF v < svRes THEN v ELSE v - 1

(* The coordinates at which the quotient may be rounded down. *)
OnCellBorder(id, res, svRes) == id > 0 /\ (id * svRes) % res = 0
=============================================================================
