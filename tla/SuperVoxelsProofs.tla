-------------------------- MODULE SuperVoxelsProofs ---------------------------
(***************************************************************************)
(* What GridArithmetic promises for grids of any size, what pruning a tree *)
(* to a cell keeps of its field, for any tree VolumeTree describes, and    *)
(* what makeVoxels and findVoxelPoint make of both, for any number of      *)
(* tasks.                                                                  *)
(***************************************************************************)
EXTENDS SuperVoxels, NaturalsInduction, WellFoundedInduction, TLAPS

(* The quotient of a division is the one number between. *)
LEMMA Quotient ==
    ASSUME NEW n \in Nat, NEW d \in Nat, d > 0
    PROVE  /\ n \div d \in Nat
           /\ d * (n \div d) <= n
           /\ n < d * (n \div d) + d
  BY Z3

(* A product grows with its factor. *)
LEMMA Monotone ==
    ASSUME NEW a \in Int, NEW b \in Int, NEW d \in Nat, a <= b
    PROVE  d * a <= d * b
  BY Z3

(* The remainder is what the quotient leaves. *)
LEMMA Remainder ==
    ASSUME NEW n \in Nat, NEW d \in Nat, d > 0, n % d = 0
    PROVE  n = d * (n \div d)
  BY Z3

(* A number has one last digit. *)
LEMMA LastDigit ==
    ASSUME NEW q \in Nat, NEW r \in Nat, NEW p \in Nat, NEW s \in Nat, NEW b \in Nat,
           r < b, s < b, q * b + r = p * b + s
    PROVE  q = p /\ r = s
  <1>1. ~(q < p)
    <2>1. SUFFICES ASSUME q + 1 <= p PROVE FALSE
      BY Z3
    <2>2. b * (q + 1) <= b * p
      BY <2>1, Monotone, Z3
    <2>3. b * (q + 1) = q * b + b /\ b * p = p * b
      BY Z3
    <2>4. q * b \in Nat /\ p * b \in Nat
      BY Z3
    <2> QED
      BY <2>2, <2>3, <2>4, Z3
  <1>2. ~(p < q)
    <2>1. SUFFICES ASSUME p + 1 <= q PROVE FALSE
      BY Z3
    <2>2. b * (p + 1) <= b * q
      BY <2>1, Monotone, Z3
    <2>3. b * (p + 1) = p * b + b /\ b * q = q * b
      BY Z3
    <2>4. q * b \in Nat /\ p * b \in Nat
      BY Z3
    <2> QED
      BY <2>2, <2>3, <2>4, Z3
  <1>3. q = p
    BY <1>1, <1>2, Z3
  <1> QED
    BY <1>3, Z3

(* findVoxelPoint looks every coordinate of the grid up in a super-voxel   *)
(* of the grid, the far end included, however an exact quotient is rounded.*)
THEOREM SuperVoxelInGrid ==
    ASSUME NEW res \in Nat \ {0}, NEW svRes \in Nat \ {0}, NEW id \in 0 .. res,
           NEW low \in {0, 1}, low = 1 => OnCellBorder(id, res, svRes)
    PROVE  superVoxel(id, res, svRes, low) \in 0 .. svRes - 1
  <1> DEFINE n == id * svRes
             v == n \div res
  <1>1. n \in Nat /\ n <= res * svRes
    <2>1. svRes * id <= svRes * res
      BY Monotone
    <2> QED
      BY <2>1, Z3
  <1>2. v \in Nat /\ res * v <= n
    BY <1>1, Quotient
  <1> HIDE DEF v
  <1>3. v <= svRes
    <2>1. SUFFICES ASSUME svRes + 1 <= v PROVE FALSE
      BY <1>2, Z3
    <2>2. res * (svRes + 1) <= res * v
      BY <1>2, <2>1, Monotone, Z3
    <2>3. res * (svRes + 1) = res * svRes + res
      BY Z3
    <2> QED
      BY <1>1, <1>2, <2>2, <2>3, Z3
  <1>4. low <= v
    <2>1. CASE low = 1
      <3>1. id > 0 /\ n % res = 0
        BY <2>1 DEF OnCellBorder
      <3>2. n = res * v
        BY <1>1, <3>1, Remainder DEF v
      <3>3. n > 0
        BY <3>1, Z3
      <3> HIDE DEF n
      <3>4. v # 0
        BY <3>2, <3>3, Z3
      <3> QED
        BY <1>2, <2>1, <3>4, Z3
    <2>2. CASE low = 0
      BY <1>2, <2>2, Z3
    <2> QED
      BY <2>1, <2>2
  <1>5. superVoxel(id, res, svRes, low) = IF v - low < svRes THEN v - low ELSE v - low - 1
    BY DEF superVoxel, v
  <1> HIDE DEF n
  <1> QED
    BY <1>2, <1>3, <1>4, <1>5, Z3

(* Points whose coordinates are below 2^bits have hash keys of their own,  *)
(* though the mask that should have kept the coordinates apart is empty.   *)
THEOREM HashInjective ==
    ASSUME NEW x \in 0 .. HashBase - 1, NEW y \in 0 .. HashBase - 1, NEW z \in 0 .. HashBase - 1,
           NEW a \in 0 .. HashBase - 1, NEW b \in 0 .. HashBase - 1, NEW c \in 0 .. HashBase - 1,
           hash(x, y, z) = hash(a, b, c)
    PROVE  x = a /\ y = b /\ z = c
  <1> DEFINE p == x * HashBase + y
             q == a * HashBase + b
  <1>1. HashBase \in Nat /\ p \in Nat /\ q \in Nat
    BY HashBaseAssumption, Z3
  <1>2. p * HashBase + z = q * HashBase + c
    BY DEF hash
  <1> HIDE DEF p, q
  <1>3. p = q /\ z = c
    BY <1>1, <1>2, LastDigit, Z3
  <1>4. x = a /\ y = b
    BY <1>1, <1>3, LastDigit, Z3 DEF p, q
  <1> QED
    BY <1>3, <1>4

(* The quotient of any number is the one between.                         *)
LEMMA IntQuotient ==
    ASSUME NEW n \in Int, NEW d \in Nat, d > 0
    PROVE  /\ n \div d \in Int
           /\ d * (n \div d) <= n
           /\ n < d * (n \div d) + d
           /\ n % d = 0 => n = d * (n \div d)
  BY Z3

(* Quotients are in the order of what is divided.                          *)
LEMMA QuotientsInOrder ==
    ASSUME NEW a \in Int, NEW b \in Int, NEW n \in Nat, NEW k \in Nat, n > 0, k > 0,
           k * a <= n * b
    PROVE  a \div n \in Int /\ b \div k \in Int /\ a \div n <= b \div k
  <1> DEFINE p == a \div n
             q == b \div k
  <1>1. p \in Int /\ n * p <= a /\ q \in Int /\ b < k * q + k
    BY IntQuotient
  <1> HIDE DEF p, q
  <1>2. p <= q
    <2> SUFFICES ASSUME q + 1 <= p PROVE FALSE
      BY <1>1
    <2>1. n * (q + 1) <= n * p /\ n * p \in Int /\ n * (q + 1) \in Int
      BY <1>1, Monotone, Z3
    <2>2. k * (n * (q + 1)) <= k * a
      BY <1>1, <2>1, Monotone
    <2>3. n * (b + 1) <= n * (k * q + k)
      <3>1. k * q + k \in Int
        BY <1>1, Z3
      <3> QED
        BY <1>1, <3>1, Monotone
    <2>4. k * (n * (q + 1)) = n * (k * q + k) /\ n * (b + 1) = n * b + n
      BY <1>1, Z3
    <2>5. k * a \in Int /\ n * b \in Int /\ n * (k * q + k) \in Int
      BY <1>1, Z3
    <2> QED
      BY <2>2, <2>3, <2>4, <2>5
  <1> QED
    BY <1>1, <1>2 DEF p, q

-----------------------------------------------------------------------------
(* Loops.                                                                  *)
(* Induction over the numbers, for a set of them.                          *)
LEMMA SetInduction ==
    ASSUME NEW S, 0 \in S, \A n \in Nat : n \in S => n + 1 \in S
    PROVE  Nat \subseteq S
  <1> DEFINE T == Nat \ S
             R == OpToRel(<, Nat)
  <1>1. SUFFICES ASSUME T # {} PROVE FALSE
    OBVIOUS
  <1>2. IsWellFoundedOn(R, Nat)
    BY NatLessThanWellFounded
  <1>3. PICK x \in T : \A y \in T : ~ (<< y, x >> \in R)
    <2> HIDE DEF T, R
    <2>1. T \subseteq Nat
      BY DEF T
    <2> QED
      BY <1>1, <1>2, <2>1, WFMin
  <1>4. x \in Nat /\ x # 0 /\ x - 1 \in Nat /\ x - 1 \in T
    OBVIOUS
  <1>5. << x - 1, x >> \in R
    BY <1>4 DEF OpToRel
  <1> QED
    BY <1>3, <1>4, <1>5

Acc(op, start, vals, acc) ==
    acc = [ i \in 0 .. Len(vals) |-> IF i = 0 THEN start ELSE Taken(op, acc[i - 1], vals[i]) ]

(* A loop makes a function *)
LEMMA LoopExists ==
    ASSUME NEW op, NEW start, NEW vals, Len(vals) \in Nat
    PROVE  \E acc : Acc(op, start, vals, acc)
  <1> DEFINE val(f, i) == IF i = 0 THEN start ELSE Taken(op, f[i - 1], vals[i])
             S == { n \in Nat : \E acc : acc = [ i \in 0 .. n |-> val(acc, i) ] }
  <1>1. 0 \in S
    <2> DEFINE acc == [ i \in {0} |-> start ]
    <2>1. acc = [ i \in 0 .. 0 |-> val(acc, i) ]
      <3>1. 0 .. 0 = {0}
        OBVIOUS
      <3> QED
        BY <3>1
    <2> QED
      BY <2>1
  <1>2. ASSUME NEW n \in Nat, n \in S PROVE n + 1 \in S
    <2>1. PICK acc : acc = [ i \in 0 .. n |-> val(acc, i) ]
      BY <1>2
    <2> DEFINE new == [ i \in 0 .. n + 1 |-> IF i = n + 1 THEN val(acc, i) ELSE acc[i] ]
    <2>2. ASSUME NEW i \in 0 .. n + 1 PROVE new[i] = val(new, i)
      <3>1. CASE i = 0
        BY <2>1, <3>1
      <3>2. CASE i # 0
        <4>1. i - 1 \in 0 .. n /\ i - 1 \in 0 .. n + 1 /\ i - 1 # n + 1
          BY <3>2
        <4>2. new[i - 1] = acc[i - 1]
          BY <4>1
        <4>3. i # n + 1 => i \in 0 .. n /\ acc[i] = val(acc, i)
          BY <2>1
        <4> QED
          BY <3>2, <4>2, <4>3
      <3> QED
        BY <3>1, <3>2
    <2>3. new = [ i \in 0 .. n + 1 |-> val(new, i) ]
      BY <2>2
    <2>4. \E f : f = [ i \in 0 .. n + 1 |-> val(f, i) ]
      <3> HIDE DEF new
      <3> QED
       BY <2>3
    <2> QED
      BY <2>4
  <1>3. Nat \subseteq S
    <2> HIDE DEF S
    <2> QED
      BY <1>1, <1>2, SetInduction
  <1> QED
    BY <1>3 DEF Acc

(* What acc holds before and after each turn of a loop. *)
Turns(op, start, n, vals, acc) ==
    /\ Loop(op, start, vals) = acc[n]
    /\ acc[0] = start
    /\ \A i \in 1 .. n : acc[i] = Taken(op, acc[i - 1], vals[i])

(* A loop turns once for each value.                                      *)
LEMMA LoopSteps ==
    ASSUME NEW op, NEW start, NEW n \in Nat, NEW vals, Len(vals) = n
    PROVE  \E acc : Turns(op, start, n, vals, acc)
  <1> DEFINE acc == CHOOSE f : Acc(op, start, vals, f)
  <1>1. Acc(op, start, vals, acc)
    BY LoopExists, Zenon
  <1>2. Loop(op, start, vals) = acc[Len(vals)]
    BY Zenon DEF Loop, Acc
  <1> HIDE DEF acc
  <1>3. acc[0] = start /\ \A i \in 1 .. n : acc[i] = Taken(op, acc[i - 1], vals[i])
    BY <1>1 DEF Acc
  <1> QED
    BY <1>2, <1>3 DEF Turns

Ends(b) == b.pMin \in Int /\ b.pMax \in Int
Within(b, c) == c.pMin <= b.pMin /\ b.pMax <= c.pMax

(* A box within a box within a third is within it.                        *)
LEMMA WithinTrans ==
    ASSUME NEW a, NEW b, NEW c, Ends(a), Ends(b), Ends(c), Within(a, b), Within(b, c)
    PROVE  Within(a, c)
  BY DEF Ends, Within

(* Two boxes joined contain both.                                         *)
LEMMA JoinOfTwo ==
    ASSUME NEW b, NEW c, Ends(b), Ends(c)
    PROVE  Ends(join(b, c)) /\ Within(b, join(b, c)) /\ Within(c, join(b, c))
  BY DEF Ends, Within, join

(* A joined box contains what was joined to it. *)
LEMMA JoinContains ==
    ASSUME NEW b, Ends(b), NEW n \in Nat, NEW vals, Len(vals) = n, \A j \in 1 .. n : Ends(vals[j])
    PROVE  LET c == Loop("join", b, vals)
           IN  Ends(c) /\ Within(b, c) /\ \A j \in 1 .. n : Within(vals[j], c)
  <1>1. PICK acc : Turns("join", b, n, vals, acc)
    BY LoopSteps, Zenon
  <1>2. \A i \in 1 .. n : acc[i] = join(acc[i - 1], vals[i])
    BY <1>1 DEF Turns, Taken
  <1> DEFINE holds(i) == /\ Ends(acc[i]) /\ Within(b, acc[i])
                         /\ \A j \in 1 .. i : Within(vals[j], acc[i])
             S == { i \in Nat : i <= n => holds(i) }
  <1>3. 0 \in S
    BY <1>1 DEF Turns, Ends, Within
  <1>4. ASSUME NEW i \in Nat, i \in S PROVE i + 1 \in S
    <2> SUFFICES ASSUME i + 1 <= n PROVE holds(i + 1)
      OBVIOUS
    <2>1. i + 1 \in 1 .. n /\ acc[i + 1] = join(acc[i], vals[i + 1])
      BY <1>2
    <2>2. holds(i) /\ Ends(vals[i + 1])
      BY <1>4, <2>1
    <2>3. Ends(acc[i + 1]) /\ Within(acc[i], acc[i + 1]) /\ Within(vals[i + 1], acc[i + 1])
      BY <2>1, <2>2, JoinOfTwo
    <2>4. Within(b, acc[i + 1])
      BY <2>2, <2>3, WithinTrans
    <2>5. ASSUME NEW j \in 1 .. i + 1 PROVE Within(vals[j], acc[i + 1])
      <3>1. CASE j = i + 1
        BY <2>3, <3>1
      <3>2. CASE j # i + 1
        <4>1. j \in 1 .. i /\ j \in 1 .. n /\ Ends(vals[j])
          BY <3>2
        <4>2. Within(vals[j], acc[i])
          BY <2>2, <4>1
        <4> QED
          BY <2>2, <2>3, <4>1, <4>2, WithinTrans
      <3> QED
        BY <3>1, <3>2
    <2> QED
      BY <2>3, <2>4, <2>5
  <1>5. n \in S
    <2> HIDE DEF S
    <2> QED
      BY <1>3, <1>4, SetInduction
  <1> QED
    BY <1>1, <1>5 DEF Turns

(* The greatest of some numbers reaches what one of them does, and the     *)
(* least what all do.                                                      *)
LEMMA MaxReaches ==
    ASSUME NEW start \in Int, NEW n \in Nat, NEW vals, Len(vals) = n,
           \A j \in 1 .. n : vals[j] \in Int
    PROVE  /\ Loop("max", start, vals) \in Int
           /\ \A c \in Int : (Loop("max", start, vals) >= c)
                 <=> (start >= c \/ (\E j \in 1 .. n : vals[j] >= c))
  <1>1. PICK acc : Turns("max", start, n, vals, acc)
    BY LoopSteps, Zenon
  <1>2. \A i \in 1 .. n : acc[i] = IF vals[i] > acc[i - 1] THEN vals[i] ELSE acc[i - 1]
    BY <1>1 DEF Turns, Taken
  <1> DEFINE holds(i) ==
               /\ acc[i] \in Int
               /\ \A c \in Int : (acc[i] >= c) <=> (start >= c \/ (\E j \in 1 .. i : vals[j] >= c))
             S == { i \in Nat : i <= n => holds(i) }
  <1>3. 0 \in S
    <2>1. \A j : j \notin 1 .. 0
      OBVIOUS
    <2>2. holds(0)
      BY <1>1, <2>1 DEF Turns
    <2> QED
      BY <2>2
  <1>4. ASSUME NEW i \in Nat, i \in S PROVE i + 1 \in S
    <2> SUFFICES ASSUME i + 1 <= n PROVE holds(i + 1)
      OBVIOUS
    <2>1. /\ i + 1 \in 1 .. n /\ vals[i + 1] \in Int
          /\ acc[i + 1] = IF vals[i + 1] > acc[i] THEN vals[i + 1] ELSE acc[i]
      BY <1>2
    <2>2. holds(i)
      BY <1>4, <2>1
    <2>3. ASSUME NEW c \in Int
          PROVE  (acc[i + 1] >= c) <=> (start >= c \/ (\E j \in 1 .. i + 1 : vals[j] >= c))
      <3>1. (acc[i + 1] >= c) <=> (acc[i] >= c \/ vals[i + 1] >= c)
        BY <2>1, <2>2
      <3>2. (acc[i] >= c) <=> (start >= c \/ (\E j \in 1 .. i : vals[j] >= c))
        BY <2>2
      <3>3. \A j : j \in 1 .. i + 1 <=> (j \in 1 .. i \/ j = i + 1)
        OBVIOUS
      <3> QED
        BY <3>1, <3>2, <3>3, Zenon
    <2> QED
      BY <2>1, <2>2, <2>3
  <1>5. n \in S
    <2> HIDE DEF S
    <2> QED
      BY <1>3, <1>4, SetInduction
  <1> QED
    BY <1>1, <1>5 DEF Turns

(* The least of some numbers is at least what all of them are.            *)
LEMMA MinReaches ==
    ASSUME NEW start \in Int, NEW n \in Nat, NEW vals, Len(vals) = n,
           \A j \in 1 .. n : vals[j] \in Int
    PROVE  /\ Loop("min", start, vals) \in Int
           /\ \A c \in Int : (Loop("min", start, vals) >= c)
                 <=> (start >= c /\ (\A j \in 1 .. n : vals[j] >= c))
  <1>1. PICK acc : Turns("min", start, n, vals, acc)
    BY LoopSteps, Zenon
  <1>2. \A i \in 1 .. n : acc[i] = IF vals[i] < acc[i - 1] THEN vals[i] ELSE acc[i - 1]
    BY <1>1 DEF Turns, Taken
  <1> DEFINE holds(i) ==
               /\ acc[i] \in Int
               /\ \A c \in Int : (acc[i] >= c) <=> (start >= c /\ (\A j \in 1 .. i : vals[j] >= c))
             S == { i \in Nat : i <= n => holds(i) }
  <1>3. 0 \in S
    <2>1. \A j : j \notin 1 .. 0
      OBVIOUS
    <2>2. holds(0)
      BY <1>1, <2>1 DEF Turns
    <2> QED
      BY <2>2
  <1>4. ASSUME NEW i \in Nat, i \in S PROVE i + 1 \in S
    <2> SUFFICES ASSUME i + 1 <= n PROVE holds(i + 1)
      OBVIOUS
    <2>1. /\ i + 1 \in 1 .. n /\ vals[i + 1] \in Int
          /\ acc[i + 1] = IF vals[i + 1] < acc[i] THEN vals[i + 1] ELSE acc[i]
      BY <1>2
    <2>2. holds(i)
      BY <1>4, <2>1
    <2>3. ASSUME NEW c \in Int
          PROVE  (acc[i + 1] >= c) <=> (start >= c /\ (\A j \in 1 .. i + 1 : vals[j] >= c))
      <3>1. (acc[i + 1] >= c) <=> (acc[i] >= c /\ vals[i + 1] >= c)
        BY <2>1, <2>2
      <3>2. (acc[i] >= c) <=> (start >= c /\ (\A j \in 1 .. i : vals[j] >= c))
        BY <2>2
      <3>3. \A j : j \in 1 .. i + 1 <=> (j \in 1 .. i \/ j = i + 1)
        OBVIOUS
      <3> QED
        BY <3>1, <3>2, <3>3, Zenon
    <2> QED
      BY <2>1, <2>2, <2>3
  <1>5. n \in S
    <2> HIDE DEF S
    <2> QED
      BY <1>3, <1>4, SetInduction
  <1> QED
    BY <1>1, <1>5 DEF Turns

(* A loop that takes one more. *)
LEMMA LoopAppend ==
    ASSUME NEW op, NEW start, NEW S, NEW vals \in Seq(S), NEW v \in S
    PROVE  Loop(op, start, Append(vals, v)) = Taken(op, Loop(op, start, vals), v)
  <1> DEFINE n == Len(vals)
             more == Append(vals, v)
  <1>1. n \in Nat /\ Len(more) = n + 1 /\ more[n + 1] = v /\ \A i \in 1 .. n : more[i] = vals[i]
    OBVIOUS
  <1> HIDE DEF more, n
  <1>2. Len(vals) = n
    BY DEF n
  <1>3. PICK acc : Turns(op, start, n, vals, acc)
    BY <1>1, <1>2, LoopSteps, Zenon
  <1>4. n + 1 \in Nat
    BY <1>1
  <1>5. PICK acc2 : Turns(op, start, n + 1, more, acc2)
    BY <1>1, <1>4, LoopSteps, Zenon
  <1> DEFINE T == { i \in Nat : i <= n => acc2[i] = acc[i] }
  <1>6. 0 \in T
    BY <1>3, <1>5 DEF Turns
  <1>7. ASSUME NEW i \in Nat, i \in T PROVE i + 1 \in T
    <2> SUFFICES ASSUME i + 1 <= n PROVE acc2[i + 1] = acc[i + 1]
      OBVIOUS
    <2>1. i + 1 \in 1 .. n /\ i + 1 \in 1 .. n + 1 /\ i + 1 - 1 = i /\ i <= n
      BY <1>1
    <2>2. acc[i + 1] = Taken(op, acc[i], vals[i + 1])
      BY <1>3, <2>1 DEF Turns
    <2>3. acc2[i + 1] = Taken(op, acc2[i], more[i + 1])
      BY <1>5, <2>1 DEF Turns
    <2> QED
      BY <1>1, <1>7, <2>1, <2>2, <2>3
  <1>8. n \in T
    <2> HIDE DEF T
    <2> QED
      BY <1>1, <1>6, <1>7, SetInduction
  <1>9. n + 1 \in 1 .. n + 1 /\ n + 1 - 1 = n
    BY <1>1
  <1>10. acc2[n + 1] = Taken(op, acc2[n], more[n + 1])
    BY <1>1, <1>5, <1>9 DEF Turns
  <1>11. Loop(op, start, more) = Taken(op, acc[n], v)
    BY <1>1, <1>5, <1>8, <1>10 DEF Turns
  <1>12. Loop(op, start, vals) = acc[n]
    BY <1>3 DEF Turns
  <1> QED
    BY <1>11, <1>12 DEF more

(* A sum of natural numbers is one, and zero if all of them are. *)
LEMMA SumOfNats ==
    ASSUME NEW n \in Nat, NEW vals, Len(vals) = n, \A j \in 1 .. n : vals[j] \in Nat
    PROVE  /\ Loop("sum", 0, vals) \in Nat
           /\ (\A j \in 1 .. n : vals[j] = 0) => Loop("sum", 0, vals) = 0
  <1>1. PICK acc : Turns("sum", 0, n, vals, acc)
    BY LoopSteps, Zenon
  <1>2. \A i \in 1 .. n : acc[i] = acc[i - 1] + vals[i]
    BY <1>1 DEF Turns, Taken
  <1> DEFINE holds(i) == acc[i] \in Nat /\ ((\A j \in 1 .. n : vals[j] = 0) => acc[i] = 0)
             S == { i \in Nat : i <= n => holds(i) }
  <1>3. 0 \in S
    BY <1>1 DEF Turns
  <1>4. ASSUME NEW i \in Nat, i \in S PROVE i + 1 \in S
    <2> SUFFICES ASSUME i + 1 <= n PROVE holds(i + 1)
      OBVIOUS
    <2>1. i + 1 \in 1 .. n /\ vals[i + 1] \in Nat /\ acc[i + 1] = acc[i] + vals[i + 1]
      BY <1>2
    <2>2. holds(i)
      BY <1>4, <2>1
    <2> QED
      BY <2>1, <2>2
  <1>5. n \in S
    <2> HIDE DEF S
    <2> QED
      BY <1>3, <1>4, SetInduction
  <1> QED
    BY <1>1, <1>5 DEF Turns

(* What is inserted is what is not null, in its order: summing over it is  *)
(* summing over all, with nothing for those that are null.                 *)
NotNull(kept, i, vals) ==
    /\ kept \in Seq(Nat)
    /\ \A k \in 1 .. Len(kept) : kept[k] # Null /\ (\E j \in 1 .. i : kept[k] = vals[j])
    /\ \A j \in 1 .. i : vals[j] # Null => (\E k \in 1 .. Len(kept) : kept[k] = vals[j])

Over(P, q) == [ k \in DOMAIN q |-> P[q[k]] ]

(* A sum over what insert keeps is one over all, none for the null ones.  *)
LEMMA InsertKeepsSum ==
    ASSUME NEW n \in Nat, NEW vals, Len(vals) = n, \A j \in 1 .. n : vals[j] \in Nat,
           NEW P, \A j \in 1 .. n : vals[j] # Null => P[vals[j]] \in Int
    PROVE  /\ NotNull(Loop("insert", << >>, vals), n, vals)
           /\ Loop("sum", 0, Over(P, Loop("insert", << >>, vals)))
               = Loop("sum", 0, [ j \in 1 .. n |-> IF vals[j] = Null THEN 0 ELSE P[vals[j]] ])
  <1> DEFINE terms == [ j \in 1 .. n |-> IF vals[j] = Null THEN 0 ELSE P[vals[j]] ]
             over(q) == [ k \in DOMAIN q |-> P[q[k]] ]
  <1>1. PICK acc : Turns("insert", << >>, n, vals, acc)
    BY LoopSteps, Zenon
  <1>2. Len(terms) = n
    OBVIOUS
  <1>3. PICK sum : Turns("sum", 0, n, terms, sum)
    <2> HIDE DEF terms
    <2> QED
      BY <1>2, LoopSteps, Zenon
  <1>4. \A i \in 1 .. n : acc[i] = IF vals[i] = Null THEN acc[i - 1] ELSE Append(acc[i - 1], vals[i])
    BY <1>1 DEF Turns, Taken
  <1>5. \A i \in 1 .. n : sum[i] = sum[i - 1] + terms[i]
    BY <1>3 DEF Turns, Taken
  <1> DEFINE from(q, i) ==
               /\ q \in Seq(Nat)
               /\ \A k \in 1 .. Len(q) : q[k] # Null /\ (\E j \in 1 .. i : q[k] = vals[j])
               /\ \A j \in 1 .. i : vals[j] # Null => (\E k \in 1 .. Len(q) : q[k] = vals[j])
             holds(i) == from(acc[i], i) /\ Loop("sum", 0, over(acc[i])) = sum[i] /\ sum[i] \in Int
             S == { i \in Nat : i <= n => holds(i) }
  <1>6. 0 \in S
    <2>1. acc[0] = << >> /\ sum[0] = 0
      BY <1>1, <1>3 DEF Turns
    <2>2. \A j : j \notin 1 .. 0
      OBVIOUS
    <2>3. from(<< >>, 0)
      BY <2>2
    <2>4. Loop("sum", 0, over(<< >>)) = 0
      <3>1. Len(over(<< >>)) = 0 /\ \A j \in 1 .. 0 : over(<< >>)[j] = 0
        OBVIOUS
      <3> HIDE DEF over
      <3>2. \A j \in 1 .. 0 : over(<< >>)[j] \in Nat
        BY <2>2
      <3> QED
        BY <3>1, <3>2, SumOfNats
    <2> HIDE DEF from, over
    <2> QED
      BY <2>1, <2>3, <2>4
  <1>7. ASSUME NEW i \in Nat, i \in S PROVE i + 1 \in S
    <2> SUFFICES ASSUME i + 1 <= n PROVE holds(i + 1)
      OBVIOUS
    <2> DEFINE v == vals[i + 1]
               q == acc[i]
    <2>1. /\ i + 1 \in 1 .. n /\ v \in Nat
          /\ acc[i + 1] = IF v = Null THEN q ELSE Append(q, v)
          /\ sum[i + 1] = sum[i] + terms[i + 1]
      BY <1>4, <1>5
    <2>2. holds(i)
      BY <1>7, <2>1
    <2>3. \A j : j \in 1 .. i + 1 <=> (j \in 1 .. i \/ j = i + 1)
      OBVIOUS
    <2>4. CASE v = Null
      <3>1. acc[i + 1] = q /\ terms[i + 1] = 0 /\ sum[i + 1] = sum[i]
        BY <2>1, <2>2, <2>4
      <3>2. from(q, i + 1)
        BY <2>2, <2>3, <2>4
      <3> HIDE DEF from, over
      <3> QED
        BY <2>2, <3>1, <3>2
    <2>5. CASE v # Null
      <3> DEFINE m == Len(q)
                 more == Append(q, v)
      <3>1. acc[i + 1] = more /\ terms[i + 1] = P[v] /\ P[v] \in Int
        BY <2>1, <2>5
      <3>2. /\ q \in Seq(Nat) /\ m \in Nat /\ more \in Seq(Nat) /\ Len(more) = m + 1
            /\ more[m + 1] = v /\ \A k \in 1 .. m : more[k] = q[k]
        BY <2>1, <2>2
      <3> HIDE DEF more, m, v
      <3>3. \A k : k \in 1 .. m + 1 <=> (k \in 1 .. m \/ k = m + 1)
        BY <3>2
      <3>4. m = Len(q)
        BY DEF m
      <3>5. \A k \in 1 .. m + 1 : more[k] # Null /\ (\E j \in 1 .. i + 1 : more[k] = vals[j])
        <4> SUFFICES ASSUME NEW k \in 1 .. m + 1
                     PROVE  more[k] # Null /\ (\E j \in 1 .. i + 1 : more[k] = vals[j])
          OBVIOUS
        <4>1. CASE k = m + 1
          BY <2>3, <2>5, <3>2, <4>1 DEF v
        <4>2. CASE k \in 1 .. m
          <5>1. PICK j \in 1 .. i : q[k] = vals[j] /\ q[k] # Null
            BY <2>2, <3>4, <4>2
          <5> QED
            BY <2>3, <3>2, <4>2, <5>1
        <4> QED
          BY <3>3, <4>1, <4>2
      <3>6. \A j \in 1 .. i + 1 : vals[j] # Null => (\E k \in 1 .. m + 1 : more[k] = vals[j])
        <4> SUFFICES ASSUME NEW j \in 1 .. i + 1, vals[j] # Null
                     PROVE  \E k \in 1 .. m + 1 : more[k] = vals[j]
          OBVIOUS
        <4>1. CASE j = i + 1
          BY <3>2, <3>3, <4>1 DEF v
        <4>2. CASE j \in 1 .. i
          <5>1. PICK k \in 1 .. m : q[k] = vals[j]
            BY <2>2, <3>4, <4>2
          <5> QED
            BY <3>2, <3>3, <5>1
        <4> QED
          BY <2>3, <4>1, <4>2
      <3>7. Loop("sum", 0, over(more)) = Loop("sum", 0, over(q)) + P[v]
        <4>1. over(q) \in Seq(Int)
          <5>1. \A k \in 1 .. m : P[q[k]] \in Int
            <6> SUFFICES ASSUME NEW k \in 1 .. m PROVE P[q[k]] \in Int
              OBVIOUS
            <6>1. PICK j \in 1 .. i : q[k] = vals[j] /\ q[k] # Null
              BY <2>2, <3>4
            <6>2. j \in 1 .. n
              BY <2>1, <6>1
            <6> QED
              BY <6>1, <6>2
          <5>2. DOMAIN q = 1 .. m
            BY <3>2, <3>4
          <5> QED
            BY <3>2, <5>1, <5>2
        <4>2. over(more) = Append(over(q), P[v])
          <5>1. DOMAIN q = 1 .. m /\ DOMAIN more = 1 .. m + 1
            BY <3>2, <3>4
          <5>2. over(more) = [ k \in 1 .. m + 1 |-> P[more[k]] ]
            BY <5>1
          <5>3. over(q) = [ k \in 1 .. m |-> P[q[k]] ] /\ Len(over(q)) = m
            BY <3>2, <5>1
          <5>4. Append(over(q), P[v]) = [ k \in 1 .. m + 1 |-> IF k = m + 1 THEN P[v] ELSE over(q)[k] ]
            <6> HIDE DEF over
            <6> QED
              BY <3>2, <4>1, <5>3
          <5>5. \A k \in 1 .. m + 1 : P[more[k]] = IF k = m + 1 THEN P[v] ELSE over(q)[k]
            <6> SUFFICES ASSUME NEW k \in 1 .. m + 1
                         PROVE  P[more[k]] = IF k = m + 1 THEN P[v] ELSE over(q)[k]
              OBVIOUS
            <6>1. CASE k = m + 1
              BY <3>2, <6>1
            <6>2. CASE k \in 1 .. m
              BY <3>2, <5>1, <6>2
            <6> QED
              BY <3>3, <6>1, <6>2
          <5> HIDE DEF over
          <5> QED
            BY <5>2, <5>4, <5>5
        <4>3. Loop("sum", 0, Append(over(q), P[v])) = Taken("sum", Loop("sum", 0, over(q)), P[v])
          <5> HIDE DEF over
          <5> QED
            BY <3>1, <4>1, LoopAppend
        <4> HIDE DEF over
        <4> QED
          BY <4>2, <4>3 DEF Taken
      <3>8. from(acc[i + 1], i + 1)
        BY <3>1, <3>2, <3>5, <3>6
      <3> HIDE DEF from, over, terms
      <3> QED
        BY <2>1, <2>2, <3>1, <3>7, <3>8
    <2> QED
      BY <2>4, <2>5
  <1>8. n \in S
    <2> HIDE DEF S
    <2> QED
      BY <1>6, <1>7, SetInduction
  <1> HIDE DEF terms
  <1>9. Loop("insert", << >>, vals) = acc[n] /\ Loop("sum", 0, terms) = sum[n]
    BY <1>1, <1>3 DEF Turns
  <1>10. holds(n)
    BY <1>8
  <1> DEFINE kept == Loop("insert", << >>, vals)
  <1>11. from(acc[n], n) /\ Loop("sum", 0, over(acc[n])) = Loop("sum", 0, terms)
    BY <1>9, <1>10
  <1>12. NotNull(acc[n], n, vals) /\ over(acc[n]) = Over(P, acc[n])
    BY <1>11 DEF NotNull, Over
  <1> HIDE DEF from, over
  <1> QED
    BY <1>9, <1>11, <1>12 DEF terms

-----------------------------------------------------------------------------
(* Fields: what a box and a value depend on, and where a value ends.       *)
(* A field only holds fields made before it. *)
Earlier(f, i) ==
    \/ f.kind \in {"sphere", "torus", "wing"}
    \/ f.kind = "transform" /\ f.mFields[1] \in 1 .. i - 1
    \/ f.kind \in Operators /\ f.mFields \in Seq(1 .. i - 1)

(* The members of a sequence are of its kind.                             *)
LEMMA HeldBefore ==
    ASSUME NEW S, NEW s \in Seq(S)
    PROVE  \A j \in DOMAIN s : s[j] \in S
  OBVIOUS

(* The box of a field depends on those of earlier fields only.            *)
LEMMA BoxDepends ==
    ASSUME NEW f, NEW i \in Nat, Earlier(f, i), NEW g, NEW h, \A j \in 1 .. i - 1 : g[j] = h[j]
    PROVE  box(f, g) = box(f, h)
  <1>1. CASE f.kind \in {"sphere", "torus", "wing"}
    BY <1>1 DEF box
  <1>2. CASE f.kind = "transform" /\ f.mFields[1] \in 1 .. i - 1
    <2>1. g[f.mFields[1]] = h[f.mFields[1]]
      BY <1>2
    <2> QED
      BY <1>2, <2>1 DEF box
  <1>3. CASE f.kind \in Operators /\ f.mFields \in Seq(1 .. i - 1)
    <2>1. \A j \in DOMAIN f.mFields : g[f.mFields[j]] = h[f.mFields[j]]
      BY <1>3, HeldBefore
    <2>2. [ j \in DOMAIN f.mFields |-> g[f.mFields[j]] ] = [ j \in DOMAIN f.mFields |-> h[f.mFields[j]] ]
      BY <2>1
    <2>3. \A k : box(f, k) = Loop("join", EmptyBox, [ j \in DOMAIN f.mFields |-> k[f.mFields[j]] ])
      BY <1>3 DEF box, Operators
    <2> QED
      BY <2>2, <2>3
  <1> QED
    BY <1>1, <1>2, <1>3 DEF Earlier

(* So does its value.                                                     *)
LEMMA SdfDepends ==
    ASSUME NEW f, NEW i \in Nat, Earlier(f, i), NEW g, NEW h, \A j \in 1 .. i - 1 : g[j] = h[j]
    PROVE  sdf(f, g) = sdf(f, h)
  <1>1. CASE f.kind \in {"sphere", "torus", "wing"}
    BY <1>1 DEF sdf
  <1>2. CASE f.kind = "transform" /\ f.mFields[1] \in 1 .. i - 1
    <2>1. g[f.mFields[1]] = h[f.mFields[1]]
      BY <1>2
    <2> QED
      BY <1>2, <2>1 DEF sdf
  <1>3. CASE f.kind \in Operators /\ f.mFields \in Seq(1 .. i - 1)
    <2> DEFINE vals(k, x) == [ j \in DOMAIN f.mFields |-> k[f.mFields[j]][x] ]
    <2>1. \A j \in DOMAIN f.mFields : g[f.mFields[j]] = h[f.mFields[j]]
      BY <1>3, HeldBefore
    <2>2. \A x : vals(g, x) = vals(h, x)
      BY <2>1
    <2> HIDE DEF vals
    <2>3. sdf(f, g) = [ x \in Int |-> Combined(f.kind, vals(g, x)) ]
      BY <1>3 DEF sdf, Operators, vals
    <2>4. sdf(f, h) = [ x \in Int |-> Combined(f.kind, vals(h, x)) ]
      BY <1>3 DEF sdf, Operators, vals
    <2>5. \A x \in Int : Combined(f.kind, vals(g, x)) = Combined(f.kind, vals(h, x))
      BY <2>2
    <2> QED
      BY <2>3, <2>4, <2>5
  <1> QED
    BY <1>1, <1>2, <1>3 DEF Earlier

(* The functions of a recursion over the fields. *)
Boxed(fs, g)  == g = [ i \in DOMAIN fs |-> box(fs[i], g) ]
Valued(fs, g) == g = [ i \in DOMAIN fs |-> sdf(fs[i], g) ]

(* There are boxes as box says, made in the order of the fields.          *)
LEMMA BoxesExist ==
    ASSUME NEW fs, NEW len \in Nat, DOMAIN fs = 1 .. len, \A i \in 1 .. len : Earlier(fs[i], i)
    PROVE  \E g : Boxed(fs, g)
  <1> DEFINE S == { n \in Nat : n <= len => \E g : g = [ i \in 1 .. n |-> box(fs[i], g) ] }
  <1>1. 0 \in S
    <2>1. << >> = [ i \in 1 .. 0 |-> box(fs[i], << >>) ]
      OBVIOUS
    <2> QED
      BY <2>1
  <1>2. ASSUME NEW n \in Nat, n \in S PROVE n + 1 \in S
    <2> SUFFICES ASSUME n + 1 <= len PROVE \E g : g = [ i \in 1 .. n + 1 |-> box(fs[i], g) ]
      OBVIOUS
    <2>1. PICK g : g = [ i \in 1 .. n |-> box(fs[i], g) ]
      BY <1>2
    <2> DEFINE new == [ i \in 1 .. n + 1 |-> IF i = n + 1 THEN box(fs[i], g) ELSE g[i] ]
    <2>2. \A j \in 1 .. n : new[j] = g[j]
      OBVIOUS
    <2>3. ASSUME NEW i \in 1 .. n + 1 PROVE new[i] = box(fs[i], new)
      <3>1. new[i] = box(fs[i], g)
        BY <2>1
      <3>2. i \in Nat /\ Earlier(fs[i], i) /\ \A j \in 1 .. i - 1 : g[j] = new[j]
        BY <2>2
      <3> HIDE DEF new
      <3> QED
        BY <3>1, <3>2, BoxDepends
    <2>4. new = [ i \in 1 .. n + 1 |-> box(fs[i], new) ]
      BY <2>3
    <2> HIDE DEF new
    <2> QED
      BY <2>4
  <1>3. len \in S
    <2> HIDE DEF S
    <2> QED
      BY <1>1, <1>2, SetInduction
  <1> QED
    BY <1>3 DEF Boxed

(* There are values as sdf says, made in the order of the fields.         *)
LEMMA ValuesExist ==
    ASSUME NEW fs, NEW len \in Nat, DOMAIN fs = 1 .. len, \A i \in 1 .. len : Earlier(fs[i], i)
    PROVE  \E g : Valued(fs, g)
  <1> DEFINE S == { n \in Nat : n <= len => \E g : g = [ i \in 1 .. n |-> sdf(fs[i], g) ] }
  <1>1. 0 \in S
    <2>1. << >> = [ i \in 1 .. 0 |-> sdf(fs[i], << >>) ]
      OBVIOUS
    <2> QED
      BY <2>1
  <1>2. ASSUME NEW n \in Nat, n \in S PROVE n + 1 \in S
    <2> SUFFICES ASSUME n + 1 <= len PROVE \E g : g = [ i \in 1 .. n + 1 |-> sdf(fs[i], g) ]
      OBVIOUS
    <2>1. PICK g : g = [ i \in 1 .. n |-> sdf(fs[i], g) ]
      BY <1>2
    <2> DEFINE new == [ i \in 1 .. n + 1 |-> IF i = n + 1 THEN sdf(fs[i], g) ELSE g[i] ]
    <2>2. \A j \in 1 .. n : new[j] = g[j]
      OBVIOUS
    <2>3. ASSUME NEW i \in 1 .. n + 1 PROVE new[i] = sdf(fs[i], new)
      <3>1. new[i] = sdf(fs[i], g)
        BY <2>1
      <3>2. i \in Nat /\ Earlier(fs[i], i) /\ \A j \in 1 .. i - 1 : g[j] = new[j]
        BY <2>2
      <3> HIDE DEF new
      <3> QED
        BY <3>1, <3>2, SdfDepends
    <2>4. new = [ i \in 1 .. n + 1 |-> sdf(fs[i], new) ]
      BY <2>3
    <2> HIDE DEF new
    <2> QED
      BY <2>4
  <1>3. len \in S
    <2> HIDE DEF S
    <2> QED
      BY <1>1, <1>2, SetInduction
  <1> QED
    BY <1>3 DEF Valued

(* getBBox and eval are what their recursions say. *)
LEMMA BoxIsRecursive ==
    ASSUME NEW fs, NEW len \in Nat, DOMAIN fs = 1 .. len, \A i \in 1 .. len : Earlier(fs[i], i)
    PROVE  Boxed(fs, getBBox(fs))
  <1>1. \E g : Boxed(fs, g)
    BY BoxesExist
  <1>2. getBBox(fs) = CHOOSE g : Boxed(fs, g)
    BY Zenon DEF getBBox, Boxed
  <1> QED
    BY <1>1, <1>2, Zenon

(* And eval is what its own says.                                         *)
LEMMA EvalIsRecursive ==
    ASSUME NEW fs, NEW len \in Nat, DOMAIN fs = 1 .. len, \A i \in 1 .. len : Earlier(fs[i], i)
    PROVE  Valued(fs, eval(fs))
  <1>1. \E g : Valued(fs, g)
    BY ValuesExist
  <1>2. eval(fs) = CHOOSE g : Valued(fs, g)
    BY Zenon DEF eval, Valued
  <1> QED
    BY <1>1, <1>2, Zenon

(* A unit of length makes a square, a highest value and one above it. *)
LEMMA UnitIsNat ==
    /\ Unit \in Nat /\ Unit > 0 /\ Square \in Nat /\ Square > 0 /\ Square = Unit * Unit
    /\ One \in Nat /\ Infinity \in Nat /\ EmptyBox = [ pMin |-> Infinity, pMax |-> -Infinity ]
  <1>1. Unit \in Nat /\ Unit > 0
    BY UnitAssumption
  <1>2. Square = Unit * Unit /\ Square \in Nat /\ Square > 0
    BY <1>1, Z3 DEF Square
  <1> DEFINE S == Square
             s2 == S * S
             s4 == s2 * S * S
  <1>3. s2 \in Nat
    BY <1>2, Z3
  <1>4. s2 * S \in Nat
    BY <1>2, <1>3, Z3
  <1>5. s4 \in Nat
    BY <1>2, <1>4, Z3
  <1>6. One = 16 * S * S * S * S * S
    BY DEF One
  <1> HIDE DEF S
  <1>7. One \in Nat
    BY <1>2, <1>6, Z3 DEF S
  <1> QED
    BY <1>1, <1>2, <1>7 DEF Infinity, EmptyBox

(* The filter as a cubed distance times another factor. *)
LEMMA FilterFactors ==
    ASSUME NEW k \in Int, NEW S \in Int
    PROVE  8 * S * S * S * S * S - 15 * k * S * S * S * S
             + 10 * k * k * k * S * S - 3 * k * k * k * k * k
           = ((S - k) * (S - k) * (S - k)) * (8 * S * S + 9 * S * k + 3 * k * k)
  BY Z3

(* That factor is a sum of squares. *)
LEMMA FactorIsNat ==
    ASSUME NEW k \in Int, NEW S \in Int
    PROVE  8 * S * S + 9 * S * k + 3 * k * k \in Nat
  <1> DEFINE a == 6 * k + 9 * S
             q == 8 * S * S + 9 * S * k + 3 * k * k
  <1>1. 12 * q = a * a + 15 * (S * S)
    BY Z3
  <1>2. a \in Int /\ q \in Int
    BY Z3
  <1> HIDE DEF a, q
  <1>3. a * a >= 0 /\ S * S >= 0 /\ a * a \in Int /\ S * S \in Int
    BY <1>2, Z3
  <1> QED
    BY <1>1, <1>2, <1>3 DEF q

(* A product of natural numbers is one. *)
LEMMA ProductIsNat ==
    ASSUME NEW a \in Nat, NEW b \in Nat
    PROVE  a * b \in Nat
  BY Z3

(* The filter is a number, and has reached zero at a distance of one. *)
LEMMA FilterIsNat ==
    ASSUME NEW k \in Int
    PROVE  compactField(k) \in Nat /\ (k >= Square => compactField(k) = 0)
  <1> DEFINE S == Square
             d == S - k
             q == 8 * S * S + 9 * S * k + 3 * k * k
  <1>1. S \in Nat /\ One \in Nat
    BY UnitIsNat
  <1>2. CASE k < -S
    BY <1>1, <1>2 DEF compactField
  <1>3. CASE k > S
    BY <1>1, <1>3 DEF compactField
  <1>4. CASE -S <= k /\ k <= S
    <2>1. compactField(k) = 8 * S * S * S * S * S - 15 * k * S * S * S * S
             + 10 * k * k * k * S * S - 3 * k * k * k * k * k
      BY <1>1, <1>4 DEF compactField
    <2>2. compactField(k) = (d * d * d) * q
      <3> HIDE DEF S
      <3> QED
        BY <1>1, <2>1, FilterFactors
    <2>3. q \in Nat
      BY <1>1, FactorIsNat
    <2>4. d \in Nat /\ (k >= S => d = 0)
      BY <1>1, <1>4
    <2> HIDE DEF S, d, q
    <2>5. d * d \in Nat
      BY <2>4, ProductIsNat
    <2>6. d * d * d \in Nat
      BY <2>4, <2>5, ProductIsNat
    <2>7. (d * d * d) * q \in Nat
      BY <2>3, <2>6, ProductIsNat
    <2>8. d = 0 => (d * d * d) * q = 0
      BY <2>3, Z3
    <2> QED
      BY <2>2, <2>4, <2>7, <2>8 DEF S
  <1> QED
    BY <1>1, <1>2, <1>3, <1>4
(* The value v of a field of box b, none at its ends and beyond.           *)
Vanishes(v, b) ==
    /\ Ends(b) /\ b.pMin < b.pMax
    /\ \A x \in Int : v[x] \in Nat /\ ((x <= b.pMin \/ x >= b.pMax) => v[x] = 0)

(* A sphere has no value at the ends of its expanded box.                 *)
LEMMA SphereVanishes ==
    ASSUME NEW f, NEW g, NEW h, f.kind = "sphere", f.centre \in Int, f.radius \in Nat
    PROVE  Vanishes(sdf(f, g), box(f, h))
  <1> DEFINE far(x) == Abs(x - f.centre) - f.radius
             k(x) == Unit * far(x)
  <1>1. sdf(f, g) = [ x \in Int |-> compactField(k(x)) ]
    BY DEF sdf
  <1>2. box(f, h) = [ pMin |-> f.centre - f.radius - Unit, pMax |-> f.centre + f.radius + Unit ]
    BY DEF box, expand
  <1>3. Unit \in Nat /\ Unit > 0 /\ Square = Unit * Unit
    BY UnitIsNat
  <1>4. ASSUME NEW x \in Int
        PROVE  /\ far(x) \in Int
               /\ (x <= f.centre - f.radius - Unit \/ x >= f.centre + f.radius + Unit) => Unit <= far(x)
    BY <1>3 DEF Abs
  <1> HIDE DEF far
  <1>5. ASSUME NEW x \in Int
        PROVE  k(x) \in Int /\ (Unit <= far(x) => k(x) >= Square)
    <2>1. k(x) \in Int /\ Unit * Unit \in Int
      BY <1>3, <1>4, Z3
    <2>2. Unit <= far(x) => Unit * Unit <= Unit * far(x)
      BY <1>3, <1>4, Monotone
    <2> QED
      BY <1>3, <2>1, <2>2
  <1> HIDE DEF k
  <1>6. ASSUME NEW x \in Int
        PROVE  compactField(k(x)) \in Nat /\ (k(x) >= Square => compactField(k(x)) = 0)
    BY <1>5, FilterIsNat
  <1> QED
    BY <1>1, <1>2, <1>3, <1>4, <1>5, <1>6 DEF Vanishes, Ends

(* Nor has a torus centred in its box.                                    *)
LEMMA TorusVanishes ==
    ASSUME NEW f, NEW g, NEW h, f.kind = "torus", f.mC \in Nat, f.mA \in Nat, f.centre = 0
    PROVE  Vanishes(sdf(f, g), box(f, h))
  <1> DEFINE gap(x) == f.mC - Abs(x - f.centre)
             k(x) == gap(x) * gap(x) - f.mA * f.mA
  <1>1. sdf(f, g) = [ x \in Int |-> compactField(k(x)) ]
    BY DEF sdf
  <1>2. box(f, h) = [ pMin |-> -f.mC - f.mA - Unit, pMax |-> f.mC + f.mA + Unit ]
    BY DEF box, expand
  <1>0. Unit \in Nat /\ Unit > 0 /\ Square = Unit * Unit
    BY UnitIsNat
  <1>3. ASSUME NEW x \in Int
        PROVE  k(x) \in Int /\ ((x <= -f.mC - f.mA - Unit \/ x >= f.mC + f.mA + Unit) => k(x) >= Square)
    <2>1. gap(x) \in Int
      BY DEF Abs
    <2>2. (x <= -f.mC - f.mA - Unit \/ x >= f.mC + f.mA + Unit) => -gap(x) >= f.mA + Unit
      BY <1>0 DEF Abs
    <2> DEFINE l == -gap(x)
               a == f.mA
               u == Unit
    <2>3. gap(x) * gap(x) = l * l
      <3> HIDE DEF gap
      <3> QED
        BY <2>1, Z3
    <2>4. l \in Int /\ a \in Nat /\ k(x) = l * l - a * a /\ u \in Nat /\ Square = u * u
      BY <1>0, <2>1, <2>3
    <2> HIDE DEF l, gap, u
    <2>5. l >= a + u => l * l - a * a >= Square
      <3> SUFFICES ASSUME l >= a + u PROVE l * l - a * a >= Square
        OBVIOUS
      <3>1. (a + u) * (a + u) <= (a + u) * l /\ l * (a + u) <= l * l
        BY <2>4, Monotone
      <3>2. (a + u) * (a + u) = a * a + 2 * (u * a) + u * u /\ (a + u) * l = l * (a + u)
        BY <2>4, Z3
      <3>3. a * a \in Nat /\ l * l \in Int /\ (a + u) * l \in Int /\ u * a \in Nat /\ u * u \in Nat
        BY <2>4, Z3
      <3> QED
        BY <2>4, <3>1, <3>2, <3>3, Z3
    <2>6. l * l - a * a \in Int
      BY <2>4, Z3
    <2> QED
      BY <2>2, <2>4, <2>5, <2>6 DEF l, u
  <1> HIDE DEF k
  <1>4. ASSUME NEW x \in Int
        PROVE  compactField(k(x)) \in Nat /\ (k(x) >= Square => compactField(k(x)) = 0)
    BY <1>3, FilterIsNat
  <1> QED
    BY <1>0, <1>1, <1>2, <1>3, <1>4 DEF Vanishes, Ends

(* Nor has a wing.                                                        *)
LEMMA WingVanishes ==
    ASSUME NEW f, NEW g, NEW h, f.kind = "wing", Ends(f.box), f.box.pMin < f.box.pMax,
           f.val \in Nat
    PROVE  Vanishes(sdf(f, g), box(f, h))
  <1>1. sdf(f, g) = [ x \in Int |-> IF f.box.pMin < x /\ x < f.box.pMax THEN f.val ELSE 0 ]
    BY DEF sdf
  <1>2. box(f, h) = f.box
    BY DEF box
  <1> QED
    BY <1>1, <1>2 DEF Vanishes, Ends

(* A transform's box is the image of the box of its field, so a place      *)
(* outside it comes from a place outside that one.                         *)
LEMMA TransformVanishes ==
    ASSUME NEW f, NEW g, NEW h, f.kind = "transform",
           f.num \in Nat \ {0}, f.den \in Nat \ {0}, f.shift \in Int,
           Vanishes(g[f.mFields[1]], h[f.mFields[1]]),
           (f.num * h[f.mFields[1]].pMin) % f.den = 0, (f.num * h[f.mFields[1]].pMax) % f.den = 0
    PROVE  Vanishes(sdf(f, g), box(f, h))
  <1> DEFINE b == h[f.mFields[1]]
             v == g[f.mFields[1]]
             num == f.num
             den == f.den
             shift == f.shift
  <1>1. sdf(f, g) = [ x \in Int |-> v[invert(f, x)] ]
    BY DEF sdf
  <1>2. box(f, h) = [ pMin |-> apply(f, b.pMin), pMax |-> apply(f, b.pMax) ]
    BY DEF box
  <1>3. /\ num \in Nat /\ num > 0 /\ den \in Nat /\ den > 0 /\ shift \in Int
        /\ Vanishes(v, b) /\ Ends(b) /\ b.pMin \in Int /\ b.pMax \in Int
    BY DEF Vanishes, Ends
  <1>4. ASSUME NEW p \in Int, (num * p) % den = 0
        PROVE  /\ apply(f, p) \in Int
               /\ \A x \in Int : /\ invert(f, x) \in Int
                                 /\ x <= apply(f, p) => invert(f, x) <= p
                                 /\ x >= apply(f, p) => invert(f, x) >= p
    <2> DEFINE q == (num * p) \div den
    <2>1. q \in Int /\ num * p = den * q
      <3>1. num * p \in Int
        BY <1>3, Z3
      <3> QED
        BY <1>3, <1>4, <3>1, IntQuotient
    <2>2. apply(f, p) = shift + q
      BY DEF apply
    <2> HIDE DEF q
    <2>3. ASSUME NEW x \in Int
          PROVE  /\ invert(f, x) \in Int
                 /\ x <= shift + q => invert(f, x) <= p
                 /\ x >= shift + q => invert(f, x) >= p
      <3> DEFINE u == x - shift
                 w == den * u
                 r == w \div num
      <3>1. u \in Int /\ w \in Int
        BY <1>3, Z3
      <3>2. invert(f, x) = r
        <4>1. (x - f.shift) * f.den = w
          BY <1>3, <3>1, Z3
        <4> QED
          BY <4>1 DEF invert
      <3>3. r \in Int /\ num * r <= w /\ w < num * r + num
        <4> HIDE DEF w
        <4> QED
          BY <1>3, <3>1, IntQuotient
      <3> HIDE DEF r
      <3>4. num * r \in Int /\ num * p \in Int /\ num * (r + 1) = num * r + num
        BY <1>3, <3>3, Z3
      <3>5. ASSUME u <= q PROVE r <= p
        <4>1. w <= num * p
          BY <1>3, <2>1, <3>1, <3>5, Monotone
        <4> SUFFICES ASSUME p + 1 <= r PROVE FALSE
          BY <3>3
        <4>2. num * (p + 1) <= num * r
          BY <1>3, <3>3, Monotone
        <4>3. num * (p + 1) = num * p + num
          BY <1>3, Z3
        <4> HIDE DEF w
        <4> QED
          BY <1>3, <3>1, <3>3, <3>4, <4>1, <4>2, <4>3
      <3>6. ASSUME u >= q PROVE r >= p
        <4>1. num * p <= w
          BY <1>3, <2>1, <3>1, <3>6, Monotone
        <4> SUFFICES ASSUME r + 1 <= p PROVE FALSE
          BY <3>3
        <4>2. num * (r + 1) <= num * p
          BY <1>3, <3>3, Monotone
        <4> HIDE DEF w
        <4> QED
          BY <1>3, <3>1, <3>3, <3>4, <4>1, <4>2
      <3> QED
        BY <1>3, <2>1, <3>2, <3>3, <3>5, <3>6
    <2> HIDE DEF num, den, shift
    <2>4. apply(f, p) \in Int
      BY <1>3, <2>1, <2>2
    <2> QED
      BY <2>2, <2>3, <2>4
  <1>5. (num * b.pMin) % den = 0 /\ (num * b.pMax) % den = 0
    OBVIOUS
  <1>6. Ends(box(f, h)) /\ box(f, h).pMin < box(f, h).pMax
    <2> DEFINE low == apply(f, b.pMin)
               high == apply(f, b.pMax)
               y == invert(f, high)
    <2>1. b.pMin < b.pMax
      BY <1>3 DEF Vanishes
    <2>2. low \in Int /\ high \in Int
      BY <1>3, <1>4, <1>5
    <2>3. y \in Int /\ y >= b.pMax /\ (high <= low => y <= b.pMin)
      BY <1>3, <1>4, <1>5, <2>2
    <2>4. box(f, h).pMin = low /\ box(f, h).pMax = high
      BY <1>2
    <2> HIDE DEF low, high, y, b
    <2> QED
      BY <1>3, <2>1, <2>2, <2>3, <2>4 DEF Ends
  <1> HIDE DEF b, v
  <1>7. ASSUME NEW x \in Int
        PROVE  /\ sdf(f, g)[x] \in Nat
               /\ (x <= box(f, h).pMin \/ x >= box(f, h).pMax) => sdf(f, g)[x] = 0
    <2>1. sdf(f, g)[x] = v[invert(f, x)] /\ invert(f, x) \in Int
      BY <1>1, <1>3, <1>4, <1>5
    <2>2. x <= apply(f, b.pMin) => invert(f, x) <= b.pMin
      BY <1>3, <1>4, <1>5
    <2>3. x >= apply(f, b.pMax) => invert(f, x) >= b.pMax
      BY <1>3, <1>4, <1>5
    <2>4. box(f, h).pMin = apply(f, b.pMin) /\ box(f, h).pMax = apply(f, b.pMax)
      BY <1>2
    <2> QED
      BY <1>3, <2>1, <2>2, <2>3, <2>4 DEF Vanishes
  <1> QED
    BY <1>6, <1>7 DEF Vanishes

(* An operator of fields that vanish does. *)
LEMMA CombinedVanishes ==
    ASSUME NEW kind \in Operators, NEW n \in Nat \ {0}, NEW vals, Len(vals) = n,
           \A j \in 1 .. n : vals[j] \in Nat
    PROVE  /\ Combined(kind, vals) \in Nat
           /\ (\A j \in 1 .. n : vals[j] = 0) => Combined(kind, vals) = 0
  <1> DEFINE zero == \A j \in 1 .. n : vals[j] = 0
  <1>1. 1 \in 1 .. n /\ n \in Nat /\ \A j \in 1 .. n : vals[j] \in Int
    OBVIOUS
  <1>2. CASE kind = "union"
    <2>1. Combined(kind, vals) = Loop("max", -1, vals)
      BY <1>2 DEF Combined, Union, NegInfinity
    <2> DEFINE v == Loop("max", -1, vals)
    <2>2. /\ v \in Int
          /\ \A c \in Int : (v >= c) <=> (-1 >= c \/ (\E j \in 1 .. n : vals[j] >= c))
      <3>1. -1 \in Int
        OBVIOUS
      <3> QED
        BY <1>1, <3>1, MaxReaches
    <2> HIDE DEF v
    <2>3. v >= 0
      BY <1>1, <2>2
    <2>4. zero => ~(v >= 1)
      BY <2>2
    <2>5. v = Combined(kind, vals)
      BY <2>1 DEF v
    <2> QED
      BY <2>2, <2>3, <2>4, <2>5
  <1>3. CASE kind = "intersection"
    <2>1. Combined(kind, vals) = Loop("min", Infinity, vals)
      BY <1>3 DEF Combined, Intersection
    <2> DEFINE v == Loop("min", Infinity, vals)
    <2>2. Infinity \in Int /\ Infinity >= 0
      BY UnitIsNat
    <2>3. /\ v \in Int
          /\ \A c \in Int : (v >= c) <=> (Infinity >= c /\ (\A j \in 1 .. n : vals[j] >= c))
      BY <1>1, <2>2, MinReaches
    <2> HIDE DEF v
    <2>4. v >= 0
      BY <2>2, <2>3
    <2>5. zero => ~(v >= 1)
      BY <1>1, <2>3
    <2>6. v = Combined(kind, vals)
      BY <2>1 DEF v
    <2> QED
      BY <2>3, <2>4, <2>5, <2>6
  <1>4. CASE kind = "blend"
    <2>1. Combined(kind, vals) = Loop("sum", 0, vals)
      BY <1>4 DEF Combined, Blend
    <2> QED
      BY <1>1, <2>1, SumOfNats
  <1> QED
    BY <1>2, <1>3, <1>4 DEF Operators

(* An operator of fields that vanish does, over their joined box.         *)
LEMMA OperatorVanishes ==
    ASSUME NEW f, NEW g, NEW h, f.kind \in Operators, NEW n \in Nat \ {0}, DOMAIN f.mFields = 1 .. n,
           \A j \in 1 .. n : Vanishes(g[f.mFields[j]], h[f.mFields[j]])
    PROVE  Vanishes(sdf(f, g), box(f, h))
  <1> DEFINE vals(x) == [ j \in 1 .. n |-> g[f.mFields[j]][x] ]
             boxes == [ j \in 1 .. n |-> h[f.mFields[j]] ]
             b == Loop("join", EmptyBox, boxes)
  <1>1. f.kind \notin {"sphere", "torus", "wing", "transform"}
    BY DEF Operators
  <1>2. box(f, h) = b
    BY <1>1 DEF box
  <1>3. sdf(f, g) = [ x \in Int |-> Combined(f.kind, vals(x)) ]
    BY <1>1 DEF sdf
  <1>4. Ends(EmptyBox) /\ \A j \in 1 .. n : Ends(boxes[j])
    BY UnitIsNat DEF Ends, Vanishes
  <1>5. Len(boxes) = n /\ n \in Nat
    OBVIOUS
  <1>6. Ends(b) /\ \A j \in 1 .. n : Within(boxes[j], b)
    <2> HIDE DEF boxes
    <2> QED
      BY <1>4, <1>5, JoinContains
  <1>7. \A j \in 1 .. n : boxes[j] = h[f.mFields[j]]
    OBVIOUS
  <1>9. b.pMin < b.pMax
    <2>1. 1 \in 1 .. n /\ boxes[1] = h[f.mFields[1]]
      OBVIOUS
    <2>2. Ends(boxes[1]) /\ boxes[1].pMin < boxes[1].pMax
      BY <2>1 DEF Vanishes
    <2> HIDE DEF boxes, b
    <2> QED
      BY <1>6, <2>1, <2>2 DEF Ends, Within
  <1> HIDE DEF b, boxes
  <1>8. ASSUME NEW x \in Int
        PROVE  /\ Combined(f.kind, vals(x)) \in Nat
               /\ (x <= b.pMin \/ x >= b.pMax) => Combined(f.kind, vals(x)) = 0
    <2>1. Len(vals(x)) = n /\ \A j \in 1 .. n : vals(x)[j] = g[f.mFields[j]][x]
      OBVIOUS
    <2>2. \A j \in 1 .. n : vals(x)[j] \in Nat
      BY <2>1 DEF Vanishes
    <2>3. ASSUME x <= b.pMin \/ x >= b.pMax, NEW j \in 1 .. n PROVE vals(x)[j] = 0
      <3>1. /\ b.pMin \in Int /\ b.pMax \in Int /\ boxes[j].pMin \in Int /\ boxes[j].pMax \in Int
            /\ b.pMin <= boxes[j].pMin /\ boxes[j].pMax <= b.pMax
        BY <1>4, <1>6 DEF Ends, Within
      <3>2. x <= boxes[j].pMin \/ x >= boxes[j].pMax
        BY <2>3, <3>1
      <3> QED
        BY <1>7, <2>1, <3>2 DEF Vanishes
    <2> HIDE DEF vals
    <2> QED
      BY <2>1, <2>2, <2>3, CombinedVanishes
  <1> HIDE DEF vals
  <1> QED
    BY <1>2, <1>3, <1>6, <1>8, <1>9 DEF Vanishes

(* A field of a model holds earlier ones.                                 *)
LEMMA FieldsAreEarlier ==
    ASSUME NEW fs, NEW i, FieldOK(fs, i)
    PROVE  Earlier(fs[i], i)
  BY DEF FieldOK, Earlier

(* Every field has an exact box: its value is none at the ends of it and   *)
(* beyond.                                                                 *)
LEMMA FieldsVanish ==
    ASSUME NEW fs, NEW len \in Nat, DOMAIN fs = 1 .. len, \A i \in 1 .. len : FieldOK(fs, i)
    PROVE  \A i \in 1 .. len : Vanishes(eval(fs)[i], getBBox(fs)[i])
  <1> DEFINE g == eval(fs)
             h == getBBox(fs)
  <1>1. \A i \in 1 .. len : Earlier(fs[i], i)
    BY FieldsAreEarlier
  <1>2. \A i \in 1 .. len : g[i] = sdf(fs[i], g)
    BY <1>1, EvalIsRecursive DEF Valued
  <1>3. \A i \in 1 .. len : h[i] = box(fs[i], h)
    BY <1>1, BoxIsRecursive DEF Boxed
  <1> DEFINE S == { i \in Nat : \A j \in 1 .. i : j <= len => Vanishes(g[j], h[j]) }
  <1>4. 0 \in S
    OBVIOUS
  <1>5. ASSUME NEW n \in Nat, n \in S PROVE n + 1 \in S
    <2> DEFINE i == n + 1
               f == fs[i]
    <2>1. SUFFICES ASSUME i <= len PROVE Vanishes(g[i], h[i])
      BY <1>5
    <2>2. i \in 1 .. len /\ FieldOK(fs, i) /\ g[i] = sdf(f, g) /\ h[i] = box(f, h)
      BY <1>2, <1>3, <2>1
    <2>3. \A j \in 1 .. i - 1 : Vanishes(g[j], h[j])
      BY <1>5, <2>1
    <2>4. CASE f.kind = "sphere"
      <3>1. f.centre \in Int /\ f.radius \in Nat
        BY <2>2, <2>4 DEF FieldOK
      <3> QED
        BY <2>2, <2>4, <3>1, SphereVanishes
    <2>5. CASE f.kind = "torus"
      <3>1. f.mC \in Nat /\ f.mA \in Nat /\ f.centre = 0
        BY <2>2, <2>5 DEF FieldOK, Torus
      <3> QED
        BY <2>2, <2>5, <3>1, TorusVanishes
    <2>6. CASE f.kind = "wing"
      <3>1. Ends(f.box) /\ f.box.pMin < f.box.pMax /\ f.val \in Nat
        BY <2>2, <2>6 DEF FieldOK, Ends
      <3> QED
        BY <2>2, <2>6, <3>1, WingVanishes
    <2>7. CASE f.kind = "transform"
      <3>1. /\ f.num \in Nat \ {0} /\ f.den \in Nat \ {0} /\ f.shift \in Int
            /\ f.mFields[1] \in 1 .. i - 1
            /\ (f.num * h[f.mFields[1]].pMin) % f.den = 0 /\ (f.num * h[f.mFields[1]].pMax) % f.den = 0
        BY <2>2, <2>7 DEF FieldOK
      <3> QED
        BY <2>2, <2>3, <2>7, <3>1, TransformVanishes
    <2>8. CASE f.kind \notin {"sphere", "torus", "wing", "transform"}
      <3>1. f.kind \in Operators /\ f.mFields \in Seq(1 .. i - 1) /\ f.mFields # << >>
        BY <2>2, <2>8 DEF FieldOK
      <3>2. Len(f.mFields) \in Nat \ {0} /\ DOMAIN f.mFields = 1 .. Len(f.mFields)
        BY <3>1
      <3>3. \A j \in 1 .. Len(f.mFields) : f.mFields[j] \in 1 .. i - 1
        BY <3>1, <3>2, HeldBefore
      <3> QED
        BY <2>2, <2>3, <3>1, <3>2, <3>3, OperatorVanishes
    <2> QED
      BY <2>4, <2>5, <2>6, <2>7, <2>8
  <1>6. len \in S
    <2> HIDE DEF S
    <2> QED
      BY <1>4, <1>5, SetInduction
  <1> QED
    BY <1>6

(* The places a seed of a box may have. *)
Places(b) == { x \in Int : b.pMin <= x /\ x < b.pMax }

(* Sequences appended are one of the same kind. *)
LEMMA Appended ==
    ASSUME NEW S, NEW n \in Nat, NEW vals, Len(vals) = n, \A j \in 1 .. n : vals[j] \in Seq(S)
    PROVE  Loop("append", << >>, vals) \in Seq(S)
  <1>1. PICK acc : Turns("append", << >>, n, vals, acc)
    BY LoopSteps, Zenon
  <1>2. \A i \in 1 .. n : acc[i] = acc[i - 1] \o vals[i]
    BY <1>1 DEF Turns, Taken
  <1> DEFINE T == { i \in Nat : i <= n => acc[i] \in Seq(S) }
  <1>3. 0 \in T
    <2>1. acc[0] = << >> /\ << >> \in Seq(S)
      BY <1>1 DEF Turns
    <2> QED
      BY <2>1
  <1>4. ASSUME NEW i \in Nat, i \in T PROVE i + 1 \in T
    <2> SUFFICES ASSUME i + 1 <= n PROVE acc[i + 1] \in Seq(S)
      OBVIOUS
    <2>1. i + 1 \in 1 .. n /\ i <= n /\ (i + 1) - 1 = i
      OBVIOUS
    <2>2. acc[i + 1] = acc[(i + 1) - 1] \o vals[i + 1]
      BY <1>2, <2>1, Zenon
    <2>3. acc[i] \in Seq(S)
      BY <1>4, <2>1
    <2>4. vals[i + 1] \in Seq(S)
      BY <2>1
    <2> QED
      BY <2>1, <2>2, <2>3, <2>4
  <1>5. n \in T
    <2> HIDE DEF T
    <2> QED
      BY <1>3, <1>4, SetInduction
  <1> QED
    BY <1>1, <1>5 DEF Turns

(* The seeds of a field depend on those of earlier fields only.            *)
LEMMA SeedsDepend ==
    ASSUME NEW f, NEW i \in Nat, Earlier(f, i), NEW g, NEW h, \A j \in 1 .. i - 1 : g[j] = h[j]
    PROVE  fieldSeeds(f, g) = fieldSeeds(f, h)
  <1>1. CASE f.kind \in {"sphere", "torus", "wing"}
    BY <1>1 DEF fieldSeeds
  <1>2. CASE f.kind = "transform"
    <2>1. g[f.mFields[1]] = h[f.mFields[1]]
      BY <1>2 DEF Earlier, Operators
    <2> QED
      BY <1>2, <2>1 DEF fieldSeeds
  <1>3. CASE f.kind \in Operators
    <2>1. \A j \in DOMAIN f.mFields : g[f.mFields[j]] = h[f.mFields[j]]
      BY <1>3, HeldBefore DEF Earlier, Operators
    <2>2. [ j \in DOMAIN f.mFields |-> g[f.mFields[j]] ] = [ j \in DOMAIN f.mFields |-> h[f.mFields[j]] ]
      BY <2>1
    <2> QED
      BY <1>3, <2>2 DEF fieldSeeds, Operators
  <1> QED
    BY <1>1, <1>2, <1>3 DEF Earlier

Seeded(fs, g) == g = [ i \in DOMAIN fs |-> fieldSeeds(fs[i], g) ]

(* There are seeds as fieldSeeds says, made in the order of the fields.    *)
LEMMA SeedsExist ==
    ASSUME NEW fs, NEW len \in Nat, DOMAIN fs = 1 .. len, \A i \in 1 .. len : Earlier(fs[i], i)
    PROVE  \E g : Seeded(fs, g)
  <1> DEFINE S == { n \in Nat : n <= len => \E g : g = [ i \in 1 .. n |-> fieldSeeds(fs[i], g) ] }
  <1>1. 0 \in S
    <2>1. << >> = [ i \in 1 .. 0 |-> fieldSeeds(fs[i], << >>) ]
      OBVIOUS
    <2> QED
      BY <2>1
  <1>2. ASSUME NEW n \in Nat, n \in S PROVE n + 1 \in S
    <2> SUFFICES ASSUME n + 1 <= len PROVE \E g : g = [ i \in 1 .. n + 1 |-> fieldSeeds(fs[i], g) ]
      OBVIOUS
    <2>1. PICK g : g = [ i \in 1 .. n |-> fieldSeeds(fs[i], g) ]
      BY <1>2
    <2> DEFINE new == [ i \in 1 .. n + 1 |-> IF i = n + 1 THEN fieldSeeds(fs[i], g) ELSE g[i] ]
    <2>2. \A j \in 1 .. n : new[j] = g[j]
      OBVIOUS
    <2>3. ASSUME NEW i \in 1 .. n + 1 PROVE new[i] = fieldSeeds(fs[i], new)
      <3>1. new[i] = fieldSeeds(fs[i], g)
        BY <2>1
      <3>2. i \in Nat /\ Earlier(fs[i], i) /\ \A j \in 1 .. i - 1 : g[j] = new[j]
        BY <2>2
      <3> HIDE DEF new
      <3> QED
        BY <3>1, <3>2, SeedsDepend
    <2>4. new = [ i \in 1 .. n + 1 |-> fieldSeeds(fs[i], new) ]
      BY <2>3
    <2> HIDE DEF new
    <2> QED
      BY <2>4
  <1>3. len \in S
    <2> HIDE DEF S
    <2> QED
      BY <1>1, <1>2, SetInduction
  <1> QED
    BY <1>3 DEF Seeded

(* getSeeds is what its recursion says. *)
LEMMA SeedsAreRecursive ==
    ASSUME NEW fs, NEW len \in Nat, DOMAIN fs = 1 .. len, \A i \in 1 .. len : Earlier(fs[i], i)
    PROVE  Seeded(fs, getSeeds(fs))
  <1>1. \E g : Seeded(fs, g)
    BY SeedsExist
  <1>2. getSeeds(fs) = CHOOSE g : Seeded(fs, g)
    BY Zenon DEF getSeeds, Seeded
  <1> QED
    BY <1>1, <1>2, Zenon

(* A transform takes the places of a box to those of its image.            *)
LEMMA TransformPlaces ==
    ASSUME NEW f, f.num \in Nat \ {0}, f.den \in Nat \ {0}, f.shift \in Int,
           NEW b, Ends(b), (f.num * b.pMax) % f.den = 0, NEW x \in Places(b)
    PROVE  apply(f, x) \in Places([ pMin |-> apply(f, b.pMin), pMax |-> apply(f, b.pMax) ])
  <1> DEFINE num == f.num
             den == f.den
             low == num * b.pMin
             high == num * b.pMax
             y == num * x
             p == low \div den
             q == high \div den
             r == y \div den
  <1>1. /\ num \in Nat /\ num > 0 /\ den \in Nat /\ den > 0 /\ b.pMin \in Int /\ b.pMax \in Int
        /\ x \in Int /\ b.pMin <= x /\ x + 1 <= b.pMax
    BY DEF Ends, Places
  <1>2. low \in Int /\ high \in Int /\ y \in Int /\ num * (x + 1) = y + num
    BY <1>1, Z3
  <1>3. low <= y
    BY <1>1, Monotone
  <1>4. y + num <= high
    <2>1. num * (x + 1) <= num * b.pMax
      BY <1>1, Monotone
    <2> QED
      BY <1>2, <2>1
  <1>5. /\ apply(f, x) = f.shift + r /\ apply(f, b.pMin) = f.shift + p
        /\ apply(f, b.pMax) = f.shift + q /\ high % den = 0
    BY DEF apply
  <1> HIDE DEF num, den, low, high, y
  <1>6. /\ p \in Int /\ den * p <= low
        /\ r \in Int /\ den * r <= y /\ y < den * r + den
        /\ q \in Int /\ high = den * q
    BY <1>1, <1>2, <1>5, IntQuotient
  <1> HIDE DEF p, q, r
  <1>7. den * p \in Int /\ den * q \in Int /\ den * r \in Int
    BY <1>1, <1>6, Z3
  <1>8. p <= r
    <2> SUFFICES ASSUME r + 1 <= p PROVE FALSE
      BY <1>6
    <2>1. den * (r + 1) <= den * p
      BY <1>1, <1>6, Monotone
    <2>2. den * (r + 1) = den * r + den
      BY <1>1, <1>6, Z3
    <2> QED
      BY <1>1, <1>2, <1>3, <1>6, <1>7, <2>1, <2>2
  <1>9. r < q
    <2> SUFFICES ASSUME q <= r PROVE FALSE
      BY <1>6
    <2>1. den * q <= den * r
      BY <1>1, <1>6, Monotone
    <2> QED
      BY <1>1, <1>2, <1>4, <1>6, <1>7, <2>1
  <1> QED
    BY <1>5, <1>6, <1>8, <1>9 DEF Places

(* The seed of a torus, inside its ring, is in its box. *)
LEMMA TorusSeed ==
    ASSUME NEW c \in Nat, NEW a \in Nat
    PROVE  0 + c - a \in Places([ pMin |-> -c - a - Unit, pMax |-> c + a + Unit ])
  <1>1. 0 + c - a \in Int /\ -c - a - Unit <= 0 + c - a /\ 0 + c - a < c + a + Unit
    BY UnitIsNat
  <1> QED
    BY <1>1 DEF Places

(* Every field has its seeds in its box, short of the far end.             *)
LEMMA SeedsInBoxes ==
    ASSUME NEW fs, NEW len \in Nat, DOMAIN fs = 1 .. len, \A i \in 1 .. len : FieldOK(fs, i)
    PROVE  \A i \in 1 .. len : getSeeds(fs)[i] \in Seq(Places(getBBox(fs)[i]))
  <1> DEFINE g == getSeeds(fs)
             h == getBBox(fs)
  <1>1. \A i \in 1 .. len : Earlier(fs[i], i)
    BY FieldsAreEarlier
  <1>2. \A i \in 1 .. len : g[i] = fieldSeeds(fs[i], g)
    BY <1>1, SeedsAreRecursive DEF Seeded
  <1>3. \A i \in 1 .. len : h[i] = box(fs[i], h)
    BY <1>1, BoxIsRecursive DEF Boxed
  <1>7. \A i \in 1 .. len : Ends(h[i])
    BY FieldsVanish DEF Vanishes
  <1> DEFINE S == { i \in Nat : \A j \in 1 .. i : j <= len => g[j] \in Seq(Places(h[j])) }
  <1>4. 0 \in S
    OBVIOUS
  <1>5. ASSUME NEW n \in Nat, n \in S PROVE n + 1 \in S
    <2> DEFINE i == n + 1
               f == fs[i]
    <2>1. SUFFICES ASSUME i <= len PROVE g[i] \in Seq(Places(h[i]))
      BY <1>5
    <2>2. /\ i \in 1 .. len /\ FieldOK(fs, i) /\ g[i] = fieldSeeds(f, g) /\ h[i] = box(f, h)
          /\ Ends(h[i])
      BY <1>2, <1>3, <1>7, <2>1
    <2>3. \A j \in 1 .. i - 1 : j \in 1 .. len /\ Ends(h[j]) /\ g[j] \in Seq(Places(h[j]))
      BY <1>5, <1>7, <2>1
    <2>4. CASE f.kind = "sphere"
      <3>1. f.centre \in Int /\ f.radius \in Nat
        BY <2>2, <2>4 DEF FieldOK
      <3>2. h[i] = [ pMin |-> f.centre - f.radius - Unit, pMax |-> f.centre + f.radius + Unit ]
        BY <2>2, <2>4 DEF box, expand
      <3> DEFINE e == f.centre - f.radius
                 s == f.centre + f.radius
      <3>5. e \in Int /\ s \in Int /\ e <= s /\ h[i] = [ pMin |-> e - Unit, pMax |-> s + Unit ]
        BY <3>1, <3>2
      <3> HIDE DEF e, s
      <3>6. s \in Places(h[i])
        BY <3>5, UnitIsNat DEF Places
      <3>3. f.centre + f.radius \in Places(h[i])
        BY <3>6 DEF s
      <3>4. g[i] = << f.centre + f.radius >>
        BY <2>2, <2>4 DEF fieldSeeds
      <3> QED
        BY <3>3, <3>4
    <2>5. CASE f.kind = "torus"
      <3>1. f.mC \in Nat /\ f.mA \in Nat /\ f.centre = 0
        BY <2>2, <2>5 DEF FieldOK, Torus
      <3>2. h[i] = [ pMin |-> -f.mC - f.mA - Unit, pMax |-> f.mC + f.mA + Unit ]
        BY <2>2, <2>5 DEF box, expand
      <3> DEFINE c == f.mC
                 a == f.mA
      <3>3. c \in Nat /\ a \in Nat
        BY <3>1
      <3>4. g[i] = << 0 + c - a >> /\ h[i] = [ pMin |-> -c - a - Unit, pMax |-> c + a + Unit ]
        BY <2>2, <2>5, <3>1, <3>2 DEF fieldSeeds
      <3> HIDE DEF c, a
      <3>5. 0 + c - a \in Places([ pMin |-> -c - a - Unit, pMax |-> c + a + Unit ])
        BY <3>3, TorusSeed
      <3> QED
        BY <3>4, <3>5
    <2>6. CASE f.kind = "wing"
      <3>1. f.seed \in Places(f.box)
        BY <2>2, <2>6 DEF FieldOK, Places
      <3>2. g[i] = << f.seed >> /\ h[i] = f.box
        BY <2>2, <2>6 DEF fieldSeeds, box
      <3> QED
        BY <3>1, <3>2
    <2>7. CASE f.kind = "transform"
      <3> DEFINE k == f.mFields[1]
                 s == g[k]
      <3>1. /\ f.num \in Nat \ {0} /\ f.den \in Nat \ {0} /\ f.shift \in Int
            /\ k \in 1 .. i - 1 /\ (f.num * h[k].pMax) % f.den = 0
        BY <2>2, <2>7 DEF FieldOK
      <3>2. s \in Seq(Places(h[k])) /\ Ends(h[k])
        BY <2>3, <3>1
      <3>3. h[i] = [ pMin |-> apply(f, h[k].pMin), pMax |-> apply(f, h[k].pMax) ]
        BY <2>2, <2>7 DEF box
      <3>4. g[i] = [ j \in DOMAIN s |-> apply(f, s[j]) ]
        BY <2>2, <2>7 DEF fieldSeeds
      <3>5. ASSUME NEW j \in DOMAIN s PROVE apply(f, s[j]) \in Places(h[i])
        <4>1. s[j] \in Places(h[k])
          BY <3>2, HeldBefore
        <4> HIDE DEF f, k, s
        <4> QED
          BY <3>1, <3>2, <3>3, <4>1, TransformPlaces
      <3>6. Len(s) \in Nat /\ DOMAIN s = 1 .. Len(s)
        BY <3>2
      <3> DEFINE c == Len(s)
                 P == Places(h[i])
                 v(j) == apply(f, s[j])
      <3>7. c \in Nat /\ g[i] = [ j \in 1 .. c |-> v(j) ] /\ \A j \in 1 .. c : v(j) \in P
        BY <3>4, <3>5, <3>6
      <3> HIDE DEF c, P, v
      <3>8. g[i] \in Seq(P)
        BY <3>7
      <3> QED
        BY <3>8 DEF P
    <2>8. CASE f.kind \notin {"sphere", "torus", "wing", "transform"}
      <3> DEFINE q == f.mFields
                 c == Len(q)
                 vals == [ j \in DOMAIN q |-> g[q[j]] ]
                 boxes == [ j \in DOMAIN q |-> h[q[j]] ]
                 P == Places(h[i])
      <3>1. q \in Seq(1 .. i - 1)
        BY <2>2, <2>8 DEF FieldOK
      <3>2. c \in Nat /\ DOMAIN q = 1 .. c /\ \A j \in 1 .. c : q[j] \in 1 .. i - 1
        <4> HIDE DEF q
        <4> QED
          BY <3>1, HeldBefore
      <3>3. /\ Len(vals) = c /\ \A j \in 1 .. c : vals[j] = g[q[j]]
            /\ Len(boxes) = c /\ \A j \in 1 .. c : boxes[j] = h[q[j]]
        BY <3>2
      <3>4. g[i] = Loop("append", << >>, vals) /\ h[i] = Loop("join", EmptyBox, boxes)
        BY <2>2, <2>8 DEF fieldSeeds, box
      <3> HIDE DEF q, c, vals, boxes, g, h, i, f
      <3>5. Ends(EmptyBox) /\ \A j \in 1 .. c : Ends(boxes[j])
        <4>1. Ends(EmptyBox)
          BY UnitIsNat DEF Ends
        <4>2. \A j \in 1 .. c : Ends(boxes[j])
          BY <2>3, <3>2, <3>3
        <4> QED
          BY <4>1, <4>2
      <3>6. \A j \in 1 .. c : Within(boxes[j], h[i])
        <4>1. Len(boxes) = c
          BY <3>3
        <4> QED
          BY <3>2, <3>4, <3>5, <4>1, JoinContains
      <3>7. ASSUME NEW j \in 1 .. c PROVE vals[j] \in Seq(P)
        <4>1. vals[j] \in Seq(Places(boxes[j]))
          BY <2>3, <3>2, <3>3
        <4>2. Places(boxes[j]) \subseteq P
          BY <2>2, <3>5, <3>6 DEF Places, Ends, Within
        <4> DEFINE Q == Places(boxes[j])
        <4> HIDE DEF Q, P
        <4>3. vals[j] \in Seq(Q) /\ Q \subseteq P
          BY <4>1, <4>2 DEF Q
        <4> QED
          BY <4>3
      <3> HIDE DEF P
      <3>8. g[i] \in Seq(P)
        BY <3>2, <3>3, <3>4, <3>7, Appended
      <3> QED
        BY <3>8 DEF P
    <2> QED
      BY <2>4, <2>5, <2>6, <2>7, <2>8
  <1>6. len \in S
    <2> HIDE DEF S
    <2> QED
      BY <1>4, <1>5, SetInduction
  <1> QED
    BY <1>6

-----------------------------------------------------------------------------
(* Operators and trees: what pruning keeps.                                *)
(* Two values a comparison with the iso value does not tell apart.         *)
SameSide(a, b) == \A c \in {Iso, Iso + 1} : (a >= c) <=> (b >= c)

(* What insert keeps is what was not null.                                *)
LEMMA Inserts ==
    ASSUME NEW n \in Nat, NEW vals, Len(vals) = n, \A j \in 1 .. n : vals[j] \in Nat
    PROVE  NotNull(Loop("insert", << >>, vals), n, vals)
  <1> DEFINE P == [ v \in Nat |-> 0 ]
  <1>1. \A j \in 1 .. n : vals[j] # Null => P[vals[j]] \in Int
    OBVIOUS
  <1> HIDE DEF P
  <1> QED
    BY <1>1, InsertKeepsSum

(* The children of a node come before it.                                 *)
LEMMA ChildrenAreEarlier ==
    ASSUME NEW list \in Seq(Int), NEW i \in Nat, \A j \in DOMAIN list : list[j] \in -1 .. i - 2
    PROVE  addChildren(list) \in Seq(1 .. i - 1)
  <1> DEFINE n == Len(list)
             vals == [ j \in 1 .. n |-> list[j] + 1 ]
             kept == Loop("insert", << >>, vals)
  <1>1. n \in Nat /\ DOMAIN list = 1 .. n
    OBVIOUS
  <1>2. addChildren(list) = kept
    BY <1>1 DEF addChildren
  <1>3. Len(vals) = n /\ \A j \in 1 .. n : vals[j] \in 0 .. i - 1
    BY <1>1
  <1> HIDE DEF vals
  <1>4. /\ kept \in Seq(Nat)
        /\ \A k \in 1 .. Len(kept) : kept[k] # Null /\ (\E j \in 1 .. n : kept[k] = vals[j])
    BY <1>1, <1>3, Inserts DEF NotNull
  <1> HIDE DEF kept
  <1>5. \A k \in 1 .. Len(kept) : kept[k] \in 1 .. i - 1
    BY <1>3, <1>4 DEF Null
  <1>6. Len(kept) \in Nat /\ kept = [ k \in 1 .. Len(kept) |-> kept[k] ]
    BY <1>4
  <1>7. kept \in Seq(1 .. i - 1)
    BY <1>5, <1>6
  <1> QED
    BY <1>2, <1>7

(* An operator may drop those of n values v whose field subs is null: they *)
(* are zero, and of an intersection one that is outside the surface stays. *)
(* In q are the values of the fields that stay.                            *)
MayDrop(kind, n, subs, v, q) ==
    /\ Len(subs) = n /\ \A j \in 1 .. n : subs[j] \in Nat
    /\ Len(v) = n /\ \A j \in 1 .. n : v[j] \in Nat
    /\ \A j \in 1 .. n : subs[j] = Null => v[j] = 0
    /\ \A j \in 1 .. n : subs[j] # Null => q[subs[j]] \in Int /\ SameSide(q[subs[j]], v[j])
    /\ kind = "blend" => \A j \in 1 .. n : subs[j] # Null => q[subs[j]] = v[j]
    /\ kind = "intersection" =>
          /\ \E j \in 1 .. n : subs[j] # Null
          /\ (\E j \in 1 .. n : subs[j] = Null) => (\E j \in 1 .. n : subs[j] # Null /\ v[j] < Iso)

(* What an operator makes of the values it keeps is on the side of what it *)
(* makes of all.                                                           *)
LEMMA KeptAgrees ==
    ASSUME NEW kind \in Operators, NEW n \in Nat, NEW subs, NEW v, NEW q, MayDrop(kind, n, subs, v, q)
    PROVE  LET pruned == Combined(kind, Over(q, Loop("insert", << >>, subs)))
               whole  == Combined(kind, v)
           IN  pruned \in Int /\ SameSide(pruned, whole) /\ (kind = "blend" => pruned = whole)
  <1> DEFINE kept == Loop("insert", << >>, subs)
             m == Len(kept)
             w == Over(q, kept)
             pruned == Combined(kind, w)
             whole == Combined(kind, v)
             terms == [ j \in 1 .. n |-> IF subs[j] = Null THEN 0 ELSE q[subs[j]] ]
  <1>13. /\ Len(subs) = n /\ \A j \in 1 .. n : subs[j] \in Nat
         /\ Len(v) = n /\ \A j \in 1 .. n : v[j] \in Nat
         /\ \A j \in 1 .. n : subs[j] = Null => v[j] = 0
         /\ \A j \in 1 .. n : subs[j] # Null => q[subs[j]] \in Int /\ SameSide(q[subs[j]], v[j])
    BY DEF MayDrop
  <1>14. kind = "blend" => \A j \in 1 .. n : subs[j] # Null => q[subs[j]] = v[j]
    BY DEF MayDrop
  <1>15. kind = "intersection" =>
            /\ \E j \in 1 .. n : subs[j] # Null
            /\ (\E j \in 1 .. n : subs[j] = Null) => (\E j \in 1 .. n : subs[j] # Null /\ v[j] < Iso)
    BY DEF MayDrop
  <1>1. NotNull(kept, n, subs) /\ Loop("sum", 0, w) = Loop("sum", 0, terms)
    BY <1>13, InsertKeepsSum
  <1>0. SUFFICES pruned \in Int /\ SameSide(pruned, whole) /\ (kind = "blend" => pruned = whole)
    OBVIOUS
  <1> HIDE DEF kept, pruned, whole
  <1>2. m \in Nat /\ DOMAIN kept = 1 .. m
    BY <1>1 DEF NotNull
  <1>3. Len(w) = m /\ \A k \in 1 .. m : w[k] = q[kept[k]]
    BY <1>2 DEF Over
  <1>4. \A k \in 1 .. m : \E j \in 1 .. n : subs[j] # Null /\ w[k] = q[subs[j]]
    <2> SUFFICES ASSUME NEW k \in 1 .. m PROVE \E j \in 1 .. n : subs[j] # Null /\ w[k] = q[subs[j]]
      OBVIOUS
    <2>1. PICK j \in 1 .. n : kept[k] = subs[j] /\ kept[k] # Null
      BY <1>1 DEF NotNull
    <2> QED
      BY <1>3, <2>1
  <1>5. \A j \in 1 .. n : subs[j] # Null => \E k \in 1 .. m : w[k] = q[subs[j]]
    <2> SUFFICES ASSUME NEW j \in 1 .. n, subs[j] # Null PROVE \E k \in 1 .. m : w[k] = q[subs[j]]
      OBVIOUS
    <2>1. PICK k \in 1 .. m : kept[k] = subs[j]
      BY <1>1 DEF NotNull
    <2> QED
      BY <1>3, <2>1
  <1>6. \A k \in 1 .. m : w[k] \in Int
    BY <1>4, <1>13
  <1>7. Iso \in Nat /\ Iso >= 1
    BY IsoAssumption
  <1>8. \A c \in {Iso, Iso + 1} : \A j \in 1 .. n :
           /\ subs[j] # Null => ((q[subs[j]] >= c) <=> (v[j] >= c))
           /\ subs[j] = Null => ~(v[j] >= c)
    BY <1>7, <1>13 DEF SameSide
  <1>9. Len(v) = n /\ \A j \in 1 .. n : v[j] \in Int
    BY <1>13
  <1> HIDE DEF w, m
  <1>10. CASE kind = "union"
    <2>1. pruned = Loop("max", -1, w) /\ whole = Loop("max", -1, v) /\ -1 \in Int
      BY <1>10 DEF Combined, Union, NegInfinity, pruned, whole
    <2>2. /\ pruned \in Int
          /\ \A c \in Int : (pruned >= c) <=> (-1 >= c \/ (\E k \in 1 .. m : w[k] >= c))
      <3>1. m \in Nat /\ Len(w) = m /\ \A k \in 1 .. m : w[k] \in Int
        BY <1>2, <1>3, <1>6
      <3>2. -1 \in Int
        OBVIOUS
      <3>3. /\ Loop("max", -1, w) \in Int
            /\ \A c \in Int : (Loop("max", -1, w) >= c) <=> (-1 >= c \/ (\E k \in 1 .. m : w[k] >= c))
        BY <3>1, <3>2, MaxReaches
      <3> QED
        BY <2>1, <3>3
    <2>3. \A c \in Int : (whole >= c) <=> (-1 >= c \/ (\E j \in 1 .. n : v[j] >= c))
      BY <1>9, <2>1, MaxReaches
    <2>4. ASSUME NEW c \in {Iso, Iso + 1} PROVE (pruned >= c) <=> (whole >= c)
      <3>1. c \in Int /\ ~(-1 >= c)
        BY <1>7
      <3>2. ASSUME NEW k \in 1 .. m, w[k] >= c PROVE \E j \in 1 .. n : v[j] >= c
        <4>1. PICK j \in 1 .. n : subs[j] # Null /\ w[k] = q[subs[j]]
          BY <1>4
        <4> QED
          BY <1>8, <3>2, <4>1
      <3>3. ASSUME NEW j \in 1 .. n, v[j] >= c PROVE \E k \in 1 .. m : w[k] >= c
        <4>1. subs[j] # Null /\ q[subs[j]] >= c
          BY <1>8, <3>3
        <4> QED
          BY <1>5, <4>1
      <3> QED
        BY <2>2, <2>3, <3>1, <3>2, <3>3
    <2> QED
      BY <1>10, <2>2, <2>4 DEF SameSide
  <1>11. CASE kind = "intersection"
    <2>1. pruned = Loop("min", Infinity, w) /\ whole = Loop("min", Infinity, v) /\ Infinity \in Int
      BY <1>11, UnitIsNat DEF Combined, Intersection, pruned, whole
    <2>2. /\ pruned \in Int
          /\ \A c \in Int : (pruned >= c) <=> (Infinity >= c /\ (\A k \in 1 .. m : w[k] >= c))
      BY <1>2, <1>3, <1>6, <2>1, MinReaches
    <2>3. \A c \in Int : (whole >= c) <=> (Infinity >= c /\ (\A j \in 1 .. n : v[j] >= c))
      BY <1>9, <2>1, MinReaches
    <2>4. ASSUME NEW c \in {Iso, Iso + 1} PROVE (pruned >= c) <=> (whole >= c)
      <3>1. c \in Int
        BY <1>7
      <3>2. CASE \A j \in 1 .. n : subs[j] # Null
        <4>1. ASSUME \A k \in 1 .. m : w[k] >= c, NEW j \in 1 .. n PROVE v[j] >= c
          <5>1. PICK k \in 1 .. m : w[k] = q[subs[j]]
            BY <1>5, <3>2
          <5> QED
            BY <1>8, <3>2, <4>1, <5>1
        <4>2. ASSUME \A j \in 1 .. n : v[j] >= c, NEW k \in 1 .. m PROVE w[k] >= c
          <5>1. PICK j \in 1 .. n : subs[j] # Null /\ w[k] = q[subs[j]]
            BY <1>4
          <5> QED
            BY <1>8, <4>2, <5>1
        <4> QED
          BY <2>2, <2>3, <3>1, <4>1, <4>2
      <3>3. CASE \E j \in 1 .. n : subs[j] = Null
        <4>1. ~(whole >= c)
          BY <1>8, <2>3, <3>1, <3>3
        <4>2. PICK j \in 1 .. n : subs[j] # Null /\ v[j] < Iso
          BY <1>11, <1>15, <3>3
        <4>3. ~(v[j] >= c)
          BY <1>7, <1>9, <4>2
        <4>4. ~(q[subs[j]] >= c)
          BY <1>8, <4>2, <4>3
        <4>5. PICK k \in 1 .. m : w[k] = q[subs[j]]
          BY <1>5, <4>2
        <4>6. ~(pruned >= c)
          BY <2>2, <3>1, <4>4, <4>5
        <4> QED
          BY <4>1, <4>6
      <3> QED
        BY <3>2, <3>3
    <2> QED
      BY <1>11, <2>2, <2>4 DEF SameSide
  <1>12. CASE kind = "blend"
    <2>1. pruned = Loop("sum", 0, w) /\ whole = Loop("sum", 0, v)
      BY <1>12 DEF Combined, Blend, pruned, whole
    <2>2. \A j \in 1 .. n : terms[j] = v[j]
      <3>1. \A j \in 1 .. n : subs[j] = Null => v[j] = 0
        BY <1>13
      <3>2. \A j \in 1 .. n : subs[j] # Null => q[subs[j]] = v[j]
        BY <1>12, <1>14
      <3> QED
        BY <3>1, <3>2
    <2>3. Len(terms) = n /\ \A j \in 1 .. n : terms[j] \in Nat
      BY <1>13, <2>2
    <2>4. Loop("sum", 0, terms) \in Nat
      <3> HIDE DEF terms
      <3> QED
        BY <2>3, SumOfNats
    <2>5. Loop("sum", 0, terms) = Loop("sum", 0, v)
      <3> HIDE DEF terms
      <3>1. PICK a : Turns("sum", 0, n, terms, a)
        BY <2>3, LoopSteps, Zenon
      <3>2. PICK b : Turns("sum", 0, n, v, b)
        BY <1>9, LoopSteps, Zenon
      <3> DEFINE S == { i \in Nat : i <= n => a[i] = b[i] }
      <3>3. 0 \in S
        BY <3>1, <3>2 DEF Turns
      <3>4. ASSUME NEW i \in Nat, i \in S PROVE i + 1 \in S
        <4> SUFFICES ASSUME i + 1 <= n PROVE a[i + 1] = b[i + 1]
          OBVIOUS
        <4>1. i + 1 \in 1 .. n /\ i + 1 - 1 = i /\ a[i] = b[i]
          BY <3>4
        <4>2. a[i + 1] = a[i] + terms[i + 1] /\ b[i + 1] = b[i] + v[i + 1]
          BY <3>1, <3>2, <4>1 DEF Turns, Taken
        <4> QED
          BY <2>2, <4>1, <4>2
      <3>5. n \in S
        <4> HIDE DEF S
        <4> QED
          BY <3>3, <3>4, SetInduction
      <3> QED
        BY <3>1, <3>2, <3>5 DEF Turns
    <2>6. Loop("sum", 0, w) = Loop("sum", 0, terms)
      BY <1>1
    <2> HIDE DEF terms
    <2>7. pruned = whole /\ pruned \in Int
      BY <2>1, <2>4, <2>5, <2>6
    <2> QED
      BY <1>12, <2>7 DEF SameSide
  <1> QED
    BY <1>10, <1>11, <1>12 DEF Operators

Kids(m, i) == addChildren(m.tree[i])

(* What ModelOK says of the shape of a tree. *)
LEMMA ShapeOfModel ==
    ASSUME NEW m, ModelOK(m, Iso)
    PROVE  /\ Len(m.fields) \in Nat /\ DOMAIN m.fields = 1 .. Len(m.fields)
           /\ Len(m.inserted) \in Nat \ {0} /\ DOMAIN m.inserted = 1 .. Len(m.inserted)
           /\ Len(m.tree) = Len(m.inserted)
           /\ m.mFieldTree = m.inserted[Len(m.inserted)]
           /\ \A i \in 1 .. Len(m.fields) : FieldOK(m.fields, i) /\ Earlier(m.fields[i], i)
           /\ \A i \in 1 .. Len(m.inserted) :
                 /\ m.inserted[i] \in 1 .. Len(m.fields)
                 /\ Kids(m, i) \in Seq(1 .. i - 1)
                 /\ NodeOK(m, i, Iso)
  <1>1. Len(m.fields) \in Nat /\ DOMAIN m.fields = 1 .. Len(m.fields)
    BY DEF ModelOK
  <1>2. Len(m.inserted) \in Nat \ {0} /\ DOMAIN m.inserted = 1 .. Len(m.inserted)
    BY DEF ModelOK
  <1>3. \A i \in DOMAIN m.inserted : m.inserted[i] \in DOMAIN m.fields
    BY HeldBefore DEF ModelOK
  <1>4. ASSUME NEW i \in 1 .. Len(m.inserted) PROVE Kids(m, i) \in Seq(1 .. i - 1)
    <2>1. NodeOK(m, i, Iso)
      BY <1>2, Zenon DEF ModelOK
    <2>0. m.tree \in Seq(Seq(Int)) /\ Len(m.tree) = Len(m.inserted)
      BY DEF ModelOK
    <2> DEFINE lists == m.tree
               S == Seq(Int)
    <2>2. lists[i] \in S
      <3>1. lists \in Seq(S) /\ Len(lists) = Len(m.inserted)
        BY <2>0
      <3> HIDE DEF lists, S
      <3> QED
        BY <3>1
    <2>3. \A j \in DOMAIN m.tree[i] : m.tree[i][j] \in -1 .. i - 2
      BY <2>1 DEF NodeOK
    <2> QED
      BY <2>2, <2>3, ChildrenAreEarlier DEF Kids
  <1>5. \A i \in 1 .. Len(m.fields) : FieldOK(m.fields, i)
    BY <1>1, Zenon DEF ModelOK
  <1>6. \A i \in 1 .. Len(m.fields) : Earlier(m.fields[i], i)
    BY <1>5, FieldsAreEarlier
  <1>7. \A i \in 1 .. Len(m.inserted) : NodeOK(m, i, Iso)
    BY <1>2, Zenon DEF ModelOK
  <1>8. Len(m.tree) = Len(m.inserted) /\ m.mFieldTree = m.inserted[Len(m.inserted)]
    BY DEF ModelOK
  <1> QED
    BY <1>1, <1>2, <1>3, <1>4, <1>5, <1>6, <1>7, <1>8

(* The box of a node. *)
NodeBox(m, i, g) ==
    Loop("join", getBBox(m.fields)[m.inserted[i]], [ j \in DOMAIN Kids(m, i) |-> g[Kids(m, i)[j]] ])
NodesBoxed(m, g) == g = [ i \in DOMAIN m.inserted |-> NodeBox(m, i, g) ]

(* The box of a node depends on those of earlier nodes only.              *)
LEMMA NodeBoxDepends ==
    ASSUME NEW m, NEW i \in Nat, Kids(m, i) \in Seq(1 .. i - 1), NEW g, NEW h,
           \A j \in 1 .. i - 1 : g[j] = h[j]
    PROVE  NodeBox(m, i, g) = NodeBox(m, i, h)
  <1>1. \A j \in DOMAIN Kids(m, i) : g[Kids(m, i)[j]] = h[Kids(m, i)[j]]
    BY HeldBefore
  <1>2. [ j \in DOMAIN Kids(m, i) |-> g[Kids(m, i)[j]] ] = [ j \in DOMAIN Kids(m, i) |-> h[Kids(m, i)[j]] ]
    BY <1>1
  <1> QED
    BY <1>2 DEF NodeBox

(* There are such boxes, made in the order of the nodes.                  *)
LEMMA NodeBoxesExist ==
    ASSUME NEW m, ModelOK(m, Iso)
    PROVE  \E g : NodesBoxed(m, g)
  <1> DEFINE len == Len(m.inserted)
             S == { n \in Nat : n <= len => \E g : g = [ i \in 1 .. n |-> NodeBox(m, i, g) ] }
  <1>0. /\ len \in Nat /\ DOMAIN m.inserted = 1 .. len
        /\ \A i \in 1 .. len : Kids(m, i) \in Seq(1 .. i - 1)
    BY ShapeOfModel
  <1> HIDE DEF len
  <1>1. 0 \in S
    <2>1. << >> = [ i \in 1 .. 0 |-> NodeBox(m, i, << >>) ]
      OBVIOUS
    <2> QED
      BY <2>1
  <1>2. ASSUME NEW n \in Nat, n \in S PROVE n + 1 \in S
    <2> SUFFICES ASSUME n + 1 <= len PROVE \E g : g = [ i \in 1 .. n + 1 |-> NodeBox(m, i, g) ]
      OBVIOUS
    <2>1. PICK g : g = [ i \in 1 .. n |-> NodeBox(m, i, g) ]
      BY <1>0, <1>2
    <2> DEFINE new == [ i \in 1 .. n + 1 |-> IF i = n + 1 THEN NodeBox(m, i, g) ELSE g[i] ]
    <2>2. \A j \in 1 .. n : new[j] = g[j]
      OBVIOUS
    <2>3. ASSUME NEW i \in 1 .. n + 1 PROVE new[i] = NodeBox(m, i, new)
      <3>1. new[i] = NodeBox(m, i, g)
        BY <2>1
      <3>2. i \in Nat /\ Kids(m, i) \in Seq(1 .. i - 1) /\ \A j \in 1 .. i - 1 : g[j] = new[j]
        BY <1>0, <2>2
      <3> HIDE DEF new
      <3> QED
        BY <3>1, <3>2, NodeBoxDepends
    <2>4. new = [ i \in 1 .. n + 1 |-> NodeBox(m, i, new) ]
      BY <2>3
    <2> HIDE DEF new
    <2> QED
      BY <2>4
  <1>3. len \in S
    <2> HIDE DEF S
    <2> QED
      BY <1>0, <1>1, <1>2, SetInduction
  <1> QED
    BY <1>0, <1>3 DEF NodesBoxed

(* nodeBoxes is what its recursion says.                                  *)
LEMMA NodeBoxIsRecursive ==
    ASSUME NEW m, ModelOK(m, Iso)
    PROVE  NodesBoxed(m, nodeBoxes(m))
  <1>1. \E g : NodesBoxed(m, g)
    BY NodeBoxesExist
  <1>2. nodeBoxes(m) = CHOOSE g : NodesBoxed(m, g)
    BY Zenon DEF nodeBoxes, NodesBoxed, NodeBox, Kids
  <1> QED
    BY <1>1, <1>2, Zenon

(* A node's box contains that of its field, and those of its children. *)
LEMMA NodeBoxHoldsField ==
    ASSUME NEW m, ModelOK(m, Iso)
    PROVE  \A i \in 1 .. Len(m.inserted) :
              LET b == getBBox(m.fields)[m.inserted[i]]
              IN  /\ Ends(b) /\ Ends(nodeBoxes(m)[i]) /\ Within(b, nodeBoxes(m)[i])
                  /\ \A j \in DOMAIN Kids(m, i) : Within(nodeBoxes(m)[Kids(m, i)[j]], nodeBoxes(m)[i])
  <1> DEFINE len == Len(m.inserted)
             b(i) == getBBox(m.fields)[m.inserted[i]]
             g == nodeBoxes(m)
             good(i) == /\ Ends(b(i)) /\ Ends(g[i]) /\ Within(b(i), g[i])
                        /\ \A j \in DOMAIN Kids(m, i) : Within(g[Kids(m, i)[j]], g[i])
             S == { n \in Nat : \A i \in 1 .. n : i <= len => good(i) }
  <1>1. /\ len \in Nat /\ DOMAIN m.inserted = 1 .. len
        /\ \A i \in 1 .. len : Kids(m, i) \in Seq(1 .. i - 1) /\ m.inserted[i] \in 1 .. Len(m.fields)
    BY ShapeOfModel
  <1>2. \A i \in 1 .. len : g[i] = NodeBox(m, i, g)
    BY <1>1, NodeBoxIsRecursive DEF NodesBoxed
  <1>3. \A i \in 1 .. len : Ends(b(i))
    <2>1. \A k \in 1 .. Len(m.fields) : Vanishes(eval(m.fields)[k], getBBox(m.fields)[k])
      BY ShapeOfModel, FieldsVanish
    <2> QED
      BY <1>1, <2>1 DEF Vanishes
  <1> HIDE DEF len, g
  <1>4. 0 \in S
    OBVIOUS
  <1>5. ASSUME NEW n \in Nat, n \in S PROVE n + 1 \in S
    <2> DEFINE i == n + 1
    <2> SUFFICES ASSUME i <= len PROVE good(i)
      BY <1>5
    <2>1. i \in 1 .. len /\ \A j \in 1 .. i - 1 : good(j)
      <3> HIDE DEF good
      <3>1. \A j \in 1 .. n : j <= len => good(j)
        BY <1>5
      <3>2. n + 1 \in 1 .. len /\ 1 .. i - 1 = 1 .. n /\ \A j \in 1 .. n : j <= len
        BY <1>1
      <3> QED
        BY <3>1, <3>2
    <2> DEFINE kids == Kids(m, i)
               vals == [ j \in DOMAIN kids |-> g[kids[j]] ]
    <2>2. kids \in Seq(1 .. i - 1)
      BY <1>1, <2>1
    <2>3. Len(kids) \in Nat /\ DOMAIN kids = 1 .. Len(kids) /\ \A j \in DOMAIN kids : kids[j] \in 1 .. i - 1
      BY <2>2, HeldBefore
    <2>4. Len(vals) = Len(kids) /\ \A j \in 1 .. Len(kids) : Ends(vals[j])
      BY <2>1, <2>3
    <2>5. g[i] = Loop("join", b(i), vals)
      BY <1>2, <2>1 DEF NodeBox
    <2>8. \A j \in DOMAIN kids : vals[j] = g[kids[j]]
      OBVIOUS
    <2> HIDE DEF vals, b
    <2>6. Ends(b(i))
      BY <1>3, <2>1
    <2>7. /\ Ends(g[i]) /\ Within(b(i), g[i])
          /\ \A j \in 1 .. Len(kids) : Within(vals[j], g[i])
      <3> HIDE DEF kids
      <3> QED
        BY <2>3, <2>4, <2>5, <2>6, JoinContains
    <2> QED
      BY <2>3, <2>6, <2>7, <2>8
  <1>6. len \in S
    <2> HIDE DEF S
    <2> QED
      BY <1>1, <1>4, <1>5, SetInduction
  <1>7. \A i \in 1 .. len : good(i)
    BY <1>1, <1>6
  <1> QED
    BY <1>7 DEF len, g

(* The pruned field of node n, or null; those of its children; those that  *)
(* an operator is given; and the fields of the tree with all of them.      *)
PrunedTo(m, n, cell) == subTree(BlobTree(m), n, cell)
Subs(m, n, cell) == [ j \in DOMAIN Kids(m, n) |-> PrunedTo(m, Kids(m, n)[j], cell) ]
Kept(m, n, cell) == Loop("insert", << >>, Subs(m, n, cell))
Pool(m, cell)    == subTrees(BlobTree(m), cell)
Touches(m, n, cell) == overlaps(nodeBoxes(m)[n], cell)

(* A node has a pruned field where its box overlaps the cell.             *)
LEMMA SubsAre ==
    ASSUME NEW m, ModelOK(m, Iso), NEW cell, NEW n \in 1 .. Len(m.inserted)
    PROVE  PrunedTo(m, n, cell) = IF Touches(m, n, cell) THEN Len(m.fields) + n ELSE 0
  <1>1. n \in DOMAIN m.inserted
    BY ShapeOfModel
  <1> QED
    BY <1>1 DEF PrunedTo, subTree, BlobTree, insertNodeTree, Touches, Null

(* The pruned fields of the children come before that of the node.        *)
LEMMA KeptIsEarlier ==
    ASSUME NEW m, ModelOK(m, Iso), NEW cell, NEW n \in 1 .. Len(m.inserted)
    PROVE  /\ Len(Subs(m, n, cell)) = Len(Kids(m, n))
           /\ \A j \in 1 .. Len(Kids(m, n)) : Subs(m, n, cell)[j] \in Nat
           /\ NotNull(Kept(m, n, cell), Len(Kids(m, n)), Subs(m, n, cell))
           /\ Kept(m, n, cell) \in Seq(1 .. Len(m.fields) + n - 1)
  <1> DEFINE kids == Kids(m, n)
             c == Len(kids)
             subs == Subs(m, n, cell)
             kept == Kept(m, n, cell)
             L == Len(m.fields)
  <1>1. kids \in Seq(1 .. n - 1) /\ L \in Nat /\ Len(m.inserted) \in Nat
    BY ShapeOfModel
  <1>2. c \in Nat /\ DOMAIN kids = 1 .. c /\ \A j \in 1 .. c : kids[j] \in 1 .. n - 1
    <2> HIDE DEF kids
    <2> QED
      BY <1>1, HeldBefore
  <1>3. Len(subs) = c /\ \A j \in 1 .. c : subs[j] = PrunedTo(m, kids[j], cell)
    BY <1>2 DEF Subs
  <1> HIDE DEF kids, subs, L
  <1>4. \A j \in 1 .. c : subs[j] \in Nat /\ (subs[j] # 0 => subs[j] \in 1 .. L + n - 1)
    <2> SUFFICES ASSUME NEW j \in 1 .. c
                 PROVE  subs[j] \in Nat /\ (subs[j] # 0 => subs[j] \in 1 .. L + n - 1)
      OBVIOUS
    <2>1. kids[j] \in 1 .. n - 1 /\ kids[j] \in 1 .. Len(m.inserted)
      BY <1>1, <1>2
    <2>2. subs[j] = IF Touches(m, kids[j], cell) THEN L + kids[j] ELSE 0
      BY <1>3, <2>1, SubsAre DEF L
    <2> QED
      BY <1>1, <2>1, <2>2
  <1> HIDE DEF c
  <1>5. NotNull(kept, c, subs)
    <2>1. kept = Loop("insert", << >>, subs)
      BY DEF Kept, subs
    <2> HIDE DEF kept
    <2> QED
      BY <1>2, <1>3, <1>4, <2>1, Inserts
  <1> HIDE DEF kept
  <1>6. kept \in Seq(Nat) /\ \A k \in 1 .. Len(kept) : kept[k] \in 1 .. L + n - 1
    BY <1>4, <1>5 DEF NotNull, Null
  <1>7. kept \in Seq(1 .. L + n - 1)
    <2> DEFINE B == 1 .. L + n - 1
    <2>1. Len(kept) \in Nat /\ kept = [ k \in 1 .. Len(kept) |-> kept[k] ]
      BY <1>6
    <2>2. \A k \in 1 .. Len(kept) : kept[k] \in B
      BY <1>6
    <2> HIDE DEF B
    <2>3. kept \in Seq(B)
      BY <2>1, <2>2
    <2> QED
      BY <2>3 DEF B
  <1> QED
    BY <1>3, <1>4, <1>5, <1>7 DEF c, kids, subs, kept, L

(* A sequence followed by n values.                                       *)
LEMMA Concatenated ==
    ASSUME NEW S, NEW a \in Seq(S), NEW n \in Nat, NEW b, b = [ i \in 1 .. n |-> b[i] ]
    PROVE  /\ DOMAIN (a \o b) = 1 .. Len(a) + n
           /\ \A i \in 1 .. Len(a) : (a \o b)[i] = a[i]
           /\ \A i \in 1 .. n : (a \o b)[Len(a) + i] = b[i]
  <1> DEFINE T == S \cup { b[i] : i \in 1 .. n }
  <1>1. a \in Seq(T) /\ b \in Seq(T) /\ Len(b) = n
    OBVIOUS
  <1> HIDE DEF T
  <1> QED
    BY <1>1

(* The pruned fields follow those of the tree, one for each node.         *)
LEMMA PoolIs ==
    ASSUME NEW m, ModelOK(m, Iso), NEW cell
    PROVE  LET L == Len(m.fields)
               N == Len(m.inserted)
           IN  /\ DOMAIN Pool(m, cell) = 1 .. L + N
               /\ \A i \in 1 .. L : Pool(m, cell)[i] = m.fields[i]
               /\ \A n \in 1 .. N :
                     Pool(m, cell)[L + n] =
                        IF Kids(m, n) = << >> THEN m.fields[m.inserted[n]]
                        ELSE Operator(m.fields[m.inserted[n]].kind, Kept(m, n, cell))
  <1> DEFINE L == Len(m.fields)
             N == Len(m.inserted)
             node(n) == IF Kids(m, n) = << >> THEN m.fields[m.inserted[n]]
                        ELSE Operator(m.fields[m.inserted[n]].kind, Kept(m, n, cell))
             nodes == [ n \in 1 .. N |-> node(n) ]
             S == { m.fields[i] : i \in DOMAIN m.fields }
  <1>1. DOMAIN m.inserted = 1 .. N /\ N \in Nat /\ L \in Nat
    BY ShapeOfModel
  <1>2. m.fields \in Seq(S)
    BY DEF ModelOK
  <1>3. Pool(m, cell) = m.fields \o nodes
    <2>1. subTrees(BlobTree(m), cell) = m.fields \o
             [ n \in DOMAIN m.inserted |->
                 IF Kids(m, n) = << >> THEN m.fields[m.inserted[n]]
                 ELSE Operator(m.fields[m.inserted[n]].kind, Kept(m, n, cell)) ]
      BY Zenon DEF subTrees, BlobTree, insertNodeTree, Kids, Kept, Subs, PrunedTo
    <2> QED
      BY <1>1, <2>1 DEF Pool
  <1>4. nodes = [ n \in 1 .. N |-> nodes[n] ] /\ \A n \in 1 .. N : nodes[n] = node(n)
    OBVIOUS
  <1> HIDE DEF nodes, S, node, L, N
  <1>5. /\ DOMAIN (m.fields \o nodes) = 1 .. L + N
        /\ \A i \in 1 .. L : (m.fields \o nodes)[i] = m.fields[i]
        /\ \A i \in 1 .. N : (m.fields \o nodes)[L + i] = nodes[i]
    BY <1>1, <1>2, <1>4, Concatenated DEF L
  <1> QED
    BY <1>3, <1>4, <1>5 DEF node, L, N

(* What is earlier than a field is earlier than those after it.           *)
LEMMA EarlierGrows ==
    ASSUME NEW f, NEW i \in Nat, NEW k \in Nat, i <= k, Earlier(f, i)
    PROVE  Earlier(f, k)
  <1>1. 1 .. i - 1 \subseteq 1 .. k - 1
    OBVIOUS
  <1>2. f.mFields \in Seq(1 .. i - 1) => f.mFields \in Seq(1 .. k - 1)
    BY <1>1
  <1> QED
    BY <1>1, <1>2 DEF Earlier

(* The pruned fields hold earlier ones, too.                              *)
LEMMA PoolIsEarlier ==
    ASSUME NEW m, ModelOK(m, Iso), NEW cell
    PROVE  \A i \in 1 .. Len(m.fields) + Len(m.inserted) : Earlier(Pool(m, cell)[i], i)
  <1> DEFINE L == Len(m.fields)
             N == Len(m.inserted)
             pool == Pool(m, cell)
  <1>1. /\ L \in Nat /\ N \in Nat
        /\ \A i \in 1 .. L : FieldOK(m.fields, i)
        /\ \A n \in 1 .. N : m.inserted[n] \in 1 .. L /\ NodeOK(m, n, Iso)
    BY ShapeOfModel
  <1>2. /\ \A i \in 1 .. L : pool[i] = m.fields[i]
        /\ \A n \in 1 .. N :
              pool[L + n] = IF Kids(m, n) = << >> THEN m.fields[m.inserted[n]]
                            ELSE Operator(m.fields[m.inserted[n]].kind, Kept(m, n, cell))
    BY PoolIs
  <1>3. \A n \in 1 .. N : Kept(m, n, cell) \in Seq(1 .. L + n - 1)
    BY KeptIsEarlier
  <1> HIDE DEF pool, L, N
  <1> SUFFICES ASSUME NEW i \in 1 .. L + N PROVE Earlier(pool[i], i)
    BY DEF pool, L, N
  <1>4. CASE i \in 1 .. L
    BY <1>1, <1>2, <1>4, FieldsAreEarlier
  <1>5. CASE i \notin 1 .. L
    <2> DEFINE n == i - L
               k == m.inserted[n]
    <2>1. n \in 1 .. N /\ i = L + n
      BY <1>1, <1>5
    <2>2. k \in 1 .. L /\ k \in Nat /\ k <= i /\ i \in Nat /\ Earlier(m.fields[k], k)
      BY <1>1, <2>1, FieldsAreEarlier
    <2> HIDE DEF n
    <2>3. CASE Kids(m, n) = << >>
      <3>1. pool[i] = m.fields[k]
        BY <1>2, <2>1, <2>3
      <3> HIDE DEF k
      <3> QED
        BY <2>2, <3>1, EarlierGrows
    <2>4. CASE Kids(m, n) # << >>
      <3>1. m.fields[k].kind \in Operators
        BY <1>1, <2>1, <2>4 DEF NodeOK, Kids
      <3>2. pool[i] = Operator(m.fields[k].kind, Kept(m, n, cell))
        BY <1>2, <2>1, <2>4
      <3>3. Kept(m, n, cell) \in Seq(1 .. i - 1)
        <4>1. L + n - 1 = i - 1
          BY <1>1, <2>1
        <4>2. Kept(m, n, cell) \in Seq(1 .. L + n - 1)
          BY <1>3, <2>1, Zenon
        <4> QED
          BY <4>1, <4>2, Zenon
      <3> QED
        BY <3>1, <3>2, <3>3 DEF Earlier, Operator
    <2> QED
      BY <2>3, <2>4
  <1> QED
    BY <1>4, <1>5

(* The fields of a tree have the same values among the pruned ones.        *)
LEMMA PoolKeepsFields ==
    ASSUME NEW m, ModelOK(m, Iso), NEW cell
    PROVE  \A i \in 1 .. Len(m.fields) : eval(Pool(m, cell))[i] = eval(m.fields)[i]
  <1> DEFINE len == Len(m.fields)
             N == Len(m.inserted)
             all == len + N
             fs == m.fields
             pool == Pool(m, cell)
             g == eval(pool)
             h == eval(fs)
  <1>1. /\ len \in Nat /\ all \in Nat /\ len <= all /\ DOMAIN fs = 1 .. len
        /\ \A i \in 1 .. len : Earlier(fs[i], i)
    <2>1. /\ len \in Nat /\ N \in Nat /\ DOMAIN fs = 1 .. len
          /\ \A i \in 1 .. len : Earlier(fs[i], i)
      BY ShapeOfModel
    <2> HIDE DEF len, N, fs
    <2> QED
      BY <2>1
  <1>2. /\ DOMAIN pool = 1 .. all /\ \A i \in 1 .. len : pool[i] = fs[i]
        /\ \A i \in 1 .. all : Earlier(pool[i], i)
    BY PoolIs, PoolIsEarlier
  <1> HIDE DEF len, N, all, fs, pool
  <1>3. \A i \in 1 .. all : g[i] = sdf(pool[i], g)
    BY <1>1, <1>2, EvalIsRecursive DEF Valued
  <1>4. \A i \in 1 .. len : h[i] = sdf(fs[i], h)
    BY <1>1, EvalIsRecursive DEF Valued
  <1> HIDE DEF g, h
  <1> DEFINE S == { n \in Nat : \A i \in 1 .. n : i <= len => g[i] = h[i] }
  <1>5. 0 \in S
    OBVIOUS
  <1>6. ASSUME NEW n \in Nat, n \in S PROVE n + 1 \in S
    <2> DEFINE i == n + 1
    <2> SUFFICES ASSUME i <= len PROVE g[i] = h[i]
      BY <1>6
    <2>1. i \in Nat /\ i \in 1 .. len /\ i \in 1 .. all /\ \A j \in 1 .. i - 1 : g[j] = h[j]
      BY <1>1, <1>6
    <2> HIDE DEF i
    <2>2. g[i] = sdf(fs[i], g) /\ h[i] = sdf(fs[i], h)
      BY <1>2, <1>3, <1>4, <2>1
    <2> QED
      BY <1>1, <2>1, <2>2, SdfDepends
  <1>7. len \in S
    <2> HIDE DEF S
    <2> QED
      BY <1>1, <1>5, <1>6, SetInduction
  <1> QED
    BY <1>1, <1>7 DEF g, h, len, pool, fs

(* The values of node n at x, of its field pruned to a cell and whole.     *)
PrunedAt(m, cell, n, x) == eval(Pool(m, cell))[Len(m.fields) + n][x]
WholeAt(m, n, x)        == eval(m.fields)[m.inserted[n]][x]

(* A leaf is not pruned, and its value is that of its field; an operator   *)
(* combines those of the children that the cell touches.                   *)
LEMMA LeafValue ==
    ASSUME NEW m, ModelOK(m, Iso), NEW cell, NEW n \in 1 .. Len(m.inserted), Kids(m, n) = << >>, NEW x
    PROVE  PrunedAt(m, cell, n, x) = WholeAt(m, n, x)
  <1> DEFINE L == Len(m.fields)
             k == m.inserted[n]
             pool == Pool(m, cell)
             g == eval(pool)
             h == eval(m.fields)
             N == Len(m.inserted)
             all == L + N
  <1>1. /\ L \in Nat /\ N \in Nat /\ all \in Nat /\ k \in 1 .. L /\ L + n \in 1 .. all
        /\ DOMAIN m.fields = 1 .. L /\ \A i \in 1 .. L : Earlier(m.fields[i], i)
    <2>1. /\ L \in Nat /\ N \in Nat /\ k \in 1 .. L /\ DOMAIN m.fields = 1 .. L
          /\ \A i \in 1 .. L : Earlier(m.fields[i], i) /\ n \in 1 .. N
      BY ShapeOfModel
    <2> HIDE DEF L, N, k
    <2> QED
      BY <2>1
  <1>2. /\ DOMAIN pool = 1 .. all /\ \A i \in 1 .. all : Earlier(pool[i], i)
        /\ pool[L + n] = m.fields[k]
    BY PoolIs, PoolIsEarlier
  <1>3. \A i \in 1 .. L : g[i] = h[i]
    BY PoolKeepsFields
  <1> HIDE DEF L, N, k, pool, all
  <1>4. g[L + n] = sdf(m.fields[k], g)
    BY <1>1, <1>2, EvalIsRecursive DEF Valued
  <1>5. h[k] = sdf(m.fields[k], h)
    BY <1>1, EvalIsRecursive DEF Valued
  <1> HIDE DEF g, h
  <1>6. sdf(m.fields[k], g) = sdf(m.fields[k], h)
    <2>1. k \in Nat /\ Earlier(m.fields[k], k) /\ \A j \in 1 .. k - 1 : g[j] = h[j]
      BY <1>1, <1>3
    <2> QED
      BY <2>1, SdfDepends
  <1> QED
    BY <1>4, <1>5, <1>6 DEF PrunedAt, WholeAt, L, k, g, h, pool

(* An operator combines what is kept of its children.                     *)
LEMMA OperatorValue ==
    ASSUME NEW m, ModelOK(m, Iso), NEW cell, NEW n \in 1 .. Len(m.inserted), Kids(m, n) # << >>,
           NEW x \in Int
    PROVE  LET kind == m.fields[m.inserted[n]].kind
               all  == 1 .. Len(m.fields) + Len(m.inserted)
               q    == [ i \in all |-> eval(Pool(m, cell))[i][x] ]
           IN  /\ kind \in Operators
               /\ PrunedAt(m, cell, n, x) = Combined(kind, Over(q, Kept(m, n, cell)))
               /\ WholeAt(m, n, x) =
                    Combined(kind, [ j \in DOMAIN Kids(m, n) |-> WholeAt(m, Kids(m, n)[j], x) ])
  <1> DEFINE L == Len(m.fields)
             N == Len(m.inserted)
             k == m.inserted[n]
             f == m.fields[k]
             kind == f.kind
             pool == Pool(m, cell)
             g == eval(pool)
             h == eval(m.fields)
             kids == Kids(m, n)
             kept == Kept(m, n, cell)
             q == [ i \in 1 .. L + N |-> g[i][x] ]
             v == [ j \in DOMAIN kids |-> WholeAt(m, kids[j], x) ]
  <1>0. SUFFICES /\ kind \in Operators
                 /\ PrunedAt(m, cell, n, x) = Combined(kind, Over(q, kept))
                 /\ WholeAt(m, n, x) = Combined(kind, v)
    OBVIOUS
  <1>1. /\ L \in Nat /\ N \in Nat /\ k \in 1 .. L /\ L + n \in 1 .. L + N
        /\ DOMAIN m.fields = 1 .. L /\ \A i \in 1 .. L : Earlier(m.fields[i], i)
        /\ NodeOK(m, n, Iso)
    <2>1. /\ L \in Nat /\ N \in Nat /\ k \in 1 .. L /\ DOMAIN m.fields = 1 .. L
          /\ \A i \in 1 .. L : Earlier(m.fields[i], i)
          /\ NodeOK(m, n, Iso) /\ n \in 1 .. N
      BY ShapeOfModel
    <2> HIDE DEF L, N, k
    <2> QED
      BY <2>1
  <1>2. /\ DOMAIN pool = 1 .. L + N /\ \A i \in 1 .. L + N : Earlier(pool[i], i)
        /\ pool[L + n] = Operator(kind, kept)
    BY PoolIs, PoolIsEarlier
  <1>3. kept \in Seq(1 .. L + n - 1)
    BY KeptIsEarlier
  <1>4. kind \in Operators /\ f.mFields = [ j \in DOMAIN kids |-> m.inserted[kids[j]] ]
    BY <1>1 DEF NodeOK, Kids
  <1>5. kind \notin {"sphere", "torus", "wing", "transform"}
    BY <1>4 DEF Operators
  <1> HIDE DEF L, N, pool, kids, kept
  <1>6. g[L + n] = sdf(Operator(kind, kept), g)
    <2>1. L + N \in Nat
      BY <1>1
    <2>2. Valued(pool, g)
      BY <1>2, <2>1, EvalIsRecursive
    <2> HIDE DEF g, kind
    <2> QED
      BY <1>1, <1>2, <2>2 DEF Valued
  <1>7. h[k] = sdf(f, h)
    <2>1. Valued(m.fields, h)
      BY <1>1, EvalIsRecursive
    <2> HIDE DEF h, k
    <2> QED
      BY <1>1, <2>1 DEF Valued
  <1>8. sdf(f, h)[x] = Combined(kind, [ j \in DOMAIN f.mFields |-> h[f.mFields[j]][x] ])
    <2> HIDE DEF h, k
    <2> QED
      BY <1>5 DEF sdf
  <1>9. [ j \in DOMAIN f.mFields |-> h[f.mFields[j]][x] ] = v
    <2>1. DOMAIN f.mFields = DOMAIN kids /\ \A j \in DOMAIN kids : f.mFields[j] = m.inserted[kids[j]]
      BY <1>4
    <2>2. \A j \in DOMAIN kids : WholeAt(m, kids[j], x) = h[m.inserted[kids[j]]][x]
      BY DEF WholeAt
    <2> HIDE DEF f, h
    <2> QED
      BY <2>1, <2>2
  <1>10. sdf(Operator(kind, kept), g)[x] = Combined(kind, [ j \in DOMAIN kept |-> g[kept[j]][x] ])
    <2>1. Operator(kind, kept).kind = kind /\ Operator(kind, kept).mFields = kept
      BY DEF Operator
    <2> HIDE DEF g, kind
    <2> QED
      BY <1>5, <2>1 DEF sdf
  <1>11. [ j \in DOMAIN kept |-> g[kept[j]][x] ] = Over(q, kept)
    <2>1. \A j \in DOMAIN kept : kept[j] \in 1 .. L + n - 1
      BY <1>3, HeldBefore
    <2>2. \A j \in DOMAIN kept : kept[j] \in 1 .. L + N
      BY <1>1, <2>1
    <2>3. \A j \in DOMAIN kept : q[kept[j]] = g[kept[j]][x]
      BY <2>2
    <2> HIDE DEF q, g
    <2> QED
      BY <2>3 DEF Over
  <1>12. PrunedAt(m, cell, n, x) = g[L + n][x] /\ WholeAt(m, n, x) = h[k][x]
    BY DEF PrunedAt, WholeAt, L, pool
  <1> HIDE DEF g, h, q, v, k, f, kind
  <1> QED
    BY <1>4, <1>6, <1>7, <1>8, <1>9, <1>10, <1>11, <1>12

Inside(x, b) == b.pMin <= x /\ x <= b.pMax

(* A node's value is a number, and none where its box is not.              *)
LEMMA WholeVanishes ==
    ASSUME NEW m, ModelOK(m, Iso), NEW n \in 1 .. Len(m.inserted), NEW x \in Int
    PROVE  /\ WholeAt(m, n, x) \in Nat
           /\ ~Inside(x, nodeBoxes(m)[n]) => WholeAt(m, n, x) = 0
           /\ Ends(nodeBoxes(m)[n]) /\ nodeBoxes(m)[n].pMin < nodeBoxes(m)[n].pMax
  <1> DEFINE k == m.inserted[n]
             v == eval(m.fields)[k]
             b == getBBox(m.fields)[k]
             nb == nodeBoxes(m)[n]
  <1>1. /\ Len(m.fields) \in Nat /\ DOMAIN m.fields = 1 .. Len(m.fields) /\ k \in 1 .. Len(m.fields)
        /\ \A i \in 1 .. Len(m.fields) : FieldOK(m.fields, i)
    BY ShapeOfModel
  <1>2. Vanishes(v, b)
    <2> HIDE DEF k
    <2> QED
      BY <1>1, FieldsVanish
  <1>3. Ends(b) /\ Ends(nb) /\ Within(b, nb)
    BY NodeBoxHoldsField
  <1>4. WholeAt(m, n, x) = v[x]
    BY DEF WholeAt
  <1> HIDE DEF k, v, b, nb
  <1>5. ~Inside(x, nb) => x <= b.pMin \/ x >= b.pMax
    BY <1>3 DEF Inside, Ends, Within
  <1>6. nb.pMin < nb.pMax
    BY <1>2, <1>3 DEF Ends, Within, Vanishes
  <1> QED
    BY <1>2, <1>3, <1>4, <1>5, <1>6 DEF Vanishes, nb

(* A cell that a point and a box share is one the box overlaps. *)
LEMMA SharedPoint ==
    ASSUME NEW b, Ends(b), NEW cell, Ends(cell), NEW x \in Int, Inside(x, b), Inside(x, cell)
    PROVE  overlaps(b, cell)
  BY DEF overlaps, Inside, Ends

(* A node whose pruned field sums what the whole one does. *)
Plain(m, n) == Kids(m, n) = << >> \/ m.fields[m.inserted[n]].kind = "blend"

Agrees(m, cell, n, x) ==
    Touches(m, n, cell) =>
        /\ PrunedAt(m, cell, n, x) \in Int
        /\ SameSide(PrunedAt(m, cell, n, x), WholeAt(m, n, x))
        /\ Plain(m, n) => PrunedAt(m, cell, n, x) = WholeAt(m, n, x)

(* An intersection that a cell touches keeps a child there; and when it    *)
(* loses one it keeps one that has the point outside the surface.          *)
LEMMA IntersectionKeeps ==
    ASSUME NEW m, ModelOK(m, Iso), NEW n \in 1 .. Len(m.inserted), Kids(m, n) # << >>,
           m.fields[m.inserted[n]].kind = "intersection",
           NEW cell, Ends(cell), NEW x \in Int, Inside(x, cell), Touches(m, n, cell)
    PROVE  LET kid(j) == Kids(m, n)[j]
               c == 1 .. Len(Kids(m, n))
           IN  /\ \E j \in c : Touches(m, kid(j), cell)
               /\ (\E j \in c : ~Touches(m, kid(j), cell)) =>
                     (\E j \in c : Touches(m, kid(j), cell) /\ WholeAt(m, kid(j), x) < Iso)
  <1> DEFINE kids == Kids(m, n)
             kid(j) == kids[j]
             c == 1 .. Len(kids)
             g == nodeBoxes(m)
             b == g[n]
             in(j, y) == g[kid(j)].pMin <= y /\ y <= g[kid(j)].pMax
             low == IF b.pMin < cell.pMin THEN cell.pMin ELSE b.pMin
  <1>0. SUFFICES /\ \E j \in c : Touches(m, kid(j), cell)
                 /\ (\E j \in c : ~Touches(m, kid(j), cell)) =>
                       (\E j \in c : Touches(m, kid(j), cell) /\ WholeAt(m, kid(j), x) < Iso)
    OBVIOUS
  <1>1. NodeOK(m, n, Iso) /\ kids \in Seq(1 .. n - 1) /\ Len(m.inserted) \in Nat
    BY ShapeOfModel
  <1>2. DOMAIN kids = c /\ \A j \in c : kid(j) \in 1 .. n - 1
    <2> HIDE DEF kids
    <2> QED
      BY <1>1, HeldBefore
  <1>3. \A j \in c : kid(j) \in 1 .. Len(m.inserted)
    BY <1>1, <1>2
  <1>4. \A y \in b.pMin .. b.pMax :
           /\ \E j \in c : in(j, y)
           /\ (\E j \in c : ~in(j, y)) => \E j \in c : in(j, y) /\ WholeAt(m, kid(j), y) < Iso
    <2>1. Meet(m, kids, n, Iso)
      BY <1>1 DEF NodeOK, Kids
    <2> QED
      BY <1>2, <2>1, Zenon DEF Meet, WholeAt
  <1>5. /\ \A j \in c : Ends(g[kid(j)]) /\ Within(g[kid(j)], b)
        /\ Ends(b) /\ b.pMin < b.pMax
    BY <1>2, <1>3, NodeBoxHoldsField, WholeVanishes
  <1>6. \A j \in c : Touches(m, kid(j), cell) <=> overlaps(g[kid(j)], cell)
    BY DEF Touches
  <1>7. overlaps(b, cell)
    BY DEF Touches
  <1>8. \A j \in c : \A y \in Int : in(j, y) <=> Inside(y, g[kid(j)])
    BY DEF Inside
  <1> HIDE DEF b, g, kids, c
  <1>9. low \in b.pMin .. b.pMax /\ low \in Int /\ Inside(low, cell)
    BY <1>5, <1>7 DEF overlaps, Inside, Ends
  <1> HIDE DEF low, in
  <1>10. ASSUME NEW j \in c, NEW y \in Int, in(j, y), Inside(y, cell) PROVE Touches(m, kid(j), cell)
    BY <1>5, <1>6, <1>8, <1>10, SharedPoint
  <1>11. PICK j \in c : in(j, low)
    BY <1>4, <1>9
  <1>12. Touches(m, kid(j), cell)
    BY <1>9, <1>10, <1>11
  <1>13. ASSUME NEW l \in c, ~Touches(m, kid(l), cell)
         PROVE  \E i \in c : Touches(m, kid(i), cell) /\ WholeAt(m, kid(i), x) < Iso
    <2>1. ~in(l, x)
      BY <1>10, <1>13
    <2>2. CASE x \in b.pMin .. b.pMax
      <3>1. PICK i \in c : in(i, x) /\ WholeAt(m, kid(i), x) < Iso
        BY <1>4, <2>1, <2>2
      <3> QED
        BY <1>10, <3>1
    <2>3. CASE x \notin b.pMin .. b.pMax
      <3>1. ~Inside(x, g[kid(j)])
        BY <1>5, <2>3 DEF Inside, Ends, Within
      <3>2. WholeAt(m, kid(j), x) = 0
        BY <1>3, <3>1, WholeVanishes DEF g
      <3> QED
        BY <1>12, <3>2, IsoAssumption
    <2> QED
      BY <2>2, <2>3
  <1> QED
    BY <1>12, <1>13

(* A node whose children agree does.                                      *)
LEMMA NodeStep ==
    ASSUME NEW m, ModelOK(m, Iso), NEW n \in 1 .. Len(m.inserted),
           NEW cell, Ends(cell), NEW x \in Int, Inside(x, cell),
           \A i \in 1 .. n - 1 : Agrees(m, cell, i, x)
    PROVE  Agrees(m, cell, n, x)
  <1> SUFFICES ASSUME Touches(m, n, cell) PROVE Agrees(m, cell, n, x)
    BY DEF Agrees
  <1>1. WholeAt(m, n, x) \in Nat
    BY WholeVanishes
  <1>2. CASE Kids(m, n) = << >>
    <2>1. PrunedAt(m, cell, n, x) = WholeAt(m, n, x)
      BY <1>2, LeafValue
    <2> QED
      BY <1>1, <2>1 DEF Agrees, SameSide
  <1>3. CASE Kids(m, n) # << >>
    <2> DEFINE L == Len(m.fields)
               N == Len(m.inserted)
               kind == m.fields[m.inserted[n]].kind
               kids == Kids(m, n)
               c == Len(kids)
               subs == Subs(m, n, cell)
               v == [ j \in DOMAIN kids |-> WholeAt(m, kids[j], x) ]
               q == [ i \in 1 .. L + N |-> eval(Pool(m, cell))[i][x] ]
    <2>1. /\ NodeOK(m, n, Iso) /\ kids \in Seq(1 .. n - 1) /\ N \in Nat /\ L \in Nat
          /\ n \in 1 .. N
      BY ShapeOfModel
    <2>2. c \in Nat /\ DOMAIN kids = 1 .. c /\ \A j \in 1 .. c : kids[j] \in 1 .. n - 1
      <3> HIDE DEF kids
      <3> QED
        BY <2>1, HeldBefore
    <2>3. /\ kind \in Operators
          /\ PrunedAt(m, cell, n, x) = Combined(kind, Over(q, Kept(m, n, cell)))
          /\ WholeAt(m, n, x) = Combined(kind, v)
      BY <1>3, OperatorValue
    <2>4. Len(subs) = c /\ (\A j \in 1 .. c : subs[j] \in Nat) /\ Kept(m, n, cell) = Loop("insert", << >>, subs)
      BY KeptIsEarlier DEF Kept
    <2>5. \A j \in 1 .. c : subs[j] = PrunedTo(m, kids[j], cell)
      BY <2>2 DEF Subs
    <2>6. Len(v) = c /\ \A j \in 1 .. c : v[j] = WholeAt(m, kids[j], x)
      BY <2>2
    <2>7. \A i \in 1 .. L + N : q[i] = eval(Pool(m, cell))[i][x]
      OBVIOUS
    <2>8. kind = "blend" => \A j \in 1 .. c : Plain(m, kids[j])
      BY <1>3, <2>1, <2>2 DEF NodeOK, Plain, Kids
    <2>9. \A i \in 1 .. N : PrunedAt(m, cell, i, x) = eval(Pool(m, cell))[L + i][x]
      BY DEF PrunedAt
    <2>10. kind = "intersection" =>
              /\ \E j \in 1 .. c : Touches(m, kids[j], cell)
              /\ (\E j \in 1 .. c : ~Touches(m, kids[j], cell)) =>
                    (\E j \in 1 .. c : Touches(m, kids[j], cell) /\ WholeAt(m, kids[j], x) < Iso)
      BY <1>3, IntersectionKeeps
    <2> HIDE DEF kids, c, subs, v, q, kind
    <2>11. ASSUME NEW j \in 1 .. c
           PROVE  LET k == kids[j]
                  IN  /\ v[j] \in Nat
                      /\ subs[j] = Null <=> ~Touches(m, k, cell)
                      /\ subs[j] = Null => v[j] = 0
                      /\ subs[j] # Null =>
                            /\ q[subs[j]] \in Int /\ SameSide(q[subs[j]], v[j])
                            /\ kind = "blend" => q[subs[j]] = v[j]
      <3> DEFINE k == kids[j]
      <3>1. k \in 1 .. n - 1 /\ k \in 1 .. N
        <4>1. k \in 1 .. n - 1
          BY <2>2
        <4> HIDE DEF k, N
        <4> QED
          BY <2>1, <4>1
      <3>2. Agrees(m, cell, k, x)
        BY <3>1
      <3>3. subs[j] = IF Touches(m, k, cell) THEN L + k ELSE 0
        BY <2>5, <3>1, SubsAre
      <3>4. v[j] = WholeAt(m, k, x) /\ v[j] \in Nat /\ (~Inside(x, nodeBoxes(m)[k]) => v[j] = 0) /\ Ends(nodeBoxes(m)[k])
        BY <2>6, <3>1, WholeVanishes
      <3>5. L + k # 0 /\ L + k \in 1 .. L + N
        <4> HIDE DEF L, N, k
        <4> QED
          BY <2>1, <3>1
      <3>6. ~Touches(m, k, cell) => v[j] = 0
        <4>1. Inside(x, nodeBoxes(m)[k]) => Touches(m, k, cell)
          BY <3>4, SharedPoint DEF Touches
        <4> QED
          BY <3>4, <4>1
      <3>7. Touches(m, k, cell) => q[subs[j]] = PrunedAt(m, cell, k, x)
        BY <2>7, <2>9, <3>1, <3>3, <3>5
      <3>8. kind = "blend" => Plain(m, k)
        BY <2>8
      <3> HIDE DEF k
      <3>9. subs[j] = Null <=> ~Touches(m, k, cell)
        BY <3>3, <3>5 DEF Null
      <3>10. SUFFICES /\ v[j] \in Nat
                      /\ subs[j] = Null <=> ~Touches(m, k, cell)
                      /\ subs[j] = Null => v[j] = 0
                      /\ subs[j] # Null =>
                            /\ q[subs[j]] \in Int /\ SameSide(q[subs[j]], v[j])
                            /\ kind = "blend" => q[subs[j]] = v[j]
        BY DEF k
      <3> QED
        BY <3>2, <3>4, <3>6, <3>7, <3>8, <3>9 DEF Agrees
    <2>12. kind = "intersection" =>
              /\ \E j \in 1 .. c : subs[j] # Null
              /\ (\E j \in 1 .. c : subs[j] = Null) => (\E j \in 1 .. c : subs[j] # Null /\ v[j] < Iso)
      BY <2>6, <2>10, <2>11
    <2> DEFINE pruned == Combined(kind, Over(q, Loop("insert", << >>, subs)))
               whole  == Combined(kind, v)
    <2>13. pruned \in Int /\ SameSide(pruned, whole) /\ (kind = "blend" => pruned = whole)
      <3>1. MayDrop(kind, c, subs, v, q)
        BY <2>4, <2>6, <2>11, <2>12 DEF MayDrop
      <3> QED
        BY <2>2, <2>3, <3>1, KeptAgrees
    <2>14. Plain(m, n) => kind = "blend"
      BY <1>3 DEF Plain, kind
    <2> QED
      BY <2>3, <2>4, <2>13, <2>14 DEF Agrees
  <1> QED
    BY <1>2, <1>3

(* All nodes agree.                                                       *)
LEMMA NodesAgree ==
    ASSUME NEW m, ModelOK(m, Iso), NEW cell, Ends(cell), NEW x \in Int, Inside(x, cell)
    PROVE  \A n \in 1 .. Len(m.inserted) : Agrees(m, cell, n, x)
  <1> DEFINE N == Len(m.inserted)
             S == { n \in Nat : \A i \in 1 .. n : i <= N => Agrees(m, cell, i, x) }
  <1>1. N \in Nat
    BY ShapeOfModel
  <1>2. 0 \in S
    OBVIOUS
  <1>3. ASSUME NEW n \in Nat, n \in S PROVE n + 1 \in S
    <2> DEFINE i == n + 1
    <2> SUFFICES ASSUME i <= N PROVE Agrees(m, cell, i, x)
      BY <1>3
    <2>1. i \in 1 .. N /\ \A j \in 1 .. i - 1 : Agrees(m, cell, j, x)
      <3> HIDE DEF N
      <3> QED
        BY <1>1, <1>3
    <2> HIDE DEF i
    <2> QED
      BY <2>1, NodeStep
  <1>4. N \in S
    <2> HIDE DEF S, N
    <2> QED
      BY <1>1, <1>2, <1>3, SetInduction
  <1> HIDE DEF N
  <1> QED
    BY <1>1, <1>4 DEF N

(* Pruned to any cell, a tree has every point of the cell on the side it   *)
(* had it on whole.                                                        *)
LEMMA PruningAgrees ==
    ASSUME NEW m, ModelOK(m, Iso), NEW cell, Ends(cell), NEW x \in Int, Inside(x, cell)
    PROVE  /\ Pruning(BlobTree(m), cell)[x] \in Int
           /\ eval(m.fields)[m.mFieldTree][x] \in Nat
           /\ SameSide(Pruning(BlobTree(m), cell)[x], eval(m.fields)[m.mFieldTree][x])
  <1> DEFINE N == Len(m.inserted)
             L == Len(m.fields)
             root == PrunedTo(m, N, cell)
             p == Pruning(BlobTree(m), cell)
             w == eval(m.fields)[m.mFieldTree]
  <1>1. N \in Nat /\ N # 0 /\ L \in Nat /\ Len(m.tree) = N /\ m.mFieldTree = m.inserted[N]
    BY ShapeOfModel
  <1>2. getSubTree(BlobTree(m), cell) = root
    BY <1>1 DEF getSubTree, PrunedTo, BlobTree
  <1>3. p = IF root = Null THEN [ y \in Int |-> 0 ] ELSE eval(Pool(m, cell))[root]
    BY <1>2 DEF Pruning, Pool
  <1>4. N \in 1 .. N
    <2> HIDE DEF N
    <2> QED
      BY <1>1
  <1>5. root = IF Touches(m, N, cell) THEN L + N ELSE 0
    BY <1>4, SubsAre
  <1>6. w[x] = WholeAt(m, N, x)
    BY <1>1 DEF WholeAt
  <1>7. /\ w[x] \in Nat /\ (~Inside(x, nodeBoxes(m)[N]) => w[x] = 0)
        /\ Ends(nodeBoxes(m)[N])
    BY <1>4, <1>6, WholeVanishes
  <1>8. Agrees(m, cell, N, x)
    BY <1>4, NodesAgree
  <1>9. PrunedAt(m, cell, N, x) = eval(Pool(m, cell))[L + N][x]
    BY DEF PrunedAt
  <1>10. L + N # 0
    <2> HIDE DEF N, L
    <2> QED
      BY <1>1
  <1>11. CASE Touches(m, N, cell)
    <2>1. p = eval(Pool(m, cell))[L + N]
      BY <1>3, <1>5, <1>10, <1>11 DEF Null
    <2>2. p[x] = PrunedAt(m, cell, N, x)
      BY <1>9, <2>1
    <2> HIDE DEF p, w, N
    <2> QED
      BY <1>6, <1>7, <1>8, <1>11, <2>2 DEF Agrees, p, w
  <1>12. CASE ~Touches(m, N, cell)
    <2>1. p = [ y \in Int |-> 0 ]
      BY <1>3, <1>5, <1>12 DEF Null
    <2>2. p[x] = 0
      BY <2>1
    <2>3. w[x] = 0
      <3>1. Inside(x, nodeBoxes(m)[N]) => Touches(m, N, cell)
        BY <1>7, SharedPoint DEF Touches
      <3> QED
        BY <1>7, <1>12, <3>1
    <2> HIDE DEF p, w
    <2>4. SameSide(p[x], w[x])
      BY <2>2, <2>3 DEF SameSide
    <2> QED
      BY <2>2, <2>3, <2>4 DEF p, w
  <1> QED
    BY <1>11, <1>12

(* The super-voxel a grid coordinate is looked up in holds it, as does the *)
(* other one when the coordinate is on a border: in units of both grids,   *)
(* the ends of the super-voxel are on either side of it.                   *)
LEMMA CoordinateInSuperVoxel ==
    ASSUME NEW res \in Nat \ {0}, NEW svRes \in Nat \ {0}, NEW id \in 0 .. res,
           NEW low \in {0, 1}, low = 1 => OnCellBorder(id, res, svRes)
    PROVE  LET c == superVoxel(id, res, svRes, low)
           IN  res * c <= id * svRes /\ id * svRes <= res * c + res
  <1> DEFINE n == id * svRes
             v == n \div res
             c == superVoxel(id, res, svRes, low)
  <1>1. n \in Nat /\ n <= res * svRes
    <2>1. svRes * id <= svRes * res
      BY Monotone
    <2> QED
      BY <2>1, Z3
  <1>2. v \in Nat /\ res * v <= n /\ n < res * v + res
    BY <1>1, Quotient
  <1>3. low = 1 => n = res * v
    <2> SUFFICES ASSUME low = 1 PROVE n = res * v
      OBVIOUS
    <2>1. n % res = 0
      BY DEF OnCellBorder
    <2> QED
      BY <1>1, <2>1, Remainder
  <1>4. c = IF v - low < svRes THEN v - low ELSE v - low - 1
    BY DEF superVoxel
  <1>5. SUFFICES res * c <= n /\ n <= res * c + res
    OBVIOUS
  <1> HIDE DEF v, n, c
  <1>6. res * (v - 1) = res * v - res /\ res * v \in Int
    BY <1>2, Z3
  <1>7. CASE v < svRes + low
    <2>1. c = v - low
      BY <1>2, <1>4, <1>7
    <2>2. CASE low = 0
      BY <1>1, <1>2, <2>1, <2>2
    <2>3. CASE low = 1
      <3>1. res * c = res * v - res
        BY <1>6, <2>1, <2>3
      <3> QED
        BY <1>1, <1>2, <1>3, <1>6, <2>3, <3>1
    <2> QED
      BY <2>2, <2>3
  <1>8. CASE svRes + low <= v
    <2>1. res * (svRes + low) <= res * v
      BY <1>2, <1>8, Monotone
    <2>2. low = 0
      <3> SUFFICES ASSUME low = 1 PROVE FALSE
        OBVIOUS
      <3>1. res * (svRes + 1) = res * svRes + res /\ res * svRes \in Int
        BY Z3
      <3> QED
        BY <1>1, <1>2, <1>6, <2>1, <3>1
    <2>3. n = res * v
      BY <1>1, <1>2, <1>6, <2>1, <2>2
    <2>4. c = v - 1
      BY <1>2, <1>4, <1>8, <2>2
    <2>5. res * c = res * v - res
      BY <1>6, <2>4
    <2> QED
      BY <1>1, <1>6, <2>3, <2>5
  <1> QED
    BY <1>2, <1>7, <1>8

(* So the point lies in the cell its super-voxel was pruned to.            *)
LEMMA PointInCell ==
    ASSUME NEW res \in Nat \ {0}, NEW svRes \in Nat \ {0}, NEW x \in 0 .. res,
           NEW low \in {0, 1}, low = 1 => OnCellBorder(x, res, svRes),
           NEW b, Ends(b), b.pMin < b.pMax
    PROVE  LET cell == CellOf(b, svRes, superVoxel(x, res, svRes, low))
           IN  Ends(cell) /\ PointOf(b, res, x) \in Int /\ Inside(PointOf(b, res, x), cell)
  <1> DEFINE c == superVoxel(x, res, svRes, low)
             w == Extent(b)
             near == (c * w) \div svRes
             p == (x * w) \div res
             farEnd == ((c + 1) * w) \div svRes
             cell == CellOf(b, svRes, c)
  <1>0. SUFFICES Ends(cell) /\ PointOf(b, res, x) \in Int /\ Inside(PointOf(b, res, x), cell)
    OBVIOUS
  <1>1. b.pMin \in Int /\ b.pMax \in Int /\ w \in Nat
    BY DEF Ends, Extent
  <1>2. c \in Nat
    BY SuperVoxelInGrid
  <1>3. res * c <= x * svRes /\ x * svRes <= res * c + res
    BY CoordinateInSuperVoxel
  <1>4. /\ cell = [ pMin |-> b.pMin + near, pMax |-> b.pMin + farEnd ]
        /\ PointOf(b, res, x) = b.pMin + p
    BY DEF CellOf, PointOf
  <1> HIDE DEF c, w, cell
  <1>5. res \in Nat /\ res > 0 /\ svRes \in Nat /\ svRes > 0 /\ x \in Nat
    OBVIOUS
  <1>6. c * w \in Int /\ x * w \in Int /\ (c + 1) * w \in Int /\ res * c \in Int /\ x * svRes \in Int
    BY <1>1, <1>2, <1>5, Z3
  <1>7. res * (c * w) <= svRes * (x * w)
    <2>1. w * (res * c) <= w * (x * svRes)
      BY <1>1, <1>3, <1>6, Monotone
    <2>2. w * (res * c) = res * (c * w) /\ w * (x * svRes) = svRes * (x * w)
      BY <1>1, <1>2, <1>5, Z3
    <2> QED
      BY <2>1, <2>2
  <1>8. svRes * (x * w) <= res * ((c + 1) * w)
    <2>1. w * (x * svRes) <= w * (res * c + res)
      BY <1>1, <1>3, <1>5, <1>6, Monotone
    <2>2. w * (res * c + res) = res * ((c + 1) * w) /\ w * (x * svRes) = svRes * (x * w)
      BY <1>1, <1>2, <1>5, Z3
    <2> QED
      BY <2>1, <2>2
  <1>9. near \in Int /\ p \in Int /\ near <= p
    BY <1>5, <1>6, <1>7, QuotientsInOrder
  <1>10. farEnd \in Int /\ p <= farEnd
    BY <1>5, <1>6, <1>8, QuotientsInOrder
  <1> HIDE DEF near, p, farEnd
  <1> QED
    BY <1>1, <1>4, <1>9, <1>10 DEF Ends, Inside

(* What the polygonizer learns of a tree is what pruning makes of it.      *)
LEMMA JobIs ==
    ASSUME NEW j \in DOMAIN Jobs
    PROVE  LET job == Jobs[j]
               m   == Models[j].made
           IN  /\ j \in DOMAIN Models /\ ModelOK(m, Iso)
               /\ job.res \in Nat \ {0} /\ job.svRes \in Nat \ {0}
               /\ Ends(job.box) /\ job.box.pMin < job.box.pMax
               /\ \A i \in DOMAIN job.seeds : job.seeds[i] \in Places(job.box)
               /\ job.occupied = { c \in 0 .. job.svRes - 1 : overlaps(job.box, CellOf(job.box, job.svRes, c)) }
               /\ \A x \in 0 .. job.res + 1 :
                    LET p == PointOf(job.box, job.res, x) IN
                    /\ job.whole[x] = eval(m.fields)[m.mFieldTree][p]
                    /\ \A c \in 0 .. job.svRes - 1 :
                         job.pruned[c][x] = Pruning(BlobTree(m), CellOf(job.box, job.svRes, c))[p]
  <1> DEFINE m == Models[j].made
             res == Models[j].res
             svRes == Models[j].svRes
             t == BlobTree(m)
             b == getTreeBox(t)
             job == Jobs[j]
             N == Len(m.inserted)
  <1>1. j \in DOMAIN Models /\ job = Along(m, res, svRes)
    BY DEF Jobs
  <1>12. res \in Nat \ {0} /\ svRes \in Nat \ {0}
    BY <1>1, ResolutionsAssumption
  <1>2. ModelOK(m, Iso)
    BY <1>1, ModelsAssumption
  <1>3. N \in Nat \ {0} /\ N \in DOMAIN m.inserted /\ Len(m.tree) = N /\ N \in 1 .. N
    <2>1. N \in Nat \ {0} /\ DOMAIN m.inserted = 1 .. N /\ Len(m.tree) = N
      BY <1>2, ShapeOfModel
    <2>2. N \in 1 .. N
      <3> HIDE DEF N
      <3> QED
        BY <2>1
    <2> QED
      BY <2>1, <2>2
  <1>4. b = nodeBoxes(m)[N]
    BY <1>3 DEF getTreeBox, BlobTree, insertNodeTree
  <1>5. Ends(b) /\ b.pMin < b.pMax
    <2>1. Ends(nodeBoxes(m)[N]) /\ nodeBoxes(m)[N].pMin < nodeBoxes(m)[N].pMax
      <3>1. 0 \in Int /\ N \in 1 .. Len(m.inserted)
        BY <1>3
      <3> HIDE DEF N
      <3> QED
        BY <1>2, <3>1, WholeVanishes
    <2> QED
      BY <1>4, <2>1
  <1> DEFINE seeds == getSeeds(m.fields)[m.mFieldTree]
  <1>11. \A i \in DOMAIN seeds : seeds[i] \in Places(b)
    <2> DEFINE k == m.mFieldTree
               own == getBBox(m.fields)[k]
    <2>1. /\ Len(m.fields) \in Nat /\ DOMAIN m.fields = 1 .. Len(m.fields)
          /\ \A i \in 1 .. Len(m.fields) : FieldOK(m.fields, i)
          /\ k = m.inserted[N] /\ k \in 1 .. Len(m.fields)
      BY <1>2, <1>3, ShapeOfModel
    <2>2. Ends(own) /\ Within(own, b)
      BY <1>2, <1>3, <1>4, <2>1, NodeBoxHoldsField
    <2>3. seeds \in Seq(Places(own))
      <3> DEFINE len == Len(m.fields)
      <3>1. len \in Nat /\ k \in 1 .. len
        BY <2>1
      <3> HIDE DEF len
      <3> QED
        BY <2>1, <3>1, SeedsInBoxes DEF len
    <2> HIDE DEF own, seeds
    <2>4. \A i \in DOMAIN seeds : seeds[i] \in Places(own)
      BY <2>3, HeldBefore
    <2>5. Places(own) \subseteq Places(b)
      BY <1>5, <2>2 DEF Ends, Within, Places
    <2> QED
      BY <2>4, <2>5
  <1>6. \A cell : getSubTree(t, cell) # Null <=> overlaps(b, cell)
    <2> SUFFICES ASSUME NEW cell PROVE getSubTree(t, cell) # Null <=> overlaps(b, cell)
      OBVIOUS
    <2>1. getSubTree(t, cell) = PrunedTo(m, N, cell)
      BY <1>3 DEF getSubTree, PrunedTo, BlobTree
    <2>2. PrunedTo(m, N, cell) = IF Touches(m, N, cell) THEN Len(m.fields) + N ELSE 0
      BY <1>2, <1>3, SubsAre
    <2>3. Len(m.fields) \in Nat
      BY <1>2, ShapeOfModel
    <2>4. Len(m.fields) + N # 0
      <3> DEFINE L == Len(m.fields)
      <3> HIDE DEF L, N
      <3> QED
        BY <1>3, <2>3 DEF L
    <2> QED
      BY <1>4, <2>1, <2>2, <2>4 DEF Touches, Null
  <1>7. t.fields = m.fields /\ t.mFieldTree = m.mFieldTree
    BY DEF BlobTree
  <1> HIDE DEF seeds
  <1> HIDE DEF t, b, m, res, svRes
  <1> DEFINE occupied == { c \in 0 .. svRes - 1 : getSubTree(t, CellOf(b, svRes, c)) # Null }
             pruned == [ c \in 0 .. svRes - 1 |-> [ x \in 0 .. res + 1 |->
                           Pruning(t, CellOf(b, svRes, c))[PointOf(b, res, x)] ] ]
             whole == [ x \in 0 .. res + 1 |-> eval(t.fields)[t.mFieldTree][PointOf(b, res, x)] ]
  <1>8. /\ job.box = b /\ job.res = res /\ job.svRes = svRes
        /\ job.occupied = occupied /\ job.pruned = pruned /\ job.whole = whole
        /\ job.seeds = seeds
    <2>1. Along(m, res, svRes) =
            [ box |-> b, res |-> res, svRes |-> svRes, seeds |-> seeds,
              occupied |-> occupied, pruned |-> pruned, whole |-> whole ]
      BY Zenon DEF Along, t, b, seeds, BlobTree
    <2> HIDE DEF occupied, pruned, whole, seeds, job
    <2> QED
      BY <1>1, <2>1
  <1>9. job.occupied = { c \in 0 .. svRes - 1 : overlaps(b, CellOf(b, svRes, c)) }
    BY <1>6, <1>8
  <1>10. \A x \in 0 .. res + 1 :
            /\ job.whole[x] = eval(m.fields)[m.mFieldTree][PointOf(b, res, x)]
            /\ \A c \in 0 .. svRes - 1 :
                 job.pruned[c][x] = Pruning(t, CellOf(b, svRes, c))[PointOf(b, res, x)]
    BY <1>7, <1>8
  <1> HIDE DEF job
  <1>13. job.res \in Nat \ {0} /\ job.svRes \in Nat \ {0}
    BY <1>8, <1>12
  <1> QED
    BY <1>1, <1>2, <1>5, <1>8, <1>9, <1>10, <1>11, <1>13 DEF t, m, job

(* What is asked of a tree: in each cell a grid point may be looked up in, *)
(* the pruned field has the point on the side the whole field has it.      *)
PruningKeepsSides ==
    \A j \in DOMAIN Jobs : \A x \in 0 .. Jobs[j].res : \A low \in {0, 1} :
        LET job == Jobs[j]
            c   == superVoxel(x, job.res, job.svRes, low)
        IN  (low = 1 => OnCellBorder(x, job.res, job.svRes))
              => Side(job.pruned[c][x]) = Side(job.whole[x])

(* Pruning is sound. *)
THEOREM PruningIsSound == PruningKeepsSides
  <1> SUFFICES ASSUME NEW j \in DOMAIN Jobs, NEW x \in 0 .. Jobs[j].res, NEW low \in {0, 1},
                      low = 1 => OnCellBorder(x, Jobs[j].res, Jobs[j].svRes)
               PROVE  LET c == superVoxel(x, Jobs[j].res, Jobs[j].svRes, low)
                      IN  Side(Jobs[j].pruned[c][x]) = Side(Jobs[j].whole[x])
    BY DEF PruningKeepsSides
  <1> DEFINE job == Jobs[j]
             b == job.box
             m == Models[j].made
             c == superVoxel(x, job.res, job.svRes, low)
             p == PointOf(b, job.res, x)
             cell == CellOf(b, job.svRes, c)
             pruned == Pruning(BlobTree(m), cell)[p]
             whole == eval(m.fields)[m.mFieldTree][p]
  <1>1. job.res \in Nat \ {0} /\ job.svRes \in Nat \ {0}
    BY JobIs
  <1>2. ModelOK(m, Iso) /\ Ends(b) /\ b.pMin < b.pMax
    BY JobIs
  <1>3. c \in 0 .. job.svRes - 1
    BY <1>1, SuperVoxelInGrid
  <1>4. Ends(cell) /\ p \in Int /\ Inside(p, cell)
    BY <1>1, <1>2, PointInCell
  <1>5. job.pruned[c][x] = pruned /\ job.whole[x] = whole
    <2>1. x \in 0 .. job.res + 1
      BY <1>1
    <2> HIDE DEF c
    <2> QED
      BY <1>3, <2>1, JobIs
  <1>6. pruned \in Int /\ whole \in Nat /\ SameSide(pruned, whole)
    <2> HIDE DEF m, p, cell
    <2> QED
      BY <1>2, <1>4, PruningAgrees
  <1> HIDE DEF pruned, whole
  <1>7. Side(pruned) = Side(whole)
    BY <1>6, IsoAssumption DEF Side, SameSide
  <1> QED
    BY <1>5, <1>7

-----------------------------------------------------------------------------
(* The inductive invariant. *)
SvIndex == 0 .. mSvSize - 1

(* The job at work is one of those given, and stays so. *)
AtWork ==
    /\ model \in { Jobs[j] : j \in DOMAIN Jobs }
    /\ down \in BOOLEAN
    /\ stage \in {"cells", "seeds", "points"}

(* A super-voxel that is done and has a field can be looked up, and what   *)
(* is looked up under its key is itself.                                   *)
Filled ==
    /\ stage = "cells" => left \subseteq SvIndex
    /\ stage = "seeds" => left \subseteq DOMAIN model.seeds
    /\ \A c \in model.occupied :
          (stage = "cells" /\ c \in left) \/ Key(c) \in DOMAIN mSuperVoxels
    /\ \A c \in SvIndex : Key(c) \in DOMAIN mSuperVoxels => mSuperVoxels[Key(c)] = c

SeedsKept == seedVoxels \subseteq 0 .. mGridSize - 1

(* A call is about a point the march asks for, and what it computed is the *)
(* value there.                                                            *)
CallOK(c) ==
    /\ c = Call(c.pc, c.id, c.val)
    /\ c.pc \in {"idle", "eval", "computed", "inserting"}
    /\ c.pc # "idle" => c.id \in Asked
    /\ c.pc \in {"computed", "inserting"} => c.val = Pruned(c.id)

(* Nobody calls before the super-voxels and the seeds are made. *)
Called ==
    /\ task \in [Tasks -> { task[t] : t \in Tasks }]
    /\ \A t \in Tasks : CallOK(task[t])
    /\ stage # "points" => (\A t \in Tasks : task[t].pc = "idle") /\ DOMAIN mSeenPoints = {}

Inv == AtWork /\ Filled /\ SeedsKept /\ Called /\ CacheSound

-----------------------------------------------------------------------------
(* Coordinates have keys of their own. *)
LEMMA KeyIsOwn ==
    ASSUME NEW x \in Nat, NEW y \in Nat, Key(x) = Key(y)
    PROVE  x = y
  <1> DEFINE p == x * HashBase + 0
             q == y * HashBase + 0
  <1>1. HashBase \in Nat /\ 0 < HashBase /\ p \in Nat /\ q \in Nat
    BY HashBaseAssumption, Z3
  <1>2. p * HashBase + 0 = q * HashBase + 0
    BY DEF Key, hash
  <1> HIDE DEF p, q
  <1>3. p = q
    BY <1>1, <1>2, LastDigit
  <1> QED
    BY <1>1, <1>3, LastDigit DEF p, q

(* What the assumptions say of the job at work. *)
LEMMA JobAtWork ==
    ASSUME AtWork
    PROVE  /\ mGridSize \in Nat \ {0} /\ mSvSize \in Nat \ {0}
           /\ model.box.pMin \in Int /\ model.box.pMax \in Int
           /\ model.box.pMin < model.box.pMax
           /\ model.occupied = { c \in SvIndex : overlaps(model.box, CellOf(model.box, mSvSize, c)) }
           /\ \A i \in DOMAIN model.seeds :
                 /\ model.seeds[i] \in Int
                 /\ model.box.pMin <= model.seeds[i] /\ model.seeds[i] < model.box.pMax
  <1>1. PICK j \in DOMAIN Jobs : model = Jobs[j]
    BY DEF AtWork
  <1> DEFINE job == Jobs[j]
             b == job.box
  <1>2. job.res \in Nat \ {0} /\ job.svRes \in Nat \ {0}
    BY JobIs
  <1>3. \A i \in DOMAIN job.seeds :
           job.seeds[i] \in Int /\ b.pMin <= job.seeds[i] /\ job.seeds[i] < b.pMax
    BY JobIs DEF Places
  <1>4. /\ b.pMin \in Int /\ b.pMax \in Int /\ b.pMin < b.pMax
        /\ job.occupied = { c \in 0 .. job.svRes - 1 : overlaps(b, CellOf(b, job.svRes, c)) }
    BY JobIs DEF Ends
  <1> HIDE DEF b, job
  <1>5. model = job /\ model.box = b
    BY <1>1 DEF job, b
  <1> QED
    BY <1>2, <1>3, <1>4, <1>5 DEF mGridSize, mSvSize, SvIndex

(* Every super-voxel overlaps the box of the tree, so it has a field.      *)
LEMMA EveryCellHasField ==
    ASSUME AtWork, NEW c \in SvIndex
    PROVE  c \in model.occupied
  <1> DEFINE b == model.box
             w == Extent(b)
             near == (c * w) \div mSvSize
             farEnd == ((c + 1) * w) \div mSvSize
  <1>1. /\ mSvSize \in Nat /\ mSvSize > 0 /\ b.pMin \in Int /\ b.pMax \in Int /\ b.pMin < b.pMax
        /\ w \in Nat /\ b.pMax = b.pMin + w
    BY JobAtWork DEF Extent
  <1>2. c \in Nat /\ c <= mSvSize
    BY <1>1 DEF SvIndex
  <1>3. CellOf(b, mSvSize, c) = [ pMin |-> b.pMin + near, pMax |-> b.pMin + farEnd ]
    BY DEF CellOf, PointOf
  <1> DEFINE n == mSvSize
  <1>4. n \in Nat /\ n > 0 /\ near = (c * w) \div n /\ farEnd = ((c + 1) * w) \div n /\ c <= n
    BY <1>1, <1>2
  <1> HIDE DEF b, w, n, near, farEnd
  <1>5. overlaps(b, CellOf(b, mSvSize, c))
    <2>1. c * w \in Int /\ (c + 1) * w \in Nat
      BY <1>1, <1>2, Z3
    <2>2. w * c <= w * n /\ w * c = 1 * (c * w) /\ w * n = n * w
      BY <1>1, <1>2, <1>4, Monotone, Z3
    <2>3. near \in Int /\ near <= w \div 1
      BY <1>1, <1>4, <2>1, <2>2, QuotientsInOrder
    <2>4. w \div 1 = w
      BY <1>1, Z3
    <2>5. farEnd \in Nat
      BY <1>4, <2>1, Quotient
    <2> QED
      BY <1>1, <1>3, <2>3, <2>4, <2>5 DEF overlaps
  <1> HIDE DEF b
  <1>6. c \in { x \in SvIndex : overlaps(b, CellOf(b, mSvSize, x)) }
    BY <1>5
  <1>7. model.occupied = { x \in SvIndex : overlaps(b, CellOf(b, mSvSize, x)) }
    BY JobAtWork DEF b
  <1> QED
    BY <1>6, <1>7

(* A seed inside the box becomes a voxel of the grid, whichever way its    *)
(* quotient is rounded.                                                    *)
LEMMA SeedIsVoxel ==
    ASSUME AtWork, NEW i \in DOMAIN model.seeds
    PROVE  SeedId(model.seeds[i]) \in 0 .. mGridSize - 1
  <1> DEFINE b == model.box
             w == Extent(b)
             d == model.seeds[i] - b.pMin
             n == d * mGridSize
             q == n \div w
  <1>1. /\ mGridSize \in Nat /\ mGridSize > 0 /\ w \in Nat /\ w > 0
        /\ d \in Nat /\ d < w
    BY JobAtWork DEF Extent
  <1>2. SeedId(model.seeds[i]) = q - (IF down /\ n % w = 0 /\ n > 0 THEN 1 ELSE 0)
    BY DEF SeedId
  <1> DEFINE s == mGridSize
  <1>3. n = d * s /\ s \in Nat /\ s > 0
    BY <1>1
  <1> HIDE DEF d, w, n, s
  <1>4. n \in Nat /\ n < w * s
    <2>1. n \in Nat /\ w * s \in Nat /\ s * (d + 1) = n + s /\ s * w = w * s
      BY <1>1, <1>3, Z3
    <2>2. s * (d + 1) <= s * w
      BY <1>1, <1>3, Monotone
    <2> QED
      BY <1>3, <2>1, <2>2
  <1>5. q \in Nat /\ w * q <= n /\ (n % w = 0 => n = w * q)
    BY <1>1, <1>4, Quotient, Remainder
  <1> HIDE DEF q
  <1>6. n % w = 0 /\ n > 0 => q > 0
    BY <1>1, <1>5, Z3
  <1>7. q < s
    <2>1. SUFFICES ASSUME s <= q PROVE FALSE
      BY <1>3, <1>5
    <2>2. w * s <= w * q /\ w * s \in Nat /\ w * q \in Nat
      BY <1>1, <1>3, <1>5, <2>1, Monotone, Z3
    <2> QED
      BY <1>4, <1>5, <2>2
  <1> QED
    BY <1>2, <1>3, <1>5, <1>6, <1>7 DEF s

(* The march asks for points of the grid only. *)
LEMMA AskedInGrid ==
    ASSUME AtWork, SeedsKept
    PROVE  Asked \subseteq 0 .. mGridSize /\ mGridSize \in Nat
  BY JobAtWork DEF SeedsKept, Asked

(* The super-voxel of a point of the grid is one of the grid's. *)
LEMMA SvOfInGrid ==
    ASSUME AtWork, NEW x \in 0 .. mGridSize
    PROVE  SvOf(x) \in SvIndex
  <1> DEFINE low == IF down /\ OnCellBorder(x, mGridSize, mSvSize) THEN 1 ELSE 0
  <1>1. low \in {0, 1} /\ (low = 1 => OnCellBorder(x, mGridSize, mSvSize))
    OBVIOUS
  <1>2. mGridSize \in Nat \ {0} /\ mSvSize \in Nat \ {0}
    BY JobAtWork
  <1> HIDE DEF low
  <1>3. superVoxel(x, mGridSize, mSvSize, low) \in 0 .. mSvSize - 1
    BY <1>1, <1>2, SuperVoxelInGrid
  <1> QED
    BY <1>3 DEF SvOf, SvIndex, low

-----------------------------------------------------------------------------
(* The invariant holds at the start and is kept by every step. *)
LEMMA InitInv == Init => Inv
  <1> SUFFICES ASSUME Init PROVE Inv
    OBVIOUS
  <1>1. AtWork
    BY DEF Init, AtWork
  <1>2. Filled
    BY <1>1, JobAtWork DEF Init, Filled, SvIndex
  <1>3. SeedsKept
    BY DEF Init, SeedsKept
  <1>4. \A t \in Tasks : task[t] = Call("idle", 0, 0)
    BY DEF Init, Idle
  <1>5. Called
    BY <1>4 DEF Init, Called, CallOK, Call
  <1>6. CacheSound
    BY DEF Init, CacheSound
  <1> QED
    BY <1>1, <1>2, <1>3, <1>5, <1>6 DEF Inv

(* The task of a super-voxel enters it under its key. *)
LEMMA MakeCellKeeps ==
    ASSUME Inv, NEW x \in left, MakeCell(x)
    PROVE  Inv'
  <1>1. AtWork /\ Filled /\ SeedsKept /\ Called /\ CacheSound
    BY DEF Inv
  <1>2. /\ stage = "cells" /\ x \in SvIndex /\ SvIndex \subseteq Nat
        /\ UNCHANGED <<model, down, seedVoxels, mSeenPoints, task>>
        /\ SvIndex' = SvIndex /\ mGridSize' = mGridSize
    BY <1>1, JobAtWork DEF MakeCell, Filled, SvIndex, mSvSize, mGridSize
  <1>3. AtWork'
    BY <1>1, <1>2 DEF MakeCell, AtWork
  <1>4. mSuperVoxels' = Inserted(mSuperVoxels, Key(x), x)
    BY <1>1, <1>2, EveryCellHasField DEF MakeCell
  <1>5. /\ DOMAIN mSuperVoxels' = DOMAIN mSuperVoxels \cup {Key(x)}
        /\ \A l \in DOMAIN mSuperVoxels' :
              mSuperVoxels'[l] = IF l \in DOMAIN mSuperVoxels THEN mSuperVoxels[l] ELSE x
    BY <1>4 DEF Inserted
  <1>6. Filled'
    <2>1. (stage = "cells" => left \subseteq SvIndex)'
      BY <1>1, <1>2 DEF MakeCell, Filled
    <2>2. (stage = "seeds" => left \subseteq DOMAIN model.seeds)'
      BY <1>2 DEF MakeCell
    <2>3. \A c \in model.occupied :
             (stage' = "cells" /\ c \in left') \/ Key(c) \in DOMAIN mSuperVoxels'
      <3> SUFFICES ASSUME NEW c \in model.occupied, Key(c) \notin DOMAIN mSuperVoxels'
                   PROVE  stage' = "cells" /\ c \in left'
        OBVIOUS
      <3>1. c \in left /\ c # x
        BY <1>1, <1>2, <1>5 DEF Filled
      <3> QED
        BY <1>2, <3>1 DEF MakeCell
    <2>4. \A c \in SvIndex : Key(c) \in DOMAIN mSuperVoxels' => mSuperVoxels'[Key(c)] = c
      <3> SUFFICES ASSUME NEW c \in SvIndex, Key(c) \in DOMAIN mSuperVoxels'
                   PROVE  mSuperVoxels'[Key(c)] = c
        OBVIOUS
      <3>1. CASE Key(c) \in DOMAIN mSuperVoxels
        BY <1>1, <1>5, <3>1 DEF Filled
      <3>2. CASE Key(c) \notin DOMAIN mSuperVoxels
        <4>1. c = x
          BY <1>2, <1>5, <3>2, KeyIsOwn
        <4> QED
          BY <1>5, <3>2, <4>1
      <3> QED
        BY <3>1, <3>2
    <2>5. \A c : Key(c)' = Key(c)
      BY DEF Key, hash
    <2> QED
      BY <1>2, <2>1, <2>2, <2>3, <2>4, <2>5 DEF Filled
  <1>7. SeedsKept'
    BY <1>1, <1>2 DEF SeedsKept
  <1>8. \A t \in Tasks : task[t].pc = "idle"
    BY <1>1, <1>2 DEF Called
  <1>9. DOMAIN mSeenPoints = {}
    BY <1>1, <1>2 DEF Called
  <1>10. Called'
    BY <1>1, <1>2, <1>8, <1>9 DEF Called, CallOK, Call
  <1>11. CacheSound'
    BY <1>2, <1>9 DEF CacheSound
  <1> QED
    BY <1>3, <1>6, <1>7, <1>10, <1>11 DEF Inv

(* The task of a seed finds it a voxel of the grid. *)
LEMMA MakeSeedKeeps ==
    ASSUME Inv, NEW i \in left, MakeSeed(i)
    PROVE  Inv'
  <1>1. AtWork /\ Filled /\ SeedsKept /\ Called /\ CacheSound
    BY DEF Inv
  <1>2. /\ stage = "seeds" /\ i \in DOMAIN model.seeds
        /\ UNCHANGED <<model, down, mSuperVoxels, mSeenPoints, task>>
        /\ SvIndex' = SvIndex /\ mGridSize' = mGridSize
    BY <1>1 DEF MakeSeed, Filled, SvIndex, mSvSize, mGridSize
  <1>3. AtWork'
    BY <1>1, <1>2 DEF MakeSeed, AtWork
  <1>4. Filled'
    BY <1>1, <1>2 DEF MakeSeed, Filled
  <1>5. SeedsKept'
    BY <1>1, <1>2, SeedIsVoxel DEF MakeSeed, SeedsKept
  <1>6. \A t \in Tasks : task[t].pc = "idle"
    BY <1>1, <1>2 DEF Called
  <1>7. DOMAIN mSeenPoints = {}
    BY <1>1, <1>2 DEF Called
  <1>8. Called'
    BY <1>1, <1>2, <1>6, <1>7 DEF Called, CallOK, Call
  <1>9. CacheSound'
    BY <1>2, <1>7 DEF CacheSound
  <1> QED
    BY <1>3, <1>4, <1>5, <1>8, <1>9 DEF Inv

(* A step of a call leaves the jobs, the super-voxels and the seeds alone. *)
Apart == UNCHANGED <<model, down, stage, left, mSuperVoxels, seedVoxels>>

(* Such a step keeps what is said of them.                                *)
LEMMA ApartKeeps ==
    ASSUME AtWork, Filled, SeedsKept, Apart
    PROVE  /\ AtWork' /\ Filled' /\ SeedsKept'
           /\ Asked' = Asked
           /\ \A x : Pruned(x)' = Pruned(x)
  <1>1. /\ mGridSize' = mGridSize /\ mSvSize' = mSvSize /\ SvIndex' = SvIndex
        /\ \A x : SvOf(x)' = SvOf(x)
    BY DEF Apart, mGridSize, mSvSize, SvIndex, SvOf
  <1>2. AtWork' /\ Filled' /\ SeedsKept'
    BY <1>1 DEF Apart, AtWork, Filled, SeedsKept
  <1>3. Asked' = Asked
    BY <1>1 DEF Apart, Asked
  <1>4. \A x : Pruned(x)' = Pruned(x)
    BY <1>1 DEF Apart, Pruned
  <1> QED
    BY <1>2, <1>3, <1>4

(* One task's call goes on, and the cache is as it was. *)
LEMMA CallKeeps ==
    ASSUME Inv, Apart, mSeenPoints' = mSeenPoints, stage = "points",
           NEW t \in Tasks, NEW c, task' = [task EXCEPT ![t] = c], CallOK(c)
    PROVE  Inv'
  <1>1. AtWork /\ Filled /\ SeedsKept /\ Called /\ CacheSound
    BY DEF Inv
  <1>2. /\ AtWork' /\ Filled' /\ SeedsKept' /\ Asked' = Asked
        /\ \A x : Pruned(x)' = Pruned(x)
    BY <1>1, ApartKeeps
  <1>3. task \in [Tasks -> { task[u] : u \in Tasks }]
    BY <1>1 DEF Called
  <1>4. \A u \in Tasks : task'[u] = IF u = t THEN c ELSE task[u]
    BY <1>3
  <1>5. task' \in [Tasks -> { task'[u] : u \in Tasks }]
    BY <1>3, <1>4
  <1>6. \A u \in Tasks : CallOK(task[u])'
    BY <1>1, <1>2, <1>4 DEF Called, CallOK
  <1>7. Called'
    BY <1>5, <1>6 DEF Called, Apart
  <1>8. CacheSound'
    BY <1>1, <1>2 DEF CacheSound, PointKey, Key, hash
  <1> QED
    BY <1>2, <1>7, <1>8 DEF Inv

(* A search that misses starts a call about its point. *)
LEMMA FindKeeps ==
    ASSUME Inv, NEW t \in Tasks, NEW x \in Asked, Find(t, x)
    PROVE  Inv'
  <1>1. Apart /\ mSeenPoints' = mSeenPoints /\ stage = "points"
    BY DEF Find, Apart
  <1>2. CASE task' = [task EXCEPT ![t] = Call("eval", x, 0)]
    <2>1. CallOK(Call("eval", x, 0))
      BY DEF CallOK, Call
    <2> QED
      BY <1>1, <1>2, <2>1, CallKeeps
  <1>3. CASE UNCHANGED task
    <2>1. AtWork /\ Filled /\ SeedsKept /\ Called /\ CacheSound
      BY DEF Inv
    <2>2. /\ AtWork' /\ Filled' /\ SeedsKept' /\ Asked' = Asked
          /\ \A y : Pruned(y)' = Pruned(y)
      BY <1>1, <2>1, ApartKeeps
    <2>3. Called'
      BY <1>1, <1>3, <2>1, <2>2 DEF Called, CallOK, Apart
    <2>4. CacheSound'
      BY <1>1, <2>1, <2>2 DEF CacheSound, PointKey, Key, hash
    <2> QED
      BY <2>2, <2>3, <2>4 DEF Inv
  <1> QED
    BY <1>2, <1>3 DEF Find

(* The super-voxel of a point the march asks for is there. *)
LEMMA EvalKeeps ==
    ASSUME Inv, NEW t \in Tasks, Eval(t)
    PROVE  Inv'
  <1>1. AtWork /\ Filled /\ SeedsKept /\ Called /\ CacheSound
    BY DEF Inv
  <1>2. Apart /\ mSeenPoints' = mSeenPoints /\ task[t].pc = "eval"
    BY DEF Eval, Apart
  <1>3. stage = "points" /\ CallOK(task[t])
    BY <1>1, <1>2 DEF Called
  <1> DEFINE id == task[t].id
  <1>4. id \in Asked /\ id \in 0 .. mGridSize
    BY <1>1, <1>2, <1>3, AskedInGrid DEF CallOK
  <1>5. Key(SvOf(id)) \in DOMAIN mSuperVoxels
    BY <1>1, <1>3, <1>4, SvOfInGrid, EveryCellHasField DEF Filled
  <1>6. task' = [task EXCEPT ![t] = Call("computed", id, Pruned(id))]
    BY <1>5 DEF Eval
  <1>7. CallOK(Call("computed", id, Pruned(id)))
    BY <1>4 DEF CallOK, Call
  <1> QED
    BY <1>2, <1>3, <1>6, <1>7, CallKeeps

(* Taking the lock changes neither the point nor the value.               *)
LEMMA LockKeeps ==
    ASSUME Inv, NEW t \in Tasks, Lock(t)
    PROVE  Inv'
  <1>1. Called
    BY DEF Inv
  <1>2. Apart /\ mSeenPoints' = mSeenPoints /\ task[t].pc = "computed"
    BY DEF Lock, Apart
  <1>3. stage = "points" /\ CallOK(task[t])
    BY <1>1, <1>2 DEF Called
  <1> DEFINE c == Call("inserting", task[t].id, task[t].val)
  <1>4. task[t] = Call("computed", task[t].id, task[t].val)
    BY <1>2, <1>3 DEF CallOK
  <1>5. task' = [task EXCEPT ![t] = c]
    <2>1. [task[t] EXCEPT !.pc = "inserting"] = c
      BY <1>4 DEF Call
    <2> QED
      BY <2>1 DEF Lock
  <1>6. CallOK(c)
    BY <1>2, <1>3 DEF CallOK, Call
  <1> QED
    BY <1>2, <1>3, <1>5, <1>6, CallKeeps

(* What a task inserts is what any other would: whoever comes first, the   *)
(* cache holds the value of the point.                                     *)
LEMMA InsertKeeps ==
    ASSUME Inv, NEW t \in Tasks, Insert(t)
    PROVE  Inv'
  <1>1. AtWork /\ Filled /\ SeedsKept /\ Called /\ CacheSound
    BY DEF Inv
  <1>2. Apart /\ task[t].pc = "inserting"
    BY DEF Insert, Apart
  <1>3. stage = "points" /\ CallOK(task[t])
    BY <1>1, <1>2 DEF Called
  <1> DEFINE id == task[t].id
             val == task[t].val
  <1>4. id \in Asked /\ val = Pruned(id)
    BY <1>2, <1>3 DEF CallOK
  <1>5. Asked \subseteq Nat
    BY <1>1, AskedInGrid
  <1>6. /\ AtWork' /\ Filled' /\ SeedsKept' /\ Asked' = Asked
        /\ \A y : Pruned(y)' = Pruned(y)
    BY <1>1, <1>2, ApartKeeps
  <1>7. Called'
    <2>1. task' = [task EXCEPT ![t] = Idle]
      BY DEF Insert
    <2>2. task \in [Tasks -> { task[u] : u \in Tasks }]
      BY <1>1 DEF Called
    <2>3. \A u \in Tasks : task'[u] = IF u = t THEN Idle ELSE task[u]
      BY <2>1, <2>2
    <2>4. task' \in [Tasks -> { task'[u] : u \in Tasks }]
      BY <2>1, <2>2, <2>3
    <2>5. CallOK(Idle)'
      BY DEF CallOK, Idle, Call
    <2>6. \A u \in Tasks : CallOK(task[u])'
      BY <1>1, <1>6, <2>3, <2>5 DEF Called, CallOK
    <2> QED
      BY <1>2, <1>3, <2>4, <2>6 DEF Called, Apart
  <1>8. /\ DOMAIN mSeenPoints' = DOMAIN mSeenPoints \cup {Key(id)}
        /\ \A l \in DOMAIN mSeenPoints' :
              mSeenPoints'[l] = IF l \in DOMAIN mSeenPoints THEN mSeenPoints[l] ELSE val
    BY DEF Insert, Inserted, PointKey
  <1>9. \A x \in Asked : Key(x) \in DOMAIN mSeenPoints' => mSeenPoints'[Key(x)] = Pruned(x)
    <2> SUFFICES ASSUME NEW x \in Asked, Key(x) \in DOMAIN mSeenPoints'
                 PROVE  mSeenPoints'[Key(x)] = Pruned(x)
      OBVIOUS
    <2>1. CASE Key(x) \in DOMAIN mSeenPoints
      BY <1>1, <1>8, <2>1 DEF CacheSound, PointKey
    <2>2. CASE Key(x) \notin DOMAIN mSeenPoints
      <3>1. x = id
        BY <1>4, <1>5, <1>8, <2>2, KeyIsOwn
      <3> QED
        BY <1>4, <1>8, <2>2, <3>1
    <2> QED
      BY <2>1, <2>2
  <1>10. CacheSound'
    <2>1. \A x : PointKey(x)' = Key(x)
      BY DEF PointKey, Key, hash
    <2> QED
      BY <1>6, <1>9, <2>1 DEF CacheSound
  <1> QED
    BY <1>6, <1>7, <1>10 DEF Inv

(* Every step keeps the invariant.                                        *)
LEMMA NextInv == Inv /\ [Next]_vars => Inv'
  <1> SUFFICES ASSUME Inv, [Next]_vars PROVE Inv'
    OBVIOUS
  <1>1. CASE \E x \in left : MakeCell(x) \/ MakeSeed(x)
    BY <1>1, MakeCellKeeps, MakeSeedKeeps
  <1>2. CASE \E t \in Tasks : \E x \in Asked : Find(t, x)
    BY <1>2, FindKeeps
  <1>3. CASE \E t \in Tasks : Step(t)
    BY <1>3, EvalKeeps, LockKeeps, InsertKeeps DEF Step
  <1>4. CASE UNCHANGED vars
    <2>1. AtWork /\ Filled /\ SeedsKept /\ Called /\ CacheSound
      BY DEF Inv
    <2>2. Apart /\ mSeenPoints' = mSeenPoints /\ task' = task
      BY <1>4 DEF vars, Apart
    <2>3. /\ AtWork' /\ Filled' /\ SeedsKept' /\ Asked' = Asked
          /\ \A y : Pruned(y)' = Pruned(y)
      BY <2>1, <2>2, ApartKeeps
    <2>4. Called'
      BY <2>1, <2>2, <2>3 DEF Called, CallOK, Apart
    <2>5. CacheSound'
      BY <2>1, <2>2, <2>3 DEF CacheSound, PointKey, Key, hash
    <2> QED
      BY <2>3, <2>4, <2>5 DEF Inv
  <1> QED
    BY <1>1, <1>2, <1>3, <1>4 DEF Next

(* The inductive invariant holds for every grid, tree and number of tasks. *)
THEOREM Invariant == Spec => []Inv
  <1>1. Inv /\ [Next]_vars => Inv'
    BY NextInv
  <1> QED
    BY InitInv, <1>1, PTL DEF Spec

(* mSuperVoxels.at never throws, whatever the resolutions: no point the    *)
(* march asks for falls outside the super-voxels, and a super-voxel of the *)
(* grid always overlaps the box of the tree.                               *)
THEOREM FieldsAreFound == Spec => []NeverThrows
  <1>1. Inv => NeverThrows
    BY DEF Inv, Called, CallOK, NeverThrows
  <1> QED
    BY Invariant, <1>1, PTL

(* A seed inside the box of its tree becomes a voxel of the grid.          *)
THEOREM SeedsAreInGrid == Spec => []SeedsInGrid
  <1>1. Inv => SeedsInGrid
    <2> SUFFICES ASSUME Inv, NEW v \in seedVoxels PROVE 0 <= v /\ v < mGridSize
      BY DEF SeedsInGrid
    <2>1. AtWork /\ v \in 0 .. mGridSize - 1
      BY DEF Inv, SeedsKept
    <2> QED
      BY <2>1, JobAtWork
  <1> QED
    BY Invariant, <1>1, PTL

(* However many tasks race on a point, the cache has the value a search    *)
(* that misses it would compute.                                           *)
THEOREM CacheIsSound == Spec => []CacheSound
  <1>1. Inv => CacheSound
    BY DEF Inv
  <1> QED
    BY Invariant, <1>1, PTL

(* Every read of the polygonizer has its point on the side the whole field *)
(* has it: neither the pruning of the trees, nor the race on the cache,    *)
(* nor the rounding of the quotients can lose a side.                      *)
THEOREM ReadsAreTrue == Spec => []ReadsKeepSides
  <1>1. ASSUME Inv, stage = "points", NEW x \in Asked
        PROVE  Side(Pruned(x)) = Side(Whole(x))
    <2> DEFINE low == IF down /\ OnCellBorder(x, mGridSize, mSvSize) THEN 1 ELSE 0
    <2>1. AtWork /\ Filled /\ x \in 0 .. mGridSize
      BY <1>1, AskedInGrid DEF Inv
    <2>2. SvOf(x) \in SvIndex /\ SvOf(x) \in model.occupied
      BY <2>1, SvOfInGrid, EveryCellHasField
    <2>3. mSuperVoxels[Key(SvOf(x))] = SvOf(x)
      BY <1>1, <2>1, <2>2 DEF Filled
    <2>4. PICK j \in DOMAIN Jobs : model = Jobs[j]
      BY <2>1 DEF AtWork
    <2>5. low \in {0, 1} /\ (low = 1 => OnCellBorder(x, mGridSize, mSvSize))
      OBVIOUS
    <2>6. SvOf(x) = superVoxel(x, mGridSize, mSvSize, low)
      BY DEF SvOf
    <2> HIDE DEF low
    <2>7. Side(model.pruned[SvOf(x)][x]) = Side(model.whole[x])
      BY <2>1, <2>4, <2>5, <2>6, PruningIsSound DEF PruningKeepsSides, mGridSize, mSvSize
    <2> QED
      BY <2>3, <2>7 DEF Pruned, Whole
  <1>2. Inv => ReadsKeepSides
    <2> SUFFICES ASSUME Inv PROVE ReadsKeepSides
      OBVIOUS
    <2>1. Called /\ CacheSound
      BY DEF Inv
    <2>2. ASSUME NEW t \in Tasks, task[t].pc \in {"computed", "inserting"}
          PROVE  Side(task[t].val) = Side(Whole(task[t].id))
      <3>1. CallOK(task[t]) /\ stage = "points"
        BY <2>1, <2>2 DEF Called
      <3>2. task[t].id \in Asked /\ task[t].val = Pruned(task[t].id)
        BY <2>2, <3>1 DEF CallOK
      <3> QED
        BY <1>1, <3>1, <3>2
    <2>3. ASSUME NEW x \in Asked, PointKey(x) \in DOMAIN mSeenPoints
          PROVE  Side(mSeenPoints[PointKey(x)]) = Side(Whole(x))
      <3>1. stage = "points"
        BY <2>1, <2>3 DEF Called
      <3>2. mSeenPoints[PointKey(x)] = Pruned(x)
        BY <2>1, <2>3 DEF CacheSound
      <3> QED
        BY <1>1, <3>1, <3>2
    <2> QED
      BY <2>2, <2>3 DEF ReadsKeepSides
  <1> QED
    BY Invariant, <1>2, PTL
=============================================================================
