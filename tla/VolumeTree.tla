------------------------------ MODULE VolumeTree ------------------------------
(***************************************************************************)
(* BlobTree, Node, the fields and the operators, and the models made of    *)
(* them, along one line of the grid: the x axis, or for the transformed    *)
(* torus the line y = 0, z = 3.  Boxes are products of intervals and the   *)
(* centres of the spheres lie on the line, so there a field is exact.      *)
(*                                                                         *)
(* Lengths are whole numbers of a unit, of which 1.0 of the code has Unit; *)
(* a unit can be as small as one likes.  Values of fields are in the unit  *)
(* that makes compactField exact: a distance is a number of squares of the *)
(* unit of length, of which 1.0 has Square.                                *)
(*                                                                         *)
(* Fields are held by pointers: here a model has a sequence of fields, and *)
(* whatever holds a field holds its index.  A field is made after those it *)
(* holds, so what is said of the fields is a recursive function of indices.*)
(***************************************************************************)
EXTENDS Boxes, Sequences

CONSTANT Unit    \* the units of length that 1.0 has

ASSUME UnitAssumption == Unit \in Nat \ {0}

Square == Unit * Unit
One    == 16 * Square * Square * Square * Square * Square
DefaultIso == One \div 2     \* 0.5
Infinity    == One * 64      \* above the value of any model
NegInfinity == -1            \* below it
Null == 0                    \* the pointer to no field or node

-----------------------------------------------------------------------------
(* What a loop over fields, boxes or children does with one of them.       *)
(* insertField and addChild are not called for a null one.                 *)
Taken(op, acc, v) ==
    CASE op = "join"   -> join(acc, v)
      [] op = "max"    -> IF v > acc THEN v ELSE acc
      [] op = "min"    -> IF v < acc THEN v ELSE acc
      [] op = "sum"    -> acc + v
      [] op = "append" -> acc \o v
      [] op = "insert" -> IF v = Null THEN acc ELSE Append(acc, v)

Loop(op, start, vals) ==
    LET acc[i \in 0 .. Len(vals)] == IF i = 0 THEN start ELSE Taken(op, acc[i - 1], vals[i])
    IN  acc[Len(vals)]

EmptyBox == [ pMin |-> Infinity, pMax |-> -Infinity ]

-----------------------------------------------------------------------------
(* Fields.  An operator holds its fields; a transform also the affine map  *)
(* x -> shift + num / den * x it makes of the line.  A wing is a field     *)
(* known only by its box, the value it has inside, and its seed.           *)
Sphere(c, r)       == [ kind |-> "sphere", centre |-> c, radius |-> r ]
Torus(c, a, at)    == [ kind |-> "torus", mC |-> c, mA |-> a, centre |-> at ]
Wing(b, v, s)      == [ kind |-> "wing", box |-> b, val |-> v, seed |-> s ]
Operator(kind, fs) == [ kind |-> kind, mFields |-> fs ]
Transform(n, d, s, f) ==
    [ kind |-> "transform", num |-> n, den |-> d, shift |-> s, mFields |-> << f >> ]

apply(f, x)  == f.shift + (f.num * x) \div f.den
invert(f, x) == ((x - f.shift) * f.den) \div f.num

(* The filter, of the distance k / Square: 1/2 - 15/16 x + 5/8 x^3 - 3/16  *)
(* x^5 in between.                                                         *)
compactField(k) ==
    LET S == Square
    IN  IF k < -S THEN One
        ELSE IF k > S THEN 0
        ELSE 8 * S * S * S * S * S - 15 * k * S * S * S * S
             + 10 * k * k * k * S * S - 3 * k * k * k * k * k

Abs(n) == IF n < 0 THEN -n ELSE n

(* The box of a torus leaves its centre out. *)
box(f, boxes) ==
    CASE f.kind = "sphere" ->
           expand([ pMin |-> f.centre - f.radius, pMax |-> f.centre + f.radius ], Unit)
      [] f.kind = "torus" -> expand([ pMin |-> -f.mC - f.mA, pMax |-> f.mC + f.mA ], Unit)
      [] f.kind = "wing"  -> f.box
      [] f.kind = "transform" -> [ pMin |-> apply(f, boxes[f.mFields[1]].pMin),
                                   pMax |-> apply(f, boxes[f.mFields[1]].pMax) ]
      [] OTHER -> Loop("join", EmptyBox, [ j \in DOMAIN f.mFields |-> boxes[f.mFields[j]] ])

getBBox(fs) == LET boxes[i \in DOMAIN fs] == box(fs[i], boxes) IN boxes

Union(vals)        == Loop("max", NegInfinity, vals)
Blend(vals)        == Loop("sum", 0, vals)
Intersection(vals) == Loop("min", Infinity, vals)

Operators == {"union", "blend", "intersection"}

Combined(kind, vals) ==
    CASE kind = "union"        -> Union(vals)
      [] kind = "blend"        -> Blend(vals)
      [] kind = "intersection" -> Intersection(vals)

(* The value of a field at every place, given those of the fields it holds.*)
sdf(f, val) ==
    CASE f.kind = "sphere" ->
           [ x \in Int |-> compactField(Unit * (Abs(x - f.centre) - f.radius)) ]
      [] f.kind = "torus"  ->
           [ x \in Int |-> LET left == f.mC - Abs(x - f.centre)
                           IN  compactField(left * left - f.mA * f.mA) ]
      [] f.kind = "wing"   ->
           [ x \in Int |-> IF f.box.pMin < x /\ x < f.box.pMax THEN f.val ELSE 0 ]
      [] f.kind = "transform" -> [ x \in Int |-> val[f.mFields[1]][invert(f, x)] ]
      [] OTHER ->
           [ x \in Int |-> Combined(f.kind, [ j \in DOMAIN f.mFields |-> val[f.mFields[j]][x] ]) ]

eval(fs) == LET val[i \in DOMAIN fs] == sdf(fs[i], val) IN val

(* The seeds of a field, given those of the fields it holds. *)
fieldSeeds(f, seeds) ==
    CASE f.kind = "sphere" -> << f.centre + f.radius >>
      [] f.kind = "torus"  -> << f.centre + f.mC - f.mA >>
      [] f.kind = "wing"   -> << f.seed >>
      [] f.kind = "transform" ->
           [ j \in DOMAIN seeds[f.mFields[1]] |-> apply(f, seeds[f.mFields[1]][j]) ]
      [] OTHER -> Loop("append", << >>, [ j \in DOMAIN f.mFields |-> seeds[f.mFields[j]] ])

getSeeds(fs) == LET seeds[i \in DOMAIN fs] == fieldSeeds(fs[i], seeds) IN seeds

-----------------------------------------------------------------------------
(* A model is what its factory gives a BlobTree: its fields, those given   *)
(* to insertFields, the lists given to insertNodeTree, which hold indices  *)
(* from zero and -1 for "no children", and the field of insertFieldTree.   *)
Model(fs, inserted, lists, fieldTree) ==
    [ fields |-> fs, inserted |-> inserted, tree |-> lists, mFieldTree |-> fieldTree ]

addChildren(list) == Loop("insert", << >>, [ j \in DOMAIN list |-> list[j] + 1 ])

(* A child's box is joined to the node's as it is at that moment: whole,   *)
(* for a child inserted before the node.                                   *)
nodeBoxes(m) ==
    LET boxes[i \in DOMAIN m.inserted] ==
          LET kids == addChildren(m.tree[i])
          IN  Loop("join", getBBox(m.fields)[m.inserted[i]], [ j \in DOMAIN kids |-> boxes[kids[j]] ])
    IN  boxes

(* A finished tree: mVolumeTree is the last node of the lists given.       *)
insertNodeTree(m) ==
    [ i \in DOMAIN m.inserted |->
        [ mField |-> m.inserted[i], mBox |-> nodeBoxes(m)[i], mChildren |-> addChildren(m.tree[i]) ] ]

BlobTree(m) ==
    [ fields |-> m.fields, mNodes |-> insertNodeTree(m),
      mVolumeTree |-> Len(m.tree), mFieldTree |-> m.mFieldTree ]

(* The field of node n pruned to a cell: null where the node's box does    *)
(* not overlap it, and else one of those that subTrees adds to the fields. *)
subTree(t, n, cell) ==
    IF overlaps(t.mNodes[n].mBox, cell) THEN Len(t.fields) + n ELSE Null

(* makeEmpty keeps the kind of the operator and nothing else. *)
subTrees(t, cell) ==
    t.fields \o
    [ n \in DOMAIN t.mNodes |->
        LET node == t.mNodes[n] IN
        IF node.mChildren = << >> THEN t.fields[node.mField]
        ELSE Operator(t.fields[node.mField].kind,
               Loop("insert", << >>, [ j \in DOMAIN node.mChildren |->
                                         subTree(t, node.mChildren[j], cell) ])) ]

getSubTree(t, cell) == subTree(t, t.mVolumeTree, cell)
getTreeBox(t)       == t.mNodes[t.mVolumeTree].mBox

(* What the polygonizer learns of a tree along a grid of res voxels and    *)
(* svRes super-voxels: the box and seeds, the super-voxels that have a     *)
(* pruned field, its values at the grid points, and those of the whole.    *)
Pruning(t, cell) ==
    IF getSubTree(t, cell) = Null THEN [ x \in Int |-> 0 ]
    ELSE eval(subTrees(t, cell))[getSubTree(t, cell)]

Along(m, res, svRes) ==
    LET t     == BlobTree(m)
        b     == getTreeBox(t)
        cells == 0 .. svRes - 1
        xs    == 0 .. res + 1
    IN  [ box |-> b, res |-> res, svRes |-> svRes, seeds |-> getSeeds(t.fields)[t.mFieldTree],
          occupied |-> { c \in cells : getSubTree(t, CellOf(b, svRes, c)) # Null },
          pruned |-> [ c \in cells |-> [ x \in xs |->
                         Pruning(t, CellOf(b, svRes, c))[PointOf(b, res, x)] ] ],
          whole  |-> [ x \in xs |-> eval(t.fields)[t.mFieldTree][PointOf(b, res, x)] ] ]

-----------------------------------------------------------------------------
(* The models.  Each is made for both polygonizers from the same tree.     *)
Leaf == << -1 >>
Lone(fs) == Model(fs, << Len(fs) >>, << Leaf >>, Len(fs))

(* The given ones of the fields under one operator, the root of the tree.  *)
Under(kind, fs, roots) ==
    Model(Append(fs, Operator(kind, roots)), Append(roots, Len(fs) + 1),
          Append([ i \in DOMAIN roots |-> Leaf ], [ i \in DOMAIN roots |-> i - 1 ]), Len(fs) + 1)

All(fs) == [ i \in DOMAIN fs |-> i ]
Two(kind, a, b) == Under(kind, << a, b >>, << 1, 2 >>)

makeSphere       == Lone(<< Sphere(0, Unit) >>)
makeTorus        == Lone(<< Torus(2 * Unit, Unit, 0) >>)
makeBlend        == Two("blend", Sphere(Unit, Unit), Sphere(-Unit, Unit))
makeIntersection == Two("intersection", Sphere(Unit \div 2, Unit), Sphere(-(Unit \div 2), Unit))
makeUnion        == Two("union", Sphere(Unit \div 2, Unit), Sphere(-(Unit \div 2), Unit))

(* Scaled by 5/4 along the line. *)
makeTransform == Lone(<< Torus(2 * Unit, Unit, 0), Transform(5, 4, 0, 1) >>)

(* The body is exact; the wings' tori are turned out of the line, so that  *)
(* their value on it is left open: any value v.                            *)
makeButterfly(v) ==
    LET sphere == Sphere(0, Unit)
        head   == Transform(1, 1, -Unit, 1)
        torso  == Transform(2, 1, Unit, 1)
        tail   == Transform(4, 1, 3 * Unit, 1)
        body   == Operator("union", << 2, 3, 4 >>)
        top    == Wing([ pMin |-> -5 * Unit, pMax |-> 5 * Unit ], v, (3 * Unit) \div 4)
        bottom == Wing([ pMin |-> Unit, pMax |-> 5 * Unit ], v, 3 * Unit)
        wingR  == Operator("blend", << 6, 7 >>)
        wingL  == Transform(1, 1, 0, 8)
    IN  Under("union", << sphere, head, torso, tail, body, top, bottom, wingR, wingL >>, << 5, 8, 9 >>)

(* Spheres at random places of the line; numParticles is their number.     *)
makeParticles(places) ==
    LET spheres == [ i \in DOMAIN places |-> Sphere(places[i], Unit) ]
    IN  Under("blend", spheres, All(spheres))

makeChain(chainLength) ==
    LET spheres == [ i \in 1 .. chainLength |-> Sphere((2 * i - 12) * Unit, Unit) ]
    IN  Under("blend", spheres, All(spheres))
-----------------------------------------------------------------------------
(* What all of the models have in common.  A field holds earlier ones; the *)
(* box of a transform is exact, and a torus is centred in the box it has.  *)
FieldOK(fs, i) ==
    LET f    == fs[i]
        held == f.mFields[1]
    IN  CASE f.kind = "sphere" ->
               f = Sphere(f.centre, f.radius) /\ f.centre \in Int /\ f.radius \in Nat
          [] f.kind = "torus" ->
               f = Torus(f.mC, f.mA, 0) /\ f.mC \in Nat /\ f.mA \in Nat
          [] f.kind = "wing" ->
               /\ f = Wing([ pMin |-> f.box.pMin, pMax |-> f.box.pMax ], f.val, f.seed)
               /\ f.box.pMin \in Int /\ f.box.pMax \in Int /\ f.seed \in Int /\ f.val \in Nat
               /\ f.box.pMin <= f.seed /\ f.seed < f.box.pMax
          [] f.kind = "transform" ->
               /\ f = Transform(f.num, f.den, f.shift, held)
               /\ f.num \in Nat \ {0} /\ f.den \in Nat \ {0} /\ f.shift \in Int
               /\ held \in 1 .. i - 1
               /\ \A end \in { getBBox(fs)[held].pMin, getBBox(fs)[held].pMax } :
                     (f.num * end) % f.den = 0
          [] OTHER ->
               /\ f = Operator(f.kind, f.mFields) /\ f.kind \in Operators
               /\ f.mFields \in Seq(1 .. i - 1) /\ f.mFields # << >>

(* Where an intersection's box is, some child's is; and where some child's *)
(* is not, another one's is that has the place outside the surface.        *)
Meet(m, kids, i, iso) ==
    LET inside(j, x) == nodeBoxes(m)[kids[j]].pMin <= x /\ x <= nodeBoxes(m)[kids[j]].pMax
    IN  \A x \in nodeBoxes(m)[i].pMin .. nodeBoxes(m)[i].pMax :
          /\ \E j \in DOMAIN kids : inside(j, x)
          /\ (\E j \in DOMAIN kids : ~inside(j, x)) =>
                \E j \in DOMAIN kids :
                    inside(j, x) /\ eval(m.fields)[m.inserted[kids[j]]][x] < iso

(* A node with children mirrors the fields its operator holds, and a blend *)
(* has leaves or other blends under it.                                    *)
NodeOK(m, i, iso) ==
    LET f    == m.fields[m.inserted[i]]
        kids == addChildren(m.tree[i])
    IN  /\ \A j \in DOMAIN m.tree[i] : m.tree[i][j] \in -1 .. i - 2
        /\ kids # << >> =>
              /\ f.kind \in Operators
              /\ f.mFields = [ j \in DOMAIN kids |-> m.inserted[kids[j]] ]
              /\ f.kind = "blend" =>
                    \A j \in DOMAIN kids : \/ addChildren(m.tree[kids[j]]) = << >>
                                           \/ m.fields[m.inserted[kids[j]]].kind = "blend"
              /\ f.kind = "intersection" => Meet(m, kids, i, iso)

ModelOK(m, iso) ==
    /\ m.fields \in Seq({ m.fields[i] : i \in DOMAIN m.fields })
    /\ m.inserted \in Seq(DOMAIN m.fields) /\ m.inserted # << >>
    /\ m.tree \in Seq(Seq(Int)) /\ Len(m.tree) = Len(m.inserted)
    /\ m.mFieldTree = m.inserted[Len(m.inserted)]
    /\ \A i \in DOMAIN m.fields : FieldOK(m.fields, i)
    /\ \A i \in DOMAIN m.inserted : NodeOK(m, i, iso)
=============================================================================
