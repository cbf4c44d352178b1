SPECIFICATION Spec
CONSTANT GridSize = 1
INVARIANTS
    TablesAgree
    PatchClosedInside
PROPERTY
    PatchesMeet
