SPECIFICATION FairSpec
CONSTANTS
    GridSize = 2
    DISABLE_PARALLEL = FALSE
    Surfaces <- MCParallel
INVARIANTS
    TypeOK
    MeshIndexed
    SurfaceClosed
PROPERTIES
    ImplementsTriangleSoup
    Completes
