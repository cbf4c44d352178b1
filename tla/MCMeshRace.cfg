SPECIFICATION FairSpec
CONSTANTS
    GridSize = 2
    DISABLE_PARALLEL = FALSE
    Surfaces <- MCParallel
INVARIANT
    OneVertexPerEdge
