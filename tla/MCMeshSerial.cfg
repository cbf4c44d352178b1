SPECIFICATION FairSpec
CONSTANTS
    GridSize = 2
    DISABLE_PARALLEL = TRUE
    Surfaces <- MCSerial
INVARIANTS
    OneVertexPerEdge
    MeshClosed
