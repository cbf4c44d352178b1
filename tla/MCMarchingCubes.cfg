SPECIFICATION Spec
CONSTANTS
    GridSize = 3
    Scenes <- MCScenes
INVARIANTS
    NormalsPaired
    MeshResolves
    Watertight
    WoundOutward
    ReloadKeepsMesh
    SoupComplete
CHECK_DEADLOCK FALSE
