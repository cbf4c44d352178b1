SPECIFICATION SpecPolygonizer
CONSTANTS
    GridSize = 3
    Jobs <- MCJobs
INVARIANTS
    MeshWhole
    WoundInward
