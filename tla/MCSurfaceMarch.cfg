SPECIFICATION FairSpec
CONSTANTS
    GridSize = 3
    Jobs <- MCJobs
INVARIANTS
    TypeOK
    NoRepeatedVoxels
    NoCrossingLost
    NothingMissed
    SeedsRecorded
PROPERTIES
    NoTunnelling
    EndsUnlessWalking
    ImplementsFloodFill
