SPECIFICATION FairSpec
CONSTANTS
    Unit = 4
    HashBase = 64
    Models <- MCModels
    Iso <- DefaultIso
    Tasks = {t1, t2}
    MaxSeen = 2
INVARIANTS
    NeverThrows
    SeedsInGrid
    ReadsKeepSides
    CacheSound
PROPERTY
    CallsReturn
