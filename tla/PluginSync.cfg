SPECIFICATION FairSpec
CONSTANTS
    f1 = f1
    f2 = f2
    v1 = v1
    v2 = v2
    Published <- MCPublished
    Gathering <- MCGathering
    Files = {f1}
    Versions = {v1, v2}
    Partial = Partial
    None = None
    MaxChanges = 3
INVARIANT RegistryServesLive
INVARIANT AliveRunsDiskVersion
PROPERTY RegistryStable
PROPERTY SyncAnswered
PROPERTY GoroutinesEnd
PROPERTY StaleSpecsLeave
