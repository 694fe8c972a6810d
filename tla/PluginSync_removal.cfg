SPECIFICATION Spec
CONSTANTS
    f1 = f1
    f2 = f2
    v1 = v1
    v2 = v2
    Published <- MCPublished
    Gathering <- MCGathering
    Files = {f1, f2}
    Versions = {v1, v2}
    Partial = Partial
    None = None
    MaxChanges = 1
PROPERTY RemovalSurvives
