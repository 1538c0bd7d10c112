SPECIFICATION Spec
CONSTANTS
    s1 = s1
    s2 = s2
    None = None
    Stewards = {s1, s2}
    Fields <- MCFields
    Material <- MCFields
    Decided <- MCFields
    Value <- MCValue
    SeedValue <- MCSeedValue
    MaxRow = 4
    MaxChanged = 1
SYMMETRY StewardSymmetry
INVARIANTS
    PublishedRestsOnEvidence
    VersionNamesOneContent
PROPERTY ResolutionSawEvidence
CHECK_DEADLOCK FALSE
