SPECIFICATION Spec
CONSTANTS
    s1 = s1
    s2 = s2
    u1 = u1
    u2 = u2
    fileA = fileA
    fileB = fileB
    fileX = fileX
    configA = configA
    configB = configB
    Invalid = Invalid
    Nothing = Nothing
    Configs <- AllConfigs
    Adapt <- AdaptFiles
    Servers = {s1}
    Updates = {u1, u2}
    Caddyfiles <- FilesAX
    ControlledLists <- ListOne
    NumSlots = 1
    OverlapPhases <- FullOverlap
    MaxChanges = 2
    MaxRestarts = 1
    MaxLate = 0
SYMMETRY Symmetry
INVARIANTS
    TypeOK
    BodyAsNewAsVersion
    FlagHasOwner
