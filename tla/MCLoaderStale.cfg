SPECIFICATION FairSpec
CONSTANTS
    s1 = s1
    s2 = s2
    u1 = u1
    u2 = u2
    fileA = fileA
    fileB = fileB
    fileX = fileX
    configA = configA
    configB = configB
    Invalid = Invalid
    Nothing = Nothing
    Configs <- AllConfigs
    Adapt <- AdaptFiles
    Servers = {s1}
    Updates = {u1, u2}
    Caddyfiles <- ValidFiles
    ControlledLists <- ListOne
    NumSlots = 1
    OverlapPhases <- AdaptOverlap
    MaxChanges = 1
    MaxRestarts = 0
    MaxLate = 0
PROPERTIES
    Convergence
