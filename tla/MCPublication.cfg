SPECIFICATION FairPublicationSpec
CONSTANTS
    s1 = s1
    u1 = u1
    u2 = u2
    fileA = fileA
    fileB = fileB
    fileX = fileX
    configA = configA
    configB = configB
    a = a
    b = b
    Invalid = Invalid
    Nothing = Nothing
    Unreadable = Unreadable
    BadOptions = BadOptions
    Configs <- AllConfigs
    Adapt <- AdaptFiles
    Options <- BothPublishers
    Blocks <- FileBlocks
    Servers = {s1}
    Updates = {u1, u2}
    Caddyfiles = {fileA, fileB, fileX}
    ControlledLists <- ListOne
    NumSlots = 1
    OverlapPhases <- NoOverlap
    MaxChanges = 2
    MaxRestarts = 0
    MaxLate = 1
    MaxPublications = 5
INVARIANTS
    ManagerTypeOK
PROPERTIES
    NamesFollow
    ReachesNewest
