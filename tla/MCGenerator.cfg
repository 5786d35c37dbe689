SPECIFICATION FairSpec
CONSTANTS
    web = web
    app = app
    bad = bad
    svc = svc
    com = com
    alt = alt
    fail = fail
    front = front
    back = back
    u1 = u1
    u2 = u2
    Keys = {1, 2, 3, 4, 5, 6, 7}
    Snippets = {1}
    Commas = {7}
    Address <- AddressOf
    Updates = {u1, u2}
    NumClients = 2
    OwnClients = {1}
    Networks = {front, back}
    Ingress = {front}
    ControllerNets = {back}
    Objects = {web, app, bad, svc, com, alt, fail}
    Setups <- SomeSetups
    CacheInterval = 1
    MaxFaults = 1
    MaxChanges = 1
INVARIANTS
    TypeOK
    ResultAdapts
    SitesSurvive
    MergedServesAll
    UpstreamsKept
PROPERTIES
    Recovers
    SameBlocksSameResult
