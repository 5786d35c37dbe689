SPECIFICATION FairSpec
CONSTANTS
    app = app
    App = App
    web = web
    out = out
    ip = ip
    oldip = oldip
    Names = {app, App, web, out}
    Normal <- LowerCase
    ZoneNames = {app, web}
    NameSets <- Sets
    NoName = NoName
    Values = {ip, oldip}
    RecordType = "A"
    RecordValue = ip
    InitialZones <- Zones
    MaxJobs = 2
    MaxAttempts = 2
    MaxEdits = 1
CHECK_DEADLOCK FALSE
INVARIANTS
    TypeOK
PROPERTIES
    UnmanagedKept
    SuccessIsExact
    PublishReturns
