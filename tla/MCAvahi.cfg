SPECIFICATION FairSpec
CONSTANTS
    app = app
    web = web
    out = out
    ip1 = ip1
    ip2 = ip2
    Names = {app, web, out}
    LocalNames = {app, web}
    NameSets <- Sets
    Addresses <- Addrs
    Refresh = TRUE
    MaxJobs = 3
    MaxChanges = 1
    MaxTogether = 2
CHECK_DEADLOCK FALSE
INVARIANTS
    TypeOK
    OneServer
PROPERTIES
    SuccessAnswers
    AddressFollowed
    NewestAnswered
