SPECIFICATION FairSpec
CONSTANTS
    u1 = u1
    u2 = u2
    NumClients = 2
    Updates <- UpdatesTwo
    EventThrottleInterval = 1
    PollingInterval = 3
    Events <- EventsTwo
    MaxRevision = 1
    MaxBacklog = 1
INVARIANTS
    TypeOK
    SkippingEnds
    EventNotLost
PROPERTIES
    ChangeEventuallyRead
