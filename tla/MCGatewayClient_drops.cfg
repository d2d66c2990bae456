\* Connections end, heartbeats fail, and the client reconnects or ends.
SPECIFICATION FairSpec
CHECK_DEADLOCK FALSE
CONSTANTS
    Guilds = {g1, g2}
    Senders = {m1}
    Main = m1
    RetryLimit = 1
    MaxReloads = 1
    MaxFaults = 2
INVARIANTS
    TypeOK
    OnlyRequestsStrand
    LoadedMeansComplete
    UndisturbedServes
PROPERTIES
    DropsAreRecovered
    EverySendReturns
    SendsAreBounded
