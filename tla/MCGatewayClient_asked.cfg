\* Discord asks for a reconnect.
SPECIFICATION FairSpec
CHECK_DEADLOCK FALSE
CONSTANTS
    Guilds = {g1}
    Senders = {m1}
    Main = m1
    RetryLimit = 1
    MaxReloads = 0
    MaxFaults = 1
PROPERTIES
    RequestedReconnectHappens
