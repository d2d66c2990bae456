\* A command is sent during a reconnect.
SPECIFICATION Spec
CHECK_DEADLOCK FALSE
CONSTANTS
    Guilds = {g1}
    Senders = {m1}
    Main = m1
    RetryLimit = 1
    MaxReloads = 0
    MaxFaults = 1
INVARIANTS
    ReconnectsAreGraceful
