\* Somebody leaves the channel after the snapshot and is moved all the same.
SPECIFICATION Spec
CONSTANTS
    Users = {u1}
    Bot = bot
    Office = office
    Default = lobby
    Rooms = {r1}
    None = none
    Checker = checker
    Closers = {}
    Sweepers = {}
    Rpcs = {rpc1}
    MoveRequests <- MCRequests
    WorkingHours = FALSE
    MaxUserMoves = 1
    MaxHoldCalls = 0
    MaxFaults = 0
PROPERTIES
    OnlyThoseInFromChannel
