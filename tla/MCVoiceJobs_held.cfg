\* A hold arrives after the second look at the holds.
SPECIFICATION Spec
CONSTANTS
    Users = {u1}
    Bot = bot
    Office = office
    Default = lobby
    Rooms = {r1}
    None = none
    Checker = checker
    Closers = {}
    Sweepers = {}
    Rpcs = {}
    MoveRequests <- MCRequests
    WorkingHours = TRUE
    MaxUserMoves = 1
    MaxHoldCalls = 1
    MaxFaults = 0
PROPERTIES
    HeldChannelLeftAlone
