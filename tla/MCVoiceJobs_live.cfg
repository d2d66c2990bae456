\* Every call is answered, and every check ends.
SPECIFICATION FairSpec
CONSTANTS
    Users = {u1}
    Bot = bot
    Office = office
    Default = lobby
    Rooms = {r1}
    None = none
    Checker = checker
    Closers = {}
    Sweepers = {}
    Rpcs = {rpc1}
    MoveRequests <- MCLobbyRequests
    WorkingHours = TRUE
    MaxUserMoves = 0
    MaxHoldCalls = 0
    MaxFaults = 1
PROPERTIES
    EveryCallAnswered
    CheckerComesBack
    EveryJobAdvances
