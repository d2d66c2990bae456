\* The office closes during a sweep, and requests fail.
SPECIFICATION Spec
CONSTANTS
    Users = {u1}
    Bot = bot
    Office = office
    Default = lobby
    Rooms = {r1}
    None = none
    Checker = checker
    Closers = {closer1}
    Sweepers = {sweeper1}
    Rpcs = {}
    MoveRequests <- MCRequests
    WorkingHours = FALSE
    MaxUserMoves = 0
    MaxHoldCalls = 0
    MaxFaults = 2
INVARIANTS
    TypeOK
    NoSessionConflict
    LeavesAfterStay
    BotGoesHome
    HolderGoesOn
PROPERTIES
    LeaseSpec
