\* The office closes during a MoveMembers call, and requests fail.
SPECIFICATION Spec
CONSTANTS
    Users = {u1, u2}
    Bot = bot
    Office = office
    Default = lobby
    Rooms = {r1}
    None = none
    Checker = checker
    Closers = {closer1}
    Sweepers = {}
    Rpcs = {rpc1}
    MoveRequests <- MCRequests
    WorkingHours = FALSE
    MaxUserMoves = 0
    MaxHoldCalls = 0
    MaxFaults = 1
SYMMETRY MCSymmetry
INVARIANTS
    HolderDirectsBot
    ReportIsAccurate
    MovesAreWhole
    CacheIsOnlyLate
