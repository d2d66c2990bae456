\* The checker, a MoveMembers call and a hold meet while somebody moves around.
SPECIFICATION Spec
CONSTANTS
    Users = {u1}
    Bot = bot
    Office = office
    Default = lobby
    Rooms = {r1}
    None = none
    Checker = checker
    Closers = {}
    Sweepers = {}
    Rpcs = {rpc1}
    MoveRequests <- MCRequests
    WorkingHours = TRUE
    MaxUserMoves = 1
    MaxHoldCalls = 2
    MaxFaults = 0
INVARIANTS
    RoundUpSparesHeldRoom
    GivenUpCallMovesNobody
    FollowingFlushesMoves
