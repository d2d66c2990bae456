\* Four days of four ticks, open from tick 1 to 3; any two failures or restarts.
SPECIFICATION FairSpec
CONSTANTS
    Users = {u1, u2}
    Days = 4
    Weekdays <- MCWeekdays
    Holidays <- MCHolidays
    DayLength = 4
    OpenAt = 1
    CloseAt = 3
    TTL = 4
    MaxFaults = 2
INVARIANTS
    TypeOK
    KeyBeforeLock
    OfficeFollowsHours
PROPERTIES
    ComesRight
