\* Four days of five ticks, the windows from tick 1 to 4; two stops, one failure.
\* The days run out: time stops at the end of the last.
SPECIFICATION Spec
CHECK_DEADLOCK FALSE
CONSTANTS
    DayLength = 5
    StartHour = 1
    Buffer = 1
    Latency = 1
    ZoneAhead = 1
    MaxDays = 4
    MaxStops = 2
    MaxFaults = 1
INVARIANTS
    TypeOK
    OncePerDay
    NoDaySkipped
    RunsOnItsDay
PROPERTIES
    OncePerProcess
    DailySpec
