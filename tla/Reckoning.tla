------------------------------ MODULE Reckoning ------------------------------
(* Plank's reckoning: one message a day, at a random time of a window, by a    *)
(* loop that remembers the day of its last run in SQLite (reckoning.go,        *)
(* repository.go).  Time is a day and a tick of that day in TIMEZONE; the      *)
(* process may stop at any step and be started again.                          *)
EXTENDS Integers

CONSTANTS
    DayLength,  \* ticks in a day
    StartHour,  \* the tick at which a window starts, START_HOUR
    Buffer,     \* END_BUFFER_SECONDS: how long before midnight it ends
    Latency,    \* how late a timer, a request and a save may be, in all
    ZoneAhead,  \* how far TIMEZONE is ahead of the zone time.Unix answers in, or behind
    MaxDays, MaxStops, MaxFaults

\* A mistake the properties must notice: the window runs to midnight.
WindowEndAtMidnight == DayLength

\* The moment the window closes; an instant at or after it is too late.
WindowEnd == DayLength - Buffer

ASSUME DayAssumption ==
    /\ DayLength \in Nat /\ StartHour \in Nat /\ Buffer \in Nat
    /\ 0 < StartHour /\ 0 < Buffer /\ StartHour + Buffer < DayLength
\* The REST client gives up after 10 seconds and the buffer is 30.
ASSUME LatencyAssumption == Latency \in Nat /\ Latency <= Buffer
\* TIMEZONE is no more ahead of the server's zone than START_HOUR, 6 o'clock, and
\* behind it by no more than the buffer leaves.  The deployment's is: Europe/London in
\* a container on UTC (docker-compose.yml:17).  Not every TIMEZONE would be.
ASSUME ZoneAssumption ==
    ZoneAhead \in Int /\ ZoneAhead <= StartHour /\ Latency - ZoneAhead <= Buffer
ASSUME BoundAssumption == MaxDays \in Nat \ {0} /\ MaxStops \in Nat /\ MaxFaults \in Nat

Ticks == 0 .. DayLength - 1
Days == 1 .. MaxDays
NoDay == 0      \* lastRun is nil; the day before the first is no day of the model
Never == [day |-> 0, tick |-> 0]        \* the table has no row

VARIABLES
    day, tick,  \* now, in TIMEZONE
    pc,         \* where the loop is; "down" while there is no process
    lastRun,    \* the date of the variable lastRun, all that is read of it
    windowDay,  \* the date of windowStart
    due,        \* the tick at which the timer drawn for this window fires
    delay,      \* how far behind due the run is
    stamp,      \* the loop's variable now
    saved,      \* last_message_sent, as an instant
    posted,     \* how often the message of a day was posted
    forgotten,  \* days whose message the process could not know of when it started
    excused,    \* days on which no process was up at the end, or the post failed
    own,        \* days whose message the present process has posted
    stops, faults

vars == <<day, tick, pc, lastRun, windowDay, due, delay, stamp, saved, posted,
          forgotten, excused, own, stops, faults>>
time == <<day, tick>>
locals == <<lastRun, windowDay, due, delay, stamp>>
history == <<posted, forgotten, excused, own>>
budgets == <<stops, faults>>

Instants == [day : Days, tick : Ticks]
Now == [day |-> day, tick |-> tick]

Init ==
    /\ day = 1 /\ tick = 0
    /\ pc = "down"
    /\ lastRun = NoDay /\ windowDay = NoDay /\ due = 0 /\ delay = 0
    /\ stamp = Never /\ saved = Never
    /\ posted = [d \in Days |-> 0]
    /\ forgotten = {} /\ excused = {} /\ own = {}
    /\ stops = 0 /\ faults = 0

Fault == faults < MaxFaults /\ faults' = faults + 1

-----------------------------------------------------------------------------
(* Time.  The loop computes in no time; timers, requests and saves are late by *)
(* Latency at most.                                                            *)

WindowOpened == day > windowDay \/ (day = windowDay /\ tick >= StartHour)
WindowOver == day > windowDay \/ (day = windowDay /\ tick >= WindowEnd)

\* The loop is about to compute something.
Busy == pc = "plan" \/ (pc = "start" /\ WindowOpened)

\* The timer is due, or a request or a save is under way.
Running == pc \in {"send", "answered", "save"} \/ (pc = "wait" /\ tick >= due)

Clock ==
    /\ ~Busy
    /\ Running => delay < Latency
    /\ IF tick < DayLength - 1
         THEN tick' = tick + 1 /\ day' = day
         ELSE tick' = 0 /\ day < MaxDays /\ day' = day + 1
    /\ delay' = IF Running THEN delay + 1 ELSE delay
    /\ excused' = IF pc \in {"down", "load"} /\ tick >= WindowEnd - 1
                    THEN excused \cup {day} ELSE excused
    /\ UNCHANGED <<pc, lastRun, windowDay, due, stamp, saved, posted, forgotten, own, budgets>>

-----------------------------------------------------------------------------
(* The process.                                                                *)

Start ==
    /\ pc = "down"
    /\ pc' = "load"
    /\ UNCHANGED <<time, locals, saved, history, budgets>>

\* A crash, a failure elsewhere in the program, or a signal.
Stop ==
    /\ pc # "down" /\ stops < MaxStops
    /\ stops' = stops + 1
    /\ pc' = "down"
    /\ excused' = IF tick >= WindowEnd - 1 THEN excused \cup {day} ELSE excused
    /\ own' = {}
    /\ UNCHANGED <<time, locals, saved, posted, forgotten, faults>>

\* The date of the saved instant: time.Unix answers in the server's own zone, where it
\* may be the day before or the day after.
SavedDate ==
    IF saved = Never THEN NoDay
    ELSE IF saved.tick < ZoneAhead THEN saved.day - 1
    ELSE IF saved.tick - ZoneAhead >= DayLength THEN saved.day + 1
    ELSE saved.day

Load ==
    /\ pc = "load"
    /\ pc' = "plan"
    /\ lastRun' = SavedDate
    /\ forgotten' = forgotten \cup {d \in Days : posted[d] > 0 /\ d > saved.day}
    /\ UNCHANGED <<time, windowDay, due, delay, stamp, saved, posted, excused, own, budgets>>

\* The error is logged, and the loop goes on as if there had been no run.
LoadFails ==
    /\ pc = "load" /\ Fault
    /\ pc' = "plan"
    /\ lastRun' = NoDay
    /\ forgotten' = forgotten \cup {d \in Days : posted[d] > 0}
    /\ UNCHANGED <<time, windowDay, due, delay, stamp, saved, posted, excused, own, stops>>

-----------------------------------------------------------------------------
(* Mistakes the properties must notice.                                        *)

\* The next window is on the day of the last run.
PlanSameDay ==
    /\ pc = "plan"
    /\ pc' = "start"
    /\ windowDay' = IF lastRun = NoDay THEN day ELSE lastRun
    /\ UNCHANGED <<time, lastRun, due, delay, stamp, saved, history, budgets>>

\* Only what is saved counts as run.
StampForgets ==
    /\ pc = "answered"
    /\ pc' = "save"
    /\ stamp' = Now
    /\ UNCHANGED <<time, lastRun, windowDay, due, delay, saved, history, budgets>>

\* Skipping a window takes the present day for done.
SkipToday ==
    /\ pc = "start" /\ WindowOver
    /\ pc' = "plan"
    /\ lastRun' = day
    /\ UNCHANGED <<time, windowDay, due, delay, stamp, saved, history, budgets>>

\* The timer may be drawn for the moment the window closes.
OpenInclusive ==
    /\ pc = "start" /\ WindowOpened /\ ~WindowOver
    /\ pc' = "wait"
    /\ due' \in tick .. WindowEnd
    /\ delay' = 0
    /\ UNCHANGED <<time, lastRun, windowDay, stamp, saved, history, budgets>>

-----------------------------------------------------------------------------
(* runPlanksReckoningLoop.                                                     *)

Plan ==
    /\ pc = "plan"
    /\ pc' = "start"
    /\ windowDay' = IF lastRun = NoDay THEN day ELSE lastRun + 1
    /\ UNCHANGED <<time, lastRun, due, delay, stamp, saved, history, budgets>>

\* The window is open: draw a time of what is left of it.
Open ==
    /\ pc = "start" /\ WindowOpened /\ ~WindowOver
    /\ pc' = "wait"
    /\ due' \in tick .. WindowEnd - 1
    /\ delay' = 0
    /\ UNCHANGED <<time, lastRun, windowDay, stamp, saved, history, budgets>>

\* The window is over: treat its end as the last run.
Skip ==
    /\ pc = "start" /\ WindowOver
    /\ pc' = "plan"
    /\ lastRun' = windowDay
    /\ UNCHANGED <<time, windowDay, due, delay, stamp, saved, history, budgets>>

Fire ==
    /\ pc = "wait" /\ tick >= due
    /\ pc' = "send"
    /\ UNCHANGED <<time, locals, saved, history, budgets>>

\* The message is posted, whether or not the answer arrives.
Post ==
    /\ pc = "send"
    /\ pc' = "answered"
    /\ posted' = [posted EXCEPT ![day] = @ + 1]
    /\ own' = own \cup {day}
    /\ UNCHANGED <<time, locals, saved, forgotten, excused, budgets>>

\* The error is logged; the day counts as run.
PostFails ==
    /\ pc = "send" /\ Fault
    /\ pc' = "answered"
    /\ excused' = excused \cup {day}
    /\ UNCHANGED <<time, locals, saved, posted, forgotten, own, stops>>

Stamp ==
    /\ pc = "answered"
    /\ pc' = "save"
    /\ stamp' = Now
    /\ lastRun' = day
    /\ UNCHANGED <<time, windowDay, due, delay, saved, history, budgets>>

Save ==
    /\ pc = "save"
    /\ pc' = "plan"
    /\ saved' = stamp
    /\ UNCHANGED <<time, locals, history, budgets>>

\* The error is logged; the loop itself still knows.
SaveFails ==
    /\ pc = "save" /\ Fault
    /\ pc' = "plan"
    /\ UNCHANGED <<time, locals, saved, history, stops>>

Next ==
    \/ Clock \/ Start \/ Stop \/ Load \/ LoadFails
    \/ Plan \/ Open \/ Skip \/ Fire \/ Post \/ PostFails
    \/ Stamp \/ Save \/ SaveFails

Spec == Init /\ [][Next]_vars

-----------------------------------------------------------------------------
(* Properties.                                                                 *)

\* Every variable has its type; a timer is drawn inside the window.
TypeOK ==
    /\ day \in Days /\ tick \in Ticks
    /\ pc \in {"down", "load", "plan", "start", "wait", "send", "answered", "save"}
    /\ lastRun \in 0 .. MaxDays + 1
    /\ windowDay \in 0 .. MaxDays + 2
    /\ due \in 0 .. WindowEnd - 1 /\ delay \in 0 .. Latency
    /\ stamp \in Instants \cup {Never} /\ saved \in Instants \cup {Never}
    /\ posted \in [Days -> Nat]
    /\ forgotten \in SUBSET Days /\ excused \in SUBSET Days /\ own \in SUBSET Days
    /\ stops \in 0 .. MaxStops /\ faults \in 0 .. MaxFaults

\* A day's message is posted twice only if a process started that could not know
\* of the first: the time was not saved before the last one stopped
\* (reckoning.go:69-77), or could not be read.
OncePerDay == \A d \in Days : posted[d] > 1 => d \in forgotten

\* Every day that is over has had its message, unless no process was up in the
\* last moment of its window or the post failed: whatever was saved, skipped or
\* restarted, the loop comes back to each day's window (reckoning.go:22-59).
NoDaySkipped == \A d \in Days : d < day => posted[d] > 0 \/ d \in excused

\* A run is over by midnight of its window's day, and does not begin before the
\* window: "Avoid running very close to midnight as delays could cause the run to
\* finish after midnight" (reckoning.go:14).  The next window is computed from
\* the day the run ends on.
RunsOnItsDay ==
    pc \in {"send", "answered", "save"} => day = windowDay /\ tick >= StartHour

\* However saving and loading fail, one process posts a day's message once: what it
\* did it knows without the database (reckoning.go:69-77), so a second message of a day
\* takes a second process.
OncePerProcess == [][\A d \in Days : posted'[d] > posted[d] => d \notin own]_vars

\* The last day the process counts as done.
Done ==
    CASE pc \in {"plan", "save"}          -> lastRun
      [] pc \in {"start", "wait", "send"} -> windowDay - 1
      [] pc = "answered"                  -> windowDay
      [] OTHER                            -> 0

\* reckoning.go:12-79: the loop is the daily message that DailyMessage describes.
\* Whatever fails, a process goes through the days in order, passes over none that
\* is not handled, and no day ends otherwise.
Daily == INSTANCE DailyMessage WITH up <- pc \notin {"down", "load"}, done <- Done
DailySpec == Daily!Spec
=============================================================================
