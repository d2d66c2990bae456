----------------------------- MODULE OfficeHours -----------------------------
(* When people can enter the office: the cron schedule, the reconciliation at  *)
(* start-up, the cache of bank holidays, and the requests that open and close  *)
(* the channel (janitor.go, officeState.go, holidays.go).  A tick is an hour   *)
(* or so: what a job does at 9:00 or 17:00 is over before the next one.        *)
EXTENDS Integers

CONSTANTS
    Users,
    Days,           \* a cycle of days, 0 .. Days - 1
    Weekdays,       \* Monday to Friday
    Holidays,       \* the bank holidays of the feed
    DayLength,      \* ticks in a day
    OpenAt, CloseAt,    \* 9:00 and 17:00
    TTL,            \* how long fetched holidays are good for
    MaxFaults

ASSUME CalendarAssumption ==
    /\ Days \in Nat \ {0}
    /\ Weekdays \subseteq 0 .. Days - 1 /\ Holidays \subseteq 0 .. Days - 1
ASSUME HoursAssumption ==
    /\ DayLength \in Nat /\ OpenAt \in Nat /\ CloseAt \in Nat
    /\ 0 < OpenAt /\ OpenAt < CloseAt /\ CloseAt < DayLength
ASSUME BoundAssumption == TTL \in Nat /\ MaxFaults \in Nat

VARIABLES
    day, tick,  \* now, in TIMEZONE
    age,        \* ticks since the holidays were fetched, up to TTL + 1
    allowed,    \* everyone may connect to the office
    key,        \* the janitor itself may, whatever everyone may
    inside,     \* who is in the office
    seen,       \* who is, according to the cached guild
    spared,     \* people inside whom the last closing could not have moved out
    pc,         \* the program: "down", "boot", "starting", "serve"
    step,       \* where the job is that opens or closes the office
    want,       \* it is to be opened
    excused,    \* the last job failed, was misinformed or came too early
    faults

vars == <<day, tick, age, allowed, key, inside, seen, spared, pc, step, want,
          excused, faults>>
time == <<day, tick>>
office == <<allowed, key>>
people == <<inside, seen, spared>>

Init ==
    /\ day = 0 /\ tick = 0
    /\ age = 0
    /\ allowed \in BOOLEAN /\ key \in BOOLEAN /\ (allowed \/ key)
    /\ inside = {} /\ seen = {} /\ spared = {}
    /\ pc = "down" /\ step = "idle" /\ want = FALSE
    /\ excused = FALSE
    /\ faults = 0

Fault == faults < MaxFaults /\ faults' = faults + 1

\* What the office ought to be: open on working days from 9:00 to 17:00.
OfficeHour == day \in Weekdays \ Holidays /\ OpenAt <= tick /\ tick < CloseAt

-----------------------------------------------------------------------------
(* Mistakes the properties must notice.                                        *)

\* The schedule runs while the office is still being reconciled.
CronBeforeServing(d, t) ==
    pc \in {"starting", "serve"} /\ d \in Weekdays /\ t \in {OpenAt, CloseAt}

\* "00 09 * * *" and "00 17 * * *".
CronEveryDay(d, t) == pc = "serve" /\ t \in {OpenAt, CloseAt}

\* The job runs on holidays too.
BeginAnyDay ==
    /\ step = "lookup"
    /\ age <= TTL /\ UNCHANGED <<age, faults>>
    /\ step' = IF want THEN "unlock" ELSE "key"
    /\ excused' = FALSE
    /\ UNCHANGED <<time, office, people, pc, want>>

\* The office is closed even though the janitor got no key.
LockWithoutKey ==
    /\ step = "key" /\ Fault
    /\ key' \in {key, TRUE}
    /\ step' = "lock"
    /\ UNCHANGED <<time, age, allowed, people, pc, want, excused>>

-----------------------------------------------------------------------------
(* Time and the schedule.                                                      *)

\* "00 09 * * 1-5" and "00 17 * * 1-5", once the schedule is started.
CronDue(d, t) == pc = "serve" /\ d \in Weekdays /\ t \in {OpenAt, CloseAt}

\* An hour passes; the schedule starts its job on the hour.
Clock ==
    /\ pc = "serve" => step = "idle"
    /\ IF tick + 1 < DayLength
         THEN tick' = tick + 1 /\ day' = day
         ELSE tick' = 0 /\ day' = IF day + 1 < Days THEN day + 1 ELSE 0
    /\ age' = IF age > TTL THEN age ELSE age + 1
    /\ IF CronDue(day', tick')
         THEN step' = "lookup" /\ want' = (tick' = OpenAt)
         ELSE UNCHANGED <<step, want>>
    /\ excused' = (excused \/ (pc = "starting" /\ OfficeHour' # OfficeHour))
    /\ UNCHANGED <<office, people, pc, faults>>

-----------------------------------------------------------------------------
(* The holidays: GetHoliday answers from the cache for a day, then fetches.    *)

\* fetch: the feed is read and decoded.
Fetch == age' = 0 /\ UNCHANGED faults

\* load leaves fresh holidays alone; an age of TTL ticks may be either.
HolidayKnown ==
    \/ age <= TTL /\ UNCHANGED <<age, faults>>
    \/ age >= TTL /\ Fetch

\* The fetch fails; the holidays of the day before are of no use any more.
HolidayUnknown == age >= TTL /\ Fault /\ UNCHANGED age

\* The checker and the API are there once the office is reconciled.
Running == pc = "serve" \/ (pc = "starting" /\ step = "idle")

\* A person's voice state starts the channel checker, which asks as well.
CheckerLookup ==
    /\ Running /\ day \in Weekdays
    /\ HolidayKnown \/ HolidayUnknown
    /\ UNCHANGED <<time, office, people, pc, step, want, excused>>

\* In office hours of a day that it does not know to be a holiday, it moves whom it
\* finds elsewhere into the office; it does not ask whether that is open.
CheckerMoves(found) ==
    /\ Running /\ day \in Weekdays
    /\ OpenAt <= tick /\ tick < CloseAt
    /\ (HolidayKnown /\ day \notin Holidays) \/ HolidayUnknown
    /\ inside' = inside \cup found
    /\ UNCHANGED <<time, office, seen, spared, pc, step, want, excused>>

-----------------------------------------------------------------------------
(* The program: NewJanitor, Janate.                                            *)

\* Holidays, gateway, channels and database; the guild arrives with who is inside.
Boot ==
    /\ pc = "down"
    /\ pc' = "boot"
    /\ Fetch
    /\ seen' = inside
    /\ UNCHANGED <<time, office, inside, spared, step, want, excused>>

\* The program ends in any state, by itself, by a signal or by a failed start;
\* what runs it starts it again.
Crash ==
    /\ pc # "down" /\ Fault
    /\ pc' = "down"
    /\ step' = "idle"
    /\ UNCHANGED <<time, age, office, people, want, excused>>

\* reconcileOfficeState: should it be open now?
Decide ==
    /\ pc = "boot"
    /\ pc' = "starting"
    /\ IF day \in Weekdays THEN HolidayKnown ELSE UNCHANGED <<age, faults>>
    /\ want' = OfficeHour
    /\ step' = IF want' THEN "unlock" ELSE "key"
    /\ excused' = FALSE
    /\ UNCHANGED <<time, office, people>>

\* It cannot tell: the office stays as it is.
DecideFails ==
    /\ pc = "boot"
    /\ pc' = "starting"
    /\ day \in Weekdays /\ HolidayUnknown
    /\ excused' = TRUE
    /\ UNCHANGED <<time, office, people, step, want>>

\* The other loops and the API are running: the schedule is started last.
StartServing ==
    /\ pc = "starting" /\ step = "idle"
    /\ pc' = "serve"
    /\ UNCHANGED <<time, age, office, people, step, want, excused, faults>>

-----------------------------------------------------------------------------
(* A scheduled job.                                                            *)

\* On a holiday there is nothing to do.
SkipHoliday ==
    /\ step = "lookup" /\ day \in Holidays
    /\ HolidayKnown
    /\ step' = "idle"
    /\ UNCHANGED <<time, office, people, pc, want, excused>>

FirstStep == IF want THEN "unlock" ELSE "key"

BeginJob ==
    /\ step = "lookup" /\ day \notin Holidays
    /\ HolidayKnown
    /\ step' = FirstStep
    /\ excused' = FALSE
    /\ UNCHANGED <<time, office, people, pc, want>>

\* Not knowing counts as no holiday.
BeginUninformed ==
    /\ step = "lookup"
    /\ HolidayUnknown
    /\ step' = FirstStep
    /\ excused' = (want /\ day \in Holidays)
    /\ UNCHANGED <<time, office, people, pc, want>>

-----------------------------------------------------------------------------
(* openOffice and closeOffice, one request after the other.                    *)

\* doRequest fails, before or after Discord has done it; the job ends there.
RequestFails == Fault /\ step' = "idle" /\ excused' = TRUE

Unlock ==
    /\ step = "unlock"
    /\ allowed' = TRUE
    /\ step' = "idle"
    /\ UNCHANGED <<time, age, key, people, pc, want, excused, faults>>

UnlockFails ==
    /\ step = "unlock" /\ RequestFails
    /\ allowed' \in {allowed, TRUE}
    /\ UNCHANGED <<time, age, key, people, pc, want>>

\* The janitor's own overwrite: without it, it could not undo the next step.
GiveKey ==
    /\ step = "key"
    /\ key' = TRUE
    /\ step' = "lock"
    /\ UNCHANGED <<time, age, allowed, people, pc, want, excused, faults>>

GiveKeyFails ==
    /\ step = "key" /\ RequestFails
    /\ key' \in {key, TRUE}
    /\ UNCHANGED <<time, age, allowed, people, pc, want>>

Lock ==
    /\ step = "lock"
    /\ allowed' = FALSE
    /\ step' = "move"
    /\ UNCHANGED <<time, age, key, people, pc, want, excused, faults>>

LockFails ==
    /\ step = "lock" /\ RequestFails
    /\ allowed' \in {allowed, FALSE}
    /\ UNCHANGED <<time, age, key, people, pc, want>>

\* moveUsers, all of VoiceJobs in one step: who the cache shows is moved out.
MovePeople ==
    /\ step = "move"
    /\ step' = "idle"
    /\ inside' = inside \ seen
    /\ spared' = inside'
    /\ UNCHANGED <<time, age, office, seen, pc, want, excused, faults>>

\* The guild is not cached, or the voice job fails half-way.
MoveFails ==
    /\ step = "move" /\ RequestFails
    /\ \E moved \in SUBSET (inside \cap seen) : inside' = inside \ moved
    /\ UNCHANGED <<time, age, office, seen, spared, pc, want>>

-----------------------------------------------------------------------------
(* People, callers and Discord.                                                *)

Enter(u) ==
    /\ allowed /\ u \notin inside
    /\ inside' = inside \cup {u}
    /\ UNCHANGED <<time, age, office, seen, spared, pc, step, want, excused, faults>>

Leave(u) ==
    /\ u \in inside
    /\ inside' = inside \ {u}
    /\ spared' = spared \ {u}
    /\ UNCHANGED <<time, age, office, seen, pc, step, want, excused, faults>>

\* A voice state event brings the cache up to date.
Notice(u) ==
    /\ pc # "down"
    /\ u \in (inside \ seen) \cup (seen \ inside)
    /\ seen' = IF u \in inside THEN seen \cup {u} ELSE seen \ {u}
    /\ UNCHANGED <<time, age, office, inside, spared, pc, step, want, excused, faults>>

\* A MoveMembers call may name the office, at any time of day.
CallMovesIn(u) ==
    /\ Running /\ u \notin inside
    /\ inside' = inside \cup {u}
    /\ spared' = spared \cup {u}
    /\ UNCHANGED <<time, age, office, seen, pc, step, want, excused, faults>>

-----------------------------------------------------------------------------
Job ==
    \/ SkipHoliday \/ BeginJob \/ BeginUninformed
    \/ Unlock \/ UnlockFails \/ GiveKey \/ GiveKeyFails
    \/ Lock \/ LockFails \/ MovePeople \/ MoveFails

Program == Boot \/ Decide \/ DecideFails \/ StartServing

Outside ==
    \/ Crash \/ CheckerLookup
    \/ \E found \in SUBSET Users \ {{}} : CheckerMoves(found)
    \/ \E u \in Users : Enter(u) \/ Leave(u) \/ Notice(u) \/ CallMovesIn(u)

Next == Clock \/ Program \/ Job \/ Outside

Spec == Init /\ [][Next]_vars

\* Time passes, jobs and the start go on, and what ended is started again
\* ("restart: unless-stopped", docker-compose.yml).
FairSpec == Spec /\ WF_vars(Clock) /\ WF_vars(Program) /\ WF_vars(Job)

-----------------------------------------------------------------------------
(* Properties.                                                                 *)

\* The program serves, and no job is under way.
Resting == pc = "serve" /\ step = "idle"

\* Every variable has its type; only a serving program runs a scheduled job, and
\* a job is run by a program.
TypeOK ==
    /\ day \in 0 .. Days - 1 /\ tick \in 0 .. DayLength - 1
    /\ age \in 0 .. TTL + 1
    /\ allowed \in BOOLEAN /\ key \in BOOLEAN
    /\ inside \in SUBSET Users /\ seen \in SUBSET Users /\ spared \in SUBSET Users
    /\ pc \in {"down", "boot", "starting", "serve"}
    /\ step \in {"idle", "lookup", "unlock", "key", "lock", "move"}
    /\ want \in BOOLEAN /\ excused \in BOOLEAN
    /\ faults \in 0 .. MaxFaults
    /\ step # "idle" => pc \in {"starting", "serve"}
    /\ step = "lookup" => pc = "serve"

\* Whatever fails and whenever it ends, the janitor never shuts itself out: "the
\* janitor will be unable to grant it again if it doesn't have the permission"
\* (officeState.go:87-88).
KeyBeforeLock == ~allowed => key

\* A serving janitor keeps the office open in office hours and closed outside them,
\* unless its last job failed, was told of no holiday on one, or came before the
\* schedule was started (officeState.go:30-72, janitor.go:90-114).
OfficeFollowsHours == Resting /\ ~excused => allowed = OfficeHour

\* The office is as it should be: open or closed by the hours, and if closed, with nobody
\* in it but those who were not yet in the cache when it was emptied, and those a call
\* has moved in since.
Right == allowed = OfficeHour /\ (~allowed => inside \subseteq spared)

\* Failed requests, unknown holidays, missed hours and restarts are put right by a
\* later job: once they stop, the office is right whenever the janitor rests, and
\* it rests again and again; people whom the checker has moved into a closed office are
\* moved out by the next closing (officeState.go:30-53, 109-117, janitor.go:93-101,
\* checker.go:42-48).
ComesRight == <>[](Resting => Right) /\ []<>Resting
=============================================================================
