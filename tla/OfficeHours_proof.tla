-------------------------- MODULE OfficeHours_proof --------------------------
(* Theorems about OfficeHours, for any calendar, hours, people and number of   *)
(* failures.                                                                   *)
EXTENDS OfficeHours, TLAPS

-----------------------------------------------------------------------------
(* The inductive invariant.                                                    *)

\* A scheduled job is there at its hour of a working day, to do what the hour says.
OnSchedule ==
    step = "lookup" =>
        day \in Weekdays /\ tick \in {OpenAt, CloseAt} /\ (want <=> tick = OpenAt)

\* Before the office is closed the janitor has its key.
KeyInv == KeyBeforeLock /\ (step \in {"lock", "move"} => key)

\* A job without an excuse opens in office hours and closes outside them, and what
\* is left when it is done is right.
Conduct ==
    ~excused =>
        /\ step = "unlock" => OfficeHour
        /\ step \in {"key", "lock", "move"} => ~OfficeHour
        /\ step = "move" => ~allowed
        /\ step = "idle" /\ pc \in {"starting", "serve"} =>
             IF OfficeHour THEN allowed ELSE ~allowed
        /\ step = "lookup" /\ day \in Holidays => ~allowed

IInv == TypeOK /\ OnSchedule /\ KeyInv /\ Conduct

-----------------------------------------------------------------------------
(* Time.                                                                       *)

\* Every tick is a tick of a day.
LEMMA ClockType ==
    ASSUME TypeOK, Clock
    PROVE  day' \in 0 .. Days - 1 /\ tick' \in 0 .. DayLength - 1 /\ age' \in 0 .. TTL + 1
  <1> USE CalendarAssumption, HoursAssumption, BoundAssumption DEF TypeOK, Clock
  <1>1. day' \in 0 .. Days - 1
    OBVIOUS
  <1>2. tick' \in 0 .. DayLength - 1
    OBVIOUS
  <1>3. age' \in 0 .. TTL + 1
    OBVIOUS
  <1> QED
    BY <1>1, <1>2, <1>3

\* The office hours begin and end at the hours of the schedule.
LEMMA HoursChangeOnSchedule ==
    ASSUME TypeOK, Clock, OfficeHour' # OfficeHour
    PROVE  day' \in Weekdays \ Holidays /\ tick' \in {OpenAt, CloseAt}
  <1> USE HoursAssumption DEF TypeOK, OfficeHour
  <1>1. CASE tick' = 0
    BY <1>1 DEF Clock
  <1>2. CASE tick' = tick + 1 /\ day' = day
    BY <1>2
  <1> QED
    BY <1>1, <1>2 DEF Clock

\* They do not change while the clock stands still.
LEMMA SameHour == ASSUME UNCHANGED time PROVE OfficeHour' = OfficeHour
  BY DEF time, OfficeHour

-----------------------------------------------------------------------------
(* One lemma for each part of the invariant, with one step per action.         *)

\* Every step keeps the types.
LEMMA StepKeepsType == ASSUME TypeOK, [Next]_vars PROVE TypeOK'
  <1> USE CalendarAssumption, HoursAssumption, BoundAssumption
      DEF TypeOK, time, office, people
  <1>1. CASE Clock
    BY <1>1, ClockType DEF Clock, CronDue
  <1>2. CASE Boot
    BY <1>2 DEF Boot, Fetch
  <1>3. CASE Decide
    <2>1. age' \in 0 .. TTL + 1 /\ faults' \in 0 .. MaxFaults
      BY <1>3 DEF Decide, HolidayKnown, Fetch
    <2>2. want' \in BOOLEAN /\ excused' \in BOOLEAN
      BY <1>3, Zenon DEF Decide, OfficeHour
    <2>3. step' \in {"unlock", "key"}
      BY <1>3 DEF Decide
    <2> QED
      BY <1>3, <2>1, <2>2, <2>3 DEF Decide
  <1>4. CASE DecideFails
    BY <1>4 DEF DecideFails, HolidayUnknown, Fault
  <1>5. CASE StartServing
    BY <1>5 DEF StartServing
  <1>6. CASE SkipHoliday
    BY <1>6 DEF SkipHoliday, HolidayKnown, Fetch
  <1>7. CASE BeginJob
    <2>1. age' \in 0 .. TTL + 1 /\ faults' \in 0 .. MaxFaults
      BY <1>7 DEF BeginJob, HolidayKnown, Fetch
    <2>2. excused' \in BOOLEAN /\ step' \in {"unlock", "key"}
      BY <1>7 DEF BeginJob, FirstStep
    <2> QED
      BY <1>7, <2>1, <2>2 DEF BeginJob
  <1>8. CASE BeginUninformed
    BY <1>8 DEF BeginUninformed, FirstStep, HolidayUnknown, Fault
  <1>9. CASE Unlock
    BY <1>9 DEF Unlock
  <1>10. CASE UnlockFails
    <2>1. allowed' \in BOOLEAN /\ excused' \in BOOLEAN
      BY <1>10, Zenon DEF UnlockFails, RequestFails
    <2>2. faults' \in 0 .. MaxFaults /\ step' = "idle"
      BY <1>10 DEF UnlockFails, RequestFails, Fault
    <2> QED
      BY <1>10, <2>1, <2>2 DEF UnlockFails
  <1>11. CASE GiveKey
    BY <1>11 DEF GiveKey
  <1>12. CASE GiveKeyFails
    <2>1. key' \in BOOLEAN /\ excused' \in BOOLEAN
      BY <1>12, Zenon DEF GiveKeyFails, RequestFails
    <2>2. faults' \in 0 .. MaxFaults /\ step' = "idle"
      BY <1>12 DEF GiveKeyFails, RequestFails, Fault
    <2> QED
      BY <1>12, <2>1, <2>2 DEF GiveKeyFails
  <1>13. CASE Lock
    BY <1>13 DEF Lock
  <1>14. CASE LockFails
    <2>1. allowed' \in BOOLEAN /\ excused' \in BOOLEAN
      BY <1>14, Zenon DEF LockFails, RequestFails
    <2>2. faults' \in 0 .. MaxFaults /\ step' = "idle"
      BY <1>14 DEF LockFails, RequestFails, Fault
    <2> QED
      BY <1>14, <2>1, <2>2 DEF LockFails
  <1>15. CASE MovePeople
    BY <1>15 DEF MovePeople
  <1>16. CASE MoveFails
    BY <1>16 DEF MoveFails, RequestFails, Fault
  <1>17. CASE Crash
    BY <1>17 DEF Crash, Fault
  <1>18. CASE CheckerLookup
    BY <1>18 DEF CheckerLookup, HolidayKnown, HolidayUnknown, Fetch, Fault
  <1>21. ASSUME NEW found \in SUBSET Users, CheckerMoves(found)
         PROVE  TypeOK'
    BY <1>21 DEF CheckerMoves, HolidayKnown, HolidayUnknown, Fetch, Fault
  <1>19. ASSUME NEW u \in Users, Enter(u) \/ Leave(u) \/ Notice(u) \/ CallMovesIn(u)
         PROVE  TypeOK'
    BY <1>19 DEF Enter, Leave, Notice, CallMovesIn, Running
  <1>20. CASE UNCHANGED vars
    BY <1>20 DEF vars
  <1> QED
    BY <1>1, <1>2, <1>3, <1>4, <1>5, <1>6, <1>7, <1>8, <1>9, <1>10, <1>11, <1>12, <1>13, <1>14, <1>15, <1>16, <1>17, <1>18, <1>19, <1>20, <1>21
    DEF Next, Program, Job, Outside

\* A job that waits for the holidays is there at its hour.
LEMMA OnScheduleStep == ASSUME TypeOK, OnSchedule, [Next]_vars PROVE OnSchedule'
  <1> USE DEF TypeOK, OnSchedule, time
  <1>1. CASE Clock
    BY <1>1, ClockType DEF Clock, CronDue
  <1>2. CASE Boot \/ StartServing \/ DecideFails
    BY <1>2 DEF Boot, StartServing, DecideFails
  <1>3. CASE Decide
    BY <1>3 DEF Decide
  <1>4. CASE SkipHoliday \/ BeginJob \/ BeginUninformed
    BY <1>4 DEF SkipHoliday, BeginJob, BeginUninformed, FirstStep
  <1>5. CASE Unlock \/ UnlockFails \/ GiveKey \/ GiveKeyFails
    BY <1>5 DEF Unlock, UnlockFails, GiveKey, GiveKeyFails, RequestFails
  <1>6. CASE Lock \/ LockFails \/ MovePeople \/ MoveFails
    BY <1>6 DEF Lock, LockFails, MovePeople, MoveFails, RequestFails
  <1>7. CASE Outside
    BY <1>7 DEF Outside, Crash, CheckerLookup, CheckerMoves, Enter, Leave, Notice, CallMovesIn
  <1>8. CASE UNCHANGED vars
    BY <1>8 DEF vars
  <1> QED
    BY <1>1, <1>2, <1>3, <1>4, <1>5, <1>6, <1>7, <1>8 DEF Next, Program, Job

\* The janitor has its key before the office is closed, and nobody takes it away.
LEMMA KeyStep == ASSUME TypeOK, KeyInv, [Next]_vars PROVE KeyInv'
  <1> USE DEF TypeOK, KeyInv, KeyBeforeLock, office
  <1>1. CASE Clock
    BY <1>1 DEF Clock
  <1>2. CASE Program
    BY <1>2 DEF Program, Boot, Decide, DecideFails, StartServing
  <1>3. CASE SkipHoliday \/ BeginJob \/ BeginUninformed
    BY <1>3 DEF SkipHoliday, BeginJob, BeginUninformed, FirstStep
  <1>4. CASE Unlock \/ UnlockFails
    BY <1>4 DEF Unlock, UnlockFails, RequestFails
  <1>5. CASE GiveKey \/ GiveKeyFails
    BY <1>5 DEF GiveKey, GiveKeyFails, RequestFails
  <1>6. CASE Lock \/ LockFails
    BY <1>6 DEF Lock, LockFails, RequestFails
  <1>7. CASE MovePeople \/ MoveFails
    BY <1>7 DEF MovePeople, MoveFails, RequestFails
  <1>8. CASE Outside
    BY <1>8 DEF Outside, Crash, CheckerLookup, CheckerMoves, Enter, Leave, Notice, CallMovesIn
  <1>9. CASE UNCHANGED vars
    BY <1>9 DEF vars
  <1> QED
    BY <1>1, <1>2, <1>3, <1>4, <1>5, <1>6, <1>7, <1>8, <1>9 DEF Next, Job

\* A job begins and ends as the hours say, or has an excuse.
LEMMA ConductStep == ASSUME TypeOK, OnSchedule, Conduct, [Next]_vars PROVE Conduct'
  <1> USE DEF TypeOK, Conduct, time, office, people
  <1>1. CASE Clock
    <2> SUFFICES ASSUME ~excused'
                 PROVE  Conduct'
      OBVIOUS
    <2>1. ~excused /\ UNCHANGED <<allowed, pc>>
      BY <1>1 DEF Clock
    <2>2. CASE pc = "serve"
      <3>1. CASE CronDue(day', tick')
        <4>1. step' = "lookup" /\ step = "idle"
          BY <1>1, <2>2, <3>1 DEF Clock
        <4>2. day' \in Holidays => ~OfficeHour' /\ OfficeHour = OfficeHour'
          BY <1>1, <3>1, HoursChangeOnSchedule DEF OfficeHour
        <4> QED
          BY <2>1, <2>2, <4>1, <4>2
      <3>2. CASE ~CronDue(day', tick')
        <4>1. OfficeHour' = OfficeHour
          BY <1>1, <2>2, <3>2, HoursChangeOnSchedule DEF CronDue
        <4>2. step' = "idle" /\ step = "idle"
          BY <1>1, <2>2, <3>2 DEF Clock
        <4> QED
          BY <2>1, <2>2, <4>1, <4>2
      <3> QED
        BY <3>1, <3>2
    <2>3. CASE pc = "starting"
      <3>1. OfficeHour' = OfficeHour
        BY <1>1, <2>3 DEF Clock
      <3>2. step' = step
        BY <1>1, <2>3 DEF Clock, CronDue
      <3> QED
        BY <2>1, <2>3, <3>1, <3>2
    <2>4. CASE pc \in {"down", "boot"}
      <3>1. step' = "idle"
        BY <1>1, <2>4 DEF Clock, CronDue
      <3> QED
        BY <2>1, <2>4, <3>1
    <2> QED
      BY <2>2, <2>3, <2>4
  <1>2. CASE Boot \/ Crash \/ DecideFails
    BY <1>2 DEF Boot, Crash, DecideFails
  <1>3. CASE Decide
    <2>1. OfficeHour' = OfficeHour /\ (want' <=> OfficeHour)
      BY <1>3, SameHour DEF Decide
    <2>2. pc' = "starting" /\ IF want' THEN step' = "unlock" ELSE step' = "key"
      BY <1>3 DEF Decide
    <2> QED
      BY <2>1, <2>2
  <1>4. CASE StartServing
    <2>1. OfficeHour' = OfficeHour
      BY <1>4, SameHour DEF StartServing
    <2> QED
      BY <1>4, <2>1 DEF StartServing
  <1>5. CASE SkipHoliday
    <2>1. OfficeHour' = OfficeHour /\ ~OfficeHour
      BY <1>5, SameHour DEF SkipHoliday, OfficeHour
    <2> QED
      BY <1>5, <2>1 DEF SkipHoliday
  <1>6. CASE BeginJob \/ BeginUninformed
    <2>1. OfficeHour' = OfficeHour
      BY <1>6, SameHour DEF BeginJob, BeginUninformed
    <2>2. ~excused' => (want <=> OfficeHour)
      BY <1>6, HoursAssumption DEF BeginJob, BeginUninformed, OnSchedule, OfficeHour
    <2>3. IF want THEN step' = "unlock" ELSE step' = "key"
      BY <1>6 DEF BeginJob, BeginUninformed, FirstStep
    <2> QED
      BY <2>1, <2>2, <2>3
  <1>7. CASE UnlockFails \/ GiveKeyFails \/ LockFails \/ MoveFails
    BY <1>7 DEF UnlockFails, GiveKeyFails, LockFails, MoveFails, RequestFails
  <1>8. CASE Unlock \/ GiveKey \/ Lock
    <2>1. OfficeHour' = OfficeHour
      BY <1>8, SameHour DEF Unlock, GiveKey, Lock
    <2> QED
      BY <1>8, <2>1 DEF Unlock, GiveKey, Lock
  <1>9. CASE MovePeople
    <2>1. OfficeHour' = OfficeHour
      BY <1>9, SameHour DEF MovePeople
    <2> QED
      BY <1>9, <2>1 DEF MovePeople
  <1>10. CASE CheckerLookup \/ \E found \in SUBSET Users : CheckerMoves(found)
    <2>1. OfficeHour' = OfficeHour
      BY <1>10, SameHour DEF CheckerLookup, CheckerMoves
    <2> QED
      BY <1>10, <2>1 DEF CheckerLookup, CheckerMoves
  <1>11. ASSUME NEW u \in Users, Enter(u) \/ Leave(u) \/ Notice(u) \/ CallMovesIn(u)
         PROVE  Conduct'
    <2>1. OfficeHour' = OfficeHour /\ UNCHANGED <<day, allowed, pc, step, excused>>
      BY <1>11, SameHour DEF Enter, Leave, Notice, CallMovesIn
    <2> QED
      BY <2>1
  <1>12. CASE UNCHANGED vars
    <2>1. OfficeHour' = OfficeHour
      BY <1>12, SameHour DEF vars
    <2> QED
      BY <1>12, <2>1 DEF vars
  <1> QED
    BY <1>1, <1>2, <1>3, <1>4, <1>5, <1>6, <1>7, <1>8, <1>9, <1>10, <1>11, <1>12
    DEF Next, Program, Job, Outside

-----------------------------------------------------------------------------
(* The theorems.                                                               *)

\* The inductive invariant: who is where in a job, at which hour, with which excuse
\* (officeState.go:13-119).
THEOREM InvCorrect == Spec => []IInv
  <1>1. ASSUME Init PROVE IInv
    <2>1. TypeOK
      <3>1. allowed \in BOOLEAN /\ key \in BOOLEAN
        BY <1>1, Zenon DEF Init
      <3>2. /\ day \in 0 .. Days - 1 /\ tick \in 0 .. DayLength - 1
            /\ age \in 0 .. TTL + 1 /\ faults \in 0 .. MaxFaults
        BY <1>1, CalendarAssumption, HoursAssumption, BoundAssumption DEF Init
      <3>3. want \in BOOLEAN /\ excused \in BOOLEAN /\ pc = "down" /\ step = "idle"
        BY <1>1 DEF Init
      <3>4. inside \in SUBSET Users /\ seen \in SUBSET Users /\ spared \in SUBSET Users
        BY <1>1 DEF Init
      <3> QED
        BY <3>1, <3>2, <3>3, <3>4 DEF TypeOK
    <2>2. OnSchedule /\ KeyInv /\ Conduct
      BY <1>1 DEF Init, OnSchedule, KeyInv, KeyBeforeLock, Conduct
    <2> QED
      BY <2>1, <2>2 DEF IInv
  <1>2. IInv /\ [Next]_vars => IInv'
    BY StepKeepsType, OnScheduleStep, KeyStep, ConductStep DEF IInv
  <1> QED
    BY <1>1, <1>2, PTL DEF Spec

\* Every variable keeps its type; a scheduled job is run by a serving program only
\* (janitor.go:114).
THEOREM TypeCorrect == Spec => []TypeOK
  <1>1. IInv => TypeOK
    BY DEF IInv
  <1> QED
    BY <1>1, InvCorrect, PTL

\* The janitor never shuts itself out, whatever fails (officeState.go:87-107).
THEOREM KeyBeforeLockCorrect == Spec => []KeyBeforeLock
  <1>1. IInv => KeyBeforeLock
    BY DEF IInv, KeyInv
  <1> QED
    BY <1>1, InvCorrect, PTL

\* Without an excuse the office is open in office hours only, for any calendar
\* (officeState.go:30-72).
THEOREM OfficeFollowsHoursCorrect == Spec => []OfficeFollowsHours
  <1>1. TypeOK /\ Conduct => OfficeFollowsHours
    BY DEF Conduct, OfficeFollowsHours, Resting, TypeOK, OfficeHour
  <1>2. IInv => OfficeFollowsHours
    BY <1>1 DEF IInv
  <1> QED
    BY <1>2, InvCorrect, PTL
=============================================================================
