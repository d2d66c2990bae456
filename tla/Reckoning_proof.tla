--------------------------- MODULE Reckoning_proof ---------------------------
(* Theorems about Reckoning, for days of any length and any number of days,    *)
(* stops and failures.                                                         *)
EXTENDS Reckoning, TLAPS

USE DayAssumption, LatencyAssumption, ZoneAssumption, BoundAssumption

-----------------------------------------------------------------------------
(* The inductive invariant.                                                    *)

\* The day has had its message, or a reason not to.
Handled(d) == posted[d] > 0 \/ d \in excused

\* The day's message is posted, and every process since could know it.
Known(d) == posted[d] > 0 /\ d \notin forgotten

\* From the drawing of the timer to the save it is the window's day, and the run is
\* exactly delay behind its timer.
Timely ==
    pc \in {"wait", "send", "answered", "save"} =>
        /\ day = windowDay /\ StartHour <= due
        /\ IF tick < due THEN pc = "wait" /\ delay = 0 ELSE tick = due + delay

\* A day whose window is over is handled, unless its run is under way.
Closed ==
    tick >= WindowEnd =>
        /\ pc \in {"down", "load"} => day \in excused
        /\ pc \in {"plan", "start"} => Handled(day)

\* The days up to the last run are handled, and so those before the next window.
Behind ==
    /\ pc = "start" =>
         0 < windowDay /\ windowDay <= day + 1 /\ (day < windowDay => Handled(day))
    /\ pc \in {"plan", "save"} => lastRun <= day /\ (lastRun = day => Handled(day))
    /\ pc \in {"answered", "save"} => Handled(day)

\* The instant is on the same day in the server's zone.
SameDate(i) == StartHour <= i.tick /\ i.tick - ZoneAhead < DayLength

\* What is saved, or about to be, is an instant of a run.
Record ==
    /\ saved # Never => saved.day <= day /\ SameDate(saved) /\ Handled(saved.day)
    /\ pc = "save" =>
         stamp \in Instants /\ stamp.day = day /\ SameDate(stamp) /\ lastRun = day

\* The next window is after every message the process knows of.
Ahead ==
    \A d \in Days : Known(d) =>
        /\ pc \in {"plan", "save"} => d <= lastRun
        /\ pc \in {"start", "wait", "send"} => d < windowDay
        /\ pc = "answered" => d <= windowDay

IInv ==
    /\ TypeOK /\ Timely
    /\ NoDaySkipped /\ Closed /\ Behind /\ Record
    /\ OncePerDay /\ Ahead

-----------------------------------------------------------------------------
(* Types.                                                                      *)

\* The date read back from the database is a date, or nil.
LEMMA SavedDateType == TypeOK => SavedDate \in 0 .. MaxDays + 1
  BY DEF TypeOK, SavedDate, Instants, Never, Days, Ticks, NoDay

\* The date read back is that of the last run saved, or nil.
LEMMA SavedDateIsDay ==
    ASSUME TypeOK, Record
    PROVE  SavedDate = saved.day /\ (saved = Never => saved.day = NoDay)
  <1>1. CASE saved = Never
    BY <1>1 DEF SavedDate, Never, NoDay
  <1>2. CASE saved # Never
    BY <1>2 DEF TypeOK, SavedDate, Record, SameDate, Instants, Days, Ticks
  <1> QED
    BY <1>1, <1>2

\* Every step keeps the types.
LEMMA StepKeepsType == ASSUME TypeOK, [Next]_vars PROVE TypeOK'
  <1> USE DEF TypeOK, Days, Ticks, NoDay, WindowEnd, time, locals, history, budgets
  <1>1. CASE Clock
    BY <1>1 DEF Clock
  <1>2. CASE Start
    BY <1>2 DEF Start
  <1>3. CASE Stop
    BY <1>3 DEF Stop
  <1>4. CASE Load
    BY <1>4, SavedDateType DEF Load
  <1>5. CASE LoadFails
    <2>1. forgotten' = forgotten \cup {d \in Days : posted[d] > 0}
      BY <1>5 DEF LoadFails
    <2>2. forgotten' \in SUBSET Days
      BY <2>1
    <2>3. lastRun' \in 0 .. MaxDays + 1
      BY <1>5 DEF LoadFails
    <2> QED
      BY <1>5, <2>2, <2>3 DEF LoadFails, Fault
  <1>6. CASE Plan
    BY <1>6 DEF Plan
  <1>7. CASE Open
    BY <1>7 DEF Open, WindowOpened, WindowOver
  <1>8. CASE Skip
    BY <1>8 DEF Skip, WindowOver
  <1>9. CASE Fire
    BY <1>9 DEF Fire
  <1>10. CASE Post
    BY <1>10 DEF Post
  <1>11. CASE PostFails
    BY <1>11 DEF PostFails, Fault
  <1>12. CASE Stamp
    BY <1>12 DEF Stamp, Instants, Now
  <1>13. CASE Save
    BY <1>13 DEF Save
  <1>14. CASE SaveFails
    BY <1>14 DEF SaveFails, Fault
  <1>15. CASE UNCHANGED vars
    BY <1>15 DEF vars
  <1> QED
    BY <1>1, <1>2, <1>3, <1>4, <1>5, <1>6, <1>7, <1>8, <1>9, <1>10, <1>11, <1>12, <1>13, <1>14, <1>15 DEF Next

\* Every variable keeps its type: no timer is drawn for the end of the window or
\* later, and no run is later than Latency (reckoning.go:49-67).
THEOREM TypeCorrect == Spec => []TypeOK
  <1>1. ASSUME Init PROVE TypeOK
    BY <1>1 DEF Init, TypeOK, Days, Ticks, NoDay, WindowEnd
  <1>2. TypeOK /\ [Next]_vars => TypeOK'
    BY StepKeepsType
  <1> QED
    BY <1>1, <1>2, PTL DEF Spec

-----------------------------------------------------------------------------
(* The clock.                                                                  *)

\* While a run is under way the clock stays on its day, one tick later at most.
LEMMA ClockInRun ==
    ASSUME TypeOK, Timely, Clock, pc \in {"wait", "send", "answered", "save"}
    PROVE  /\ tick' = tick + 1 /\ day' = day
           /\ IF tick' < due THEN pc = "wait" /\ delay' = 0 ELSE tick' = due + delay'
  <1> USE DEF TypeOK, Timely, WindowEnd, Ticks
  <1>1. CASE Running
    <2>1. tick >= due /\ tick = due + delay
      BY <1>1 DEF Running
    <2>2. delay < Latency /\ delay' = delay + 1 /\ tick + 1 <= DayLength - 1
      BY <1>1, <2>1 DEF Clock
    <2> QED
      BY <2>1, <2>2 DEF Clock
  <1>2. CASE ~Running
    <2>1. pc = "wait" /\ tick < due /\ delay = 0
      BY <1>2 DEF Running
    <2> QED
      BY <1>2, <2>1 DEF Clock
  <1> QED
    BY <1>1, <1>2

\* The clock waits for a window that has not come yet.
LEMMA ClockBeforeStart ==
    ASSUME TypeOK, Clock, pc = "start"
    PROVE  day < windowDay \/ (day = windowDay /\ tick < StartHour)
  BY DEF TypeOK, Clock, Busy, WindowOpened, Days, Ticks

\* A day does not end while a run of it is to come.
LEMMA ClockAtEnd ==
    ASSUME TypeOK, Timely, Closed, Behind, Clock, tick >= DayLength - 1
    PROVE  posted'[day] > 0 \/ day \in excused'
  <1> USE DEF TypeOK, WindowEnd, Ticks, Days
  <1>1. CASE pc \in {"down", "load"}
    BY <1>1 DEF Clock, Handled
  <1>2. CASE pc = "start"
    BY <1>2 DEF Clock, Closed, Handled
  <1>3. CASE pc \in {"wait", "send", "answered", "save"}
    BY <1>3, ClockInRun DEF Clock
  <1> QED
    BY <1>1, <1>2, <1>3 DEF Clock, Busy

-----------------------------------------------------------------------------
(* One lemma for each part of the invariant, with one step per action.         *)

\* A timer that is not due later is due now.
LEMMA OnTime == \A t, d \in Nat : t <= d => t < d \/ t = d + 0
  OBVIOUS

\* A run stays on its day and on time.
LEMMA TimelyStep == ASSUME TypeOK, Timely, [Next]_vars PROVE Timely'
  <1> USE DEF Timely, TypeOK, time, locals
  <1>1. CASE Clock
    <2>1. CASE pc \in {"wait", "send", "answered", "save"}
      BY <1>1, <2>1, ClockInRun DEF Clock
    <2> QED
      BY <1>1, <2>1 DEF Clock
  <1>2. CASE Start \/ Stop \/ Load \/ LoadFails \/ Plan \/ Skip
    BY <1>2 DEF Start, Stop, Load, LoadFails, Plan, Skip
  <1>3. CASE Open
    <2>1. day = windowDay /\ StartHour <= tick
      BY <1>3 DEF Open, WindowOpened, WindowOver, Days
    <2>2. tick \in Nat /\ due' \in Nat /\ tick <= due' /\ StartHour <= due'
      BY <1>3, <2>1 DEF Open, Ticks, WindowEnd
    <2>3. /\ pc' = "wait" /\ day' = day /\ tick' = tick
          /\ windowDay' = windowDay /\ delay' = 0
      BY <1>3 DEF Open
    <2>4. tick < due' \/ tick = due' + 0
      BY OnTime, <2>2, Zenon
    <2> QED
      BY <2>1, <2>2, <2>3, <2>4, Zenon
  <1>4. CASE Fire
    BY <1>4 DEF Fire, Ticks, WindowEnd
  <1>5. CASE Post \/ PostFails
    BY <1>5 DEF Post, PostFails
  <1>6. CASE Stamp
    BY <1>6 DEF Stamp
  <1>7. CASE Save \/ SaveFails
    BY <1>7 DEF Save, SaveFails
  <1>8. CASE UNCHANGED vars
    BY <1>8 DEF vars
  <1> QED
    BY <1>1, <1>2, <1>3, <1>4, <1>5, <1>6, <1>7, <1>8 DEF Next

\* What has been posted stays posted, and a reason stays a reason.
LEMMA HistoryGrows ==
    ASSUME TypeOK, [Next]_vars, NEW d \in Days
    PROVE  /\ Handled(d) => Handled(d)'
           /\ d \in forgotten => d \in forgotten'
  <1> USE DEF TypeOK, Handled, history
  <1>1. CASE Clock \/ Start \/ Stop
    BY <1>1 DEF Clock, Start, Stop
  <1>2. CASE Load \/ LoadFails
    BY <1>2 DEF Load, LoadFails
  <1>3. CASE Plan \/ Open \/ Skip \/ Fire
    BY <1>3 DEF Plan, Open, Skip, Fire
  <1>4. CASE Post
    BY <1>4 DEF Post
  <1>5. CASE PostFails
    BY <1>5 DEF PostFails
  <1>6. CASE Stamp \/ Save \/ SaveFails
    BY <1>6 DEF Stamp, Save, SaveFails
  <1>7. CASE UNCHANGED vars
    BY <1>7 DEF vars
  <1> QED
    BY <1>1, <1>2, <1>3, <1>4, <1>5, <1>6, <1>7 DEF Next

\* Every day over is handled; so is a day whose window is over, unless its run is
\* under way; so are the days of the last run and of the saved time.
LEMMA HandlingStep ==
    ASSUME TypeOK, Timely, NoDaySkipped, Closed, Behind, Record, [Next]_vars
    PROVE  NoDaySkipped' /\ Closed' /\ Behind' /\ Record'
  <1>0. TypeOK' /\ \A d \in Days : Handled(d) => posted'[d] > 0 \/ d \in excused'
    BY StepKeepsType, HistoryGrows DEF Handled
  <1>1. NoDaySkipped'
    <2> SUFFICES ASSUME NEW d \in Days, d < day' PROVE posted'[d] > 0 \/ d \in excused'
      BY DEF NoDaySkipped
    <2>1. CASE d < day
      BY <2>1, <1>0 DEF NoDaySkipped, Handled
    <2>2. CASE ~(d < day)
      <3>1. Clock /\ tick >= DayLength - 1 /\ d = day
        <4>1. Clock \/ day' = day
          BY DEF Next, vars, Start, Stop, Load, LoadFails, Plan, Open, Skip, Fire,
                 Post, PostFails, Stamp, Save, SaveFails, time
        <4> QED
          BY <4>1, <2>2 DEF Clock, TypeOK, Days, Ticks
      <3> QED
        BY <3>1, ClockAtEnd
    <2> QED
      BY <2>1, <2>2
  <1>2. Closed'
    <2> SUFFICES ASSUME tick' >= WindowEnd
                 PROVE  /\ pc' \in {"down", "load"} => day' \in excused'
                        /\ pc' \in {"plan", "start"} => posted'[day'] > 0 \/ day' \in excused'
      BY DEF Closed, Handled
    <2> USE DEF TypeOK, Closed, time, Days
    <2>1. CASE Clock
      <3>1. day' = day /\ tick >= WindowEnd - 1
        BY <2>1 DEF Clock, WindowEnd, Ticks
      <3>2. CASE pc = "start"
        BY <2>1, <3>1, <3>2, <1>0, ClockBeforeStart DEF Clock, Behind, WindowEnd, Ticks
      <3> QED
        BY <2>1, <3>1, <3>2 DEF Clock, Busy
    <2>2. CASE Start
      BY <2>2 DEF Start, history
    <2>3. CASE Stop
      BY <2>3 DEF Stop, WindowEnd, Ticks
    <2>4. CASE Load \/ LoadFails
      BY <2>4 DEF Load, LoadFails
    <2>5. CASE Plan \/ Skip
      BY <2>5, <1>0 DEF Plan, Skip
    <2>6. CASE Save \/ SaveFails
      BY <2>6, <1>0 DEF Save, SaveFails, Behind
    <2>7. CASE Open \/ Fire \/ Post \/ PostFails \/ Stamp
      BY <2>7 DEF Open, Fire, Post, PostFails, Stamp
    <2>8. CASE UNCHANGED vars
      BY <2>8, <1>0 DEF vars
    <2> QED
      BY <2>1, <2>2, <2>3, <2>4, <2>5, <2>6, <2>7, <2>8 DEF Next
  <1>3. Behind'
    <2> USE DEF TypeOK, Behind, time, Days
    <2>1. CASE Clock
      <3>1. CASE pc = "start"
        <4>1. /\ 0 < windowDay /\ day <= windowDay /\ windowDay <= day + 1
              /\ windowDay' = windowDay
          BY <2>1, <3>1, ClockBeforeStart DEF Clock
        <4>2. day' = day \/ day' = day + 1
          BY <2>1 DEF Clock
        <4>3. 0 < windowDay' /\ windowDay' <= day' + 1 /\ (day' < windowDay' => day' = day)
          BY <4>1, <4>2
        <4>4. pc' = "start" /\ (day' < windowDay' => Handled(day))
          BY <2>1, <3>1, <4>1, <4>3 DEF Clock
        <4> QED
          BY <4>3, <4>4, <1>0 DEF Handled
      <3>2. CASE pc \in {"answered", "save"}
        <4>1. day' = day /\ pc' = pc /\ lastRun' = lastRun
          BY <2>1, <3>2, ClockInRun DEF Clock
        <4> QED
          BY <3>2, <4>1, <1>0 DEF Handled
      <3> QED
        BY <2>1, <3>1, <3>2 DEF Clock, Busy
    <2>2. CASE Start \/ Stop
      BY <2>2 DEF Start, Stop
    <2>3. CASE Load
      <3>1. lastRun' = saved.day /\ (saved = Never => saved.day = 0)
        BY <2>3, SavedDateIsDay DEF Load, NoDay
      <3> QED
        BY <2>3, <3>1, <1>0 DEF Load, Record, Handled, Instants
    <2>4. CASE LoadFails
      BY <2>4 DEF LoadFails, NoDay
    <2>5. CASE Plan
      BY <2>5, <1>0 DEF Plan, NoDay, Handled
    <2>6. CASE Skip
      BY <2>6, <1>0 DEF Skip, WindowOver, Closed, Handled
    <2>7. CASE Open \/ Fire
      BY <2>7 DEF Open, Fire
    <2>8. CASE Post
      BY <2>8 DEF Post, Handled
    <2>9. CASE PostFails
      BY <2>9 DEF PostFails, Handled
    <2>10. CASE Stamp
      BY <2>10, <1>0 DEF Stamp, Handled
    <2>11. CASE Save \/ SaveFails
      BY <2>11, <1>0 DEF Save, SaveFails, Handled, locals
    <2>12. CASE UNCHANGED vars
      BY <2>12, <1>0 DEF vars, Handled
    <2> QED
      BY <2>1, <2>2, <2>3, <2>4, <2>5, <2>6, <2>7, <2>8, <2>9, <2>10, <2>11, <2>12 DEF Next
  <1>4. Record'
    <2> USE DEF TypeOK, Record, time, Days
    <2>1. saved # Never => saved.day \in Days
      BY DEF Instants
    <2>2. day \in Int /\ day' \in Int /\ day <= day'
      BY <1>0 DEF Next, vars, Clock, Start, Stop, Load, LoadFails, Plan, Open, Skip, Fire,
             Post, PostFails, Stamp, Save, SaveFails
    <2>3. CASE saved' = saved /\ pc' # "save"
      <3>1. saved # Never => saved.day <= day' /\ SameDate(saved)
        BY <2>1, <2>2 DEF Days
      <3>2. saved # Never => posted'[saved.day] > 0 \/ saved.day \in excused'
        BY <2>1, <1>0 DEF Handled
      <3> QED
        BY <2>3, <3>1, <3>2 DEF Handled
    <2>4. CASE Clock /\ pc = "save"
      <3>1. day' = day /\ saved' = saved /\ stamp' = stamp /\ lastRun' = lastRun
        BY <2>4, ClockInRun DEF Clock
      <3> QED
        BY <2>1, <2>4, <3>1, <1>0 DEF Handled
    <2>5. CASE Stamp
      <3>1. Now \in Instants /\ Now.day = day /\ SameDate(Now)
        BY <2>5 DEF Stamp, Now, SameDate, Instants, Timely, Ticks, WindowEnd
      <3> QED
        BY <2>1, <2>5, <3>1, <1>0 DEF Stamp, Handled
    <2>6. CASE Save
      BY <2>6, <1>0 DEF Save, Behind, Handled, Never, Instants
    <2>7. CASE UNCHANGED vars
      BY <2>1, <2>7, <1>0 DEF vars, Handled
    <2> HIDE DEF Record, TypeOK
    <2>8. CASE Clock /\ pc # "save"
      BY <2>3, <2>8 DEF Clock
    <2>9. CASE Start \/ Stop \/ Load \/ LoadFails
      BY <2>3, <2>9 DEF Start, Stop, Load, LoadFails
    <2>10. CASE Plan \/ Open \/ Skip \/ Fire
      BY <2>3, <2>10 DEF Plan, Open, Skip, Fire
    <2>11. CASE Post \/ PostFails \/ SaveFails
      BY <2>3, <2>11 DEF Post, PostFails, SaveFails
    <2> QED
      BY <2>4, <2>5, <2>6, <2>7, <2>8, <2>9, <2>10, <2>11 DEF Next
  <1> QED
    BY <1>1, <1>2, <1>3, <1>4

\* A message is posted again only where the process could not know of the first.
LEMMA AheadStep ==
    ASSUME TypeOK, Timely, Behind, Record, OncePerDay, Ahead, [Next]_vars
    PROVE  OncePerDay' /\ Ahead'
  <1> SUFFICES ASSUME NEW d \in Days
               PROVE  /\ posted'[d] > 1 => d \in forgotten'
                      /\ posted'[d] > 0 /\ d \notin forgotten' =>
                           /\ pc' \in {"plan", "save"} => d <= lastRun'
                           /\ pc' \in {"start", "wait", "send"} => d < windowDay'
                           /\ pc' = "answered" => d <= windowDay'
    BY DEF OncePerDay, Ahead, Known
  <1> USE DEF TypeOK, OncePerDay, Ahead, Known, Days, history, locals
  <1>1. CASE Clock
    BY <1>1 DEF Clock
  <1>2. CASE Start \/ Stop
    BY <1>2 DEF Start, Stop
  <1>3. CASE Load
    <2>1. lastRun' = saved.day /\ (saved = Never => saved.day = 0)
      BY <1>3, SavedDateIsDay DEF Load, NoDay
    <2> QED
      BY <1>3, <2>1 DEF Load, Instants
  <1>4. CASE LoadFails
    BY <1>4 DEF LoadFails
  <1>5. CASE Plan
    BY <1>5 DEF Plan, NoDay
  <1>6. CASE Open \/ Skip \/ Fire
    BY <1>6 DEF Open, Skip, Fire
  <1>7. CASE Post
    BY <1>7 DEF Post, Timely
  <1>8. CASE PostFails
    BY <1>8 DEF PostFails
  <1>9. CASE Stamp
    BY <1>9 DEF Stamp, Timely
  <1>10. CASE Save \/ SaveFails
    BY <1>10 DEF Save, SaveFails
  <1>11. CASE UNCHANGED vars
    BY <1>11 DEF vars
  <1> QED
    BY <1>1, <1>2, <1>3, <1>4, <1>5, <1>6, <1>7, <1>8, <1>9, <1>10, <1>11 DEF Next

-----------------------------------------------------------------------------
(* The theorems.                                                               *)

\* The inductive invariant of the reckoning (reckoning.go:12-79): runs stay on their
\* day, handled days are before the next window, what is saved is the instant of a run.
THEOREM InvCorrect == Spec => []IInv
  <1>1. ASSUME Init PROVE IInv
    <2>1. TypeOK
      BY <1>1 DEF Init, TypeOK, Days, Ticks, NoDay, WindowEnd
    <2>2. Timely /\ Closed /\ Behind /\ Record
      BY <1>1 DEF Init, Timely, Closed, Behind, Record, WindowEnd
    <2>3. NoDaySkipped /\ OncePerDay /\ Ahead
      BY <1>1 DEF Init, NoDaySkipped, OncePerDay, Ahead, Known, Days
    <2> QED
      BY <2>1, <2>2, <2>3 DEF IInv
  <1>2. IInv /\ [Next]_vars => IInv'
    BY StepKeepsType, TimelyStep, HandlingStep, AheadStep DEF IInv
  <1> QED
    BY <1>1, <1>2, PTL DEF Spec

\* A message is sent twice a day only past a lost record, for any zone of the server in
\* which no instant of a run has another date (reckoning.go:25-29, repository.go:63).
THEOREM OncePerDayCorrect == Spec => []OncePerDay
  <1>1. IInv => OncePerDay
    BY DEF IInv
  <1> QED
    BY <1>1, InvCorrect, PTL

\* No day is skipped while a process is up at the end of its window and posts
\* (reckoning.go:22-59), however often it was down before.
THEOREM NoDaySkippedCorrect == Spec => []NoDaySkipped
  <1>1. IInv => NoDaySkipped
    BY DEF IInv
  <1> QED
    BY <1>1, InvCorrect, PTL

\* END_BUFFER_SECONDS keeps a run on the day of its window whenever timers and
\* requests are late by no more than that (reckoning.go:14-32).
THEOREM RunsOnItsDayCorrect == Spec => []RunsOnItsDay
  <1>1. TypeOK /\ Timely => RunsOnItsDay
    BY DEF Timely, RunsOnItsDay, TypeOK, Ticks, WindowEnd
  <1>2. IInv => RunsOnItsDay
    BY <1>1 DEF IInv
  <1> QED
    BY <1>2, InvCorrect, PTL

-----------------------------------------------------------------------------
(* Reckoning implements DailyMessage.                                          *)

Up == pc \notin {"down", "load"}

\* A process is never ahead of its day, and all it counts as done is handled.
DoneInv == Done \in 0 .. day /\ Daily!HandledUpTo(Done)

LEMMA DoneIsHandled == ASSUME IInv PROVE DoneInv
  <1> USE DEF TypeOK, Days, IInv
  <1>1. \A d \in Days : d < day => Handled(d)
    BY DEF NoDaySkipped, Handled
  <1> DEFINE Good == Done \in 0 .. day /\ (Done = day => Handled(day))
  <1>2. Good
    <2>1. CASE pc \in {"plan", "save"}
      <3>1. Done = lastRun
        BY <2>1 DEF Done
      <3> QED
        BY <2>1, <3>1 DEF Behind
    <2>2. CASE pc = "start"
      <3>1. Done = windowDay - 1
        BY <2>2 DEF Done
      <3> QED
        BY <2>2, <3>1 DEF Behind
    <2>3. CASE pc \in {"wait", "send"}
      <3>1. Done = day - 1
        BY <2>3 DEF Done, Timely
      <3> QED
        BY <3>1
    <2>4. CASE pc = "answered"
      <3>1. Done = day
        BY <2>4 DEF Done, Timely
      <3> QED
        BY <2>4, <3>1 DEF Behind
    <2>5. CASE pc \in {"down", "load"}
      <3>1. Done = 0
        BY <2>5 DEF Done
      <3> QED
        BY <3>1
    <2> QED
      BY <2>1, <2>2, <2>3, <2>4, <2>5
  <1>3. ASSUME NEW d \in Days, d <= Done
        PROVE  Handled(d)
    <2>1. d < day \/ (d = day /\ Done = day)
      BY <1>2, <1>3
    <2> QED
      BY <1>1, <1>2, <2>1
  <1> QED
    BY <1>2, <1>3 DEF DoneInv, Daily!HandledUpTo, Daily!Handled, Daily!Days, Handled

\* Every step is one of the daily message's, or none.
LEMMA StepIsDaily ==
    ASSUME IInv, IInv', DoneInv, DoneInv', [Next]_vars
    PROVE  [Daily!Next]_(Daily!vars)
  <1>1. /\ Done \in 0 .. day /\ Done' \in 0 .. day'
        /\ Daily!HandledUpTo(Done)'
    BY DEF DoneInv
  <1>2. day \in Days /\ pc \in {"down", "load", "plan", "start", "wait", "send", "answered", "save"}
        /\ Timely
    BY DEF IInv, TypeOK
  <1> USE <1>1, <1>2
      DEF Up, Days, time, locals, history, budgets, Daily!Next, Daily!vars
  <1>3. ASSUME UNCHANGED <<day, posted, excused>>, Up, Up', Done <= Done'
        PROVE  Daily!Pass
    BY <1>3 DEF Daily!Pass, Daily!HandledUpTo, Daily!Handled
  <1>4. CASE Clock
    <2>1. Up' = Up /\ Done' = Done /\ posted' = posted
      BY <1>4 DEF Clock, Done
    <2>2. excused' \in {excused, excused \cup {day}} /\ (Up => excused' = excused)
      BY <1>4 DEF Clock
    <2>3. CASE day' = day
      BY <2>1, <2>2, <2>3 DEF Daily!Miss, Daily!Absent
    <2>4. CASE day' # day
      <3>1. day < MaxDays /\ day' = day + 1
        BY <1>4, <2>4 DEF Clock
      <3>2. posted'[day] > 0 \/ day \in excused'
        BY <3>1 DEF IInv, NoDaySkipped
      <3> QED
        BY <2>1, <2>2, <3>1, <3>2 DEF Daily!Midnight, Daily!Absent
    <2> QED
      BY <2>3, <2>4
  <1>5. CASE Start
    BY <1>5 DEF Start, Done
  <1>6. CASE Stop
    <2>1. /\ ~Up' /\ Done' = 0 /\ UNCHANGED <<day, posted>>
          /\ excused' \in {excused, excused \cup {day}}
      BY <1>6 DEF Stop, Done
    <2>2. CASE Up
      BY <2>1, <2>2 DEF Daily!Stop, Daily!Absent
    <2>3. CASE ~Up
      BY <2>1, <2>3 DEF Daily!Miss, Daily!Absent, Done
    <2> QED
      BY <2>2, <2>3
  <1>7. CASE Load \/ LoadFails
    <2>1. ~Up /\ Up' /\ UNCHANGED <<day, posted, excused>>
      BY <1>7 DEF Load, LoadFails
    <2> QED
      BY <2>1 DEF Daily!Start, Daily!HandledUpTo, Daily!Handled
  <1>8. CASE Plan
    <2>1. Up /\ Up' /\ UNCHANGED <<day, posted, excused>>
      BY <1>8 DEF Plan
    <2>2. Done = lastRun /\ Done' = IF lastRun = NoDay THEN day - 1 ELSE lastRun
      BY <1>8 DEF Plan, Done
    <2> QED
      BY <1>3, <2>1, <2>2 DEF NoDay
  <1>9. CASE Open \/ Fire
    BY <1>9 DEF Open, Fire, Done
  <1>10. CASE Skip
    <2>1. Up /\ Up' /\ UNCHANGED <<day, posted, excused>>
      BY <1>10 DEF Skip
    <2>2. Done = windowDay - 1 /\ Done' = windowDay
      BY <1>10 DEF Skip, Done
    <2> QED
      BY <1>3, <2>1, <2>2
  <1>11. CASE Post
    <2>1. Up /\ Up' /\ Done = day - 1 /\ Done' = day
      BY <1>11 DEF Post, Done, Timely
    <2> QED
      BY <1>11, <2>1 DEF Post, Daily!Post
  <1>12. CASE PostFails
    <2>1. Up /\ Up' /\ Done = day - 1 /\ Done' = day
      BY <1>12 DEF PostFails, Done, Timely
    <2> QED
      BY <1>12, <2>1 DEF PostFails, Daily!GiveUp
  <1>13. CASE Stamp
    BY <1>13 DEF Stamp, Done, Timely
  <1>14. CASE Save \/ SaveFails
    BY <1>14 DEF Save, SaveFails, Done
  <1>15. CASE UNCHANGED vars
    BY <1>15 DEF vars, Done
  <1> QED
    BY <1>4, <1>5, <1>6, <1>7, <1>8, <1>9, <1>10, <1>11, <1>12, <1>13, <1>14, <1>15 DEF Next

\* The loop keeps what DailyMessage promises, for any number of days, stops and
\* failures: its steps through the days are ordered, and none is passed unhandled.
THEOREM DailyCorrect == Spec => DailySpec
  <1>1. Init => Daily!Init
    BY DEF Init, Daily!Init, Daily!Days, Days, Done
  <1>2. IInv /\ IInv' /\ DoneInv /\ DoneInv' /\ [Next]_vars => [Daily!Next]_(Daily!vars)
    BY StepIsDaily
  <1>3. IInv => DoneInv
    BY DoneIsHandled
  <1> QED
    BY <1>1, <1>2, <1>3, InvCorrect, PTL DEF Spec, DailySpec, Daily!Spec

-----------------------------------------------------------------------------
(* One message a day of each process.                                          *)

\* What a process has posted it counts as done.
OwnInv == IF Up THEN \A d \in own : d <= Done ELSE own = {}

\* Only a post adds to what it has posted, and that day is done then.
LEMMA OwnStep ==
    ASSUME IInv, IInv', DoneInv, DoneInv', OwnInv, [Next]_vars
    PROVE  OwnInv' /\ \A d \in Days : posted'[d] > posted[d] => d \notin own
  <1>1. /\ Done \in 0 .. day /\ Done' \in 0 .. day'
        /\ IF Up THEN \A d \in own : d <= Done ELSE own = {}
    BY DEF DoneInv, OwnInv
  <1>2. /\ day \in Days /\ day' \in Days /\ own \in SUBSET Days
        /\ posted \in [Days -> Nat]
        /\ pc \in {"down", "load", "plan", "start", "wait", "send", "answered", "save"}
        /\ Timely
    BY DEF IInv, TypeOK
  <1> USE <1>1, <1>2 DEF Up, Days, time, locals, history, budgets
  <1>3. ASSUME UNCHANGED <<posted, own>>, Up => Up' /\ Done <= Done'
        PROVE  OwnInv' /\ \A d \in Days : posted'[d] > posted[d] => d \notin own
    BY <1>3 DEF OwnInv
  <1>4. CASE Clock
    BY <1>3, <1>4 DEF Clock, Done
  <1>5. CASE Start \/ Load \/ LoadFails
    BY <1>3, <1>5 DEF Start, Load, LoadFails
  <1>6. CASE Stop
    BY <1>6 DEF Stop, OwnInv
  <1>7. CASE Plan
    <2>1. Up /\ Up' /\ UNCHANGED <<posted, own>>
      BY <1>7 DEF Plan
    <2>2. Done = lastRun /\ Done' = IF lastRun = NoDay THEN day - 1 ELSE lastRun
      BY <1>7 DEF Plan, Done
    <2> QED
      BY <1>3, <2>1, <2>2 DEF NoDay
  <1>8. CASE Open \/ Fire
    BY <1>3, <1>8 DEF Open, Fire, Done
  <1>9. CASE Post
    <2>1. /\ Up /\ Up' /\ Done = day - 1 /\ Done' = day /\ own' = own \cup {day}
          /\ posted' = [posted EXCEPT ![day] = @ + 1]
      BY <1>9 DEF Post, Done, Timely
    <2> QED
      BY <2>1 DEF OwnInv
  <1>10. CASE PostFails
    BY <1>3, <1>10 DEF PostFails, Done, Timely
  <1>11. CASE Stamp
    BY <1>3, <1>11 DEF Stamp, Done, Timely
  <1>12. CASE Save \/ SaveFails
    BY <1>3, <1>12 DEF Save, SaveFails, Done
  <1>13. CASE Skip
    <2>1. Up /\ Up' /\ UNCHANGED <<posted, own>>
      BY <1>13 DEF Skip
    <2>2. Done = windowDay - 1 /\ Done' = windowDay
      BY <1>13 DEF Skip, Done
    <2> QED
      BY <1>3, <2>1, <2>2
  <1>14. CASE UNCHANGED vars
    BY <1>3, <1>14 DEF vars, Done
  <1> QED
    BY <1>4, <1>5, <1>6, <1>7, <1>8, <1>9, <1>10, <1>11, <1>12, <1>13, <1>14 DEF Next

\* No process posts the message of a day a second time, whatever could not be loaded or
\* saved (reckoning.go:69-77).
THEOREM OncePerProcessCorrect == Spec => OncePerProcess
  <1>1. Init => OwnInv
    BY DEF Init, OwnInv, Up
  <1>2. IInv => DoneInv
    BY DoneIsHandled
  <1>3. IInv /\ IInv' /\ DoneInv /\ DoneInv' /\ OwnInv /\ [Next]_vars =>
          OwnInv' /\ [\A d \in Days : posted'[d] > posted[d] => d \notin own]_vars
    BY OwnStep
  <1> QED
    BY <1>1, <1>2, <1>3, InvCorrect, PTL DEF Spec, OncePerProcess
=============================================================================
