---------------------------- MODULE DailyMessage -----------------------------
(* What Plank's reckoning promises: one message a day.  A process goes through *)
(* the days in order, posts each one's message once or gives it up, and passes *)
(* over days that are handled; no day ends unhandled.  Only a process that     *)
(* starts may have forgotten days that were.                                   *)
EXTENDS Integers

CONSTANT MaxDays

Days == 1 .. MaxDays

VARIABLES
    day,        \* today
    up,         \* a process is up and has read what the last one saved
    done,       \* the last day it counts as done
    posted,     \* how often the message of a day was posted
    excused     \* days on which no process was up at the end, or the post failed

vars == <<day, up, done, posted, excused>>

\* The day has had its message, or a reason not to.
Handled(d) == posted[d] > 0 \/ d \in excused

\* Only handled days are passed over.
HandledUpTo(n) == \A d \in Days : d <= n => Handled(d)

Init ==
    /\ day = 1
    /\ ~up /\ done = 0
    /\ posted = [d \in Days |-> 0]
    /\ excused = {}

\* A process starts, and knows of some of the days that are handled.
Start ==
    /\ ~up /\ up' = TRUE
    /\ done' \in 0 .. day /\ HandledUpTo(done')
    /\ UNCHANGED <<day, posted, excused>>

\* There is no process; today may end that way.
Absent == excused' \in {excused, excused \cup {day}}

Stop ==
    /\ up /\ up' = FALSE
    /\ done' = 0
    /\ Absent
    /\ UNCHANGED <<day, posted>>

Post ==
    /\ up /\ done < day
    /\ posted' = [posted EXCEPT ![day] = @ + 1]
    /\ done' = day
    /\ UNCHANGED <<day, up, excused>>

GiveUp ==
    /\ up /\ done < day
    /\ excused' = excused \cup {day}
    /\ done' = day
    /\ UNCHANGED <<day, up, posted>>

Pass ==
    /\ up
    /\ done' \in done .. day /\ HandledUpTo(done')
    /\ UNCHANGED <<day, up, posted, excused>>

Miss ==
    /\ ~up /\ Absent
    /\ UNCHANGED <<day, up, done, posted>>

\* Today ends handled.
Midnight ==
    /\ day < MaxDays /\ day' = day + 1
    /\ IF up THEN UNCHANGED excused ELSE Absent
    /\ posted[day] > 0 \/ day \in excused'
    /\ UNCHANGED <<up, done, posted>>

Next == Start \/ Stop \/ Post \/ GiveUp \/ Pass \/ Miss \/ Midnight

Spec == Init /\ [][Next]_vars
=============================================================================
