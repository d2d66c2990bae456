--------------------------- MODULE VoiceMoves_proof ---------------------------
(* Theorems about VoiceJobs: what is reported of the people a job moved, and   *)
(* what has become of their events when it is done.                            *)
EXTENDS VoiceCourse_proof, FiniteSetTheorems

-----------------------------------------------------------------------------
(* Whom a job moved, and what a MoveMembers call reports.                      *)

Movers == Jobs \ Sweepers

\* The job's call of moveSomeUsers has found nobody yet.
Fresh(j) == pc[j] \in {"acquiring", "granted"} \/ (pc[j] = "idle" /\ j # Checker)

\* Whom Discord has moved for a job, at each point of it: nobody before it moves
\* people, the moved while it does, everybody it found when it goes on without an
\* error, and never more than the moved and one whose move failed.
Accounted(j) ==
    /\ moved[j] \subseteq displaced[j] /\ displaced[j] \subseteq targets[j]
    /\ \E u \in Members : displaced[j] \subseteq moved[j] \cup {u}
    /\ displaced[j] # moved[j] => err[j] = "move"
    /\ Fresh(j) => targets[j] = {}
    /\ \/ pc[j] = "snapshot"
       \/ pc[j] \in {"create", "send", "await", "sound"} /\ call[j].stage = "arrive"
       => displaced[j] = {}
    /\ pc[j] \in {"create", "send", "await", "sound", "move"} => displaced[j] = moved[j]
    /\ \/ pc[j] \in {"create", "send", "await", "sound"} /\ call[j].stage = "depart"
       \/ pc[j] \in {"leave", "release", "done"}
       => (err[j] = "none" => displaced[j] = targets[j])
    /\ j \in Rpcs /\ reply[j] = "ok" => pc[j] = "done" /\ err[j] = "none"

ReportInv == \A j \in Movers : Accounted(j)

\* The steps of a job with the slot.
LEMMA VoiceStepKeepsReport ==
    ASSUME TypeOK, IInv, ReportInv, NEW j \in Movers, VoiceStep(j)
    PROVE  Accounted(j)'
  <1>1. j \in Jobs /\ j \notin Sweepers /\ slot = j /\ pc[j] \in HoldingLabels
    BY VoiceStepForm DEF Movers, IInv, SlotInv
  <1>2. UNCHANGED reply /\ (j \in Rpcs => reply[j] # "ok")
    BY <1>1, VoiceStepForm DEF ReportInv, Accounted, HoldingLabels, UsingLabels
  <1>3. /\ pc[j] \in {"granted", "snapshot", "move"} => call[j].stage = "arrive"
        /\ pc[j] = "create" => ~session.open
        /\ call[j] \in CallRecord
    BY <1>1 DEF IInv, StageInv, SessionInv, TypeOK
  <1>4. Accounted(j) /\ call[j].stage \in {"arrive", "depart"}
    BY <1>3 DEF ReportInv, CallRecord
  <1> USE <1>1, <1>2, <1>3, <1>4
      DEF TypeOK, Accounted, Fresh, Goto, Fail, JoinFailed, discord, client, work, locals
  <1>5. CASE CheckGrant(j) \/ TakeSnapshot(j)
    <2>1. /\ moved' = moved /\ displaced' = displaced /\ moved[j] = {} /\ displaced[j] = {}
          /\ call' = call /\ call[j].stage = "arrive"
      BY <1>5 DEF CheckGrant, TakeSnapshot
    <2>2. CASE CheckGrant(j)
      BY <2>1, <2>2 DEF CheckGrant
    <2>3. CASE TakeSnapshot(j)
      <3>1. \/ pc'[j] = "create"
            \/ pc'[j] = "release" /\ (err'[j] = "none" => targets'[j] = {})
        BY <2>3 DEF TakeSnapshot
      <3> QED
        BY <2>1, <3>1
    <2> QED
      BY <1>5, <2>2, <2>3
  <1>6. CASE CreateJoinSession(j)
    BY <1>6 DEF CreateJoinSession
  <1>7. CASE SendJoin(j) \/ SendJoinFails(j)
    BY <1>7 DEF SendJoin, SendJoinFails
  <1>8. CASE JoinCompletes(j) \/ JoinTimesOut(j)
    BY <1>8 DEF JoinCompletes, JoinTimesOut
  <1>9. CASE PlaySound(j) \/ PlaySoundFails(j)
    BY <1>9 DEF PlaySound, PlaySoundFails
  <1>10. ASSUME NEW u \in Users, MoveUser(j, u)
         PROVE  Accounted(j)'
    BY <1>10 DEF MoveUser, Displace
  <1>11. ASSUME NEW u \in Users, MoveUserFails(j, u)
         PROVE  Accounted(j)'
    BY <1>11 DEF MoveUserFails, Displace, Members
  <1>12. CASE MovesDone(j)
    <2>1. /\ displaced[j] = targets[j] /\ displaced[j] = moved[j]
          /\ UNCHANGED <<displaced, moved, targets, err>>
      BY <1>12 DEF MovesDone
    <2>2. \/ pc'[j] = "leave"
          \/ pc'[j] = "create" /\ call'[j].stage = "depart"
      BY <1>12 DEF MovesDone, CallRecord
    <2> QED
      BY <2>1, <2>2
  <1>13. CASE Leave(j) \/ LeaveFails(j) \/ ReleaseVoice(j)
    BY <1>13 DEF Leave, LeaveFails, ReleaseVoice
  <1> QED
    BY <1>5, <1>6, <1>7, <1>8, <1>9, <1>10, <1>11, <1>12, <1>13 DEF VoiceStep

\* A step that touches nothing of a job but its context.
Untouched(j) ==
    /\ pc'[j] = pc[j] /\ call'[j] = call[j] /\ err'[j] = err[j] /\ targets'[j] = targets[j]
    /\ moved'[j] = moved[j] /\ displaced'[j] = displaced[j]
    /\ j \in Rpcs => reply'[j] = reply[j]

LEMMA FrameKeepsReport ==
    ASSUME NEW j \in Movers, Accounted(j), Untouched(j)
    PROVE  Accounted(j)'
  BY DEF Accounted, Fresh, Untouched

\* A job that calls moveSomeUsers has found and moved nobody for it.
LEMMA CallIsAccounted ==
    ASSUME TypeOK, NEW j \in Jobs, NEW from, NEW to, NEW only, Call(j, from, to, only),
           j \in Rpcs => reply'[j] # "ok"
    PROVE  Accounted(j)'
  <1>1. /\ pc'[j] = "acquiring" /\ err'[j] = "none"
        /\ targets'[j] = {} /\ moved'[j] = {} /\ displaced'[j] = {}
    BY DEF TypeOK, Call, Goto
  <1>2. Bot \in Members
    BY DEF Members
  <1> QED
    BY <1>1, <1>2 DEF Accounted, Fresh

\* The steps of a call without the slot.
LEMMA RpcStepKeepsReport ==
    ASSUME TypeOK, ReportInv, NEW r \in Rpcs,
           LookupFails(r) \/ RpcStep(r) \/ \E q \in MoveRequests : MoveMembers(r, q)
    PROVE  Accounted(r)'
  <1>1. Accounted(r) /\ r \in Jobs /\ r # Checker
    BY JobAssumption DEF ReportInv, Movers, Jobs
  <1> USE <1>1
      DEF TypeOK, Accounted, Fresh, Goto, Fail, Outside, Elsewhere, locals, discord, client, work
  <1>2. CASE LookupFails(r)
    BY <1>2 DEF LookupFails
  <1>3. CASE AbandonWait(r)
    BY <1>3 DEF AbandonWait
  <1>4. CASE Reply(r)
    BY <1>4 DEF Reply
  <1>5. ASSUME NEW q \in MoveRequests, MoveMembers(r, q)
        PROVE  Accounted(r)'
    <2>1. pc[r] = "idle" /\ reply[r] # "ok"
      BY <1>5 DEF MoveMembers
    <2>2. CASE Valid(q)
      BY <1>5, <2>1, <2>2, CallIsAccounted DEF MoveMembers
    <2>3. CASE ~Valid(q)
      <3>1. /\ pc'[r] = "done" /\ reply'[r] = "status"
            /\ UNCHANGED <<call, targets, moved, err, displaced>>
        BY <1>5, <2>3 DEF MoveMembers
      <3> QED
        BY <2>1, <3>1
    <2> QED
      BY <2>2, <2>3
  <1> QED
    BY <1>2, <1>3, <1>4, <1>5 DEF RpcStep

\* The steps of a round-up or a closing without the slot, and of any job that gets it.
LEMMA CallerKeepsReport ==
    ASSUME TypeOK, ReportInv, NEW j \in Movers,
           AcquireVoice(j) \/ (j = Checker /\ CheckStep) \/ (j \in Closers /\ CloseOffice(j))
    PROVE  Accounted(j)'
  <1>1. Accounted(j) /\ j \in Jobs
    BY DEF ReportInv, Movers
  <1> USE <1>1
      DEF TypeOK, Accounted, Fresh, Goto, Fail, Outside, Elsewhere, locals, discord, client, work
  <1>2. CASE AcquireVoice(j)
    BY <1>2 DEF AcquireVoice
  <1>3. ASSUME j = Checker, NEW c \in Channels, CheckRoom(c)
        PROVE  Accounted(j)'
    <2>1. CASE c \in held
      BY <1>3, <2>1 DEF CheckRoom
    <2>2. CASE c \notin held
      BY <1>3, <2>2, CallIsAccounted, JobAssumption DEF CheckRoom
    <2> QED
      BY <2>1, <2>2
  <1>4. CASE j = Checker /\ (CheckSkipped \/ CheckBegins)
    BY <1>4, JobAssumption DEF CheckSkipped, CheckBegins
  <1>5. CASE j = Checker /\ (CheckContinues \/ CheckEnds)
    BY <1>5, JobAssumption DEF CheckContinues, CheckEnds
  <1>6. CASE j \in Closers /\ CloseOffice(j)
    <2>1. j # Checker /\ j \notin Rpcs /\ pc[j] = "idle"
      BY <1>6, JobAssumption DEF CloseOffice
    <2>2. CASE guildKnown
      BY <1>6, <2>1, <2>2, CallIsAccounted DEF CloseOffice
    <2>3. CASE ~guildKnown
      <3>1. moved[j] = {} /\ displaced[j] = {} /\ targets[j] = {}
        BY <2>1
      <3>2. pc'[j] = "done" /\ err'[j] = "guild" /\ UNCHANGED <<call, targets, moved, displaced>>
        BY <1>6, <2>1, <2>3 DEF CloseOffice
      <3> QED
        BY <2>1, <3>1, <3>2
    <2> QED
      BY <2>2, <2>3
  <1> QED
    BY <1>2, <1>3, <1>4, <1>5, <1>6 DEF CheckStep

\* The steps of other callers are none of the job's.
LEMMA CallersKeepReport ==
    ASSUME TypeOK, ReportInv, NEW j \in Movers,
           \/ j # Checker /\ CheckStep
           \/ \E k \in Closers \ {j} : CloseOffice(k)
           \/ \E s \in Sweepers : SweepStarts(s) \/ SweepStep(s)
           \/ \E i \in Jobs \ {j} : AcquireVoice(i)
           \/ \E i \in Rpcs \ {j} :
                \/ LookupFails(i) \/ RpcStep(i)
                \/ \E q \in MoveRequests : MoveMembers(i, q)
    PROVE  Accounted(j)'
  <1>1. Accounted(j) /\ j \in Jobs /\ j \notin Sweepers
    BY DEF ReportInv, Movers
  <1> SUFFICES Untouched(j)
    BY <1>1, FrameKeepsReport
  <1> USE <1>1
      DEF TypeOK, Untouched, Goto, Fail, Call, Outside, Elsewhere, locals, discord, work, Jobs
  <1>2. CASE j # Checker /\ CheckStep
    <2>1. ASSUME NEW c \in Channels, CheckRoom(c)
          PROVE  Untouched(j)
      BY <1>2, <2>1 DEF CheckRoom
    <2>2. CASE CheckSkipped \/ CheckBegins
      BY <1>2, <2>2 DEF CheckSkipped, CheckBegins
    <2>3. CASE CheckContinues \/ CheckEnds
      BY <1>2, <2>3 DEF CheckContinues, CheckEnds
    <2> QED
      BY <1>2, <2>1, <2>2, <2>3 DEF CheckStep
  <1>3. ASSUME NEW k \in Closers \ {j}, CloseOffice(k)
        PROVE  Untouched(j)
    BY <1>3 DEF CloseOffice
  <1>4. ASSUME NEW s \in Sweepers, SweepStarts(s)
        PROVE  Untouched(j)
    BY <1>4 DEF SweepStarts
  <1>5. ASSUME NEW s \in Sweepers, SweepStep(s)
        PROVE  Untouched(j)
    BY <1>5 DEF SweepStep, SweepLookupFails, SweepPicks
  <1>6. ASSUME NEW i \in Jobs \ {j}, AcquireVoice(i)
        PROVE  Untouched(j)
    BY <1>6 DEF AcquireVoice
  <1>7. ASSUME NEW i \in Rpcs \ {j}, LookupFails(i) \/ RpcStep(i)
        PROVE  Untouched(j)
    BY <1>7 DEF LookupFails, RpcStep, AbandonWait, Reply
  <1>8. ASSUME NEW i \in Rpcs \ {j}, NEW q \in MoveRequests, MoveMembers(i, q)
        PROVE  Untouched(j)
    BY <1>8 DEF MoveMembers
  <1> HIDE DEF Untouched
  <1> QED
    BY <1>2, <1>3, <1>4, <1>5, <1>6, <1>7, <1>8

\* No step of any goroutine or of Discord spoils a job's account.
LEMMA ReportStep == TypeOK /\ IInv /\ ReportInv /\ [Next]_vars => ReportInv'
  <1> SUFFICES ASSUME TypeOK, IInv, ReportInv, [Next]_vars, NEW j \in Movers
               PROVE  Accounted(j)'
    BY DEF ReportInv, Movers, Jobs
  <1>1. Accounted(j) /\ j \in Jobs
    BY DEF ReportInv, Movers
  <1>2. ASSUME NEW i \in Jobs, VoiceStep(i)
        PROVE  Accounted(j)'
    <2>1. CASE i = j
      BY <1>2, <2>1, VoiceStepKeepsReport
    <2>2. CASE i # j
      BY <1>1, <1>2, <2>2, VoiceStepForm, FrameKeepsReport DEF Untouched
    <2> QED
      BY <2>1, <2>2
  <1>3. ASSUME Environment \/ HandleVoiceState \/ UNCHANGED vars
        PROVE  Accounted(j)'
    <2>1. OutsideForm
      BY <1>3, OutsideStepForm
    <2>2. CASE pc'[j] = pc[j]
      BY <1>1, <2>1, <2>2, FrameKeepsReport DEF OutsideForm, Untouched
    <2>3. CASE pc[j] = "idle" /\ pc'[j] = "check" /\ j = Checker
      BY <1>1, <2>1, <2>3, JobAssumption DEF OutsideForm, Accounted, Fresh
    <2> QED
      BY <1>1, <2>1, <2>2, <2>3 DEF OutsideForm
  <1>4. ASSUME \/ CheckStep \/ Starts
               \/ \E i \in Jobs : AcquireVoice(i)
               \/ \E s \in Sweepers : SweepStep(s)
               \/ \E i \in Rpcs : RpcStep(i)
        PROVE  Accounted(j)'
    BY <1>4, RpcStepKeepsReport, CallerKeepsReport, CallersKeepReport DEF Starts
  <1> QED
    BY <1>2, <1>3, <1>4 DEF Next, AllDone

\* So every job is accounted for at every moment.
LEMMA ReportCorrect == Spec => []ReportInv
  <1>1. Init => ReportInv
    BY DEF Init, ReportInv, Accounted, Members, Movers, Jobs
  <1> QED
    BY <1>1, ReportStep, InvCorrect, PTL DEF Spec

\* A round-up, a closing or a call moves only people it found, and if it returns
\* without an error, all of them (utils.go:58-100).
THEOREM MovesAreWholeCorrect == Spec => []MovesAreWhole
  <1>1. ReportInv => MovesAreWhole
    BY DEF ReportInv, Accounted, Movers, MovesAreWhole
  <1> QED
    BY <1>1, ReportCorrect, PTL

\* A call reports only people Discord moved for it, misses at most the one whose
\* answer was lost, and then reports the failed move; and all is well only if
\* everybody it found was moved.
THEOREM ReportIsAccurateCorrect == Spec => []ReportIsAccurate
  <1>1. TypeOK /\ ReportInv => ReportIsAccurate
    <2> SUFFICES ASSUME TypeOK, ReportInv, NEW r \in Rpcs
                 PROVE  /\ moved[r] \subseteq displaced[r]
                        /\ Cardinality(displaced[r] \ moved[r]) <= 1
                        /\ displaced[r] # moved[r] => err[r] = "move" /\ reply[r] # "ok"
                        /\ reply[r] = "ok" => displaced[r] = targets[r]
      BY DEF ReportIsAccurate
    <2>1. Accounted(r)
      BY JobAssumption DEF ReportInv, Movers, Jobs
    <2>2. PICK u : displaced[r] \ moved[r] \subseteq {u}
      BY <2>1 DEF Accounted
    <2>3. Cardinality(displaced[r] \ moved[r]) <= 1
      <3>1. IsFiniteSet({u}) /\ Cardinality({u}) = 1
        BY FS_Singleton, Zenon
      <3>2. Cardinality(displaced[r] \ moved[r]) <= Cardinality({u})
        BY <2>2, <3>1, FS_Subset, Zenon
      <3> QED
        BY <3>1, <3>2
    <2> QED
      BY <2>1, <2>3 DEF Accounted
  <1> QED
    BY <1>1, ReportCorrect, InvCorrect, PTL

-----------------------------------------------------------------------------
(* Following the people a job moved.                                           *)

\* The events and commands that can complete a join.
IsArrival(e) == e.who = Bot /\ e.chan # None
NoArrival == \A i \in 1 .. Len(events) : ~IsArrival(events[i])
NoneAsked == \A i \in 1 .. Len(outbox) : outbox[i] = None

\* A join was asked for, and no event has completed it.
Waiting == slot # None /\ pc[slot] = "await" /\ ~session.got

\* Then its own command, or its own answer, is the only one on its way, and behind
\* all events of the people the job has moved.
Pending ==
    /\ \A i \in 1 .. Len(outbox) : outbox[i] # None => i = Len(outbox) /\ NoArrival
    /\ \A i, k \in 1 .. Len(events) : IsArrival(events[i]) /\ IsArrival(events[k]) => i = k
    /\ call[slot].stage = "depart" =>
         \A i, k \in 1 .. Len(events) : IsArrival(events[i]) /\ events[k].by = slot => k < i

Flushed(j) == \A i \in 1 .. Len(events) : events[i].by # j

\* A job has followed the people it moved.
Followed(j) ==
    /\ call[j].stage = "depart"
    /\ \/ pc[j] = "await" /\ session.got
       \/ pc[j] = "sound"
       \/ pc[j] \in {"leave", "release"} /\ err[j] = "none"

FlushInv == ~late =>
    /\ Waiting => Pending
    /\ ~Waiting => NoneAsked /\ NoArrival
    /\ slot # None =>
         /\ pc[slot] = "send" => ~session.got
         /\ Followed(slot) => Flushed(slot)

\* The queue of events after a member has ended up in a channel.
LEMMA EmitFacts ==
    ASSUME TypeOK, NEW who \in Members, NEW chan \in Channels \cup {None},
           NEW by \in Jobs \cup {None}, Emit(who, chan, by)
    PROVE  /\ Len(events) \in Nat /\ Len(events') = Len(events) + 1
           /\ \A i \in 1 .. Len(events) : events'[i] = events[i]
           /\ events'[Len(events) + 1] = [who |-> who, chan |-> chan, by |-> by]
           /\ IsArrival(events'[Len(events) + 1]) <=> (who = Bot /\ chan # None)
           /\ events'[Len(events) + 1].by = by
  <1>1. events \in Seq(Event) /\ [who |-> who, chan |-> chan, by |-> by] \in Event
    BY DEF TypeOK, Event
  <1>2. /\ Len(events) \in Nat /\ Len(events') = Len(events) + 1
        /\ \A i \in 1 .. Len(events) : events'[i] = events[i]
        /\ events'[Len(events) + 1] = [who |-> who, chan |-> chan, by |-> by]
    BY <1>1, AppendFacts DEF Emit
  <1> QED
    BY <1>2 DEF IsArrival

\* Somebody but the bot, or the bot leaving, is no arrival.
LEMMA EmitKeepsQuiet ==
    ASSUME TypeOK, NEW who \in Members, NEW chan \in Channels \cup {None},
           NEW by \in Jobs \cup {None}, Emit(who, chan, by), who # Bot \/ chan = None
    PROVE  /\ NoArrival => NoArrival'
           /\ Len(events) \in Nat /\ Len(events') = Len(events) + 1
           /\ \A i \in 1 .. Len(events) : events'[i] = events[i]
           /\ ~IsArrival(events'[Len(events) + 1]) /\ events'[Len(events) + 1].by = by
  <1>1. /\ Len(events) \in Nat /\ Len(events') = Len(events) + 1
        /\ \A i \in 1 .. Len(events) : events'[i] = events[i]
        /\ ~IsArrival(events'[Len(events) + 1]) /\ events'[Len(events) + 1].by = by
    BY EmitFacts
  <1>2. ASSUME NoArrival, NEW i \in 1 .. Len(events')
        PROVE  ~IsArrival(events'[i])
    BY <1>1, <1>2 DEF NoArrival
  <1> QED
    BY <1>1, <1>2 DEF NoArrival

\* A job that waits for no join, and does not begin to.
LEMMA VoiceStepKeepsQuiet ==
    ASSUME TypeOK, IInv, NEW j \in Jobs, VoiceStep(j), ~SendJoin(j), NoneAsked, NoArrival
    PROVE  NoneAsked' /\ NoArrival'
  <1>1. ASSUME NEW u \in Users, Displace(j, u)
        PROVE  NoArrival'
    <2>1. /\ call[j].to \in Channels \cup {None} /\ u \in Members /\ u # Bot
          /\ Emit(u, call[j].to, j)
      BY <1>1, MemberAssumption DEF TypeOK, CallRecord, Members, Displace
    <2> QED
      BY <2>1, EmitKeepsQuiet
  <1>2. NoArrival'
    BY <1>1, VoiceStepEvents DEF NoArrival
  <1>3. UNCHANGED outbox \/ outbox' = Append(outbox, None)
    <2> USE DEF discord
    <2>1. ASSUME NEW u \in Users, MoveUser(j, u) \/ MoveUserFails(j, u)
          PROVE  UNCHANGED outbox
      BY <2>1 DEF MoveUser, MoveUserFails
    <2> QED
      BY <2>1 DEF VoiceStep, CheckGrant, TakeSnapshot, CreateJoinSession, SendJoinFails,
             JoinCompletes, JoinTimesOut, PlaySound, PlaySoundFails, MovesDone, Leave, LeaveFails,
             ReleaseVoice
  <1>4. ASSUME outbox' = Append(outbox, None), NEW i \in 1 .. Len(outbox')
        PROVE  outbox'[i] = None
    <2>1. outbox \in Seq(Channels \cup {None})
      BY DEF TypeOK
    <2>2. /\ Len(outbox) \in Nat /\ Len(outbox') = Len(outbox) + 1
          /\ \A n \in 1 .. Len(outbox) : outbox'[n] = outbox[n]
          /\ outbox'[Len(outbox) + 1] = None
      BY <1>4, <2>1, AppendFacts
    <2> QED
      BY <2>2 DEF NoneAsked
  <1>5. NoneAsked'
    BY <1>3, <1>4 DEF NoneAsked
  <1> QED
    BY <1>2, <1>5

\* The slot's holder waits only for its own join, and follows whom it moved.
LEMMA VoiceStepKeepsFlush ==
    ASSUME TypeOK, IInv, FlushInv, NEW j \in Jobs, VoiceStep(j)
    PROVE  FlushInv'
  <1> SUFFICES ASSUME ~late'
               PROVE  FlushInv'
    BY DEF FlushInv
  <1>1. slot = j /\ slot # None
    BY VoiceStepForm, JobAssumption
  <1>2. ~late /\ ~JoinTimesOut(j)
    BY DEF VoiceStep, CheckGrant, TakeSnapshot, CreateJoinSession, SendJoin, SendJoinFails,
           JoinCompletes, JoinTimesOut, PlaySound, PlaySoundFails, MoveUser, MoveUserFails,
           MovesDone, Leave, LeaveFails, ReleaseVoice
  <1>3. /\ pc[j] = "create" => ~session.open
        /\ pc[j] \in {"granted", "snapshot", "move"} => call[j].stage = "arrive"
        /\ call[j].stage \in {"arrive", "depart"}
    BY <1>1 DEF IInv, SessionInv, StageInv, TypeOK, CallRecord
  <1>4. /\ pc[j] = "send" => ~session.got
        /\ Followed(j) => Flushed(j)
    BY <1>1, <1>2 DEF FlushInv
  <1>5. CASE SendJoin(j)
    <2>1. /\ ~session.got /\ pc[j] = "send" /\ pc'[j] = "await"
          /\ outbox' = Append(outbox, Target(j))
          /\ UNCHANGED <<events, slot, session, call, err>>
      BY <1>4, <1>5 DEF SendJoin, TypeOK, Goto, client, work
    <2>2. NoneAsked /\ NoArrival /\ NoArrival'
      BY <1>1, <1>2, <2>1 DEF FlushInv, Waiting, NoArrival
    <2>3. outbox \in Seq(Channels \cup {None}) /\ Target(j) \in Channels \cup {None}
      BY DEF TypeOK, CallRecord, Target
    <2>4. /\ Len(outbox) \in Nat /\ Len(outbox') = Len(outbox) + 1
          /\ \A n \in 1 .. Len(outbox) : outbox'[n] = outbox[n]
      BY <2>1, <2>3, AppendFacts
    <2>5. Pending'
      BY <2>2, <2>4 DEF Pending, NoneAsked, NoArrival
    <2>6. Waiting' /\ ~Followed(j)'
      BY <1>1, <2>1 DEF Waiting, Followed
    <2> QED
      BY <1>1, <2>1, <2>5, <2>6 DEF FlushInv
  <1>6. CASE ~SendJoin(j)
    <2>1. ~Waiting
      BY <1>1, <1>2, <1>6
         DEF Waiting, VoiceStep, CheckGrant, TakeSnapshot, CreateJoinSession, SendJoinFails,
             JoinCompletes, PlaySound, PlaySoundFails, MoveUser, MoveUserFails, MovesDone, Leave,
             LeaveFails, ReleaseVoice
    <2>2. NoneAsked' /\ NoArrival'
      BY <1>2, <1>6, <2>1, VoiceStepKeepsQuiet DEF FlushInv
    <2> DEFINE Good ==
          \/ slot' = None
          \/ /\ slot' = j /\ pc'[j] # "await"
             /\ pc'[j] = "send" => ~session'.got
             /\ Followed(j)' => Flushed(j)'
    <2> USE <1>1, <1>3, <1>4
        DEF TypeOK, Followed, Goto, Fail, JoinFailed, discord, client, work, locals
    <2>3. ASSUME CheckGrant(j) \/ TakeSnapshot(j)
          PROVE  Good
      BY <2>3 DEF CheckGrant, TakeSnapshot
    <2>4. ASSUME CreateJoinSession(j)
          PROVE  Good
      BY <2>4 DEF CreateJoinSession
    <2>5. ASSUME SendJoinFails(j)
          PROVE  Good
      BY <2>5 DEF SendJoinFails
    <2>6. ASSUME JoinCompletes(j)
          PROVE  Good
      BY <2>6 DEF JoinCompletes, Flushed
    <2>7. ASSUME PlaySound(j) \/ PlaySoundFails(j)
          PROVE  Good
      BY <2>7 DEF PlaySound, PlaySoundFails, Flushed
    <2>8. ASSUME NEW u \in Users, MoveUser(j, u) \/ MoveUserFails(j, u)
          PROVE  Good
      BY <2>8 DEF MoveUser, MoveUserFails
    <2>9. ASSUME MovesDone(j)
          PROVE  Good
      <3>1. UNCHANGED slot /\ pc[j] = "move"
        BY <2>9 DEF MovesDone
      <3>2. \/ pc'[j] = "leave" /\ call'[j].stage = "arrive"
            \/ pc'[j] = "create"
        BY <2>9 DEF MovesDone
      <3> QED
        BY <3>1, <3>2
    <2>10. ASSUME Leave(j) \/ LeaveFails(j)
           PROVE  Good
      BY <2>10 DEF Leave, LeaveFails, Flushed
    <2>11. ASSUME ReleaseVoice(j)
           PROVE  Good
      BY <2>11 DEF ReleaseVoice
    <2>12. Good
      BY <1>2, <1>6, <2>3, <2>4, <2>5, <2>6, <2>7, <2>8, <2>9, <2>10, <2>11 DEF VoiceStep
    <2> QED
      BY <2>2, <2>12 DEF FlushInv, Waiting
  <1> QED
    BY <1>5, <1>6

\* Nothing a caller does is a join, or a move.
LEMMA CallerStepKeepsFlush ==
    ASSUME TypeOK, IInv, FlushInv, NEW j \in Jobs, CallerForm(j)
    PROVE  FlushInv'
  <1>1. UNCHANGED <<outbox, events, session, late>>
    BY DEF CallerForm
  <1>2. \/ UNCHANGED slot /\ (slot # None => /\ pc'[slot] = pc[slot] /\ call'[slot] = call[slot]
                                            /\ err'[slot] = err[slot])
        \/ /\ slot = None \/ pc[slot] = "granted"
           /\ slot' # None
           /\ \/ pc'[slot'] \in {"granted", "create"}
              \/ pc'[slot'] = "release" /\ err'[slot'] # "none"
    <2>1. slot \in Jobs \cup {None} /\ (pc[j] \in HoldingLabels <=> slot = j)
      BY DEF TypeOK, IInv, SlotInv
    <2> QED
      BY <2>1, JobAssumption DEF CallerForm, HoldingLabels, UsingLabels
  <1>3. CASE UNCHANGED slot /\ (slot # None => /\ pc'[slot] = pc[slot] /\ call'[slot] = call[slot]
                                              /\ err'[slot] = err[slot])
    BY <1>1, <1>3
       DEF FlushInv, Waiting, Pending, NoArrival, NoneAsked, Followed, Flushed
  <1>4. CASE /\ slot = None \/ pc[slot] = "granted"
             /\ slot' # None
             /\ \/ pc'[slot'] \in {"granted", "create"}
                \/ pc'[slot'] = "release" /\ err'[slot'] # "none"
    <2>1. ~Waiting /\ ~Waiting' /\ ~Followed(slot)'
      BY <1>4 DEF Waiting, Followed
    <2> QED
      BY <1>1, <1>4, <2>1 DEF FlushInv, NoArrival, NoneAsked
  <1> QED
    BY <1>2, <1>3, <1>4

\* Discord answers the join that waits, and no other.
LEMMA AnswerKeepsFlush ==
    ASSUME TypeOK, IInv, FlushInv, ~late, ProcessVoiceCommand
    PROVE  FlushInv'
  <1>1. /\ outbox \in Seq(Channels \cup {None}) /\ outbox # <<>> /\ outbox' = Tail(outbox)
        /\ Head(outbox) \in Channels \cup {None} /\ Bot \in Members
        /\ UNCHANGED <<slot, session, late, pc, call, err>>
    BY DEF TypeOK, ProcessVoiceCommand, Members, client, work
  <1>2. /\ Len(outbox) \in Nat \ {0} /\ Head(outbox) = outbox[1]
        /\ Len(outbox') = Len(outbox) - 1
        /\ \A i \in 1 .. Len(outbox) - 1 : outbox'[i] = outbox[i + 1]
    BY <1>1, TailFacts
  <1>3. NoneAsked => NoneAsked' /\ Head(outbox) = None
    BY <1>2 DEF NoneAsked
  <1>4. slot # None => slot \in Jobs /\ slot # None
    BY DEF TypeOK
  <1>5. CASE UNCHANGED <<place, events>>
    <2>1. NoArrival => NoArrival'
      BY <1>5 DEF NoArrival
    <2>2. ASSUME Pending
          PROVE  Pending'
      <3>1. ASSUME NEW i \in 1 .. Len(outbox'), outbox'[i] # None
            PROVE  i = Len(outbox') /\ NoArrival'
        <4>1. i + 1 \in 1 .. Len(outbox) /\ outbox[i + 1] # None
          BY <1>2, <3>1
        <4>2. i + 1 = Len(outbox) /\ NoArrival
          BY <2>2, <4>1 DEF Pending
        <4> QED
          BY <1>2, <2>1, <4>2
      <3> QED
        BY <1>1, <1>5, <2>2, <3>1 DEF Pending
    <2> QED
      BY <1>1, <1>3, <1>5, <2>2 DEF FlushInv, Waiting, NoArrival, Followed, Flushed
  <1>6. CASE Emit(Bot, Head(outbox), None)
    <2>1. /\ Len(events) \in Nat /\ Len(events') = Len(events) + 1
          /\ \A i \in 1 .. Len(events) : events'[i] = events[i]
          /\ IsArrival(events'[Len(events) + 1]) <=> Head(outbox) # None
          /\ events'[Len(events) + 1].by = None
      BY <1>1, <1>6, EmitFacts
    <2>2. slot # None /\ Flushed(slot) => Flushed(slot)'
      BY <1>1, <2>1 DEF Flushed
    <2>3. Head(outbox) = None /\ NoArrival => NoArrival'
      BY <2>1 DEF NoArrival
    <2>4. ASSUME Waiting, Pending
          PROVE  Pending'
      <3>1. CASE Head(outbox) = None
        <4>1. \A i \in 1 .. Len(outbox') : outbox'[i] # None => i = Len(outbox') /\ NoArrival'
          BY <1>2, <2>3, <2>4, <3>1 DEF Pending
        <4>2. \A i \in 1 .. Len(events') : IsArrival(events'[i]) =>
                i \in 1 .. Len(events) /\ events'[i] = events[i]
          BY <2>1, <3>1
        <4>3. \A i \in 1 .. Len(events') : events'[i].by = slot =>
                i \in 1 .. Len(events) /\ events'[i] = events[i]
          BY <2>1, <2>4 DEF Waiting
        <4> QED
          BY <1>1, <2>4, <4>1, <4>2, <4>3 DEF Pending
      <3>2. CASE Head(outbox) # None
        <4>1. Len(outbox) = 1 /\ NoArrival
          BY <1>2, <2>4, <3>2 DEF Pending
        <4>2. \A i \in 1 .. Len(events') : IsArrival(events'[i]) => i = Len(events) + 1
          BY <2>1, <4>1 DEF NoArrival
        <4>3. \A i \in 1 .. Len(events') : events'[i].by = slot => i < Len(events) + 1
          BY <2>1, <2>4 DEF Waiting
        <4>4. \A i, k \in 1 .. Len(events') :
                IsArrival(events'[i]) /\ IsArrival(events'[k]) => i = k
          BY <4>2
        <4>5. \A i, k \in 1 .. Len(events') :
                IsArrival(events'[i]) /\ events'[k].by = slot => k < i
          BY <4>2, <4>3
        <4> QED
          BY <1>1, <1>2, <4>1, <4>4, <4>5 DEF Pending
      <3> QED
        BY <3>1, <3>2
    <2> QED
      BY <1>1, <1>3, <2>2, <2>3, <2>4 DEF FlushInv, Waiting, Followed
  <1> QED
    BY <1>5, <1>6 DEF ProcessVoiceCommand

\* The event loop completes the join that waits, and with it has handled all events
\* of the people the job has moved.
LEMMA HandleKeepsFlush ==
    ASSUME TypeOK, IInv, FlushInv, ~late, HandleVoiceState
    PROVE  FlushInv'
  <1>1. /\ Len(events) \in Nat \ {0} /\ Head(events) = events[1]
        /\ Len(events') = Len(events) - 1
        /\ \A i \in 1 .. Len(events) - 1 : events'[i] = events[i + 1]
    <2>1. events \in Seq(Event) /\ events # <<>> /\ events' = Tail(events)
      BY DEF HandleVoiceState, TypeOK
    <2> QED
      BY <2>1, TailFacts
  <1>2. UNCHANGED <<outbox, slot, call, err, late>>
    BY DEF HandleVoiceState, work
  <1>3. slot # None => pc'[slot] = pc[slot]
    <2>1. pc[Checker] = "idle" => slot # Checker
      BY DEF IInv, SlotInv, HoldingLabels, UsingLabels, Jobs
    <2> QED
      BY <2>1 DEF HandleVoiceState, TypeOK
  <1>4. \A i \in 1 .. Len(events') : i + 1 \in 1 .. Len(events) /\ events'[i] = events[i + 1]
    BY <1>1
  <1>5. /\ NoArrival => NoArrival'
        /\ Flushed(slot) => Flushed(slot)'
        /\ NoneAsked => NoneAsked'
    BY <1>2, <1>4 DEF NoArrival, Flushed, NoneAsked
  <1>6. CASE ~IsArrival(events[1])
    <2>1. UNCHANGED session
      BY <1>1, <1>6 DEF HandleVoiceState, IsArrival
    <2>2. Waiting' <=> Waiting
      BY <1>2, <1>3, <2>1 DEF Waiting
    <2>3. ASSUME Pending
          PROVE  Pending'
      <3>1. \A i, k \in 1 .. Len(events') :
              IsArrival(events'[i]) /\ IsArrival(events'[k]) => i = k
        <4> SUFFICES ASSUME NEW i \in 1 .. Len(events'), NEW k \in 1 .. Len(events'),
                            IsArrival(events'[i]), IsArrival(events'[k])
                     PROVE  i = k
          OBVIOUS
        <4>1. i + 1 = k + 1
          BY <1>4, <2>3 DEF Pending
        <4> QED
          BY <1>1, <4>1
      <3>2. ASSUME call[slot].stage = "depart",
                   NEW i \in 1 .. Len(events'), NEW k \in 1 .. Len(events'),
                   IsArrival(events'[i]), events'[k].by = slot
            PROVE  k < i
        <4>1. k + 1 < i + 1
          BY <1>4, <2>3, <3>2 DEF Pending
        <4> QED
          BY <1>1, <4>1
      <3>3. \A i \in 1 .. Len(outbox') : outbox'[i] # None => i = Len(outbox') /\ NoArrival'
        BY <1>2, <1>5, <2>3 DEF Pending
      <3> QED
        BY <1>2, <3>1, <3>2, <3>3 DEF Pending
    <2> QED
      BY <1>2, <1>3, <1>5, <2>1, <2>2, <2>3 DEF FlushInv, Followed
  <1>7. CASE IsArrival(events[1])
    <2>1. Waiting /\ Pending
      BY <1>1, <1>7 DEF FlushInv, NoArrival
    <2>2. NoneAsked' /\ NoArrival'
      <3>1. ~NoArrival
        BY <1>1, <1>7 DEF NoArrival
      <3>2. NoneAsked
        BY <2>1, <3>1 DEF Pending, NoneAsked
      <3>3. ASSUME NEW i \in 1 .. Len(events'), IsArrival(events'[i])
            PROVE  FALSE
        <4>1. 1 \in 1 .. Len(events) /\ i + 1 \in 1 .. Len(events)
          BY <1>1, <1>4
        <4>2. IsArrival(events[i + 1])
          BY <1>4, <3>3
        <4>3. i + 1 = 1
          BY <1>7, <2>1, <4>1, <4>2 DEF Pending
        <4> QED
          BY <1>1, <4>3
      <3> QED
        BY <1>5, <3>2, <3>3 DEF NoArrival
    <2>3. Pending'
      BY <2>2 DEF Pending, NoneAsked, NoArrival
    <2>4. call[slot].stage = "depart" => Flushed(slot)'
      <3> SUFFICES ASSUME call[slot].stage = "depart", NEW k \in 1 .. Len(events'),
                          events'[k].by = slot
                   PROVE  FALSE
        BY <1>2 DEF Flushed
      <3>1. 1 \in 1 .. Len(events) /\ k + 1 \in 1 .. Len(events)
            /\ events[k + 1].by = slot
        BY <1>1, <1>4
      <3>2. k + 1 < 1
        BY <1>7, <2>1, <3>1 DEF Pending
      <3> QED
        BY <1>1, <3>2
    <2>5. slot # None /\ pc'[slot] = "await"
      BY <1>3, <2>1 DEF Waiting
    <2> QED
      BY <1>2, <2>2, <2>3, <2>4, <2>5 DEF FlushInv, Followed
  <1> QED
    BY <1>6, <1>7

\* Of what else may happen, only a lost command and people who move on their own
\* change a queue, and both only make an answer less likely.
LEMMA OutsideStepKeepsFlush ==
    ASSUME TypeOK, IInv, FlushInv, ~late, Environment \/ HandleVoiceState \/ UNCHANGED vars
    PROVE  FlushInv'
  <1>1. /\ UNCHANGED <<slot, call, err, late>>
        /\ slot # None => slot \in Jobs /\ pc'[slot] = pc[slot]
    <2>1. pc[Checker] = "idle" => slot # Checker
      BY DEF IInv, SlotInv, HoldingLabels, UsingLabels, Jobs
    <2> QED
      BY <2>1, OutsideStepForm DEF OutsideForm, TypeOK
  <1>2. CASE LoseVoiceCommand
    <2>1. outbox \in Seq(Channels \cup {None}) /\ outbox # <<>> /\ outbox' = Tail(outbox)
      BY <1>2 DEF TypeOK, LoseVoiceCommand
    <2>2. /\ Len(outbox) \in Nat \ {0}
          /\ Len(outbox') = Len(outbox) - 1
          /\ \A i \in 1 .. Len(outbox) - 1 : outbox'[i] = outbox[i + 1]
      BY <2>1, TailFacts
    <2>3. UNCHANGED <<events, session>>
      BY <1>2 DEF LoseVoiceCommand, client
    <2>4. (NoneAsked => NoneAsked') /\ (NoArrival => NoArrival')
      BY <2>2, <2>3 DEF NoneAsked, NoArrival
    <2>5. Pending => Pending'
      BY <1>1, <2>2, <2>3, <2>4 DEF Pending
    <2> QED
      BY <1>1, <2>3, <2>4, <2>5 DEF FlushInv, Waiting, Followed, Flushed
  <1>3. ASSUME NEW u \in Users, NEW c \in Channels \cup {None}, UserMoves(u, c)
        PROVE  FlushInv'
    <2>1. u \in Members /\ u # Bot /\ Emit(u, c, None) /\ UNCHANGED <<outbox, session>>
      BY <1>3, MemberAssumption DEF UserMoves, Members, client
    <2>2. /\ NoArrival => NoArrival'
          /\ Len(events) \in Nat /\ Len(events') = Len(events) + 1
          /\ \A i \in 1 .. Len(events) : events'[i] = events[i]
          /\ ~IsArrival(events'[Len(events) + 1]) /\ events'[Len(events) + 1].by = None
      BY <2>1, EmitKeepsQuiet
    <2>3. \A i \in 1 .. Len(events') :
            IsArrival(events'[i]) \/ (slot # None /\ events'[i].by = slot) =>
                i \in 1 .. Len(events) /\ events'[i] = events[i]
      BY <2>2
    <2>4. slot # None /\ Pending => Pending'
      BY <1>1, <2>1, <2>2, <2>3 DEF Pending
    <2>5. slot # None /\ Flushed(slot) => Flushed(slot)'
      BY <1>1, <2>3 DEF Flushed
    <2> QED
      BY <1>1, <2>1, <2>2, <2>4, <2>5 DEF FlushInv, Waiting, Followed, NoneAsked
  <1>4. ASSUME \/ HandleGuildDelete \/ HandleGuildUpdate \/ ConnectionFails \/ UNCHANGED vars
               \/ \E r \in Rpcs : CallerGivesUp(r)
               \/ \E S \in SUBSET Rooms : HoldChannels(S)
               \/ \E c \in Channels : HoldLapses(c)
        PROVE  FlushInv'
    <2>1. UNCHANGED <<outbox, events, session>>
      BY <1>4 DEF HandleGuildDelete, HandleGuildUpdate, ConnectionFails, CallerGivesUp,
                  HoldChannels, HoldLapses, vars, discord, client
    <2> QED
      BY <1>1, <2>1 DEF FlushInv, Waiting, Pending, NoArrival, NoneAsked, Followed, Flushed
  <1> QED
    BY <1>2, <1>3, <1>4, AnswerKeepsFlush, HandleKeepsFlush DEF Environment

\* A join that timed out stays so.
LEMMA LateStays == TypeOK /\ IInv /\ late /\ [Next]_vars => late'
  <1> SUFFICES ASSUME TypeOK, IInv, late, [Next]_vars
               PROVE  late'
    OBVIOUS
  <1>1. ASSUME NEW j \in Jobs, VoiceStep(j)
        PROVE  late'
    BY <1>1 DEF VoiceStep, CheckGrant, TakeSnapshot, CreateJoinSession, SendJoin, SendJoinFails,
           JoinCompletes, JoinTimesOut, PlaySound, PlaySoundFails, MoveUser, MoveUserFails,
           MovesDone, Leave, LeaveFails, ReleaseVoice
  <1>2. ASSUME NEW j \in Jobs, CallerForm(j)
        PROVE  late'
    BY <1>2 DEF CallerForm
  <1>3. ASSUME Environment \/ HandleVoiceState \/ UNCHANGED vars
        PROVE  late'
    BY <1>3, OutsideStepForm DEF OutsideForm
  <1> QED
    BY <1>1, <1>2, <1>3, CallerStepForm DEF Next, AllDone

\* No step of any goroutine or of Discord lets a job go on before it has followed.
LEMMA FlushStep == TypeOK /\ IInv /\ FlushInv /\ [Next]_vars => FlushInv'
  <1> SUFFICES ASSUME TypeOK, IInv, FlushInv, [Next]_vars, ~late'
               PROVE  FlushInv'
    BY DEF FlushInv
  <1>1. ~late
    BY LateStays
  <1> QED
    BY <1>1, VoiceStepKeepsFlush, CallerStepForm, CallerStepKeepsFlush, OutsideStepKeepsFlush
       DEF Next, AllDone

\* So it is in every run.
LEMMA FlushCorrect == Spec => []FlushInv
  <1>1. Init => FlushInv
    BY DEF Init, FlushInv, Waiting, NoneAsked, NoArrival
  <1> QED
    BY <1>1, FlushStep, InvCorrect, PTL DEF Spec

\* A job that followed the people it moved has waited for their events: the next job
\* does not find them where they were.
THEOREM FollowingFlushesMovesCorrect == Spec => []FollowingFlushesMoves
  <1>1. TypeOK /\ IInv /\ FlushInv => FollowingFlushesMoves
    <2> SUFFICES ASSUME TypeOK, IInv, FlushInv, NEW j \in Jobs, pc[j] = "release",
                        err[j] = "none", call[j].stage = "depart", ~late
                 PROVE  Flushed(j)
      BY DEF FollowingFlushesMoves, Flushed
    <2>1. slot = j /\ slot # None
      BY JobAssumption DEF IInv, SlotInv, HoldingLabels
    <2> QED
      BY <2>1 DEF FlushInv, Followed
  <1> QED
    BY <1>1, FlushCorrect, InvCorrect, PTL

-----------------------------------------------------------------------------
(* Where the bot is while a job moves people.                                  *)

\* A job that has its channels joins one of them.
AimInv ==
    /\ \A j \in Jobs \ Sweepers :
         pc[j] \in {"acquiring", "granted", "snapshot"} => call[j].from \in Channels
    /\ \A j \in Jobs :
         pc[j] \in {"create", "send", "await", "sound", "move"} => Target(j) \in Channels

\* The steps of the slot's holder.
LEMMA VoiceStepKeepsAim ==
    ASSUME TypeOK, IInv, FreshInv, AimInv, NEW j \in Jobs, VoiceStep(j)
    PROVE  AimInv'
  <1>1. \A i \in Jobs \ {j} : pc'[i] = pc[i] /\ call'[i] = call[i]
    BY VoiceStepForm
  <1>2. /\ pc[j] \in {"granted", "snapshot", "move"} => call[j].stage = "arrive"
        /\ pc[j] = "snapshot" => j \notin Sweepers
        /\ pc[j] = "create" => ~session.open
        /\ call[j] \in CallRecord
    BY VoiceStepForm DEF IInv, StageInv, SessionInv, SlotInv, FreshInv, TypeOK, HoldingLabels
  <1> SUFFICES /\ pc'[j] = "snapshot" => call'[j].from \in Channels
               /\ pc'[j] \in {"create", "send", "await", "sound", "move"}
                     => Target(j)' \in Channels
               /\ pc'[j] \notin {"acquiring", "granted"}
    BY <1>1 DEF AimInv, Target
  <1> USE <1>2
      DEF TypeOK, AimInv, Target, Goto, Fail, JoinFailed, discord, client, work, locals
  <1>3. CASE CheckGrant(j) \/ TakeSnapshot(j)
    BY <1>3 DEF CheckGrant, TakeSnapshot
  <1>4. CASE CreateJoinSession(j) \/ SendJoin(j) \/ SendJoinFails(j)
    BY <1>4 DEF CreateJoinSession, SendJoin, SendJoinFails
  <1>5. CASE JoinCompletes(j) \/ JoinTimesOut(j)
    BY <1>5 DEF JoinCompletes, JoinTimesOut
  <1>6. CASE PlaySound(j) \/ PlaySoundFails(j)
    BY <1>6 DEF PlaySound, PlaySoundFails
  <1>7. ASSUME NEW u \in Users, MoveUser(j, u) \/ MoveUserFails(j, u)
        PROVE  /\ UNCHANGED call
               /\ pc'[j] = pc[j] \/ pc'[j] = "leave"
               /\ pc[j] = "move"
    BY <1>7 DEF MoveUser, MoveUserFails
  <1>8. CASE MovesDone(j)
    BY <1>8 DEF MovesDone, CallRecord
  <1>9. CASE Leave(j) \/ LeaveFails(j) \/ ReleaseVoice(j)
    BY <1>9 DEF Leave, LeaveFails, ReleaseVoice
  <1> QED
    BY <1>3, <1>4, <1>5, <1>6, <1>7, <1>8, <1>9 DEF VoiceStep

\* The steps of the callers, which choose the channels.
LEMMA CallerStepKeepsAim ==
    ASSUME TypeOK, IInv, AimInv,
           \/ \E j \in Jobs : AcquireVoice(j)
           \/ Starts \/ CheckStep
           \/ \E s \in Sweepers : SweepStep(s)
           \/ \E r \in Rpcs : RpcStep(r)
    PROVE  AimInv'
  <1> USE JobAssumption
      DEF TypeOK, AimInv, Target, Goto, Fail, Call, Outside, Elsewhere, locals, work, Jobs
  <1>1. Office \in Channels /\ Default \in Channels
    BY DEF Channels
  <1>2. ASSUME NEW j \in Jobs, AcquireVoice(j)
        PROVE  AimInv'
    BY <1>2 DEF AcquireVoice
  <1>3. ASSUME NEW k \in Closers, CloseOffice(k)
        PROVE  AimInv'
    BY <1>1, <1>3 DEF CloseOffice
  <1>4. ASSUME NEW s \in Sweepers, SweepStarts(s)
        PROVE  AimInv'
    <2>1. UNCHANGED call /\ (pc' = pc \/ pc' = [pc EXCEPT ![s] = "acquiring"])
      BY <1>4 DEF SweepStarts
    <2> QED
      BY <2>1
  <1>5. ASSUME NEW r \in Rpcs, LookupFails(r) \/ RpcStep(r)
        PROVE  AimInv'
    BY <1>5 DEF LookupFails, RpcStep, AbandonWait, Reply
  <1>6. ASSUME NEW r \in Rpcs, NEW q \in MoveRequests, MoveMembers(r, q)
        PROVE  AimInv'
    <2>1. q.from \in Channels
      BY RequestAssumption
    <2>2. r \notin Sweepers /\ r \in Jobs /\ pc[r] = "idle"
      BY <1>6 DEF MoveMembers
    <2>3. CASE Valid(q)
      <3>1. pc' = [pc EXCEPT ![r] = "acquiring"] /\ call'[r].from = q.from
        BY <1>6, <2>2, <2>3 DEF MoveMembers
      <3>2. \A i \in Jobs \ {r} : call'[i] = call[i]
        BY <1>6, <2>3 DEF MoveMembers
      <3> QED
        BY <2>1, <2>2, <3>1, <3>2
    <2>4. CASE ~Valid(q)
      <3>1. pc' = [pc EXCEPT ![r] = "done"] /\ UNCHANGED call
        BY <1>6, <2>4 DEF MoveMembers
      <3> QED
        BY <2>2, <3>1
    <2> QED
      BY <2>3, <2>4
  <1>7. CASE CheckSkipped \/ CheckBegins
    BY <1>7 DEF CheckSkipped, CheckBegins
  <1>8. CASE CheckContinues \/ CheckEnds
    BY <1>8 DEF CheckContinues, CheckEnds
  <1>9. ASSUME NEW c \in Channels, CheckRoom(c)
        PROVE  AimInv'
    BY <1>9 DEF CheckRoom
  <1>10. ASSUME NEW s \in Sweepers, SweepStep(s)
         PROVE  AimInv'
    <2>1. call[s].stage = "arrive" /\ call[s] \in CallRecord
      BY DEF IInv, StageInv
    <2> QED
      BY <1>10, <2>1 DEF SweepStep, SweepLookupFails, SweepPicks, CallRecord
  <1> QED
    BY <1>2, <1>3, <1>4, <1>5, <1>6, <1>7, <1>8, <1>9, <1>10 DEF Starts, CheckStep

\* So every job with the slot joins a channel.
LEMMA AimCorrect == Spec => []AimInv
  <1>1. Init => AimInv
    BY DEF Init, AimInv
  <1>2. TypeOK /\ IInv /\ CourseInv /\ AimInv /\ [Next]_vars => AimInv'
    <2> SUFFICES ASSUME TypeOK, IInv, CourseInv, AimInv, [Next]_vars
                 PROVE  AimInv'
      OBVIOUS
    <2>1. ASSUME Environment \/ HandleVoiceState \/ UNCHANGED vars
          PROVE  AimInv'
      BY <2>1, OutsideStepForm DEF OutsideForm, AimInv, Target, Jobs
    <2> QED
      BY <2>1, VoiceStepKeepsAim, CallerStepKeepsAim DEF Next, AllDone, CourseInv
  <1> QED
    BY <1>1, <1>2, InvCorrect, CourseCorrect, PTL DEF Spec

\* While a job plays sounds and moves people, the bot is or will be where that job
\* joined: no late Leave or join of another takes it away; and it is there already
\* unless a join has timed out before.
THEOREM HolderDirectsBotCorrect == Spec => []HolderDirectsBot
  <1>1. TypeOK /\ IInv /\ CourseInv /\ FlushInv /\ AimInv => HolderDirectsBot
    <2> SUFFICES ASSUME TypeOK, IInv, CourseInv, FlushInv, AimInv, NEW j \in Jobs,
                        pc[j] \in {"sound", "move"}, ~lost
                 PROVE  /\ Destination = Target(j)
                        /\ ~late => place[Bot] = Target(j)
      BY DEF HolderDirectsBot
    <2>1. Destination = Target(j) /\ Target(j) # None
      BY ChannelAssumption DEF CourseInv, SteerInv, Steered, AimInv
    <2>2. slot = j
      BY DEF IInv, SlotInv, HoldingLabels, UsingLabels
    <2>3. ASSUME ~late
          PROVE  outbox = <<>>
      <3>1. NoneAsked
        BY <2>2, <2>3 DEF FlushInv, Waiting
      <3>2. outbox # <<>> => Len(outbox) \in 1 .. Len(outbox)
        <4>1. outbox \in Seq(Channels \cup {None})
          BY DEF TypeOK
        <4> QED
          BY <4>1, EmptySeq
      <3> QED
        BY <2>1, <3>1, <3>2 DEF NoneAsked, Destination
    <2> QED
      BY <2>1, <2>3 DEF Destination
  <1> QED
    BY <1>1, InvCorrect, CourseCorrect, FlushCorrect, AimCorrect, PTL
=============================================================================
