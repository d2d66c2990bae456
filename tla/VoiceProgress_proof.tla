------------------------- MODULE VoiceProgress_proof -------------------------
(* Theorems about VoiceJobs: every job gets on, and gives the slot back.  With *)
(* fairness this is why calls are answered and checks end; here it is shown    *)
(* without, for any number of rooms, people and jobs.                          *)
EXTENDS VoiceCourse_proof

-----------------------------------------------------------------------------
(* The rooms of a check and of a sweep.                                        *)

\* A check never goes through the office, and a sweep has a channel to choose.
RoomsInv ==
    /\ Office \notin rooms[Checker]
    /\ \A s \in Sweepers : pc[s] \in {"acquiring", "granted"} => rooms[s] # {}

\* No step of Discord, of the event loop or of the slot's holder changes them.
LEMMA RoomsFrame ==
    ASSUME TypeOK,
           \/ Environment \/ HandleVoiceState \/ UNCHANGED vars
           \/ \E j \in Jobs : VoiceStep(j) \/ AcquireVoice(j)
    PROVE  UNCHANGED rooms
  <1>1. CASE Environment \/ HandleVoiceState \/ UNCHANGED vars
    BY <1>1 DEF Environment, HandleVoiceState, vars, work, ProcessVoiceCommand,
           LoseVoiceCommand, UserMoves, CallerGivesUp, HoldChannels, HoldLapses,
           HandleGuildDelete, HandleGuildUpdate, ConnectionFails
  <1>2. ASSUME NEW j \in Jobs, VoiceStep(j) \/ AcquireVoice(j)
        PROVE  UNCHANGED rooms
    BY <1>2 DEF VoiceStep, AcquireVoice, CheckGrant, TakeSnapshot,
           CreateJoinSession, SendJoin, SendJoinFails, JoinCompletes, JoinTimesOut, PlaySound,
           PlaySoundFails, MoveUser, MoveUserFails, MovesDone, Leave, LeaveFails, ReleaseVoice,
           locals, work
  <1> QED
    BY <1>1, <1>2

\* No step fills a check's rooms with the office or leaves a sweep without a choice.
LEMMA RoomsStep == TypeOK /\ IInv /\ RoomsInv /\ [Next]_vars => RoomsInv'
  <1> SUFFICES ASSUME TypeOK, IInv, RoomsInv, [Next]_vars
               PROVE  RoomsInv'
    OBVIOUS
  <1> USE JobAssumption
      DEF RoomsInv, TypeOK, Goto, Fail, Call, Outside, Elsewhere, locals, work, Jobs
  <1>1. ASSUME Environment \/ HandleVoiceState \/ UNCHANGED vars
        PROVE  RoomsInv'
    <2>1. UNCHANGED rooms /\ OutsideForm
      BY <1>1, RoomsFrame, OutsideStepForm
    <2> QED
      BY <2>1 DEF OutsideForm
  <1>2. ASSUME NEW j \in Jobs, VoiceStep(j)
        PROVE  RoomsInv'
    <2>1. /\ UNCHANGED rooms
          /\ \A i \in Jobs \ {j} : pc'[i] = pc[i]
      BY <1>2, RoomsFrame, VoiceStepForm
    <2>2. pc'[j] \notin {"acquiring", "granted"}
      BY <1>2 DEF VoiceStep, CheckGrant, TakeSnapshot, JoinFailed,
           CreateJoinSession, SendJoin, SendJoinFails, JoinCompletes, JoinTimesOut, PlaySound,
           PlaySoundFails, MoveUser, MoveUserFails, MovesDone, Leave, LeaveFails, ReleaseVoice
    <2> QED
      BY <2>1, <2>2
  <1>3. ASSUME NEW j \in Jobs, AcquireVoice(j)
        PROVE  RoomsInv'
    BY <1>3 DEF AcquireVoice
  <1>4. CASE CheckStep
    <2>1. ASSUME NEW c \in Channels, CheckRoom(c)
          PROVE  RoomsInv'
      BY <2>1 DEF CheckRoom
    <2>2. CASE CheckBegins
      BY <2>2 DEF CheckBegins
    <2>3. CASE CheckSkipped \/ CheckContinues \/ CheckEnds
      BY <2>3 DEF CheckSkipped, CheckContinues, CheckEnds
    <2> QED
      BY <1>4, <2>1, <2>2, <2>3 DEF CheckStep
  <1>5. ASSUME NEW k \in Closers, CloseOffice(k)
        PROVE  RoomsInv'
    BY <1>5 DEF CloseOffice
  <1>6. ASSUME NEW s \in Sweepers, SweepStarts(s)
        PROVE  RoomsInv'
    <2>1. Channels # {} /\ s # Checker
      BY DEF Channels
    <2>2. CASE guildKnown
      <3>1. rooms'[s] # {} /\ \A i \in Jobs \ {s} : rooms'[i] = rooms[i] /\ pc'[i] = pc[i]
        <4>1. PICK S : S # {} /\ rooms' = [rooms EXCEPT ![s] = S]
          BY <1>6, <2>1, <2>2, Zenon DEF SweepStarts
        <4>2. pc' = [pc EXCEPT ![s] = "acquiring"]
          BY <1>6, <2>2 DEF SweepStarts
        <4> QED
          BY <4>1, <4>2
      <3> QED
        BY <2>1, <3>1
    <2>3. CASE ~guildKnown
      BY <1>6, <2>3 DEF SweepStarts
    <2> QED
      BY <2>2, <2>3
  <1>7. ASSUME NEW s \in Sweepers, SweepStep(s)
        PROVE  RoomsInv'
    BY <1>7 DEF SweepStep, SweepLookupFails, SweepPicks
  <1>8. ASSUME NEW r \in Rpcs, LookupFails(r) \/ RpcStep(r)
        PROVE  RoomsInv'
    BY <1>8 DEF LookupFails, RpcStep, AbandonWait, Reply
  <1>9. ASSUME NEW r \in Rpcs, NEW q \in MoveRequests, MoveMembers(r, q)
        PROVE  RoomsInv'
    <2>1. UNCHANGED rooms /\ \A i \in Jobs \ {r} : pc'[i] = pc[i]
      <3>1. CASE Valid(q)
        BY <1>9, <3>1 DEF MoveMembers
      <3>2. CASE ~Valid(q)
        BY <1>9, <3>2 DEF MoveMembers
      <3> QED
        BY <3>1, <3>2
    <2>2. r \notin Sweepers
      OBVIOUS
    <2> QED
      BY <2>1, <2>2
  <1> QED
    BY <1>1, <1>2, <1>3, <1>4, <1>5, <1>6, <1>7, <1>8, <1>9 DEF Next, AllDone, Starts

\* A check passes over the office and a sweep always has a channel to choose.
THEOREM RoomsCorrect == Spec => []RoomsInv
  <1>1. Init => RoomsInv
    BY JobAssumption DEF Init, RoomsInv, Jobs
  <1> QED
    BY <1>1, RoomsStep, InvCorrect, PTL DEF Spec

\* The slot's holder is a job that has not returned and has a step to take.
THEOREM HolderGoesOnCorrect == Spec => []HolderGoesOn
  <1>1. TypeOK /\ IInv /\ RoomsInv => HolderGoesOn
    BY DEF TypeOK, IInv, SlotInv, RoomsInv, HolderGoesOn
  <1> QED
    BY <1>1, InvCorrect, RoomsCorrect, PTL

-----------------------------------------------------------------------------
(* A job's own steps.                                                          *)

\* The order in which a job does things, as numbers.
LEMMA StagesLeftNat ==
    ASSUME TypeOK, NEW j \in Jobs
    PROVE  StagesLeft(j) \in Nat /\ Joining(j) \in {0, 5}
  BY DEF StagesLeft, Joining

\* The stage of a job is the next one down.
LEMMA HolderAdvances ==
    ASSUME TypeOK, IInv, NEW j \in Jobs, VoiceStep(j)
    PROVE  Advances(j)
  <1>1. UNCHANGED rooms /\ pc[j] # "check"
    BY RoomsFrame, VoiceStepForm DEF IInv, SlotInv, HoldingLabels, UsingLabels
  <1>2. pc'[j] # "check" => RoomsLeft(j)' = RoomsLeft(j)
    BY <1>1 DEF RoomsLeft
  <1>3. call[j] \in CallRecord /\ call[j].stage \in {"arrive", "depart"}
        /\ Joining(j) \in {0, 5} /\ Joining(j)' \in {0, 5}
    BY DEF TypeOK, CallRecord, Joining
  <1> DEFINE Down == pc'[j] # "check" /\ StagesLeft(j)' < StagesLeft(j)
  <1>4. Down => Advances(j)
    BY <1>2 DEF Advances
  <1> USE <1>3
      DEF TypeOK, Goto, Fail, JoinFailed, locals, work, StagesLeft, Joining
  <1>5. CASE CheckGrant(j) \/ TakeSnapshot(j)
    <2>1. Down
      BY <1>5 DEF CheckGrant, TakeSnapshot
    <2> QED
      BY <1>4, <2>1
  <1>6. CASE CreateJoinSession(j) \/ SendJoin(j) \/ SendJoinFails(j)
    <2>1. Down
      BY <1>6 DEF CreateJoinSession, SendJoin, SendJoinFails
    <2> QED
      BY <1>4, <2>1
  <1>7. CASE JoinCompletes(j) \/ JoinTimesOut(j)
    <2>1. Down
      BY <1>7 DEF JoinCompletes, JoinTimesOut
    <2> QED
      BY <1>4, <2>1
  <1>8. CASE PlaySound(j) \/ PlaySoundFails(j)
    <2>1. Down
      BY <1>8 DEF PlaySound, PlaySoundFails
    <2> QED
      BY <1>4, <2>1
  <1>9. ASSUME NEW u \in Users, MoveUser(j, u)
        PROVE  Advances(j)
    <2>1. UNCHANGED <<pc, targets>> /\ pc[j] = "move"
          /\ u \in PeopleLeft(j) /\ PeopleLeft(j)' = PeopleLeft(j) \ {u}
      BY <1>9 DEF MoveUser, PeopleLeft
    <2>2. StagesLeft(j)' = StagesLeft(j) /\ Shrinks(PeopleLeft(j), PeopleLeft(j)')
      BY <2>1 DEF Shrinks
    <2> QED
      BY <1>2, <2>1, <2>2 DEF Advances
  <1>10. ASSUME NEW u \in Users, MoveUserFails(j, u)
         PROVE  Advances(j)
    <2>1. Down
      BY <1>10 DEF MoveUserFails
    <2> QED
      BY <1>4, <2>1
  <1>11. CASE MovesDone(j)
    <2>1. pc[j] = "move" /\ (pc'[j] = "leave" \/ (pc'[j] = "create" /\ call'[j].stage = "depart"))
      BY <1>11 DEF MovesDone, CallRecord
    <2>2. Down
      BY <2>1
    <2> QED
      BY <1>4, <2>2
  <1>12. CASE Leave(j) \/ LeaveFails(j) \/ ReleaseVoice(j)
    <2>1. Down
      BY <1>12 DEF Leave, LeaveFails, ReleaseVoice
    <2> QED
      BY <1>4, <2>1
  <1> QED
    BY <1>5, <1>6, <1>7, <1>8, <1>9, <1>10, <1>11, <1>12 DEF VoiceStep

\* Each of a job's steps leaves it less to do.
LEMMA JobStepAdvances ==
    ASSUME TypeOK, IInv, RoomsInv, NEW j \in Jobs, JobStep(j)
    PROVE  Advances(j)
  <1> USE JobAssumption DEF TypeOK, Goto, Fail, Advances, Shrinks, RoomsLeft, locals, work
  <1>1. CASE AcquireVoice(j)
    <2>1. pc[j] = "acquiring" /\ pc'[j] = "granted" /\ UNCHANGED rooms
      BY <1>1 DEF AcquireVoice
    <2> QED
      BY <2>1 DEF StagesLeft
  <1>2. CASE VoiceStep(j)
    BY <1>2, HolderAdvances
  <1>3. CASE j = Checker /\ CheckSkipped
    <2>1. pc[j] = "check" /\ pc'[j] = "idle" /\ rooms'[j] = rooms[j]
      BY <1>3 DEF CheckSkipped
    <2>2. Office \in Channels /\ Office \notin rooms[j] /\ rooms[j] \subseteq Channels
      BY <1>3 DEF RoomsInv, Channels
    <2> QED
      BY <2>1, <2>2
  <1>4. CASE j = Checker /\ CheckBegins
    <2>1. pc[j] = "check" /\ pc'[j] = "rooms" /\ rooms'[j] = Channels \ {Office}
      BY <1>4 DEF CheckBegins
    <2> QED
      BY <2>1 DEF Channels
  <1>5. CASE j = Checker /\ CheckContinues
    <2>1. pc[j] = "done" /\ pc'[j] \in {"rooms", "idle"} /\ rooms'[j] = rooms[j]
          /\ j \notin Rpcs
      BY <1>5 DEF CheckContinues
    <2> QED
      BY <2>1 DEF StagesLeft
  <1>6. CASE j = Checker /\ CheckEnds
    <2>1. pc[j] = "rooms" /\ pc'[j] = "idle" /\ rooms'[j] = rooms[j]
      BY <1>6 DEF CheckEnds
    <2> QED
      BY <2>1 DEF StagesLeft
  <1>7. ASSUME j = Checker, NEW c \in Channels, CheckRoom(c)
        PROVE  Advances(j)
    <2>1. pc[j] = "rooms" /\ pc'[j] \in {"rooms", "acquiring"}
          /\ c \in rooms[j] /\ rooms'[j] = rooms[j] \ {c}
      BY <1>7 DEF CheckRoom, Call
    <2> QED
      BY <2>1
  <1>8. CASE j \in Sweepers /\ SweepStep(j)
    <2>1. pc[j] = "granted" /\ pc'[j] \in {"create", "release"} /\ rooms'[j] = rooms[j]
      BY <1>8 DEF SweepStep, SweepLookupFails, SweepPicks
    <2>2. Joining(j)' \in {0, 5}
      BY DEF Joining
    <2> QED
      BY <2>1, <2>2 DEF StagesLeft
  <1>9. CASE j \in Rpcs /\ AbandonWait(j)
    <2>1. pc[j] = "acquiring" /\ pc'[j] = "done" /\ rooms'[j] = rooms[j]
      BY <1>9 DEF AbandonWait
    <2> QED
      BY <2>1 DEF StagesLeft
  <1>10. CASE j \in Rpcs /\ Reply(j)
    <2>1. pc[j] = "done" /\ pc'[j] = "done" /\ rooms'[j] = rooms[j]
          /\ reply[j] = "none" /\ reply'[j] # "none"
      BY <1>10 DEF Reply
    <2> QED
      BY <1>10, <2>1 DEF StagesLeft
  <1> QED
    BY <1>1, <1>2, <1>3, <1>4, <1>5, <1>6, <1>7, <1>8, <1>9, <1>10
       DEF JobStep, CheckStep, RpcStep

-----------------------------------------------------------------------------
(* Everybody else's steps.                                                     *)

\* What a job has to do depends on its own locals only.
LEMMA RemainingFrame ==
    ASSUME NEW j \in Jobs, pc'[j] = pc[j], call'[j] = call[j], rooms'[j] = rooms[j],
           targets'[j] = targets[j], moved'[j] = moved[j], j \in Rpcs => reply'[j] = reply[j]
    PROVE  Remaining(j)' = Remaining(j)
  <1>1. RoomsLeft(j)' = RoomsLeft(j) /\ PeopleLeft(j)' = PeopleLeft(j)
    BY DEF RoomsLeft, PeopleLeft
  <1>2. Joining(j)' = Joining(j)
    BY DEF Joining
  <1>3. StagesLeft(j)' = StagesLeft(j)
    BY <1>2 DEF StagesLeft
  <1> QED
    BY <1>1, <1>3 DEF Remaining

\* A step that is not the job's does not touch it.
LEMMA OthersLeaveRemaining ==
    ASSUME TypeOK, IInv, [Next]_vars, NEW j \in Jobs, pc[j] # "idle", ~JobStep(j)
    PROVE  Remaining(j)' = Remaining(j)
  <1> DEFINE Same ==
        /\ pc'[j] = pc[j] /\ call'[j] = call[j] /\ rooms'[j] = rooms[j]
        /\ targets'[j] = targets[j] /\ moved'[j] = moved[j]
        /\ j \in Rpcs => reply'[j] = reply[j]
  <1> SUFFICES Same
    BY RemainingFrame
  <1> USE JobAssumption
      DEF TypeOK, Goto, Fail, Call, Outside, Elsewhere, locals, discord, work, Jobs
  <1>1. ASSUME Environment \/ HandleVoiceState \/ UNCHANGED vars
        PROVE  Same
    <2>1. UNCHANGED rooms /\ OutsideForm
      BY <1>1, RoomsFrame, OutsideStepForm
    <2> QED
      BY <2>1 DEF OutsideForm
  <1>2. ASSUME NEW i \in Jobs, VoiceStep(i)
        PROVE  Same
    <2>1. i # j
      BY <1>2 DEF JobStep
    <2> QED
      BY <1>2, <2>1, RoomsFrame, VoiceStepForm
  <1>3. ASSUME NEW i \in Jobs, AcquireVoice(i)
        PROVE  Same
    <2>1. i # j
      BY <1>3 DEF JobStep
    <2> QED
      BY <1>3, <2>1 DEF AcquireVoice
  <1>4. CASE CheckStep
    <2>1. j # Checker
      BY <1>4 DEF JobStep
    <2>2. ASSUME NEW c \in Channels, CheckRoom(c)
          PROVE  Same
      BY <2>1, <2>2 DEF CheckRoom
    <2>3. CASE CheckSkipped \/ CheckBegins
      BY <2>1, <2>3 DEF CheckSkipped, CheckBegins
    <2>4. CASE CheckContinues \/ CheckEnds
      BY <2>1, <2>4 DEF CheckContinues, CheckEnds
    <2> QED
      BY <1>4, <2>2, <2>3, <2>4 DEF CheckStep
  <1>5. ASSUME NEW k \in Closers, CloseOffice(k)
        PROVE  Same
    BY <1>5 DEF CloseOffice
  <1>6. ASSUME NEW s \in Sweepers, SweepStarts(s)
        PROVE  Same
    BY <1>6 DEF SweepStarts
  <1>7. ASSUME NEW s \in Sweepers, SweepStep(s)
        PROVE  Same
    <2>1. s # j
      BY <1>7 DEF JobStep
    <2> QED
      BY <1>7, <2>1 DEF SweepStep, SweepLookupFails, SweepPicks
  <1>8. ASSUME NEW r \in Rpcs, LookupFails(r)
        PROVE  Same
    BY <1>8 DEF LookupFails
  <1>9. ASSUME NEW r \in Rpcs, RpcStep(r)
        PROVE  Same
    <2>1. r # j
      BY <1>9 DEF JobStep
    <2> QED
      BY <1>9, <2>1 DEF RpcStep, AbandonWait, Reply
  <1>10. ASSUME NEW r \in Rpcs, NEW q \in MoveRequests, MoveMembers(r, q)
         PROVE  Same
    BY <1>10 DEF MoveMembers
  <1> HIDE DEF Same
  <1> QED
    BY <1>1, <1>2, <1>3, <1>4, <1>5, <1>6, <1>7, <1>8, <1>9, <1>10 DEF Next, AllDone, Starts

\* Every job gets on by its own steps, and no other step throws it back: a job takes
\* only so many steps as there are rooms, stages and people.
THEOREM EveryJobAdvancesCorrect == Spec => EveryJobAdvances
  <1>1. TypeOK /\ IInv /\ RoomsInv /\ [Next]_vars
          => [\A j \in Jobs :
                /\ JobStep(j) => Advances(j)
                /\ pc[j] # "idle" /\ ~JobStep(j) => Remaining(j)' = Remaining(j)]_vars
    BY JobStepAdvances, OthersLeaveRemaining
  <1> QED
    BY <1>1, InvCorrect, RoomsCorrect, PTL DEF Spec, EveryJobAdvances
=============================================================================
