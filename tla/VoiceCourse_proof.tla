-------------------------- MODULE VoiceCourse_proof --------------------------
(* Theorems about VoiceJobs: where the bot's commands take it, and what        *)
(* Discord's events leave in the cache.                                        *)
EXTENDS VoiceJobs_proof, SequenceTheorems

-----------------------------------------------------------------------------
(* Queues.                                                                     *)

\* What a queue is after something joined its end.
LEMMA AppendFacts ==
    ASSUME NEW S, NEW q \in Seq(S), NEW e \in S
    PROVE  /\ Append(q, e) # <<>> /\ Len(Append(q, e)) = Len(q) + 1
           /\ Len(q) \in Nat
           /\ \A i \in 1 .. Len(q) : Append(q, e)[i] = q[i]
           /\ Append(q, e)[Len(q) + 1] = e
  OBVIOUS

\* What a queue is after its head was taken.
LEMMA TailFacts ==
    ASSUME NEW S, NEW q \in Seq(S), q # <<>>
    PROVE  /\ Len(q) \in Nat \ {0} /\ Head(q) = q[1]
           /\ Tail(q) \in Seq(S) /\ Len(Tail(q)) = Len(q) - 1
           /\ \A i \in 1 .. Len(q) - 1 : Tail(q)[i] = q[i + 1]
           /\ Tail(q) = <<>> <=> Len(q) = 1
  <1>1. Len(q) \in Nat \ {0}
    OBVIOUS
  <1>2. Head(q) = q[1] /\ Tail(q) \in Seq(S) /\ Len(Tail(q)) = Len(q) - 1
    OBVIOUS
  <1>3. \A i \in 1 .. Len(q) - 1 : Tail(q)[i] = q[i + 1]
    OBVIOUS
  <1>4. Len(<<>>) = 0 /\ (Tail(q) # <<>> => Len(Tail(q)) \in Nat \ {0})
    BY <1>2, EmptySeq, Zenon
  <1>5. Tail(q) = <<>> => Len(Tail(q)) = 0
    BY <1>4, Zenon
  <1>6. Tail(q) = <<>> <=> Len(q) = 1
    <2> DEFINE empty == Tail(q) = <<>>
               n == Len(Tail(q))
    <2>1. (empty => n = 0) /\ (~empty => n \in Nat \ {0}) /\ n = Len(q) - 1
      BY <1>2, <1>4, <1>5
    <2> HIDE DEF empty, n
    <2>2. empty <=> Len(q) = 1
      BY <1>1, <2>1
    <2> QED
      BY <2>2 DEF empty
  <1> QED
    BY <1>1, <1>2, <1>3, <1>6

-----------------------------------------------------------------------------
(* What the steps of the callers and of the slot's holder have in common.      *)

\* A step of a caller is none of the bot's: a job gets the slot, a sweep with the
\* slot chooses its channel or cannot, or a job without the slot goes on.
CallerForm(j) ==
    /\ UNCHANGED <<place, outbox, events, cache, guildKnown, session, late, lost>>
    /\ \A i \in Jobs \ {j} :
         /\ pc'[i] = pc[i] /\ call'[i] = call[i] /\ err'[i] = err[i]
         /\ targets'[i] = targets[i]
    /\ \/ /\ slot = None /\ slot' = j
          /\ pc[j] = "acquiring" /\ pc'[j] = "granted"
          /\ targets'[j] = targets[j] /\ call'[j] = call[j]
       \/ /\ UNCHANGED slot /\ j \in Sweepers
          /\ pc[j] = "granted" /\ pc'[j] = "create"
          /\ call'[j].stage = "arrive"
       \/ /\ UNCHANGED slot /\ j \in Sweepers
          /\ pc[j] = "granted" /\ pc'[j] = "release" /\ err'[j] = "lookup"
       \/ /\ UNCHANGED slot
          /\ pc[j] \notin HoldingLabels /\ pc'[j] \notin HoldingLabels
          /\ pc'[j] = "acquiring" /\ j \notin Sweepers => targets'[j] = {}

\* Calling moveSomeUsers is of that form.
LEMMA CallForm ==
    ASSUME TypeOK, NEW j \in Jobs, pc[j] \notin HoldingLabels,
           NEW from, NEW to, NEW only, Call(j, from, to, only),
           UNCHANGED Outside
    PROVE  CallerForm(j)
  BY DEF TypeOK, Call, Goto, CallerForm, Outside, client, HoldingLabels, UsingLabels

\* So is every step of a caller.
LEMMA CallerStepForm ==
    ASSUME TypeOK, IInv,
           \/ \E j \in Jobs : AcquireVoice(j)
           \/ Starts \/ CheckStep
           \/ \E s \in Sweepers : SweepStep(s)
           \/ \E r \in Rpcs : RpcStep(r)
    PROVE  \E j \in Jobs : CallerForm(j)
  <1> USE JobAssumption
      DEF TypeOK, CallerForm, HoldingLabels, UsingLabels, Goto, Fail, Outside, Elsewhere, locals,
          discord, client, work, Jobs
  <1>1. ASSUME NEW i \in Jobs, AcquireVoice(i)
        PROVE  \E j \in Jobs : CallerForm(j)
    BY <1>1 DEF AcquireVoice
  <1>2. ASSUME NEW k \in Closers, CloseOffice(k)
        PROVE  \E j \in Jobs : CallerForm(j)
    <2>1. CASE guildKnown
      BY <1>2, <2>1, CallForm DEF CloseOffice
    <2>2. CASE ~guildKnown
      BY <1>2, <2>2 DEF CloseOffice
    <2> QED
      BY <2>1, <2>2
  <1>3. ASSUME NEW s \in Sweepers, SweepStarts(s)
        PROVE  \E j \in Jobs : CallerForm(j)
    <2>1. /\ s \in Jobs /\ s \in Sweepers /\ pc[s] = "idle"
          /\ pc' = [pc EXCEPT ![s] = "acquiring"] \/ pc' = pc
          /\ UNCHANGED <<Outside, call, targets, err>>
      BY <1>3 DEF SweepStarts
    <2> QED
      BY <2>1
  <1>4. ASSUME NEW r \in Rpcs, LookupFails(r)
        PROVE  \E j \in Jobs : CallerForm(j)
    BY <1>4 DEF LookupFails
  <1>5. ASSUME NEW r \in Rpcs, NEW q \in MoveRequests, MoveMembers(r, q)
        PROVE  \E j \in Jobs : CallerForm(j)
    <2>1. CASE Valid(q)
      BY <1>5, <2>1, CallForm DEF MoveMembers
    <2>2. CASE ~Valid(q)
      <3>1. r \in Jobs /\ pc[r] = "idle" /\ pc' = [pc EXCEPT ![r] = "done"]
            /\ UNCHANGED <<Outside, call, targets, err>>
        BY <1>5, <2>2 DEF MoveMembers
      <3> QED
        BY <3>1
    <2> QED
      BY <2>1, <2>2
  <1>6. CASE CheckSkipped
    BY <1>6 DEF CheckSkipped
  <1>7. CASE CheckBegins
    BY <1>7 DEF CheckBegins
  <1>8. CASE CheckContinues
    BY <1>8 DEF CheckContinues
  <1>9. CASE CheckEnds
    BY <1>9 DEF CheckEnds
  <1>10. ASSUME NEW c \in Channels, CheckRoom(c)
         PROVE  \E j \in Jobs : CallerForm(j)
    <2>1. CASE c \notin held
      BY <1>10, <2>1, CallForm DEF CheckRoom
    <2>2. CASE c \in held
      BY <1>10, <2>2 DEF CheckRoom
    <2> QED
      BY <2>1, <2>2
  <1>11. ASSUME NEW s \in Sweepers, SweepLookupFails(s)
         PROVE  \E j \in Jobs : CallerForm(j)
    BY <1>11 DEF SweepLookupFails
  <1>12. ASSUME NEW s \in Sweepers, NEW c \in Channels, SweepPicks(s, c)
         PROVE  \E j \in Jobs : CallerForm(j)
    <2>1. call[s].stage = "arrive" /\ call[s] \in CallRecord
      BY DEF IInv, StageInv
    <2>2. call'[s].stage = "arrive" /\ \A i \in Jobs \ {s} : call'[i] = call[i]
      BY <1>12, <2>1 DEF SweepPicks, CallRecord
    <2> QED
      BY <1>12, <2>2 DEF SweepPicks
  <1>13. ASSUME NEW r \in Rpcs, AbandonWait(r)
         PROVE  \E j \in Jobs : CallerForm(j)
    BY <1>13 DEF AbandonWait
  <1>14. ASSUME NEW r \in Rpcs, Reply(r)
         PROVE  \E j \in Jobs : CallerForm(j)
    BY <1>14 DEF Reply
  <1> QED
    BY <1>1, <1>2, <1>3, <1>4, <1>5, <1>6, <1>7, <1>8, <1>9, <1>10, <1>11, <1>12, <1>13,
       <1>14 DEF Starts, CheckStep, SweepStep, RpcStep

\* A step of Discord, of the people in it or of the event loop leaves the jobs
\* where they are, but it may start a check.
OutsideForm ==
    /\ UNCHANGED <<slot, call, err, targets, moved, displaced, reply, late>>
    /\ \A j \in Jobs : pc'[j] = pc[j] \/ (pc[j] = "idle" /\ pc'[j] = "check" /\ j = Checker)
    /\ UNCHANGED lost \/ lost'

\* That is so of each of them.
LEMMA OutsideStepForm ==
    ASSUME TypeOK, Environment \/ HandleVoiceState \/ UNCHANGED vars
    PROVE  OutsideForm
  <1> USE DEF TypeOK, OutsideForm, discord, client, work, rpc, grant, budget
  <1>1. CASE HandleVoiceState
    BY <1>1 DEF HandleVoiceState, Jobs
  <1>2. CASE ProcessVoiceCommand
    BY <1>2 DEF ProcessVoiceCommand
  <1>3. CASE LoseVoiceCommand
    BY <1>3 DEF LoseVoiceCommand
  <1>4. ASSUME NEW u \in Users, NEW c \in Channels \cup {None}, UserMoves(u, c)
        PROVE  OutsideForm
    BY <1>4 DEF UserMoves
  <1>5. ASSUME NEW r \in Rpcs, CallerGivesUp(r)
        PROVE  OutsideForm
    BY <1>5 DEF CallerGivesUp
  <1>6. ASSUME NEW S \in SUBSET Rooms, HoldChannels(S)
        PROVE  OutsideForm
    BY <1>6 DEF HoldChannels
  <1>7. ASSUME NEW c \in Channels, HoldLapses(c)
        PROVE  OutsideForm
    BY <1>7 DEF HoldLapses
  <1>8. CASE HandleGuildDelete
    BY <1>8 DEF HandleGuildDelete
  <1>9. CASE HandleGuildUpdate
    BY <1>9 DEF HandleGuildUpdate
  <1>10. CASE ConnectionFails
    BY <1>10 DEF ConnectionFails
  <1>11. CASE UNCHANGED vars
    BY <1>11 DEF vars
  <1> QED
    BY <1>1, <1>2, <1>3, <1>4, <1>5, <1>6, <1>7, <1>8, <1>9, <1>10, <1>11 DEF Environment

\* The slot's holder goes on; no other job does.
LEMMA VoiceStepForm ==
    ASSUME TypeOK, IInv, NEW j \in Jobs, VoiceStep(j)
    PROVE  /\ slot = j
           /\ \A i \in Jobs \ {j} :
                /\ pc[i] \notin HoldingLabels
                /\ pc'[i] = pc[i] /\ call'[i] = call[i] /\ err'[i] = err[i]
                /\ targets'[i] = targets[i] /\ moved'[i] = moved[i]
                /\ displaced'[i] = displaced[i]
           /\ UNCHANGED reply
  <1>1. slot = j
    BY DEF VoiceStep, IInv, SlotInv, HoldingLabels, UsingLabels, CheckGrant, TakeSnapshot,
           CreateJoinSession, SendJoin, SendJoinFails, JoinCompletes, JoinTimesOut, PlaySound,
           PlaySoundFails, MoveUser, MoveUserFails, MovesDone, Leave, LeaveFails, ReleaseVoice
  <1>2. \A i \in Jobs \ {j} : pc[i] \notin HoldingLabels
    BY <1>1 DEF IInv, SlotInv
  <1>3. UNCHANGED reply
    BY DEF VoiceStep, CheckGrant, TakeSnapshot,
           CreateJoinSession, SendJoin, SendJoinFails, JoinCompletes, JoinTimesOut, PlaySound,
           PlaySoundFails, MoveUser, MoveUserFails, MovesDone, Leave, LeaveFails, ReleaseVoice,
           Elsewhere
  <1>4. \A i \in Jobs \ {j} :
                /\ pc'[i] = pc[i] /\ call'[i] = call[i] /\ err'[i] = err[i]
                /\ targets'[i] = targets[i] /\ moved'[i] = moved[i]
                /\ displaced'[i] = displaced[i]
    <2> USE DEF TypeOK, Goto, Fail, JoinFailed, locals, discord, client, work, Displace
    <2>1. CASE CheckGrant(j) \/ TakeSnapshot(j)
      BY <2>1 DEF CheckGrant, TakeSnapshot
    <2>2. CASE CreateJoinSession(j) \/ SendJoin(j) \/ SendJoinFails(j)
      BY <2>2 DEF CreateJoinSession, SendJoin, SendJoinFails
    <2>3. CASE JoinCompletes(j) \/ JoinTimesOut(j)
      BY <2>3 DEF JoinCompletes, JoinTimesOut
    <2>4. CASE PlaySound(j) \/ PlaySoundFails(j)
      BY <2>4 DEF PlaySound, PlaySoundFails
    <2>5. ASSUME NEW u \in Users, MoveUser(j, u) \/ MoveUserFails(j, u)
          PROVE  \A i \in Jobs \ {j} :
                    /\ pc'[i] = pc[i] /\ call'[i] = call[i] /\ err'[i] = err[i]
                    /\ targets'[i] = targets[i] /\ moved'[i] = moved[i]
                    /\ displaced'[i] = displaced[i]
      BY <2>5 DEF MoveUser, MoveUserFails
    <2>6. CASE MovesDone(j)
      BY <2>6 DEF MovesDone
    <2>7. CASE Leave(j) \/ LeaveFails(j) \/ ReleaseVoice(j)
      BY <2>7 DEF Leave, LeaveFails, ReleaseVoice
    <2> QED
      BY <2>1, <2>2, <2>3, <2>4, <2>5, <2>6, <2>7 DEF VoiceStep
  <1> QED
    BY <1>1, <1>2, <1>3, <1>4

-----------------------------------------------------------------------------
(* Where the bot is heading.                                                   *)

\* A job has chosen nobody before its snapshot, and a sweep never chooses.
FreshInv ==
    /\ \A j \in Jobs \ Sweepers :
         pc[j] \in {"acquiring", "granted", "snapshot"} => targets[j] = {}
    /\ \A s \in Sweepers : pc[s] # "snapshot"

\* The holder of the slot has the bot where its last join asked it to be, and has
\* told it to leave if it had got it in.
Steered(j) ==
    /\ pc[j] \in {"await", "sound", "move"} => Destination = Target(j)
    /\ pc[j] = "release" /\ HasStayed(j) => Destination = None
SteerInv == ~lost => \A j \in Jobs : Steered(j)

\* The job has not yet sent its first join, or has nothing left to send.
Hands(j) ==
    \/ pc[j] \in {"granted", "snapshot", "release"}
    \/ pc[j] \in {"create", "send"} /\ call[j].stage = "arrive"

\* Unless a join has timed out, the bot is or will be out of voice while nobody
\* directs it.
HomeInv == ~lost /\ ~late /\ (slot = None \/ Hands(slot)) => Destination = None

CourseInv == FreshInv /\ SteerInv /\ HomeInv

\* Only the voice commands of the bot, and Discord's answers to them, move it.
LEMMA DestinationStays ==
    ASSUME UNCHANGED outbox, place'[Bot] = place[Bot]
    PROVE  Destination' = Destination
  BY DEF Destination

\* An answered command is where the bot was heading all along.
LEMMA DestinationReached ==
    ASSUME TypeOK, ProcessVoiceCommand
    PROVE  Destination' = Destination
  <1>1. /\ outbox \in Seq(Channels \cup {None}) /\ outbox # <<>>
        /\ outbox' = Tail(outbox) /\ place'[Bot] = Head(outbox)
    BY DEF ProcessVoiceCommand, Emit, TypeOK, Members
  <1>2. /\ Len(outbox) \in Nat \ {0} /\ Head(outbox) = outbox[1]
        /\ Len(Tail(outbox)) = Len(outbox) - 1
        /\ \A i \in 1 .. Len(outbox) - 1 : Tail(outbox)[i] = outbox[i + 1]
        /\ Tail(outbox) = <<>> <=> Len(outbox) = 1
    BY <1>1, TailFacts
  <1>3. CASE Len(outbox) = 1
    BY <1>1, <1>2, <1>3 DEF Destination
  <1>4. CASE Len(outbox) > 1
    <2>1. Tail(outbox)[Len(outbox) - 1] = outbox[Len(outbox)]
      BY <1>2, <1>4
    <2> QED
      BY <1>1, <1>2, <1>4, <2>1 DEF Destination
  <1> QED
    BY <1>2, <1>3, <1>4

\* A command sent is where the bot is heading.
LEMMA DestinationSent ==
    ASSUME TypeOK, NEW c \in Channels \cup {None}, outbox' = Append(outbox, c)
    PROVE  Destination' = c
  <1>1. outbox \in Seq(Channels \cup {None})
    BY DEF TypeOK
  <1>2. /\ outbox' # <<>> /\ Len(outbox') = Len(outbox) + 1
        /\ outbox'[Len(outbox) + 1] = c
    BY <1>1, AppendFacts
  <1> QED
    BY <1>2 DEF Destination

\* The slot's holder keeps the bot where it wants it.
LEMMA VoiceStepKeepsCourse ==
    ASSUME TypeOK, IInv, CourseInv, NEW j \in Jobs, VoiceStep(j)
    PROVE  CourseInv'
  <1>1. /\ slot = j
        /\ \A i \in Jobs \ {j} : pc[i] \notin HoldingLabels /\ pc'[i] = pc[i]
                                 /\ targets'[i] = targets[i]
    BY VoiceStepForm
  <1>2. /\ pc[j] = "create" => ~session.open
        /\ pc[j] \in {"granted", "snapshot", "move"} => call[j].stage = "arrive"
        /\ j \in Sweepers => pc[j] # "snapshot"
        /\ j \notin Sweepers /\ pc[j] \in {"granted", "snapshot"} => targets[j] = {}
    BY <1>1 DEF IInv, SessionInv, StageInv, CourseInv, FreshInv
  <1>3. ~lost => Steered(j)
    BY DEF CourseInv, SteerInv
  <1>4. ~lost /\ ~late /\ Hands(j) => Destination = None
    BY <1>1 DEF CourseInv, HomeInv
  <1>5. Target(j) \in Channels \cup {None}
    BY DEF TypeOK, CallRecord, Target
  <1> DEFINE Good ==
        /\ j \in Sweepers => pc'[j] # "snapshot"
        /\ j \notin Sweepers /\ pc'[j] \in {"acquiring", "granted", "snapshot"} => targets'[j] = {}
        /\ ~lost' => Steered(j)'
        /\ ~lost' /\ ~late' /\ (slot' = None \/ Hands(j)') => Destination' = None
        /\ slot' \in {j, None}
  <1> USE JobAssumption
      DEF TypeOK, Goto, Fail, JoinFailed, discord, client, work, locals, Steered, Hands,
          HasStayed, Target
  <1>6. ASSUME CheckGrant(j)
        PROVE  Good
    <2>1. Destination' = Destination
      BY <1>6, DestinationStays DEF CheckGrant
    <2> QED
      BY <1>1, <1>2, <1>3, <1>4, <1>6, <2>1 DEF CheckGrant
  <1>7. ASSUME TakeSnapshot(j)
        PROVE  Good
    <2>1. Destination' = Destination
      BY <1>7, DestinationStays DEF TakeSnapshot
    <2> QED
      BY <1>1, <1>2, <1>3, <1>4, <1>7, <2>1 DEF TakeSnapshot
  <1>8. ASSUME CreateJoinSession(j)
        PROVE  Good
    <2>1. Destination' = Destination
      BY <1>8, DestinationStays DEF CreateJoinSession
    <2> QED
      BY <1>1, <1>2, <1>3, <1>4, <1>8, <2>1 DEF CreateJoinSession
  <1>9. ASSUME SendJoin(j)
        PROVE  Good
    <2>1. Destination' = Target(j)
      BY <1>9, <1>5, DestinationSent DEF SendJoin
    <2> QED
      BY <1>1, <1>2, <1>3, <1>4, <1>9, <2>1 DEF SendJoin
  <1>10. ASSUME SendJoinFails(j)
        PROVE  Good
    <2>1. Destination' = Destination
      BY <1>10, DestinationStays DEF SendJoinFails
    <2> QED
      BY <1>1, <1>2, <1>3, <1>4, <1>10, <2>1 DEF SendJoinFails
  <1>11. ASSUME JoinCompletes(j)
        PROVE  Good
    <2>1. Destination' = Destination
      BY <1>11, DestinationStays DEF JoinCompletes
    <2> QED
      BY <1>1, <1>2, <1>3, <1>4, <1>11, <2>1 DEF JoinCompletes
  <1>12. ASSUME JoinTimesOut(j)
        PROVE  Good
    <2>1. Destination' = Destination
      BY <1>12, DestinationStays DEF JoinTimesOut
    <2> QED
      BY <1>1, <1>2, <1>3, <1>4, <1>12, <2>1 DEF JoinTimesOut
  <1>13. ASSUME PlaySound(j)
        PROVE  Good
    <2>1. Destination' = Destination
      BY <1>13, DestinationStays DEF PlaySound
    <2> QED
      BY <1>1, <1>2, <1>3, <1>4, <1>13, <2>1 DEF PlaySound
  <1>14. ASSUME PlaySoundFails(j)
        PROVE  Good
    <2>1. Destination' = Destination
      BY <1>14, DestinationStays DEF PlaySoundFails
    <2> QED
      BY <1>1, <1>2, <1>3, <1>4, <1>14, <2>1 DEF PlaySoundFails
  <1>15. ASSUME NEW u \in Users, MoveUser(j, u)
         PROVE  Good
    <2>1. Destination' = Destination
      BY <1>15, DestinationStays, MemberAssumption DEF MoveUser, Displace, Emit, Members
    <2> QED
      BY <1>1, <1>2, <1>3, <1>4, <1>15, <2>1 DEF MoveUser, Displace
  <1>16. ASSUME NEW u \in Users, MoveUserFails(j, u)
         PROVE  Good
    <2>1. Destination' = Destination
      BY <1>16, DestinationStays, MemberAssumption DEF MoveUserFails, Displace, Emit, Members
    <2> QED
      BY <1>1, <1>2, <1>3, <1>4, <1>16, <2>1 DEF MoveUserFails, Displace
  <1>17. ASSUME MovesDone(j)
        PROVE  Good
    <2>1. Destination' = Destination
      BY <1>17, DestinationStays DEF MovesDone
    <2> QED
      <3>1. pc[j] = "move" /\ UNCHANGED <<slot, late, lost, targets>>
        BY <1>17 DEF MovesDone
      <3>2. \/ pc'[j] = "leave"
            \/ pc'[j] = "create" /\ call'[j].stage = "depart"
        BY <1>17 DEF MovesDone, CallRecord
      <3> QED
        BY <1>1, <3>1, <3>2
  <1>18. ASSUME Leave(j)
        PROVE  Good
    <2>1. Destination' = None
      BY <1>18, DestinationSent DEF Leave
    <2> QED
      BY <1>1, <1>2, <1>3, <1>4, <1>18, <2>1 DEF Leave
  <1>19. ASSUME LeaveFails(j)
        PROVE  Good
    <2>1. Destination' = Destination
      BY <1>19, DestinationStays DEF LeaveFails
    <2> QED
      BY <1>1, <1>2, <1>3, <1>4, <1>19, <2>1 DEF LeaveFails
  <1>20. ASSUME ReleaseVoice(j)
        PROVE  Good
    <2>1. Destination' = Destination
      BY <1>20, DestinationStays DEF ReleaseVoice
    <2> QED
      BY <1>1, <1>2, <1>3, <1>4, <1>20, <2>1 DEF ReleaseVoice
  <1>21. Good
    BY <1>6, <1>7, <1>8, <1>9, <1>10, <1>11, <1>12, <1>13, <1>14, <1>15, <1>16, <1>17, <1>18,
       <1>19, <1>20 DEF VoiceStep
  <1>22. FreshInv'
    BY <1>1, <1>21 DEF CourseInv, FreshInv, HoldingLabels, Jobs
  <1>23. SteerInv'
    <2>1. \A i \in Jobs \ {j} : pc'[i] \notin {"await", "sound", "move", "release"}
      BY <1>1 DEF HoldingLabels, UsingLabels
    <2> QED
      BY <1>21, <2>1 DEF SteerInv
  <1>24. HomeInv'
    BY <1>21 DEF HomeInv
  <1> QED
    BY <1>22, <1>23, <1>24 DEF CourseInv

\* Nothing a caller does turns the bot.
LEMMA CallerStepKeepsCourse ==
    ASSUME TypeOK, IInv, CourseInv, NEW j \in Jobs, CallerForm(j)
    PROVE  CourseInv'
  <1>1. Destination' = Destination /\ UNCHANGED <<late, lost>>
    BY DestinationStays DEF CallerForm
  <1>2. \A i \in Jobs \ {j} : /\ pc'[i] = pc[i] /\ call'[i] = call[i] /\ err'[i] = err[i]
                              /\ targets'[i] = targets[i]
    BY DEF CallerForm
  <1> USE JobAssumption DEF CourseInv, HoldingLabels, UsingLabels
  <1>3. FreshInv'
    BY <1>2 DEF FreshInv, CallerForm, Jobs
  <1>4. ASSUME ~lost
        PROVE  Steered(j)'
    BY <1>4 DEF CallerForm, Steered, HasStayed
  <1>5. ASSUME ~lost, NEW i \in Jobs \ {j}
        PROVE  Steered(i)'
    BY <1>1, <1>2, <1>5 DEF SteerInv, Steered, HasStayed, Target
  <1>6. SteerInv'
    BY <1>1, <1>4, <1>5 DEF SteerInv
  <1>7. ASSUME ~lost, ~late, (slot = None \/ Hands(slot))'
        PROVE  slot = None \/ Hands(slot)
    <2>1. slot \in Jobs \cup {None}
      BY DEF TypeOK
    <2>2. pc[j] \in HoldingLabels <=> slot = j
      BY DEF IInv, SlotInv
    <2>3. CASE slot = None
      BY <2>3
    <2>4. CASE slot \in Jobs \ {j}
      BY <1>2, <1>7, <2>4 DEF CallerForm, Hands
    <2>5. CASE slot = j
      BY <1>7, <2>2, <2>5 DEF CallerForm, Hands
    <2> QED
      BY <2>1, <2>3, <2>4, <2>5
  <1>8. HomeInv'
    BY <1>1, <1>7 DEF HomeInv
  <1> QED
    BY <1>3, <1>6, <1>8

\* Discord does what the bot has asked for, or loses it.
LEMMA OutsideStepKeepsCourse ==
    ASSUME TypeOK, IInv, CourseInv, Environment \/ HandleVoiceState \/ UNCHANGED vars
    PROVE  CourseInv'
  <1>1. OutsideForm
    BY OutsideStepForm
  <1>2. lost' \/ (Destination' = Destination /\ UNCHANGED lost)
    <2> USE MemberAssumption DEF discord, client, work, rpc, grant, budget, Emit, Members
    <2>1. CASE ProcessVoiceCommand
      BY <2>1, DestinationReached DEF ProcessVoiceCommand
    <2>2. CASE LoseVoiceCommand
      BY <2>2 DEF LoseVoiceCommand
    <2>3. ASSUME NEW u \in Users, NEW c \in Channels \cup {None}, UserMoves(u, c)
          PROVE  Destination' = Destination /\ UNCHANGED lost
      BY <2>3, DestinationStays DEF UserMoves, TypeOK
    <2>4. ASSUME \/ HandleVoiceState \/ HandleGuildDelete \/ HandleGuildUpdate
                 \/ ConnectionFails \/ UNCHANGED vars
                 \/ \E r \in Rpcs : CallerGivesUp(r)
                 \/ \E S \in SUBSET Rooms : HoldChannels(S)
                 \/ \E c \in Channels : HoldLapses(c)
          PROVE  Destination' = Destination /\ UNCHANGED lost
      <3>1. UNCHANGED <<outbox, place, lost>>
        BY <2>4 DEF HandleVoiceState, HandleGuildDelete, HandleGuildUpdate, ConnectionFails,
                    CallerGivesUp, HoldChannels, HoldLapses, vars
      <3> QED
        BY <3>1, DestinationStays
    <2> QED
      BY <2>1, <2>2, <2>3, <2>4 DEF Environment
  <1>3. /\ \A j \in Jobs : pc'[j] # pc[j] => pc[j] = "idle" /\ pc'[j] = "check"
        /\ UNCHANGED <<slot, call, err, targets, late>>
    BY <1>1 DEF OutsideForm
  <1> USE DEF CourseInv
  <1>4. FreshInv'
    BY <1>3 DEF FreshInv, Jobs
  <1>5. SteerInv'
    BY <1>2, <1>3 DEF SteerInv, Steered, HasStayed, Target
  <1>6. HomeInv'
    BY <1>2, <1>3 DEF HomeInv, Hands, TypeOK
  <1> QED
    BY <1>4, <1>5, <1>6

\* The bot starts out of voice.
LEMMA CourseInit == Init => CourseInv
  BY JobAssumption
     DEF Init, CourseInv, FreshInv, SteerInv, Steered, HomeInv, Destination, Members, Jobs

\* While nothing is lost, each join and each Leave decides where the bot goes until
\* the next one.
THEOREM CourseCorrect == Spec => []CourseInv
  <1>1. TypeOK /\ IInv /\ CourseInv /\ [Next]_vars => CourseInv'
    <2>1. TypeOK /\ IInv /\ CourseInv /\ AllDone => CourseInv'
      BY OutsideStepKeepsCourse DEF AllDone
    <2> QED
      BY <2>1, VoiceStepKeepsCourse, CallerStepForm, CallerStepKeepsCourse,
         OutsideStepKeepsCourse DEF Next
  <1> QED
    BY <1>1, CourseInit, InvCorrect, PTL DEF Spec

\* A job that got the bot in has told it to leave when it frees the slot.
THEOREM LeavesAfterStayCorrect == Spec => []LeavesAfterStay
  <1>1. CourseInv => LeavesAfterStay
    BY DEF CourseInv, SteerInv, Steered, LeavesAfterStay
  <1> QED
    BY <1>1, CourseCorrect, PTL

\* Only a join that timed out, or a lost command, leaves the bot in a channel that
\* nobody has the slot for.
THEOREM BotGoesHomeCorrect == Spec => []BotGoesHome
  <1>1. CourseInv => BotGoesHome
    BY DEF CourseInv, HomeInv, BotGoesHome, Destination
  <1> QED
    BY <1>1, CourseCorrect, PTL

-----------------------------------------------------------------------------
(* The cache is only late.                                                     *)

\* No event about m is on its way after the i-th.
LastOf(m, i) == events[i].who = m /\ \A k \in 1 .. Len(events) : events[k].who = m => k <= i

\* The last event on its way about a member says where the member is.
TruthfulInv ==
    \A m \in Members : \A i \in 1 .. Len(events) : LastOf(m, i) => events[i].chan = place[m]

CacheInv == TruthfulInv /\ CacheIsOnlyLate

\* A member who ends up in a channel is the last event's.
LEMMA EmitKeepsCache ==
    ASSUME TypeOK, CacheInv, NEW who \in Members, NEW chan \in Channels \cup {None},
           NEW by \in Jobs \cup {None}, Emit(who, chan, by), UNCHANGED <<cache, guildKnown>>
    PROVE  CacheInv'
  <1> DEFINE e == [who |-> who, chan |-> chan, by |-> by]
  <1>1. events \in Seq(Event) /\ e \in Event
    BY DEF TypeOK, Event
  <1>2. /\ Len(events) \in Nat /\ Len(events') = Len(events) + 1
        /\ \A i \in 1 .. Len(events) : events'[i] = events[i]
        /\ events'[Len(events) + 1] = e
    BY <1>1, AppendFacts DEF Emit
  <1>3. /\ place'[who] = chan /\ \A m \in Members \ {who} : place'[m] = place[m]
        /\ UNCHANGED <<cache, guildKnown>>
    BY DEF Emit, TypeOK
  <1>4. e.who = who /\ e.chan = chan
    OBVIOUS
  <1> HIDE DEF e
  <1>5. TruthfulInv'
    <2> SUFFICES ASSUME NEW m \in Members, NEW i \in 1 .. Len(events'), LastOf(m, i)'
                 PROVE  events'[i].chan = place'[m]
      BY DEF TruthfulInv
    <2>1. CASE m = who
      BY <1>2, <1>3, <1>4, <2>1 DEF LastOf
    <2>2. CASE m # who
      <3>1. i \in 1 .. Len(events) /\ LastOf(m, i)
        BY <1>2, <1>4, <2>2 DEF LastOf
      <3> QED
        BY <1>2, <1>3, <2>2, <3>1 DEF CacheInv, TruthfulInv
    <2> QED
      BY <2>1, <2>2
  <1>6. CacheIsOnlyLate'
    <2> SUFFICES ASSUME NEW m \in Members, guildKnown, cache[m] # None,
                        \A i \in 1 .. Len(events') : events'[i].who # m
                 PROVE  cache[m] = place'[m]
      BY <1>3 DEF CacheIsOnlyLate
    <2>1. m # who /\ \A i \in 1 .. Len(events) : events[i].who # m
      BY <1>2, <1>4
    <2> QED
      BY <1>3, <2>1 DEF CacheInv, CacheIsOnlyLate
  <1> QED
    BY <1>5, <1>6 DEF CacheInv

\* The event loop takes over what the last event about a member says.
LEMMA HandleKeepsCache ==
    ASSUME TypeOK, CacheInv, HandleVoiceState
    PROVE  CacheInv'
  <1>1. /\ Len(events) \in Nat \ {0} /\ Head(events) = events[1]
        /\ Len(events') = Len(events) - 1
        /\ \A i \in 1 .. Len(events) - 1 : events'[i] = events[i + 1]
    <2>1. events \in Seq(Event) /\ events # <<>> /\ events' = Tail(events)
      BY DEF HandleVoiceState, TypeOK
    <2> QED
      BY <2>1, TailFacts
  <1>2. /\ UNCHANGED <<place, guildKnown>>
        /\ guildKnown => cache' = [cache EXCEPT ![events[1].who] = events[1].chan]
    BY <1>1 DEF HandleVoiceState
  <1>3. TruthfulInv'
    <2> SUFFICES ASSUME NEW m \in Members, NEW i \in 1 .. Len(events'), LastOf(m, i)'
                 PROVE  events'[i].chan = place'[m]
      BY DEF TruthfulInv
    <2>1. i + 1 \in 1 .. Len(events) /\ events[i + 1].who = m
      BY <1>1 DEF LastOf
    <2>2. ASSUME NEW k \in 1 .. Len(events), events[k].who = m
          PROVE  k <= i + 1
      <3>1. CASE k = 1
        BY <3>1
      <3>2. CASE k # 1
        <4>1. k - 1 \in 1 .. Len(events') /\ events'[k - 1] = events[k]
          BY <1>1, <3>2
        <4> QED
          BY <2>2, <4>1 DEF LastOf
      <3> QED
        BY <3>1, <3>2
    <2>3. LastOf(m, i + 1)
      BY <2>1, <2>2 DEF LastOf
    <2> QED
      BY <1>1, <1>2, <2>1, <2>3 DEF CacheInv, TruthfulInv
  <1>4. CacheIsOnlyLate'
    <2> SUFFICES ASSUME NEW m \in Members, guildKnown, cache'[m] # None,
                        \A i \in 1 .. Len(events') : events'[i].who # m
                 PROVE  cache'[m] = place[m]
      BY <1>2 DEF CacheIsOnlyLate
    <2>1. ASSUME NEW k \in 1 .. Len(events), k # 1
          PROVE  events[k].who # m
      <3>1. k - 1 \in 1 .. Len(events') /\ events'[k - 1] = events[k]
        BY <1>1, <2>1
      <3> QED
        BY <3>1
    <2>2. CASE events[1].who = m
      <3>1. LastOf(m, 1)
        BY <1>1, <2>1, <2>2 DEF LastOf
      <3>2. events[1].chan = place[m]
        BY <1>1, <3>1 DEF CacheInv, TruthfulInv
      <3> QED
        BY <1>2, <2>2, <3>2 DEF TypeOK
    <2>3. CASE events[1].who # m
      <3>1. cache'[m] = cache[m]
        BY <1>2, <2>3 DEF TypeOK
      <3>2. \A k \in 1 .. Len(events) : events[k].who # m
        BY <2>1, <2>3
      <3> QED
        BY <3>1, <3>2 DEF CacheInv, CacheIsOnlyLate
    <2> QED
      BY <2>2, <2>3
  <1> QED
    BY <1>3, <1>4 DEF CacheInv

\* A cache that forgets everybody, or a guild that is gone, shows nobody.
LEMMA ForgettingKeepsCache ==
    ASSUME TypeOK, CacheInv, HandleGuildUpdate \/ HandleGuildDelete
    PROVE  CacheInv'
  <1>1. /\ UNCHANGED <<events, place>>
        /\ ~guildKnown' \/ \A m \in Members : cache'[m] = None
    BY DEF HandleGuildUpdate, HandleGuildDelete, discord
  <1> QED
    BY <1>1 DEF CacheInv, TruthfulInv, LastOf, CacheIsOnlyLate

\* Nothing else touches the cache, or what it is about.
LEMMA FrameKeepsCache ==
    ASSUME CacheInv, UNCHANGED <<events, place, cache, guildKnown>>
    PROVE  CacheInv'
  BY DEF CacheInv, TruthfulInv, LastOf, CacheIsOnlyLate

\* The slot's holder changes who is where by moving people, and not otherwise.
LEMMA VoiceStepEvents ==
    ASSUME NEW j \in Jobs, VoiceStep(j)
    PROVE  /\ UNCHANGED <<cache, guildKnown>>
           /\ \/ UNCHANGED <<events, place>>
              \/ pc[j] = "move" /\ \E u \in Users : Displace(j, u)
  <1> USE DEF discord, client
  <1>1. ASSUME NEW u \in Users, MoveUser(j, u) \/ MoveUserFails(j, u)
        PROVE  /\ UNCHANGED <<cache, guildKnown>>
               /\ \/ UNCHANGED <<events, place>>
                  \/ pc[j] = "move" /\ \E v \in Users : Displace(j, v)
    BY <1>1 DEF MoveUser, MoveUserFails
  <1> QED
    BY <1>1 DEF VoiceStep, CheckGrant, TakeSnapshot, CreateJoinSession, SendJoin, SendJoinFails,
           JoinCompletes, JoinTimesOut, PlaySound, PlaySoundFails, MovesDone, Leave, LeaveFails,
           ReleaseVoice

\* No step of any goroutine or of Discord makes the cache wrong.
LEMMA CacheStep == TypeOK /\ IInv /\ CacheInv /\ [Next]_vars => CacheInv'
  <1> SUFFICES ASSUME TypeOK, IInv, CacheInv, [Next]_vars
               PROVE  CacheInv'
    OBVIOUS
  <1>1. ASSUME NEW j \in Jobs, VoiceStep(j)
        PROVE  CacheInv'
    <2>1. ASSUME NEW u \in Users, Displace(j, u), UNCHANGED <<cache, guildKnown>>
          PROVE  CacheInv'
      <3>1. call[j].to \in Channels \cup {None} /\ u \in Members
        BY DEF TypeOK, CallRecord, Members
      <3> QED
        BY <2>1, <3>1, EmitKeepsCache DEF Displace
    <2> QED
      BY <1>1, <2>1, VoiceStepEvents, FrameKeepsCache
  <1>2. ASSUME NEW j \in Jobs, CallerForm(j)
        PROVE  CacheInv'
    BY <1>2, FrameKeepsCache DEF CallerForm
  <1>3. ASSUME Environment \/ HandleVoiceState \/ UNCHANGED vars
        PROVE  CacheInv'
    <2> USE DEF discord, client
    <2>1. CASE ProcessVoiceCommand
      <3>1. Head(outbox) \in Channels \cup {None} /\ Bot \in Members
        BY <2>1 DEF ProcessVoiceCommand, TypeOK, Members
      <3>2. CASE Emit(Bot, Head(outbox), None)
        BY <2>1, <3>1, <3>2, EmitKeepsCache DEF ProcessVoiceCommand
      <3>3. CASE UNCHANGED <<place, events>>
        BY <2>1, <3>3, FrameKeepsCache DEF ProcessVoiceCommand
      <3> QED
        BY <2>1, <3>2, <3>3 DEF ProcessVoiceCommand
    <2>2. ASSUME NEW u \in Users, NEW c \in Channels \cup {None}, UserMoves(u, c)
          PROVE  CacheInv'
      BY <2>2, EmitKeepsCache DEF UserMoves, Members
    <2>3. ASSUME \/ LoseVoiceCommand \/ ConnectionFails \/ UNCHANGED vars
                 \/ \E r \in Rpcs : CallerGivesUp(r)
                 \/ \E S \in SUBSET Rooms : HoldChannels(S)
                 \/ \E c \in Channels : HoldLapses(c)
          PROVE  CacheInv'
      <3>1. UNCHANGED <<events, place, cache, guildKnown>>
        BY <2>3 DEF LoseVoiceCommand, ConnectionFails, CallerGivesUp, HoldChannels, HoldLapses,
                    vars
      <3> QED
        BY <3>1, FrameKeepsCache
    <2> QED
      BY <1>3, <2>1, <2>2, <2>3, HandleKeepsCache, ForgettingKeepsCache DEF Environment
  <1> QED
    BY <1>1, <1>2, <1>3, CallerStepForm DEF Next, AllDone

\* The cache shows nobody where they are not, once their events have been handled,
\* whoever moved them and whatever Discord forgot to say.
THEOREM CacheIsOnlyLateCorrect == Spec => []CacheIsOnlyLate
  <1>1. Init => CacheInv
    BY DEF Init, CacheInv, TruthfulInv, CacheIsOnlyLate
  <1>2. CacheInv => CacheIsOnlyLate
    BY DEF CacheInv
  <1> QED
    BY <1>1, <1>2, CacheStep, InvCorrect, PTL DEF Spec
=============================================================================
