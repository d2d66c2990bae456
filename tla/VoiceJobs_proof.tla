--------------------------- MODULE VoiceJobs_proof ---------------------------
(* Theorems about VoiceJobs, for any number of people, rooms and jobs.       *)
EXTENDS VoiceJobs, TLAPS

-----------------------------------------------------------------------------
(* Types.                                                                    *)

\* Appending a voice state event keeps the queue a sequence of events.
LEMMA EmitType ==
    ASSUME TypeOK, NEW who \in Members, NEW chan \in Channels \cup {None},
           NEW by \in Jobs \cup {None}, Emit(who, chan, by)
    PROVE  /\ place' \in [Members -> Channels \cup {None}]
           /\ events' \in Seq(Event)
  <1>1. events \in Seq(Event) /\ [who |-> who, chan |-> chan, by |-> by] \in Event
    BY DEF TypeOK, Event
  <1>2. events' \in Seq(Event)
    BY <1>1 DEF Emit
  <1> QED
    BY <1>2 DEF Emit, TypeOK

\* What Discord does for a move request keeps the types (utils.go:91-96).
LEMMA DisplaceType ==
    ASSUME TypeOK, NEW j \in Jobs, NEW u \in Users, Displace(j, u)
    PROVE  /\ place' \in [Members -> Channels \cup {None}]
           /\ events' \in Seq(Event)
           /\ displaced' \in [Jobs -> SUBSET Users]
  <1>1. call[j].to \in Channels \cup {None} /\ u \in Members
    BY DEF TypeOK, CallRecord, Members
  <1>2. displaced' \in [Jobs -> SUBSET Users]
    BY DEF TypeOK, Displace
  <1> QED
    BY <1>1, <1>2, EmitType DEF Displace

\* Calling moveSomeUsers keeps the types of the job's locals (utils.go:30-39).
LEMMA CallType ==
    ASSUME TypeOK, NEW j \in Jobs, NEW from \in Channels, NEW to \in Channels \cup {None},
           NEW only \in SUBSET Users, Call(j, from, to, only),
           UNCHANGED <<Outside, reply, up, faults>>, rooms' \in [Jobs -> SUBSET Channels]
    PROVE  TypeOK'
  <1>1. call' \in [Jobs -> CallRecord]
    BY DEF TypeOK, Call, CallRecord
  <1>2. pc' \in [Jobs -> Labels]
    BY DEF TypeOK, Call, Goto, Labels
  <1>3. /\ targets' \in [Jobs -> SUBSET Users] /\ moved' \in [Jobs -> SUBSET Users]
        /\ displaced' \in [Jobs -> SUBSET Users]
        /\ err' \in [Jobs -> Errors]
    BY DEF TypeOK, Call, Errors
  <1> QED
    BY <1>1, <1>2, <1>3 DEF TypeOK, CallRecord, Outside, client, grant

\* So does turning to the channel the people are moved to (utils.go:102).
LEMMA DepartType ==
    ASSUME NEW f \in [Jobs -> CallRecord], NEW j \in Jobs
    PROVE  [f EXCEPT ![j].stage = "depart"] \in [Jobs -> CallRecord]
  <1>1. [f[j] EXCEPT !.stage = "depart"] \in CallRecord
    <2>1. f[j] \in CallRecord
      OBVIOUS
    <2> QED
      BY <2>1 DEF CallRecord
  <1> QED
    BY <1>1

\* So does a sweep's choice of a channel (sweep.go:79-88).
LEMMA PickType ==
    ASSUME NEW f \in [Jobs -> CallRecord], NEW j \in Jobs, NEW c \in Channels
    PROVE  [f EXCEPT ![j].from = c] \in [Jobs -> CallRecord]
  <1>1. [f[j] EXCEPT !.from = c] \in CallRecord
    <2>1. f[j] \in CallRecord
      OBVIOUS
    <2> QED
      BY <2>1 DEF CallRecord
  <1> QED
    BY <1>1

\* A step of moveSomeUsers or sweepChannel with the slot keeps the types.
LEMMA VoiceStepKeepsType ==
    ASSUME TypeOK, NEW j \in Jobs, VoiceStep(j)
    PROVE  TypeOK'
  <1> USE DEF TypeOK, Labels, Errors, NoSession, Goto, Fail, Elsewhere, locals, discord, client, work, rpc, grant
  <1>0. call[j].only \subseteq Users /\ Target(j) \in Channels \cup {None}
    BY DEF CallRecord, Target
  <1>1. CASE CheckGrant(j)
    <2>1. pc' \in [Jobs -> Labels] /\ err' \in [Jobs -> Errors]
      BY <1>1 DEF CheckGrant
    <2> QED
      BY <1>1, <2>1 DEF CheckGrant
  <1>2. CASE TakeSnapshot(j)
    <2>1. pc' \in [Jobs -> Labels] /\ err' \in [Jobs -> Errors]
      BY <1>2 DEF TakeSnapshot
    <2>2. targets' \in [Jobs -> SUBSET Users]
      <3>1. {u \in call[j].only : cache[u] = call[j].from} \in SUBSET Users
        BY <1>0
      <3> QED
        BY <1>2, <3>1 DEF TakeSnapshot
    <2> QED
      BY <1>2, <2>1, <2>2 DEF TakeSnapshot
  <1>3. CASE CreateJoinSession(j)
    <2>1. pc' \in [Jobs -> Labels] /\ err' \in [Jobs -> Errors]
      BY <1>3 DEF CreateJoinSession, JoinFailed
    <2>2. session' \in [open : BOOLEAN, chan : Channels \cup {None}, got : BOOLEAN]
      <3>1. [open |-> TRUE, chan |-> Target(j), got |-> FALSE]
                \in [open : BOOLEAN, chan : Channels \cup {None}, got : BOOLEAN]
        BY <1>0
      <3> QED
        BY <1>3, <3>1 DEF CreateJoinSession
    <2> QED
      BY <1>3, <2>1, <2>2 DEF CreateJoinSession
  <1>4. CASE SendJoin(j)
    BY <1>0, <1>4 DEF SendJoin
  <1>5. CASE SendJoinFails(j)
    <2>1. pc' \in [Jobs -> Labels] /\ err' \in [Jobs -> Errors]
      BY <1>5 DEF SendJoinFails, JoinFailed
    <2> QED
      BY <1>5, <2>1 DEF SendJoinFails, CommandFails, Fault, NoFault
  <1>6. CASE JoinCompletes(j)
    BY <1>6 DEF JoinCompletes
  <1>7. CASE JoinTimesOut(j)
    BY <1>7 DEF JoinTimesOut, JoinFailed
  <1>8. CASE PlaySound(j)
    BY <1>8 DEF PlaySound
  <1>9. CASE PlaySoundFails(j)
    BY <1>9 DEF PlaySoundFails, Fault
  <1>10. ASSUME NEW u \in Users, MoveUser(j, u)
         PROVE  TypeOK'
    BY <1>10, DisplaceType DEF MoveUser
  <1>11. ASSUME NEW u \in Users, MoveUserFails(j, u)
         PROVE  TypeOK'
    <2>1. pc' \in [Jobs -> Labels] /\ err' \in [Jobs -> Errors] /\ faults' \in Nat
      BY <1>11 DEF MoveUserFails, NoFault, Fault
    <2>2. /\ place' \in [Members -> Channels \cup {None}] /\ events' \in Seq(Event)
          /\ displaced' \in [Jobs -> SUBSET Users]
      BY <1>11, DisplaceType DEF MoveUserFails
    <2> QED
      BY <1>11, <2>1, <2>2 DEF MoveUserFails
  <1>12. CASE MovesDone(j)
    <2>1. pc' = [pc EXCEPT ![j] = "leave"] \/ pc' = [pc EXCEPT ![j] = "create"]
      BY <1>12 DEF MovesDone
    <2>2. call' = call \/ call' = [call EXCEPT ![j].stage = "depart"]
      BY <1>12 DEF MovesDone
    <2>3. pc' \in [Jobs -> Labels]
      BY <2>1
    <2>4. call' \in [Jobs -> CallRecord]
      <3>1. call \in [Jobs -> CallRecord]
        OBVIOUS
      <3>2. [call EXCEPT ![j].stage = "depart"] \in [Jobs -> CallRecord]
        BY <3>1, DepartType
      <3> QED
        BY <2>2, <3>1, <3>2
    <2> QED
      BY <1>12, <2>3, <2>4 DEF MovesDone
  <1>13. CASE Leave(j)
    BY <1>13 DEF Leave
  <1>14. CASE LeaveFails(j)
    BY <1>14 DEF LeaveFails, CommandFails, Fault, NoFault
  <1>15. CASE ReleaseVoice(j)
    BY <1>15 DEF ReleaseVoice
  <1> QED
    BY <1>1, <1>2, <1>3, <1>4, <1>5, <1>6, <1>7, <1>8, <1>9, <1>10, <1>11, <1>12, <1>13, <1>14, <1>15 DEF VoiceStep

\* So does closeOffice's call of moveUsers (officeState.go:109-119).
LEMMA CloseOfficeKeepsType ==
    ASSUME TypeOK, NEW k \in Closers, CloseOffice(k)
    PROVE  TypeOK'
  <1>1. k \in Jobs /\ Office \in Channels /\ Default \in Channels
    BY DEF Jobs, Channels
  <1>2. CASE guildKnown
    <2>1. Call(k, Office, Default, Users) /\ UNCHANGED <<Outside, reply, up, faults>>
      BY <1>2 DEF CloseOffice
    <2>2. rooms' \in [Jobs -> SUBSET Channels]
      BY DEF TypeOK, CloseOffice
    <2> QED
      BY <1>1, <2>1, <2>2, CallType
  <1>3. CASE ~guildKnown
    <2>1. pc' \in [Jobs -> Labels] /\ err' \in [Jobs -> Errors]
      BY <1>1, <1>3 DEF CloseOffice, TypeOK, Fail, Goto, Labels, Errors
    <2> QED
      BY <1>3, <2>1 DEF CloseOffice, TypeOK, Outside, client, grant
  <1> QED
    BY <1>2, <1>3

\* So does the checker's turn to a room (checker.go:66-82).
LEMMA CheckRoomKeepsType ==
    ASSUME TypeOK, NEW c \in Channels, CheckRoom(c)
    PROVE  TypeOK'
  <1>1. Checker \in Jobs /\ Office \in Channels
    BY DEF Jobs, Channels
  <1>2. rooms' \in [Jobs -> SUBSET Channels]
    BY <1>1 DEF CheckRoom, TypeOK
  <1>3. CASE c \notin held
    BY <1>1, <1>2, <1>3, CallType DEF CheckRoom
  <1>4. CASE c \in held
    BY <1>2, <1>4 DEF CheckRoom, TypeOK, Outside, client, grant
  <1> QED
    BY <1>3, <1>4

\* So does a MoveMembers call's validation and call (server.go:54-84).
LEMMA MoveMembersKeepsType ==
    ASSUME TypeOK, NEW r \in Rpcs, NEW q \in MoveRequests, MoveMembers(r, q)
    PROVE  TypeOK'
  <1>1. /\ r \in Jobs /\ q.from \in Channels /\ q.to \in Channels \cup {None}
        /\ q.only \in SUBSET Users
    BY RequestAssumption DEF Jobs
  <1>2. CASE Valid(q)
    <2>1. Call(r, q.from, q.to, q.only) /\ UNCHANGED <<Outside, reply, up, faults>>
      BY <1>2 DEF MoveMembers
    <2>2. rooms' \in [Jobs -> SUBSET Channels]
      BY DEF TypeOK, MoveMembers
    <2> QED
      BY <1>1, <2>1, <2>2, CallType
  <1>3. CASE ~Valid(q)
    <2>1. pc' \in [Jobs -> Labels] /\ reply' \in [Rpcs -> {"none", "ok", "partial", "status"}]
      BY <1>1, <1>3 DEF MoveMembers, TypeOK, Goto, Labels
    <2> QED
      BY <1>3, <2>1 DEF MoveMembers, TypeOK, Outside, client, grant
  <1> QED
    BY <1>2, <1>3

\* So does every step of a caller.
LEMMA CallerStepKeepsType ==
    ASSUME TypeOK,
           \/ \E j \in Jobs : AcquireVoice(j)
           \/ Starts \/ CheckStep
           \/ \E s \in Sweepers : SweepStep(s)
           \/ \E r \in Rpcs : RpcStep(r)
    PROVE  TypeOK'
  <1> USE DEF TypeOK, Labels, Errors, Goto, Fail, Outside, Elsewhere, locals, discord, client, work,
              rpc, grant, Jobs
  <1>1. ASSUME NEW j \in Jobs, AcquireVoice(j)
        PROVE  TypeOK'
    BY <1>1 DEF AcquireVoice
  <1>2. ASSUME NEW k \in Closers, CloseOffice(k)
        PROVE  TypeOK'
    BY <1>2, CloseOfficeKeepsType
  <1>3. ASSUME NEW s \in Sweepers, SweepStarts(s)
        PROVE  TypeOK'
    <2>1. {cache[m] : m \in Members} \ {None} \in SUBSET Channels
      OBVIOUS
    <2>2. rooms' \in [Jobs -> SUBSET Channels]
      BY <1>3, <2>1 DEF SweepStarts
    <2>3. pc' \in [Jobs -> Labels] /\ up' \in BOOLEAN
      BY <1>3 DEF SweepStarts
    <2> QED
      BY <1>3, <2>2, <2>3 DEF SweepStarts
  <1>4. ASSUME NEW r \in Rpcs, LookupFails(r)
        PROVE  TypeOK'
    BY <1>4 DEF LookupFails, Fault
  <1>5. ASSUME NEW r \in Rpcs, NEW q \in MoveRequests, MoveMembers(r, q)
        PROVE  TypeOK'
    BY <1>5, MoveMembersKeepsType
  <1>6. CASE CheckSkipped
    BY <1>6 DEF CheckSkipped
  <1>7. CASE CheckBegins
    BY <1>7 DEF CheckBegins
  <1>8. CASE CheckContinues
    BY <1>8 DEF CheckContinues
  <1>9. CASE CheckEnds
    BY <1>9 DEF CheckEnds
  <1>10. ASSUME NEW c \in Channels, CheckRoom(c)
         PROVE  TypeOK'
    BY <1>10, CheckRoomKeepsType
  <1>11. ASSUME NEW s \in Sweepers, SweepLookupFails(s)
         PROVE  TypeOK'
    BY <1>11 DEF SweepLookupFails, Fault
  <1>12. ASSUME NEW s \in Sweepers, NEW c \in Channels, SweepPicks(s, c)
         PROVE  TypeOK'
    <2>1. call' = [call EXCEPT ![s].from = c] /\ s \in Jobs
      BY <1>12 DEF SweepPicks
    <2>2. call' \in [Jobs -> CallRecord]
      BY <2>1, PickType
    <2>3. pc' \in [Jobs -> Labels]
      BY <1>12 DEF SweepPicks
    <2> QED
      BY <1>12, <2>2, <2>3 DEF SweepPicks
  <1>13. ASSUME NEW r \in Rpcs, AbandonWait(r)
         PROVE  TypeOK'
    BY <1>13 DEF AbandonWait
  <1>14. ASSUME NEW r \in Rpcs, Reply(r)
         PROVE  TypeOK'
    BY <1>14 DEF Reply
  <1> QED
    BY <1>1, <1>2, <1>3, <1>4, <1>5, <1>6, <1>7, <1>8, <1>9, <1>10, <1>11, <1>12, <1>13,
       <1>14 DEF Starts, CheckStep, SweepStep, RpcStep

\* So does every step of Discord, the people in it and the event loop.
LEMMA OutsideStepKeepsType ==
    ASSUME TypeOK, Environment \/ HandleVoiceState \/ UNCHANGED vars
    PROVE  TypeOK'
  <1> USE DEF TypeOK, discord, client, work, rpc, grant, budget
  <1>1. CASE HandleVoiceState
    <2>1. Head(events) \in Event /\ events' \in Seq(Event)
      BY <1>1 DEF HandleVoiceState
    <2>2. Head(events).who \in Members /\ Head(events).chan \in Channels \cup {None}
      BY <2>1 DEF Event
    <2>3. cache' \in [Members -> Channels \cup {None}]
      BY <1>1, <2>2 DEF HandleVoiceState
    <2>4. session' \in [open : BOOLEAN, chan : Channels \cup {None}, got : BOOLEAN]
      BY <1>1 DEF HandleVoiceState
    <2>5. pc' \in [Jobs -> Labels]
      BY <1>1 DEF HandleVoiceState, Labels
    <2> QED
      BY <1>1, <2>1, <2>3, <2>4, <2>5 DEF HandleVoiceState
  <1>2. CASE ProcessVoiceCommand
    <2>1. Head(outbox) \in Channels \cup {None} /\ outbox' \in Seq(Channels \cup {None})
      BY <1>2 DEF ProcessVoiceCommand
    <2>2. place' \in [Members -> Channels \cup {None}] /\ events' \in Seq(Event)
      BY <1>2, <2>1, EmitType DEF ProcessVoiceCommand, Members
    <2> QED
      BY <1>2, <2>1, <2>2 DEF ProcessVoiceCommand
  <1>3. CASE LoseVoiceCommand
    BY <1>3 DEF LoseVoiceCommand, Fault
  <1>4. ASSUME NEW u \in Users, NEW c \in Channels \cup {None}, UserMoves(u, c)
        PROVE  TypeOK'
    <2>1. Emit(u, c, None) /\ u \in Members
      BY <1>4 DEF UserMoves, Members
    <2>2. place' \in [Members -> Channels \cup {None}] /\ events' \in Seq(Event)
      BY <2>1, EmitType
    <2> QED
      BY <1>4, <2>2 DEF UserMoves
  <1>5. ASSUME NEW r \in Rpcs, CallerGivesUp(r)
        PROVE  TypeOK'
    BY <1>5 DEF CallerGivesUp
  <1>6. ASSUME NEW S \in SUBSET Rooms, HoldChannels(S)
        PROVE  TypeOK'
    BY <1>6 DEF HoldChannels, Channels
  <1>7. ASSUME NEW c \in Channels, HoldLapses(c)
        PROVE  TypeOK'
    BY <1>7 DEF HoldLapses
  <1>8. CASE HandleGuildDelete
    <2>1. guildKnown' \in BOOLEAN
      BY <1>8, Zenon DEF HandleGuildDelete
    <2>2. faults' \in Nat
      BY <1>8 DEF HandleGuildDelete, Fault
    <2> QED
      BY <1>8, <2>1, <2>2 DEF HandleGuildDelete
  <1>9. CASE HandleGuildUpdate
    BY <1>9 DEF HandleGuildUpdate, Fault
  <1>10. CASE ConnectionFails
    <2>1. link' \in {"up", "stuck", "cut"} /\ faults' \in Nat
      BY <1>10 DEF ConnectionFails, Fault
    <2>2. up' \in BOOLEAN
      BY <1>10, Zenon DEF ConnectionFails
    <2> QED
      BY <1>10, <2>1, <2>2 DEF ConnectionFails
  <1>11. CASE UNCHANGED vars
    BY <1>11 DEF vars
  <1> QED
    BY <1>1, <1>2, <1>3, <1>4, <1>5, <1>6, <1>7, <1>8, <1>9, <1>10, <1>11 DEF Environment

-----------------------------------------------------------------------------
(* The inductive invariant.                                                  *)

\* The slot is with the job, and only with the job, that is between
\* acquireVoice and releaseVoice.
SlotInv == \A j \in Jobs : pc[j] \in HoldingLabels <=> slot = j

\* There is a join session just while the slot's holder is in JoinVoiceChannel.
SessionInv == session.open <=> (slot # None /\ pc[slot] \in {"send", "await"})

\* A job goes on to its second channel only after moving people, and a sweep never.
StageInv ==
    /\ \A j \in Jobs : pc[j] \in {"acquiring", "granted", "snapshot", "move"}
                           => call[j].stage = "arrive"
    /\ \A s \in Sweepers : call[s].stage = "arrive" /\ pc[s] # "move"

\* What a round-up that passed its second look at the holds knows.
HoldInv ==
    /\ grantHeld \subseteq held
    /\ (slot = Checker /\ pc[Checker] \in UsingLabels \cup {"snapshot"})
           => call[Checker].from \notin grantHeld

\* What a call that passed its second look at ctx knows.
GiveUpInv ==
    \A r \in Rpcs : slot = r =>
        /\ (pc[r] = "granted" /\ grantCancelled) => r \in cancelled
        /\ pc[r] \in UsingLabels \cup {"snapshot"} => ~grantCancelled

IInv == SlotInv /\ SessionInv /\ StageInv /\ HoldInv /\ GiveUpInv

\* A step of moveSomeUsers or sweepChannel with the slot.
LEMMA VoiceStepKeepsInv ==
    ASSUME TypeOK, IInv, NEW j \in Jobs, VoiceStep(j)
    PROVE  IInv'
  <1> USE JobAssumption
      DEF TypeOK, IInv, SlotInv, SessionInv, StageInv, HoldInv, GiveUpInv,
          HoldingLabels, UsingLabels, CallRecord, NoSession, Goto, Fail, Elsewhere, locals, discord, client,
          work, rpc, grant, Jobs
  <1>1. CASE CheckGrant(j)
    BY <1>1 DEF CheckGrant
  <1>2. CASE TakeSnapshot(j)
    BY <1>2 DEF TakeSnapshot
  <1>3. CASE CreateJoinSession(j)
    BY <1>3 DEF CreateJoinSession, JoinFailed
  <1>4. CASE SendJoin(j)
    BY <1>4 DEF SendJoin
  <1>5. CASE SendJoinFails(j)
    BY <1>5 DEF SendJoinFails, JoinFailed
  <1>6. CASE JoinCompletes(j)
    BY <1>6 DEF JoinCompletes
  <1>7. CASE JoinTimesOut(j)
    BY <1>7 DEF JoinTimesOut, JoinFailed
  <1>8. CASE PlaySound(j)
    BY <1>8 DEF PlaySound
  <1>9. CASE PlaySoundFails(j)
    BY <1>9 DEF PlaySoundFails
  <1>10. ASSUME NEW u \in Users, MoveUser(j, u)
         PROVE  IInv'
    BY <1>10 DEF MoveUser, Displace
  <1>11. ASSUME NEW u \in Users, MoveUserFails(j, u)
         PROVE  IInv'
    BY <1>11 DEF MoveUserFails, Displace
  <1>12. CASE MovesDone(j)
    <2>1. slot = j /\ ~session.open /\ j \notin Sweepers
      BY <1>12 DEF MovesDone
    <2>2. pc'[j] \in {"leave", "create"} /\ call'[j].from = call[j].from
      BY <1>12 DEF MovesDone
    <2>3. \A i \in Jobs \ {j} : pc'[i] = pc[i] /\ call'[i] = call[i]
      BY <1>12 DEF MovesDone
    <2>4. UNCHANGED <<session, slot, held, cancelled, grant>>
      BY <1>12 DEF MovesDone
    <2>5. SlotInv' /\ SessionInv'
      BY <1>12, <2>1, <2>2, <2>3, <2>4
    <2>6. StageInv'
      BY <1>12, <2>1, <2>2, <2>3 DEF MovesDone
    <2>7. HoldInv'
      BY <1>12, <2>1, <2>2, <2>4 DEF MovesDone
    <2>8. GiveUpInv'
      BY <1>12, <2>2, <2>4 DEF MovesDone
    <2> QED
      BY <2>5, <2>6, <2>7, <2>8
  <1>13. CASE Leave(j)
    BY <1>13 DEF Leave
  <1>14. CASE LeaveFails(j)
    BY <1>14 DEF LeaveFails
  <1>15. CASE ReleaseVoice(j)
    BY <1>15 DEF ReleaseVoice
  <1> QED
    BY <1>1, <1>2, <1>3, <1>4, <1>5, <1>6, <1>7, <1>8, <1>9, <1>10, <1>11, <1>12, <1>13,
       <1>14, <1>15 DEF VoiceStep

\* A caller that does not have the slot calls moveSomeUsers.
LEMMA CallKeepsInv ==
    ASSUME TypeOK, IInv, NEW j \in Jobs, j \notin Sweepers, pc[j] \notin HoldingLabels,
           NEW from, NEW to, NEW only, Call(j, from, to, only),
           UNCHANGED <<session, slot, held, cancelled, grant>>
    PROVE  IInv'
  <1>1. slot # j /\ slot \in Jobs \cup {None}
    BY DEF TypeOK, IInv, SlotInv
  <1>2. pc' = [pc EXCEPT ![j] = "acquiring"] /\ call'[j].stage = "arrive"
        /\ \A i \in Jobs \ {j} : call'[i] = call[i]
    BY DEF TypeOK, Call, Goto
  <1>3. pc'[j] = "acquiring" /\ \A i \in Jobs \ {j} : pc'[i] = pc[i]
    BY <1>2 DEF TypeOK
  <1>4. SlotInv'
    BY <1>1, <1>3 DEF IInv, SlotInv, HoldingLabels, UsingLabels
  <1>5. SessionInv'
    BY <1>1, <1>3 DEF IInv, SessionInv
  <1>6. StageInv'
    BY <1>2, <1>3 DEF IInv, StageInv, Jobs
  <1>7. HoldInv'
    BY <1>1, <1>2, <1>3 DEF IInv, HoldInv, grant, Jobs
  <1>8. GiveUpInv'
    BY <1>1, <1>3 DEF IInv, GiveUpInv, grant, Jobs
  <1> QED
    BY <1>4, <1>5, <1>6, <1>7, <1>8 DEF IInv

\* closeOffice's call of moveUsers keeps the invariant.
LEMMA CloseOfficeKeepsInv ==
    ASSUME TypeOK, IInv, NEW k \in Closers, CloseOffice(k)
    PROVE  IInv'
  <1>1. k \in Jobs /\ k \notin Sweepers /\ pc[k] \notin HoldingLabels
    BY JobAssumption DEF CloseOffice, Jobs, HoldingLabels, UsingLabels
  <1>2. UNCHANGED <<session, slot, held, cancelled, grant>>
    BY DEF CloseOffice, Outside, client
  <1>3. CASE guildKnown
    BY <1>1, <1>2, <1>3, CallKeepsInv DEF CloseOffice
  <1>4. CASE ~guildKnown
    BY <1>1, <1>2, <1>4, JobAssumption
       DEF TypeOK, IInv, SlotInv, SessionInv, StageInv, HoldInv, GiveUpInv, HoldingLabels,
           UsingLabels, CloseOffice, Fail, Goto, grant, Jobs
  <1> QED
    BY <1>3, <1>4

\* So does the checker's turn to a room, held or not.
LEMMA CheckRoomKeepsInv ==
    ASSUME TypeOK, IInv, NEW c \in Channels, CheckRoom(c)
    PROVE  IInv'
  <1>1. Checker \in Jobs /\ Checker \notin Sweepers /\ pc[Checker] \notin HoldingLabels
    BY JobAssumption DEF CheckRoom, Jobs, HoldingLabels, UsingLabels
  <1>2. UNCHANGED <<session, slot, held, cancelled, grant>>
    BY DEF CheckRoom, Outside, client
  <1>3. CASE c \notin held
    BY <1>1, <1>2, <1>3, CallKeepsInv DEF CheckRoom
  <1>4. CASE c \in held
    BY <1>2, <1>4
       DEF IInv, SlotInv, SessionInv, StageInv, HoldInv, GiveUpInv, CheckRoom, grant
  <1> QED
    BY <1>3, <1>4

\* So does a MoveMembers call.
LEMMA MoveMembersKeepsInv ==
    ASSUME TypeOK, IInv, NEW r \in Rpcs, NEW q \in MoveRequests, MoveMembers(r, q)
    PROVE  IInv'
  <1>1. r \in Jobs /\ r \notin Sweepers /\ pc[r] \notin HoldingLabels
    BY JobAssumption DEF MoveMembers, Jobs, HoldingLabels, UsingLabels
  <1>2. UNCHANGED <<session, slot, held, cancelled, grant>>
    BY DEF MoveMembers, Outside, client
  <1>3. CASE Valid(q)
    BY <1>1, <1>2, <1>3, CallKeepsInv DEF MoveMembers
  <1>4. CASE ~Valid(q)
    BY <1>1, <1>2, <1>4, JobAssumption
       DEF TypeOK, IInv, SlotInv, SessionInv, StageInv, HoldInv, GiveUpInv, HoldingLabels,
           UsingLabels, MoveMembers, Goto, grant, Jobs
  <1> QED
    BY <1>3, <1>4

\* A step of a caller, or a job's wait for the slot.
LEMMA CallerStepKeepsInv ==
    ASSUME TypeOK, IInv,
           \/ \E j \in Jobs : AcquireVoice(j)
           \/ Starts \/ CheckStep
           \/ \E s \in Sweepers : SweepStep(s)
           \/ \E r \in Rpcs : RpcStep(r)
    PROVE  IInv'
  <1> USE JobAssumption
      DEF TypeOK, IInv, SlotInv, SessionInv, StageInv, HoldInv, GiveUpInv,
          HoldingLabels, UsingLabels, Goto, Fail, Call, Outside, Elsewhere, locals, discord, client,
          work, rpc, grant, Jobs
  <1>1. ASSUME NEW j \in Jobs, AcquireVoice(j)
        PROVE  IInv'
    BY <1>1 DEF AcquireVoice
  <1>2. ASSUME NEW k \in Closers, CloseOffice(k)
        PROVE  IInv'
    BY <1>2, CloseOfficeKeepsInv
  <1>3. ASSUME NEW s \in Sweepers, SweepStarts(s)
        PROVE  IInv'
    BY <1>3 DEF SweepStarts
  <1>4. ASSUME NEW r \in Rpcs, LookupFails(r)
        PROVE  IInv'
    BY <1>4 DEF LookupFails
  <1>5. ASSUME NEW r \in Rpcs, NEW q \in MoveRequests, MoveMembers(r, q)
        PROVE  IInv'
    BY <1>5, MoveMembersKeepsInv
  <1>6. CASE CheckSkipped
    BY <1>6 DEF CheckSkipped
  <1>7. CASE CheckBegins
    BY <1>7 DEF CheckBegins
  <1>8. CASE CheckContinues
    BY <1>8 DEF CheckContinues
  <1>9. CASE CheckEnds
    BY <1>9 DEF CheckEnds
  <1>10. ASSUME NEW c \in Channels, CheckRoom(c)
         PROVE  IInv'
    BY <1>10, CheckRoomKeepsInv
  <1>11. ASSUME NEW s \in Sweepers, SweepLookupFails(s)
         PROVE  IInv'
    BY <1>11 DEF SweepLookupFails
  <1>12. ASSUME NEW s \in Sweepers, NEW c \in Channels, SweepPicks(s, c)
         PROVE  IInv'
    BY <1>12 DEF SweepPicks
  <1>13. ASSUME NEW r \in Rpcs, AbandonWait(r)
         PROVE  IInv'
    BY <1>13 DEF AbandonWait
  <1>14. ASSUME NEW r \in Rpcs, Reply(r)
         PROVE  IInv'
    BY <1>14 DEF Reply
  <1> QED
    BY <1>1, <1>2, <1>3, <1>4, <1>5, <1>6, <1>7, <1>8, <1>9, <1>10, <1>11, <1>12, <1>13,
       <1>14 DEF Starts, CheckStep, SweepStep, RpcStep

\* A step of Discord, of the people in it, of the event loop or of the clock.
LEMMA OutsideStepKeepsInv ==
    ASSUME TypeOK, IInv, Environment \/ HandleVoiceState \/ UNCHANGED vars
    PROVE  IInv'
  <1> USE JobAssumption
      DEF TypeOK, IInv, SlotInv, SessionInv, StageInv, HoldInv, GiveUpInv,
          HoldingLabels, UsingLabels, discord, client, work, rpc, grant, budget, Jobs
  <1>1. CASE HandleVoiceState
    BY <1>1 DEF HandleVoiceState
  <1>2. CASE ProcessVoiceCommand
    BY <1>2 DEF ProcessVoiceCommand
  <1>3. CASE LoseVoiceCommand
    BY <1>3 DEF LoseVoiceCommand
  <1>4. ASSUME NEW u \in Users, NEW c \in Channels \cup {None}, UserMoves(u, c)
        PROVE  IInv'
    BY <1>4 DEF UserMoves
  <1>5. ASSUME NEW r \in Rpcs, CallerGivesUp(r)
        PROVE  IInv'
    BY <1>5 DEF CallerGivesUp
  <1>6. ASSUME NEW S \in SUBSET Rooms, HoldChannels(S)
        PROVE  IInv'
    BY <1>6 DEF HoldChannels
  <1>7. ASSUME NEW c \in Channels, HoldLapses(c)
        PROVE  IInv'
    BY <1>7 DEF HoldLapses
  <1>8. CASE HandleGuildDelete
    BY <1>8 DEF HandleGuildDelete
  <1>9. CASE HandleGuildUpdate
    BY <1>9 DEF HandleGuildUpdate
  <1>10. CASE ConnectionFails
    BY <1>10 DEF ConnectionFails
  <1>11. CASE UNCHANGED vars
    BY <1>11 DEF vars
  <1> QED
    BY <1>1, <1>2, <1>3, <1>4, <1>5, <1>6, <1>7, <1>8, <1>9, <1>10, <1>11 DEF Environment

-----------------------------------------------------------------------------
(* The theorems.                                                             *)

\* The janitor starts with every variable of its type.
LEMMA TypeInit == Init => TypeOK
  <1> SUFFICES ASSUME Init
               PROVE  TypeOK
    OBVIOUS
  <1>1. NoCall \in CallRecord
    BY DEF NoCall, CallRecord
  <1>2. call \in [Jobs -> CallRecord]
    BY <1>1 DEF Init
  <1>3. pc \in [Jobs -> Labels] /\ err \in [Jobs -> Errors]
    BY DEF Init, Labels, Errors
  <1>4. session \in [open : BOOLEAN, chan : Channels \cup {None}, got : BOOLEAN]
    BY DEF Init, NoSession
  <1>5. events \in Seq(Event) /\ outbox \in Seq(Channels \cup {None})
    BY DEF Init
  <1> QED
    BY <1>2, <1>3, <1>4, <1>5 DEF Init, TypeOK

\* No step of any goroutine or of Discord changes that.
LEMMA TypeStep == TypeOK /\ [Next]_vars => TypeOK'
  <1>1. TypeOK /\ AllDone => TypeOK'
    BY OutsideStepKeepsType DEF AllDone
  <1> QED
    BY <1>1, VoiceStepKeepsType, CallerStepKeepsType, OutsideStepKeepsType DEF Next

\* Every variable keeps its type: a held channel is a channel, a job that moves
\* people has a channel to come from, and so on, for any number of jobs.
THEOREM TypeCorrect == Spec => []TypeOK
  BY TypeInit, TypeStep, PTL DEF Spec

\* The invariant holds when nobody has asked for the slot yet.
LEMMA InvInit == Init => IInv
  BY JobAssumption
     DEF Init, IInv, SlotInv, SessionInv, StageInv, HoldInv, GiveUpInv, HoldingLabels,
         UsingLabels, NoSession, NoCall, Jobs

\* No step of any goroutine or of Discord breaks it.
LEMMA InvStep == TypeOK /\ IInv /\ [Next]_vars => IInv'
  <1>1. TypeOK /\ IInv /\ AllDone => IInv'
    BY OutsideStepKeepsInv DEF AllDone
  <1> QED
    BY <1>1, VoiceStepKeepsInv, CallerStepKeepsInv, OutsideStepKeepsInv DEF Next

\* The voice slot is held by exactly the job that is between acquireVoice and
\* releaseVoice, and what that job checked on the way is still so.
THEOREM InvCorrect == Spec => [](TypeOK /\ IInv)
  BY TypeInit, TypeStep, InvInit, InvStep, PTL DEF Spec

\* createJoinSession never finds a session there, whatever failed before.
THEOREM NoSessionConflictCorrect == Spec => []NoSessionConflict
  <1>1. TypeOK /\ IInv => NoSessionConflict
    BY DEF TypeOK, IInv, SlotInv, SessionInv, NoSessionConflict, HoldingLabels, UsingLabels
  <1> QED
    BY <1>1, InvCorrect, PTL

\* A room that was held when the round-up got the slot is left alone.
THEOREM RoundUpSparesHeldRoomCorrect == Spec => []RoundUpSparesHeldRoom
  <1>1. IInv => RoundUpSparesHeldRoom
    BY DEF IInv, HoldInv, RoundUpSparesHeldRoom
  <1> QED
    BY <1>1, InvCorrect, PTL

\* A call given up before it got the slot does nothing with it.
THEOREM GivenUpCallMovesNobodyCorrect == Spec => []GivenUpCallMovesNobody
  <1>1. IInv => GivenUpCallMovesNobody
    BY DEF IInv, GiveUpInv, GivenUpCallMovesNobody
  <1> QED
    BY <1>1, InvCorrect, PTL

-----------------------------------------------------------------------------
(* VoiceJobs implements VoiceLease.                                          *)

\* The lease's steps, in terms of the slot, Present and displaced.
LeaseStep(j) ==
    \/ UNCHANGED <<slot, Present, displaced>>
    \/ slot # None /\ ~Present /\ Present' /\ UNCHANGED <<slot, displaced>>
    \/ slot # None /\ Present /\ ~Present' /\ UNCHANGED <<slot, displaced>>
    \/ slot # None /\ ~Present /\ slot' = None /\ ~Present' /\ UNCHANGED displaced
    \/ \E u \in Users : slot # None /\ Present /\ UNCHANGED <<slot, Present>>
                       /\ displaced' = [displaced EXCEPT ![slot] = @ \cup {u}]
    \/ slot = None /\ slot' = j /\ UNCHANGED <<Present, displaced>>
    \/ slot # j /\ UNCHANGED <<slot, Present>> /\ displaced' = [displaced EXCEPT ![j] = {}]

\* A step of the lease, or none, is a step of the lease's specification.
LEMMA LeaseStepIsNext ==
    ASSUME NEW j \in Jobs, LeaseStep(j)
    PROVE  [Lease!Next]_(Lease!vars)
  <1> USE DEF Lease!Next, Lease!vars
  <1>1. Present \in BOOLEAN /\ Present' \in BOOLEAN
    BY DEF Present
  <1>2. CASE UNCHANGED <<slot, Present, displaced>>
    BY <1>2
  <1>3. CASE slot # None /\ ~Present /\ Present' /\ UNCHANGED <<slot, displaced>>
    BY <1>1, <1>3 DEF Lease!Arrive
  <1>4. CASE slot # None /\ Present /\ ~Present' /\ UNCHANGED <<slot, displaced>>
    BY <1>1, <1>4 DEF Lease!Depart
  <1>5. CASE slot # None /\ ~Present /\ slot' = None /\ ~Present' /\ UNCHANGED displaced
    BY <1>1, <1>5 DEF Lease!Drop
  <1>6. CASE \E u \in Users : slot # None /\ Present /\ UNCHANGED <<slot, Present>>
                             /\ displaced' = [displaced EXCEPT ![slot] = @ \cup {u}]
    BY <1>6 DEF Lease!Displace
  <1>7. CASE slot = None /\ slot' = j /\ UNCHANGED <<Present, displaced>>
    BY <1>7 DEF Lease!Take
  <1>8. CASE slot # j /\ UNCHANGED <<slot, Present>>
             /\ displaced' = [displaced EXCEPT ![j] = {}]
    BY <1>8 DEF Lease!Request
  <1> QED
    BY <1>2, <1>3, <1>4, <1>5, <1>6, <1>7, <1>8 DEF LeaseStep

\* The holder's steps are steps of the lease.
LEMMA VoiceStepRefines ==
    ASSUME TypeOK, IInv, NEW j \in Jobs, VoiceStep(j)
    PROVE  LeaseStep(j)
  <1>1. slot = j /\ slot # None /\ Present \in BOOLEAN /\ Present' \in BOOLEAN
    BY JobAssumption
       DEF VoiceStep, IInv, SlotInv, HoldingLabels, UsingLabels, Present, CheckGrant,
           TakeSnapshot, CreateJoinSession, SendJoin, SendJoinFails, JoinCompletes,
           JoinTimesOut, PlaySound, PlaySoundFails, MoveUser, MoveUserFails, MovesDone,
           Leave, LeaveFails, ReleaseVoice, Jobs
  <1>2. pc \in [Jobs -> Labels]
    BY DEF TypeOK
  <1>3. pc[j] \in {"granted", "snapshot", "move"} => call[j].stage = "arrive"
    BY DEF IInv, StageInv
  <1> USE <1>1, <1>2, <1>3
      DEF LeaseStep, Present, UsingLabels, Goto, Fail, Elsewhere, locals, discord, client, work, grant
  <1>4. CASE CheckGrant(j)
    BY <1>4 DEF CheckGrant
  <1>5. CASE TakeSnapshot(j)
    BY <1>5 DEF TakeSnapshot
  <1>6. CASE CreateJoinSession(j)
    BY <1>6 DEF CreateJoinSession, JoinFailed
  <1>7. CASE SendJoin(j)
    BY <1>7 DEF SendJoin
  <1>8. CASE SendJoinFails(j)
    BY <1>8 DEF SendJoinFails, JoinFailed
  <1>9. CASE JoinCompletes(j)
    BY <1>9 DEF JoinCompletes
  <1>10. CASE JoinTimesOut(j)
    BY <1>10 DEF JoinTimesOut, JoinFailed
  <1>11. CASE PlaySound(j)
    BY <1>11 DEF PlaySound
  <1>12. CASE PlaySoundFails(j)
    BY <1>12 DEF PlaySoundFails
  <1>13. ASSUME NEW u \in Users, MoveUser(j, u)
         PROVE  LeaseStep(j)
    BY <1>13 DEF MoveUser, Displace
  <1>14. ASSUME NEW u \in Users, MoveUserFails(j, u)
         PROVE  LeaseStep(j)
    BY <1>14 DEF MoveUserFails, Displace
  <1>15. CASE MovesDone(j)
    BY <1>15 DEF MovesDone
  <1>16. CASE Leave(j)
    BY <1>16 DEF Leave
  <1>17. CASE LeaveFails(j)
    BY <1>17 DEF LeaveFails
  <1>18. CASE ReleaseVoice(j)
    BY <1>18 DEF ReleaseVoice
  <1> QED
    BY <1>4, <1>5, <1>6, <1>7, <1>8, <1>9, <1>10, <1>11, <1>12, <1>13, <1>14, <1>15,
       <1>16, <1>17, <1>18 DEF VoiceStep

\* Calling moveSomeUsers is a request for the lease.
LEMMA CallRefines ==
    ASSUME TypeOK, IInv, NEW j \in Jobs, pc[j] \notin HoldingLabels,
           NEW from, NEW to, NEW only, Call(j, from, to, only), UNCHANGED slot
    PROVE  LeaseStep(j)
  <1>1. slot # j
    BY DEF IInv, SlotInv
  <1>2. slot # None => pc'[slot] = pc[slot] /\ call'[slot] = call[slot]
    BY <1>1 DEF TypeOK, Call, Goto
  <1>3. UNCHANGED Present
    BY <1>2 DEF Present
  <1> QED
    BY <1>1, <1>3 DEF LeaseStep, Call

\* So is closeOffice's call.
LEMMA CloseOfficeRefines ==
    ASSUME TypeOK, IInv, NEW k \in Closers, CloseOffice(k), guildKnown
    PROVE  \E j \in Jobs : LeaseStep(j)
  <1>1. k \in Jobs /\ pc[k] \notin HoldingLabels /\ UNCHANGED slot
    BY DEF CloseOffice, Outside, Jobs, HoldingLabels, UsingLabels
  <1> QED
    BY <1>1, CallRefines DEF CloseOffice

\* The checker's call is a request; skipping a room is nothing.
LEMMA CheckRoomRefines ==
    ASSUME TypeOK, IInv, NEW c \in Channels, CheckRoom(c), c \notin held
    PROVE  \E j \in Jobs : LeaseStep(j)
  <1>1. Checker \in Jobs /\ pc[Checker] \notin HoldingLabels /\ UNCHANGED slot
    BY DEF CheckRoom, Outside, Jobs, HoldingLabels, UsingLabels
  <1> QED
    BY <1>1, CallRefines DEF CheckRoom

\* A MoveMembers call is a request; refusing one is nothing.
LEMMA MoveMembersRefines ==
    ASSUME TypeOK, IInv, NEW r \in Rpcs, NEW q \in MoveRequests, MoveMembers(r, q), Valid(q)
    PROVE  \E j \in Jobs : LeaseStep(j)
  <1>1. r \in Jobs /\ pc[r] \notin HoldingLabels /\ UNCHANGED slot
    BY DEF MoveMembers, Outside, Jobs, HoldingLabels, UsingLabels
  <1> QED
    BY <1>1, CallRefines DEF MoveMembers

\* Getting the slot and calling moveSomeUsers are steps of the lease, and the
\* rest of what callers do is none of its business.
LEMMA CallerStepRefines ==
    ASSUME TypeOK, IInv,
           \/ \E j \in Jobs : AcquireVoice(j)
           \/ Starts \/ CheckStep
           \/ \E s \in Sweepers : SweepStep(s)
           \/ \E r \in Rpcs : RpcStep(r)
    PROVE  \E j \in Jobs : LeaseStep(j)
  <1>1. \A j \in Jobs : pc[j] \notin HoldingLabels => slot # j
    BY DEF IInv, SlotInv
  <1>2. pc \in [Jobs -> Labels] /\ slot \in Jobs \cup {None} /\ None \notin Jobs
    BY JobAssumption DEF TypeOK
  <1>3. \A s \in Sweepers : call[s].stage = "arrive"
    BY DEF IInv, StageInv
  <1>4. call \in [Jobs -> CallRecord]
    BY DEF TypeOK
  <1> USE <1>1, <1>2, JobAssumption
      DEF LeaseStep, Present, HoldingLabels, UsingLabels, Goto, Fail, Call, Outside, Elsewhere, locals,
          discord, work, grant, Jobs
  <1>5. ASSUME NEW i \in Jobs, AcquireVoice(i)
        PROVE  \E j \in Jobs : LeaseStep(j)
    BY <1>5 DEF AcquireVoice
  <1>6. ASSUME NEW k \in Closers, CloseOffice(k)
        PROVE  \E j \in Jobs : LeaseStep(j)
    <2>1. CASE guildKnown
      BY <1>6, <2>1, CloseOfficeRefines
    <2>2. CASE ~guildKnown
      BY <1>6, <2>2 DEF CloseOffice
    <2> QED
      BY <2>1, <2>2
  <1>7. ASSUME NEW s \in Sweepers, SweepStarts(s)
        PROVE  \E j \in Jobs : LeaseStep(j)
    BY <1>7, <1>3, <1>4 DEF SweepStarts
  <1>8. ASSUME NEW r \in Rpcs, LookupFails(r)
        PROVE  \E j \in Jobs : LeaseStep(j)
    BY <1>8 DEF LookupFails
  <1>9. ASSUME NEW r \in Rpcs, NEW q \in MoveRequests, MoveMembers(r, q)
        PROVE  \E j \in Jobs : LeaseStep(j)
    <2>1. CASE Valid(q)
      BY <1>9, <2>1, MoveMembersRefines
    <2>2. CASE ~Valid(q)
      BY <1>9, <2>2 DEF MoveMembers
    <2> QED
      BY <2>1, <2>2
  <1>10. CASE CheckSkipped
    BY <1>10 DEF CheckSkipped
  <1>11. CASE CheckBegins
    BY <1>11 DEF CheckBegins
  <1>12. CASE CheckContinues
    BY <1>12 DEF CheckContinues
  <1>13. CASE CheckEnds
    BY <1>13 DEF CheckEnds
  <1>14. ASSUME NEW c \in Channels, CheckRoom(c)
         PROVE  \E j \in Jobs : LeaseStep(j)
    <2>1. CASE c \notin held
      BY <1>14, <2>1, CheckRoomRefines
    <2>2. CASE c \in held
      BY <1>14, <2>2 DEF CheckRoom
    <2> QED
      BY <2>1, <2>2
  <1>15. ASSUME NEW s \in Sweepers, SweepLookupFails(s)
         PROVE  \E j \in Jobs : LeaseStep(j)
    BY <1>15, <1>3, <1>4 DEF SweepLookupFails
  <1>16. ASSUME NEW s \in Sweepers, NEW c \in Channels, SweepPicks(s, c)
         PROVE  \E j \in Jobs : LeaseStep(j)
    BY <1>16, <1>3, <1>4 DEF SweepPicks
  <1>17. ASSUME NEW r \in Rpcs, AbandonWait(r)
         PROVE  \E j \in Jobs : LeaseStep(j)
    BY <1>17 DEF AbandonWait
  <1>18. ASSUME NEW r \in Rpcs, Reply(r)
         PROVE  \E j \in Jobs : LeaseStep(j)
    BY <1>18 DEF Reply
  <1> QED
    BY <1>5, <1>6, <1>7, <1>8, <1>9, <1>10, <1>11, <1>12, <1>13, <1>14, <1>15, <1>16,
       <1>17, <1>18 DEF Starts, CheckStep, SweepStep, RpcStep

\* Nor is what Discord, the people in it and the event loop do.
LEMMA OutsideStepRefines ==
    ASSUME TypeOK, IInv, Environment \/ HandleVoiceState \/ UNCHANGED vars
    PROVE  UNCHANGED <<slot, Present, displaced>>
  <1> USE DEF Present, UsingLabels, discord, client, work, rpc, grant, budget
  <1>1. CASE HandleVoiceState
    BY <1>1 DEF HandleVoiceState, TypeOK, Jobs
  <1>2. CASE ProcessVoiceCommand
    BY <1>2 DEF ProcessVoiceCommand
  <1>3. CASE LoseVoiceCommand
    BY <1>3 DEF LoseVoiceCommand
  <1>4. ASSUME NEW u \in Users, NEW c \in Channels \cup {None}, UserMoves(u, c)
        PROVE  UNCHANGED <<slot, Present, displaced>>
    BY <1>4 DEF UserMoves
  <1>5. ASSUME NEW r \in Rpcs, CallerGivesUp(r)
        PROVE  UNCHANGED <<slot, Present, displaced>>
    BY <1>5 DEF CallerGivesUp
  <1>6. ASSUME NEW S \in SUBSET Rooms, HoldChannels(S)
        PROVE  UNCHANGED <<slot, Present, displaced>>
    BY <1>6 DEF HoldChannels
  <1>7. ASSUME NEW c \in Channels, HoldLapses(c)
        PROVE  UNCHANGED <<slot, Present, displaced>>
    BY <1>7 DEF HoldLapses
  <1>8. CASE HandleGuildDelete
    BY <1>8 DEF HandleGuildDelete
  <1>9. CASE HandleGuildUpdate
    BY <1>9 DEF HandleGuildUpdate
  <1>10. CASE ConnectionFails
    BY <1>10 DEF ConnectionFails
  <1>11. CASE UNCHANGED vars
    BY <1>11 DEF vars
  <1> QED
    BY <1>1, <1>2, <1>3, <1>4, <1>5, <1>6, <1>7, <1>8, <1>9, <1>10, <1>11 DEF Environment

\* The voice slot implements the lease: in every run, with any jobs, failures
\* and timeouts, each job has the connection to itself and tells the bot to
\* leave before it gives the connection up.
THEOREM LeaseCorrect == Spec => LeaseSpec
  <1>1. Init => Lease!Init
    BY DEF Init, Lease!Init, Present
  <1>2. TypeOK /\ IInv /\ [Next]_vars => [Lease!Next]_(Lease!vars)
    <2> SUFFICES ASSUME TypeOK, IInv, [Next]_vars
                 PROVE  [Lease!Next]_(Lease!vars)
      OBVIOUS
    <2>1. ASSUME Environment \/ HandleVoiceState \/ UNCHANGED vars
          PROVE  [Lease!Next]_(Lease!vars)
      BY <2>1, OutsideStepRefines DEF Lease!vars
    <2>2. ASSUME NEW j \in Jobs, VoiceStep(j)
          PROVE  [Lease!Next]_(Lease!vars)
      BY <2>2, VoiceStepRefines, LeaseStepIsNext
    <2>3. ASSUME \/ \E j \in Jobs : AcquireVoice(j)
                 \/ Starts \/ CheckStep
                 \/ \E s \in Sweepers : SweepStep(s)
                 \/ \E r \in Rpcs : RpcStep(r)
          PROVE  [Lease!Next]_(Lease!vars)
      BY <2>3, CallerStepRefines, LeaseStepIsNext
    <2> QED
      BY <2>1, <2>2, <2>3 DEF Next, AllDone
  <1> QED
    BY <1>1, <1>2, InvCorrect, PTL DEF Spec, LeaseSpec, Lease!Spec
=============================================================================
