------------------------------ MODULE VoiceJobs ------------------------------
(***************************************************************************)
(* The janitor's voice jobs in one guild: the round-up of people into the  *)
(* office (checker.go), the move when the office closes (officeState.go),  *)
(* the sweep (sweep.go) and the MoveMembers and HoldChannels calls of the  *)
(* gRPC API (server.go).  They share one voice connection (utils.go), on   *)
(* which a join is asked for with a gateway command and confirmed by a     *)
(* gateway event (voice.go, ws.go), and they read a cache of who is where  *)
(* that the gateway's event loop keeps up to date.                         *)
(*                                                                         *)
(* pc[j] says where job j is.  From "acquiring" to "release" it runs       *)
(* moveSomeUsers (or sweepChannel, for a sweep); the other values belong   *)
(* to its caller.  Discord and the people in it are the environment.       *)
(*                                                                         *)
(* A definition just before an action, named after it and without a comment*)
(* (CheckGrantNoSkip), is the action with a plausible mistake in it.  No   *)
(* action uses it; put in the action's place it breaks a property.         *)
(***************************************************************************)
EXTENDS Integers, Sequences, FiniteSets

CONSTANTS
    Users,          \* the people in the guild
    Bot,            \* the janitor's own Discord user
    Office,         \* the office voice channel
    Default,        \* the channel people go to when the office closes
    Rooms,          \* the guild's other voice channels
    None,           \* "no channel", "no job"
    Checker,        \* the goroutine of the channel checker (at most one runs)
    Closers,        \* runs of closeOffice (the cron job, the start-up check)
    Sweepers,       \* runs of sweepChannel
    Rpcs,           \* MoveMembers calls
    MoveRequests,   \* the requests these calls make
    WorkingHours,   \* the checker acts (a weekday from 9:00 to 16:30, no holiday)
    MaxUserMoves,   \* bound: times people change channel by themselves
    MaxHoldCalls,   \* bound: HoldChannels calls and lapses of a hold
    MaxFaults       \* bound: failures of a request, a command or the guild

Channels == Rooms \cup {Office, Default}
Jobs == {Checker} \cup Closers \cup Sweepers \cup Rpcs
Members == Users \cup {Bot}

ASSUME ChannelAssumption ==
    /\ Office # Default
    /\ Rooms \cap {Office, Default} = {}
    /\ None \notin Channels

ASSUME JobAssumption ==
    /\ None \notin Jobs
    /\ Checker \notin Closers \cup Sweepers \cup Rpcs
    /\ Closers \cap Sweepers = {}
    /\ Rpcs \cap (Closers \cup Sweepers) = {}

ASSUME MemberAssumption == Bot \notin Users

ASSUME RequestAssumption ==
    MoveRequests \subseteq
        [from : Channels, to : Channels \cup {None}, only : SUBSET Users]

ASSUME BoundAssumption ==
    /\ WorkingHours \in BOOLEAN
    /\ MaxUserMoves \in Nat /\ MaxHoldCalls \in Nat /\ MaxFaults \in Nat

VARIABLES
    \* Discord
    place,          \* the channel each member is really in, or None
    outbox,         \* voice state commands (op 4) sent and not yet processed
    events,         \* voice state events sent and not yet handled
    displaced,      \* per job: the people Discord moved at its request
    \* the gateway client's state
    cache,          \* guild.VoiceStates: the channel each member was last seen in
    guildKnown,     \* the guild is in the client's guilds map
    session,        \* the guild's entry in voiceJoinSessions
    link,           \* the gateway connection: "up", or gone for good, with
                    \* readyCh never closed ("stuck") or closed ("cut")
    \* the janitor's shared state
    slot,           \* the job holding voiceSlot, or None
    held,           \* the channels under a hold that has not lapsed
    \* per job
    pc, call, targets, moved, err,
    rooms,          \* the channels a check has left; those a sweep chooses from
    cancelled,      \* the calls whose context has ended
    reply,          \* how each MoveMembers call was answered
    \* bookkeeping for the properties and the bounds
    grantHeld,      \* channels held ever since the slot was last granted
    grantCancelled, \* the slot was granted to a call that had given up
    late, lost,     \* a join has timed out; a voice command never arrived
    up,             \* the process runs: it has not panicked or ended
    userMoves, holdCalls, faults

discord == <<place, outbox, events, displaced>>
client == <<cache, guildKnown, session, link>>
work == <<call, targets, moved, err, rooms>>
rpc == <<cancelled, reply>>
grant == <<grantHeld, grantCancelled>>
budget == <<userMoves, holdCalls, faults>>
vars == <<discord, client, slot, held, pc, work, rpc, grant, late, lost, up, budget>>

NoSession == [open |-> FALSE, chan |-> None, got |-> FALSE]
NoCall == [from |-> None, to |-> None, only |-> {}, stage |-> "arrive"]

\* The channel the job's join asks for: fromChannel, then toChannel.
Target(j) == IF call[j].stage = "arrive" THEN call[j].from ELSE call[j].to

Fault == faults < MaxFaults /\ faults' = faults + 1
NoFault == UNCHANGED faults

\* sendWSMessage returns an error.
CommandFails ==
    \/ link = "up" /\ Fault
    \/ link = "cut" /\ NoFault

Labels == {"idle", "check", "rooms", "acquiring", "granted", "snapshot", "create", "send",
           "await", "sound", "move", "leave", "release", "done"}
Errors == {"none", "lookup", "ctx", "guild", "join", "sound", "move", "change"}
Event == [who : Members, chan : Channels \cup {None}, by : Jobs \cup {None}]
CallRecord == [from : Channels \cup {None}, to : Channels \cup {None}, only : SUBSET Users,
               stage : {"arrive", "depart"}]

TypeOK ==
    /\ place \in [Members -> Channels \cup {None}]
    /\ outbox \in Seq(Channels \cup {None})
    /\ events \in Seq(Event)
    /\ displaced \in [Jobs -> SUBSET Users]
    /\ cache \in [Members -> Channels \cup {None}]
    /\ guildKnown \in BOOLEAN
    /\ session \in [open : BOOLEAN, chan : Channels \cup {None}, got : BOOLEAN]
    /\ link \in {"up", "stuck", "cut"}
    /\ slot \in Jobs \cup {None}
    /\ held \subseteq Channels
    /\ pc \in [Jobs -> Labels]
    /\ call \in [Jobs -> CallRecord]
    /\ targets \in [Jobs -> SUBSET Users]
    /\ moved \in [Jobs -> SUBSET Users]
    /\ err \in [Jobs -> Errors]
    /\ rooms \in [Jobs -> SUBSET Channels]
    /\ cancelled \subseteq Rpcs
    /\ reply \in [Rpcs -> {"none", "ok", "partial", "status"}]
    /\ grantHeld \subseteq Channels
    /\ grantCancelled \in BOOLEAN
    /\ late \in BOOLEAN
    /\ lost \in BOOLEAN
    /\ up \in BOOLEAN
    /\ userMoves \in Nat
    /\ holdCalls \in Nat
    /\ faults \in Nat

Init ==
    /\ place \in [Members -> Channels \cup {None}]
    /\ place[Bot] = None
    /\ cache = place
    /\ outbox = <<>> /\ events = <<>>
    /\ displaced = [j \in Jobs |-> {}]
    /\ guildKnown = TRUE
    /\ session = NoSession /\ link = "up"
    /\ slot = None /\ held = {}
    /\ pc = [j \in Jobs |-> "idle"]
    /\ call = [j \in Jobs |-> NoCall]
    /\ targets = [j \in Jobs |-> {}]
    /\ moved = [j \in Jobs |-> {}]
    /\ err = [j \in Jobs |-> "none"]
    /\ rooms = [j \in Jobs |-> {}]
    /\ cancelled = {}
    /\ reply = [r \in Rpcs |-> "none"]
    /\ grantHeld = {} /\ grantCancelled = FALSE
    /\ late = FALSE /\ lost = FALSE /\ up = TRUE
    /\ userMoves = 0 /\ holdCalls = 0 /\ faults = 0

-----------------------------------------------------------------------------
(* Discord and the people in the guild (external).                         *)

\* A member ends up in a channel and the gateway says so.
Emit(who, chan, by) ==
    /\ place' = [place EXCEPT ![who] = chan]
    /\ events' = Append(events, [who |-> who, chan |-> chan, by |-> by])

\* Discord processes the bot's next voice state command.  A command that
\* changes nothing may go unanswered.
ProcessVoiceCommand ==
    /\ outbox # <<>>
    /\ outbox' = Tail(outbox)
    /\ \/ Emit(Bot, Head(outbox), None)
       \/ /\ place[Bot] = Head(outbox)
          /\ UNCHANGED <<place, events>>
    /\ UNCHANGED <<displaced, client, slot, held, pc, work, rpc, grant, late, lost, up, budget>>

\* The connection a command was written to breaks before Discord reads it.
LoseVoiceCommand ==
    /\ outbox # <<>>
    /\ Fault
    /\ outbox' = Tail(outbox)
    /\ lost' = TRUE
    /\ UNCHANGED <<place, events, displaced, client, slot, held, pc, work, rpc, grant,
                   late, up, userMoves, holdCalls>>

\* Somebody joins, leaves or changes voice channel.
UserMoves(u, c) ==
    /\ userMoves < MaxUserMoves
    /\ place[u] # c
    /\ Emit(u, c, None)
    /\ userMoves' = userMoves + 1
    /\ UNCHANGED <<outbox, displaced, client, slot, held, pc, work, rpc, grant, late, lost,
                   up, holdCalls, faults>>

\* The caller of a MoveMembers call gives up on it.
CallerGivesUp(r) ==
    /\ r \notin cancelled
    /\ pc[r] \notin {"idle", "done"}
    /\ cancelled' = cancelled \cup {r}
    /\ UNCHANGED <<discord, client, slot, held, pc, work, reply, grant, late, lost, up, budget>>

-----------------------------------------------------------------------------
(* The gateway client: handleEvent.                                        *)

HandleVoiceStateIgnoresLeavers ==
    LET e == Head(events) IN
    /\ link = "up"
    /\ events # <<>>
    /\ events' = Tail(events)
    /\ session' = IF e.who = Bot /\ e.chan # None /\ session.open /\ session.chan = e.chan
                  THEN [session EXCEPT !.got = TRUE] ELSE session
    /\ cache' = IF guildKnown /\ e.chan # None THEN [cache EXCEPT ![e.who] = e.chan] ELSE cache
    /\ pc' = IF pc[Checker] = "idle" THEN [pc EXCEPT ![Checker] = "check"] ELSE pc
    /\ UNCHANGED <<place, outbox, displaced, guildKnown, link, slot, held, work, rpc, grant,
                   late, lost, up, budget>>

\* VOICE_STATE_UPDATE: the bot's own state in the channel being joined
\* completes the join; then the cache is updated; then the event is emitted,
\* and the checker's handler starts a check unless one is running (TryLock).
HandleVoiceState ==
    LET e == Head(events) IN
    /\ link = "up"
    /\ events # <<>>
    /\ events' = Tail(events)
    /\ session' = IF e.who = Bot /\ e.chan # None /\ session.open /\ session.chan = e.chan
                  THEN [session EXCEPT !.got = TRUE] ELSE session
    /\ cache' = IF guildKnown THEN [cache EXCEPT ![e.who] = e.chan] ELSE cache
    /\ pc' = IF pc[Checker] = "idle" THEN [pc EXCEPT ![Checker] = "check"] ELSE pc
    /\ UNCHANGED <<place, outbox, displaced, guildKnown, link, slot, held, work, rpc, grant,
                   late, lost, up, budget>>

\* GUILD_DELETE (the bot is removed, or the guild is unavailable).
HandleGuildDelete ==
    /\ link = "up"
    /\ guildKnown
    /\ Fault
    /\ guildKnown' = FALSE
    /\ UNCHANGED <<discord, cache, session, link, slot, held, pc, work, rpc, grant, late, lost, up,
                   userMoves, holdCalls>>

\* GUILD_UPDATE replaces the guild by what the message says, which is nothing
\* about voice states: the cache forgets who is where.
HandleGuildUpdate ==
    /\ link = "up"
    /\ guildKnown
    /\ Fault
    /\ cache' = [m \in Members |-> None]
    /\ UNCHANGED <<discord, guildKnown, session, link, slot, held, pc, work, rpc, grant, late,
                   lost, up, userMoves, holdCalls>>

\* The gateway connection ends for good (GatewayClient tells how): with the
\* program, or without it, and then nothing is read any more, and commands wait
\* for ever for readyCh, or fail if it was closed before.
ConnectionFails ==
    /\ link = "up"
    /\ Fault
    /\ \/ up' = FALSE /\ UNCHANGED link
       \/ link' \in {"stuck", "cut"} /\ UNCHANGED up
    /\ UNCHANGED <<discord, cache, guildKnown, session, slot, held, pc, work, rpc, grant, late,
                   lost, userMoves, holdCalls>>

-----------------------------------------------------------------------------
(* Holds.                                                                  *)

\* HoldChannels replaces the guild's holds, unless the guild is unknown.
HoldChannels(S) ==
    /\ holdCalls < MaxHoldCalls
    /\ holdCalls' = holdCalls + 1
    /\ held' = IF guildKnown THEN S ELSE held
    /\ grantHeld' = grantHeld \cap held'
    /\ UNCHANGED <<discord, client, slot, pc, work, rpc, grantCancelled, late, lost, up,
                   userMoves, faults>>

\* The time a channel was held until has come: held() no longer reports it.
HoldLapses(c) ==
    /\ c \in held
    /\ holdCalls < MaxHoldCalls
    /\ holdCalls' = holdCalls + 1
    /\ held' = held \ {c}
    /\ grantHeld' = grantHeld \ {c}
    /\ UNCHANGED <<discord, client, slot, pc, work, rpc, grantCancelled, late, lost, up,
                   userMoves, faults>>

-----------------------------------------------------------------------------
(* moveSomeUsers, step by step; a sweep shares its steps where it does the *)
(* same.  Every step is taken by one job's goroutine.                      *)

\* What no step of a job's goroutine touches.
Elsewhere == <<held, cancelled, reply, up, userMoves, holdCalls>>
\* A job's locals but its error.
locals == <<call, targets, moved, rooms>>

Goto(j, label) == pc' = [pc EXCEPT ![j] = label]
Fail(j, label, e) == Goto(j, label) /\ err' = [err EXCEPT ![j] = e]

\* A caller calls moveSomeUsers.
Call(j, from, to, only) ==
    /\ Goto(j, "acquiring")
    /\ call' = [call EXCEPT ![j] = [from |-> from, to |-> to, only |-> only,
                                    stage |-> "arrive"]]
    /\ targets' = [targets EXCEPT ![j] = {}]
    /\ moved' = [moved EXCEPT ![j] = {}]
    /\ err' = [err EXCEPT ![j] = "none"]
    /\ displaced' = [displaced EXCEPT ![j] = {}]

AcquireVoiceAlways(j) ==
    /\ pc[j] = "acquiring"
    /\ slot' = j
    /\ grantHeld' = held
    /\ grantCancelled' = (j \in cancelled)
    /\ Goto(j, "granted")
    /\ UNCHANGED <<Elsewhere, discord, client, work, late, lost, faults>>

\* acquireVoice gets the slot.  Its select may do so even if ctx has ended.
AcquireVoice(j) ==
    /\ pc[j] = "acquiring"
    /\ slot = None
    /\ slot' = j
    /\ grantHeld' = held
    /\ grantCancelled' = (j \in cancelled)
    /\ Goto(j, "granted")
    /\ UNCHANGED <<Elsewhere, discord, client, work, late, lost, faults>>

\* acquireVoice sees that ctx has ended.
AbandonWait(r) ==
    /\ pc[r] = "acquiring"
    /\ r \in cancelled
    /\ Fail(r, "done", "ctx")
    /\ UNCHANGED <<Elsewhere, discord, client, slot, locals, grant, late, lost, faults>>

CheckGrantNoCtx(j) ==
    /\ pc[j] = "granted"
    /\ j \notin Sweepers
    /\ IF j = Checker /\ call[j].from \in held
       THEN Goto(j, "release") /\ UNCHANGED err
       ELSE Goto(j, "snapshot") /\ UNCHANGED err
    /\ UNCHANGED <<Elsewhere, discord, client, slot, locals, grant, late, lost, faults>>

CheckGrantNoSkip(j) ==
    /\ pc[j] = "granted"
    /\ j \notin Sweepers
    /\ IF j \in cancelled
       THEN Fail(j, "release", "ctx")
       ELSE Goto(j, "snapshot") /\ UNCHANGED err
    /\ UNCHANGED <<Elsewhere, discord, client, slot, locals, grant, late, lost, faults>>

\* With the slot: give up if the caller has, and skip a channel held by now.
CheckGrant(j) ==
    /\ pc[j] = "granted"
    /\ j \notin Sweepers
    /\ IF j \in cancelled
       THEN Fail(j, "release", "ctx")
       ELSE /\ IF j = Checker /\ call[j].from \in held
               THEN Goto(j, "release") ELSE Goto(j, "snapshot")
            /\ UNCHANGED err
    /\ UNCHANGED <<Elsewhere, discord, client, slot, locals, grant, late, lost, faults>>

\* Pick the users to move from the cached voice states.
TakeSnapshot(j) ==
    LET found == {u \in call[j].only : cache[u] = call[j].from} IN
    /\ pc[j] = "snapshot"
    /\ IF ~guildKnown
       THEN Fail(j, "release", "guild") /\ UNCHANGED targets
       ELSE /\ Goto(j, IF found = {} THEN "release" ELSE "create")
            /\ targets' = [targets EXCEPT ![j] = found]
            /\ UNCHANGED err
    /\ UNCHANGED <<Elsewhere, discord, client, slot, call, moved, rooms, grant, late, lost,
                   faults>>

\* JoinVoiceChannel returned an error: there is no voice client to leave with
\* if it was the first join, and the deferred Leave runs if it was the second.
JoinFailed(j) ==
    IF call[j].stage = "arrive" THEN Fail(j, "release", "join") ELSE Fail(j, "leave", "change")

\* createJoinSession, which fails if the guild already has a join session.
CreateJoinSession(j) ==
    /\ pc[j] = "create"
    /\ IF session.open
       THEN JoinFailed(j) /\ UNCHANGED session
       ELSE /\ session' = [open |-> TRUE, chan |-> Target(j), got |-> FALSE]
            /\ Goto(j, "send")
            /\ UNCHANGED err
    /\ UNCHANGED <<Elsewhere, discord, cache, guildKnown, link, slot, locals, grant, late, lost,
                   faults>>

\* The voice state command is written to the gateway connection.
SendJoin(j) ==
    /\ pc[j] = "send"
    /\ link = "up"
    /\ outbox' = Append(outbox, Target(j))
    /\ Goto(j, "await")
    /\ UNCHANGED <<Elsewhere, place, events, displaced, client, slot, work, grant, late, lost,
                   faults>>

\* sendWSMessage fails; the deferred call removes the join session.
SendJoinFails(j) ==
    /\ pc[j] = "send"
    /\ CommandFails
    /\ session' = NoSession
    /\ JoinFailed(j)
    /\ UNCHANGED <<Elsewhere, discord, cache, guildKnown, link, slot, locals, grant, late, lost>>

JoinCompletesUnasked(j) ==
    /\ pc[j] = "await"
    /\ session' = NoSession
    /\ Goto(j, "sound")
    /\ UNCHANGED <<Elsewhere, discord, cache, guildKnown, link, slot, work, grant, late, lost,
                   faults>>

\* The event loop has passed on a session ID: the join is complete.
JoinCompletes(j) ==
    /\ pc[j] = "await"
    /\ session.got
    /\ session' = NoSession
    /\ Goto(j, "sound")
    /\ UNCHANGED <<Elsewhere, discord, cache, guildKnown, link, slot, work, grant, late, lost,
                   faults>>

JoinTimesOutKeepsSession(j) ==
    /\ pc[j] = "await"
    /\ late' = TRUE
    /\ JoinFailed(j)
    /\ UNCHANGED <<Elsewhere, discord, client, slot, locals, grant, lost, faults>>

JoinTimesOutAnswered(j) ==
    /\ pc[j] = "await"
    /\ session.got
    /\ session' = NoSession
    /\ late' = TRUE
    /\ JoinFailed(j)
    /\ UNCHANGED <<Elsewhere, discord, cache, guildKnown, link, slot, locals, grant, lost, faults>>

JoinTimesOutRetries(j) ==
    /\ pc[j] = "await"
    /\ session' = NoSession
    /\ late' = TRUE
    /\ Goto(j, "create")
    /\ UNCHANGED <<Elsewhere, discord, cache, guildKnown, link, slot, work, grant, lost, faults>>

\* VoiceJoinTimeout passes first (the select may prefer it to the session ID).
JoinTimesOut(j) ==
    /\ pc[j] = "await"
    /\ session' = NoSession
    /\ late' = TRUE
    /\ JoinFailed(j)
    /\ UNCHANGED <<Elsewhere, discord, cache, guildKnown, link, slot, locals, grant, lost, faults>>

\* playSound in the channel just joined.  A sweep only plays its sound; a move
\* then moves people, or is done if this is the channel they were moved to.
PlaySound(j) ==
    /\ pc[j] = "sound"
    /\ Goto(j, IF j \in Sweepers \/ call[j].stage = "depart" THEN "leave" ELSE "move")
    /\ UNCHANGED <<Elsewhere, discord, client, slot, work, grant, late, lost, faults>>

PlaySoundFailsNoLeave(j) ==
    /\ pc[j] = "sound"
    /\ Fault
    /\ Fail(j, "release", "sound")
    /\ UNCHANGED <<Elsewhere, discord, client, slot, locals, grant, late, lost>>

\* The sound fails, on its third "not in voice" error or at once on another.
PlaySoundFails(j) ==
    /\ pc[j] = "sound"
    /\ Fault
    /\ Fail(j, "leave", "sound")
    /\ UNCHANGED <<Elsewhere, discord, client, slot, locals, grant, late, lost>>

\* Discord moves u at job j's request (external).
Displace(j, u) ==
    /\ Emit(u, call[j].to, j)
    /\ displaced' = [displaced EXCEPT ![j] = @ \cup {u}]

\* ModifyGuildMember succeeds for the next of the users.
MoveUser(j, u) ==
    /\ pc[j] = "move"
    /\ u \in targets[j] \ moved[j]
    /\ place[u] # None
    /\ Displace(j, u)
    /\ moved' = [moved EXCEPT ![j] = @ \cup {u}]
    /\ UNCHANGED <<Elsewhere, outbox, client, slot, pc, call, targets, err, rooms, grant, late,
                   lost, faults>>

MoveUserFailsGoesOn(j, u) ==
    /\ pc[j] = "move"
    /\ u \in targets[j] \ moved[j]
    /\ Fault
    /\ targets' = [targets EXCEPT ![j] = @ \ {u}]
    /\ place[u] # None
    /\ Displace(j, u)
    /\ UNCHANGED <<Elsewhere, pc, err, outbox, client, slot, call, moved, rooms, grant, late,
                   lost>>

\* ModifyGuildMember fails, because u has left voice, or because the request
\* or only its answer is lost; the users after u are not moved.
MoveUserFails(j, u) ==
    /\ pc[j] = "move"
    /\ u \in targets[j] \ moved[j]
    /\ \/ place[u] = None /\ NoFault /\ UNCHANGED <<place, events, displaced>>
       \/ Fault /\ UNCHANGED <<place, events, displaced>>
       \/ place[u] # None /\ Fault /\ Displace(j, u)
    /\ Fail(j, "leave", "move")
    /\ UNCHANGED <<Elsewhere, outbox, client, slot, locals, grant, late, lost>>

MovesDoneEarly(j) ==
    /\ pc[j] = "move"
    /\ moved[j] # {}
    /\ IF call[j].to = None
       THEN Goto(j, "leave") /\ UNCHANGED call
       ELSE Goto(j, "create") /\ call' = [call EXCEPT ![j].stage = "depart"]
    /\ UNCHANGED <<Elsewhere, discord, client, slot, targets, moved, err, rooms, grant, late,
                   lost, faults>>

\* Everybody is moved: follow them (ChangeChannel), unless they were
\* disconnected from voice.
MovesDone(j) ==
    /\ pc[j] = "move"
    /\ targets[j] \subseteq moved[j]
    /\ IF call[j].to = None
       THEN Goto(j, "leave") /\ UNCHANGED call
       ELSE Goto(j, "create") /\ call' = [call EXCEPT ![j].stage = "depart"]
    /\ UNCHANGED <<Elsewhere, discord, client, slot, targets, moved, err, rooms, grant, late,
                   lost, faults>>

LeaveAndRelease(j) ==
    /\ pc[j] = "leave"
    /\ slot' = None
    /\ Goto(j, "release")
    /\ UNCHANGED <<Elsewhere, discord, client, work, grant, late, lost, faults>>

\* The deferred Leave sends its command and does not wait for an answer.
Leave(j) ==
    /\ pc[j] = "leave"
    /\ link = "up"
    /\ outbox' = Append(outbox, None)
    /\ Goto(j, "release")
    /\ UNCHANGED <<Elsewhere, place, events, displaced, client, slot, work, grant, late, lost,
                   faults>>

\* The deferred Leave fails; the error is only logged.
LeaveFails(j) ==
    /\ pc[j] = "leave"
    /\ CommandFails
    /\ lost' = TRUE
    /\ Goto(j, "release")
    /\ UNCHANGED <<Elsewhere, discord, client, slot, work, grant, late>>

\* The deferred releaseVoice frees the slot, and the job's call returns.
ReleaseVoice(j) ==
    /\ pc[j] = "release"
    /\ slot' = None
    /\ Goto(j, "done")
    /\ UNCHANGED <<Elsewhere, discord, client, work, grant, late, lost, faults>>

-----------------------------------------------------------------------------
(* The callers.                                                            *)

\* What no step of a caller touches.
Outside == <<place, outbox, events, client, slot, held, cancelled, grant, late, lost,
             userMoves, holdCalls>>

\* Outside working hours, or if GetChannels fails, the check ends at once.
CheckSkipped ==
    /\ pc[Checker] = "check"
    /\ Goto(Checker, "idle")
    /\ UNCHANGED <<Outside, displaced, work, reply, up, faults>>

\* After the wait, the check goes through the voice channels but the office.
CheckBegins ==
    /\ pc[Checker] = "check"
    /\ WorkingHours
    /\ rooms' = [rooms EXCEPT ![Checker] = Channels \ {Office}]
    /\ Goto(Checker, "rooms")
    /\ UNCHANGED <<Outside, displaced, call, targets, moved, err, reply, up, faults>>

\* A held channel is skipped; people in another are moved to the office.
CheckRoom(c) ==
    /\ pc[Checker] = "rooms"
    /\ c \in rooms[Checker]
    /\ rooms' = [rooms EXCEPT ![Checker] = @ \ {c}]
    /\ IF c \in held
       THEN UNCHANGED <<pc, call, targets, moved, err, displaced>>
       ELSE Call(Checker, c, Office, Users)
    /\ UNCHANGED <<Outside, reply, up, faults>>

CheckContinuesKeepsLock ==
    /\ pc[Checker] = "done"
    /\ err[Checker] = "none"
    /\ Goto(Checker, "rooms")
    /\ UNCHANGED <<Outside, displaced, work, reply, up, faults>>

\* moveSomeUsers returned to the check, which an error ends.
CheckContinues ==
    /\ pc[Checker] = "done"
    /\ Goto(Checker, IF err[Checker] = "none" THEN "rooms" ELSE "idle")
    /\ UNCHANGED <<Outside, displaced, work, reply, up, faults>>

\* All channels are done: the checker's mutex is unlocked.
CheckEnds ==
    /\ pc[Checker] = "rooms"
    /\ rooms[Checker] = {}
    /\ Goto(Checker, "idle")
    /\ UNCHANGED <<Outside, displaced, work, reply, up, faults>>

\* closeOffice, once the permissions are set: it needs the guild, then moves
\* everybody from the office to the default channel.
CloseOffice(k) ==
    /\ pc[k] = "idle"
    /\ IF guildKnown
       THEN Call(k, Office, Default, Users)
       ELSE Fail(k, "done", "guild") /\ UNCHANGED <<call, targets, moved, displaced>>
    /\ UNCHANGED <<Outside, rooms, reply, up, faults>>

SweepStartsUnfiltered(s) ==
    LET occupied == {cache[m] : m \in Members} IN
    /\ pc[s] = "idle"
    /\ guildKnown
    /\ rooms' = [rooms EXCEPT ![s] = occupied]
    /\ Goto(s, "acquiring")
    /\ UNCHANGED <<Outside, displaced, call, targets, moved, err, reply, up, faults>>

\* sweepChannel picks from the channels somebody is in, or from all of them.
\* With the guild gone from the cache it dereferences nil and panics.
SweepStarts(s) ==
    LET occupied == {cache[m] : m \in Members} \ {None} IN
    /\ pc[s] = "idle"
    /\ IF guildKnown
       THEN /\ rooms' = [rooms EXCEPT ![s] = IF occupied = {} THEN Channels ELSE occupied]
            /\ Goto(s, "acquiring")
            /\ UNCHANGED up
       ELSE up' = FALSE /\ UNCHANGED <<rooms, pc>>
    /\ UNCHANGED <<Outside, displaced, call, targets, moved, err, reply, faults>>

\* With the slot, the sweep looks up the channel it chose and joins it.
SweepPicks(s, c) ==
    /\ pc[s] = "granted"
    /\ c \in rooms[s]
    /\ call' = [call EXCEPT ![s].from = c]
    /\ Goto(s, "create")
    /\ UNCHANGED <<Outside, displaced, targets, moved, err, rooms, reply, up, faults>>

SweepLookupFailsKeepsSlot(s) ==
    /\ pc[s] = "granted"
    /\ Fault
    /\ Fail(s, "done", "lookup")
    /\ UNCHANGED <<Outside, displaced, locals, reply, up>>

SweepLookupFails(s) ==
    /\ pc[s] = "granted"
    /\ Fault
    /\ Fail(s, "release", "lookup")
    /\ UNCHANGED <<Outside, displaced, locals, reply, up>>

\* MoveMembers validates its request and looks the channels up.
Valid(q) == q.only # {} /\ q.from # q.to

MoveMembers(r, q) ==
    /\ pc[r] = "idle"
    /\ IF Valid(q)
       THEN Call(r, q.from, q.to, q.only) /\ UNCHANGED reply
       ELSE /\ Goto(r, "done")
            /\ reply' = [reply EXCEPT ![r] = "status"]
            /\ UNCHANGED <<call, targets, moved, err, displaced>>
    /\ UNCHANGED <<Outside, rooms, up, faults>>

LookupFails(r) ==
    /\ pc[r] = "idle"
    /\ Fault
    /\ Goto(r, "done")
    /\ reply' = [reply EXCEPT ![r] = "status"]
    /\ UNCHANGED <<Outside, displaced, work, up>>

\* moveSomeUsers returned: the call is answered.
Reply(r) ==
    /\ pc[r] = "done"
    /\ reply[r] = "none"
    /\ reply' = [reply EXCEPT ![r] =
                    IF err[r] = "none" THEN "ok"
                    ELSE IF moved[r] = {} /\ r \in cancelled THEN "status" ELSE "partial"]
    /\ UNCHANGED <<Outside, displaced, pc, work, up, faults>>

-----------------------------------------------------------------------------

\* A step of moveSomeUsers or sweepChannel after the slot was granted.
VoiceStep(j) ==
    \/ CheckGrant(j) \/ TakeSnapshot(j)
    \/ CreateJoinSession(j) \/ SendJoin(j) \/ SendJoinFails(j)
    \/ JoinCompletes(j) \/ JoinTimesOut(j)
    \/ PlaySound(j) \/ PlaySoundFails(j)
    \/ \E u \in Users : MoveUser(j, u) \/ MoveUserFails(j, u)
    \/ MovesDone(j)
    \/ Leave(j) \/ LeaveFails(j) \/ ReleaseVoice(j)

CheckStep == CheckSkipped \/ CheckBegins \/ CheckContinues \/ CheckEnds
             \/ \E c \in Channels : CheckRoom(c)
SweepStep(s) == SweepLookupFails(s) \/ \E c \in Channels : SweepPicks(s, c)
RpcStep(r) == AbandonWait(r) \/ Reply(r)

\* Requests and timers that start something.
Starts ==
    \/ \E k \in Closers : CloseOffice(k)
    \/ \E s \in Sweepers : SweepStarts(s)
    \/ \E r \in Rpcs : LookupFails(r) \/ \E q \in MoveRequests : MoveMembers(r, q)

Environment ==
    \/ ProcessVoiceCommand \/ LoseVoiceCommand
    \/ \E u \in Users, c \in Channels \cup {None} : UserMoves(u, c)
    \/ \E r \in Rpcs : CallerGivesUp(r)
    \/ \E S \in SUBSET Rooms : HoldChannels(S)
    \/ \E c \in Channels : HoldLapses(c)
    \/ HandleGuildDelete \/ HandleGuildUpdate \/ ConnectionFails

\* Nothing is left to do: every job has returned and every queue is empty, unless
\* the connection is gone.
AllDone ==
    /\ \/ ~up \/ link = "stuck"
       \/ /\ \A j \in Jobs : pc[j] \in {"idle", "done"}
          /\ outbox = <<>> /\ (events = <<>> \/ link = "cut")
    /\ UNCHANGED vars

Next ==
    \/ /\ up
       /\ \/ Environment
          \/ HandleVoiceState
          \/ Starts
          \/ \E j \in Jobs : AcquireVoice(j) \/ VoiceStep(j)
          \/ CheckStep
          \/ \E s \in Sweepers : SweepStep(s)
          \/ \E r \in Rpcs : RpcStep(r)
    \/ AllDone

Spec == Init /\ [][Next]_vars

\* Goroutines that can run do.  Go queues the goroutines blocked on a channel
\* first come, first served, so nobody waits for the voice slot for ever.  A job
\* that waits for readyCh with the connection stuck cannot run: SendJoin, Leave
\* and their failures are then disabled.
Fairness ==
    /\ WF_vars(up /\ HandleVoiceState)
    /\ WF_vars(up /\ CheckStep)
    /\ \A j \in Jobs : SF_vars(up /\ AcquireVoice(j)) /\ WF_vars(up /\ VoiceStep(j))
    /\ \A s \in Sweepers : WF_vars(up /\ SweepStep(s))
    /\ \A r \in Rpcs : WF_vars(up /\ RpcStep(r))

FairSpec == Spec /\ Fairness

-----------------------------------------------------------------------------
(* Properties.                                                             *)

UsingLabels == {"create", "send", "await", "sound", "move", "leave"}
HoldingLabels == UsingLabels \cup {"granted", "snapshot", "release"}

\* The slot's holder has got the bot into its channel and not told it to leave.
Present ==
    /\ slot # None
    /\ pc[slot] \in UsingLabels
    /\ pc[slot] \in {"sound", "move", "leave"} \/ call[slot].stage = "depart"

\* utils.go:11-28: the voice slot is the lease VoiceLease describes.  Above all
\* a job tells the bot to leave before it lets the next job have the slot, and
\* people are moved only by the job that has it, after it has joined.
Lease == INSTANCE VoiceLease WITH owner <- slot, present <- Present
LeaseSpec == Lease!Spec

\* Only one join is ever in flight: a job that is about to create a join
\* session finds none there, so createJoinSession's "already exists" error
\* (voice.go:89) cannot happen, whatever fails or times out before.
NoSessionConflict == \A j \in Jobs : pc[j] = "create" => ~session.open

\* Where the bot is heading: the last voice command it sent, if one is still
\* on its way, and else the channel Discord has it in.
Destination == IF outbox = <<>> THEN place[Bot] ELSE outbox[Len(outbox)]

\* The point of the voice slot: while a job plays sounds and moves people in
\* a channel it has joined, no other job's late Leave or join takes the bot
\* elsewhere.  (Unless the connection lost a command.)  And until a join times out,
\* the bot is there by then: no event of an earlier stay in the same channel has
\* completed the join before Discord has seen the command (ws.go:457-469).
HolderDirectsBot ==
    \A j \in Jobs : (pc[j] \in {"sound", "move"} /\ ~lost) =>
        /\ Destination = Target(j)
        /\ ~late => place[Bot] = Target(j)

\* The job got the bot into a channel at least once.
HasStayed(j) ==
    /\ err[j] \notin {"join", "lookup"}
    /\ IF j \in Sweepers THEN call[j].from # None ELSE targets[j] # {}

\* A job whose first join succeeded ends with the bot told to leave, on every
\* error path, before another job can have the slot.
LeavesAfterStay ==
    \A j \in Jobs : (pc[j] = "release" /\ HasStayed(j) /\ ~lost) => Destination = None

\* Once nobody has the slot and its commands have arrived, the bot is in no channel:
\* only a join that timed out can leave it behind, as JoinVoiceChannel then returns
\* no client to leave with (voice.go:48), or a command that was lost.
BotGoesHome ==
    (slot = None /\ outbox = <<>> /\ ~late /\ ~lost) => place[Bot] = None

\* checker.go:75-76: a room held ever since the round-up got the voice slot is
\* left alone, also if the hold only came while the round-up waited for it.
RoundUpSparesHeldRoom ==
    (slot = Checker /\ pc[Checker] \in UsingLabels) => call[Checker].from \notin grantHeld

\* utils.go:45-48: a call whose caller gave up while it waited for the voice
\* slot moves nobody, even if acquireVoice's select preferred the slot.
GivenUpCallMovesNobody ==
    \A r \in Rpcs : (slot = r /\ pc[r] \in UsingLabels) => ~grantCancelled

\* utils.go:91-116, server.go:87-95: a call reports only people it moved.  It misses
\* at most one, whose request went through but was not answered, and then it also
\* reports that a move failed; and an answer without an error means it moved
\* everybody it found.  (This is less than janitor.proto:46-48 says, "who was moved"
\* and "empty if everyone there was moved": the one may be missing, and an error
\* that comes when everyone has been moved is reported too.)
ReportIsAccurate ==
    \A r \in Rpcs :
        /\ moved[r] \subseteq displaced[r]
        /\ Cardinality(displaced[r] \ moved[r]) <= 1
        /\ displaced[r] # moved[r] => err[r] = "move" /\ reply[r] # "ok"
        /\ reply[r] = "ok" => displaced[r] = targets[r]

\* A move is all or an error: a round-up or a closing, too, that returns without one
\* has moved everybody it found, and none moves anybody else, whatever else goes on
\* between its requests (utils.go:58-100).
MovesAreWhole ==
    \A j \in Jobs \ Sweepers :
        /\ displaced[j] \subseteq targets[j]
        /\ pc[j] = "done" /\ err[j] = "none" => displaced[j] = targets[j]

\* The cache of who is where (ws.go:471-482) is late, never wrong: it does not
\* show anybody in a channel they left, once their events have been handled.
CacheIsOnlyLate ==
    \A m \in Members :
        (guildKnown /\ cache[m] # None /\ \A i \in 1..Len(events) : events[i].who # m)
            => cache[m] = place[m]

\* Following the people it moved makes a job wait until the cache shows them
\* in their new channel: gateway events come in order, and the bot's own comes
\* last.  So the next job does not find them in the channel they came from.
\* (Unless a join timed out before, whose late event may stand in for it.)
FollowingFlushesMoves ==
    \A j \in Jobs :
        (pc[j] = "release" /\ err[j] = "none" /\ call[j].stage = "depart" /\ ~late)
            => \A i \in 1..Len(events) : events[i].by # j

\* What a job has still to do, as far as it is certain to shrink: the rooms of a
\* check, the stages up to the next room or the end, the people left to move.
RoomsLeft(j) == IF pc[j] = "check" THEN Channels ELSE rooms[j]
PeopleLeft(j) == targets[j] \ moved[j]

Joining(j) == IF call[j].stage = "arrive" THEN 5 ELSE 0

StagesLeft(j) ==
    CASE pc[j] = "check"     -> 18
      [] pc[j] = "acquiring" -> 17
      [] pc[j] = "granted"   -> 16
      [] pc[j] = "snapshot"  -> 15
      [] pc[j] = "create"    -> 9 + Joining(j)
      [] pc[j] = "send"      -> 8 + Joining(j)
      [] pc[j] = "await"     -> 7 + Joining(j)
      [] pc[j] = "sound"     -> 6 + Joining(j)
      [] pc[j] = "move"      -> 10
      [] pc[j] = "leave"     -> 5
      [] pc[j] = "release"   -> 4
      [] pc[j] = "done"      -> IF j \in Rpcs /\ reply[j] = "none" THEN 3 ELSE 2
      [] pc[j] = "rooms"     -> 1
      [] OTHER               -> 0

Remaining(j) == <<RoomsLeft(j), StagesLeft(j), PeopleLeft(j)>>

\* A step of the job's goroutine, from the end of a caller's "idle" on.
JobStep(j) ==
    \/ AcquireVoice(j) \/ VoiceStep(j)
    \/ j = Checker /\ CheckStep
    \/ j \in Sweepers /\ SweepStep(j)
    \/ j \in Rpcs /\ RpcStep(j)

Shrinks(S, T) == T \subseteq S /\ T # S

Advances(j) ==
    \/ Shrinks(RoomsLeft(j), RoomsLeft(j)')
    \/ /\ RoomsLeft(j)' = RoomsLeft(j)
       /\ \/ StagesLeft(j)' < StagesLeft(j)
          \/ StagesLeft(j)' = StagesLeft(j) /\ Shrinks(PeopleLeft(j), PeopleLeft(j)')

\* No job goes on for ever, and nobody sets another back: each step of a job leaves
\* it less to do, in rooms, then stages, then people, and no other step changes what
\* it has to do.  What fails, times out or is given up leads on and never back
\* (utils.go:30-110, checker.go:56-86, sweep.go:43-105).
EveryJobAdvances ==
    [][\A j \in Jobs :
         /\ JobStep(j) => Advances(j)
         /\ pc[j] # "idle" /\ ~JobStep(j) => Remaining(j)' = Remaining(j)]_vars

\* The slot is never left with a job that has returned, or is at no stage of the work
\* it has the slot for; a sweep that has it has a channel to choose.  So whoever waits
\* for the slot waits for a holder at work, on which only a connection that is stuck
\* can force a wait of its own (utils.go:38-43, sweep.go:75-80, ws.go:141).
HolderGoesOn ==
    slot # None =>
        /\ pc[slot] \in HoldingLabels
        /\ slot \in Sweepers /\ pc[slot] = "granted" => rooms[slot] # {}

\* server.go:54-95: every MoveMembers call is answered, also when the connection is
\* gone and commands fail.  The exceptions: the process has ended, or the connection
\* is stuck, when a command waits for readyCh for ever (ws.go:141).
EveryCallAnswered ==
    \A r \in Rpcs : (pc[r] # "idle") ~> (reply[r] # "none" \/ link = "stuck" \/ ~up)

\* checker.go:18-24: a check always ends, so that later voice events can start
\* another, with the same exceptions.
CheckerComesBack ==
    (pc[Checker] # "idle") ~> (pc[Checker] = "idle" \/ link = "stuck" \/ ~up)

\* janitor.proto:41 says of user_ids: "Only those in from_channel_id are moved."
OnlyThoseInFromChannel ==
    [][\A r \in Rpcs : \A u \in displaced'[r] \ displaced[r] : place[u] = call[r].from]_vars

\* janitor.proto:24-25 says of held channels: "voice channels the janitor
\* leaves alone when it rounds people up into the office".
HeldChannelLeftAlone ==
    [][displaced'[Checker] \ displaced[Checker] # {} => call[Checker].from \notin held]_vars
=============================================================================
