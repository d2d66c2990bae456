# Models of the janitor bot

TLA+ models of robert-mccausland/janitor-bot, the TLC instances that check them,
and theorems about them with TLAPS proofs. Paths are relative to the repository.

## The system

The janitor is one Go process that sits in a Discord guild. Its goroutines share
one gateway connection, one cache of the guild and one voice connection.

| Part | State | Operations | Talks to |
|---|---|---|---|
| voice jobs (`utils.go`, `voice.go`) | `voiceSlot`, `voiceJoinSessions` | `moveSomeUsers`, `JoinVoiceChannel`, `ChangeChannel`, `Leave`, `playSound` | gateway commands out, gateway events back, REST requests |
| channel checker (`checker.go`) | the TryLock mutex | started by each voice state event: during working hours waits 5 to 10 minutes, then empties every voice channel but the office | holds, voice jobs |
| holds (`holds.go`) | holds per guild, each until a time | `set`, `held` | checker, API |
| sweep (`sweep.go`) | none | every 3 to 9 hours: join a channel, play a sound, leave | voice slot, cache |
| API (`server.go`) | none | `Identity`, `MoveMembers`, `HoldChannels` | voice jobs, holds |
| office hours (`officeState.go`, `holidays.go`, cron in `janitor.go`) | the office's permissions at Discord, the holiday cache | open at 9:00, close at 17:00, reconcile at start-up | REST, voice jobs |
| reckoning (`reckoning.go`, `repository.go`) | the time of the last message, in SQLite | one message a day at a random time | REST, database |
| gateway (`ws.go`, `client.go`) | session, `d.wc`, `loadingCh`, guild cache | connect, identify or resume, read events, heartbeat, reconnect, send commands | Discord |
| emitter (`emitter.go`) | handlers per event | `On`, off, `Emit` | event loop, checker |
| REST (`api.go`), configuration, logging, generated code | none | requests, decoding | Discord |

What is hard here:

* Four kinds of job compete for one voice slot, and each drives a join whose
  answer is an event of another goroutine that may come late or never.
* Decisions are made on reads (the cache, the holds, the caller's context) that
  are seconds old when they are acted on.
* A job has many ways to fail half-way, and cleans up in deferred calls.
* The gateway connection can end in any state, while other goroutines use it
  without a lock; a missed end leaves a process that is up and does nothing.
* Restarts, midnight and a feed that fails, for office hours and the reckoning.

What makes each part correct: *voice jobs* - one job at a time directs the bot,
and each ends with the bot told to leave; *checker and holds* - a held room is
left alone, and a check always ends; *API* - an answer says who was moved;
*cache* - late, never wrong; *gateway* - it recovers or ends the program; *office
hours* - after 17:00 and on holidays nobody can enter, and what a failure leaves
undone a later job does;
*reckoning* - one message a day, and no day without one.

## Modules

| Module | What it is |
|---|---|
| `VoiceJobs` | the voice jobs of one guild with their callers, the API, the holds, the voice part of the cache, and Discord as the environment |
| `VoiceLease` | the abstract promise of the voice slot; `VoiceJobs` implements it |
| `VoiceJobs_proof` | theorems about `VoiceJobs`: types, slot and sessions, the lease |
| `VoiceCourse_proof` | extends it: where the bot is heading, how late the cache is |
| `VoiceMoves_proof` | extends that: whom a job moved, what is reported, what is flushed |
| `VoiceProgress_proof` | extends `VoiceCourse_proof`: what each job has left to do |
| `GatewayClient` | the gateway connection and the goroutines around it |
| `GatewayClient_proof` | theorems about `GatewayClient` |
| `OfficeHours` | schedule, start-up, holiday cache, permissions of the office |
| `OfficeHours_proof` | theorems about `OfficeHours` |
| `Reckoning` | the loop that posts one message a day, and its saved time |
| `DailyMessage` | the abstract promise of one message a day; `Reckoning` implements it |
| `Reckoning_proof` | theorems about `Reckoning`: its invariants, and that it implements `DailyMessage` |
| `MCVoiceJobs`, `MCGatewayClient`, `MCOfficeHours`, `MCReckoning` | sets that only the instances need |

**VoiceJobs.** `pc[j]` is where job `j`'s goroutine stands, `call`, `targets`,
`moved` and `err` are its locals. From `acquiring` to `release` it runs
`moveSomeUsers` or `sweepChannel`; each blocking call of the code is a step.
`slot` is `voiceSlot`, `session` the guild's entry in `voiceJoinSessions`, `cache`
is `guild.VoiceStates`. Discord is `place`, where people really are; `outbox`,
commands under way to it; `events`, voice state events under way from it, handled
in order by `HandleVoiceState`. `displaced` records whom Discord moved at a job's
request; `grantHeld` and `grantCancelled` what was so when the slot was last
granted; `late` and `lost` whether a join timed out or a command was lost. `link` is
the gateway connection as far as the jobs notice it: once it has ended for good
(`ConnectionFails`) either the process has ended with it, or nothing is read any more and
a command waits for `readyCh` for ever (`stuck`) or fails (`cut`).
`only = Users` stands for both `nil` and a list of everybody.

**VoiceLease.** Take, arrive, displace people, depart, drop. The mapping is
`owner <- slot` and `present <- Present`: the holder has completed its first join
and has not yet done its `Leave`.

**GatewayClient.** `sup` is the goroutine that starts connections (first `Start`
itself, later the supervisor of `startWebsockets`), `loop` the event loop of the
current `d.wc` with the `result` it reports, `conn`, `ready`, `greeted` and `beating`
its connection, `readyCh`, `isGreeted` and heartbeat loop. `main` waits for the
guilds (`loading`), may then close the office (`closing`, `janitor.go:101`), for which
it sends a command itself as the sender `Main`, and waits for an error (`serving`, in
`BlockUntilDone`). `sender[s]` is a goroutine in `sendWSMessage`. `crash` is a
panic, which ends the process: `loadingCh` closed twice, a connection that is nil, or
two writers at once (`WritesCollide`). `removed` notes the guilds whose `GUILD_DELETE` came
after their last `GUILD_CREATE`. Discord takes away guilds the client has and may give them
back; a guild that is new to the bot while it runs closes `loadingCh` again just as one
that comes back does, and is left out. An op 7 or 9 ends the loop with what `Close`
returns, nil unless the connection was closed or its peer gone before.

Close codes are reduced to what `startNewWebsocketClient` does with them: `resume`
(1006, 4000-4002, 4005, 4008), `expired` (4003, 4007, 4009), `refused` (all other
codes) and `reset` (an error that is no close code). `dead` is a connection whose
peer is gone while this side has not noticed: writes may still succeed.

**OfficeHours.** A day is `DayLength` ticks and days go round in a cycle, some of
them `Weekdays`, some `Holidays`. `pc` is the process: `down`, `boot` (`NewJanitor`),
`starting` (`Janate` before `officeCron.Start`), `serve`. `step` is where the one job
stands that opens or closes the office: `lookup` (the holiday), `unlock`, or `key`, `lock`
and `move`, each a request; `want` is its argument. `age` is the time since the
holidays were fetched, compared with `TTL`; a fetch may fail, and a job then takes the
day for no holiday while the reconciliation gives up. `allowed` and `key` are the
office's overwrites at Discord, and outlive the process. `inside` is who is in the
office, `seen` who is there in the cache. The properties need three notes:
`excused` (the last job failed, was misinformed or ran before the schedule did),
`spared` (people the last closing did not move, or a call moved in later) and
`OfficeHour`, what ought to be so. Moving people out is one step here, and so is what the
checker does: in office hours it moves people into the office, open or closed, also on a
holiday it could not look up (`CheckerMoves`). The voice jobs behind both are in
`VoiceJobs`, which leaves out the hour instead.

**Reckoning.** `pc` is the stage of the loop (`load`, `plan`, `start`, `wait`, `send`,
`answered`, `save`) or `down`; `lastRun`, `windowDay`, `due` and `stamp` are its locals, of
which the code reads only the date or the tick. `saved` is the row of
`last_message_sent` and outlives the process; `SavedDate` reads it back as
`repository.go` does, in the server's zone and not in `TIMEZONE`, so that an instant may fall on the day before
or the day after. `delay` is how late a run is behind its timer.
`posted`, `forgotten`, `excused` and `own` are notes for the properties: messages per day,
days a process could not know of when it started, days with a reason for none, days
whose message the present process has posted.

**DailyMessage.** A process starts with what it knows of earlier days, goes through the
days in order, posts each one's message once or gives it up, and passes over handled
days; midnight comes only to a handled day. The mapping is `up <- pc \notin {"down", "load"}`
and `done <- Done`: the last day the process counts as done is the date of `lastRun`
while it plans or saves, and the day before its window from then until its post has
been answered. `day`, `posted` and `excused` are their own.

## What the runs check

Voice jobs, all with the bot, the office and the default channel:

| Run | Instance | Shows |
|---|---|---|
| `round_up` | 1 room, 1 person, checker and a call; 1 change of channel, 2 of the holds | `RoundUpSparesHeldRoom`, `GivenUpCallMovesNobody`, `FollowingFlushesMoves` |
| `moves` | 2 people (symmetric), closing office and a call; 1 failure | `HolderDirectsBot`, `ReportIsAccurate`, `MovesAreWhole`, `CacheIsOnlyLate` |
| `sweep` | closing office and a sweep; 2 failures | `TypeOK`, `NoSessionConflict`, `LeavesAfterStay`, `BotGoesHome`, `HolderGoesOn`, and that `VoiceJobs` implements `VoiceLease` |
| `jobs_end` | 1 room, checker and a call; 1 failure; fair | `EveryCallAnswered`, `CheckerComesBack`, `EveryJobAdvances` |
| `from_only`, `held_room` | the smallest that can | violations, see Findings |

Gateway:

| Run | Instance | Shows |
|---|---|---|
| `drops` | 2 guilds, 1 command, main's own or another's, with 1 retry; 2 faults, 1 guild taken away and sent again; fair | `TypeOK`, `OnlyRequestsStrand`, `LoadedMeansComplete`, `UndisturbedServes`, `DropsAreRecovered`, `EverySendReturns`, `SendsAreBounded` |
| `new_session`, `reconnect_asked`, `command_in_reconnect` | 1 guild, 1 fault | violations, see Findings |

Office and reckoning:

| Run | Instance | Shows |
|---|---|---|
| `office` | 2 people; 4 days of 4 ticks, the second a holiday, the last not a weekday; 2 failures or restarts; fair | `TypeOK`, `KeyBeforeLock`, `OfficeFollowsHours`, `ComesRight` |
| `reckoning` | 4 days of 5 ticks, `TIMEZONE` 1 ahead; 2 stops, 1 failure | `TypeOK`, `OncePerDay`, `NoDaySkipped`, `RunsOnItsDay`, `OncePerProcess`, and that `Reckoning` implements `DailyMessage` |

**Bounds.** A budget bounds what the environment may do on its own: `MaxUserMoves`,
`MaxHoldCalls`, `MaxFaults`, `MaxReloads`. The interference the properties are about is
between two jobs (one has the slot, one waits or has just let it go), between a job and
one event, or between one fault and its clean-up, so two jobs and one or two faults meet
every pair. Timeouts and a caller giving up are not budgeted: they may happen at any
time. Two changes of the holds let a hold come and lapse, or another come. Two faults let a
connection fail while it replaces one that failed. Room `r1` is
there for holds (`round_up`, `held_room`) and so that a check has two rooms to go
through (`jobs_end`); the default channel plays the checked channel elsewhere. The
office's days go round, so the one run has every pair of neighbouring days: a holiday
after and before a working day, a weekend before one. Four ticks are night, 9:00, an
hour in between and 17:00; a `TTL` of one day is the code's. The reckoning's days run
out: four let a process stop on one day, miss the next whole, and still have a day to
catch up wrongly. Its two stops and one failure are what a second message takes at most,
and one to spare.

**Fairness.** Goroutines that can run do (weak fairness per goroutine); Go queues
senders blocked on a channel first come, first served, which justifies strong
fairness of `AcquireVoice`. Discord and people get none: a command may stay
unanswered, and the joins time out. A job that sends a command over a connection that is
`stuck` cannot run, as `sendWSMessage` waits without a timeout (`ws.go:141`): `SendJoin`
and `Leave` are disabled then, fairness asks nothing of them, and the slot is kept.
`EveryCallAnswered` and `CheckerComesBack` name that state as their exception, beside the end
of the process. In the gateway the timeout of `start` is
what makes an unanswered identify end. A panic ends the process and satisfies
the liveness properties; the runs `new_session` and `command_in_reconnect` show
two of the panics there are, and `WritesCollide` is the third. In the office the clock, a job and the start go on, and a process
that ended is started again (`restart: unless-stopped`,
`deploy/docker-compose.yml:6`); people, callers and failures get no fairness, and
failures and restarts are bounded, so that `ComesRight` speaks of what follows the last.

**Deadlock** is checked in the voice runs (`AllDone` is the one state that may stay
for ever). The gateway runs switch it off: the program ends (`main = "exited"`,
or a panic), and a connection with nothing to say is at rest. `office` keeps it on.
`reckoning` switches it off: time stops at `MaxDays`.

## Findings

* `from_only`: people who left the channel after the snapshot are moved all the
  same (`utils.go:92`), while `janitor.proto:41` says only those in
  `from_channel_id` are.
* `held_room`: a hold that arrives after the round-up's second look does not spare
  the room (`utils.go:49`), while `janitor.proto:24` says held channels are left alone.
  What does hold is `RoundUpSparesHeldRoom`.
* `new_session`: the guilds of a new session close `loadingCh` a second time and
  panic the process (`ws.go:423`).
* `reconnect_asked`: op 7 and 9 make the loop end with nil. If `start` is still in its
  select, it may take that nil from `errorCh` as success (`ws.go:205`), and nobody
  reads or restarts the connection again. `OnlyRequestsStrand` shows that there is no
  other way to get there.
* `command_in_reconnect`: `d.wc` is replaced before it is connected, and a command
  that has passed the ready channel of the old one dereferences the nil connection of
  the new one (`ws.go:146`).

What the models also show, in states that runs reach and properties name:

* If the connection fails for good while `main` still waits for the guilds to load, or, as
  it closes the office at start-up (`janitor.go:101`), for the next connection's ready
  channel (`ws.go:141`), the supervisor's `d.errorCh <- err` (`ws.go:103`) waits for a
  reader that never comes, and `main` for a connection that never comes. This is
  `MutualWait`, which `DropsAreRecovered` and `EverySendReturns` except by name.
* Two writers at once on one connection, the heartbeat loop (`ws.go:354`) and a command
  (`ws.go:146`) or the message that starts the session, make the websocket library panic.
  This takes no fault: `UndisturbedServes` excepts it.
* A guild that Discord takes away and gives back closes `loadingCh` again, without a new
  session (`ws.go:437-448` does not count it as unavailable).
* `janitor.proto:46-48` says of a call's answer "who was moved", and of its error "empty if
  everyone there was moved". The code keeps less: one who was moved may be missing, if
  Discord did it and the answer was lost (`utils.go:96-98`), and an error is also
  reported when everyone was moved and only the change of channel or the second sound
  failed (`utils.go:106-114`). `ReportIsAccurate` states what is kept.
* After a failed lookup the checker goes on as on a working day (`checker.go:42-48`), and so
  moves people into an office that is closed for a holiday. `ComesRight` shows that a later
  closing moves them out.

## What is proved

`VoiceJobs_proof` holds for every number of people, rooms, jobs and every bound,
from the named assumptions in `VoiceJobs` (the kinds of job are disjoint, the bot is no
person, `None` no channel or job, requests and bounds are of their types).

* `TypeCorrect`: the type invariant.
* `InvCorrect`: the inductive invariant `IInv`. The properties are not inductive by
  themselves, as they say nothing of who else could write `session` or the bot's
  commands. `IInv` adds what makes them so: the slot is with exactly the
  job between `acquireVoice` and `releaseVoice` (`SlotInv`); a join session is
  open exactly while that job is in `JoinVoiceChannel` (`SessionInv`); only a move
  gets to the second channel (`StageInv`); what the holder checked when it got the
  slot is still so (`HoldInv`, `GiveUpInv`). One lemma covers the steps of the slot's
  holder, one those of callers, one those of the environment, with one step per action.
* `NoSessionConflictCorrect`, `RoundUpSparesHeldRoomCorrect`,
  `GivenUpCallMovesNobodyCorrect`: consequences of `IInv`.
* `LeaseCorrect`: `VoiceJobs` implements `VoiceLease`. Every step is one of seven
  forms (`LeaseStep`), each a step of the lease or a stutter.

`GatewayClient_proof` holds for every set of guilds and senders and every bound.

* `TypeCorrect`: the type invariant, for which the inbox, the Booleans and the other
  variables are proved apart.
* `StrandsOnlyOnRequest`: from the invariant `Watched`, which adds to
  `OnlyRequestsStrand` that nobody has taken the loop's error while a session is
  being started, so that each error is taken once, by `start` or by the supervisor.
* `UndisturbedServesCorrect`: without a fault nothing crashes the client but two writers at
  once or, after a `GUILD_DELETE`, the guild's return; this says so of every instance. `Steady` is what the client looks like while
  nothing has gone wrong: one connection, not yet made or being read, and a `start` that goes
  on, succeeds, or times out and ends the program. `FirstSession`
  follows that session through its stages: not asked for (`Unasked`), identified, answered by
  `READY`, guilds on their way (`Coming`), each once (`Awaited`), so that `loadingCh` is
  closed with the last of them and never again.
* `SendsAreBoundedCorrect`: `SendsLeft`, three steps for each retry left and those to the next
  write, goes down with each step a command takes, and no step of the connection raises it.
* `LoadsCompletely`: from the invariant `Complete`. `LoadedMeansComplete` alone says
  nothing of a client that is still loading; `Complete` says that once `READY` has
  been handled every guild is unavailable, there or taken away (`Known`), that none is
  both of the last, and that until then there is no session to resume and no `RESUMED` or
  event of a guild on its way.

`VoiceCourse_proof` adds what follows the bot's commands through the queue. `Destination`
is where the bot ends up when `outbox` is empty.

* `LeavesAfterStayCorrect`, `BotGoesHomeCorrect`: from
  `CourseInv`. While no command has been lost, the destination is the target of
  the last join from `await` to `move`, and `None` at `release` after a stay
  (`SteerInv`). While no join has timed out either, it is `None` whenever the slot is free
  or its holder has not yet sent a join or has nothing left to send (`HomeInv`), so that
  each holder finds the bot on its way out. A time-out breaks the second and not the
  first: its join is still in the queue, and no later job takes it back.
* `CacheIsOnlyLateCorrect`: `CacheIsOnlyLate` speaks of an empty queue; the invariant is
  that the last event on its way about a member says where the member is
  (`TruthfulInv`).

`VoiceMoves_proof`:

* `ReportIsAccurateCorrect`, `MovesAreWholeCorrect`: `Accounted` says at each stage whom
  Discord has moved for a call, a round-up or a closing: nobody before `move`, exactly
  `moved` during it, all targets after it unless there is an error, and never more than
  `moved` and one whose request failed late. `MovesAreWholeCorrect` is what allows
  `OfficeHours` to move people in one step, `MovePeople` or `MoveFails`: a closing
  without an error has moved all it found, and moves nobody else.
* `FollowingFlushesMovesCorrect`: the second join is answered after the events of all
  the moved. While a join waits, its own command or its own answer is the only one on
  its way (`Pending`), and the answer is queued behind every event of the job. This
  needs that no join has timed out: a late answer to an earlier join would complete the
  wrong one. `FlushCorrect` is the invariant (`FlushInv`).
* `HolderDirectsBotCorrect`: the destination is `SteerInv`'s. That the bot is there, too, from
  the end of the join on is `FlushInv`'s: no command but a `Leave` is on its way then, and
  as the destination is a channel (`AimInv`), none is.

`VoiceProgress_proof` proves of liveness what is safety: with it, that every job ends
rests only on the fairness of its steps and on their being enabled, which TLC checks. A
step that the code blocks at is beyond it.

* `EveryJobAdvancesCorrect`: what a job has left is ordered by its rooms (none is gone
  back to), then its stages (`StagesLeft`), then the people still to be moved. Each step of the
  job goes down in that order, failures and time-outs included, and no step of
  another job, Discord or a caller touches it.
* `HolderGoesOnCorrect`: the holder of the slot has not returned and is at one of the stages
  of its work; a sweep that was granted the slot has a room to go to (`RoomsInv`). That it
  can take the next step is not claimed: on a stuck connection it cannot.

`OfficeHours_proof` holds for every calendar, all hours and people, and any number of
failures. `KeyBeforeLockCorrect` needs only that the key is there from `lock` on
(`KeyInv`). `OfficeFollowsHoursCorrect` follows from `Conduct`:
what a job without an excuse does fits the hour at every request (time stands while
it does), and what it leaves stays right until the hour changes, which is when the
schedule is due. On a holiday the job ends at once, and the office must be closed
already: that is the last conjunct of `Conduct`.

`Reckoning_proof` holds for days of any length, any number of days, stops and failures,
from two assumptions the code makes without saying so. A run is late by no more than
the buffer before midnight (`Latency <= Buffer`; the REST client gives up after 10
seconds, the buffer is 30). And `TIMEZONE` is ahead of the server by no more than the
hour the window starts at, and behind it by no more than the buffer leaves
(`ZoneAssumption`), or a day's message would be read back as the day before's or after's.
The deployment keeps this (`Europe/London` in a container on UTC,
`deploy/docker-compose.yml:17`); a `TIMEZONE` west of the server does not, nor one more than
6 hours east, and nothing here speaks for those. `RunsOnItsDayCorrect` is `Timely`: tick, timer and
delay add up. `NoDaySkippedCorrect` adds `Closed` (past its window a day is handled or being
handled), `Behind` (so are all days before the next window) and `Record` (the saved
instant is one of a run). `OncePerDayCorrect` adds `Ahead`: the next window lies after every
message the process knows of, where `SavedDateIsDay` uses the assumption on the zone.
`OncePerProcessCorrect` needs no record: its invariant `OwnInv` says that the days whose message
this process has posted are days it counts as done, which it never plans again, so that
only another process can repeat one.

`DailyCorrect` is the refinement. Each step of the loop is one of the steps of
`DailyMessage` or a stutter (`StepIsDaily`). Passing over days is where it could fail: the plan
for the day after the last run, or for today, must find all days before handled, which
is `DoneInv` (every day up to `Done` is), proved from `NoDaySkipped` and `Behind`.

Only model-checked: liveness (`EveryCallAnswered`, `CheckerComesBack`,
`DropsAreRecovered`, `EverySendReturns`, `ComesRight`), which is out of TLAPS's reach
together with `ENABLED`. Every invariant, action property and refinement that a passing
run checks is also proved.

## What is not modelled

* In `VoiceJobs`, the time of day: working hours are a constant, waits and timeouts are
  steps that may happen at any time. The hours and dates are in `OfficeHours` and
  `Reckoning`, in ticks; changes to summer time, which shift both, are left out.
* In `OfficeHours`, a job that lasts until the next tick: the code's two scheduled jobs
  are eight hours apart, their requests time out after seconds.
* The emitter (`emitter.go`): the program registers one handler, at start-up, for one
  event, and never removes it. What `Emit` does with it is the start of a check in
  `VoiceJobs`; a model of handlers that come and go would be about code nothing calls.
* The end of the process's context (a signal). All loops return on it; the API's
  `GracefulStop` is not waited for.
* In `VoiceJobs`, the gateway connection itself: a command may be lost or fail to be
  sent, and events are neither lost nor reordered, which is what a resumed session
  gives. In `GatewayClient`, sequence numbers and the events a resume replays.
* More than one guild: slots, sessions and holds of one guild do not depend on
  those of another, except that all share the one voice slot.
* What two writers at once do other than panic: the websocket library's check is not
  certain to see them.
* The reckoning's text.
* Configuration, logging, REST encoding and generated code: no state.

Five hazards have no property, as no document promises otherwise: people that vanish from
the cache with a `GUILD_UPDATE` (`ws.go:434`), the panic of the sweep on a guild that is
not cached (`sweep.go:46`), people who stay in an office that is closed over them
(`officeState.go:114`) or are moved in later (`janitor.go:112`), all of them in the models;
and the date of the saved time in other zones (`repository.go:63`), which `SavedDate` has
and `ZoneAssumption` leaves out.

## Plan

1. `VoiceJobs` with `VoiceLease`, their instances and proofs: done.
2. `GatewayClient`, its instances and proofs: done.
3. `OfficeHours`, its instance and proofs: done. What it ought to do is one definition,
   `OfficeHour`, so there is no abstract module beside it.
4. `Reckoning` with `DailyMessage`, its instance and proofs: done.
5. Proofs of the queue properties of `VoiceJobs`: done (`VoiceCourse_proof`, `VoiceMoves_proof`),
   and of the safety half of progress (`VoiceProgress_proof`).
6. `Emitter`: dropped, for the reason given above.

Left: the end of the process's context with `GracefulStop`, and the voice events that a
resume replays, which would join `VoiceJobs` and `GatewayClient`; an abstract supervisor that
`GatewayClient` implements (one connection at a time, each end taken once).
