---------------------------- MODULE GatewayClient ----------------------------
(***************************************************************************)
(* The gateway connection of the Discord client (ws.go, client.go): the    *)
(* goroutine that starts it and starts it again (startWebsockets), the     *)
(* event loop and the heartbeat loop of the current connection, the        *)
(* goroutines that send commands over it (sendWSMessage), and main, which  *)
(* waits for the guilds to load, may close the office, for which it sends  *)
(* a command itself, and then waits for the client to fail.  Discord and   *)
(* the network are the environment.  wc below is the current               *)
(* websocketClient, d.wc.                                                  *)
(*                                                                         *)
(* A definition just before an action, named after it and without a comment*)
(* (WriteClosedOnceMore), is the action with a plausible mistake in it.    *)
(* No action uses it; put in the action's place it breaks a property.      *)
(***************************************************************************)
EXTENDS Integers, Sequences, FiniteSets

CONSTANTS
    Guilds,         \* the guilds the bot is in
    Senders,        \* goroutines that send a command
    Main,           \* one of them, which is main itself while it closes the office
    RetryLimit,     \* WebsocketRetryLimit
    MaxReloads,     \* bound: guilds that Discord takes away for a while
    MaxFaults       \* bound: broken connections and requests to reconnect

ASSUME GatewayAssumption ==
    /\ Main \in Senders
    /\ RetryLimit \in Nat
    /\ MaxReloads \in Nat
    /\ MaxFaults \in Nat

VARIABLES
    \* Discord and the network
    inbox,          \* what Discord sent and the event loop has not read
    asked,          \* what it was asked for: "nothing", "identify" or "resume"
    unsent,         \* GUILD_CREATE events of the session not yet handled
    \* the client
    session,        \* sessionID is set
    loaded,         \* loadingCh is closed
    unavailable, guilds,
    \* wc
    conn,           \* wc.connection: "nil", "open", "dead" (peer gone) or "closed"
    ready,          \* wc.readyCh is closed
    greeted, beating,
    loop,           \* the event loop: "none", "reading", "ended", "reporting", "gone"
    result,         \* the kind of error it ends with
    \* goroutines
    sup,            \* who starts connections: Start at first, then the supervisor
    main,           \* "starting", "loading", "closing", "serving" or "exited"
    sender, tries,
    crash,          \* "none", or why the process panicked
    removed,        \* bookkeeping: the guilds whose GUILD_DELETE was the last word
    reloads, faults

discord == <<inbox, asked, unsent>>
client == <<session, loaded, unavailable, guilds>>
wc == <<conn, ready, greeted, beating, loop, result>>
senders == <<sender, tries>>
budget == <<reloads, faults>>
vars == <<discord, client, wc, sup, main, senders, crash, removed, budget>>

\* What Discord sends: an opcode, an event, or the end of the connection.
CloseKinds == {"resume", "expired", "refused", "reset"}
Msg(op) == [op |-> op, guild |-> {}]
Create(g) == [op |-> "create", guild |-> {g}]
Delete(g) == [op |-> "delete", guild |-> {g}]
Closing(kind) == [op |-> kind, guild |-> {}]
Ops == {"hello", "ready", "resumed", "create", "delete", "reconnect", "invalid",
        "invalidNew"} \cup CloseKinds
Message == [op : Ops, guild : SUBSET Guilds]

TypeOK ==
    /\ inbox \in Seq(Message)
    /\ asked \in {"nothing", "identify", "resume"}
    /\ unsent \subseteq Guilds
    /\ session \in BOOLEAN
    /\ loaded \in BOOLEAN
    /\ unavailable \subseteq Guilds
    /\ guilds \subseteq Guilds
    /\ conn \in {"nil", "open", "dead", "closed"}
    /\ ready \in BOOLEAN
    /\ greeted \in BOOLEAN
    /\ beating \in BOOLEAN
    /\ loop \in {"none", "reading", "ended", "reporting", "gone"}
    /\ result \in {"none", "nil", "resume", "expired", "fatal"}
    /\ sup \in {"new", "dial", "session", "await", "watching", "failing", "ended"}
    /\ main \in {"starting", "loading", "closing", "serving", "exited"}
    /\ sender \in [Senders -> {"idle", "wait", "write", "paused", "done", "failed"}]
    /\ tries \in [Senders -> 0..RetryLimit]
    /\ crash \in {"none", "doubleClose", "nilConn", "twoWriters"}
    /\ removed \subseteq Guilds
    /\ reloads \in 0..MaxReloads
    /\ faults \in 0..MaxFaults

Init ==
    /\ inbox = <<>> /\ asked = "nothing" /\ unsent = {}
    /\ session = FALSE /\ loaded = FALSE
    /\ unavailable = {} /\ guilds = {}
    /\ conn = "nil" /\ ready = FALSE /\ greeted = FALSE /\ beating = FALSE
    /\ loop = "none" /\ result = "none"
    /\ sup = "new" /\ main = "starting"
    /\ sender = [s \in Senders |-> "idle"]
    /\ tries = [s \in Senders |-> 0]
    /\ crash = "none" /\ removed = {} /\ reloads = 0 /\ faults = 0

Running == crash = "none" /\ main # "exited"
Fault == faults < MaxFaults /\ faults' = faults + 1

-----------------------------------------------------------------------------
(* Discord and the network (external).                                     *)

Send(m) == inbox' = Append(inbox, m)

\* Identify is answered with READY, which names the guilds, and then their
\* states; a resume with what was missed and RESUMED.
AcceptSession ==
    /\ conn = "open"
    /\ asked # "nothing"
    /\ asked' = "nothing"
    /\ IF asked = "identify"
       THEN Send(Msg("ready")) /\ unsent' = Guilds
       ELSE Send(Msg("resumed")) /\ UNCHANGED unsent
    /\ UNCHANGED <<client, wc, sup, main, senders, crash, removed, budget>>

SendGuild(g) ==
    /\ conn = "open" /\ asked = "nothing" /\ ready
    /\ g \in unsent
    /\ \A i \in 1..Len(inbox) : inbox[i] # Create(g)
    /\ Send(Create(g))
    /\ UNCHANGED <<asked, unsent, client, wc, sup, main, senders, crash, removed, budget>>

\* A guild becomes unavailable, or the bot is removed from it.
RemoveGuild(g) ==
    /\ conn = "open" /\ asked = "nothing" /\ ready
    /\ g \in guilds \ unsent
    /\ \A i \in 1..Len(inbox) : inbox[i] # Delete(g)
    /\ reloads < MaxReloads
    /\ reloads' = reloads + 1
    /\ Send(Delete(g))
    /\ UNCHANGED <<asked, unsent, client, wc, sup, main, senders, crash, removed, faults>>

\* It becomes available again, or the bot is added to it again.
ResendGuild(g) ==
    /\ conn = "open" /\ ready
    /\ g \in removed \ unsent
    /\ unsent' = unsent \cup {g}
    /\ UNCHANGED <<inbox, asked, client, wc, sup, main, senders, crash, removed, budget>>

\* Discord asks to reconnect (op 7), or says the session is invalid (op 9).
AskReconnect(op) ==
    /\ conn = "open"
    /\ greeted
    /\ Fault
    /\ asked' = "nothing"
    /\ Send(Msg(op))
    /\ UNCHANGED <<unsent, client, wc, sup, main, senders, crash, removed, reloads>>

\* The connection ends: with a close code after which the client resumes, or
\* one after which it identifies, or one that is final, or some other way.
EndConnection(kind) ==
    /\ conn = "open"
    /\ Fault
    /\ conn' = "dead"
    /\ asked' = "nothing"
    /\ Send(Closing(kind))
    /\ UNCHANGED <<unsent, client, ready, greeted, beating, loop, result, sup, main, senders,
                   crash, removed, reloads>>

-----------------------------------------------------------------------------
(* The event loop of wc.                                                   *)

\* What the event loop leaves alone; what all its events do but those of a guild.
Looping == <<asked, sup, main, senders, budget>>
Handling == <<Looping, removed>>

\* close(d.loadingCh), which panics the second time.
CloseLoading ==
    /\ loaded' = TRUE
    /\ crash' = IF loaded THEN "doubleClose" ELSE crash

\* What has been received can be read also after the connection is closed.
Read(op) ==
    /\ loop = "reading"
    /\ inbox # <<>>
    /\ Head(inbox).op = op
    /\ inbox' = Tail(inbox)

ReadHello ==
    /\ Read("hello")
    /\ greeted' = TRUE
    /\ beating' = TRUE
    /\ UNCHANGED <<Handling, unsent, client, conn, ready, loop, result, crash>>

ReadReadyForgetsGuilds ==
    /\ Read("ready")
    /\ session' = TRUE
    /\ unavailable' = unavailable
    /\ ready' = TRUE
    /\ IF unavailable' = {} THEN CloseLoading ELSE UNCHANGED <<loaded, crash>>
    /\ UNCHANGED <<Handling, unsent, guilds, conn, greeted, beating, loop, result>>

\* READY: the session is there; its guilds count as unavailable until they come.
ReadReady ==
    /\ Read("ready")
    /\ session' = TRUE
    /\ unavailable' = unavailable \cup Guilds
    /\ ready' = TRUE
    /\ IF unavailable' = {} THEN CloseLoading ELSE UNCHANGED <<loaded, crash>>
    /\ UNCHANGED <<Handling, unsent, guilds, conn, greeted, beating, loop, result>>

ReadResumed ==
    /\ Read("resumed")
    /\ ready' = TRUE
    /\ UNCHANGED <<Handling, unsent, client, conn, greeted, beating, loop, result, crash>>

ReadGuildCreateAny ==
    /\ Read("create")
    /\ guilds' = guilds \cup Head(inbox).guild
    /\ unavailable' = unavailable \ Head(inbox).guild
    /\ unsent' = unsent \ Head(inbox).guild
    /\ loaded' = TRUE
    /\ removed' = removed \ Head(inbox).guild
    /\ UNCHANGED <<Looping, session, wc, crash>>

\* GUILD_CREATE: once no guild is unavailable, the client has loaded.
ReadGuildCreate ==
    /\ Read("create")
    /\ guilds' = guilds \cup Head(inbox).guild
    /\ unavailable' = unavailable \ Head(inbox).guild
    /\ unsent' = unsent \ Head(inbox).guild
    /\ IF unavailable' = {} THEN CloseLoading ELSE UNCHANGED <<loaded, crash>>
    /\ removed' = removed \ Head(inbox).guild
    /\ UNCHANGED <<Looping, session, wc>>

\* GUILD_DELETE: the guild is gone, and not counted as unavailable.
ReadGuildDelete ==
    /\ Read("delete")
    /\ guilds' = guilds \ Head(inbox).guild
    /\ removed' = removed \cup Head(inbox).guild
    /\ UNCHANGED <<Looping, unsent, session, loaded, unavailable, wc, crash>>

\* Op 7 and op 9: forget an invalid session, close the connection, and end
\* with Close's result: nil, unless the heartbeat loop has closed it before, or the
\* peer is gone and the TLS farewell fails.
ReadReconnect ==
    /\ \E op \in {"reconnect", "invalid", "invalidNew"} :
        /\ Read(op)
        /\ session' = (session /\ op # "invalidNew")
    /\ conn' = "closed"
    /\ loop' = "ended"
    /\ result' \in CASE conn = "open" -> {"nil"}
                    [] conn = "dead" -> {"nil", "fatal"}
                    [] OTHER         -> {"fatal"}
    /\ UNCHANGED <<Handling, unsent, loaded, unavailable, guilds, ready, greeted, beating, crash>>

\* ReadJSON fails because the peer ended the connection.  A close code is told
\* apart from other errors only later, by startNewWebsocketClient.
ReadClose(kind) ==
    /\ Read(kind)
    /\ loop' = "ended"
    /\ result' = IF kind \in {"resume", "expired"} THEN kind ELSE "fatal"
    /\ UNCHANGED <<Handling, unsent, client, conn, ready, greeted, beating, crash>>

\* ReadJSON fails because the connection was closed on this side.
ReadClosed ==
    /\ loop = "reading"
    /\ conn = "closed"
    /\ loop' = "ended" /\ result' = "fatal"
    /\ UNCHANGED <<Handling, inbox, unsent, client, conn, ready, greeted, beating, crash>>

\* The loop has returned: cancel wc.ctx, then report on wc.errorCh.
Cancel ==
    /\ loop = "ended"
    /\ loop' = "reporting"
    /\ UNCHANGED <<discord, client, conn, ready, greeted, beating, result, sup, main, senders,
                   crash, removed, budget>>

\* wc.ctx is cancelled: the watcher closes the connection, heartbeats stop.
CloseCancelled ==
    /\ loop \in {"reporting", "gone"}
    /\ (conn # "closed" \/ beating)
    /\ conn' = "closed"
    /\ beating' = FALSE
    /\ UNCHANGED <<discord, client, ready, greeted, loop, result, sup, main, senders, crash,
                   removed, budget>>

\* A heartbeat cannot be written: the heartbeat loop closes the connection.
HeartbeatFails ==
    /\ beating
    /\ \/ conn = "open" /\ Fault
       \/ conn \in {"dead", "closed"} /\ UNCHANGED faults
    /\ conn' = "closed"
    /\ beating' = FALSE
    /\ UNCHANGED <<discord, client, ready, greeted, loop, result, sup, main, senders, crash,
                   removed, reloads>>

\* The heartbeat loop writes while a command or the session's message is written:
\* the websocket library panics when it sees two writers at once.
WritesCollide ==
    /\ beating
    /\ conn \in {"open", "dead"}
    /\ sup = "session" \/ \E s \in Senders : sender[s] = "write"
    /\ crash' = "twoWriters"
    /\ UNCHANGED <<discord, client, wc, sup, main, senders, removed, budget>>

-----------------------------------------------------------------------------
(* Starting connections.                                                   *)

Starting == <<client, senders, crash, removed, budget>>

\* startNewWebsocketClient puts a new wc in place, not yet connected.
NewClient ==
    /\ sup = "new"
    /\ sup' = "dial"
    /\ conn' = "nil" /\ ready' = FALSE /\ greeted' = FALSE /\ beating' = FALSE
    /\ loop' = "none" /\ result' = "none"
    /\ inbox' = <<>> /\ asked' = "nothing"
    /\ UNCHANGED <<Starting, unsent, main>>

StartFailsSilently ==
    /\ sup' = "ended"
    /\ main' = IF main = "starting" THEN "exited" ELSE main

\* start fails.  The first time, Start fails and main gives up; later, the
\* supervisor has an error to hand to BlockUntilDone.
StartFails ==
    /\ sup' = IF main = "starting" THEN "ended" ELSE "failing"
    /\ main' = IF main = "starting" THEN "exited" ELSE main

Dial ==
    /\ sup = "dial"
    /\ sup' = "session"
    /\ conn' = "open" /\ loop' = "reading"
    /\ Send(Msg("hello"))
    /\ UNCHANGED <<Starting, asked, unsent, ready, greeted, beating, result, main>>

DialFails ==
    /\ sup = "dial"
    /\ StartFails
    /\ UNCHANGED <<Starting, discord, wc>>

\* createOrResumeSession writes its message.
CreateSession ==
    /\ sup = "session"
    /\ conn \in {"open", "dead"}
    /\ sup' = "await"
    /\ asked' = IF conn = "dead" THEN asked ELSE IF session THEN "resume" ELSE "identify"
    /\ UNCHANGED <<Starting, inbox, unsent, wc, main>>

CreateSessionFails ==
    /\ sup = "session"
    /\ conn \in {"dead", "closed"}
    /\ StartFails
    /\ UNCHANGED <<Starting, discord, wc>>

\* start returns nil, and the supervisor watches for the loop's error.
Started ==
    /\ sup' = "watching"
    /\ main' \in IF main = "starting" THEN {"loading", "serving"} ELSE {main}

BecomesReady ==
    /\ sup = "await"
    /\ ready
    /\ Started
    /\ UNCHANGED <<Starting, discord, wc>>

StartGetsResultAsSuccess ==
    /\ sup = "await"
    /\ loop = "reporting"
    /\ loop' = "gone"
    /\ Started
    /\ UNCHANGED <<Starting, discord, conn, ready, greeted, beating, result>>

\* start gets the loop's error, and returns it, also if it is nil.
StartGetsResult ==
    /\ sup = "await"
    /\ loop = "reporting"
    /\ loop' = "gone"
    /\ IF result = "nil" THEN Started ELSE StartFails
    /\ UNCHANGED <<Starting, discord, conn, ready, greeted, beating, result>>

\* start sees wc.ctx cancelled, or WSReadyTimeout passes.
StartGivesUp ==
    /\ sup = "await"
    /\ StartFails
    /\ UNCHANGED <<Starting, discord, wc>>

\* The supervisor gets the loop's error and starts a new connection, with a
\* new session or the old one, or gives up.
Restart ==
    /\ sup = "watching"
    /\ loop = "reporting"
    /\ loop' = "gone"
    /\ session' = (session /\ result # "expired")
    /\ sup' = IF result = "fatal" THEN "failing" ELSE "new"
    /\ UNCHANGED <<discord, loaded, unavailable, guilds, conn, ready, greeted, beating, result,
                   main, senders, crash, removed, budget>>

\* The supervisor hands its error to BlockUntilDone, and main returns.
Fail ==
    /\ sup = "failing"
    /\ main = "serving"
    /\ sup' = "ended" /\ main' = "exited"
    /\ UNCHANGED <<discord, client, wc, senders, crash, removed, budget>>

Waiting == <<discord, client, wc, sup, senders, crash, removed, budget>>

\* User and Guild wait for loadingCh.  Then main closes the office, out of hours, or
\* goes on to BlockUntilDone.
Load ==
    /\ main = "loading"
    /\ loaded
    /\ main' \in {"closing", "serving"}
    /\ UNCHANGED Waiting

\* The closing of the office returns, having sent its command or not.
CloseReturns ==
    /\ main = "closing"
    /\ sender[Main] \in {"idle", "done", "failed"}
    /\ main' = "serving"
    /\ UNCHANGED Waiting

-----------------------------------------------------------------------------
(* sendWSMessage.                                                          *)

Sending == <<discord, client, wc, sup, main, removed, budget>>
SenderGoes(s, label) == sender' = [sender EXCEPT ![s] = label]

StartSend(s) ==
    /\ sender[s] = "idle"
    /\ loaded
    /\ main = "serving" \/ (main = "closing" /\ s = Main)
    /\ SenderGoes(s, "wait")
    /\ UNCHANGED <<Sending, tries, crash>>

PassReady(s) ==
    /\ sender[s] = "wait"
    /\ ready
    /\ SenderGoes(s, "write")
    /\ UNCHANGED <<Sending, tries, crash>>

\* The write succeeds, also if the peer is gone and nobody will read it.
Write(s) ==
    /\ sender[s] = "write"
    /\ conn \in {"open", "dead"}
    /\ SenderGoes(s, "done")
    /\ UNCHANGED <<Sending, tries, crash>>

\* The write fails with an error that is not retried: the one of an earlier
\* write, or ErrCloseSent once the peer's close has been answered.
WriteFails(s) ==
    /\ sender[s] = "write"
    /\ conn = "dead" \/ (conn = "closed" /\ result # "nil")
    /\ SenderGoes(s, "failed")
    /\ UNCHANGED <<Sending, tries, crash>>

WriteClosedOnceMore(s) ==
    /\ sender[s] = "write"
    /\ conn = "closed"
    /\ IF tries[s] <= RetryLimit
       THEN SenderGoes(s, "paused") /\ tries' = [tries EXCEPT ![s] = @ + 1]
       ELSE SenderGoes(s, "failed") /\ UNCHANGED tries
    /\ UNCHANGED <<Sending, crash>>

WriteClosedUncounted(s) ==
    /\ sender[s] = "write"
    /\ conn = "closed"
    /\ SenderGoes(s, "paused")
    /\ UNCHANGED <<Sending, tries, crash>>

\* The connection was closed on this side: pause and try again, up to a limit.
WriteClosed(s) ==
    /\ sender[s] = "write"
    /\ conn = "closed"
    /\ IF tries[s] < RetryLimit
       THEN SenderGoes(s, "paused") /\ tries' = [tries EXCEPT ![s] = @ + 1]
       ELSE SenderGoes(s, "failed") /\ UNCHANGED tries
    /\ UNCHANGED <<Sending, crash>>

PauseEnds(s) ==
    /\ sender[s] = "paused"
    /\ SenderGoes(s, "wait")
    /\ UNCHANGED <<Sending, tries, crash>>

\* wc is new, and has no connection yet: a nil pointer.
WriteNil(s) ==
    /\ sender[s] = "write"
    /\ conn = "nil"
    /\ crash' = "nilConn"
    /\ UNCHANGED <<Sending, senders>>

-----------------------------------------------------------------------------

LoopStep ==
    \/ ReadHello \/ ReadReady \/ ReadResumed \/ ReadGuildCreate \/ ReadGuildDelete
    \/ ReadReconnect
    \/ \E kind \in CloseKinds : ReadClose(kind)
    \/ ReadClosed \/ Cancel

StartStep ==
    \/ NewClient \/ Dial \/ DialFails \/ CreateSession \/ CreateSessionFails
    \/ BecomesReady \/ StartGetsResult \/ StartGivesUp \/ Restart \/ Fail

SendStep(s) ==
    PassReady(s) \/ Write(s) \/ WriteFails(s) \/ WriteClosed(s) \/ PauseEnds(s) \/ WriteNil(s)

Environment ==
    \/ AcceptSession
    \/ \E g \in Guilds : SendGuild(g) \/ RemoveGuild(g) \/ ResendGuild(g)
    \/ \E op \in {"reconnect", "invalid", "invalidNew"} : AskReconnect(op)
    \/ \E kind \in CloseKinds : EndConnection(kind)

Next ==
    /\ Running
    /\ \/ Environment
       \/ LoopStep \/ CloseCancelled \/ HeartbeatFails \/ WritesCollide
       \/ StartStep \/ Load \/ CloseReturns
       \/ \E s \in Senders : StartSend(s) \/ SendStep(s)

Spec == Init /\ [][Next]_vars

\* Every goroutine that can run does; Discord need not answer.
Fairness ==
    /\ WF_vars(Running /\ LoopStep)
    /\ WF_vars(Running /\ CloseCancelled)
    /\ WF_vars(Running /\ StartStep)
    /\ WF_vars(Running /\ (Load \/ CloseReturns))
    /\ \A s \in Senders : WF_vars(Running /\ SendStep(s))

FairSpec == Spec /\ Fairness

-----------------------------------------------------------------------------
(* Properties.                                                             *)

\* The supervisor watches a connection whose loop has reported and gone: nobody
\* will ever start the next one.
Stranded == sup = "watching" /\ loop = "gone"

\* The supervisor hands its error to main (ws.go:103), and main waits for a
\* connection that would have come from the supervisor: for its guilds, or for
\* readyCh, to send its command (ws.go:141).
MutualWait ==
    /\ sup = "failing"
    /\ \/ main = "loading" /\ ~loaded
       \/ main = "closing" /\ sender[Main] = "wait" /\ ~ready

\* ws.go:199-209: start reports success for a connection that is not ready, or
\* that has ended, only if Discord asked for a reconnect (op 7 or 9): every
\* other error is seen by the supervisor.
OnlyRequestsStrand == (sup = "watching" /\ (~ready \/ loop = "gone")) => result = "nil"

\* client.go:233: who waits for loadingCh sees every guild READY named, not
\* just those whose state has come already, through new sessions too; none is
\* missing but those that Discord has taken away since (ws.go:386-448).
LoadedMeansComplete == loaded => guilds = Guilds \ removed

\* As long as no connection breaks and no reconnect is asked for, the loop goes on
\* reading and the supervisor has no error; and of the ways to panic only two are
\* left: two writers at once, and, after a GUILD_DELETE, the guild's return, which
\* closes loadingCh again.  Guilds that come once close it once, however they come
\* (ws.go:94-107, 354, 386-448).
UndisturbedServes ==
    faults = 0 =>
        /\ loop \in {"none", "reading"} /\ sup # "failing"
        /\ crash # "nilConn"
        /\ reloads = 0 => crash \in {"none", "twoWriters"}

\* The steps a command has left, at most.
SendsLeft(s) ==
    3 * (RetryLimit - tries[s]) +
    CASE sender[s] = "idle"   -> 4
      [] sender[s] = "paused" -> 3
      [] sender[s] = "wait"   -> 2
      [] sender[s] = "write"  -> 1
      [] OTHER                -> 0

\* ws.go:139-156: no command is tried for ever, however often connections end under
\* it: each step its goroutine takes leaves it fewer.
SendsAreBounded ==
    [][\A s \in Senders :
         <<sender[s], tries[s]>>' # <<sender[s], tries[s]>>
            => SendsLeft(s)' \in 0 .. SendsLeft(s) - 1]_vars

\* ws.go:94-107: when a connection ends, for whatever reason, the client has
\* another one that is ready, or the error ends the program (so that it is
\* started again).  The exceptions: main and the supervisor wait for each other from
\* then on, or the next connection was asked to reconnect and start took that for
\* success.
DropsAreRecovered ==
    (sup = "watching" /\ loop \in {"ended", "reporting"})
        ~> \/ sup = "watching" /\ loop = "reading"
           \/ []MutualWait
           \/ Stranded
           \/ ~Running

\* ws.go:143-144: a goroutine sending a command is not left waiting for ever
\* by a reconnect: the command is sent, or fails, or the program ends; with the same
\* exceptions, the first of them for main's own command only.
EverySendReturns ==
    \A s \in Senders :
        (sender[s] = "wait")
            ~> \/ sender[s] \in {"done", "failed"}
               \/ s = Main /\ []MutualWait
               \/ Stranded
               \/ ~Running

\* ws.go:119,280: the client goes on "with new session" when Discord has
\* forgotten the old one: the guilds of the new session do not crash it.
NewSessionSurvives == crash # "doubleClose"

\* ws.go:269: after "reconnecting to websocket server..." there is a connection
\* that works again, or the client fails and the program ends.
RequestedReconnectHappens ==
    (loop = "ended" /\ result = "nil")
        ~> \/ ready /\ loop = "reading"
           \/ sup \in {"failing", "ended"}
           \/ ~Running

\* ws.go:143-144: what reconnects do to a command is handled gracefully: the
\* goroutine sending it never crashes the program.
ReconnectsAreGraceful == crash # "nilConn"
=============================================================================
