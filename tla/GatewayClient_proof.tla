------------------------- MODULE GatewayClient_proof -------------------------
(* Theorems about GatewayClient, for any guilds, senders and bounds.         *)
EXTENDS GatewayClient, TLAPS

\* The parts of TypeOK, apart from the inbox: the Booleans, and the rest.
Booleans ==
    session \in BOOLEAN /\ loaded \in BOOLEAN /\ ready \in BOOLEAN
    /\ greeted \in BOOLEAN /\ beating \in BOOLEAN

Values ==
    /\ asked \in {"nothing", "identify", "resume"}
    /\ unsent \subseteq Guilds /\ unavailable \subseteq Guilds /\ guilds \subseteq Guilds
    /\ conn \in {"nil", "open", "dead", "closed"}
    /\ loop \in {"none", "reading", "ended", "reporting", "gone"}
    /\ result \in {"none", "nil", "resume", "expired", "fatal"}
    /\ sup \in {"new", "dial", "session", "await", "watching", "failing", "ended"}
    /\ main \in {"starting", "loading", "closing", "serving", "exited"}
    /\ sender \in [Senders -> {"idle", "wait", "write", "paused", "done", "failed"}]
    /\ tries \in [Senders -> 0..RetryLimit]
    /\ crash \in {"none", "doubleClose", "nilConn", "twoWriters"}
    /\ removed \subseteq Guilds
    /\ reloads \in 0..MaxReloads
    /\ faults \in 0..MaxFaults

\* Together they are TypeOK.
LEMMA Parts == TypeOK <=> inbox \in Seq(Message) /\ Booleans /\ Values
  BY DEF TypeOK, Booleans, Values

\* The same of the next state.
LEMMA PartsNext == TypeOK' <=> inbox' \in Seq(Message) /\ Booleans' /\ Values'
  BY DEF TypeOK, Booleans, Values

\* Sending a message keeps the inbox a sequence of messages.
LEMMA SendType ==
    ASSUME TypeOK, NEW m \in Message, Send(m)
    PROVE  inbox' \in Seq(Message)
  BY DEF TypeOK, Send

\* What Discord sends are messages.
LEMMA MessageType ==
    /\ \A op \in Ops : Msg(op) \in Message /\ Closing(op) \in Message
    /\ \A g \in Guilds : Create(g) \in Message /\ Delete(g) \in Message
  BY DEF Msg, Closing, Create, Delete, Message, Ops

\* Reading a message leaves a sequence of messages; what was read was one.
LEMMA ReadType ==
    ASSUME TypeOK, NEW op, Read(op)
    PROVE  inbox' \in Seq(Message) /\ Head(inbox).guild \subseteq Guilds
  <1>1. inbox' \in Seq(Message) /\ Head(inbox) \in Message
    BY DEF Read, TypeOK
  <1> QED
    BY <1>1 DEF Message

\* A step of Discord or the network keeps the types.
LEMMA EnvironmentKeepsType ==
    ASSUME TypeOK, Environment
    PROVE  TypeOK'
  <1> USE GatewayAssumption DEF TypeOK, client, wc, senders, budget
  <1>1. CASE AcceptSession
    <2>1. Msg("ready") \in Message /\ Msg("resumed") \in Message
      BY MessageType DEF Ops
    <2>2. inbox' \in Seq(Message)
      BY <1>1, <2>1, SendType DEF AcceptSession
    <2> QED
      BY <1>1, <2>2 DEF AcceptSession
  <1>2. ASSUME NEW g \in Guilds, SendGuild(g)
        PROVE  TypeOK'
    <2>1. inbox' \in Seq(Message)
      BY <1>2, MessageType, SendType DEF SendGuild
    <2> QED
      BY <1>2, <2>1 DEF SendGuild
  <1>3. ASSUME NEW g \in Guilds, ResendGuild(g)
        PROVE  TypeOK'
    BY <1>3 DEF ResendGuild
  <1>6. ASSUME NEW g \in Guilds, RemoveGuild(g)
        PROVE  TypeOK'
    <2>1. inbox' \in Seq(Message)
      BY <1>6, MessageType, SendType DEF RemoveGuild
    <2> QED
      BY <1>6, <2>1 DEF RemoveGuild
  <1>4. ASSUME NEW op \in {"reconnect", "invalid", "invalidNew"}, AskReconnect(op)
        PROVE  TypeOK'
    <2>1. Msg(op) \in Message
      BY MessageType DEF Ops
    <2>2. inbox' \in Seq(Message)
      BY <1>4, <2>1, SendType DEF AskReconnect
    <2> QED
      BY <1>4, <2>2 DEF AskReconnect, Fault
  <1>5. ASSUME NEW kind \in CloseKinds, EndConnection(kind)
        PROVE  TypeOK'
    <2>1. Closing(kind) \in Message
      BY MessageType DEF Ops
    <2>2. inbox' \in Seq(Message)
      BY <1>5, <2>1, SendType DEF EndConnection
    <2> QED
      BY <1>5, <2>2 DEF EndConnection, Fault
  <1> QED
    BY <1>1, <1>2, <1>3, <1>4, <1>5, <1>6 DEF Environment

\* A step of the event loop, its watcher or the heartbeat loop keeps them.
LEMMA LoopKeepsType ==
    ASSUME TypeOK, LoopStep \/ CloseCancelled \/ HeartbeatFails \/ WritesCollide
    PROVE  TypeOK'
  <1> USE GatewayAssumption
      DEF TypeOK, client, wc, senders, budget, discord, Looping, Handling
  <1>1. CASE ReadHello
    <2>1. inbox' \in Seq(Message)
      BY <1>1, ReadType DEF ReadHello
    <2>2. Booleans'
      BY <1>1, Zenon DEF Booleans, ReadHello
    <2>3. Values'
      BY <1>1 DEF Values, ReadHello
    <2> QED
      BY <2>1, <2>2, <2>3, PartsNext
  <1>2. CASE ReadReady
    <2>1. inbox' \in Seq(Message)
      BY <1>2, ReadType DEF ReadReady, CloseLoading
    <2>2. Booleans'
      BY <1>2, Zenon DEF Booleans, ReadReady, CloseLoading
    <2>3. Values'
      BY <1>2 DEF Values, ReadReady, CloseLoading
    <2> QED
      BY <2>1, <2>2, <2>3, PartsNext
  <1>3. CASE ReadResumed
    <2>1. inbox' \in Seq(Message)
      BY <1>3, ReadType DEF ReadResumed
    <2>2. Booleans'
      BY <1>3, Zenon DEF Booleans, ReadResumed
    <2>3. Values'
      BY <1>3 DEF Values, ReadResumed
    <2> QED
      BY <2>1, <2>2, <2>3, PartsNext
  <1>4. CASE ReadGuildCreate
    <2>1. inbox' \in Seq(Message) /\ Head(inbox).guild \subseteq Guilds
      BY <1>4, ReadType DEF ReadGuildCreate
    <2>2. Booleans'
      BY <1>4, Zenon DEF Booleans, ReadGuildCreate, CloseLoading
    <2>3. Values'
      BY <1>4, <2>1 DEF Values, ReadGuildCreate, CloseLoading
    <2> QED
      BY <2>1, <2>2, <2>3, PartsNext
  <1>5. CASE ReadReconnect
    <2>1. inbox' \in Seq(Message)
      BY <1>5, ReadType DEF ReadReconnect
    <2>2. Booleans'
      BY <1>5, Zenon DEF Booleans, ReadReconnect
    <2>3. Values'
      BY <1>5 DEF Values, ReadReconnect
    <2> QED
      BY <2>1, <2>2, <2>3, PartsNext
  <1>6. ASSUME NEW kind \in CloseKinds, ReadClose(kind)
        PROVE  TypeOK'
    <2>1. inbox' \in Seq(Message)
      BY <1>6, ReadType DEF ReadClose
    <2>2. Booleans'
      BY <1>6, Zenon DEF Booleans, ReadClose
    <2>3. Values'
      BY <1>6 DEF Values, ReadClose
    <2> QED
      BY <2>1, <2>2, <2>3, PartsNext
  <1>7. CASE ReadClosed
    BY <1>7 DEF ReadClosed
  <1>8. CASE Cancel
    BY <1>8 DEF Cancel
  <1>9. CASE CloseCancelled
    <2>1. inbox' \in Seq(Message)
      BY <1>9 DEF CloseCancelled
    <2>2. Booleans'
      BY <1>9, Zenon DEF Booleans, CloseCancelled
    <2>3. Values'
      BY <1>9 DEF Values, CloseCancelled
    <2> QED
      BY <2>1, <2>2, <2>3, PartsNext
  <1>10. CASE HeartbeatFails
    <2>1. inbox' \in Seq(Message)
      BY <1>10 DEF HeartbeatFails, Fault
    <2>2. Booleans'
      BY <1>10, Zenon DEF Booleans, HeartbeatFails, Fault
    <2>3. Values'
      BY <1>10 DEF Values, HeartbeatFails, Fault
    <2> QED
      BY <2>1, <2>2, <2>3, PartsNext
  <1>11. CASE ReadGuildDelete
    <2>1. inbox' \in Seq(Message) /\ Head(inbox).guild \subseteq Guilds
      BY <1>11, ReadType DEF ReadGuildDelete
    <2>2. Booleans'
      BY <1>11, Zenon DEF Booleans, ReadGuildDelete
    <2>3. Values'
      BY <1>11, <2>1 DEF Values, ReadGuildDelete
    <2> QED
      BY <2>1, <2>2, <2>3, PartsNext
  <1>12. CASE WritesCollide
    BY <1>12 DEF WritesCollide
  <1> QED
    BY <1>1, <1>2, <1>3, <1>4, <1>5, <1>6, <1>7, <1>8, <1>9, <1>10, <1>11, <1>12 DEF LoopStep

\* So does a step of the goroutine that starts connections, or of main.
LEMMA StartKeepsType ==
    ASSUME TypeOK, StartStep \/ Load \/ CloseReturns
    PROVE  TypeOK'
  <1> USE GatewayAssumption
      DEF TypeOK, client, wc, senders, budget, discord, Starting, StartFails, Started
  <1>1. CASE NewClient
    <2>1. inbox' \in Seq(Message)
      BY <1>1 DEF NewClient
    <2>2. Booleans'
      BY <1>1, Zenon DEF Booleans, NewClient
    <2>3. Values'
      BY <1>1 DEF Values, NewClient
    <2> QED
      BY <2>1, <2>2, <2>3, PartsNext
  <1>2. CASE Dial
    <2>1. Msg("hello") \in Message
      BY MessageType DEF Ops
    <2>2. inbox' \in Seq(Message)
      BY <1>2, <2>1, SendType DEF Dial
    <2> QED
      BY <1>2, <2>2 DEF Dial
  <1>3. CASE DialFails
    BY <1>3 DEF DialFails
  <1>4. CASE CreateSession
    BY <1>4 DEF CreateSession
  <1>5. CASE CreateSessionFails
    BY <1>5 DEF CreateSessionFails
  <1>6. CASE BecomesReady
    BY <1>6 DEF BecomesReady
  <1>7. CASE StartGetsResult
    BY <1>7 DEF StartGetsResult
  <1>8. CASE StartGivesUp
    BY <1>8 DEF StartGivesUp
  <1>9. CASE Restart
    <2>1. session' \in BOOLEAN
      BY <1>9 DEF Restart
    <2> QED
      BY <1>9, <2>1 DEF Restart
  <1>10. CASE Fail
    BY <1>10 DEF Fail
  <1>11. CASE Load \/ CloseReturns
    BY <1>11 DEF Load, CloseReturns, Waiting
  <1> QED
    BY <1>1, <1>2, <1>3, <1>4, <1>5, <1>6, <1>7, <1>8, <1>9, <1>10, <1>11 DEF StartStep

\* So does a step of a goroutine that sends a command: it tries no more often
\* than it may.
LEMMA SendKeepsType ==
    ASSUME TypeOK, NEW s \in Senders, StartSend(s) \/ SendStep(s)
    PROVE  TypeOK'
  <1> USE GatewayAssumption
      DEF TypeOK, client, wc, senders, budget, discord, Sending, SenderGoes
  <1>1. CASE StartSend(s)
    BY <1>1 DEF StartSend
  <1>2. CASE PassReady(s)
    BY <1>2 DEF PassReady
  <1>3. CASE Write(s)
    BY <1>3 DEF Write
  <1>4. CASE WriteFails(s)
    BY <1>4 DEF WriteFails
  <1>5. CASE WriteClosed(s)
    <2>1. sender' \in [Senders -> {"idle", "wait", "write", "paused", "done", "failed"}]
      BY <1>5 DEF WriteClosed
    <2>2. tries' \in [Senders -> 0..RetryLimit]
      <3>1. CASE tries[s] < RetryLimit
        <4>1. tries' = [tries EXCEPT ![s] = tries[s] + 1] /\ tries[s] + 1 \in 0..RetryLimit
          BY <1>5, <3>1 DEF WriteClosed
        <4> QED
          BY <4>1
      <3>2. CASE ~(tries[s] < RetryLimit)
        BY <1>5, <3>2 DEF WriteClosed
      <3> QED
        BY <3>1, <3>2
    <2> QED
      BY <1>5, <2>1, <2>2 DEF WriteClosed
  <1>6. CASE PauseEnds(s)
    BY <1>6 DEF PauseEnds
  <1>7. CASE WriteNil(s)
    BY <1>7 DEF WriteNil
  <1> QED
    BY <1>1, <1>2, <1>3, <1>4, <1>5, <1>6, <1>7 DEF SendStep

\* The client starts with every variable of its type.
LEMMA TypeInit == Init => TypeOK
  <1> SUFFICES ASSUME Init
               PROVE  TypeOK
    OBVIOUS
  <1>1. inbox \in Seq(Message)
    BY DEF Init
  <1>2. Booleans
    BY Zenon DEF Booleans, Init
  <1>3. Values
    BY GatewayAssumption DEF Values, Init
  <1> QED
    BY <1>1, <1>2, <1>3, Parts

\* No step changes that.
LEMMA TypeStep == TypeOK /\ [Next]_vars => TypeOK'
  <1> SUFFICES ASSUME TypeOK, [Next]_vars
               PROVE  TypeOK'
    OBVIOUS
  <1>1. CASE UNCHANGED vars
    BY <1>1 DEF vars, discord, client, wc, senders, budget, TypeOK
  <1> QED
    BY <1>1, EnvironmentKeepsType, LoopKeepsType, StartKeepsType, SendKeepsType DEF Next

\* The gateway client's variables keep their types; above all, no goroutine
\* retries a command more often than WebsocketRetryLimit (ws.go:145).
THEOREM TypeCorrect == Spec => []TypeOK
  BY TypeInit, TypeStep, PTL DEF Spec

-----------------------------------------------------------------------------
(* start and the supervisor: whose error is seen.                          *)

\* The supervisor watches a connection that became ready, unless start took the
\* loop's nil for success; and while a session is being started, nobody has
\* taken the loop's error yet.
Watched ==
    /\ sup = "watching" => IF loop = "gone" THEN result = "nil" ELSE ready
    /\ sup \in {"session", "await"} => loop # "gone"

\* Before the first step nobody watches.
LEMMA WatchedInit == Init => Watched
  BY DEF Init, Watched

\* Only three actions matter to Watched much: BecomesReady and StartGetsResult,
\* after which the supervisor watches, and Restart, which takes the loop's error.
LEMMA WatchedStep == Watched /\ [Next]_vars => Watched'
  <1> SUFFICES ASSUME Watched, [Next]_vars
               PROVE  Watched'
    OBVIOUS
  <1> USE DEF Watched
  <1>1. CASE UNCHANGED vars
    BY <1>1 DEF vars, wc
  <1>2. CASE Environment
    BY <1>2 DEF Environment, AcceptSession, SendGuild, RemoveGuild, ResendGuild, AskReconnect,
                EndConnection, wc
  <1>3. CASE LoopStep
    <2>1. UNCHANGED sup /\ loop # "gone" /\ loop' # "gone" /\ (ready => ready')
      BY <1>3 DEF LoopStep, ReadHello, ReadReady, ReadResumed, ReadGuildCreate,
                  ReadGuildDelete, ReadReconnect, ReadClose, ReadClosed, Cancel, Read, Looping,
                  Handling, wc
    <2> QED
      BY <2>1
  <1>4. CASE CloseCancelled \/ HeartbeatFails \/ WritesCollide
    BY <1>4 DEF CloseCancelled, HeartbeatFails, WritesCollide, wc
  <1>5. CASE NewClient \/ Dial \/ DialFails \/ CreateSession \/ CreateSessionFails
             \/ StartGivesUp \/ Fail
    BY <1>5 DEF NewClient, Dial, DialFails, CreateSession, CreateSessionFails, StartGivesUp, Fail,
                StartFails, wc
  <1>6. CASE BecomesReady
    BY <1>6 DEF BecomesReady, Started, wc
  <1>7. CASE StartGetsResult
    BY <1>7 DEF StartGetsResult, Started, StartFails
  <1>8. CASE Restart
    BY <1>8 DEF Restart
  <1>9. CASE Load \/ CloseReturns
    BY <1>9 DEF Load, CloseReturns, Waiting, wc
  <1>10. ASSUME NEW s \in Senders, StartSend(s) \/ SendStep(s)
         PROVE  Watched'
    BY <1>10 DEF StartSend, SendStep, PassReady, Write, WriteFails, WriteClosed, PauseEnds,
                 WriteNil, Sending, wc
  <1> QED
    BY <1>1, <1>2, <1>3, <1>4, <1>5, <1>6, <1>7, <1>8, <1>9, <1>10 DEF Next, StartStep

\* start reports success for a connection that is not ready, or that has ended,
\* only after the nil that Close returns (ws.go:199-209).
THEOREM StrandsOnlyOnRequest == Spec => []OnlyRequestsStrand
  <1>1. Watched => OnlyRequestsStrand
    BY DEF Watched, OnlyRequestsStrand
  <1> QED
    BY <1>1, WatchedInit, WatchedStep, PTL DEF Spec

-----------------------------------------------------------------------------
(* Loading.                                                                *)

\* READY has been handled: every guild is unavailable, there or taken away.
Known == guilds \cup unavailable \cup removed = Guilds

\* No RESUMED and no event of a guild is on its way.
Early == \A i \in 1..Len(inbox) : inbox[i].op \notin {"resumed", "create", "delete"}

\* Nothing that belongs to a session happens before READY has been handled.
Complete ==
    /\ Known \/ (~session /\ ~ready /\ asked # "resume" /\ Early)
    /\ guilds \cap removed = {}
    /\ loaded => guilds \cup removed = Guilds

\* Sending something else keeps Early.
LEMMA EarlySend ==
    ASSUME TypeOK, Early, NEW m \in Message, Send(m), m.op \notin {"resumed", "create", "delete"}
    PROVE  Early'
  BY DEF TypeOK, Early, Send

\* Reading keeps it, and reads something else.
LEMMA EarlyRead ==
    ASSUME TypeOK, Early, NEW op, Read(op)
    PROVE  Early' /\ op \notin {"resumed", "create", "delete"}
  <1>1. /\ Len(inbox) \in Nat \ {0} /\ Len(inbox') = Len(inbox) - 1
        /\ \A i \in 1..Len(inbox') : i + 1 \in 1..Len(inbox) /\ inbox'[i] = inbox[i + 1]
        /\ 1 \in 1..Len(inbox) /\ inbox[1].op = op
    BY DEF TypeOK, Read
  <1> QED
    BY <1>1 DEF Early

\* Before the first step nothing has loaded.
LEMMA CompleteInit == Init => Complete
  BY DEF Init, Complete, Early

\* What Discord sends is in order: its RESUMED and the events of guilds come after
\* the READY of the session.
LEMMA EnvironmentKeepsComplete ==
    ASSUME TypeOK, Complete, Environment
    PROVE  Complete'
  <1> USE DEF Complete, Known, client, wc
  <1>1. CASE Known
    BY <1>1 DEF Environment, AcceptSession, SendGuild, RemoveGuild, ResendGuild, AskReconnect,
                EndConnection
  <1>2. CASE ~Known
    <2>1. CASE AcceptSession
      <3>1. asked = "identify" /\ Send(Msg("ready"))
        BY <1>2, <2>1 DEF AcceptSession, TypeOK
      <3>2. Early'
        BY <1>2, <3>1, MessageType, EarlySend DEF Msg, Ops
      <3> QED
        BY <1>2, <2>1, <3>2 DEF AcceptSession
    <2>2. ASSUME NEW g \in Guilds, SendGuild(g) \/ RemoveGuild(g) \/ ResendGuild(g)
          PROVE  Complete'
      BY <1>2, <2>2 DEF SendGuild, RemoveGuild, ResendGuild
    <2>3. ASSUME NEW op \in {"reconnect", "invalid", "invalidNew"}, AskReconnect(op)
          PROVE  Complete'
      <3>1. Early'
        BY <1>2, <2>3, MessageType, EarlySend DEF AskReconnect, Msg, Ops
      <3> QED
        BY <1>2, <2>3, <3>1 DEF AskReconnect
    <2>4. ASSUME NEW kind \in CloseKinds, EndConnection(kind)
          PROVE  Complete'
      <3>1. Early'
        BY <1>2, <2>4, MessageType, EarlySend DEF EndConnection, Closing, Ops, CloseKinds
      <3> QED
        BY <1>2, <2>4, <3>1 DEF EndConnection
    <2> QED
      BY <2>1, <2>2, <2>3, <2>4 DEF Environment
  <1> QED
    BY <1>1, <1>2

\* READY makes every guild unavailable or there, and only a GUILD_DELETE takes one away.
LEMMA LoopKeepsComplete ==
    ASSUME TypeOK, Complete, LoopStep
    PROVE  Complete'
  <1> USE DEF Complete, client, wc, Looping, Handling
  <1>1. CASE ReadReady
    <2>1. Known'
      BY <1>1 DEF ReadReady, Known, TypeOK
    <2>2. loaded' => guilds' \cup removed' = Guilds
      BY <1>1 DEF ReadReady, CloseLoading, TypeOK
    <2> QED
      BY <1>1, <2>1, <2>2 DEF ReadReady
  <1>2. CASE ReadGuildCreate
    <2>1. Known
      BY <1>2, EarlyRead DEF ReadGuildCreate
    <2>2. Head(inbox).guild \subseteq Guilds
      BY <1>2, ReadType DEF ReadGuildCreate
    <2>3. Known'
      BY <1>2, <2>1, <2>2 DEF ReadGuildCreate, Known
    <2>4. loaded' => guilds' \cup removed' = Guilds
      <3>1. CASE unavailable' = {}
        BY <1>2, <2>3, <3>1 DEF ReadGuildCreate, Known
      <3>2. CASE unavailable' # {}
        BY <1>2, <2>2, <3>2 DEF ReadGuildCreate
      <3> QED
        BY <3>1, <3>2
    <2> QED
      BY <1>2, <2>3, <2>4 DEF ReadGuildCreate
  <1>3. CASE ReadResumed
    <2>1. Known
      BY <1>3, EarlyRead DEF ReadResumed
    <2> QED
      BY <1>3, <2>1 DEF ReadResumed, Known
  <1>4. CASE ReadHello
    BY <1>4, EarlyRead DEF ReadHello, Known
  <1>5. CASE ReadReconnect
    BY <1>5, EarlyRead DEF ReadReconnect, Known
  <1>6. ASSUME NEW kind \in CloseKinds, ReadClose(kind)
        PROVE  Complete'
    BY <1>6, EarlyRead DEF ReadClose, Known
  <1>7. CASE ReadClosed \/ Cancel
    BY <1>7 DEF ReadClosed, Cancel, Known, Early, discord
  <1>8. CASE ReadGuildDelete
    <2>1. Known
      BY <1>8, EarlyRead DEF ReadGuildDelete
    <2>2. Head(inbox).guild \subseteq Guilds
      BY <1>8, ReadType DEF ReadGuildDelete
    <2> QED
      BY <1>8, <2>1, <2>2 DEF ReadGuildDelete, Known
  <1> QED
    BY <1>1, <1>2, <1>3, <1>4, <1>5, <1>6, <1>7, <1>8 DEF LoopStep

\* A new connection starts with nothing received; it resumes only a session.
LEMMA RestKeepsComplete ==
    ASSUME TypeOK, Complete,
           \/ CloseCancelled \/ HeartbeatFails \/ WritesCollide
           \/ StartStep \/ Load \/ CloseReturns
           \/ \E s \in Senders : StartSend(s) \/ SendStep(s)
    PROVE  Complete'
  <1> USE DEF Complete, Known, Early, client, wc, discord
  <1>1. CASE CloseCancelled \/ HeartbeatFails \/ WritesCollide \/ Load \/ CloseReturns
    BY <1>1 DEF CloseCancelled, HeartbeatFails, WritesCollide, Load, CloseReturns, Waiting
  <1>2. CASE NewClient
    BY <1>2 DEF NewClient, Starting
  <1>3. CASE Dial
    <2>1. UNCHANGED <<client, ready, asked, removed>> /\ Send(Msg("hello"))
      BY <1>3 DEF Dial, Starting
    <2>2. Early => Early'
      BY <2>1, MessageType, EarlySend DEF Msg, Ops
    <2> QED
      BY <2>1, <2>2
  <1>4. CASE CreateSession
    BY <1>4 DEF CreateSession, Starting
  <1>5. CASE DialFails \/ CreateSessionFails \/ BecomesReady \/ StartGetsResult \/ StartGivesUp
             \/ Fail
    BY <1>5 DEF DialFails, CreateSessionFails, BecomesReady, StartGetsResult, StartGivesUp, Fail,
                Starting
  <1>6. CASE Restart
    <2>1. session' => session
      BY <1>6 DEF Restart
    <2>2. UNCHANGED <<discord, loaded, unavailable, guilds, ready, removed>>
      BY <1>6 DEF Restart
    <2> QED
      BY <2>1, <2>2
  <1>7. ASSUME NEW s \in Senders, StartSend(s) \/ SendStep(s)
        PROVE  Complete'
    BY <1>7 DEF StartSend, SendStep, PassReady, Write, WriteFails, WriteClosed, PauseEnds,
                WriteNil, Sending
  <1> QED
    BY <1>1, <1>2, <1>3, <1>4, <1>5, <1>6, <1>7 DEF StartStep

\* Together: no step lets a goroutine past loadingCh too early.
LEMMA CompleteStep == TypeOK /\ Complete /\ [Next]_vars => Complete'
  <1> SUFFICES ASSUME TypeOK, Complete, [Next]_vars
               PROVE  Complete'
    OBVIOUS
  <1>1. CASE UNCHANGED vars
    BY <1>1 DEF vars, discord, client, wc, Complete, Known, Early
  <1> QED
    BY <1>1, EnvironmentKeepsComplete, LoopKeepsComplete, RestKeepsComplete DEF Next

\* Who waits for loadingCh sees every guild READY named, but for those that Discord has
\* taken away since (client.go:233, ws.go:386-448).
THEOREM LoadsCompletely == Spec => []LoadedMeansComplete
  <1>1. Complete => LoadedMeansComplete
    <2> SUFFICES ASSUME Complete, loaded
                 PROVE  guilds = Guilds \ removed
      BY DEF LoadedMeansComplete
    <2> QED
      BY DEF Complete
  <1> QED
    BY <1>1, TypeInit, TypeStep, CompleteInit, CompleteStep, PTL DEF Spec

-----------------------------------------------------------------------------
(* A connection that nobody disturbs.                                      *)

\* All that has been received and not read has one of these opcodes.
Only(ops) == \A i \in 1..Len(inbox) : inbox[i].op \in ops

\* While nothing has broken and nobody has asked for a reconnect there is one
\* connection, and no goroutine has begun to send before it was there.
Steady ==
    /\ \/ conn = "nil" /\ loop = "none" /\ sup \in {"new", "dial", "ended"}
       \/ conn = "open" /\ loop = "reading" /\ sup \in {"session", "await", "watching", "ended"}
    /\ sup \in {"new", "dial", "session", "await"} => main = "starting"
    /\ sup = "ended" => main = "exited"
    /\ loaded => conn = "open"
    /\ \A s \in Senders : sender[s] # "idle" => loaded
    /\ Only({"hello", "ready", "resumed", "create", "delete"})
    /\ crash # "nilConn"

SteadyInv == faults = 0 => Steady

\* What is sent is of its kind, and the rest of the inbox stays.
LEMMA SendFacts ==
    ASSUME TypeOK, NEW m \in Message, Send(m)
    PROVE  /\ Len(inbox) \in Nat /\ Len(inbox') = Len(inbox) + 1
           /\ \A i \in 1..Len(inbox) : inbox'[i] = inbox[i]
           /\ inbox'[Len(inbox) + 1] = m
  BY DEF TypeOK, Send

\* Reading takes the first and leaves the others in their order.
LEMMA ReadFacts ==
    ASSUME TypeOK, NEW op, Read(op)
    PROVE  /\ Len(inbox) \in Nat \ {0} /\ Len(inbox') = Len(inbox) - 1
           /\ \A i \in 1..Len(inbox') : i + 1 \in 1..Len(inbox) /\ inbox'[i] = inbox[i + 1]
           /\ Head(inbox) = inbox[1] /\ inbox[1].op = op /\ loop = "reading"
  BY DEF TypeOK, Read

\* Sending a message of some kind, and reading one.
LEMMA SendOnly ==
    ASSUME TypeOK, NEW ops, Only(ops), NEW m \in Message, Send(m), m.op \in ops
    PROVE  Only(ops)'
  BY SendFacts DEF Only

LEMMA ReadOnly ==
    ASSUME TypeOK, NEW ops, Only(ops), NEW op, Read(op)
    PROVE  Only(ops)' /\ op \in ops
  BY ReadFacts DEF Only

\* Faults are only ever added.
LEMMA FaultsCount ==
    ASSUME TypeOK, [Next]_vars, faults' = 0
    PROVE  faults = 0 /\ ~Fault
  <1>1. faults \in Nat /\ faults' # faults + 1
    BY GatewayAssumption DEF TypeOK
  <1>2. UNCHANGED faults \/ faults' = faults + 1
    BY DEF Next, Environment, AcceptSession, SendGuild, RemoveGuild, ResendGuild, AskReconnect,
           EndConnection, LoopStep, ReadHello, ReadReady, ReadResumed, ReadGuildCreate,
           ReadGuildDelete, ReadReconnect, ReadClose, ReadClosed, Cancel, CloseCancelled,
           HeartbeatFails, WritesCollide, StartStep, NewClient, Dial, DialFails, CreateSession,
           CreateSessionFails, BecomesReady, StartGetsResult, StartGivesUp, Restart, Fail, Load,
           CloseReturns, StartSend, SendStep, PassReady, Write, WriteFails, WriteClosed,
           PauseEnds, WriteNil, Fault, Looping, Handling, Starting, Waiting, Sending, budget, vars
  <1> QED
    BY <1>1, <1>2 DEF Fault

\* What Discord sends unasked, and answers.
LEMMA EnvironmentKeepsSteady ==
    ASSUME TypeOK, Steady, ~Fault, Environment
    PROVE  Steady'
  <1> USE DEF Steady, client, wc, senders, budget
  <1> DEFINE ops == {"hello", "ready", "resumed", "create", "delete"}
  <1>1. CASE AcceptSession
    <2>1. \E op \in ops : Msg(op) \in Message /\ Msg(op).op = op /\ Send(Msg(op))
      BY <1>1, MessageType DEF AcceptSession, Msg, Ops
    <2>2. Only(ops)'
      BY <2>1, SendOnly
    <2> QED
      BY <1>1, <2>2 DEF AcceptSession
  <1>2. ASSUME NEW g \in Guilds, SendGuild(g)
        PROVE  Steady'
    <2>1. Only(ops)'
      BY <1>2, MessageType, SendOnly DEF SendGuild, Create
    <2> QED
      BY <1>2, <2>1 DEF SendGuild
  <1>3. ASSUME NEW g \in Guilds, ResendGuild(g)
        PROVE  Steady'
    <2>1. Only(ops)'
      BY <1>3 DEF ResendGuild, Only
    <2> QED
      BY <1>3, <2>1 DEF ResendGuild
  <1>4. ASSUME NEW g \in Guilds, RemoveGuild(g)
        PROVE  Steady'
    <2>1. Only(ops)'
      BY <1>4, MessageType, SendOnly DEF RemoveGuild, Delete
    <2> QED
      BY <1>4, <2>1 DEF RemoveGuild
  <1> QED
    BY <1>1, <1>2, <1>3, <1>4 DEF Environment, AskReconnect, EndConnection

\* The loop reads no reason to end.
LEMMA LoopKeepsSteady ==
    ASSUME TypeOK, Steady, ~Fault,
           LoopStep \/ CloseCancelled \/ HeartbeatFails \/ WritesCollide
    PROVE  Steady'
  <1> USE DEF Steady, client, wc, senders, Looping, Handling
  <1> DEFINE ops == {"hello", "ready", "resumed", "create", "delete"}
  <1>1. ASSUME NEW op, Read(op)
        PROVE  Only(ops)' /\ op \in ops /\ conn = "open"
    BY <1>1, ReadOnly, ReadFacts
  <1>2. CASE ReadHello \/ ReadResumed
    BY <1>1, <1>2 DEF ReadHello, ReadResumed
  <1>3. CASE ReadReady
    BY <1>1, <1>3 DEF ReadReady, CloseLoading
  <1>4. CASE ReadGuildCreate
    BY <1>1, <1>4 DEF ReadGuildCreate, CloseLoading
  <1>5. ~ReadReconnect
    BY <1>1 DEF ReadReconnect
  <1>6. ASSUME NEW kind \in CloseKinds
        PROVE  ~ReadClose(kind)
    BY <1>1 DEF ReadClose, CloseKinds
  <1>7. ~ReadClosed /\ ~Cancel /\ ~CloseCancelled /\ ~HeartbeatFails
    BY DEF ReadClosed, Cancel, CloseCancelled, HeartbeatFails
  <1>8. CASE ReadGuildDelete
    BY <1>1, <1>8 DEF ReadGuildDelete
  <1>9. CASE WritesCollide
    <2>1. Only(ops)'
      BY <1>9 DEF WritesCollide, discord, Only
    <2> QED
      BY <1>9, <2>1 DEF WritesCollide
  <1> QED
    BY <1>2, <1>3, <1>4, <1>5, <1>6, <1>7, <1>8, <1>9 DEF LoopStep

\* The first start fails main, and there is no second one.
LEMMA StartKeepsSteady ==
    ASSUME TypeOK, Steady, Running, StartStep \/ Load \/ CloseReturns
    PROVE  Steady'
  <1> USE DEF Steady, client, wc, senders, discord, Starting, StartFails, Started
  <1> DEFINE ops == {"hello", "ready", "resumed", "create", "delete"}
  <1>1. CASE NewClient
    <2>1. Only(ops)'
      BY <1>1 DEF NewClient, Only
    <2>2. ~loaded
      BY <1>1 DEF NewClient
    <2> QED
      BY <1>1, <2>1, <2>2 DEF NewClient
  <1>2. CASE Dial
    <2>1. Only(ops)'
      BY <1>2, MessageType, SendOnly DEF Dial, Msg, Ops
    <2> QED
      BY <1>2, <2>1 DEF Dial
  <1>3. CASE ~NewClient /\ ~Dial
    <2>1. UNCHANGED inbox
      BY <1>3 DEF StartStep, DialFails, CreateSession, CreateSessionFails, BecomesReady,
             StartGetsResult, StartGivesUp, Restart, Fail, Load, CloseReturns, Waiting
    <2>2. Only(ops)'
      BY <2>1 DEF Only
    <2>3. CASE DialFails \/ CreateSession \/ CreateSessionFails \/ BecomesReady
      BY <2>2, <2>3 DEF DialFails, CreateSession, CreateSessionFails, BecomesReady
    <2>4. CASE StartGivesUp \/ Load \/ CloseReturns
      BY <2>2, <2>4 DEF StartGivesUp, Load, CloseReturns, Waiting
    <2>5. ~StartGetsResult /\ ~Restart /\ ~Fail
      BY DEF StartGetsResult, Restart, Fail
    <2> QED
      BY <1>3, <2>3, <2>4, <2>5 DEF StartStep
  <1> QED
    BY <1>1, <1>2, <1>3

\* A command meets the one connection.
LEMMA SendKeepsSteady ==
    ASSUME TypeOK, Steady, NEW s \in Senders, StartSend(s) \/ SendStep(s)
    PROVE  Steady'
  <1> USE DEF Steady, client, wc, discord, Sending, SenderGoes, TypeOK
  <1>1. Only({"hello", "ready", "resumed", "create", "delete"})'
    BY DEF Only, StartSend, SendStep, PassReady, Write, WriteFails, WriteClosed, PauseEnds,
           WriteNil
  <1>2. CASE StartSend(s)
    BY <1>1, <1>2 DEF StartSend
  <1>3. CASE PassReady(s) \/ Write(s) \/ WriteFails(s)
    BY <1>1, <1>3 DEF PassReady, Write, WriteFails
  <1>4. CASE PauseEnds(s)
    BY <1>1, <1>4 DEF PauseEnds
  <1>5. ~WriteClosed(s) /\ ~WriteNil(s)
    BY DEF WriteClosed, WriteNil
  <1> QED
    BY <1>2, <1>3, <1>4, <1>5 DEF SendStep

\* Undisturbed, it stays the one connection.
LEMMA SteadyStep == TypeOK /\ SteadyInv /\ [Next]_vars => SteadyInv'
  <1> SUFFICES ASSUME TypeOK, SteadyInv, [Next]_vars, faults' = 0
               PROVE  Steady'
    BY DEF SteadyInv
  <1>1. Steady /\ ~Fault
    BY FaultsCount DEF SteadyInv
  <1>2. CASE UNCHANGED vars
    BY <1>1, <1>2 DEF Steady, Only, vars, discord, client, wc, senders
  <1> QED
    BY <1>1, <1>2, EnvironmentKeepsSteady, LoopKeepsSteady, StartKeepsSteady, SendKeepsSteady
       DEF Next

\* The states of the guilds on their way: each is of a guild still to come, and none
\* comes twice.
Awaited ==
    /\ \A i \in 1..Len(inbox) :
         inbox[i].op = "create" => \E g \in unsent : inbox[i] = Create(g)
    /\ \A i, k \in 1..Len(inbox) :
         inbox[i].op = "create" /\ inbox[i] = inbox[k] => i = k

\* The course of a first session: nothing asked for; identified; READY on its way, with
\* the guilds to follow; READY handled, and the guilds not there are those to come.
Unasked == asked = "nothing" /\ unsent = {} /\ Only({"hello"})
Identified == asked = "identify" /\ unsent = {} /\ Only({"hello"})
Answered ==
    /\ asked = "nothing" /\ unsent = Guilds /\ Only({"hello", "ready"})
    /\ \A i, k \in 1..Len(inbox) : inbox[i].op = "ready" /\ inbox[k].op = "ready" => i = k
Coming ==
    /\ asked = "nothing" /\ Only({"hello", "create"}) /\ Awaited
    /\ unavailable = unsent /\ (loaded <=> unsent = {})

FirstSession ==
    /\ crash \in {"none", "twoWriters"} /\ removed = {}
    /\ sup \in {"new", "dial", "session"} => Unasked /\ ~ready
    /\ IF ready THEN Coming
       ELSE /\ ~session /\ ~loaded /\ unavailable = {}
            /\ Unasked \/ Identified \/ Answered

FirstInv == faults = 0 /\ reloads = 0 => FirstSession

\* Reading moves the guilds on their way up.
LEMMA ReadAwaited ==
    ASSUME TypeOK, Awaited, NEW op, Read(op), unsent' = unsent
    PROVE  Awaited'
  <1>1. \A i \in 1..Len(inbox') : i + 1 \in 1..Len(inbox) /\ inbox'[i] = inbox[i + 1]
    BY ReadFacts
  <1>2. ASSUME NEW i \in 1..Len(inbox'), NEW k \in 1..Len(inbox'),
               inbox'[i].op = "create", inbox'[i] = inbox'[k]
        PROVE  i = k
    <2>1. i + 1 = k + 1
      BY <1>1, <1>2 DEF Awaited
    <2> QED
      BY <2>1
  <1> QED
    BY <1>1, <1>2 DEF Awaited

\* What Discord does in a first session.
LEMMA EnvironmentKeepsFirst ==
    ASSUME TypeOK, FirstSession, Environment, ~Fault, reloads' = 0
    PROVE  FirstSession'
  <1> USE DEF FirstSession, client, wc, senders, budget
  <1>1. CASE AcceptSession
    <2>1. CASE asked = "identify"
      <3>1. ~ready /\ Identified /\ sup \notin {"new", "dial", "session"}
        BY <2>1 DEF Unasked, Identified, Answered, Coming
      <3>2. Send(Msg("ready")) /\ Msg("ready") \in Message /\ Msg("ready").op = "ready"
        BY <1>1, <2>1, MessageType DEF AcceptSession, Msg, Ops
      <3>3. /\ Len(inbox) \in Nat /\ Len(inbox') = Len(inbox) + 1
            /\ \A i \in 1..Len(inbox) : inbox'[i] = inbox[i]
            /\ inbox'[Len(inbox) + 1].op = "ready"
        BY <3>2, SendFacts
      <3>4. \A i \in 1..Len(inbox) : inbox'[i].op = "hello"
        BY <3>1, <3>3 DEF Identified, Only
      <3>5. \A i \in 1..Len(inbox') : i \in 1..Len(inbox) \/ i = Len(inbox) + 1
        BY <3>3
      <3>6. Answered'
        BY <1>1, <2>1, <3>3, <3>4, <3>5 DEF AcceptSession, Answered, Only
      <3> QED
        BY <1>1, <3>1, <3>6 DEF AcceptSession
    <2>2. CASE asked # "identify"
      <3>1. asked = "nothing"
        BY <2>2 DEF Unasked, Identified, Answered, Coming
      <3> QED
        BY <1>1, <3>1 DEF AcceptSession
    <2> QED
      BY <2>1, <2>2
  <1>2. ASSUME NEW g \in Guilds, SendGuild(g)
        PROVE  FirstSession'
    <2>1. /\ ready /\ Coming /\ g \in unsent /\ Send(Create(g)) /\ Create(g) \in Message
          /\ Create(g).op = "create"
      BY <1>2, MessageType DEF SendGuild, Create
    <2>2. /\ Len(inbox) \in Nat /\ Len(inbox') = Len(inbox) + 1
          /\ \A i \in 1..Len(inbox) : inbox'[i] = inbox[i] /\ inbox[i] # Create(g)
          /\ inbox'[Len(inbox) + 1] = Create(g)
      BY <1>2, <2>1, SendFacts DEF SendGuild
    <2>3. \A i \in 1..Len(inbox') : i \in 1..Len(inbox) \/ i = Len(inbox) + 1
      BY <2>2
    <2>4. Only({"hello", "create"})'
      BY <2>1, SendOnly DEF Coming
    <2>5. \A i \in 1..Len(inbox') :
            inbox'[i].op = "create" => \E h \in unsent : inbox'[i] = Create(h)
      BY <2>1, <2>2, <2>3 DEF Coming, Awaited
    <2>6. ASSUME NEW i \in 1..Len(inbox'), NEW k \in 1..Len(inbox'),
                 inbox'[i].op = "create", inbox'[i] = inbox'[k]
          PROVE  i = k
      BY <2>1, <2>2, <2>3, <2>6 DEF Coming, Awaited
    <2>7. Awaited'
      BY <1>2, <2>5, <2>6 DEF Awaited, SendGuild
    <2> QED
      BY <1>2, <2>1, <2>4, <2>7 DEF SendGuild, Coming
  <1>3. ASSUME NEW g \in Guilds
        PROVE  ~RemoveGuild(g) /\ ~ResendGuild(g)
    BY GatewayAssumption DEF RemoveGuild, ResendGuild, TypeOK
  <1> QED
    BY <1>1, <1>2, <1>3 DEF Environment, AskReconnect, EndConnection

\* What the event loop does in a first session.
LEMMA LoopKeepsFirst ==
    ASSUME TypeOK, Steady, FirstSession, ~Fault,
           LoopStep \/ CloseCancelled \/ HeartbeatFails \/ WritesCollide
    PROVE  FirstSession'
  <1> USE DEF FirstSession, Unasked, Identified, client, wc, senders, Looping, Handling
  <1>1. CASE ReadHello
    <2>1. CASE ready
      <3>1. Only({"hello", "create"})' /\ Awaited'
        BY <1>1, <2>1, ReadOnly, ReadAwaited DEF ReadHello, Coming
      <3> QED
        BY <1>1, <2>1, <3>1 DEF ReadHello, Coming
    <2>2. CASE ~ready
      <3>1. Only({"hello"}) => Only({"hello"})'
        BY <1>1, ReadOnly DEF ReadHello
      <3>2. Answered => Answered'
        <4>1. ASSUME Answered
              PROVE  Only({"hello", "ready"})'
          BY <1>1, <4>1, ReadOnly DEF ReadHello, Answered
        <4>2. ASSUME Answered, NEW i \in 1..Len(inbox'), NEW k \in 1..Len(inbox'),
                     inbox'[i].op = "ready", inbox'[k].op = "ready"
              PROVE  i = k
          <5>1. /\ i + 1 \in 1..Len(inbox) /\ inbox'[i] = inbox[i + 1]
                /\ k + 1 \in 1..Len(inbox) /\ inbox'[k] = inbox[k + 1]
            BY <1>1, <4>2, ReadFacts DEF ReadHello
          <5>2. i + 1 = k + 1
            BY <4>2, <5>1 DEF Answered
          <5> QED
            BY <5>2
        <4> QED
          BY <1>1, <4>1, <4>2 DEF ReadHello, Answered
      <3> QED
        BY <1>1, <2>2, <3>1, <3>2 DEF ReadHello
    <2> QED
      BY <2>1, <2>2
  <1>2. CASE ReadReady
    <2>1. ~ready /\ Answered /\ sup \notin {"new", "dial", "session"}
      BY <1>2, ReadOnly DEF ReadReady, Coming
    <2>2. ASSUME NEW i \in 1..Len(inbox')
          PROVE  inbox'[i].op = "hello"
      <3>1. i + 1 \in 1..Len(inbox) /\ inbox'[i] = inbox[i + 1] /\ inbox[1].op = "ready"
            /\ 1 \in 1..Len(inbox)
        BY <1>2, ReadFacts DEF ReadReady
      <3>2. i + 1 # 1
        OBVIOUS
      <3> QED
        BY <2>1, <3>1, <3>2 DEF Answered, Only
    <2>3. Only({"hello", "create"})' /\ Awaited'
      BY <2>2 DEF Only, Awaited
    <2>4. unavailable' = Guilds /\ unsent' = Guilds /\ asked' = "nothing" /\ ready'
      BY <1>2, <2>1 DEF ReadReady, Answered
    <2>5. (loaded' <=> Guilds = {}) /\ crash' \in {"none", "twoWriters"}
      BY <1>2, <2>1, <2>4 DEF ReadReady, CloseLoading
    <2> QED
      BY <1>2, <2>1, <2>3, <2>4, <2>5 DEF ReadReady, Coming
  <1>3. CASE ReadGuildCreate
    <2>1. ready /\ Coming
      BY <1>3, ReadOnly DEF ReadGuildCreate, Answered
    <2>2. /\ 1 \in 1..Len(inbox) /\ Head(inbox) = inbox[1] /\ inbox[1].op = "create"
          /\ \A i \in 1..Len(inbox') : i + 1 \in 1..Len(inbox) /\ inbox'[i] = inbox[i + 1]
                                       /\ i + 1 # 1
      BY <1>3, ReadFacts DEF ReadGuildCreate
    <2>3. PICK g \in unsent : Head(inbox) = Create(g)
      BY <2>1, <2>2 DEF Coming, Awaited
    <2>4. /\ unsent' = unsent \ {g} /\ unavailable' = unsent' /\ ~loaded
      BY <1>3, <2>1, <2>3 DEF ReadGuildCreate, Create, Coming
    <2>5. (loaded' <=> unsent' = {}) /\ crash' \in {"none", "twoWriters"}
      BY <1>3, <2>4 DEF ReadGuildCreate, CloseLoading
    <2>6. ASSUME NEW i \in 1..Len(inbox'), inbox'[i].op = "create"
          PROVE  \E h \in unsent' : inbox'[i] = Create(h)
      <3>1. PICK h \in unsent : inbox[i + 1] = Create(h)
        BY <2>1, <2>2, <2>6 DEF Coming, Awaited
      <3>2. inbox[i + 1] # inbox[1]
        BY <2>1, <2>2 DEF Coming, Awaited
      <3>3. h # g
        BY <2>2, <2>3, <3>1, <3>2
      <3> QED
        BY <2>2, <2>4, <3>1, <3>3
    <2>7. ASSUME NEW i \in 1..Len(inbox'), NEW k \in 1..Len(inbox'),
                 inbox'[i].op = "create", inbox'[i] = inbox'[k]
          PROVE  i = k
      <3>1. i + 1 = k + 1
        BY <2>1, <2>2, <2>7 DEF Coming, Awaited
      <3> QED
        BY <3>1
    <2>8. Awaited'
      BY <2>6, <2>7 DEF Awaited
    <2>9. Only({"hello", "create"})'
      BY <1>3, <2>1, ReadOnly DEF ReadGuildCreate, Coming
    <2> QED
      BY <1>3, <2>1, <2>4, <2>5, <2>8, <2>9 DEF ReadGuildCreate, Coming
  <1>4. ~ReadResumed
    BY ReadOnly DEF ReadResumed, Answered, Coming
  <1>5. ~ReadReconnect
    BY ReadOnly DEF ReadReconnect, Steady
  <1>6. ASSUME NEW kind \in CloseKinds
        PROVE  ~ReadClose(kind)
    BY ReadOnly DEF ReadClose, CloseKinds, Steady
  <1>7. ~ReadClosed /\ ~Cancel /\ ~CloseCancelled /\ ~HeartbeatFails
    BY DEF ReadClosed, Cancel, CloseCancelled, HeartbeatFails, Steady
  <1>8. ~ReadGuildDelete
    BY ReadOnly DEF ReadGuildDelete, Answered, Coming
  <1>9. CASE WritesCollide
    BY <1>9 DEF WritesCollide, discord, Answered, Coming, Awaited, Only
  <1> QED
    BY <1>1, <1>2, <1>3, <1>4, <1>5, <1>6, <1>7, <1>8, <1>9 DEF LoopStep

\* What the goroutine that starts the connection, main and the senders do in it.
LEMMA RestKeepsFirst ==
    ASSUME TypeOK, Steady, FirstSession, Running,
           \/ StartStep \/ Load \/ CloseReturns
           \/ \E s \in Senders : StartSend(s) \/ SendStep(s)
    PROVE  FirstSession'
  <1> USE DEF FirstSession, client, wc, senders, discord, Starting, StartFails, Started, Sending
  <1>1. CASE NewClient
    <2>1. Only({"hello"})'
      BY <1>1 DEF NewClient, Only
    <2> QED
      BY <1>1, <2>1 DEF NewClient, Unasked
  <1>2. CASE Dial
    <2>1. Only({"hello"})'
      BY <1>2, MessageType, SendOnly DEF Dial, Unasked, Msg, Ops
    <2> QED
      BY <1>2, <2>1 DEF Dial, Unasked
  <1>3. CASE CreateSession
    <2>1. Unasked /\ ~ready /\ conn = "open" /\ inbox' = inbox
      BY <1>3 DEF CreateSession, Steady
    <2>2. Identified'
      BY <1>3, <2>1 DEF CreateSession, Unasked, Identified, Only
    <2> QED
      BY <1>3, <2>1, <2>2 DEF CreateSession
  <1>4. ASSUME UNCHANGED <<discord, client, ready, crash, removed>>,
               sup' \in {"new", "dial", "session"} => sup' = sup
        PROVE  FirstSession'
    BY <1>4 DEF Unasked, Identified, Answered, Coming, Awaited, Only
  <1>5. CASE DialFails \/ CreateSessionFails \/ BecomesReady \/ StartGivesUp \/ Load
             \/ CloseReturns
    BY <1>4, <1>5 DEF DialFails, CreateSessionFails, BecomesReady, StartGivesUp, Load,
                      CloseReturns, Waiting
  <1>6. ~StartGetsResult /\ ~Restart /\ ~Fail
    BY DEF StartGetsResult, Restart, Fail, Steady
  <1>7. ASSUME NEW s \in Senders, StartSend(s) \/ SendStep(s)
        PROVE  FirstSession'
    <2>1. ~WriteNil(s)
      BY DEF WriteNil, Steady
    <2> QED
      BY <1>4, <1>7, <2>1 DEF StartSend, SendStep, PassReady, Write, WriteFails, WriteClosed,
             PauseEnds
  <1> QED
    BY <1>1, <1>2, <1>3, <1>5, <1>6, <1>7 DEF StartStep

\* Undisturbed, the first session goes on, and loads once.
LEMMA FirstStep == TypeOK /\ SteadyInv /\ FirstInv /\ [Next]_vars => FirstInv'
  <1> SUFFICES ASSUME TypeOK, SteadyInv, FirstInv, [Next]_vars, faults' = 0, reloads' = 0
               PROVE  FirstSession'
    BY DEF FirstInv
  <1>1. faults = 0 /\ ~Fault
    BY FaultsCount
  <1>2. reloads = 0
    <2>1. reloads \in Nat /\ (UNCHANGED reloads \/ reloads' = reloads + 1)
      BY GatewayAssumption
         DEF TypeOK, Next, Environment, AcceptSession, SendGuild, RemoveGuild, ResendGuild,
             AskReconnect, EndConnection, LoopStep, ReadHello, ReadReady, ReadResumed,
             ReadGuildCreate, ReadGuildDelete, ReadReconnect, ReadClose, ReadClosed, Cancel,
             CloseCancelled, HeartbeatFails, WritesCollide, StartStep, NewClient, Dial,
             DialFails, CreateSession, CreateSessionFails, BecomesReady, StartGetsResult,
             StartGivesUp, Restart, Fail, Load, CloseReturns, StartSend, SendStep, PassReady,
             Write, WriteFails, WriteClosed, PauseEnds, WriteNil, Looping, Handling, Starting,
             Waiting, Sending, budget, vars
    <2> QED
      BY <2>1
  <1>3. FirstSession /\ Steady
    BY <1>1, <1>2 DEF FirstInv, SteadyInv
  <1>4. CASE UNCHANGED vars
    BY <1>3, <1>4 DEF FirstSession, Unasked, Identified, Answered, Coming, Awaited, Only, vars,
           discord, client, wc
  <1> QED
    BY <1>1, <1>3, <1>4, EnvironmentKeepsFirst, LoopKeepsFirst, RestKeepsFirst DEF Next

\* Only broken connections and requests to reconnect end the loop, give the supervisor
\* an error or let a command meet no connection; and as long as no guild is taken away
\* either, loadingCh is closed once, and the one way left to panic is two writers at once
\* (ws.go:94-107, 354, 386-448).
THEOREM UndisturbedServesCorrect == Spec => []UndisturbedServes
  <1>1. Init => SteadyInv /\ FirstInv
    BY DEF Init, SteadyInv, Steady, FirstInv, FirstSession, Unasked, Only
  <1>2. SteadyInv /\ FirstInv => UndisturbedServes
    BY DEF SteadyInv, Steady, FirstInv, FirstSession, UndisturbedServes
  <1> QED
    BY <1>1, <1>2, TypeInit, TypeStep, SteadyStep, FirstStep, PTL DEF Spec

-----------------------------------------------------------------------------
(* The steps of a command.                                                 *)

\* A command has a number of steps left.
LEMMA SendsLeftNat ==
    ASSUME TypeOK, NEW s \in Senders
    PROVE  tries[s] \in 0..RetryLimit /\ SendsLeft(s) \in Nat
  BY GatewayAssumption DEF TypeOK, SendsLeft

\* Each of them leaves it fewer.
LEMMA SendStepBounded ==
    ASSUME TypeOK, NEW s \in Senders, StartSend(s) \/ SendStep(s),
           <<sender[s], tries[s]>>' # <<sender[s], tries[s]>>
    PROVE  SendsLeft(s)' \in 0 .. SendsLeft(s) - 1
  <1>1. /\ RetryLimit \in Nat /\ tries[s] \in 0..RetryLimit
        /\ sender \in [Senders -> {"idle", "wait", "write", "paused", "done", "failed"}]
        /\ tries \in [Senders -> 0..RetryLimit]
    BY GatewayAssumption DEF TypeOK
  <1> USE <1>1 DEF SendsLeft, SenderGoes, senders
  <1>2. CASE StartSend(s)
    BY <1>2 DEF StartSend
  <1>3. CASE PassReady(s)
    BY <1>3 DEF PassReady
  <1>4. CASE Write(s) \/ WriteFails(s)
    BY <1>4 DEF Write, WriteFails
  <1>5. CASE WriteClosed(s)
    BY <1>5 DEF WriteClosed
  <1>6. CASE PauseEnds(s)
    BY <1>6 DEF PauseEnds
  <1>7. CASE WriteNil(s)
    BY <1>7 DEF WriteNil
  <1> QED
    BY <1>2, <1>3, <1>4, <1>5, <1>6, <1>7 DEF SendStep

\* A command is tried a bounded number of times, for any retry limit and any number
\* of reconnects (ws.go:139-156).
THEOREM SendsAreBoundedCorrect == Spec => SendsAreBounded
  <1>1. ASSUME TypeOK, [Next]_vars, NEW s \in Senders,
               <<sender[s], tries[s]>>' # <<sender[s], tries[s]>>
        PROVE  SendsLeft(s)' \in 0 .. SendsLeft(s) - 1
    <2>1. ~(UNCHANGED senders)
      BY <1>1 DEF senders
    <2>2. PICK i \in Senders : StartSend(i) \/ SendStep(i)
      BY <1>1, <2>1
         DEF Next, vars, Environment, AcceptSession, SendGuild, RemoveGuild, ResendGuild,
             AskReconnect, EndConnection, LoopStep, ReadHello, ReadReady, ReadResumed,
             ReadGuildCreate, ReadGuildDelete, ReadReconnect, ReadClose, ReadClosed, Cancel,
             CloseCancelled, HeartbeatFails, WritesCollide, StartStep, NewClient, Dial,
             DialFails, CreateSession, CreateSessionFails, BecomesReady, StartGetsResult,
             StartGivesUp, Restart, Fail, Load, CloseReturns, Looping, Handling, Starting, Waiting
    <2>3. CASE i = s
      BY <1>1, <2>2, <2>3, SendStepBounded
    <2>4. CASE i # s
      BY <1>1, <2>2, <2>4
         DEF TypeOK, StartSend, SendStep, PassReady, Write, WriteFails, WriteClosed, PauseEnds,
             WriteNil, SenderGoes, senders
    <2> QED
      BY <2>3, <2>4
  <1>2. TypeOK /\ [Next]_vars =>
          [\A s \in Senders :
             <<sender[s], tries[s]>>' # <<sender[s], tries[s]>>
                => SendsLeft(s)' \in 0 .. SendsLeft(s) - 1]_vars
    BY <1>1
  <1> QED
    BY <1>2, TypeCorrect, PTL DEF Spec, SendsAreBounded
=============================================================================
