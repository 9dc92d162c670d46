--------------------------- MODULE ClientsProofs ---------------------------
(***************************************************************************)
(* Proofs about the programs that use the daemon, for any number of calls, *)
(* connections, tool calls, commands and host processes.                   *)
(***************************************************************************)
EXTENDS Clients, FiniteSetTheorems, TLAPS

(***************************************************************************)
(* The MCP server.  The tool call that sends or runs holds the lock and a  *)
(* client; a daemon on whose client a command failed is gone.              *)
(***************************************************************************)

Executing == {"sending", "running"}

Phases == {"idle", "locking"} \cup Executing

McpInv ==
    /\ up \in BOOLEAN /\ gen \in Nat \ {0}
    /\ grpc_client \in 0..gen
    /\ queue \in Seq(Tools)
    /\ phase \in [Tools -> Phases]
    /\ \A t \in Tools : phase[t] \in Executing => Holds(t) /\ grpc_client # 0
    /\ \A d \in failed : d \in 1..gen /\ (d = gen => ~up)
    /\ StaleClientFailsOnce

LEMMA McpStart == ClientsInit => McpInv
<1> SUFFICES ASSUME ClientsInit PROVE McpInv
  BY Zenon
<1>1. /\ up \in BOOLEAN /\ gen = 1 /\ grpc_client = 0 /\ queue = <<>> /\ failed = {}
      /\ phase = [t \in Tools |-> "idle"]
  BY Zenon DEF ClientsInit, DaemonInit, McpInit
<1>2. gen \in Nat \ {0} /\ grpc_client \in 0..gen /\ queue \in Seq(Tools)
  BY <1>1
<1> QED BY <1>1, <1>2, Zenon DEF McpInv, Phases, Executing, StaleClientFailsOnce

\* What the rest of the host does to the daemon: a daemon that has gone does
\* not come back, another takes its place.
LEMMA OthersMcp ==
    ASSUME McpInv, Others, UNCHANGED <<grpc_client, queue, phase, failed>>
    PROVE  McpInv'
<1>1. up' \in BOOLEAN /\ ((gen' = gen /\ (up' => up)) \/ gen' = gen + 1)
  BY Zenon DEF Others, DaemonStarts, DaemonEnds, TerminalBoots, TerminalStops, FinishesLate, McpInv
<1>2. UNCHANGED <<grpc_client, queue, phase, failed>>
  BY Zenon
<1>3. gen \in Nat \ {0} /\ gen' \in Nat \ {0} /\ 0..gen \subseteq 0..gen' /\ up' \in BOOLEAN
  BY <1>1 DEF McpInv
<1>4. \A d \in failed' : d \in 1..gen' /\ (d = gen' => ~up')
  BY <1>1, <1>2, <1>3 DEF McpInv
<1> QED BY <1>2, <1>3, <1>4, Zenon DEF McpInv, Holds, StaleClientFailsOnce

\* The lock: who runs is at the head of the queue, so no other runs.
LEMMA ToolMcp ==
    ASSUME McpInv, NEW t \in Tools, ToolCall(t) \/ McpStep(t)
    PROVE  McpInv'
<1>1. UNCHANGED <<up, gen>>
  BY Zenon DEF ToolCall, McpStep, Client, ConnectFails, Reconnects, Request, CommandReturns, CommandFails,
              daemonVars
<1>2. ASSUME ToolCall(t) PROVE McpInv'
  <2>1. /\ phase' = [phase EXCEPT ![t] = "locking"] /\ queue' = Append(queue, t)
        /\ UNCHANGED <<grpc_client, failed>>
    BY <1>2, Zenon DEF ToolCall
  <2>2. /\ phase' \in [Tools -> Phases]
        /\ \A u \in Tools : phase'[u] \in Executing => phase[u] \in Executing
    BY <2>1, Zenon DEF McpInv, Phases, Executing
  <2>3. queue' \in Seq(Tools) /\ (queue # <<>> => queue' # <<>> /\ Head(queue') = Head(queue))
    BY <2>1 DEF McpInv
  <2> QED BY <1>1, <2>1, <2>2, <2>3, Zenon DEF McpInv, Holds, StaleClientFailsOnce
<1>3. ASSUME NEW where \in Executing, phase' = [phase EXCEPT ![t] = where], Holds(t), queue' = queue,
             grpc_client' # 0, grpc_client' \in 0..gen, grpc_client' \notin failed, failed' = failed
      PROVE  McpInv'
  BY <1>1, <1>3, Zenon DEF McpInv, Holds, StaleClientFailsOnce, Phases
<1>4. ASSUME phase' = [phase EXCEPT ![t] = "idle"], Holds(t), queue' = Tail(queue)
      PROVE  /\ phase' \in [Tools -> Phases] /\ queue' \in Seq(Tools)
             /\ \A u \in Tools : phase'[u] \notin Executing
  <2>1. queue' \in Seq(Tools)
    BY <1>4 DEF McpInv, Holds
  <2>2. \A u \in Tools : phase[u] \in Executing => u = t
    BY <1>4, Zenon DEF McpInv, Holds
  <2> QED BY <1>4, <2>1, <2>2, Zenon DEF McpInv, Phases, Executing
<1>5. ASSUME Connect, up
      PROVE  grpc_client' # 0 /\ grpc_client' \in 0..gen /\ grpc_client' \notin failed
  BY <1>5 DEF Connect, McpInv
<1>6. CASE Client(t)
  <2>1. /\ phase' = [phase EXCEPT ![t] = "sending"] /\ Holds(t) /\ queue' = queue /\ failed' = failed
        /\ IF grpc_client = 0 THEN Connect /\ up ELSE grpc_client' = grpc_client
    BY <1>6, Zenon DEF Client
  <2>2. grpc_client' # 0 /\ grpc_client' \in 0..gen /\ grpc_client' \notin failed
    BY <1>5, <2>1, Zenon DEF McpInv, StaleClientFailsOnce
  <2> QED BY <1>3, <2>1, <2>2, Zenon DEF Executing
<1>7. CASE ConnectFails(t)
  BY <1>1, <1>4, <1>7, Zenon DEF ConnectFails, McpInv, StaleClientFailsOnce
<1>8. CASE Reconnects(t)
  <2>1. phase' = phase /\ queue' = queue /\ failed' = failed /\ Connect /\ up
    BY <1>8, Zenon DEF Reconnects
  <2>2. grpc_client' # 0 /\ grpc_client' \in 0..gen /\ grpc_client' \notin failed
    BY <1>5, <2>1, Zenon
  <2> QED BY <1>1, <2>1, <2>2, Zenon DEF McpInv, Holds, StaleClientFailsOnce
<1>9. CASE Request(t)
  <2>1. /\ phase' = [phase EXCEPT ![t] = "running"] /\ phase[t] = "sending" /\ queue' = queue
        /\ failed' = failed /\ grpc_client' = grpc_client
    BY <1>9, Zenon DEF Request
  <2>2. Holds(t) /\ grpc_client # 0 /\ grpc_client \in 0..gen /\ grpc_client \notin failed
    BY <2>1, Zenon DEF McpInv, Executing, StaleClientFailsOnce
  <2> QED BY <1>3, <2>1, <2>2, Zenon DEF Executing
<1>10. CASE CommandReturns(t)
  <2>1. Holds(t)
    BY <1>10, Zenon DEF CommandReturns, McpInv, Executing
  <2> QED BY <1>1, <1>4, <1>10, <2>1, Zenon DEF CommandReturns, McpInv, StaleClientFailsOnce
<1>11. CASE CommandFails(t)
  <2>1. Holds(t) /\ grpc_client # 0
    BY <1>11, Zenon DEF CommandFails, Error, McpInv, Executing
  <2>2. /\ phase' = [phase EXCEPT ![t] = "idle"] /\ queue' = Tail(queue) /\ grpc_client' = 0
        /\ failed' = failed \/ (failed' = failed \cup {grpc_client} /\ ~(up /\ grpc_client = gen))
    BY <1>11, Zenon DEF CommandFails, Connected
  <2>3. grpc_client \in 1..gen
    BY <2>1 DEF McpInv
  <2>4. \A d \in failed' : d \in 1..gen /\ (d = gen => ~up)
    BY <2>2, <2>3, Zenon DEF McpInv
  <2>5. 0 \in 0..gen /\ 0 \notin 1..gen
    BY DEF McpInv
  <2> QED BY <1>1, <1>4, <2>1, <2>2, <2>4, <2>5, Zenon DEF McpInv, StaleClientFailsOnce
<1> QED BY <1>2, <1>6, <1>7, <1>8, <1>9, <1>10, <1>11, Zenon DEF McpStep

\* A client of a daemon that has gone fails one tool call at most, however the
\* calls queue for the lock and the daemon comes and goes (server.rs, exec).
THEOREM StaleClientsFailOnce == ClientsSpec => []StaleClientFailsOnce
<1>1. McpInv /\ [ClientsNext]_allVars => McpInv'
  <2> SUFFICES ASSUME McpInv, [ClientsNext]_allVars PROVE McpInv'
    BY Zenon
  <2>1. ASSUME UNCHANGED mcpVars, Others \/ (gen' = gen /\ up' = up) PROVE McpInv'
    <3>1. UNCHANGED <<grpc_client, queue, phase, failed>>
      BY <2>1, Zenon DEF mcpVars
    <3>2. CASE gen' = gen /\ up' = up
      BY <3>1, <3>2, Zenon DEF McpInv, Holds, StaleClientFailsOnce
    <3> QED BY <2>1, <3>1, <3>2, OthersMcp, Zenon
  <2>2. CASE Mcp(McpNext)
    BY <2>2, OthersMcp, ToolMcp, Zenon DEF Mcp, McpNext
  <2>3. CASE Ui(UiNext)
    <3>1. UNCHANGED mcpVars /\ (Others \/ (gen' = gen /\ up' = up))
      BY <2>3, Zenon DEF Ui, UiNext, Serve, ServeStatus, ServeBoot, ServeStop, Throw, Resume, ResumeBoot,
                  ResumeStop, ResumeSync, PollSeesRunning, PollSeesStopped, PollFails, boot, stop,
                  PollTick, daemonVars
    <3> QED BY <2>1, <3>1, Zenon
  <2>4. CASE Stream(StreamNext)
    <3>1. UNCHANGED mcpVars /\ (Others \/ (gen' = gen /\ up' = up))
      BY <2>4, Zenon DEF Stream, StreamNext, Others, StreamStart, StreamStop, NetStep, Opens, Refused, Fails,
                  Ends, Lags, SleepEnds, Arrives, Run, Ready, processChunk, TearDown, daemonVars
    <3> QED BY <2>1, <3>1, Zenon
  <2>5. CASE Cli(CliNext) \/ Quiet \/ UNCHANGED allVars
    BY <2>1, <2>5, Zenon DEF Cli, Quiet, allVars, daemonVars
  <2> QED BY <2>2, <2>3, <2>4, <2>5, Zenon DEF ClientsNext
<1>2. McpInv => StaleClientFailsOnce
  BY Zenon DEF McpInv
<1> QED BY <1>1, <1>2, McpStart, PTL DEF ClientsSpec

(***************************************************************************)
(* The event stream.  It waits to connect only while it has no connection, *)
(* and nothing of it is left once the app has dropped it.                  *)
(***************************************************************************)

StreamInv ==
    /\ net \in [Conns -> {"unused", "preparing", "ready", "waiting", "failed", "cancelled"}]
    /\ connection \in Conns \cup {0}
    /\ sleeping \in {0, 1} /\ (sleeping = 1 => connection = 0)
    /\ ~held => connection = 0 /\ sleeping = 0 /\ jobs = {} /\ receiving = {}
    /\ OneOpenConnection

\* connect: it is called while the stream has no connection.
LEMMA ConnectStream ==
    ASSUME StreamInv, NEW c \in Conns, connect(c), connection = 0, sleeping' = 0, held'
    PROVE  StreamInv'
  BY TelemetryStreamAssumption DEF StreamInv, connect, OneOpenConnection

\* Every step of the stream keeps its invariant.
LEMMA NextStream == StreamInv /\ StreamNext => StreamInv'
<1> SUFFICES ASSUME StreamInv, StreamNext PROVE StreamInv'
  BY Zenon
<1> USE TelemetryStreamAssumption
<1>1. CASE UNCHANGED streamVars
  BY <1>1, Zenon DEF streamVars, StreamInv, OneOpenConnection
<1>2. ASSUME NEW c \in Conns, StreamStart(c) PROVE StreamInv'
  BY <1>2, ConnectStream, Zenon DEF StreamStart, StreamInv
<1>3. ASSUME NEW c \in Conns, SleepEnds(c) PROVE StreamInv'
  BY <1>3, ConnectStream DEF SleepEnds, StreamInv
\* A callback of the framework is of the connection that is open.
<1>4. ASSUME NEW c \in Conns, NEW state \in {"ready", "waiting", "failed"},
             net[c] \in {"preparing", "ready"}, net' = [net EXCEPT ![c] = state],
             UNCHANGED <<held, connection, sleeping, receiving>>
      PROVE  StreamInv'
  BY <1>4, Zenon DEF StreamInv, OneOpenConnection
<1>5. ASSUME NEW c \in Conns, Opens(c) \/ Refused(c) \/ Fails(c) PROVE StreamInv'
  BY <1>4, <1>5, Zenon DEF Opens, Refused, Fails
<1>6. ASSUME NEW c \in Conns, Ends(c) \/ Lags(c) \/ \E what \in {"part", "line"} : Arrives(c, what)
      PROVE  StreamInv'
  BY <1>6, Zenon DEF Ends, Lags, Arrives, StreamInv, OneOpenConnection
\* Tearing down closes the connection the stream holds, and with it the last.
<1>7. ASSUME net' = Cancelled(net, connection), connection' = 0,
             sleeping' = 0 \/ (sleeping' = 1 /\ held'),
             ~held' => jobs' = {} /\ receiving' = {}
      PROVE  StreamInv'
  BY <1>7, Zenon DEF Cancelled, StreamInv, OneOpenConnection
<1>8. CASE StreamStop
  BY <1>7, <1>8, Zenon DEF StreamStop
<1>9. ASSUME NEW j \in jobs, Run(j) PROVE StreamInv'
  <2>1. held /\ held' = held
    BY <1>9, Zenon DEF Run, Ready, processChunk, TearDown, StreamInv
  <2>2. CASE TearDown(j)
    BY <1>7, <2>1, <2>2 DEF TearDown, scheduleReconnect
  <2>3. CASE Ready(j) \/ processChunk(j)
    BY <2>1, <2>3, Zenon DEF Ready, processChunk, StreamInv, OneOpenConnection
  <2> QED BY <1>9, <2>2, <2>3, Zenon DEF Run
<1> QED BY <1>1, <1>2, <1>3, <1>5, <1>6, <1>8, <1>9, Zenon DEF StreamNext, NetStep

\* The stream never has two connections open, however many callbacks of
\* earlier connections are late and reconnect tasks sleep (TelemetryStream's
\* connect and scheduleReconnect).
THEOREM ConnectionsDoNotPileUp == ClientsSpec => []OneOpenConnection
<1>1. ClientsInit => StreamInv
  BY Zenon DEF ClientsInit, StreamInit, StreamInv, OneOpenConnection
<1>2. StreamInv /\ [ClientsNext]_allVars => StreamInv'
  <2> SUFFICES ASSUME StreamInv, [ClientsNext]_allVars PROVE StreamInv'
    BY Zenon
  <2>1. CASE UNCHANGED streamVars
    BY <2>1, Zenon DEF streamVars, StreamInv, OneOpenConnection
  <2>2. CASE Stream(StreamNext)
    BY <2>2, NextStream, Zenon DEF Stream
  <2>3. CASE Ui(UiNext) \/ Mcp(McpNext) \/ Cli(CliNext) \/ Quiet \/ UNCHANGED allVars
    BY <2>1, <2>3, Zenon DEF Ui, Mcp, Cli, Quiet, allVars
  <2> QED BY <2>2, <2>3, Zenon DEF ClientsNext
<1>3. StreamInv => OneOpenConnection
  BY Zenon DEF StreamInv
<1> QED BY <1>1, <1>2, <1>3, PTL DEF ClientsSpec

(***************************************************************************)
(* The app.  Unless operations meet, one call is awaited at a time, and a  *)
(* boot is under way only while no timer runs.                             *)
(***************************************************************************)

UiTypes ==
    /\ vmState \in {"stopped", "booting", "running", "stopping", "error"}
    /\ uptimeTimer \in BOOLEAN /\ mockTimer \in BOOLEAN
    /\ running \in [{"uptime", "mock"} -> Int]
    /\ \A i \in CallIds : DOMAIN calls[i] = {"op", "mock", "reply"}
    /\ DOMAIN calls = CallIds

OneAtATime ==
    /\ \A i, j \in CallIds : calls[i].op # "none" /\ calls[j].op # "none" => i = j
    /\ \A i \in CallIds : calls[i] # NoCall => calls[i].op # "none"
    /\ \A i \in CallIds :
           /\ calls[i].op \in {"boot", "demo_boot"} => vmState = "booting"
           /\ calls[i].op \in {"stop", "demo_stop"} => vmState = "stopping"
           /\ calls[i].op = "sync" => vmState = "stopped"
    /\ vmState # "running" => ~uptimeTimer /\ ~mockTimer

UiInv == UiTypes /\ TimersTickOnce /\ ("overlap" \notin may => OneAtATime)

\* stopAll invalidates the timers that its fields hold.
LEMMA StopAllTimers ==
    ASSUME UiTypes, TimersTickOnce, stopAll, may' = may
    PROVE  /\ uptimeTimer' = FALSE /\ mockTimer' = FALSE
           /\ running' \in [{"uptime", "mock"} -> Int]
           /\ TimersTickOnce'
  BY DEF UiTypes, TimersTickOnce, stopAll

\* Starting timers where there are none of their kind.
LEMMA StartTimers ==
    ASSUME UiTypes, TimersTickOnce, may' = may,
           NEW kinds \in SUBSET {"uptime", "mock", "telemetry"}, Start(kinds),
           "overlap" \notin may =>
               ("uptime" \in kinds => ~uptimeTimer) /\ ("mock" \in kinds => ~mockTimer)
    PROVE  /\ uptimeTimer' \in BOOLEAN /\ mockTimer' \in BOOLEAN
           /\ running' \in [{"uptime", "mock"} -> Int]
           /\ TimersTickOnce'
<1>1. running \in [{"uptime", "mock"} -> Int] /\ uptimeTimer \in BOOLEAN /\ mockTimer \in BOOLEAN
  BY Zenon DEF UiTypes
<1>2. uptimeTimer' \in BOOLEAN /\ mockTimer' \in BOOLEAN
  BY Zenon DEF Start
<1>3. /\ running' = [k \in {"uptime", "mock"} |-> running[k] + IF k \in kinds THEN 1 ELSE 0]
      /\ \A k \in {"uptime", "mock"} : (IF k \in kinds THEN 1 ELSE 0) \in Int
  BY DEF Start
<1>4. running' \in [{"uptime", "mock"} -> Int]
  BY <1>1, <1>3
<1>5. /\ running'.uptime = IF "uptime" \in kinds THEN running.uptime + 1 ELSE running.uptime
      /\ running'.mock = IF "mock" \in kinds THEN running.mock + 1 ELSE running.mock
  BY <1>1, <1>3
<1>6. TimersTickOnce'
  <2> SUFFICES ASSUME "overlap" \notin may
               PROVE  /\ running'.uptime = IF uptimeTimer' THEN 1 ELSE 0
                      /\ running'.mock = IF mockTimer' THEN 1 ELSE 0
    BY Zenon DEF TimersTickOnce
  <2>1. (uptimeTimer' <=> uptimeTimer \/ "uptime" \in kinds) /\ (mockTimer' <=> mockTimer \/ "mock" \in kinds)
    BY Zenon DEF Start
  <2>2. /\ running.uptime = IF uptimeTimer THEN 1 ELSE 0
        /\ running.mock = IF mockTimer THEN 1 ELSE 0
    BY Zenon DEF TimersTickOnce
  <2> QED BY <1>5, <2>1, <2>2
<1> QED BY <1>2, <1>4, <1>6, Zenon

\* A call that is answered stays the call it was.
LEMMA AnswerUi ==
    ASSUME UiInv, NEW i \in CallIds, NEW reply, Answer(i, reply), calls[i].op # "none",
           UNCHANGED <<vmState, uptimeTimer, mockTimer, running, may>>
    PROVE  UiInv'
<1>1. /\ DOMAIN calls' = CallIds
      /\ \A j \in CallIds : DOMAIN calls'[j] = {"op", "mock", "reply"} /\ calls'[j].op = calls[j].op
      /\ \A j \in CallIds : j # i => calls'[j] = calls[j]
  BY Zenon DEF UiInv, UiTypes, Answer
<1>2. UiTypes'
  BY <1>1, Zenon DEF UiInv, UiTypes
<1>3. OneAtATime => OneAtATime'
  BY <1>1 DEF OneAtATime
<1> QED BY <1>2, <1>3, Zenon DEF UiInv, TimersTickOnce

\* A new call is the only one, unless operations meet.
LEMMA AwaitUi ==
    ASSUME UiInv, NEW i \in CallIds, NEW op \in Ops, NEW mock, Await(i, op, mock),
           UNCHANGED may
    PROVE  /\ DOMAIN calls' = CallIds /\ \A j \in CallIds : DOMAIN calls'[j] = {"op", "mock", "reply"}
           /\ "overlap" \notin may => /\ calls'[i].op = op
                                      /\ \A j \in CallIds : j # i => calls'[j] = NoCall
<1>1. calls' = [calls EXCEPT ![i] = [op |-> op, mock |-> mock, reply |-> "none"]]
  BY Zenon DEF Await
<1>2. "overlap" \notin may => \A j \in CallIds : calls[j] = NoCall
  BY Zenon DEF Await
<1>3. DOMAIN calls = CallIds /\ \A j \in CallIds : DOMAIN calls[j] = {"op", "mock", "reply"}
  BY Zenon DEF UiInv, UiTypes
<1> QED BY <1>1, <1>2, <1>3, Zenon

\* When a call returns there is none, unless operations meet.
LEMMA ReturnUi ==
    ASSUME UiInv, NEW i \in CallIds, Return(i), calls[i].op # "none"
    PROVE  /\ DOMAIN calls' = CallIds /\ \A j \in CallIds : DOMAIN calls'[j] = {"op", "mock", "reply"}
           /\ "overlap" \notin may => \A j \in CallIds : calls'[j] = NoCall
<1>1. calls' = [calls EXCEPT ![i] = NoCall]
  BY Zenon DEF Return
<1>2. "overlap" \notin may => \A j \in CallIds : j # i => calls[j] = NoCall
  BY Zenon DEF UiInv, OneAtATime
<1>3. DOMAIN calls = CallIds /\ \A j \in CallIds : DOMAIN calls[j] = {"op", "mock", "reply"}
  BY Zenon DEF UiInv, UiTypes
<1>4. DOMAIN NoCall = {"op", "mock", "reply"}
  BY Zenon DEF NoCall
<1> QED BY <1>1, <1>2, <1>3, <1>4, Zenon

\* The state after a step whose call, if one is awaited, is i.
LEMMA SettledUi ==
    ASSUME NEW i \in CallIds, may' = may,
           vmState' \in {"stopped", "booting", "running", "stopping", "error"},
           uptimeTimer' \in BOOLEAN, mockTimer' \in BOOLEAN,
           running' \in [{"uptime", "mock"} -> Int],
           DOMAIN calls' = CallIds, \A j \in CallIds : DOMAIN calls'[j] = {"op", "mock", "reply"},
           TimersTickOnce',
           "overlap" \notin may =>
               /\ \A j \in CallIds : j # i => calls'[j] = NoCall
               /\ calls'[i] = NoCall \/ calls'[i].op # "none"
               /\ calls'[i].op \in {"boot", "demo_boot"} => vmState' = "booting"
               /\ calls'[i].op \in {"stop", "demo_stop"} => vmState' = "stopping"
               /\ calls'[i].op # "sync"
               /\ vmState' # "running" => ~uptimeTimer' /\ ~mockTimer'
    PROVE  UiInv'
<1>1. UiTypes'
  BY Zenon DEF UiTypes
<1>2. NoCall.op = "none"
  BY Zenon DEF NoCall
<1>3. ASSUME "overlap" \notin may PROVE OneAtATime'
  <2>1. \A j \in CallIds : j # i => calls'[j] = NoCall /\ calls'[j].op = "none"
    BY <1>2, <1>3, Zenon
  <2> QED BY <1>2, <1>3, <2>1, Zenon DEF OneAtATime
<1> QED BY <1>1, <1>3, Zenon DEF UiInv

\* The user boots or stops, or the poll's timer fires.
LEMMA StartsUi ==
    ASSUME UiInv, NEW i \in CallIds, boot(i) \/ stop(i) \/ PollTick(i)
    PROVE  UiInv'
<1>1. UiTypes /\ TimersTickOnce /\ ("overlap" \notin may => OneAtATime) /\ may' = may
  BY Zenon DEF UiInv, boot, stop, PollTick
<1>2. CASE boot(i)
  <2>1. PICK op \in {"boot", "demo_boot"} : Await(i, op, TRUE)
    BY <1>2, Zenon DEF boot, Boot
  <2>2. /\ vmState \in {"stopped", "error"} /\ vmState' = "booting"
        /\ UNCHANGED <<uptimeTimer, mockTimer, running>>
    BY <1>2, Zenon DEF boot, Boot, Streams
  <2>3. /\ DOMAIN calls' = CallIds /\ \A j \in CallIds : DOMAIN calls'[j] = {"op", "mock", "reply"}
        /\ "overlap" \notin may => calls'[i].op = op /\ \A j \in CallIds : j # i => calls'[j] = NoCall
    BY <1>1, <2>1, AwaitUi, Zenon DEF Ops
  <2> QED BY <1>1, <2>1, <2>2, <2>3, SettledUi, Zenon DEF UiTypes, TimersTickOnce, OneAtATime
<1>3. CASE stop(i)
  <2>1. PICK op \in {"stop", "demo_stop"} : Await(i, op, FALSE)
    BY <1>3, Zenon DEF stop
  <2>2. vmState' = "stopping" /\ stopAll
    BY <1>3, Zenon DEF stop
  <2>3. /\ DOMAIN calls' = CallIds /\ \A j \in CallIds : DOMAIN calls'[j] = {"op", "mock", "reply"}
        /\ "overlap" \notin may => calls'[i].op = op /\ \A j \in CallIds : j # i => calls'[j] = NoCall
    BY <1>1, <2>1, AwaitUi, Zenon DEF Ops
  <2>4. /\ uptimeTimer' = FALSE /\ mockTimer' = FALSE
        /\ running' \in [{"uptime", "mock"} -> Int] /\ TimersTickOnce'
    BY <1>1, <2>2, StopAllTimers, Zenon
  <2> QED BY <1>1, <2>1, <2>2, <2>3, <2>4, SettledUi, Zenon
<1>4. CASE PollTick(i)
  <2>1. Await(i, "poll", FALSE) /\ UNCHANGED <<vmState, uptimeTimer, mockTimer, running>>
    BY <1>4, Zenon DEF PollTick, Streams
  <2>2. /\ DOMAIN calls' = CallIds /\ \A j \in CallIds : DOMAIN calls'[j] = {"op", "mock", "reply"}
        /\ "overlap" \notin may => calls'[i].op = "poll" /\ \A j \in CallIds : j # i => calls'[j] = NoCall
    BY <1>1, <2>1, AwaitUi, Zenon DEF Ops
  <2> QED BY <1>1, <2>1, <2>2, SettledUi, Zenon DEF UiTypes, TimersTickOnce, OneAtATime
<1> QED BY <1>2, <1>3, <1>4, Zenon

\* An operation goes on with the answer: it starts timers only from a state
\* in which the app has none of them.
LEMMA ResumeUi ==
    ASSUME UiInv, NEW i \in CallIds, Resume(i)
    PROVE  UiInv'
<1>1. UiTypes /\ TimersTickOnce /\ ("overlap" \notin may => OneAtATime) /\ may' = may
  BY Zenon DEF UiInv, Resume, ResumeBoot, ResumeStop, ResumeSync, PollSeesRunning, PollSeesStopped, PollFails
<1>2. calls[i].op # "none"
  BY Zenon DEF Resume, ResumeBoot, ResumeStop, ResumeSync, PollSeesRunning, PollSeesStopped, PollFails
<1> DEFINE Returned ==
        /\ DOMAIN calls' = CallIds /\ \A j \in CallIds : DOMAIN calls'[j] = {"op", "mock", "reply"}
        /\ "overlap" \notin may => \A j \in CallIds : calls'[j] = NoCall
<1>3. Return(i) => Returned
  BY <1>2, ReturnUi, Zenon
<1>4. NoCall.op = "none"
  BY Zenon DEF NoCall
\* The ways the state and the timers change when a call returns.
<1>5. ASSUME Returned, UNCHANGED <<vmState, uptimeTimer, mockTimer, running>> PROVE UiInv'
  BY <1>1, <1>4, <1>5, SettledUi, Zenon DEF UiTypes, TimersTickOnce, OneAtATime
<1>6. ASSUME Returned, vmState' \in {"stopped", "booting", "running", "stopping", "error"},
             stopAll
      PROVE  UiInv'
  <2>1. /\ uptimeTimer' = FALSE /\ mockTimer' = FALSE
        /\ running' \in [{"uptime", "mock"} -> Int] /\ TimersTickOnce'
    BY <1>1, <1>6, StopAllTimers, Zenon
  <2> QED BY <1>1, <1>4, <1>6, <2>1, SettledUi, Zenon
<1>7. ASSUME Returned, vmState' = "running", NEW kinds \in SUBSET {"uptime", "mock", "telemetry"},
             Start(kinds), "overlap" \notin may =>
                 ("uptime" \in kinds => ~uptimeTimer) /\ ("mock" \in kinds => ~mockTimer)
      PROVE  UiInv'
  <2>1. /\ uptimeTimer' \in BOOLEAN /\ mockTimer' \in BOOLEAN
        /\ running' \in [{"uptime", "mock"} -> Int] /\ TimersTickOnce'
    BY <1>1, <1>7, StartTimers, Zenon
  <2> QED BY <1>1, <1>4, <1>7, <2>1, SettledUi, Zenon
<1> HIDE DEF Returned
<1>8. CASE ResumeBoot(i)
  <2>1. "overlap" \notin may => ~uptimeTimer /\ ~mockTimer
    BY <1>1, <1>8, Zenon DEF ResumeBoot, OneAtATime
  <2>2. Returned
    BY <1>3, <1>8, Zenon DEF ResumeBoot
  <2>3. \/ vmState' = "running" /\ (Start({"uptime", "telemetry"}) \/ Start({"uptime", "mock"}))
        \/ vmState' = "error" /\ Start({})
    BY <1>8, Zenon DEF ResumeBoot
  <2>4. CASE vmState' = "error" /\ Start({})
    <3>1. /\ uptimeTimer' \in BOOLEAN /\ mockTimer' \in BOOLEAN
          /\ running' \in [{"uptime", "mock"} -> Int] /\ TimersTickOnce'
      BY <1>1, <2>4, StartTimers, Zenon
    <3>2. (uptimeTimer' <=> uptimeTimer) /\ (mockTimer' <=> mockTimer)
      BY <1>1, <2>4, Zenon DEF Start, UiTypes
    <3> QED BY <1>1, <1>4, <2>1, <2>2, <2>4, <3>1, <3>2, SettledUi, Zenon DEF Returned
  <2> QED BY <1>7, <2>1, <2>2, <2>3, <2>4, Zenon
<1>9. CASE ResumeStop(i)
  <2>1. Returned /\ vmState' = "stopped" /\ UNCHANGED <<uptimeTimer, mockTimer, running>>
    BY <1>3, <1>9, Zenon DEF ResumeStop, Streams
  <2>2. "overlap" \notin may => ~uptimeTimer /\ ~mockTimer
    BY <1>1, <1>9, Zenon DEF ResumeStop, OneAtATime
  <2> QED BY <1>1, <1>4, <2>1, <2>2, SettledUi, Zenon DEF UiTypes, TimersTickOnce, Returned
<1>10. CASE ResumeSync(i)
  <2>1. "overlap" \notin may => ~uptimeTimer /\ ~mockTimer
    BY <1>1, <1>10, Zenon DEF ResumeSync, OneAtATime
  <2>2. CASE calls[i].reply = "running"
    <3>1. vmState' = "running" /\ Start({"uptime", "telemetry"}) /\ Returned
      BY <1>3, <1>10, <2>2, Zenon DEF ResumeSync
    <3> QED BY <1>7, <2>1, <3>1, Zenon
  <2>3. CASE calls[i].reply = "stopped" /\ vmState \in {"stopped", "error"}
    <3>1. /\ vmState' = "booting" /\ UNCHANGED <<uptimeTimer, mockTimer, running>>
          /\ calls' = [calls EXCEPT ![i] = [NoCall EXCEPT !.op = "boot"]]
      BY <1>10, <2>3, Zenon DEF ResumeSync, Streams
    <3>2. "overlap" \notin may => \A j \in CallIds : j # i => calls[j] = NoCall
      BY <1>1, <1>2, Zenon DEF OneAtATime
    <3>3. /\ DOMAIN [NoCall EXCEPT !.op = "boot"] = {"op", "mock", "reply"}
          /\ [NoCall EXCEPT !.op = "boot"].op = "boot"
      BY Zenon DEF NoCall
    <3>4. /\ DOMAIN calls' = CallIds /\ \A j \in CallIds : DOMAIN calls'[j] = {"op", "mock", "reply"}
          /\ calls'[i].op = "boot"
          /\ "overlap" \notin may => \A j \in CallIds : j # i => calls'[j] = NoCall
      BY <1>1, <3>1, <3>2, <3>3, Zenon DEF UiTypes
    <3> QED BY <1>1, <2>1, <3>1, <3>4, SettledUi, Zenon DEF UiTypes, TimersTickOnce
  <2>4. CASE ~(calls[i].reply = "running") /\ ~(calls[i].reply = "stopped" /\ vmState \in {"stopped", "error"})
    <3>1. UNCHANGED <<vmState, uptimeTimer, mockTimer, running>> /\ Returned
      BY <1>3, <1>10, <2>4, Zenon DEF ResumeSync, Streams
    <3> QED BY <1>5, <3>1, Zenon
  <2> QED BY <2>2, <2>3, <2>4, Zenon
<1>11. CASE PollSeesRunning(i)
  <2>1. Returned
    BY <1>3, <1>11, Zenon DEF PollSeesRunning
  <2>2. CASE vmState \in {"stopped", "error"}
    <3>1. vmState' = "running" /\ Start({"uptime", "telemetry"})
      BY <1>11, <2>2, Zenon DEF PollSeesRunning
    <3>2. "overlap" \notin may => ~uptimeTimer /\ ~mockTimer
      BY <1>1, <2>2, Zenon DEF OneAtATime
    <3> QED BY <1>7, <2>1, <3>1, <3>2, Zenon
  <2>3. CASE vmState = "running"
    <3> DEFINE kinds == {k \in {"uptime"} : ~uptimeTimer} \cup {k \in {"telemetry"} : ~telemetry}
    <3>1. vmState' = "running" /\ Start(kinds)
      BY <1>11, <2>3, Zenon DEF PollSeesRunning
    <3>2. kinds \in SUBSET {"uptime", "mock", "telemetry"} /\ ("uptime" \in kinds => ~uptimeTimer)
          /\ "mock" \notin kinds
      BY Zenon
    <3> HIDE DEF kinds
    <3> QED BY <1>7, <2>1, <3>1, <3>2, Zenon
  <2>4. CASE vmState \notin {"stopped", "error", "running"}
    <3>1. UNCHANGED <<vmState, uptimeTimer, mockTimer, running>>
      BY <1>11, <2>4, Zenon DEF PollSeesRunning, Streams
    <3> QED BY <1>5, <2>1, <3>1, Zenon
  <2> QED BY <2>2, <2>3, <2>4, Zenon
<1>12. ASSUME RollBack, Returned PROVE UiInv'
  BY <1>5, <1>6, <1>12, Zenon DEF RollBack, Streams
<1>13. CASE PollSeesStopped(i)
  BY <1>3, <1>12, <1>13, Zenon DEF PollSeesStopped
<1>14. CASE PollFails(i)
  <2>1. Returned
    BY <1>3, <1>14, Zenon DEF PollFails
  <2>2. CASE RollBack
    BY <1>12, <2>1, <2>2, Zenon
  <2>3. CASE /\ uptimeTimer' = FALSE /\ UNCHANGED <<vmState, mockTimer>>
             /\ running' = [running EXCEPT !.uptime = IF uptimeTimer THEN @ - 1 ELSE @]
    <3>1. running' \in [{"uptime", "mock"} -> Int] /\ TimersTickOnce'
      BY <1>1, <2>3 DEF UiTypes, TimersTickOnce
    <3> QED BY <1>1, <1>4, <2>1, <2>3, <3>1, SettledUi, Zenon DEF UiTypes, OneAtATime, Returned
  <2> QED BY <1>14, <2>2, <2>3, Zenon DEF PollFails
<1> QED BY <1>8, <1>9, <1>10, <1>11, <1>13, <1>14, Zenon DEF Resume

\* The app's clock, and its demo, tick once: no timer is started while one of
\* its kind runs and none is lost before it is stopped, in any order of boots,
\* stops, polls and answers, if none of them meets another under way.
THEOREM TimersAreSingle == ClientsSpec => []TimersTickOnce
<1>1. ClientsInit => UiInv
  <2> SUFFICES ASSUME ClientsInit PROVE UiInv
    BY Zenon
  <2>1. /\ vmState = "stopped" /\ uptimeTimer = FALSE /\ mockTimer = FALSE
        /\ running = [uptime |-> 0, mock |-> 0]
        /\ calls = [i \in CallIds |-> IF i = 1 THEN [NoCall EXCEPT !.op = "sync"] ELSE NoCall]
    BY Zenon DEF ClientsInit, UiInit
  <2>2. /\ DOMAIN [NoCall EXCEPT !.op = "sync"] = {"op", "mock", "reply"}
        /\ [NoCall EXCEPT !.op = "sync"].op = "sync"
        /\ DOMAIN NoCall = {"op", "mock", "reply"} /\ NoCall.op = "none"
    BY Zenon DEF NoCall
  <2>3. UiTypes
    <3>1. [uptime |-> 0, mock |-> 0] \in [{"uptime", "mock"} -> Int]
      OBVIOUS
    <3>2. DOMAIN calls = CallIds /\ \A i \in CallIds : DOMAIN calls[i] = {"op", "mock", "reply"}
      BY <2>1, <2>2, Zenon
    <3> QED BY <2>1, <3>1, <3>2, Zenon DEF UiTypes
  <2>4. OneAtATime
    BY <2>1, <2>2, Zenon DEF OneAtATime
  <2> QED BY <2>1, <2>3, <2>4, Zenon DEF UiInv, TimersTickOnce
<1>2. UiInv /\ [ClientsNext]_allVars => UiInv'
  <2> SUFFICES ASSUME UiInv, [ClientsNext]_allVars PROVE UiInv'
    BY Zenon
  <2>1. CASE UNCHANGED uiVars
    BY <2>1, Zenon DEF uiVars, UiInv, UiTypes, OneAtATime, TimersTickOnce
  <2>2. ASSUME NEW i \in CallIds, Serve(i) \/ Throw(i) PROVE UiInv'
    <3>1. /\ calls[i].op # "none" /\ \E reply : Answer(i, reply)
          /\ UNCHANGED <<vmState, uptimeTimer, mockTimer, running, may>>
      BY <2>2, Zenon DEF Serve, Throw, ServeStatus, ServeBoot, ServeStop
    <3> QED BY <3>1, AnswerUi, Zenon
  <2>3. CASE Ui(UiNext)
    BY <2>1, <2>2, <2>3, StartsUi, ResumeUi, Zenon DEF Ui, UiNext
  <2>4. CASE Stream(StreamNext) \/ Mcp(McpNext) \/ Cli(CliNext) \/ Quiet \/ UNCHANGED allVars
    BY <2>1, <2>4, Zenon DEF Stream, Mcp, Cli, Quiet, allVars
  <2> QED BY <2>3, <2>4, Zenon DEF ClientsNext
<1>3. UiInv => TimersTickOnce
  BY Zenon DEF UiInv
<1> QED BY <1>1, <1>2, <1>3, PTL DEF ClientsSpec

(***************************************************************************)
(* The CLI.                                                                *)
(***************************************************************************)

ProcStates == {"free", "starting", "listening", "stranded", "tail", "other"}

CliStates ==
    [cmd : {"start", "down"},
     at : {"begin", "spawn", "poll", "up", "failed", "term", "signal", "wait", "kill", "done"},
     n : Nat, pids : SUBSET HostPids, seen : SUBSET HostPids, mustgo : SUBSET HostPids]

Rank(S, q) == Cardinality({x \in S : x < q})

Signalling == {"term", "signal", "wait", "kill"}

CliTypes ==
    /\ procs \in [HostPids -> ProcStates]
    /\ cli \in [Clis -> CliStates]
    /\ \A c \in Clis : cli[c].cmd = "start" => cli[c].at \notin Signalling \cup {"done"}

\* The pids that a `down` has before it are of the daemons it has seen, or free.
OwnTargets(c) ==
    cli[c].at \in Signalling =>
        cli[c].pids \subseteq cli[c].seen /\ \A p \in cli[c].pids : procs[p] \in Daemon \cup {"free"}

\* What a `down` has achieved at each of its steps.
Progress(c) ==
    /\ cli[c].at = "begin" => cli[c].n = 0
    /\ cli[c].at \in {"term", "signal"} => cli[c].n < Cardinality(cli[c].pids)
    /\ cli[c].at \in Signalling => cli[c].mustgo \subseteq cli[c].pids
    /\ "deaf" \in host => \A p \in cli[c].mustgo : procs[p] \notin {"starting", "stranded"}
    /\ "deaf" \notin host => \A p \in cli[c].mustgo :
           /\ cli[c].at \in {"term", "signal"} /\ Rank(cli[c].pids, p) < cli[c].n
                  => procs[p] \notin Daemon
           /\ cli[c].at \in {"wait", "kill"} => procs[p] \notin Daemon
    /\ cli[c].at = "done" => \A p \in cli[c].mustgo : procs[p] \notin Daemon

OneListener == \A p, q \in HostPids : procs[p] = "listening" /\ procs[q] = "listening" => p = q

\* Daemons that serve the port or have yet to try.
Servers == {p \in HostPids : procs[p] \in {"starting", "listening"}}

\* Where nothing stops a daemon, a start that has got past its check leaves one.
DaemonKept ==
    (/\ program = "cli" /\ "crash" \notin host /\ \A c \in Clis : cli[c].cmd = "start"
     /\ \E c \in Clis : cli[c].at \in {"poll", "up", "failed"})
        => Servers # {}

CliInv ==
    /\ CliTypes
    /\ host \cap {"tail", "reuse"} = {} =>
           /\ \A p \in HostPids : procs[p] # "tail"
           /\ \A c \in Clis : OwnTargets(c)
    /\ \A c \in Clis : Progress(c)
    /\ OneListener /\ DaemonKept
    /\ DownSignalsItsDaemons

\* The turns of the loop go through a list of pids: each has its turn.
LEMMA RankType ==
  ASSUME NEW S \in SUBSET HostPids, NEW q \in S
  PROVE  /\ IsFiniteSet(S) /\ Cardinality(S) \in Nat
         /\ Rank(S, q) \in Nat /\ Rank(S, q) < Cardinality(S)
<1> DEFINE T == {x \in S : x < q}
<1>1. IsFiniteSet(S) /\ Cardinality(S) \in Nat
  BY CliDaemonAssumption, FS_Subset, FS_CardinalityType, Zenon
<1>2. q \in Nat /\ q \notin T /\ T \in SUBSET S
  BY CliDaemonAssumption
<1> HIDE DEF T
<1>3. IsFiniteSet(T) /\ Cardinality(T) <= Cardinality(S) /\ Cardinality(T) # Cardinality(S)
  BY <1>1, <1>2, FS_Subset, Zenon
<1>4. Cardinality(T) \in Nat
  BY <1>3, FS_CardinalityType, Zenon
<1>5. Cardinality(T) < Cardinality(S)
  BY <1>1, <1>3, <1>4
<1> QED BY <1>1, <1>4, <1>5, Zenon DEF Rank, T

LEMMA RankDiffers ==
  ASSUME NEW S \in SUBSET HostPids, NEW p \in S, NEW q \in S, p < q
  PROVE  Rank(S, p) < Rank(S, q)
<1> DEFINE T == {x \in S : x < p}
           U == {x \in S : x < q}
<1>1. p \in Nat /\ q \in Nat /\ \A x \in S : x \in Nat
  BY CliDaemonAssumption, Zenon
<1>2. T \in SUBSET U /\ p \in U /\ p \notin T /\ U \in SUBSET S
  <2>1. \A x \in S : x < p => x < q
    BY <1>1
  <2>2. p \in U /\ p \notin T
    BY <1>1
  <2> QED BY <2>1, <2>2, Zenon
<1> HIDE DEF T, U
<1>3. IsFiniteSet(U)
  BY <1>2, RankType, FS_Subset, Zenon
<1>4. IsFiniteSet(T) /\ Cardinality(T) <= Cardinality(U) /\ Cardinality(T) # Cardinality(U)
  BY <1>2, <1>3, FS_Subset, Zenon
<1>5. Cardinality(T) \in Nat /\ Cardinality(U) \in Nat
  BY <1>3, <1>4, FS_CardinalityType, Zenon
<1>6. Cardinality(T) < Cardinality(U)
  BY <1>4, <1>5
<1> QED BY <1>6, Zenon DEF Rank, T, U

LEMMA RankExists ==
  ASSUME NEW S \in SUBSET HostPids, NEW n \in Nat, n < Cardinality(S)
  PROVE  \E q \in S : Rank(S, q) = n
<1> DEFINE k == Cardinality(S)
           f == [q \in S |-> Rank(S, q)]
<1>1. IsFiniteSet(S) /\ k \in Nat
  BY CliDaemonAssumption, FS_Subset, FS_CardinalityType, Zenon
<1>2. IsFiniteSet(0..(k - 1)) /\ Cardinality(0..(k - 1)) = k
  <2> HIDE DEF k
  <2>1. 0 \in Int /\ k - 1 \in Int
    BY <1>1
  <2>2. IsFiniteSet(0..(k - 1)) /\ Cardinality(0..(k - 1)) = IF 0 > k - 1 THEN 0 ELSE k - 1 - 0 + 1
    BY ONLY <2>1, FS_Interval, Zenon
  <2> QED BY <1>1, <2>2
<1>3. f \in [S -> 0..(k - 1)]
  BY <1>1, RankType
<1>4. \A p, q \in S : f[p] = f[q] => p = q
  <2> SUFFICES ASSUME NEW p \in S, NEW q \in S, p # q PROVE f[p] # f[q]
    BY Zenon
  <2>1. p \in Nat /\ q \in Nat
    BY CliDaemonAssumption, Zenon
  <2>2. p < q \/ q < p
    BY <2>1
  <2> QED BY <2>2, RankDiffers, RankType
<1>5. f \in Injection(S, 0..(k - 1))
  BY <1>3, <1>4, Zenon DEF Injection, IsInjective
<1> HIDE DEF f
<1>6. f \in Surjection(S, 0..(k - 1))
  BY <1>1, <1>2, <1>5, FS_Injection, Zenon
<1>7. n \in 0..(k - 1)
  BY <1>1
<1> QED BY <1>6, <1>7, Zenon DEF Surjection, f

\* A step of one command that touches no process.
LEMMA CommandMoves ==
  ASSUME CliInv, NEW c \in Clis, NEW r \in CliStates, cli' = [cli EXCEPT ![c] = r],
         UNCHANGED <<host, procs, signalled, program>>,
         r.cmd = "start" => r.at \notin Signalling \cup {"done"},
         host \cap {"tail", "reuse"} = {} => OwnTargets(c)',
         Progress(c)', DaemonKept'
  PROVE  CliInv'
<1>1. cli'[c] = r /\ (\A d \in Clis : d # c => cli'[d] = cli[d]) /\ cli' \in [Clis -> CliStates]
  BY Zenon DEF CliInv, CliTypes
<1>2. CliTypes'
  BY <1>1, Zenon DEF CliInv, CliTypes
<1>3. ASSUME NEW d \in Clis, d # c, Progress(d) PROVE Progress(d)'
  BY <1>1, <1>3, Zenon DEF Progress, Daemon
<1>4. ASSUME NEW d \in Clis, d # c, OwnTargets(d) PROVE OwnTargets(d)'
  BY <1>1, <1>4, Zenon DEF OwnTargets
<1> QED BY <1>2, <1>3, <1>4, Zenon DEF CliInv, OneListener, DownSignalsItsDaemons

LEMMA CommandGoes ==
  ASSUME CliInv, NEW c \in Clis, NEW at, Goto(c, at), UNCHANGED <<host, procs, signalled, program>>,
         \/ at \in {"spawn", "up", "failed"} /\ cli[c].at \in {"begin", "spawn"}
         \/ at \in {"kill", "done"} /\ cli[c].at = "wait"
         \/ at = "signal" /\ cli[c].at = "term",
         at \in {"up", "failed"} => Bound \/ "crash" \in host,
         at = "done" => ~Bound
  PROVE  CliInv'
<1> DEFINE r == [cli[c] EXCEPT !.at = at]
<1>1. cli[c] \in CliStates
  BY Zenon DEF CliInv, CliTypes
<1>2. /\ r \in CliStates /\ r.at = at
      /\ r.cmd = cli[c].cmd /\ r.n = cli[c].n /\ r.pids = cli[c].pids
      /\ r.seen = cli[c].seen /\ r.mustgo = cli[c].mustgo
  BY <1>1, Zenon DEF CliStates
<1>3. cli' = [cli EXCEPT ![c] = r]
  BY Zenon DEF Goto
<1> HIDE DEF r
<1>4. cli'[c] = r /\ (\A d \in Clis : d # c => cli'[d] = cli[d])
  BY <1>3, Zenon DEF CliInv, CliTypes
<1>5. r.cmd = "start" => r.at \notin Signalling \cup {"done"}
  BY <1>2, Zenon DEF CliInv, CliTypes, Signalling
<1>6. host \cap {"tail", "reuse"} = {} => OwnTargets(c)'
  BY <1>2, <1>4, Zenon DEF CliInv, OwnTargets, Signalling
<1>7. Progress(c)'
  BY <1>1, <1>2, <1>4 DEF CliInv, CliTypes, CliStates, Progress, Signalling, Bound, Daemon
<1>8. DaemonKept'
  <2>1. Bound => Servers # {}
    BY Zenon DEF Bound, Servers
  <2> QED BY <1>2, <1>4, <2>1, Zenon DEF CliInv, DaemonKept, Servers
<1> QED BY <1>2, <1>3, <1>5, <1>6, <1>7, <1>8, CommandMoves, Zenon

LEMMA PollKeeps ==
  ASSUME CliInv, NEW c \in Clis, PollPort(c), UNCHANGED program
  PROVE  CliInv'
<1> DEFINE at == IF Bound THEN "up" ELSE IF cli[c].n + 1 = Polls THEN "failed" ELSE "poll"
           n == cli[c].n + 1
           r == [cli[c] EXCEPT !.n = n, !.at = at]
<1>1. cli[c] \in CliStates /\ cli[c].n \in Nat /\ cli[c].at = "poll"
  BY Zenon DEF CliInv, CliTypes, CliStates, PollPort
<1>2. at \in {"up", "failed", "poll"}
  BY Zenon
<1>3. cli' = [cli EXCEPT ![c] = r]
  BY Zenon DEF PollPort
<1>4. n \in Nat
  BY <1>1
<1> HIDE DEF at, n
<1>5. /\ r \in CliStates /\ r.at = at
      /\ r.cmd = cli[c].cmd /\ r.pids = cli[c].pids /\ r.mustgo = cli[c].mustgo
  BY <1>1, <1>2, <1>4, Zenon DEF CliStates
<1> HIDE DEF r
<1>6. cli'[c] = r /\ (\A d \in Clis : d # c => cli'[d] = cli[d])
  BY <1>3, Zenon DEF CliInv, CliTypes
<1>7. UNCHANGED <<host, procs, signalled>>
  BY Zenon DEF PollPort
<1>8. r.cmd = "start" => r.at \notin Signalling \cup {"done"}
  BY <1>2, <1>5, Zenon DEF Signalling
<1>9. OwnTargets(c)'
  BY <1>2, <1>5, <1>6, Zenon DEF OwnTargets, Signalling
<1>10. Progress(c)'
  BY <1>2, <1>5, <1>6, <1>7, Zenon DEF CliInv, Progress, Signalling
<1>11. DaemonKept'
  BY <1>1, <1>5, <1>6, <1>7, Zenon DEF CliInv, DaemonKept, Servers
<1> QED BY <1>3, <1>5, <1>7, <1>8, <1>9, <1>10, <1>11, CommandMoves, Zenon

LEMMA PgrepKeeps ==
  ASSUME CliInv, NEW c \in Clis, Pgrep(c), UNCHANGED program
  PROVE  CliInv'
<1> DEFINE pids == {p \in HostPids : Named(p)}
           at == IF pids = {} THEN "done" ELSE "term"
           r == [cli[c] EXCEPT !.pids = pids, !.seen = Daemons, !.mustgo = MustGo, !.at = at]
<1>1. cli[c] \in CliStates /\ cli[c].at = "begin" /\ cli[c].cmd = "down" /\ cli[c].n = 0
  BY Zenon DEF CliInv, CliTypes, Progress, Pgrep
<1>2. cli' = [cli EXCEPT ![c] = r] /\ UNCHANGED <<host, procs, signalled>>
  BY Zenon DEF Pgrep
<1>3. MustGo \subseteq Daemons /\ Daemons \subseteq pids /\ pids \subseteq HostPids
  BY Zenon DEF MustGo, Daemons, Daemon, Named
<1>4. host \cap {"tail", "reuse"} = {} => pids = Daemons
  BY Zenon DEF CliInv, Daemons, Named
<1>5. at \in {"done", "term"} /\ (at = "done" => pids = {})
  BY Zenon
<1>6. at = "term" => 0 < Cardinality(pids)
  <2>1. IsFiniteSet(pids)
    BY <1>3, CliDaemonAssumption, FS_Subset, Zenon
  <2>2. Cardinality(pids) \in Nat /\ (at = "term" => Cardinality(pids) # 0)
    BY <2>1, FS_CardinalityType, FS_EmptySet, Zenon
  <2> QED BY ONLY <2>2
<1> HIDE DEF pids, at
<1>7. /\ r \in CliStates /\ r.at = at /\ r.cmd = "down" /\ r.n = 0
      /\ r.pids = pids /\ r.seen = Daemons /\ r.mustgo = MustGo
  BY <1>1, <1>3, <1>5, Zenon DEF CliStates
<1> HIDE DEF r
<1>8. cli'[c] = r /\ (\A d \in Clis : d # c => cli'[d] = cli[d])
  BY <1>2, Zenon DEF CliInv, CliTypes
<1>9. host \cap {"tail", "reuse"} = {} => OwnTargets(c)'
  BY <1>2, <1>4, <1>7, <1>8, Zenon DEF OwnTargets, Daemons
<1>10. Progress(c)'
  <2>1. \A p \in MustGo : Rank(pids, p) \in Nat
    BY <1>3, RankType, Zenon
  <2>2. "deaf" \in host => \A p \in MustGo : procs[p] \notin {"starting", "stranded"}
    BY Zenon DEF MustGo
  <2>3. MustGo \subseteq pids
    BY <1>3, Zenon
  <2> QED BY <1>2, <1>5, <1>6, <1>7, <1>8, <2>1, <2>2, <2>3 DEF Progress, Signalling
<1>11. DaemonKept'
  BY <1>7, <1>8, Zenon DEF DaemonKept
<1> QED BY <1>2, <1>7, <1>9, <1>10, <1>11, CommandMoves, Zenon

\* A process ends, gets the port or not, or is one that nobody here has started.
LEMMA ProcessMoves ==
  ASSUME CliInv, NEW p \in HostPids, NEW s \in {"free", "listening", "stranded", "other"},
         procs' = [procs EXCEPT ![p] = s], UNCHANGED <<host, cli, signalled, program>>,
         s = "listening" => ~Bound, s \in {"listening", "stranded"} => procs[p] = "starting",
         s = "other" => Fresh(p), DaemonKept'
  PROVE  CliInv'
<1>1. procs'[p] = s /\ (\A q \in HostPids : q # p => procs'[q] = procs[q])
      /\ procs' \in [HostPids -> ProcStates]
  BY Zenon DEF CliInv, CliTypes, ProcStates
<1>2. CliTypes'
  BY <1>1, Zenon DEF CliInv, CliTypes
<1>3. ASSUME NEW c \in Clis PROVE Progress(c)'
  <2>1. Progress(c) /\ cli[c].mustgo \subseteq HostPids
    BY Zenon DEF CliInv, CliTypes, CliStates
  <2>2. \A q \in cli[c].mustgo :
           /\ procs[q] \notin {"starting", "stranded"} => procs'[q] \notin {"starting", "stranded"}
           /\ procs[q] \notin Daemon => procs'[q] \notin Daemon
    BY <1>1, <2>1, Zenon DEF Daemon
  <2> QED BY <2>1, <2>2, Zenon DEF Progress
<1>4. OneListener'
  BY <1>1, Zenon DEF CliInv, OneListener, Bound
<1>5. ASSUME NEW c \in Clis, host \cap {"tail", "reuse"} = {} PROVE OwnTargets(c)'
  <2>1. OwnTargets(c) /\ cli[c].pids \subseteq HostPids
    BY <1>5, Zenon DEF CliInv, CliTypes, CliStates
  <2>2. cli[c].at \in Signalling /\ p \in cli[c].pids => s # "other"
    BY <1>5, Zenon DEF Fresh, Stale, Signalling
  <2> QED BY <1>1, <2>1, <2>2, Zenon DEF OwnTargets, Daemon
<1>6. host \cap {"tail", "reuse"} = {} => \A q \in HostPids : procs'[q] # "tail"
  BY <1>1, Zenon DEF CliInv
<1> QED BY <1>2, <1>3, <1>4, <1>5, <1>6, Zenon DEF CliInv, DownSignalsItsDaemons

LEMMA ProcessesKeep ==
  ASSUME CliInv, NEW p \in HostPids, Bind(p) \/ Crash(p) \/ OtherStarts(p) \/ OtherEnds(p),
         UNCHANGED program
  PROVE  CliInv'
<1> USE DEF Servers, DaemonKept
<1>1. CASE Bind(p) /\ Bound
  <2>1. PICK q \in HostPids : procs[q] = "listening"
    BY <1>1, Zenon DEF Bound
  <2>2. /\ q # p /\ procs[p] = "starting" /\ procs' = [procs EXCEPT ![p] = "stranded"]
        /\ UNCHANGED <<host, cli, signalled>>
    BY <1>1, <2>1, Zenon DEF Bind
  <2>3. q \in Servers'
    BY <2>1, <2>2, Zenon DEF CliInv, CliTypes
  <2> QED BY <2>2, <2>3, ProcessMoves, Zenon
<1>2. CASE Bind(p) /\ ~Bound
  <2>1. /\ procs[p] = "starting" /\ procs' = [procs EXCEPT ![p] = "listening"]
        /\ UNCHANGED <<host, cli, signalled>>
    BY <1>2, Zenon DEF Bind
  <2>2. p \in Servers'
    BY <2>1, Zenon DEF CliInv, CliTypes
  <2> QED BY <1>2, <2>1, <2>2, ProcessMoves, Zenon
<1>3. CASE Crash(p)
  BY <1>3, ProcessMoves, Zenon DEF Crash
<1>4. ASSUME p \notin Servers, NEW s, procs' = [procs EXCEPT ![p] = s],
             UNCHANGED <<host, cli, signalled>>
      PROVE  DaemonKept'
  <2>1. \A q \in Servers : q \in Servers'
    BY <1>4, Zenon DEF CliInv, CliTypes
  <2> QED BY <1>4, <2>1, Zenon DEF CliInv
<1>5. CASE OtherStarts(p)
  <2>1. /\ procs[p] = "free" /\ Fresh(p) /\ procs' = [procs EXCEPT ![p] = "other"]
        /\ UNCHANGED <<host, cli, signalled>>
    BY <1>5, Zenon DEF OtherStarts, Fresh
  <2>2. DaemonKept'
    BY <1>4, <2>1, Zenon
  <2> QED BY <2>1, <2>2, ProcessMoves, Zenon
<1>6. CASE OtherEnds(p)
  <2>1. /\ procs[p] = "other" /\ procs' = [procs EXCEPT ![p] = "free"]
        /\ UNCHANGED <<host, cli, signalled>>
    BY <1>6, Zenon DEF OtherEnds
  <2>2. DaemonKept'
    BY <1>4, <2>1, Zenon
  <2> QED BY <2>1, <2>2, ProcessMoves, Zenon
<1> QED BY <1>1, <1>2, <1>3, <1>5, <1>6, Zenon

\* What a new daemon takes: a pid of which no `down` knows anything any more.
LEMMA SpawnKeeps ==
  ASSUME CliInv, NEW c \in Clis, SpawnDaemon(c), UNCHANGED program
  PROVE  CliInv'
<1>1. PICK p \in HostPids :
        /\ Fresh(p) /\ procs' = [procs EXCEPT ![p] = "starting"]
        /\ cli' = [d \in Clis |-> [cli[d] EXCEPT !.at = IF d = c THEN "poll" ELSE @,
                                                !.seen = @ \ {p}, !.mustgo = @ \ {p}]]
  BY Zenon DEF SpawnDaemon
<1>2. UNCHANGED <<host, signalled>> /\ cli[c].at = "spawn"
  BY Zenon DEF SpawnDaemon
<1>3. /\ procs[p] = "free" /\ procs'[p] = "starting"
      /\ \A q \in HostPids : q # p => procs'[q] = procs[q]
      /\ procs' \in [HostPids -> ProcStates]
  BY <1>1, Zenon DEF Fresh, CliInv, CliTypes, ProcStates
<1>4. ASSUME NEW d \in Clis
      PROVE  /\ cli'[d] \in CliStates /\ cli'[d].cmd = cli[d].cmd /\ cli'[d].n = cli[d].n
             /\ cli'[d].at = (IF d = c THEN "poll" ELSE cli[d].at) /\ cli'[d].pids = cli[d].pids
             /\ cli'[d].seen = cli[d].seen \ {p} /\ cli'[d].mustgo = cli[d].mustgo \ {p}
  <2>1. cli[d] \in CliStates
    BY Zenon DEF CliInv, CliTypes
  <2> QED BY <1>1, <2>1, Zenon DEF CliStates
<1>5. CliTypes'
  <2>1. cli' \in [Clis -> CliStates]
    BY <1>1, <1>4, Zenon
  <2> QED BY <1>3, <1>4, <2>1, Zenon DEF CliInv, CliTypes, Signalling
<1>6. ASSUME NEW d \in Clis PROVE Progress(d)'
  <2>1. Progress(d) /\ cli[d].mustgo \subseteq HostPids
    BY Zenon DEF CliInv, CliTypes, CliStates
  <2>2. \A q \in cli'[d].mustgo : q \in cli[d].mustgo /\ procs'[q] = procs[q]
    BY <1>3, <1>4, <2>1, Zenon
  <2> QED BY <1>2, <1>4, <2>1, <2>2, Zenon DEF Progress, Signalling
<1>7. ASSUME NEW d \in Clis, host \cap {"tail", "reuse"} = {} PROVE OwnTargets(d)'
  <2>1. OwnTargets(d) /\ cli[d].pids \subseteq HostPids
    BY <1>7, Zenon DEF CliInv, CliTypes, CliStates
  <2>2. cli[d].at \in Signalling => p \notin cli[d].pids
    BY <1>1, <1>7, Zenon DEF Fresh, Stale, Signalling
  <2> QED BY <1>3, <1>4, <2>1, <2>2, Zenon DEF OwnTargets, Signalling
<1>8. OneListener'
  BY <1>3, Zenon DEF CliInv, OneListener
<1>9. DaemonKept'
  BY <1>3, Zenon DEF DaemonKept, Servers
<1>10. host \cap {"tail", "reuse"} = {} => \A q \in HostPids : procs'[q] # "tail"
  BY <1>3, Zenon DEF CliInv
<1> QED BY <1>2, <1>5, <1>6, <1>7, <1>8, <1>9, <1>10, Zenon DEF CliInv, DownSignalsItsDaemons

\* A `down` ends processes: what else there is stays as it was.
LEMMA DownKeeps ==
  ASSUME CliInv, NEW c \in Clis, NEW pids \in SUBSET cli[c].pids, NEW hit \in SUBSET cli[c].pids,
         cli[c].at \in Signalling,
         procs' = [p \in HostPids |-> IF p \in pids THEN "free" ELSE procs[p]],
         cli' \in [Clis -> CliStates], \A d \in Clis : d # c => cli'[d] = cli[d],
         /\ cli'[c].cmd = cli[c].cmd /\ cli'[c].pids = cli[c].pids /\ cli'[c].seen = cli[c].seen
         /\ cli'[c].at \in Signalling \cup {"done"},
         \A p \in hit : procs[p] # "free",
         Hit(c, hit), UNCHANGED <<host, program>>, Progress(c)'
  PROVE  CliInv'
<1>1. cli[c].cmd # "start" /\ cli[c].pids \subseteq HostPids
  BY Zenon DEF CliInv, CliTypes, CliStates
<1>2. procs' \in [HostPids -> ProcStates]
      /\ \A p \in HostPids : procs'[p] = procs[p] \/ procs'[p] = "free"
  BY Zenon DEF CliInv, CliTypes, ProcStates
<1>3. CliTypes'
  BY <1>1, <1>2, Zenon DEF CliInv, CliTypes
<1>4. ASSUME NEW d \in Clis, d # c PROVE Progress(d)'
  <2>1. Progress(d) /\ cli[d].mustgo \subseteq HostPids /\ cli'[d] = cli[d]
    BY <1>4, Zenon DEF CliInv, CliTypes, CliStates
  <2>2. \A q \in cli[d].mustgo :
           /\ procs[q] \notin {"starting", "stranded"} => procs'[q] \notin {"starting", "stranded"}
           /\ procs[q] \notin Daemon => procs'[q] \notin Daemon
    BY <1>2, <2>1, Zenon DEF Daemon
  <2> QED BY <2>1, <2>2, Zenon DEF Progress
<1>5. ASSUME NEW d \in Clis, host \cap {"tail", "reuse"} = {} PROVE OwnTargets(d)'
  <2>1. OwnTargets(d) /\ cli[d].pids \subseteq HostPids
    BY <1>5, Zenon DEF CliInv, CliTypes, CliStates
  <2> QED BY <1>2, <2>1, Zenon DEF OwnTargets, Daemon
<1>6. DownSignalsItsDaemons'
  <2> SUFFICES ASSUME host \cap {"tail", "reuse"} = {}, NEW s \in signalled'
               PROVE  s.what \in Daemon /\ s.seen
    BY Zenon DEF DownSignalsItsDaemons
  <2>1. CASE s \in signalled
    BY <2>1, Zenon DEF CliInv, DownSignalsItsDaemons
  <2>2. CASE s \in {[what |-> procs[p], seen |-> p \in cli[c].seen] : p \in hit}
    <3>1. PICK p \in hit : s = [what |-> procs[p], seen |-> p \in cli[c].seen]
      BY <2>2, Zenon
    <3>2. OwnTargets(c)
      BY Zenon DEF CliInv
    <3>3. procs[p] \in Daemon /\ p \in cli[c].seen
      BY <3>2, Zenon DEF OwnTargets
    <3> QED BY <3>1, <3>3, Zenon
  <2> QED BY <2>1, <2>2, Zenon DEF Hit
<1>7. OneListener' /\ DaemonKept'
  BY <1>1, <1>2, Zenon DEF CliInv, OneListener, DaemonKept
<1>8. host \cap {"tail", "reuse"} = {} => \A q \in HostPids : procs'[q] # "tail"
  BY <1>2, Zenon DEF CliInv
<1> QED BY <1>3, <1>4, <1>5, <1>6, <1>7, <1>8, Zenon DEF CliInv

\* The pid whose turn it is.
LEMMA TurnOf ==
  ASSUME CliInv, NEW c \in Clis, cli[c].at \in {"term", "signal"}
  PROVE  /\ cli[c] \in CliStates /\ cli[c].pids \in SUBSET HostPids /\ cli[c].n \in Nat
         /\ cli[c].n < Cardinality(cli[c].pids) /\ Cardinality(cli[c].pids) \in Nat
         /\ Turn(c) \in cli[c].pids /\ Rank(cli[c].pids, Turn(c)) = cli[c].n
<1>1. cli[c] \in CliStates /\ cli[c].pids \in SUBSET HostPids /\ cli[c].n \in Nat
  BY Zenon DEF CliInv, CliTypes, CliStates
<1>2. IsFiniteSet(cli[c].pids)
  BY <1>1, CliDaemonAssumption, FS_Subset, Zenon
<1>3. Cardinality(cli[c].pids) \in Nat
  BY <1>2, FS_CardinalityType, Zenon
<1>4. cli[c].n < Cardinality(cli[c].pids)
  BY Zenon DEF CliInv, Progress
<1>5. \E q \in cli[c].pids : Rank(cli[c].pids, q) = cli[c].n
  BY <1>1, <1>4, RankExists, Zenon
<1>6. Turn(c) \in cli[c].pids /\ Rank(cli[c].pids, Turn(c)) = cli[c].n
  BY <1>5, Zenon DEF Turn, Rank
<1> QED BY <1>1, <1>3, <1>4, <1>6, Zenon

\* The turn of the pid whose rank is n: after it, no pid of a rank up to n is a
\* daemon's that was to go, if a daemon acts on SIGTERM.
LEMMA TurnKeeps ==
  ASSUME CliInv, NEW c \in Clis, cli[c].at \in {"term", "signal"}, NextTurn(c),
         NEW hit \in SUBSET {Turn(c)}, NEW gone \in SUBSET {Turn(c)},
         Hit(c, hit), \A q \in hit : procs[q] # "free",
         procs' = [q \in HostPids |-> IF q \in gone THEN "free" ELSE procs[q]],
         "deaf" \notin host => procs'[Turn(c)] \notin Daemon,
         UNCHANGED <<host, program>>
  PROVE  CliInv'
<1> DEFINE P == cli[c].pids
           n == cli[c].n
           k == n + 1
           p == Turn(c)
           at == IF k = Cardinality(P) THEN "wait" ELSE "term"
           r == [cli[c] EXCEPT !.n = k, !.at = at]
<1>1. cli[c] \in CliStates /\ P \in SUBSET HostPids /\ n \in Nat /\ p \in P /\ Rank(P, p) = n
  BY TurnOf, Zenon
<1>2. n < Cardinality(P) /\ Cardinality(P) \in Nat /\ k \in Nat
  BY <1>1, TurnOf
<1>3. cli' = [cli EXCEPT ![c] = r]
  BY Zenon DEF NextTurn
<1>4. at \in {"wait", "term"} /\ (at = "wait" <=> k = Cardinality(P))
  BY Zenon
<1>5. hit \in SUBSET P /\ gone \in SUBSET P
  BY <1>1, Zenon
<1>6. "deaf" \notin host => procs'[p] \notin Daemon
  BY Zenon
<1>7. \A q \in HostPids : procs'[q] = procs[q] \/ procs'[q] = "free"
  BY Zenon
<1> HIDE DEF p, at, k
<1>8. /\ r \in CliStates /\ r.at = at /\ r.n = k /\ r.cmd = cli[c].cmd
      /\ r.pids = P /\ r.seen = cli[c].seen /\ r.mustgo = cli[c].mustgo
  BY <1>1, <1>2, <1>4, Zenon DEF CliStates
<1> HIDE DEF r
<1>9. cli'[c] = r /\ (\A d \in Clis : d # c => cli'[d] = cli[d]) /\ cli' \in [Clis -> CliStates]
  BY <1>3, <1>8, Zenon DEF CliInv, CliTypes
<1>10. Progress(c)'
  <2>1. /\ Progress(c) /\ cli[c].mustgo \subseteq P /\ cli[c].mustgo \subseteq HostPids
        /\ P \subseteq HostPids
    BY <1>1, Zenon DEF CliInv, Progress, Signalling
  <2>2. at = "term" => k < Cardinality(P)
    BY <1>1, <1>2, <1>4 DEF k
  <2>3. ASSUME NEW q \in cli[c].mustgo, "deaf" \notin host, Rank(P, q) < k
        PROVE  procs'[q] \notin Daemon
    <3>1. Rank(P, q) \in Nat
      BY <2>1, RankType, Zenon
    <3>2. Rank(P, q) < n \/ Rank(P, q) = n
      BY <1>1, <2>3, <3>1 DEF k
    <3>3. CASE Rank(P, q) < n
      BY <1>1, <1>7, <2>1, <2>3, <3>3, Zenon DEF Progress, Daemon
    <3>4. CASE Rank(P, q) = n
      <4>1. p \in Nat /\ q \in Nat /\ q \in P
        BY <1>1, <2>1, CliDaemonAssumption, Zenon
      <4>2. ~(p < q) /\ ~(q < p)
        BY <1>1, <3>4, <4>1, RankDiffers
      <4>3. p = q
        BY <4>1, <4>2
      <4> QED BY <1>6, <2>3, <4>3, Zenon
    <3> QED BY <3>2, <3>3, <3>4, Zenon
  <2>4. at = "wait" => \A q \in cli[c].mustgo : Rank(P, q) < k
    BY <1>1, <1>4, <2>1, RankType, Zenon
  <2>5. "deaf" \in host => \A q \in cli[c].mustgo : procs'[q] \notin {"starting", "stranded"}
    BY <1>7, <2>1, Zenon DEF Progress
  <2> QED BY <1>4, <1>8, <1>9, <2>1, <2>2, <2>3, <2>4, <2>5, Zenon DEF Progress, Signalling
<1> QED BY <1>1, <1>4, <1>5, <1>8, <1>9, <1>10, DownKeeps, Zenon DEF Signalling

LEMMA VerifyKeeps ==
  ASSUME CliInv, NEW c \in Clis, Verify(c), UNCHANGED program
  PROVE  CliInv'
<1>1. cli[c].at = "term" /\ UNCHANGED <<host, procs, signalled>>
  BY Zenon DEF Verify
<1>2. CASE Named(Turn(c))
  BY <1>1, <1>2, CommandGoes, Zenon DEF Verify
<1>3. CASE ~Named(Turn(c))
  <2>1. NextTurn(c) /\ procs'[Turn(c)] \notin Daemon
    BY <1>1, <1>3, Zenon DEF Verify, Named
  <2>2. {} \in SUBSET {Turn(c)} /\ Hit(c, {})
    BY <1>1, Zenon DEF Hit
  <2>3. procs' = [q \in HostPids |-> IF q \in {} THEN "free" ELSE procs[q]]
    BY <1>1, Zenon DEF CliInv, CliTypes
  <2> QED BY <1>1, <2>1, <2>2, <2>3, TurnKeeps, Zenon
<1> QED BY <1>2, <1>3, Zenon

LEMMA TermKeeps ==
  ASSUME CliInv, NEW c \in Clis, Term(c), UNCHANGED program
  PROVE  CliInv'
<1> DEFINE p == Turn(c)
           hit == {q \in {p} : procs[q] # "free"}
           gone == {q \in {p} : ~(procs[p] \in Daemon /\ "deaf" \in host)}
<1>1. cli[c].at = "signal" /\ NextTurn(c) /\ Hit(c, hit) /\ UNCHANGED host
  BY Zenon DEF Term
<1>2. p \in HostPids
  BY <1>1, TurnOf, Zenon
<1>3. procs' = [q \in HostPids |-> IF q \in gone THEN "free" ELSE procs[q]]
  <2>1. procs \in [HostPids -> ProcStates]
    BY Zenon DEF CliInv, CliTypes
  <2> QED BY <1>2, <2>1, Zenon DEF Term
<1>4. "deaf" \notin host => procs'[p] \notin Daemon
  BY <1>2, <1>3, Zenon DEF Daemon
<1>5. hit \in SUBSET {p} /\ gone \in SUBSET {p} /\ \A q \in hit : procs[q] # "free"
  BY Zenon
<1> HIDE DEF hit, gone
<1> QED BY <1>1, <1>3, <1>4, <1>5, TurnKeeps, Zenon

LEMMA EscalateKeeps ==
  ASSUME CliInv, NEW c \in Clis, Escalate(c), UNCHANGED program
  PROVE  CliInv'
<1> DEFINE P == cli[c].pids
           hit == {q \in P : procs[q] # "free"}
           r == [cli[c] EXCEPT !.at = "done"]
<1>1. cli[c].at = "kill" /\ cli[c] \in CliStates /\ P \in SUBSET HostPids
  BY Zenon DEF Escalate, CliInv, CliTypes, CliStates
<1>2. /\ Hit(c, hit) /\ UNCHANGED host /\ cli' = [cli EXCEPT ![c] = r]
      /\ procs' = [q \in HostPids |-> IF q \in P THEN "free" ELSE procs[q]]
  BY Zenon DEF Escalate, Goto
<1>3. hit \in SUBSET P /\ \A q \in hit : procs[q] # "free"
  BY Zenon
<1>4. /\ r \in CliStates /\ r.at = "done" /\ r.n = cli[c].n /\ r.cmd = cli[c].cmd
      /\ r.pids = P /\ r.seen = cli[c].seen /\ r.mustgo = cli[c].mustgo
  BY <1>1, Zenon DEF CliStates
<1> HIDE DEF r, hit
<1>5. cli'[c] = r /\ (\A d \in Clis : d # c => cli'[d] = cli[d]) /\ cli' \in [Clis -> CliStates]
  BY <1>2, <1>4, Zenon DEF CliInv, CliTypes
<1>6. Progress(c)'
  <2>1. Progress(c) /\ cli[c].mustgo \subseteq P
    BY <1>1, Zenon DEF CliInv, Progress, Signalling
  <2>2. \A q \in cli[c].mustgo : procs'[q] = "free"
    BY <1>1, <1>2, <2>1, Zenon
  <2> QED BY <1>4, <1>5, <2>1, <2>2, Zenon DEF Progress, Signalling, Daemon
<1> QED BY <1>1, <1>2, <1>3, <1>4, <1>5, <1>6, DownKeeps, Zenon DEF Signalling

LEMMA CliStart == ClientsInit => CliInv
<1> SUFFICES ASSUME ClientsInit PROVE CliInv
  BY Zenon
<1>1. CliInit
  BY Zenon DEF ClientsInit
<1>2. cli \in [Clis -> CliStates]
      /\ \A c \in Clis : cli[c].at = "begin" /\ cli[c].n = 0 /\ cli[c].mustgo = {}
  BY <1>1 DEF CliInit, CliStates
<1>3. procs \in [HostPids -> ProcStates] /\ (\A p \in HostPids : procs[p] = "tail" => "tail" \in host)
  BY <1>1, Zenon DEF CliInit, ProcStates
<1>4. OneListener
  <2> DEFINE L == {p \in HostPids : procs[p] = "listening"}
  <2> SUFFICES ASSUME NEW p \in L, NEW q \in L, p # q PROVE FALSE
    BY Zenon DEF OneListener
  <2>1. IsFiniteSet(L)
    BY CliDaemonAssumption, FS_Subset, Zenon
  <2>2. {p, q} \in SUBSET L /\ IsFiniteSet({p}) /\ Cardinality({p}) = 1
    BY FS_Singleton, Zenon
  <2>3. {p} \cup {q} = {p, q} /\ q \notin {p}
    BY Zenon
  <2>4. Cardinality({p, q}) = 2
    <3>1. Cardinality({p} \cup {q}) = IF q \in {p} THEN Cardinality({p}) ELSE Cardinality({p}) + 1
      BY ONLY <2>2, FS_AddElement, Zenon
    <3> QED BY <2>2, <2>3, <3>1
  <2>5. Cardinality({p, q}) <= Cardinality(L) /\ Cardinality(L) \in Nat
    BY <2>1, <2>2, FS_Subset, FS_CardinalityType, Zenon
  <2>6. Cardinality(L) <= 1
    BY <1>1, Zenon DEF CliInit
  <2> QED BY <2>4, <2>5, <2>6
<1>5. CliTypes /\ DaemonKept
  BY <1>2, <1>3, Zenon DEF CliTypes, DaemonKept, Signalling
<1>6. \A c \in Clis : OwnTargets(c) /\ Progress(c)
  BY <1>2, Zenon DEF OwnTargets, Progress, Signalling
<1>7. DownSignalsItsDaemons
  BY <1>1, Zenon DEF CliInit, DownSignalsItsDaemons
<1> QED BY <1>3, <1>4, <1>5, <1>6, <1>7, Zenon DEF CliInv

LEMMA NextCli == CliInv /\ [ClientsNext]_allVars => CliInv'
<1> SUFFICES ASSUME CliInv, [ClientsNext]_allVars PROVE CliInv'
  BY Zenon
<1>1. CASE UNCHANGED cliVars /\ UNCHANGED program
  <2>1. UNCHANGED <<host, procs, cli, signalled, program>>
    BY <1>1, Zenon DEF cliVars
  <2>2. CliTypes' /\ OneListener' /\ DaemonKept' /\ DownSignalsItsDaemons'
    BY <2>1, Zenon DEF CliInv, CliTypes, OneListener, DaemonKept, Servers, DownSignalsItsDaemons
  <2>3. \A c \in Clis : (OwnTargets(c) => OwnTargets(c)') /\ (Progress(c) => Progress(c)')
    BY <2>1, Zenon DEF OwnTargets, Progress
  <2> QED BY <2>1, <2>2, <2>3, Zenon DEF CliInv
<1>2. CASE Cli(CliNext)
  <2>1. UNCHANGED program
    BY <1>2, Zenon DEF Cli
  <2>2. ASSUME NEW p \in HostPids, Bind(p) \/ Crash(p) \/ OtherStarts(p) \/ OtherEnds(p) PROVE CliInv'
    BY <2>1, <2>2, ProcessesKeep, Zenon
  <2>3. ASSUME NEW c \in Clis, CliStep(c) PROVE CliInv'
    <3>1. CASE CheckPort(c)
      BY <2>1, <3>1, CommandGoes, Zenon DEF CheckPort
    <3>2. CASE CannotSpawn(c)
      BY <2>1, <3>2, CommandGoes, Zenon DEF CannotSpawn
    <3>3. CASE StillBound(c)
      BY <2>1, <3>3, CommandGoes, Zenon DEF StillBound
    <3> QED BY <2>1, <2>3, <3>1, <3>2, <3>3, SpawnKeeps, PollKeeps, PgrepKeeps, VerifyKeeps,
           TermKeeps, EscalateKeeps, Zenon DEF CliStep
  <2> QED BY <1>2, <2>2, <2>3, Zenon DEF Cli, CliNext
<1>3. CASE Ui(UiNext) \/ Stream(StreamNext) \/ Mcp(McpNext) \/ Quiet \/ UNCHANGED allVars
  BY <1>1, <1>3, Zenon DEF Ui, Stream, Mcp, Quiet, allVars
<1> QED BY <1>2, <1>3, Zenon DEF ClientsNext

\* `garden down` signals only daemons that were there when it looked, however
\* many commands run at once and whatever else starts and ends meanwhile.
THEOREM DownSignalsOnlyItsDaemons == ClientsSpec => []DownSignalsItsDaemons
<1>1. CliInv => DownSignalsItsDaemons
  BY Zenon DEF CliInv
<1> QED BY <1>1, CliStart, NextCli, PTL DEF ClientsSpec

\* When `garden down` is done, the daemons it had to end have gone: each had
\* its turn, and a deaf one that listened kept the port until it was killed.
THEOREM DownIsDown == ClientsSpec => []DownMeansDown
<1>1. CliInv => DownMeansDown
  BY Zenon DEF CliInv, Progress, DownMeansDown
<1> QED BY <1>1, CliStart, NextCli, PTL DEF ClientsSpec

\* Any number of `garden start` at once leave exactly one daemon serving :9000,
\* whatever daemons run without it.
THEOREM StartsLeaveOneServer == ClientsSpec => []StartLeavesOneServer
<1>1. CliInv => StartLeavesOneServer
  <2> DEFINE L == {p \in HostPids : procs[p] = "listening"}
  <2> SUFFICES ASSUME CliInv, program = "cli", "crash" \notin host,
                      \A c \in Clis : cli[c].cmd = "start" /\ Finished(c),
                      ~\E p \in HostPids : procs[p] = "starting"
               PROVE  Cardinality(L) = 1
    BY Zenon DEF StartLeavesOneServer
  <2>1. PICK c \in Clis : TRUE
    BY CliDaemonAssumption, Zenon
  <2>2. cli[c].at \in {"up", "failed"}
    BY Zenon DEF Finished, CliInv, CliTypes
  <2>3. Servers # {}
    BY <2>2, Zenon DEF CliInv, DaemonKept
  <2>4. PICK p \in HostPids : procs[p] = "listening"
    BY <2>3, Zenon DEF Servers
  <2>5. L = {p}
    BY <2>4, Zenon DEF CliInv, OneListener
  <2> HIDE DEF L
  <2> QED BY <2>5, FS_Singleton, Zenon
<1> QED BY <1>1, CliStart, NextCli, PTL DEF ClientsSpec

=============================================================================
