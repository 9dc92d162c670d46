------------------------------ MODULE Clients ------------------------------
(***************************************************************************)
(* The programs that use the daemon: the menu bar app, its event stream,   *)
(* the MCP server and the CLI.  A behaviour is about one of them; the      *)
(* daemon they meet is changed by others meanwhile.                        *)
(***************************************************************************)
EXTENDS AppState, TelemetryStream, McpServer, CliDaemon

CONSTANT Programs \* those the behaviours are about

VARIABLE program  \* fixed

allVars == <<daemonVars, uiVars, streamVars, mcpVars, cliVars, program>>

ClientsInit ==
    /\ program \in Programs
    /\ DaemonInit /\ UiInit /\ StreamInit /\ McpInit /\ CliInit
    \* what the behaviour is not about has one initial state
    /\ program = "cli" => ~up
    /\ program = "stream" => ~vm
    /\ program # "cli" =>
           cli = [c \in Clis |-> [cmd |-> "start", at |-> "begin", n |-> 0, pids |-> {},
                                  seen |-> {}, mustgo |-> {}]]
           /\ procs = [p \in HostPids |-> "free"] /\ host = {}
    /\ program # "ui" => may = CHOOSE any \in UiChoices : TRUE
    /\ program # "stream" => timing = CHOOSE any \in StreamChoices : TRUE

\* A tool call waits for an answer that cannot come, and the others for its lock.
Hung == \E t \in Tools : Hangs(t)

\* The bounds are reached: the MCP server waits for tool calls or for ever, the
\* commands of the CLI have ended.
Quiet ==
    /\ \/ program = "mcp" /\ started = MaxCalls /\ \A t \in Tools : phase[t] = "idle"
       \/ program = "mcp" /\ Hung
       \/ program = "cli" /\ \A c \in Clis : Finished(c)
       \/ program = "stream" /\ changes = MaxChanges
    /\ UNCHANGED allVars

Ui(A)     == program = "ui"     /\ A /\ UNCHANGED <<streamVars, mcpVars, cliVars, program>>
Stream(A) == program = "stream" /\ A /\ UNCHANGED <<uiVars, mcpVars, cliVars, program>>
Mcp(A)    == program = "mcp"    /\ A /\ UNCHANGED <<uiVars, streamVars, cliVars, program>>
Cli(A)    == program = "cli"    /\ A /\ UNCHANGED <<daemonVars, uiVars, streamVars, mcpVars, program>>

ClientsNext == Ui(UiNext) \/ Stream(StreamNext) \/ Mcp(McpNext) \/ Cli(CliNext) \/ Quiet

ClientsSpec == ClientsInit /\ [][ClientsNext]_allVars

\* URLSession answers or times out; the main actor resumes what it can; the
\* poll's timer repeats; the framework tells what becomes of a connection, the
\* main actor runs its jobs and a sleep ends; tokio and the agent's deadline end
\* a tool call.
ClientsFairSpec ==
    /\ ClientsSpec
    /\ \A i \in CallIds : WF_allVars(Ui(Serve(i) \/ Throw(i))) /\ WF_allVars(Ui(Resume(i)))
    /\ WF_allVars(Ui(\E i \in CallIds : PollTick(i)))
    /\ \A c \in Conns : WF_allVars(Stream(NetStep(c)))
    /\ WF_allVars(Stream(\E j \in jobs : Run(j))) /\ WF_allVars(Stream(\E c \in Conns : SleepEnds(c)))
    /\ \A t \in Tools : WF_allVars(Mcp(McpStep(t)))

(***************************************************************************)
(* Properties.                                                             *)
(***************************************************************************)

\* Once the daemon stays up with its VM running, the app comes to show a
\* running VM with its event stream, whatever polls, boots and stops were
\* under way, a boot that the app gave up on after 5 s included; once it stays
\* up without one, the app no longer shows one; once it stays away, the app says
\* so and shows neither a stream nor a VM.  (The first two where status calls are
\* answered in time.)
UiConverges ==
    /\ <>[](program = "ui" /\ "lossy" \notin may /\ up /\ vm)
           => <>[](vmState = "running" /\ telemetry /\ uptimeTimer)
    /\ <>[](program = "ui" /\ "lossy" \notin may /\ up /\ ~vm)
           => <>[](vmState \in {"stopped", "error"})
    /\ <>[](program = "ui" /\ ~up)
           => <>[](~daemonReachable /\ ~telemetry /\ vmState \notin {"running", "booting"})

\* The app's clock has at most one timer, the one that stopAll can stop, and
\* so has its demo, if no poll falls between the start and the end of a boot,
\* a stop or the first status call.
TimersTickOnce ==
    "overlap" \notin may =>
        /\ running.uptime = IF uptimeTimer THEN 1 ELSE 0
        /\ running.mock = IF mockTimer THEN 1 ELSE 0

\* No connection is open but the one the stream holds.
OneOpenConnection ==
    \A c \in Conns : net[c] \in {"preparing", "ready", "waiting", "failed"} => c = connection

\* The stream has no open connection but the one it holds, however the
\* callbacks of its connections are delayed; and once the daemon stays up, it
\* comes to read from a connection to this daemon and keeps it, its unfinished
\* line being of that connection alone, if callbacks arrive within the 3 s.
StreamReturns ==
    /\ []OneOpenConnection
    /\ <>[](program = "stream" /\ timing = {} /\ held /\ up)
           => <>[](connection # 0 /\ net[connection] = "ready" /\ Joined(connection)
                    /\ sleeping = 0 /\ buffer \subseteq {connection})

\* A client of a daemon that has gone costs one failed tool call at most: it is
\* not kept after that.
StaleClientFailsOnce == grpc_client \notin failed

\* Every tool call is answered, though each holds the lock for as long as its
\* command takes and the daemon and the VM may come and go in between: unless
\* the VM is stopped under a command and its daemon lives on, for then the
\* command and all calls behind it wait until that daemon ends.
EveryToolAnswered == (\A t \in Tools : []<>(phase[t] = "idle")) \/ <>[]Hung

\* `garden down` signals the daemons that were there when it looked, and
\* nothing else: not one that a `garden start` has brought up since.  (Where
\* no other command line names garden-daemon and pids are not reused at once.)
DownSignalsItsDaemons ==
    host \cap {"tail", "reuse"} = {} =>
        \A s \in signalled : s.what \in Daemon /\ s.seen

\* When `garden down` is done, the daemons that were there when it looked have
\* gone: one that ignores SIGTERM if it listened, one that did not listen yet
\* if it does not.
DownMeansDown ==
    \A c \in Clis : cli[c].at = "done" => \A p \in cli[c].mustgo : procs[p] \notin Daemon

\* However many `garden start` run at once, and whatever daemons without the
\* port are left of earlier ones, exactly one daemon serves :9000 when they are
\* done, if no daemon is stopped or fails.  (Those that found the port taken go
\* on running.)
StartLeavesOneServer ==
    /\ program = "cli" /\ "crash" \notin host
    /\ \A c \in Clis : cli[c].cmd = "start" /\ Finished(c)
    /\ ~\E p \in HostPids : procs[p] = "starting"
    => Cardinality({p \in HostPids : procs[p] = "listening"}) = 1

=============================================================================
