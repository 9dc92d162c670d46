----------------------------- MODULE CliDaemon -----------------------------
(***************************************************************************)
(* `garden start` and `garden down` (garden-cli, main.rs) and the daemon   *)
(* processes they start and signal.  A host pid is free, or held by a      *)
(* daemon (starting, listening on :9000, or stranded: it found :9000 taken *)
(* and runs on without it), by another process whose command line names    *)
(* garden-daemon, such as the tail of its log, or by something else.       *)
(***************************************************************************)
EXTENDS Naturals, FiniteSets

CONSTANTS
    HostPids,
    Clis,        \* invocations of the CLI, each run once
    Polls,       \* how often start looks for the port (50)
    HostChoices  \* what else holds for the host, per behaviour

AllHost == {"tail", "reuse", "deaf", "crash"}

ASSUME CliDaemonAssumption ==
    /\ HostPids \subseteq Nat /\ IsFiniteSet(HostPids)
    /\ Clis # {}
    /\ Polls \in Nat \ {0} /\ HostChoices \subseteq SUBSET AllHost

VARIABLES
    host,      \* fixed: a tail of the log runs; pids are reused at once; the
               \* daemon does not act on SIGTERM; a daemon may fail to come up
    procs,     \* what holds each pid
    cli,       \* each invocation: its command, its next step, what it knows
    signalled  \* what the signals of down have hit: the process, and whether it is
               \* a daemon that was there when this down looked

cliVars == <<host, procs, cli, signalled>>

Daemon == {"starting", "listening", "stranded"}
Bound == \E p \in HostPids : procs[p] = "listening"
Named(p) == procs[p] \in Daemon \cup {"tail"}

CliInit ==
    /\ host \in HostChoices
    /\ procs \in [HostPids -> {"free", "listening", "stranded", "tail"}]
    /\ \A state \in {"listening", "stranded"} : Cardinality({p \in HostPids : procs[p] = state}) <= 1
    /\ \A p \in HostPids : procs[p] = "tail" => "tail" \in host
    /\ cli \in [Clis -> [cmd : {"start", "down"}, at : {"begin"}, n : {0}, pids : {{}}, seen : {{}},
                         mustgo : {{}}]]
    /\ signalled = {}

Goto(c, at) == cli' = [cli EXCEPT ![c].at = at]

(***************************************************************************)
(* start: ensure_daemon_running.                                           *)
(***************************************************************************)
CheckPort(c) ==
    /\ cli[c].cmd = "start" /\ cli[c].at = "begin"
    /\ Goto(c, IF Bound THEN "up" ELSE "spawn")
    /\ UNCHANGED <<host, procs, signalled>>

\* The binary is missing, cannot be signed or cannot be started.
CannotSpawn(c) ==
    /\ cli[c].at = "spawn" /\ "crash" \in host
    /\ Goto(c, "failed")
    /\ UNCHANGED <<host, procs, signalled>>

\* A pid in use as a target of a running `down` is given out again only at once.
Stale(p) == \E c \in Clis : cli[c].at \in {"term", "signal", "wait", "kill"} /\ p \in cli[c].pids

Fresh(p) == procs[p] = "free" /\ (Stale(p) => "reuse" \in host)

SpawnDaemon(c) ==
    /\ cli[c].at = "spawn"
    /\ \E p \in HostPids :
           /\ Fresh(p)
           /\ procs' = [procs EXCEPT ![p] = "starting"]
           /\ cli' = [d \in Clis |->
                  [cli[d] EXCEPT !.at = IF d = c THEN "poll" ELSE @,
                                 !.seen = @ \ {p}, !.mustgo = @ \ {p}]]
    /\ UNCHANGED <<host, signalled>>

\* It sleeps 100 ms and tries the port, up to Polls times.
PollPort(c) ==
    /\ cli[c].at = "poll"
    /\ cli' = [cli EXCEPT ![c].n = @ + 1,
                          ![c].at = IF Bound THEN "up"
                                    ELSE IF cli[c].n + 1 = Polls THEN "failed" ELSE "poll"]
    /\ UNCHANGED <<host, procs, signalled>>

(***************************************************************************)
(* down: shutdown_garden_daemon, after the VM has been asked to stop.      *)
(***************************************************************************)

Daemons == {p \in HostPids : procs[p] \in Daemon}

\* SIGTERM ends a daemon; one that ignores it is told by the port it holds.
MustGo == {p \in Daemons : procs[p] = "listening" \/ "deaf" \notin host}

\* Mutant: the port is looked up instead of the processes.
PgrepListening(c) ==
    /\ cli[c].cmd = "down" /\ cli[c].at = "begin"
    /\ LET pids == {p \in HostPids : procs[p] = "listening"} IN
       cli' = [cli EXCEPT ![c].pids = pids, ![c].seen = Daemons, ![c].mustgo = MustGo,
                          ![c].at = IF pids = {} THEN "done" ELSE "term"]
    /\ UNCHANGED <<host, procs, signalled>>

Pgrep(c) ==
    /\ cli[c].cmd = "down" /\ cli[c].at = "begin"
    /\ LET pids == {p \in HostPids : Named(p)} IN
       cli' = [cli EXCEPT ![c].pids = pids, ![c].seen = Daemons, ![c].mustgo = MustGo,
                          ![c].at = IF pids = {} THEN "done" ELSE "term"]
    /\ UNCHANGED <<host, procs, signalled>>

Hit(c, pids) ==
    signalled' = signalled \cup
        {[what |-> procs[p], seen |-> p \in cli[c].seen] : p \in pids}

\* The pid whose turn it is; n counts the pids done, in ascending order.
Turn(c) == CHOOSE q \in cli[c].pids : Cardinality({x \in cli[c].pids : x < q}) = cli[c].n

NextTurn(c) ==
    cli' = [cli EXCEPT ![c].n = @ + 1,
                       ![c].at = IF cli[c].n + 1 = Cardinality(cli[c].pids) THEN "wait" ELSE "term"]

\* ps: a pid whose command line does not name the daemon is passed over ...
Verify(c) ==
    /\ cli[c].at = "term"
    /\ IF Named(Turn(c)) THEN Goto(c, "signal") ELSE NextTurn(c)
    /\ UNCHANGED <<host, procs, signalled>>

\* ... and kill -TERM for one that did, whoever holds it by then.
Term(c) ==
    /\ cli[c].at = "signal"
    /\ LET p == Turn(c) IN
       /\ Hit(c, {q \in {p} : procs[q] # "free"})
       /\ procs' = IF procs[p] \in Daemon /\ "deaf" \in host
                   THEN procs ELSE [procs EXCEPT ![p] = "free"]
    /\ NextTurn(c)
    /\ UNCHANGED host

\* After 2 s the port is tried once.
StillBound(c) ==
    /\ cli[c].at = "wait"
    /\ Goto(c, IF Bound THEN "kill" ELSE "done")
    /\ UNCHANGED <<host, procs, signalled>>

\* Mutant: the escalation looks for the daemons again.
KillAllNamed(c) ==
    /\ cli[c].at = "kill"
    /\ Hit(c, {p \in HostPids : Named(p)})
    /\ procs' = [p \in HostPids |-> IF Named(p) THEN "free" ELSE procs[p]]
    /\ Goto(c, "done")
    /\ UNCHANGED host

\* kill -KILL for every pid of the list, whoever holds it now.
Escalate(c) ==
    /\ cli[c].at = "kill"
    /\ Hit(c, {p \in cli[c].pids : procs[p] # "free"})
    /\ procs' = [p \in HostPids |-> IF p \in cli[c].pids THEN "free" ELSE procs[p]]
    /\ Goto(c, "done")
    /\ UNCHANGED host

(***************************************************************************)
(* The processes.                                                          *)
(***************************************************************************)

\* Mutant: the address is taken over.
BindAnyway(p) ==
    /\ procs[p] = "starting"
    /\ procs' = [procs EXCEPT ![p] = "listening"]
    /\ UNCHANGED <<host, cli, signalled>>

\* The task that serves :9000 binds it, or prints that it is taken and ends; the
\* process goes on either way.
Bind(p) ==
    /\ procs[p] = "starting"
    /\ procs' = [procs EXCEPT ![p] = IF Bound THEN "stranded" ELSE "listening"]
    /\ UNCHANGED <<host, cli, signalled>>

Crash(p) ==
    /\ "crash" \in host /\ procs[p] \in Daemon
    /\ procs' = [procs EXCEPT ![p] = "free"]
    /\ UNCHANGED <<host, cli, signalled>>

OtherStarts(p) ==
    /\ Fresh(p)
    /\ procs' = [procs EXCEPT ![p] = "other"]
    /\ UNCHANGED <<host, cli, signalled>>

OtherEnds(p) ==
    /\ procs[p] = "other"
    /\ procs' = [procs EXCEPT ![p] = "free"]
    /\ UNCHANGED <<host, cli, signalled>>

CliStep(c) ==
    \/ CheckPort(c) \/ CannotSpawn(c) \/ SpawnDaemon(c) \/ PollPort(c)
    \/ Pgrep(c) \/ Verify(c) \/ Term(c) \/ StillBound(c) \/ Escalate(c)

CliNext ==
    \/ \E c \in Clis : CliStep(c)
    \/ \E p \in HostPids : Bind(p) \/ Crash(p) \/ OtherStarts(p) \/ OtherEnds(p)

Finished(c) == cli[c].at \in {"up", "failed", "done"}

=============================================================================
