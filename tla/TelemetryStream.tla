-------------------------- MODULE TelemetryStream --------------------------
(***************************************************************************)
(* The app's TelemetryStream.swift: one NWConnection to the daemon's       *)
(* telemetry port, replaced 3 s after anything goes wrong with it.  The    *)
(* framework calls back on a utility queue, and each callback becomes a    *)
(* job of the main actor, which may run when its connection is no longer   *)
(* the stream's.                                                           *)
(***************************************************************************)
EXTENDS HostDaemon

CONSTANTS
    Conns,        \* connections at one time, {1, ...} (a bound)
    StreamChoices \* what may happen, per behaviour

ASSUME TelemetryStreamAssumption ==
    /\ Conns \subseteq Nat \ {0}
    /\ StreamChoices \subseteq SUBSET {"late"}

VARIABLES
    held,       \* AppState holds the stream
    connection, \* 0 for nil
    buffer,     \* the connections that the bytes of the unfinished line are from
    sleeping,   \* reconnect tasks that sleep and are not cancelled
    net,        \* each connection's state in the framework ...
    peer,       \* ... the daemon it was opened to ...
    receiving,  \* ... and those with a receive outstanding
    jobs,       \* callbacks on their way to the main actor
    timing      \* fixed: a callback may take longer than the 3 s

streamVars == <<held, connection, buffer, sleeping, net, peer, receiving, jobs, timing>>

Job(c, what) == [conn |-> c, what |-> what]

\* NWConnection, start and cancel.  A cancelled connection may be reused as a
\* new one when nothing of it is left.
Reusable(c) ==
    \/ net[c] = "unused"
    \/ net[c] = "cancelled" /\ c \notin receiving /\ ~\E j \in jobs : j.conn = c
Cancelled(n, c) == IF c = 0 THEN n ELSE [n EXCEPT ![c] = "cancelled"]
CancelJob(c) == IF c = 0 THEN {} ELSE {Job(c, "cancelled")}
Joined(c) == up /\ peer[c] = gen

StreamInit ==
    /\ held = FALSE /\ connection = 0 /\ buffer = {} /\ sleeping = 0
    /\ net = [c \in Conns |-> "unused"] /\ peer = [c \in Conns |-> 0]
    /\ receiving = {} /\ jobs = {}
    /\ timing \in StreamChoices

connect(c) ==
    /\ Reusable(c) /\ \A d \in Conns : d < c => ~Reusable(d)
    /\ connection' = c
    /\ net' = [net EXCEPT ![c] = "preparing"]

\* AppState starts and stops its stream with its VM.
StreamStart(c) ==
    /\ ~held
    /\ held' = TRUE
    /\ connect(c)
    /\ UNCHANGED <<daemonVars, buffer, sleeping, peer, receiving, jobs, timing>>

\* AppState drops the stream next: what its jobs and tasks hold of it is weak.
StreamStop ==
    /\ Changes /\ held
    /\ held' = FALSE
    /\ connection' = 0 /\ buffer' = {} /\ sleeping' = 0
    /\ net' = Cancelled(net, connection)
    /\ jobs' = {} /\ receiving' = {}
    /\ UNCHANGED <<up, gen, vm, late, peer, timing>>

(***************************************************************************)
(* The framework and the daemon's broadcast of telemetry.                  *)
(***************************************************************************)
Opens(c) ==
    /\ net[c] = "preparing" /\ up
    /\ net' = [net EXCEPT ![c] = "ready"]
    /\ peer' = [peer EXCEPT ![c] = gen]
    /\ jobs' = jobs \cup {Job(c, "ready")}
    /\ UNCHANGED <<daemonVars, held, connection, buffer, sleeping, receiving, timing>>

\* It sits in .waiting from here.
Refused(c) ==
    /\ net[c] = "preparing" /\ ~up
    /\ net' = [net EXCEPT ![c] = "waiting"]
    /\ jobs' = jobs \cup {Job(c, "waiting")}
    /\ UNCHANGED <<daemonVars, held, connection, buffer, sleeping, peer, receiving, timing>>

Fails(c) ==
    /\ net[c] = "ready" /\ ~Joined(c)
    /\ net' = [net EXCEPT ![c] = "failed"]
    /\ jobs' = jobs \cup {Job(c, "failed")}
    /\ UNCHANGED <<daemonVars, held, connection, buffer, sleeping, peer, receiving, timing>>

\* A receive ends with data, up to the end of a line or not ...
Arrives(c, what) ==
    /\ c \in receiving /\ net[c] = "ready" /\ Joined(c)
    /\ jobs' = jobs \cup {Job(c, what)}
    /\ receiving' = receiving \ {c}
    /\ UNCHANGED <<daemonVars, held, connection, buffer, sleeping, net, peer, timing>>

\* ... or with an error or the end of the stream.
Ends(c) ==
    /\ c \in receiving /\ ~(net[c] = "ready" /\ Joined(c))
    /\ jobs' = jobs \cup {Job(c, "end")}
    /\ receiving' = receiving \ {c}
    /\ UNCHANGED <<daemonVars, held, connection, buffer, sleeping, net, peer, timing>>

\* The daemon closes the connection of a consumer that lags.
Lags(c) ==
    /\ Changes /\ net[c] = "ready" /\ Joined(c)
    /\ peer' = [peer EXCEPT ![c] = 0]
    /\ UNCHANGED <<up, gen, vm, late, held, connection, buffer, sleeping, net, receiving, jobs, timing>>

(***************************************************************************)
(* The jobs of the main actor.                                             *)
(***************************************************************************)
\* Mutant: a connection in .waiting is left to the framework's own retry.
ScheduleUnlessWaiting(j) ==
    /\ jobs' = (jobs \ {j}) \cup (IF j.what = "waiting" THEN {} ELSE CancelJob(connection))
    /\ IF j.what = "waiting"
         THEN UNCHANGED <<connection, buffer, net, sleeping>>
         ELSE /\ connection' = 0 /\ buffer' = {}
              /\ net' = Cancelled(net, connection)
              /\ sleeping' = 1

scheduleReconnect(j) ==
    /\ connection' = 0 /\ buffer' = {}
    /\ net' = Cancelled(net, connection)
    /\ jobs' = (jobs \ {j}) \cup CancelJob(connection)
    /\ sleeping' = 1

Ready(j) ==
    /\ j.what = "ready"
    /\ receiving' = receiving \cup {j.conn}
    /\ jobs' = jobs \ {j}
    /\ UNCHANGED <<daemonVars, held, connection, buffer, sleeping, net, peer, timing>>

processChunk(j) ==
    /\ j.what \in {"part", "line"}
    /\ buffer' = IF j.what = "line" THEN {} ELSE buffer \cup {j.conn}
    /\ receiving' = receiving \cup {j.conn}
    /\ jobs' = jobs \ {j}
    /\ UNCHANGED <<daemonVars, held, connection, sleeping, net, peer, timing>>

TearDown(j) ==
    /\ j.what \in {"waiting", "failed", "cancelled", "end"}
    /\ scheduleReconnect(j)
    /\ UNCHANGED <<daemonVars, held, peer, receiving, timing>>

Run(j) == Ready(j) \/ processChunk(j) \/ TearDown(j)

\* The 3 s are over.
SleepEnds(c) ==
    /\ sleeping > 0
    /\ "late" \in timing \/ (jobs = {} /\ receiving = {})
    /\ sleeping' = sleeping - 1
    /\ connect(c)
    /\ UNCHANGED <<daemonVars, held, buffer, peer, receiving, jobs, timing>>

NetStep(c) == Opens(c) \/ Refused(c) \/ Fails(c) \/ Ends(c)

StreamNext ==
    \/ (DaemonStarts \/ DaemonEnds) /\ UNCHANGED streamVars
    \/ \E c \in Conns : StreamStart(c) \/ NetStep(c) \/ Lags(c) \/ SleepEnds(c)
    \/ \E c \in Conns, what \in {"part", "line"} : Arrives(c, what)
    \/ StreamStop
    \/ \E j \in jobs : Run(j)

=============================================================================
