------------------------------ MODULE AppState ------------------------------
(***************************************************************************)
(* The menu bar app's AppState.swift.  Its functions run on the main actor *)
(* and are atomic between awaits: each is an action that starts it, up to  *)
(* the call of the daemon it awaits, and one that resumes it.  In between  *)
(* the other functions run, the 5 s poll above all.                        *)
(***************************************************************************)
EXTENDS HostDaemon

CONSTANTS
    CallIds,                  \* awaited calls at one time (a bound)
    MaxClicks,                \* the user's boots and stops (a bound)
    failedPollsBeforeOffline,
    UiChoices                 \* what may happen, per behaviour

ASSUME AppStateAssumption ==
    /\ CallIds \subseteq Nat
    /\ {MaxClicks, failedPollsBeforeOffline} \subseteq Nat
    /\ UiChoices \subseteq SUBSET {"overlap", "slow", "lossy"}

VARIABLES
    vmState, daemonReachable, consecutiveFailedPolls,
    uptimeTimer, mockTimer,   \* whether the field is set ...
    running,                  \* ... and the timers that tick, by kind
    telemetry,                \* whether a stream is held
    calls,                    \* the awaited call in each slot
    clicks,
    may                       \* fixed: a poll may meet another operation; a boot or a
                              \* stop may take longer than the app waits; so may a
                              \* status call

uiVars == <<vmState, daemonReachable, consecutiveFailedPolls, uptimeTimer, mockTimer,
            running, telemetry, calls, clicks, may>>

NoCall == [op |-> "none", mock |-> FALSE, reply |-> "none"]
Ops == {"sync", "poll", "boot", "stop", "demo_boot", "demo_stop"}
Replies == {"none", "running", "stopped", "ok", "refused", "error"}

\* launch: the status call of syncStatusFromDaemon is on its way
UiInit ==
    /\ vmState = "stopped" /\ daemonReachable = FALSE /\ consecutiveFailedPolls = 0
    /\ uptimeTimer = FALSE /\ mockTimer = FALSE /\ telemetry = FALSE
    /\ running = [uptime |-> 0, mock |-> 0]
    /\ calls = [i \in CallIds |-> IF i = 1 THEN [NoCall EXCEPT !.op = "sync"] ELSE NoCall]
    /\ clicks = 0 /\ may \in UiChoices

Await(i, op, mock) ==
    /\ calls[i] = NoCall /\ \A j \in CallIds : j < i => calls[j] # NoCall
    /\ "overlap" \in may \/ \A j \in CallIds : calls[j] = NoCall
    /\ calls' = [calls EXCEPT ![i] = [op |-> op, mock |-> mock, reply |-> "none"]]

Answer(i, reply) == calls' = [calls EXCEPT ![i].reply = reply]

(***************************************************************************)
(* The daemon's HTTP API (DaemonClient.swift).                             *)
(***************************************************************************)
ServeStatus(i) ==
    /\ up /\ calls[i].op \in {"sync", "poll"} /\ calls[i].reply = "none"
    /\ Answer(i, IF vm THEN "running" ELSE "stopped")
    /\ UNCHANGED daemonVars

\* A second boot, one that fails, a stop without a VM and one that fails are all
\* answered with success = false.
ServeBoot(i) ==
    /\ up /\ calls[i].op = "boot" /\ calls[i].reply = "none"
    /\ \E reply \in {"ok", "refused"} : Boots(reply) /\ Answer(i, reply)
    /\ UNCHANGED <<up, gen, late, changes>>

ServeStop(i) ==
    /\ up /\ calls[i].op = "stop" /\ calls[i].reply = "none"
    /\ \E reply \in {"ok", "refused"} : Stops(reply) /\ Answer(i, reply)
    /\ UNCHANGED <<up, gen, late, changes>>

Serve(i) ==
    /\ ServeStatus(i) \/ ServeBoot(i) \/ ServeStop(i)
    /\ UNCHANGED <<vmState, daemonReachable, consecutiveFailedPolls, uptimeTimer, mockTimer,
                   running, telemetry, clicks, may>>

Slow(op) == IF op \in {"boot", "stop"} THEN "slow" \in may ELSE "lossy" \in may

\* The call throws: nobody listens, or 5 s have passed.  A boot or a stop that
\* the daemon is at goes on without the app.
Throw(i) ==
    /\ calls[i].op \in {"sync", "poll", "boot", "stop"} /\ calls[i].reply # "error"
    /\ ~up \/ (Slow(calls[i].op) /\ calls[i].op \notin late)
    /\ Answer(i, "error")
    /\ late' = late \cup {op \in {"boot", "stop"} :
                            up /\ op = calls[i].op /\ calls[i].reply = "none"}
    /\ UNCHANGED <<up, gen, vm, changes, vmState, daemonReachable, consecutiveFailedPolls,
                   uptimeTimer, mockTimer, running, telemetry, clicks, may>>

(***************************************************************************)
(* Timers and the stream.  A timer that is replaced goes on ticking.       *)
(***************************************************************************)
Start(kinds) ==
    /\ running' = [k \in {"uptime", "mock"} |-> running[k] + IF k \in kinds THEN 1 ELSE 0]
    /\ uptimeTimer' = (uptimeTimer \/ "uptime" \in kinds)
    /\ mockTimer' = (mockTimer \/ "mock" \in kinds)
    /\ telemetry' = (telemetry \/ "telemetry" \in kinds)

stopAll ==
    /\ uptimeTimer' = FALSE /\ mockTimer' = FALSE /\ telemetry' = FALSE
    /\ running' = [uptime |-> IF uptimeTimer THEN running.uptime - 1 ELSE running.uptime,
                   mock   |-> IF mockTimer THEN running.mock - 1 ELSE running.mock]

Streams == <<uptimeTimer, mockTimer, running, telemetry>>

(***************************************************************************)
(* The user.                                                               *)
(***************************************************************************)
Click == clicks < MaxClicks /\ clicks' = clicks + 1

Boot(i, mock) ==
    /\ vmState \in {"stopped", "error"}
    /\ vmState' = "booting"
    /\ Await(i, IF daemonReachable THEN "boot" ELSE "demo_boot", mock)

boot(i) ==
    /\ Click /\ Boot(i, TRUE)
    /\ UNCHANGED <<daemonVars, daemonReachable, consecutiveFailedPolls, Streams, may>>

stop(i) ==
    /\ Click /\ vmState = "running"
    /\ vmState' = "stopping"
    /\ stopAll
    /\ Await(i, IF daemonReachable THEN "stop" ELSE "demo_stop", FALSE)
    /\ UNCHANGED <<daemonVars, daemonReachable, consecutiveFailedPolls, may>>

Return(i) == calls' = [calls EXCEPT ![i] = NoCall]

\* boot() goes on, whatever vmState has become; DaemonClient's error counts as
\* a daemon that is gone.
ResumeBoot(i) ==
    /\ calls[i].op = "demo_boot" \/ (calls[i].op = "boot" /\ calls[i].reply # "none")
    /\ LET booted == calls[i].reply = "ok"
           demo   == calls[i].op = "demo_boot" \/ (calls[i].reply = "error" /\ calls[i].mock)
       IN  /\ vmState' = IF booted \/ demo THEN "running" ELSE "error"
           /\ Start(IF booted THEN {"uptime", "telemetry"}
                    ELSE IF demo THEN {"uptime", "mock"} ELSE {})
    /\ Return(i)
    /\ UNCHANGED <<daemonVars, daemonReachable, consecutiveFailedPolls, clicks, may>>

\* stop() always ends in .stopped.
ResumeStop(i) ==
    /\ calls[i].op = "demo_stop" \/ (calls[i].op = "stop" /\ calls[i].reply # "none")
    /\ vmState' = "stopped"
    /\ Return(i)
    /\ UNCHANGED <<daemonVars, daemonReachable, consecutiveFailedPolls, Streams, clicks, may>>

\* syncStatusFromDaemon, once: attach, boot without the mock fallback, or wait.
ResumeSync(i) ==
    /\ calls[i].op = "sync" /\ calls[i].reply # "none"
    /\ daemonReachable' = (calls[i].reply # "error")
    /\ CASE calls[i].reply = "running" ->
                vmState' = "running" /\ Start({"uptime", "telemetry"}) /\ Return(i)
         [] calls[i].reply = "stopped" /\ vmState \in {"stopped", "error"} ->
                /\ vmState' = "booting"
                /\ calls' = [calls EXCEPT ![i] = [NoCall EXCEPT !.op = "boot"]]
                /\ UNCHANGED Streams
         [] OTHER -> UNCHANGED <<vmState, Streams>> /\ Return(i)
    /\ UNCHANGED <<daemonVars, consecutiveFailedPolls, clicks, may>>

(***************************************************************************)
(* The poll: a timer of 5 s that no operation stops.                       *)
(***************************************************************************)
PollTick(i) ==
    /\ Await(i, "poll", FALSE)
    /\ UNCHANGED <<daemonVars, vmState, daemonReachable, consecutiveFailedPolls, Streams,
                   clicks, may>>

\* Mutant: nothing is resumed while vmState is .running.
PollSeesRunningOnce(i) ==
    /\ calls[i].op = "poll" /\ calls[i].reply = "running"
    /\ daemonReachable' = TRUE /\ consecutiveFailedPolls' = 0
    /\ IF vmState \in {"stopped", "error"}
       THEN vmState' = "running" /\ Start({"uptime", "telemetry"})
       ELSE UNCHANGED <<vmState, Streams>>
    /\ Return(i)
    /\ UNCHANGED <<daemonVars, clicks, may>>

\* Mutant: the fields are not asked.
PollRestarts(i) ==
    /\ calls[i].op = "poll" /\ calls[i].reply = "running"
    /\ daemonReachable' = TRUE /\ consecutiveFailedPolls' = 0
    /\ vmState' = "running" /\ Start({"uptime", "telemetry"})
    /\ Return(i)
    /\ UNCHANGED <<daemonVars, clicks, may>>

PollSeesRunning(i) ==
    /\ calls[i].op = "poll" /\ calls[i].reply = "running"
    /\ daemonReachable' = TRUE /\ consecutiveFailedPolls' = 0
    /\ CASE vmState \in {"stopped", "error"} ->
                vmState' = "running" /\ Start({"uptime", "telemetry"})
         [] vmState = "running" ->
                /\ Start({k \in {"uptime"} : ~uptimeTimer} \cup {k \in {"telemetry"} : ~telemetry})
                /\ UNCHANGED vmState
         [] OTHER -> UNCHANGED <<vmState, Streams>>
    /\ Return(i)
    /\ UNCHANGED <<daemonVars, clicks, may>>

RollBack ==
    IF vmState \in {"running", "booting"} THEN vmState' = "stopped" /\ stopAll
    ELSE UNCHANGED <<vmState, Streams>>

PollSeesStopped(i) ==
    /\ calls[i].op = "poll" /\ calls[i].reply = "stopped"
    /\ daemonReachable' = TRUE /\ consecutiveFailedPolls' = 0
    /\ RollBack
    /\ Return(i)
    /\ UNCHANGED <<daemonVars, clicks, may>>

\* The stream and the uptime go at the first failure, the state after several.
\* (The count is capped where it makes no further difference.)
PollFails(i) ==
    /\ calls[i].op = "poll" /\ calls[i].reply = "error"
    /\ daemonReachable' = FALSE
    /\ LET failures == consecutiveFailedPolls + 1 IN
       /\ consecutiveFailedPolls' =
              IF failures > failedPollsBeforeOffline THEN failedPollsBeforeOffline ELSE failures
       /\ IF failures >= failedPollsBeforeOffline /\ vmState \in {"running", "booting"}
          THEN RollBack
          ELSE /\ telemetry' = FALSE /\ uptimeTimer' = FALSE
               /\ running' = [running EXCEPT !.uptime = IF uptimeTimer THEN @ - 1 ELSE @]
               /\ UNCHANGED <<vmState, mockTimer>>
    /\ Return(i)
    /\ UNCHANGED <<daemonVars, clicks, may>>

Resume(i) ==
    \/ ResumeBoot(i) \/ ResumeStop(i) \/ ResumeSync(i)
    \/ PollSeesRunning(i) \/ PollSeesStopped(i) \/ PollFails(i)

UiNext ==
    \/ Others /\ UNCHANGED uiVars
    \/ \E i \in CallIds : \/ Serve(i) \/ Throw(i) \/ Resume(i)
                          \/ boot(i) \/ stop(i) \/ PollTick(i)

=============================================================================
