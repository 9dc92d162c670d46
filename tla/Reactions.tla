----------------------------- MODULE Reactions -----------------------------
(***************************************************************************)
(* What garden-daemon does with an event from the guest (main.rs,          *)
(* process_telemetry_stream): log it and learn of a violation, broadcast   *)
(* it to the consumers of port 10001, and start a task that kills the      *)
(* process through the agent.  In the meantime the processes of the guest  *)
(* go on, end, and give their pids to others.                              *)
(*                                                                         *)
(* A process is a pid and the number of its holder: 0 is no process.       *)
(***************************************************************************)
EXTENDS Violations

CONSTANTS
    Pids,         \* the pids of the guest, 1 among them
    CallsOf,      \* what each does: events without a pid, and their fate
    HostDenies,   \* the calls the host's policy.json denies
    Consumers,    \* connections to port 10001
    FaultChoices, \* what may go wrong, per behaviour
    Capacity,     \* slots of the broadcast channel (4096)
    SEND_THRESHOLD, \* bytes a pid may send in all (10 MB)
    MaxEvents,    \* events the guest emits (a bound)
    MaxHolders    \* processes that hold a pid in turn (a bound)

Calls == UNION {CallsOf[p] : p \in Pids}

Sent(call) == IF call.event.kind = "TcpSend" THEN call.event.bytes ELSE 0

\* logger.log fails; the agent cannot be reached; a line does not parse; pids
\* are reused at once; nobody reads port 10001
AllFaults == {"log", "connect", "garbled", "early_reuse", "unwatched"}

ASSUME ReactionsAssumption ==
    /\ 1 \in Pids /\ Pids \subseteq Nat \ {0}
    /\ HostDenies \subseteq Calls
    /\ \A call \in Calls : Sent(call) \in Nat
    /\ \A call \in CallsOf[1] : call.fate = "lives" \* the hooks spare PID 1
    /\ FaultChoices \subseteq SUBSET AllFaults
    /\ {Capacity, SEND_THRESHOLD, MaxEvents, MaxHolders} \subseteq Nat \ {0}

VARIABLES
    faults,   \* fixed
    holder,   \* the process that holds each pid
    born,     \* how many have held it
    own,      \* the bytes its holder has reported to have sent
    root,     \* the pids whose holder has uid 0
    emitted,  \* the number of events so far
    wire,     \* events on their way from the guest
    counters, \* EventLogger.byte_counters: the bytes sent, by pid
    slots,    \* the broadcast channel: the line in each slot
    total,    \* lines broadcast
    conn,     \* the consumers: connected, the next line, the lines received
    tasks,    \* kill tasks: the event they react to, and the rule it broke
    guilty,   \* the processes that have made a call the daemon kills for
    refused   \* the processes that a kill could not be delivered to

guestVars == <<holder, born, own, root, emitted>>
vars == <<faults, guestVars, wire, counters, slots, total, conn, tasks, guilty, refused>>

Closed == [up |-> FALSE, next |-> 0, got |-> <<>>]

Init ==
    /\ faults \in FaultChoices
    /\ holder = [p \in Pids |-> 1] /\ born = [p \in Pids |-> 1]
    /\ own = [p \in Pids |-> 0] /\ counters = [p \in Pids |-> 0]
    /\ root \in SUBSET Pids /\ 1 \in root
    /\ emitted = 0
    /\ wire = <<>>
    /\ slots = [i \in 0..(Capacity - 1) |-> 0]
    /\ total = 0
    /\ conn = [c \in Consumers |-> Closed]
    /\ tasks = {} /\ guilty = {} /\ refused = {}

\* The rules the daemon leaves to the LSM hooks.  No rule of detect_violation
\* is called proc_memory_access.
KernelEnforced ==
    {"proc_memory_access", "namespace_escape_attempt", "write_outside_workspace",
     "privileged_binary_exec", "sensitive_kernel_access"}

\* The static rule a call breaks when the process with this pid makes it.
StaticRule ==
    [call \in Calls |-> [p \in Pids |-> detect_violation([call.event EXCEPT !.pid = p])]]

\* The daemon is to kill whoever makes this call: its rules or the host's policy
\* say so, and PID 1 is spared.
Offence(p, call) ==
    /\ p # 1
    /\ \/ call \in HostDenies
       \/ /\ Severity(StaticRule[call][p]) \in {"critical", "high"}
          /\ StaticRule[call][p] \notin KernelEnforced

(***************************************************************************)
(* The guest.                                                              *)
(***************************************************************************)

\* The pids of root processes after a call: one may change its process's uid.
RootAfter(p, event) ==
    IF event.kind # "CredsChanged" THEN root
    ELSE IF event.new_uid = 0 THEN root \cup {p} ELSE root \ {p}

\* A process makes a call; one the hooks kill for it is gone.
Emit(p, call) ==
    /\ emitted < MaxEvents /\ holder[p] # 0
    /\ call.event.kind = "CredsChanged" => (call.event.old_uid = 0 <=> p \in root)
    /\ emitted' = emitted + 1
    /\ own' = [own EXCEPT ![p] = @ + Sent(call)]
    /\ wire' = Append(wire, [id |-> emitted + 1, pid |-> p, by |-> <<p, holder[p]>>,
                             own |-> own'[p], call |-> call])
    /\ holder' = IF call.fate = "killed" THEN [holder EXCEPT ![p] = 0] ELSE holder
    /\ root' = RootAfter(p, call.event)
    /\ guilty' = guilty \cup {g \in {<<p, holder[p]>>} : Offence(p, call)}
    /\ UNCHANGED <<faults, born, counters, slots, total, conn, tasks, refused>>

Exits(p) ==
    /\ p # 1 /\ holder[p] # 0
    /\ holder' = [holder EXCEPT ![p] = 0]
    /\ UNCHANGED <<faults, born, own, root, emitted, wire, counters, slots, total, conn, tasks,
                   guilty, refused>>

\* The daemon still has an event of the pid to handle, or a kill to carry out.
Outstanding(p) ==
    \/ \E i \in DOMAIN wire : wire[i].pid = p
    \/ \E t \in tasks : t.event.pid = p

Forks(p) ==
    /\ holder[p] = 0 /\ born[p] < MaxHolders
    /\ Outstanding(p) => "early_reuse" \in faults
    /\ born' = [born EXCEPT ![p] = @ + 1]
    /\ holder' = [holder EXCEPT ![p] = born[p] + 1]
    /\ own' = [own EXCEPT ![p] = 0]
    /\ root' \in {root \ {p}, root \cup {p}}
    /\ UNCHANGED <<faults, emitted, wire, counters, slots, total, conn, tasks, guilty, refused>>

(***************************************************************************)
(* The receiver.                                                           *)
(***************************************************************************)

\* Mutant: an event's bytes are counted twice.
CumulativeTwice(e) ==
    IF counters[e.pid] < SEND_THRESHOLD /\ counters[e.pid] + 2 * Sent(e.call) >= SEND_THRESHOLD
    THEN "data_exfiltration" ELSE "none"

\* check_cumulative_bytes: fires once, for the event that crosses the
\* threshold.  (Bytes received only ever make a medium violation.)
CumulativeViolation(e) ==
    IF counters[e.pid] < SEND_THRESHOLD /\ counters[e.pid] + Sent(e.call) >= SEND_THRESHOLD
    THEN "data_exfiltration" ELSE "none"

\* What logger.log finds: a static rule first, the pid's bytes after it.
ViolationOf(e) ==
    IF StaticRule[e.call][e.pid] # "none" THEN StaticRule[e.call][e.pid]
    ELSE CumulativeViolation(e)

ShouldKill(violation) ==
    Severity(violation) \in {"critical", "high"} /\ violation \notin KernelEnforced

Killable(pid) == pid # 1

\* Mutant: the policy is not asked about what the kernel enforces.
ReactUnlessEnforced(e, violation) ==
    {[event |-> e, rule |-> rule] :
        rule \in {r \in {violation, "policy"} :
                     /\ r = "policy" \/ ShouldKill(r)
                     /\ r = "policy" => e.call \in HostDenies /\ violation \notin KernelEnforced
                     /\ Killable(e.pid)}}

\* The tasks one event starts: one for the hard-coded rule, one for the
\* host's policy, which sees the event whether or not it could be logged.
React(e, violation) ==
    {[event |-> e, rule |-> rule] :
        rule \in {r \in {violation, "policy"} :
                     /\ r = "policy" \/ ShouldKill(r)
                     /\ r = "policy" => e.call \in HostDenies
                     /\ Killable(e.pid)}}

\* broadcast::Sender::send overwrites the oldest slot; without receivers it
\* keeps nothing.
Send(line) ==
    IF \A c \in Consumers : ~conn[c].up THEN UNCHANGED <<slots, total>>
    ELSE /\ total' = total + 1
         /\ slots' = [slots EXCEPT ![total % Capacity] = line]

\* One line: logger.log may fail, and the violation is lost with it; the
\* bytes have been counted by then.
Receive ==
    /\ wire # <<>>
    /\ LET e == Head(wire) IN
       \E violation \in {ViolationOf(e)} \cup {v \in {"none"} : "log" \in faults} :
           /\ tasks' = tasks \cup React(e, violation)
           /\ counters' = [counters EXCEPT ![e.pid] = @ + Sent(e.call)]
           /\ Send(e.id)
    /\ wire' = Tail(wire)
    /\ UNCHANGED <<faults, guestVars, conn, guilty, refused>>

\* A line that does not parse is reported and skipped.
SkipGarbled ==
    /\ "garbled" \in faults /\ wire # <<>>
    /\ wire' = Tail(wire)
    /\ UNCHANGED <<faults, guestVars, counters, slots, total, conn, tasks, guilty, refused>>

\* Mutant: a kill that is refused is tried again, for ever.
KillRetries(t) ==
    /\ t \in tasks
    /\ LET p == t.event.pid IN
       /\ tasks' = IF p \in root THEN tasks ELSE tasks \ {t}
       /\ holder' = IF p \in root THEN holder ELSE [holder EXCEPT ![p] = 0]
    /\ UNCHANGED <<faults, born, own, root, emitted, wire, counters, slots, total, conn, guilty, refused>>

\* The task has connected to the agent, which runs `kill -9 <pid>` as uid 1000:
\* for a process of root that is EPERM.  Nobody looks at the exit code.
Kill(t) ==
    /\ t \in tasks
    /\ tasks' = tasks \ {t}
    /\ LET p == t.event.pid IN
       /\ holder' = IF p \in root THEN holder ELSE [holder EXCEPT ![p] = 0]
       /\ refused' = refused \cup {g \in {<<p, holder[p]>>} : p \in root}
    /\ UNCHANGED <<faults, born, own, root, emitted, wire, counters, slots, total, conn, guilty>>

\* The connection or the command fails; the task gives up silently.
KillFails(t) ==
    /\ "connect" \in faults /\ t \in tasks
    /\ tasks' = tasks \ {t}
    /\ UNCHANGED <<faults, guestVars, wire, counters, slots, total, conn, guilty, refused>>

(***************************************************************************)
(* run_telemetry_tcp_proxy and its consumers.                              *)
(***************************************************************************)
Subscribe(c) ==
    /\ ~conn[c].up /\ "unwatched" \notin faults
    /\ conn' = [conn EXCEPT ![c] = [up |-> TRUE, next |-> total, got |-> <<>>]]
    /\ UNCHANGED <<faults, guestVars, wire, counters, slots, total, tasks, guilty, refused>>

Lagged(c) == conn[c].next + Capacity < total

\* Mutant: after Lagged the loop goes on with the oldest line there is.
RecvSkipping(c) ==
    /\ conn[c].up /\ conn[c].next < total
    /\ LET next == IF Lagged(c) THEN total - Capacity ELSE conn[c].next IN
       conn' = [conn EXCEPT ![c] = [up |-> TRUE, next |-> next + 1,
                                    got |-> Append(@.got, slots[next % Capacity])]]
    /\ UNCHANGED <<faults, guestVars, wire, counters, slots, total, tasks, guilty, refused>>

\* rx.recv and the write to the socket; any error, Lagged too, ends the loop
\* and closes the connection.
Recv(c) ==
    /\ conn[c].up /\ conn[c].next < total
    /\ conn' = [conn EXCEPT ![c] =
           IF Lagged(c) THEN Closed
           ELSE [up |-> TRUE, next |-> @.next + 1,
                 got |-> Append(@.got, slots[@.next % Capacity])]]
    /\ UNCHANGED <<faults, guestVars, wire, counters, slots, total, tasks, guilty, refused>>

\* The consumer has gone: the loop learns of it at the next write.
WriteFails(c) ==
    /\ conn[c].up /\ conn[c].next < total
    /\ conn' = [conn EXCEPT ![c] = Closed]
    /\ UNCHANGED <<faults, guestVars, wire, counters, slots, total, tasks, guilty, refused>>

\* The bound on events is reached and the daemon has handled them all.
Quiet ==
    /\ emitted = MaxEvents /\ wire = <<>> /\ tasks = {}
    /\ UNCHANGED vars

Next ==
    \/ \E p \in Pids : Exits(p) \/ Forks(p) \/ \E call \in CallsOf[p] : Emit(p, call)
    \/ Receive \/ SkipGarbled
    \/ \E t \in tasks : Kill(t) \/ KillFails(t)
    \/ \E c \in Consumers : Subscribe(c) \/ Recv(c) \/ WriteFails(c)
    \/ Quiet

Spec == Init /\ [][Next]_vars

\* The receiver and the tasks run on tokio's threads and are scheduled;
\* processes and consumers do as they like.
FairSpec ==
    /\ Spec
    /\ WF_vars(Receive \/ SkipGarbled)
    /\ WF_vars(\E t \in tasks : Kill(t) \/ KillFails(t))

(***************************************************************************)
(* Properties.                                                             *)
(***************************************************************************)

\* A process that is to be killed has gone, or the kill has been refused it, or
\* its event is on the way, or a task is.
Hunted(g) ==
    \/ holder[g[1]] # g[2] \/ g \in refused
    \/ \E i \in DOMAIN wire : wire[i].by = g /\ Offence(g[1], wire[i].call)
    \/ \E t \in tasks : t.event.by = g

\* The daemon does not forget what a process is to be killed for, whatever else
\* happens between the call and the kill, where neither the log, nor a line, nor
\* a connection fails.
OffenceNotForgotten ==
    faults \cap {"log", "connect", "garbled"} = {} => \A g \in guilty : Hunted(g)

\* As long as no pid has been given out again, a process is killed for the
\* bytes it sent only if it sent SEND_THRESHOLD of them itself.
\* The counters outlive the processes: a later holder of a pid starts with
\* what the earlier ones sent.
KilledForOwnBytes ==
    (\A p \in Pids : born[p] = 1) =>
        \A t \in tasks : t.rule = "data_exfiltration" =>
            t.event.own >= SEND_THRESHOLD

\* A process whose call the daemon kills for is gone sooner or later, if the log
\* and the agent can be reached, or it had uid 0 when the kill came: the kill
\* runs as uid 1000 and cannot end it.  (That is so of every process that is to
\* be killed for privilege_escalation, unless it gives up uid 0 by then.)
OffenderStopped ==
    \A p \in Pids \ {1}, h \in 1..MaxHolders :
        (faults \cap {"log", "connect", "garbled"} = {} /\ <<p, h>> \in guilty)
        ~> (holder[p] # h \/ <<p, h>> \in refused)

\* What a consumer of port 10001 has received over one connection are
\* consecutive lines of the broadcast: falling behind ends the stream, it
\* never leaves a hole in it.  (Lines that do not parse are not broadcast.)
StreamHasNoHoles ==
    "garbled" \notin faults => \A c \in Consumers :
        \A i \in DOMAIN conn[c].got : conn[c].got[i] = conn[c].got[1] + (i - 1)

=============================================================================
