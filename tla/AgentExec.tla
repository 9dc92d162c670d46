----------------------------- MODULE AgentExec -----------------------------
(***************************************************************************)
(* The guest agent as PID 1: command handlers (run_command_request), the   *)
(* set of managed pids, and the periodic reaper of orphan zombies, over a  *)
(* table of processes whose pids are reused.                               *)
(*                                                                         *)
(* A process is a pid and a generation; the kernel and the code only see   *)
(* the pid.  The children of PID 1 are the commands it has spawned and the *)
(* orphans the kernel has given it; nothing but managed_pids tells them    *)
(* apart.                                                                  *)
(***************************************************************************)
EXTENDS Integers, FiniteSets

CONSTANTS
    Handlers,      \* calls of ExecuteCommand and ExecutePrivilegedCommand
    Pids,
    Agent,         \* PID 1
    None,
    MaxProcs       \* processes over the life of the VM (a bound)

\* What the timing of the guest may allow: a command that exits before its pid
\* is registered, and a pid that is reused while a handler or the reaper still
\* goes by it.
AllTimings == {"quick exit", "early reuse"}

ASSUME AgentExecAssumption ==
    /\ MaxProcs \in Nat
    /\ Agent \notin Pids /\ None \notin Pids /\ None \notin Handlers

VARIABLES
    timings,   \* the timings of this behaviour (fixed)
    proc,      \* the process table
    procs,     \* processes created so far
    pc,        \* where each handler is
    child,     \* its Child: pid, and the generation it really is
    exited,    \* its child.wait() has returned a status
    reply,     \* its answer
    managed,   \* managed_pids()
    reaper,    \* where the reaper is, and the pid it looks at
    stolen     \* history: handlers whose child's status was consumed by another

vars == <<timings, proc, procs, pc, child, exited, reply, managed, reaper, stolen>>
handlerVars == <<pc, child, exited, reply>>

Free == [state |-> "free", gen |-> 0, parent |-> None, pipe |-> None]
NoChild == [pid |-> None, gen |-> 0]
Asleep == [at |-> "sleep", pid |-> None]

Init ==
    /\ timings \in SUBSET AllTimings
    /\ proc = [p \in Pids |-> Free]
    /\ procs = 0
    /\ pc = [h \in Handlers |-> "idle"]
    /\ child = [h \in Handlers |-> NoChild]
    /\ exited = [h \in Handlers |-> FALSE]
    /\ reply = [h \in Handlers |-> None]
    /\ managed = {}
    /\ reaper = Asleep
    /\ stolen = {}

(***************************************************************************)
(* Processes (the kernel, and the commands themselves).                    *)
(***************************************************************************)
Create(p, parent, pipe) ==
    [proc EXCEPT ![p] = [state |-> "running", gen |-> procs + 1, parent |-> parent, pipe |-> pipe]]

\* The pipes close, the children go to PID 1, and the process stays a zombie
\* until PID 1 waits for it.  Another parent waits for its children itself.
AfterExit(p) ==
    [q \in Pids |->
        IF q = p THEN IF proc[p].parent = Agent
                      THEN [proc[p] EXCEPT !.state = "zombie", !.pipe = None] ELSE Free
        ELSE IF proc[q].parent = p THEN [proc[q] EXCEPT !.parent = Agent]
        ELSE proc[q]]

\* The zombie with this pid is waited for by someone other than the handler
\* whose child it is.
StolenBy(p, thief) ==
    {h \in Handlers \ {thief} : pc[h] \in {"spawned", "waiting"} /\ ~exited[h]
                                 /\ child[h] = [pid |-> p, gen |-> proc[p].gen]}

\* The pid is free, and unless this guest reuses pids early nobody goes by it.
Available(p) ==
    /\ proc[p].state = "free"
    /\ \/ "early reuse" \in timings
       \/ /\ reaper.pid # p
          /\ \A h \in Handlers : pc[h] \in {"spawned", "waiting"} => child[h].pid # p

\* A command starts a process, which inherits its pipes.
Fork(p, q) ==
    /\ proc[p].state = "running" /\ Available(q) /\ procs < MaxProcs
    /\ proc' = Create(q, p, proc[p].pipe)
    /\ procs' = procs + 1
    /\ UNCHANGED <<timings, handlerVars, managed, reaper, stolen>>

\* A process exits, or is killed from within the guest.
Exit(p) ==
    /\ proc[p].state = "running"
    /\ "quick exit" \in timings \/ ~\E h \in Handlers : pc[h] = "spawned" /\ child[h].pid = p
    /\ proc' = AfterExit(p)
    /\ UNCHANGED <<timings, procs, handlerVars, managed, reaper, stolen>>

(***************************************************************************)
(* run_command_request.                                                    *)
(***************************************************************************)
\* A cwd with `..`, or a program that cannot be started.
Refuse(h) ==
    /\ pc[h] = "idle"
    /\ pc' = [pc EXCEPT ![h] = "replied"]
    /\ reply' = [reply EXCEPT ![h] = "refused"]
    /\ UNCHANGED <<timings, proc, procs, child, exited, managed, reaper, stolen>>

Spawn(h, p) ==
    /\ pc[h] = "idle" /\ Available(p) /\ procs < MaxProcs
    /\ proc' = Create(p, Agent, h)
    /\ procs' = procs + 1
    /\ child' = [child EXCEPT ![h] = [pid |-> p, gen |-> procs + 1]]
    /\ pc' = [pc EXCEPT ![h] = "spawned"]
    /\ UNCHANGED <<timings, exited, reply, managed, reaper, stolen>>

\* ManagedPidGuard::new.
Register(h) ==
    /\ pc[h] = "spawned"
    /\ managed' = managed \cup {child[h].pid}
    /\ pc' = [pc EXCEPT ![h] = "waiting"]
    /\ UNCHANGED <<timings, proc, procs, child, exited, reply, reaper, stolen>>

\* child.wait(): tokio waits for the pid.
WaitReturns(h) ==
    LET p == child[h].pid IN
    /\ pc[h] = "waiting" /\ ~exited[h]
    /\ proc[p].state = "zombie" /\ proc[p].parent = Agent
    /\ exited' = [exited EXCEPT ![h] = TRUE]
    /\ stolen' = stolen \cup StolenBy(p, h)
    /\ proc' = [proc EXCEPT ![p] = Free]
    /\ UNCHANGED <<timings, procs, pc, child, reply, managed, reaper>>

\* Mutant: the guard does not take the pid out of the set.
ReturnsKeepingPid(h, answer) ==
    /\ pc' = [pc EXCEPT ![h] = "replied"]
    /\ reply' = [reply EXCEPT ![h] = answer]
    /\ UNCHANGED managed

\* The handler's future ends and drops the guard.
Returns(h, answer) ==
    /\ pc' = [pc EXCEPT ![h] = "replied"]
    /\ reply' = [reply EXCEPT ![h] = answer]
    /\ managed' = managed \ {child[h].pid}

\* try_join: the status is there and both pipes are at their end.
Collect(h) ==
    /\ pc[h] = "waiting" /\ exited[h]
    /\ \A p \in Pids : proc[p].pipe # h
    /\ Returns(h, "status")
    /\ UNCHANGED <<timings, proc, procs, child, exited, reaper, stolen>>

\* Waiting for a pid that is no child of PID 1 (ECHILD), or a pipe error.
WaitFails(h) ==
    /\ pc[h] = "waiting" /\ ~exited[h]
    /\ LET p == child[h].pid IN proc[p].state = "free" \/ proc[p].parent # Agent
    /\ Returns(h, "io error")
    /\ UNCHANGED <<timings, proc, procs, child, exited, reaper, stolen>>

\* Mutant: the deadline covers the wait for the child but not the reads.
TimeoutOfWait(h) ==
    /\ pc[h] = "waiting" /\ ~exited[h]
    /\ Returns(h, "deadline")
    /\ proc' = IF proc[child[h].pid].state = "running" THEN AfterExit(child[h].pid) ELSE proc
    /\ UNCHANGED <<timings, procs, child, exited, reaper, stolen>>

\* COMMAND_TIMEOUT: whatever has the pid now is killed.
Timeout(h) ==
    /\ pc[h] = "waiting"
    /\ Returns(h, "deadline")
    /\ proc' = IF proc[child[h].pid].state = "running" THEN AfterExit(child[h].pid) ELSE proc
    /\ UNCHANGED <<timings, procs, child, exited, reaper, stolen>>

\* The client goes away and the server drops the handler; the command runs on.
Cancel(h) ==
    /\ pc[h] = "waiting"
    /\ Returns(h, "cancelled")
    /\ UNCHANGED <<timings, proc, procs, child, exited, reaper, stolen>>

(***************************************************************************)
(* The reaper.                                                             *)
(***************************************************************************)
\* waitid(P_ALL, WNOWAIT): some zombie child of PID 1.
ReaperPeek(p) ==
    /\ reaper = Asleep
    /\ proc[p].state = "zombie"
    /\ reaper' = [at |-> "check", pid |-> p]
    /\ UNCHANGED <<timings, proc, procs, handlerVars, managed, stolen>>

\* Mutant: the managed pids are not spared.
ReaperTakesAll ==
    /\ reaper.at = "check"
    /\ reaper' = [reaper EXCEPT !.at = "reap"]
    /\ UNCHANGED <<timings, proc, procs, handlerVars, managed, stolen>>

\* A managed pid ends this round of the reaper.
ReaperCheck ==
    /\ reaper.at = "check"
    /\ reaper' = IF reaper.pid \in managed THEN Asleep ELSE [reaper EXCEPT !.at = "reap"]
    /\ UNCHANGED <<timings, proc, procs, handlerVars, managed, stolen>>

\* waitpid(pid, WNOHANG), of whatever has the pid now; then look again.
ReaperReap ==
    LET p == reaper.pid IN
    /\ reaper.at = "reap"
    /\ IF proc[p].state = "zombie"
       THEN proc' = [proc EXCEPT ![p] = Free] /\ stolen' = stolen \cup StolenBy(p, None)
       ELSE UNCHANGED <<proc, stolen>>
    /\ reaper' = Asleep
    /\ UNCHANGED <<timings, procs, handlerVars, managed>>

Zombies == {p \in Pids : proc[p].state = "zombie"}

\* Every call has been answered and no zombie is left.
Exhausted ==
    /\ \A h \in Handlers : pc[h] = "replied"
    /\ Zombies = {} /\ reaper = Asleep
    /\ UNCHANGED vars

HandlerStep(h) ==
    \/ Refuse(h) \/ Register(h) \/ WaitReturns(h) \/ Collect(h) \/ WaitFails(h)
    \/ Timeout(h) \/ Cancel(h)
    \/ \E p \in Pids : Spawn(h, p)

Next ==
    \/ \E h \in Handlers : HandlerStep(h)
    \/ \E p \in Pids : Exit(p) \/ ReaperPeek(p) \/ \E q \in Pids : Fork(p, q)
    \/ ReaperCheck \/ ReaperReap
    \/ Exhausted

Spec == Init /\ [][Next]_vars

\* The handlers' tasks and timers run, tokio looks for its children when a
\* SIGCHLD arrives, and the reaper wakes every second and, round after round,
\* comes to every zombie the handlers leave it.  Commands need not exit.
FairSpec ==
    /\ Spec
    /\ \A h \in Handlers :
           WF_vars(Register(h)) /\ WF_vars(WaitReturns(h)) /\ WF_vars(Collect(h)) /\ WF_vars(Timeout(h))
    /\ \A p \in Pids : SF_vars(ReaperPeek(p))
    /\ WF_vars(ReaperCheck) /\ WF_vars(ReaperReap)

(***************************************************************************)
(* Properties.                                                             *)
(***************************************************************************)
\* "The orphan reaper must NOT call waitpid() on these - doing so steals the
\* zombie" (agent_core.rs:20-21): unless the guest has one of the two timings,
\* nobody but a command's own handler consumes its exit status while the
\* handler waits for it, through timeouts, cancelled calls and forks.
ManagedStatusNotStolen == timings = {} => stolen = {}

\* "wedging the handler permanently" (agent_core.rs:229) does not happen: a
\* call that has spawned its command is answered, also when a process the
\* command left behind keeps the pipes open for ever.
EveryCommandAnswered ==
    \A h \in Handlers : (pc[h] = "spawned") ~> (pc[h] = "replied")

\* "We must periodically reap them to prevent zombie accumulation"
\* (agent_core.rs:494): every zombie is waited for in the end, orphans and
\* the commands of cancelled calls included, also when an orphan has the pid
\* of a command that is still registered.
ZombiesReaped ==
    \A p \in Pids, g \in 1..MaxProcs :
        (proc[p].state = "zombie" /\ proc[p].gen = g) ~> (proc[p].gen # g)

=============================================================================
