----------------------------- MODULE HostDaemon -----------------------------
(***************************************************************************)
(* garden-daemon as one of its clients sees it: a process that accepts     *)
(* connections on the port this client uses or does not, and whether its   *)
(* VM runs.  What a boot and a stop promise is VmService's; here is what   *)
(* the other programs on the host do to it, and what it does for callers   *)
(* that have gone.                                                         *)
(***************************************************************************)
EXTENDS Naturals, FiniteSets

CONSTANT MaxChanges \* how often others change it (a bound)

ASSUME HostDaemonAssumption == MaxChanges \in Nat

VARIABLES
    up,      \* the client's port is bound
    gen,     \* which daemon process this is
    vm,      \* state.running
    late,    \* boots and stops it is at, for callers that no longer wait (one of each)
    changes

daemonVars == <<up, gen, vm, late, changes>>

DaemonInit ==
    /\ up \in BOOLEAN /\ vm \in BOOLEAN /\ (vm => up)
    /\ gen = 1 /\ late = {} /\ changes = 0

Changes == changes < MaxChanges /\ changes' = changes + 1

\* `garden start`.  The four ports are bound at different times, so a VM may have
\* been booted through another one before this client's is.
DaemonStarts ==
    Changes /\ ~up /\ up' = TRUE /\ gen' = gen + 1 /\ vm' \in BOOLEAN /\ UNCHANGED late

\* `garden down` or a crash; the VM and the handlers go with the process.
DaemonEnds == Changes /\ up /\ up' = FALSE /\ vm' = FALSE /\ late' = {} /\ UNCHANGED gen

\* A boot that is refused, or fails, leaves things as they are, and so does a stop.
Boots(reply) == IF reply = "ok" THEN ~vm /\ vm' = TRUE ELSE vm' = vm
Stops(reply) == IF reply = "ok" THEN vm /\ vm' = FALSE ELSE vm' = vm

\* `garden boot` and `garden stop` in a terminal
TerminalBoots == Changes /\ up /\ Boots("ok") /\ UNCHANGED <<up, gen, late>>
TerminalStops == Changes /\ up /\ Stops("ok") /\ UNCHANGED <<up, gen, late>>

\* A handler does not await anything in between: it runs to its end though the
\* caller has closed its connection.
FinishesLate(op) ==
    /\ up /\ op \in late
    /\ late' = late \ {op}
    /\ \E reply \in {"ok", "refused"} : IF op = "boot" THEN Boots(reply) ELSE Stops(reply)
    /\ UNCHANGED <<up, gen, changes>>

Others ==
    \/ DaemonStarts \/ DaemonEnds \/ TerminalBoots \/ TerminalStops
    \/ \E op \in {"boot", "stop"} : FinishesLate(op)

=============================================================================
