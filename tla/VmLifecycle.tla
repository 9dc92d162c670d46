----------------------------- MODULE VmLifecycle -----------------------------
(***************************************************************************)
(* The VM lifecycle of garden-daemon: the gRPC and HTTP boot and stop      *)
(* handlers and the vSock connects of the proxy threads (main.rs), each on *)
(* a thread of its own; the Swift engine behind the FFI                    *)
(* (Virtualizer.swift), whose blocks run one at a time on the main queue;  *)
(* and the callbacks of Virtualization.framework, which arrive whenever    *)
(* the framework likes, also after the handler has given up waiting.       *)
(*                                                                         *)
(* A request is one call of a handler and is used once.  A request that    *)
(* starts a VM gives that VM its name.                                     *)
(***************************************************************************)
EXTENDS Naturals, Sequences, FiniteSets

CONSTANTS
    Requests,      \* handler invocations (a bound: each happens once)
    Kernels,       \* kernel paths a client may ask for
    Policies,      \* policy documents a client may send
    DefaultKernel, \* the path used for an empty kernel_path
    None,          \* no kernel, no policy, no VM, no configuration
    Garbled,       \* a policy file that does not parse
    Calls,         \* the calls clients make in this instance
    Faults,        \* what the environment may do wrong in this instance
    MaxInFlight    \* boots and stops in progress at once (1 = one client)

AllCalls ==
    [op : {"grpc_boot", "http_boot", "stop", "connect"},
     kernel : Kernels \cup {None}, policy : Policies \cup {None}]

AllFaults ==
    {"policy_io", "configure", "start", "stop", "connect",
     "start_timeout", "stop_timeout", "connect_timeout", "guest_stop"}

ASSUME LifecycleAssumption ==
    /\ DefaultKernel \in Kernels
    /\ None \notin Requests \cup Kernels \cup Policies
    /\ Garbled \notin Policies \cup {None}
    /\ Calls \subseteq AllCalls
    /\ Faults \subseteq AllFaults
    /\ MaxInFlight \in Nat \ {0}

VARIABLES
    running,          \* VmState.running
    bootTime,         \* VmState.boot_time is Some
    kernelPath,       \* VmState.kernel_path
    policyFile,       \* ~/GardenBox/.garden-policy.json
    config,           \* GardenVirtualizer.config, by its kernel
    machine,          \* GardenVirtualizer.machine
    vsockConnections, \* GardenVirtualizer.vsockConnections, by request
    mainQueue,        \* blocks queued on DispatchQueue.main, by request
    vm,               \* the state of each VM in the framework
    vmKernel,         \* the kernel each VM was created with
    guestPolicy,      \* the policy each guest loaded
    pc, call, reply,  \* where each handler is, its arguments, its answer
    captured,         \* the config a start block closed over
    target,           \* the machine a stop or connect block closed over
    block             \* the main-queue block of a request, and its semaphore

stateVars  == <<running, bootTime, kernelPath>>
engineVars == <<config, machine, vsockConnections, mainQueue>>
vmVars     == <<vm, vmKernel, guestPolicy>>
reqVars    == <<pc, call, reply, captured, target, block>>
vars       == <<stateVars, policyFile, engineVars, vmVars, reqVars>>

IsBoot(c) == c.op \in {"grpc_boot", "http_boot"}

\* boot_vm substitutes the default for an empty path; the HTTP handler
\* always uses the default.
KernelOf(c) ==
    IF c.op = "http_boot" \/ c.kernel = None THEN DefaultKernel ELSE c.kernel

\* The boots and stops in progress.  Connects come from the daemon's own
\* proxy and telemetry threads, beside any of these.
InFlight == {r \in Requests : pc[r] \notin {"idle", "wait_connect", "done"}}

Signalled(r) == block[r] \in {"ok", "err"}

Answer(r, a) ==
    /\ pc' = [pc EXCEPT ![r] = "done"]
    /\ reply' = [reply EXCEPT ![r] = a]

Goto(r, label) ==
    /\ pc' = [pc EXCEPT ![r] = label]
    /\ UNCHANGED reply

\* DispatchQueue.main.async
Dispatch(r) ==
    /\ mainQueue' = Append(mainQueue, r)
    /\ block' = [block EXCEPT ![r] = "queued"]

\* semaphore.signal(), with the result the block left for the handler
Signal(r, result) == block' = [block EXCEPT ![r] = result]

Init ==
    /\ running = FALSE
    /\ bootTime = FALSE
    /\ kernelPath = None
    /\ policyFile \in Policies \cup {None, Garbled}
    /\ config = None
    /\ machine = None
    /\ vsockConnections = {}
    /\ mainQueue = <<>>
    /\ vm = [r \in Requests |-> "none"]
    /\ vmKernel = [r \in Requests |-> None]
    /\ guestPolicy = [r \in Requests |-> "unread"]
    /\ pc = [r \in Requests |-> "idle"]
    /\ call = [r \in Requests |-> [op |-> "stop", kernel |-> None, policy |-> None]]
    /\ reply = [r \in Requests |-> "none"]
    /\ captured = [r \in Requests |-> None]
    /\ target = [r \in Requests |-> None]
    /\ block = [r \in Requests |-> "none"]

(***************************************************************************)
(* The handlers, one action per access to state another thread can see.   *)
(***************************************************************************)

\* Mutant: the handler forgets to refuse a boot while a VM is running.
BootUnchecked(r, c) ==
    /\ pc[r] = "idle" /\ IsBoot(c)
    /\ Cardinality(InFlight) < MaxInFlight
    /\ call' = [call EXCEPT ![r] = c]
    /\ Goto(r, IF c.op = "grpc_boot" THEN "policy" ELSE "configure")
    /\ UNCHANGED <<stateVars, policyFile, engineVars, vmVars, captured, target, block>>

\* A handler begins; its first access to shared state is the load of
\* `running`.
BootCheck(r, c) ==
    /\ pc[r] = "idle" /\ IsBoot(c)
    /\ Cardinality(InFlight) < MaxInFlight
    /\ call' = [call EXCEPT ![r] = c]
    /\ IF running
       THEN Answer(r, "already_running")
       ELSE Goto(r, IF c.op = "grpc_boot" THEN "policy" ELSE "configure")
    /\ UNCHANGED <<stateVars, policyFile, engineVars, vmVars, captured, target, block>>

\* Mutant: `running` is cleared before the VM is asked to stop.
StopCheckClearing(r, c) ==
    /\ pc[r] = "idle" /\ c.op = "stop"
    /\ Cardinality(InFlight) < MaxInFlight
    /\ call' = [call EXCEPT ![r] = c]
    /\ running' = FALSE
    /\ IF running THEN Goto(r, "stop") ELSE Answer(r, "not_running")
    /\ UNCHANGED <<bootTime, kernelPath, policyFile, engineVars, vmVars, captured, target, block>>

StopCheck(r, c) ==
    /\ pc[r] = "idle" /\ c.op = "stop"
    /\ Cardinality(InFlight) < MaxInFlight
    /\ call' = [call EXCEPT ![r] = c]
    /\ IF running THEN Goto(r, "stop") ELSE Answer(r, "not_running")
    /\ UNCHANGED <<stateVars, policyFile, engineVars, vmVars, captured, target, block>>

\* stopVM() on a handler thread: the block is dispatched some time after the
\* load of `running`.
DispatchStop(r) ==
    /\ pc[r] = "stop"
    /\ Dispatch(r) /\ Goto(r, "wait_stop")
    /\ UNCHANGED <<stateVars, policyFile, config, machine, vsockConnections,
                   vmVars, call, captured, target>>

ConnectVsock(r, c) ==
    /\ pc[r] = "idle" /\ c.op = "connect"
    /\ call' = [call EXCEPT ![r] = c]
    /\ Dispatch(r) /\ Goto(r, "wait_connect")
    /\ UNCHANGED <<stateVars, policyFile, config, machine, vsockConnections,
                   vmVars, captured, target>>

\* fs::write truncates before it writes, so a failed write leaves the old
\* file or a torn one; a failed remove leaves the old file.  Both are
\* ignored (the write with a warning).
WritePolicy(r) ==
    /\ pc[r] = "policy"
    /\ \/ policyFile' = call[r].policy
       \/ /\ "policy_io" \in Faults
          /\ policyFile' \in {policyFile}
                 \cup (IF call[r].policy = None THEN {} ELSE {Garbled})
    /\ Goto(r, "configure")
    /\ UNCHANGED <<stateVars, engineVars, vmVars, call, captured, target, block>>

\* config is stored only once validate() has accepted it.
Configure(r) ==
    /\ pc[r] = "configure"
    /\ \/ /\ config' = KernelOf(call[r])
          /\ Goto(r, "start")
       \/ /\ "configure" \in Faults
          /\ Answer(r, "configure_failed")
          /\ UNCHANGED config
    /\ UNCHANGED <<stateVars, policyFile, machine, vsockConnections, mainQueue,
                   vmVars, call, captured, target, block>>

\* start() on a handler thread: the guard on config, then the block.
Start(r) ==
    /\ pc[r] = "start"
    /\ IF config = None
       THEN Answer(r, "start_failed") /\ UNCHANGED <<mainQueue, block, captured>>
       ELSE /\ captured' = [captured EXCEPT ![r] = config]
            /\ Dispatch(r) /\ Goto(r, "wait_start")
    /\ UNCHANGED <<stateVars, policyFile, config, machine, vsockConnections,
                   vmVars, call, target>>

\* Mutant: the start error is not looked at.
StartReturnsIgnoringError(r) ==
    /\ pc[r] = "wait_start" /\ Signalled(r)
    /\ Goto(r, "set_running")
    /\ UNCHANGED <<stateVars, policyFile, engineVars, vmVars, call, captured, target, block>>

\* semaphore.wait returned in time: Ok goes on, Err is answered.
StartReturns(r) ==
    /\ pc[r] = "wait_start" /\ Signalled(r)
    /\ IF block[r] = "ok" THEN Goto(r, "set_running") ELSE Answer(r, "start_failed")
    /\ UNCHANGED <<stateVars, policyFile, engineVars, vmVars, call, captured, target, block>>

\* Mutant: the stop error is not looked at.
StopReturnsIgnoringError(r) ==
    /\ pc[r] = "wait_stop" /\ Signalled(r)
    /\ Goto(r, "clear_running")
    /\ UNCHANGED <<stateVars, policyFile, engineVars, vmVars, call, captured, target, block>>

StopReturns(r) ==
    /\ pc[r] = "wait_stop" /\ Signalled(r)
    /\ IF block[r] = "ok" THEN Goto(r, "clear_running") ELSE Answer(r, "stop_failed")
    /\ UNCHANGED <<stateVars, policyFile, engineVars, vmVars, call, captured, target, block>>

ConnectReturns(r) ==
    /\ pc[r] = "wait_connect" /\ Signalled(r)
    /\ Answer(r, IF block[r] = "ok" THEN "ok" ELSE "connect_failed")
    /\ UNCHANGED <<stateVars, policyFile, engineVars, vmVars, call, captured, target, block>>

\* The 30 s, 10 s and 10 s semaphore timeouts.  Nothing is cancelled: the
\* block and its completion handler still run.
TimesOut(r) ==
    /\ \/ pc[r] = "wait_start" /\ "start_timeout" \in Faults
       \/ pc[r] = "wait_stop" /\ "stop_timeout" \in Faults
       \/ pc[r] = "wait_connect" /\ "connect_timeout" \in Faults
    /\ ~Signalled(r)
    /\ Answer(r, "timed_out")
    /\ UNCHANGED <<stateVars, policyFile, engineVars, vmVars, call, captured, target, block>>

SetRunning(r) ==
    /\ pc[r] = "set_running"
    /\ running' = TRUE
    /\ Goto(r, "set_boot_time")
    /\ UNCHANGED <<bootTime, kernelPath, policyFile, engineVars, vmVars,
                   call, captured, target, block>>

SetBootTime(r) ==
    /\ pc[r] = "set_boot_time"
    /\ bootTime' = TRUE
    /\ Goto(r, "set_kernel_path")
    /\ UNCHANGED <<running, kernelPath, policyFile, engineVars, vmVars,
                   call, captured, target, block>>

SetKernelPath(r) ==
    /\ pc[r] = "set_kernel_path"
    /\ kernelPath' = KernelOf(call[r])
    /\ Answer(r, "ok")
    /\ UNCHANGED <<running, bootTime, policyFile, engineVars, vmVars,
                   call, captured, target, block>>

ClearRunning(r) ==
    /\ pc[r] = "clear_running"
    /\ running' = FALSE
    /\ Goto(r, "clear_boot_time")
    /\ UNCHANGED <<bootTime, kernelPath, policyFile, engineVars, vmVars,
                   call, captured, target, block>>

ClearBootTime(r) ==
    /\ pc[r] = "clear_boot_time"
    /\ bootTime' = FALSE
    /\ Answer(r, "ok")
    /\ UNCHANGED <<running, kernelPath, policyFile, engineVars, vmVars,
                   call, captured, target, block>>

(***************************************************************************)
(* The main queue: one block at a time, in the order they were dispatched. *)
(***************************************************************************)

\* Replaces whatever machine was there before.
MainStart ==
    /\ mainQueue # <<>>
    /\ LET r == Head(mainQueue) IN
       /\ IsBoot(call[r])
       /\ machine' = r
       /\ vm' = [vm EXCEPT ![r] = "starting"]
       /\ vmKernel' = [vmKernel EXCEPT ![r] = captured[r]]
       /\ Signal(r, "in_flight")
    /\ mainQueue' = Tail(mainQueue)
    /\ UNCHANGED <<stateVars, policyFile, config, vsockConnections,
                   guestPolicy, pc, call, reply, captured, target>>

\* stopVM and connectToAgent: no machine is an error, else the framework is
\* asked about the machine that is current now.
MainUse(op) ==
    /\ mainQueue # <<>>
    /\ LET r == Head(mainQueue) IN
       /\ call[r].op = op
       /\ IF machine = None
          THEN Signal(r, "err") /\ UNCHANGED target
          ELSE /\ target' = [target EXCEPT ![r] = machine]
               /\ Signal(r, "in_flight")
    /\ mainQueue' = Tail(mainQueue)
    /\ UNCHANGED <<stateVars, policyFile, config, machine, vsockConnections,
                   vmVars, pc, call, reply, captured>>

(***************************************************************************)
(* Completion handlers, also delivered on the main queue.                  *)
(***************************************************************************)

StartSucceeds(r) ==
    /\ block[r] = "in_flight" /\ vm[r] = "starting"
    /\ vm' = [vm EXCEPT ![r] = "running"]
    /\ Signal(r, "ok")
    /\ UNCHANGED <<stateVars, policyFile, engineVars, vmKernel, guestPolicy,
                   pc, call, reply, captured, target>>

\* The failed machine stays in self.machine.
StartFails(r) ==
    /\ block[r] = "in_flight" /\ IsBoot(call[r])
    /\ \/ vm[r] = "starting" /\ "start" \in Faults
       \/ vm[r] = "destroyed"
    /\ vm' = [vm EXCEPT ![r] = "failed"]
    /\ Signal(r, "err")
    /\ UNCHANGED <<stateVars, policyFile, engineVars, vmKernel, guestPolicy,
                   pc, call, reply, captured, target>>

\* The framework stops the VM, and the task that awaited it clears self.machine
\* and the connections, whichever machine is current by then.
StopSucceeds(r) ==
    /\ block[r] = "in_flight" /\ call[r].op = "stop"
    /\ vm[target[r]] = "running"
    /\ vm' = [vm EXCEPT ![target[r]] = "stopped"]
    /\ machine' = None
    /\ vsockConnections' = {}
    /\ Signal(r, "ok")
    /\ UNCHANGED <<stateVars, policyFile, config, mainQueue, vmKernel,
                   guestPolicy, pc, call, reply, captured, target>>

\* The framework refuses to stop a VM that is not running.
StopFails(r) ==
    /\ block[r] = "in_flight" /\ call[r].op = "stop"
    /\ vm[target[r]] # "running" \/ "stop" \in Faults
    /\ Signal(r, "err")
    /\ UNCHANGED <<stateVars, policyFile, engineVars, vmVars,
                   pc, call, reply, captured, target>>

\* The connection is kept; the handler gets a dup of its descriptor, and -1
\* if the dup fails.
ConnectSucceeds(r) ==
    /\ block[r] = "in_flight" /\ call[r].op = "connect"
    /\ vm[target[r]] = "running"
    /\ vsockConnections' = vsockConnections \cup {r}
    /\ Signal(r, "ok") \/ ("connect" \in Faults /\ Signal(r, "err"))
    /\ UNCHANGED <<stateVars, policyFile, config, machine, mainQueue, vmVars,
                   pc, call, reply, captured, target>>

ConnectFails(r) ==
    /\ block[r] = "in_flight" /\ call[r].op = "connect"
    /\ vm[target[r]] # "running" \/ "connect" \in Faults
    /\ Signal(r, "err")
    /\ UNCHANGED <<stateVars, policyFile, engineVars, vmVars,
                   pc, call, reply, captured, target>>

(***************************************************************************)
(* The framework and the guest.                                            *)
(***************************************************************************)

\* The guest stops by itself (shutdown, panic).  The delegate methods only
\* print.
GuestDidStop(v) ==
    /\ "guest_stop" \in Faults
    /\ vm[v] = "running"
    /\ vm' = [vm EXCEPT ![v] = "stopped"]
    /\ UNCHANGED <<stateVars, policyFile, engineVars, vmKernel, guestPolicy, reqVars>>

\* Releasing the last reference to a VZVirtualMachine destroys the VM, some
\* time after self.machine is replaced; a stop in flight holds a reference.
ReleaseVm(v) ==
    /\ vm[v] \in {"starting", "running"} /\ machine # v
    /\ \A r \in Requests : ~(block[r] = "in_flight" /\ call[r].op = "stop" /\ target[r] = v)
    /\ vm' = [vm EXCEPT ![v] = "destroyed"]
    /\ UNCHANGED <<stateVars, policyFile, engineVars, vmKernel, guestPolicy, reqVars>>

\* The agent loads /workspace/.garden-policy.json once, some time after
\* boot; a missing or unreadable file means default_observe.
GuestLoadsPolicy(v) ==
    /\ vm[v] = "running" /\ guestPolicy[v] = "unread"
    /\ guestPolicy' = [guestPolicy EXCEPT ![v] =
           IF policyFile \in Policies THEN policyFile ELSE "default_observe"]
    /\ UNCHANGED <<stateVars, policyFile, engineVars, vm, vmKernel, reqVars>>

(***************************************************************************)
(* The specification.                                                      *)
(***************************************************************************)

\* The steps a handler thread takes by itself.
HandlerStep(r) ==
    \/ WritePolicy(r) \/ Configure(r) \/ Start(r) \/ DispatchStop(r)
    \/ StartReturns(r) \/ StopReturns(r) \/ ConnectReturns(r) \/ TimesOut(r)
    \/ SetRunning(r) \/ SetBootTime(r) \/ SetKernelPath(r)
    \/ ClearRunning(r) \/ ClearBootTime(r)

MainQueueStep == MainStart \/ MainUse("stop") \/ MainUse("connect")

Completion(r) ==
    \/ StartSucceeds(r) \/ StartFails(r)
    \/ StopSucceeds(r) \/ StopFails(r)
    \/ ConnectSucceeds(r) \/ ConnectFails(r)

\* Every request of the instance has been used and nothing is pending.
Exhausted ==
    /\ \A r \in Requests : pc[r] = "done" /\ block[r] \in {"none", "ok", "err"}
    /\ UNCHANGED vars

Next ==
    \/ \E r \in Requests, c \in Calls :
           BootCheck(r, c) \/ StopCheck(r, c) \/ ConnectVsock(r, c)
    \/ \E r \in Requests : HandlerStep(r) \/ Completion(r)
    \/ MainQueueStep
    \/ \E v \in Requests : GuestDidStop(v) \/ ReleaseVm(v) \/ GuestLoadsPolicy(v)
    \/ Exhausted

Spec == Init /\ [][Next]_vars

(***************************************************************************)
(* Properties of every interleaving.                                       *)
(***************************************************************************)

\* Every variable has its type.
TypeOK ==
    /\ running \in BOOLEAN /\ bootTime \in BOOLEAN
    /\ kernelPath \in Kernels \cup {None}
    /\ policyFile \in Policies \cup {None, Garbled}
    /\ config \in Kernels \cup {None}
    /\ machine \in Requests \cup {None}
    /\ vsockConnections \in SUBSET Requests
    /\ mainQueue \in Seq(Requests)
    /\ vm \in [Requests -> {"none", "starting", "running", "failed",
                            "stopped", "destroyed"}]
    /\ vmKernel \in [Requests -> Kernels \cup {None}]
    /\ guestPolicy \in [Requests -> Policies \cup {"unread", "default_observe"}]
    /\ pc \in [Requests -> {"idle", "policy", "configure", "start", "wait_start",
                            "stop", "wait_stop", "wait_connect", "set_running",
                            "set_boot_time", "set_kernel_path", "clear_running",
                            "clear_boot_time", "done"}]
    /\ call \in [Requests -> AllCalls]
    /\ reply \in [Requests -> {"none", "ok", "already_running", "not_running",
                               "configure_failed", "start_failed", "stop_failed",
                               "connect_failed", "timed_out"}]
    /\ captured \in [Requests -> Kernels \cup {None}]
    /\ target \in [Requests -> Requests \cup {None}]
    /\ block \in [Requests -> {"none", "queued", "in_flight", "ok", "err"}]

\* A handler that answers success tells the truth about the VM it acted on,
\* whatever else runs and however late callbacks arrive: a boot's own VM did
\* start, and the VM a stop was aimed at is stopped.
HonestReplies ==
    \A r \in Requests : reply[r] = "ok" =>
        /\ IsBoot(call[r]) => vm[r] \in {"running", "stopped", "destroyed"}
        /\ call[r].op = "stop" => target[r] # None /\ vm[target[r]] = "stopped"

\* `running` is only ever true after a start completion reported success to
\* the handler that set it: a timed out or failed start never sets it.
RunningHasCause ==
    running => \E r \in Requests :
        /\ IsBoot(call[r]) /\ block[r] = "ok"
        /\ pc[r] \in {"set_boot_time", "set_kernel_path", "done"}
        /\ reply[r] \in {"none", "ok"}

\* The `guard let config` of start() never trips: boot handlers only reach
\* start after a configure, and no one ever clears the configuration.
StartIsConfigured ==
    \A r \in Requests : pc[r] \in {"start", "wait_start"} => config # None

(***************************************************************************)
(* Predicates MCVmLifecycle checks where one client calls at a time.       *)
(***************************************************************************)

Quiet == InFlight = {}

Live(v) == vm[v] \in {"starting", "running"}

\* Between calls, what VmState says agrees with what the engine has: the
\* VM is running exactly when `running` says so, boot_time is set exactly
\* then, and kernel_path names the kernel it was started with.
Coherent ==
    Quiet =>
        /\ running <=> (machine # None /\ vm[machine] = "running")
        /\ bootTime = running
        /\ running => kernelPath = vmKernel[machine]

\* Every vSock connection the engine keeps alive is one to the current
\* machine: a stop drops them all, and no connect that was under way when
\* the machine went away adds one afterwards.
ConnectionsAreCurrent ==
    \A r \in vsockConnections : target[r] = machine

\* No two VMs are ever up together.
AtMostOneLive ==
    \A v, w \in Requests : Live(v) /\ Live(w) => v = w

\* The host "can stop the VM via DaemonService.StopVm"
\* (docs/ebpf-security-design.md:252): where no start outlives its timeout, a
\* VM that is up between calls is one StopVm will not refuse, also after
\* stops that failed or timed out.
LiveVmCanBeStopped ==
    Quiet /\ machine # None /\ vm[machine] = "running" => running

(***************************************************************************)
(* What the repository says of the lifecycle, and the code does not keep.  *)
(***************************************************************************)

\* When the VM stops, the servers "can accept a subsequent `garden boot`"
\* (garden-daemon/src/main.rs:283-284): between calls, with no VM up, boot is
\* not refused.
BootableAfterVmStops ==
    Quiet /\ (\A v \in Requests : ~Live(v)) => ~running

\* "Empty = guest uses default-observe" (daemon.proto:35), and boot must
\* "clear stale policy from prior boot" (garden-daemon/src/main.rs:77): a
\* guest booted without a policy loads default-observe.
NoPolicyMeansObserve ==
    \A r \in Requests :
        (guestPolicy[r] # "unread" /\ (call[r].op = "http_boot" \/ call[r].policy = None))
            => guestPolicy[r] = "default_observe"

=============================================================================
