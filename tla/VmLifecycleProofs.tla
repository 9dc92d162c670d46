-------------------------- MODULE VmLifecycleProofs --------------------------
(***************************************************************************)
(* Theorems about VmLifecycle, for every set of requests, kernels and      *)
(* policies, every set of faults and any number of calls at once; and      *)
(* about VmModes, where the calls of one client come one after the other.  *)
(***************************************************************************)
EXTENDS VmModes, TLAPS

(***************************************************************************)
(* The inductive invariant.                                                *)
(***************************************************************************)

\* Where a handler is tells which call it serves, whether its block was
\* dispatched and what its semaphore said.
HandlerInv ==
    \A r \in Requests :
        /\ pc[r] \in {"idle", "policy", "configure", "start", "stop"} => block[r] = "none"
        /\ pc[r] \in {"policy", "configure", "start", "wait_start"} => IsBoot(call[r])
        /\ pc[r] \in {"set_running", "set_boot_time", "set_kernel_path"}
               => IsBoot(call[r]) /\ block[r] = "ok"
        /\ pc[r] \in {"stop", "wait_stop"} => call[r].op = "stop"
        /\ pc[r] = "wait_connect" => call[r].op = "connect"
        /\ pc[r] \in {"clear_running", "clear_boot_time"}
               => call[r].op = "stop" /\ block[r] = "ok"
        /\ pc[r] # "done" => reply[r] = "none"
        /\ reply[r] = "ok" => block[r] = "ok"

\* A block is on the main queue at most once, and only before it has run.
QueueInv ==
    /\ \A i, j \in 1..Len(mainQueue) : mainQueue[i] = mainQueue[j] => i = j
    /\ \A i \in 1..Len(mainQueue) : block[mainQueue[i]] = "queued"

\* A VM exists only once its boot's block has run, and did start if its
\* completion handler said so.
VmInv ==
    \A r \in Requests :
        /\ block[r] \in {"none", "queued"} => vm[r] = "none"
        /\ vm[r] # "none" => IsBoot(call[r])
        /\ IsBoot(call[r]) /\ block[r] = "ok"
               => vm[r] \in {"running", "stopped", "destroyed"}

\* A stop that reached the framework has a target, and a stop that succeeded
\* left it stopped for good.
StopInv ==
    \A r \in Requests : call[r].op = "stop" =>
        /\ block[r] = "in_flight" => target[r] # None
        /\ block[r] = "ok" => target[r] # None /\ vm[target[r]] = "stopped"

IInv ==
    /\ TypeOK /\ HandlerInv /\ QueueInv /\ VmInv /\ StopInv
    /\ RunningHasCause /\ StartIsConfigured

(***************************************************************************)
(* Each part is preserved by every step.                                   *)
(***************************************************************************)

\* The kernel a boot uses is always one of the kernels, never "none": the
\* handlers substitute the default for an empty path.
LEMMA KernelOfType ==
    \A c \in AllCalls : KernelOf(c) \in Kernels
  BY LifecycleAssumption, Zenon DEF AllCalls, KernelOf

\* A call that joins the main queue.
LEMMA QueuedCalls ==
    ASSUME NEW S, NEW q \in Seq(S), NEW r \in S
    PROVE  Append(q, r) \in Seq(S)
  OBVIOUS

\* A call that leaves it.
LEMMA TakenCalls ==
    ASSUME NEW S, NEW q \in Seq(S), q # <<>>
    PROVE  /\ Head(q) \in S /\ Tail(q) \in Seq(S)
           /\ Len(Tail(q)) = Len(q) - 1
           /\ \A i \in 1..Len(Tail(q)) : Tail(q)[i] = q[i + 1]
  OBVIOUS

\* What the check of a stop changes: its own call, and nothing of the engine.
LEMMA StopCheckMoves ==
    ASSUME TypeOK, NEW r \in Requests, NEW c \in Calls, StopCheck(r, c)
    PROVE  /\ pc[r] = "idle" /\ call'[r].op = "stop"
           /\ (running /\ pc'[r] = "stop") \/ (~running /\ pc'[r] = "done")
           /\ \A s \in Requests : s # r => pc'[s] = pc[s] /\ call'[s] = call[s] /\ reply'[s] = reply[s]
           /\ UNCHANGED <<running, bootTime, kernelPath, config, machine, vsockConnections, mainQueue,
                          vm, vmKernel, captured, target, block>>
<1>1. /\ pc[r] = "idle" /\ c.op = "stop" /\ call' = [call EXCEPT ![r] = c]
      /\ \/ running /\ pc' = [pc EXCEPT ![r] = "stop"] /\ reply' = reply
         \/ /\ ~running /\ pc' = [pc EXCEPT ![r] = "done"]
            /\ reply' = [reply EXCEPT ![r] = "not_running"]
      /\ UNCHANGED <<running, bootTime, kernelPath, config, machine, vsockConnections, mainQueue,
                     vm, vmKernel, captured, target, block>>
  BY Zenon DEF StopCheck, Goto, Answer, stateVars, engineVars, vmVars
<1>2. DOMAIN pc = Requests /\ DOMAIN call = Requests /\ DOMAIN reply = Requests
  BY Zenon DEF TypeOK
<1>. QED
  BY <1>1, <1>2, Zenon

\* What the dispatch of its block changes.
LEMMA DispatchStopMoves ==
    ASSUME TypeOK, NEW r \in Requests, DispatchStop(r)
    PROVE  /\ pc[r] = "stop" /\ pc'[r] = "wait_stop" /\ block'[r] = "queued"
           /\ mainQueue' = Append(mainQueue, r)
           /\ \A s \in Requests : s # r => pc'[s] = pc[s] /\ block'[s] = block[s]
           /\ UNCHANGED <<running, bootTime, kernelPath, config, machine, vsockConnections,
                          vm, vmKernel, call, reply, captured, target>>
<1>1. /\ pc[r] = "stop" /\ pc' = [pc EXCEPT ![r] = "wait_stop"]
      /\ block' = [block EXCEPT ![r] = "queued"] /\ mainQueue' = Append(mainQueue, r)
      /\ UNCHANGED <<running, bootTime, kernelPath, config, machine, vsockConnections,
                     vm, vmKernel, call, reply, captured, target>>
  BY Zenon DEF DispatchStop, Dispatch, Goto, stateVars, vmVars
<1>2. DOMAIN pc = Requests /\ DOMAIN block = Requests
  BY Zenon DEF TypeOK
<1>. QED
  BY <1>1, <1>2, Zenon

\* What the start of a configured VM changes.
LEMMA StartMoves ==
    ASSUME TypeOK, NEW r \in Requests, Start(r)
    PROVE  /\ pc[r] = "start"
           /\ \/ pc'[r] = "done" /\ block'[r] = block[r]
              \/ pc'[r] = "wait_start" /\ block'[r] = "queued"
           /\ \A s \in Requests : s # r => pc'[s] = pc[s] /\ block'[s] = block[s] /\ reply'[s] = reply[s]
           /\ UNCHANGED <<running, bootTime, kernelPath, machine, vsockConnections, vm, vmKernel, call, target>>
<1>1. /\ pc[r] = "start"
      /\ \/ /\ pc' = [pc EXCEPT ![r] = "done"] /\ block' = block
            /\ reply' = [reply EXCEPT ![r] = "start_failed"]
         \/ /\ pc' = [pc EXCEPT ![r] = "wait_start"] /\ block' = [block EXCEPT ![r] = "queued"]
            /\ reply' = reply
      /\ UNCHANGED <<running, bootTime, kernelPath, machine, vsockConnections, vm, vmKernel, call, target>>
  BY Zenon DEF Start, Dispatch, Goto, Answer, stateVars, vmVars
<1>2. DOMAIN pc = Requests /\ DOMAIN block = Requests /\ DOMAIN reply = Requests
  BY Zenon DEF TypeOK
<1>. QED
  BY <1>1, <1>2, Zenon

\* Every step of the handlers, the main queue and the framework keeps the
\* types.
LEMMA TypeStep ==
    ASSUME TypeOK, [Next]_vars
    PROVE  TypeOK'
<1>. USE DEF vars, stateVars, engineVars, vmVars, reqVars
<1>1. CASE \E r \in Requests, c \in Calls : BootCheck(r, c)
  <2>1. PICK r \in Requests, c \in Calls : BootCheck(r, c)
    BY <1>1, Zenon
  <2>2. call' \in [Requests -> AllCalls]
    BY <2>1, LifecycleAssumption, Zenon DEF BootCheck, TypeOK
  <2>3. \/ pc' = [pc EXCEPT ![r] = "done"] /\ reply' = [reply EXCEPT ![r] = "already_running"]
        \/ /\ reply' = reply
           /\ pc' = [pc EXCEPT ![r] = "policy"] \/ pc' = [pc EXCEPT ![r] = "configure"]
    BY <2>1, Zenon DEF BootCheck, Goto, Answer
  <2>4. UNCHANGED <<running, bootTime, kernelPath, policyFile, config, machine, vsockConnections,
                    mainQueue, vm, vmKernel, guestPolicy, captured, target, block>>
    BY <2>1, Zenon DEF BootCheck
  <2>. QED
    BY <2>2, <2>3, <2>4, Zenon DEF TypeOK
<1>2. CASE \E r \in Requests, c \in Calls : StopCheck(r, c)
  <2>1. PICK r \in Requests, c \in Calls : StopCheck(r, c)
    BY <1>2, Zenon
  <2>2. call' \in [Requests -> AllCalls]
    BY <2>1, LifecycleAssumption, Zenon DEF StopCheck, TypeOK
  <2>3. \/ pc' = [pc EXCEPT ![r] = "stop"] /\ reply' = reply
        \/ pc' = [pc EXCEPT ![r] = "done"] /\ reply' = [reply EXCEPT ![r] = "not_running"]
    BY <2>1, Zenon DEF StopCheck, Goto, Answer
  <2>4. UNCHANGED <<running, bootTime, kernelPath, policyFile, config, machine, vsockConnections,
                    mainQueue, vm, vmKernel, guestPolicy, captured, target, block>>
    BY <2>1, Zenon DEF StopCheck
  <2>. QED
    BY <2>2, <2>3, <2>4, Zenon DEF TypeOK
<1>2a. CASE \E r \in Requests : DispatchStop(r)
  <2>1. PICK r \in Requests : DispatchStop(r)
    BY <1>2a, Zenon
  <2>2. mainQueue' \in Seq(Requests)
    <3>1. mainQueue \in Seq(Requests)
      BY Zenon DEF TypeOK
    <3>2. mainQueue' = Append(mainQueue, r)
      BY <2>1, DispatchStopMoves, Zenon
    <3>. QED
      BY <3>1, <3>2, QueuedCalls, Zenon
  <2>3. pc' = [pc EXCEPT ![r] = "wait_stop"] /\ block' = [block EXCEPT ![r] = "queued"]
    BY <2>1, Zenon DEF DispatchStop, Dispatch, Goto
  <2>4. UNCHANGED <<running, bootTime, kernelPath, policyFile, config, machine, vsockConnections,
                    vm, vmKernel, guestPolicy, call, reply, captured, target>>
    BY <2>1, Zenon DEF DispatchStop, Goto
  <2>. QED
    BY <2>2, <2>3, <2>4, Zenon DEF TypeOK
<1>3. CASE \E r \in Requests, c \in Calls : ConnectVsock(r, c)
    BY <1>3, LifecycleAssumption DEF ConnectVsock, Dispatch, Goto, TypeOK
<1>4. CASE \E r \in Requests : WritePolicy(r)
  <2>1. PICK r \in Requests : WritePolicy(r)
    BY <1>4, Zenon
  <2>2. policyFile' \in Policies \cup {None, Garbled}
    BY <2>1 DEF WritePolicy, TypeOK, AllCalls
  <2>. QED
    BY <2>1, <2>2, Zenon DEF WritePolicy, Goto, TypeOK
<1>5. CASE \E r \in Requests : Configure(r)
  <2>1. PICK r \in Requests : Configure(r)
    BY <1>5, Zenon
  <2>2. config' \in Kernels \cup {None}
    BY <2>1, KernelOfType DEF Configure, TypeOK
  <2>. QED
    BY <2>1, <2>2, Zenon DEF Configure, Goto, Answer, TypeOK
<1>6. CASE \E r \in Requests : Start(r)
  <2>1. PICK r \in Requests : Start(r)
    BY <1>6, Zenon
  <2>2. CASE config = None
    <3>1. /\ pc' = [pc EXCEPT ![r] = "done"] /\ reply' = [reply EXCEPT ![r] = "start_failed"]
          /\ UNCHANGED <<mainQueue, block, captured>>
      BY <2>1, <2>2, Zenon DEF Start, Answer
    <3>2. UNCHANGED <<running, bootTime, kernelPath, policyFile, config, machine, vsockConnections,
                      vm, vmKernel, guestPolicy, call, target>>
      BY <2>1, Zenon DEF Start
    <3>. QED
      BY <3>1, <3>2, Zenon DEF TypeOK
  <2>3. CASE config # None
    <3>0. mainQueue' = Append(mainQueue, r)
      BY <2>1, <2>3, Zenon DEF Start, Dispatch
    <3>1. mainQueue' \in Seq(Requests)
      BY <3>0, QueuedCalls, Zenon DEF TypeOK
    <3>2. captured' \in [Requests -> Kernels \cup {None}]
      BY <2>1, <2>3 DEF Start, TypeOK
    <3>3. block' \in [Requests -> {"none", "queued", "in_flight", "ok", "err"}]
      BY <2>1, <2>3, Zenon DEF Start, Dispatch, TypeOK
    <3>4. pc' = [pc EXCEPT ![r] = "wait_start"] /\ reply' = reply
      BY <2>1, <2>3, Zenon DEF Start, Goto
    <3>5. UNCHANGED <<running, bootTime, kernelPath, policyFile, config, machine, vsockConnections,
                      vm, vmKernel, guestPolicy, call, target>>
      BY <2>1, Zenon DEF Start
    <3>. QED
      BY <3>1, <3>2, <3>3, <3>4, <3>5, Zenon DEF TypeOK
  <2>. QED
    BY <2>2, <2>3, Zenon
<1>7. CASE \E r \in Requests : StartReturns(r)
  <2>1. PICK r \in Requests : StartReturns(r)
    BY <1>7, Zenon
  <2>2. \/ pc' = [pc EXCEPT ![r] = "set_running"] /\ reply' = reply
        \/ pc' = [pc EXCEPT ![r] = "done"] /\ reply' = [reply EXCEPT ![r] = "start_failed"]
    BY <2>1, Zenon DEF StartReturns, Goto, Answer
  <2>3. UNCHANGED <<stateVars, policyFile, engineVars, vmVars, call, captured, target, block>>
    BY <2>1, Zenon DEF StartReturns
  <2>. QED
    BY <2>2, <2>3, Zenon DEF TypeOK
<1>8. CASE \E r \in Requests : StopReturns(r)
  <2>1. PICK r \in Requests : StopReturns(r)
    BY <1>8, Zenon
  <2>2. \/ pc' = [pc EXCEPT ![r] = "clear_running"] /\ reply' = reply
        \/ pc' = [pc EXCEPT ![r] = "done"] /\ reply' = [reply EXCEPT ![r] = "stop_failed"]
    BY <2>1, Zenon DEF StopReturns, Goto, Answer
  <2>3. UNCHANGED <<stateVars, policyFile, engineVars, vmVars, call, captured, target, block>>
    BY <2>1, Zenon DEF StopReturns
  <2>. QED
    BY <2>2, <2>3, Zenon DEF TypeOK
<1>9. CASE \E r \in Requests : ConnectReturns(r)
    BY <1>9, LifecycleAssumption DEF ConnectReturns, Answer, Signalled, TypeOK
<1>10. CASE \E r \in Requests : TimesOut(r)
    BY <1>10, LifecycleAssumption DEF TimesOut, Answer, Signalled, TypeOK
<1>11. CASE \E r \in Requests : SetRunning(r)
  <2>1. PICK r \in Requests : SetRunning(r)
    BY <1>11, Zenon
  <2>. QED
    BY <2>1, Zenon DEF SetRunning, Goto, TypeOK
<1>12. CASE \E r \in Requests : SetBootTime(r)
  <2>1. PICK r \in Requests : SetBootTime(r)
    BY <1>12, Zenon
  <2>. QED
    BY <2>1, Zenon DEF SetBootTime, Goto, TypeOK
<1>13. CASE \E r \in Requests : SetKernelPath(r)
  <2>1. PICK r \in Requests : SetKernelPath(r)
    BY <1>13, Zenon
  <2>2. kernelPath' \in Kernels
    BY <2>1, KernelOfType, Zenon DEF SetKernelPath, TypeOK
  <2>. QED
    BY <2>1, <2>2, Zenon DEF SetKernelPath, Answer, TypeOK
<1>14. CASE \E r \in Requests : ClearRunning(r)
  <2>1. PICK r \in Requests : ClearRunning(r)
    BY <1>14, Zenon
  <2>. QED
    BY <2>1, Zenon DEF ClearRunning, Goto, TypeOK
<1>15. CASE \E r \in Requests : ClearBootTime(r)
  <2>1. PICK r \in Requests : ClearBootTime(r)
    BY <1>15, Zenon
  <2>. QED
    BY <2>1, Zenon DEF ClearBootTime, Answer, TypeOK
<1>16. CASE \E r \in Requests : StartSucceeds(r)
    BY <1>16, LifecycleAssumption DEF StartSucceeds, Signal, TypeOK
<1>17. CASE \E r \in Requests : StartFails(r)
    BY <1>17, LifecycleAssumption DEF StartFails, Signal, TypeOK
<1>18. CASE \E r \in Requests : StopSucceeds(r)
  <2>1. PICK r \in Requests : StopSucceeds(r)
    BY <1>18, Zenon
  <2>2. vsockConnections' \in SUBSET Requests /\ machine' \in Requests \cup {None}
    BY <2>1, Zenon DEF StopSucceeds
  <2>. QED
    BY <2>1, <2>2, Zenon DEF StopSucceeds, Signal, TypeOK
<1>19. CASE \E r \in Requests : StopFails(r)
    BY <1>19, LifecycleAssumption DEF StopFails, Signal, TypeOK
<1>20. CASE \E r \in Requests : ConnectSucceeds(r)
    BY <1>20, LifecycleAssumption DEF ConnectSucceeds, Signal, TypeOK
<1>21. CASE \E r \in Requests : ConnectFails(r)
    BY <1>21, LifecycleAssumption DEF ConnectFails, Signal, TypeOK
<1>22. CASE MainStart
    BY <1>22, LifecycleAssumption DEF MainStart, Signal, TypeOK
<1>23. CASE \E op \in {"stop", "connect"} : MainUse(op)
  <2>1. PICK op \in {"stop", "connect"} : MainUse(op)
    BY <1>23, Zenon
  <2>2. Head(mainQueue) \in Requests /\ Tail(mainQueue) \in Seq(Requests)
    BY <2>1 DEF MainUse, TypeOK
  <2>3. CASE machine = None
    BY <2>1, <2>2, <2>3, Zenon DEF MainUse, Signal, TypeOK
  <2>4. CASE machine # None
    <3>1. target' \in [Requests -> Requests \cup {None}]
      BY <2>1, <2>2, <2>4, Zenon DEF MainUse, TypeOK
    <3>2. block' \in [Requests -> {"none", "queued", "in_flight", "ok", "err"}]
      BY <2>1, <2>2, <2>4, Zenon DEF MainUse, Signal, TypeOK
    <3>. QED
      BY <2>1, <2>2, <3>1, <3>2, Zenon DEF MainUse, TypeOK
  <2>. QED
    BY <2>3, <2>4, Zenon
<1>24. CASE \E v \in Requests : GuestDidStop(v)
    BY <1>24, LifecycleAssumption DEF GuestDidStop, TypeOK
<1>25. CASE \E v \in Requests : ReleaseVm(v)
    BY <1>25, LifecycleAssumption DEF ReleaseVm, TypeOK
<1>26. CASE \E v \in Requests : GuestLoadsPolicy(v)
    BY <1>26, LifecycleAssumption DEF GuestLoadsPolicy, TypeOK
<1>27. CASE UNCHANGED vars
    BY <1>27, LifecycleAssumption, Zenon DEF vars, TypeOK
<1>28. QED
    BY <1>1, <1>2, <1>2a, <1>3, <1>4, <1>5, <1>6, <1>7, <1>8, <1>9, <1>10, <1>11,
       <1>12, <1>13, <1>14, <1>15, <1>16, <1>17, <1>18, <1>19, <1>20, <1>21,
       <1>22, <1>23, <1>24, <1>25, <1>26, <1>27, Zenon DEF Next, HandlerStep,
       Completion, MainQueueStep, Exhausted

\* Every step keeps what a handler's place tells of its call and block.
LEMMA HandlerStepInv ==
    ASSUME TypeOK, HandlerInv, QueueInv, [Next]_vars
    PROVE  HandlerInv'
<1>. USE DEF vars, stateVars, engineVars, vmVars, reqVars
<1>1. CASE \E r \in Requests, c \in Calls : BootCheck(r, c)
    BY <1>1, TypeOK, HandlerInv DEF BootCheck, Goto, Answer, TypeOK,
       HandlerInv, IsBoot
<1>2. CASE \E r \in Requests, c \in Calls : StopCheck(r, c)
    BY <1>2, TypeOK, HandlerInv DEF StopCheck, Goto, Answer, TypeOK, HandlerInv,
       IsBoot
<1>2a. CASE \E r \in Requests : DispatchStop(r)
  <2>1. PICK r \in Requests : DispatchStop(r)
    BY <1>2a, Zenon
  <2>. QED
    BY <2>1, DispatchStopMoves DEF HandlerInv, IsBoot
<1>3. CASE \E r \in Requests, c \in Calls : ConnectVsock(r, c)
    BY <1>3, TypeOK, HandlerInv DEF ConnectVsock, Dispatch, Goto, TypeOK,
       HandlerInv, IsBoot
<1>4. CASE \E r \in Requests : WritePolicy(r)
    BY <1>4, TypeOK, HandlerInv DEF WritePolicy, Goto, TypeOK, HandlerInv,
       IsBoot
<1>5. CASE \E r \in Requests : Configure(r)
    BY <1>5, TypeOK, HandlerInv DEF Configure, Goto, Answer, TypeOK,
       HandlerInv, IsBoot
<1>6. CASE \E r \in Requests : Start(r)
    BY <1>6, TypeOK, HandlerInv DEF Start, Goto, Answer, Dispatch, TypeOK,
       HandlerInv, IsBoot
<1>7. CASE \E r \in Requests : StartReturns(r)
    BY <1>7, TypeOK, HandlerInv DEF StartReturns, Goto, Answer, Signalled,
       TypeOK, HandlerInv, IsBoot
<1>8. CASE \E r \in Requests : StopReturns(r)
    BY <1>8, TypeOK, HandlerInv DEF StopReturns, Goto, Answer, Signalled,
       TypeOK, HandlerInv, IsBoot
<1>9. CASE \E r \in Requests : ConnectReturns(r)
    BY <1>9, TypeOK, HandlerInv DEF ConnectReturns, Answer, Signalled, TypeOK,
       HandlerInv, IsBoot
<1>10. CASE \E r \in Requests : TimesOut(r)
    BY <1>10, TypeOK, HandlerInv DEF TimesOut, Answer, Signalled, TypeOK,
       HandlerInv, IsBoot
<1>11. CASE \E r \in Requests : SetRunning(r)
    BY <1>11, TypeOK, HandlerInv DEF SetRunning, Goto, TypeOK, HandlerInv,
       IsBoot
<1>12. CASE \E r \in Requests : SetBootTime(r)
    BY <1>12, TypeOK, HandlerInv DEF SetBootTime, Goto, TypeOK, HandlerInv,
       IsBoot
<1>13. CASE \E r \in Requests : SetKernelPath(r)
    BY <1>13, TypeOK, HandlerInv DEF SetKernelPath, Answer, TypeOK,
       HandlerInv, IsBoot
<1>14. CASE \E r \in Requests : ClearRunning(r)
    BY <1>14, TypeOK, HandlerInv DEF ClearRunning, Goto, TypeOK, HandlerInv,
       IsBoot
<1>15. CASE \E r \in Requests : ClearBootTime(r)
    BY <1>15, TypeOK, HandlerInv DEF ClearBootTime, Answer, TypeOK,
       HandlerInv, IsBoot
<1>16. CASE \E r \in Requests : StartSucceeds(r)
    BY <1>16, TypeOK, HandlerInv DEF StartSucceeds, Signal, TypeOK,
       HandlerInv, IsBoot
<1>17. CASE \E r \in Requests : StartFails(r)
    BY <1>17, TypeOK, HandlerInv DEF StartFails, Signal, TypeOK, HandlerInv,
       IsBoot
<1>18. CASE \E r \in Requests : StopSucceeds(r)
    BY <1>18, TypeOK, HandlerInv DEF StopSucceeds, Signal, TypeOK, HandlerInv,
       IsBoot
<1>19. CASE \E r \in Requests : StopFails(r)
    BY <1>19, TypeOK, HandlerInv DEF StopFails, Signal, TypeOK, HandlerInv,
       IsBoot
<1>20. CASE \E r \in Requests : ConnectSucceeds(r)
    BY <1>20, TypeOK, HandlerInv DEF ConnectSucceeds, Signal, TypeOK,
       HandlerInv, IsBoot
<1>21. CASE \E r \in Requests : ConnectFails(r)
    BY <1>21, TypeOK, HandlerInv DEF ConnectFails, Signal, TypeOK, HandlerInv,
       IsBoot
<1>22. CASE MainStart
  <2>1. Head(mainQueue) \in Requests /\ block[Head(mainQueue)] = "queued"
    BY <1>22 DEF MainStart, TypeOK, QueueInv
  <2>. QED
    BY <1>22, <2>1 DEF MainStart, Signal, TypeOK, HandlerInv, IsBoot
<1>23. CASE \E op \in {"stop", "connect"} : MainUse(op)
  <2>1. Head(mainQueue) \in Requests /\ block[Head(mainQueue)] = "queued"
    BY <1>23 DEF MainUse, TypeOK, QueueInv
  <2>. QED
    BY <1>23, <2>1 DEF MainUse, Signal, TypeOK, HandlerInv, IsBoot
<1>24. CASE \E v \in Requests : GuestDidStop(v)
    BY <1>24, TypeOK, HandlerInv DEF GuestDidStop, TypeOK, HandlerInv, IsBoot
<1>25. CASE \E v \in Requests : ReleaseVm(v)
    BY <1>25, TypeOK, HandlerInv DEF ReleaseVm, TypeOK, HandlerInv, IsBoot
<1>26. CASE \E v \in Requests : GuestLoadsPolicy(v)
    BY <1>26, TypeOK, HandlerInv DEF GuestLoadsPolicy, TypeOK, HandlerInv,
       IsBoot
<1>27. CASE UNCHANGED vars
    BY <1>27, TypeOK, HandlerInv, Zenon DEF vars, TypeOK, HandlerInv, IsBoot
<1>28. QED
    BY <1>1, <1>2, <1>2a, <1>3, <1>4, <1>5, <1>6, <1>7, <1>8, <1>9, <1>10, <1>11,
       <1>12, <1>13, <1>14, <1>15, <1>16, <1>17, <1>18, <1>19, <1>20, <1>21,
       <1>22, <1>23, <1>24, <1>25, <1>26, <1>27, Zenon DEF Next, HandlerStep,
       Completion, MainQueueStep, Exhausted

\* Every step keeps the VMs and their boots in agreement.
LEMMA VmStepInv ==
    ASSUME TypeOK, HandlerInv, QueueInv, VmInv, [Next]_vars
    PROVE  VmInv'
<1>. USE DEF vars, stateVars, engineVars, vmVars, reqVars
<1>1. CASE \E r \in Requests, c \in Calls : BootCheck(r, c)
    BY <1>1 DEF BootCheck, Goto, Answer, TypeOK, HandlerInv, VmInv, IsBoot
<1>2. CASE \E r \in Requests, c \in Calls : StopCheck(r, c)
    BY <1>2 DEF StopCheck, Goto, Answer, TypeOK, HandlerInv, VmInv, IsBoot
<1>2a. CASE \E r \in Requests : DispatchStop(r)
  <2>1. PICK r \in Requests : DispatchStop(r)
    BY <1>2a, Zenon
  <2>. QED
    BY <2>1, DispatchStopMoves, Zenon DEF HandlerInv, VmInv
<1>3. CASE \E r \in Requests, c \in Calls : ConnectVsock(r, c)
    BY <1>3 DEF ConnectVsock, Dispatch, Goto, TypeOK, HandlerInv, VmInv, IsBoot
<1>4. CASE \E r \in Requests : WritePolicy(r)
    BY <1>4 DEF WritePolicy, Goto, TypeOK, HandlerInv, VmInv, IsBoot
<1>5. CASE \E r \in Requests : Configure(r)
    BY <1>5 DEF Configure, Goto, Answer, TypeOK, HandlerInv, VmInv, IsBoot
<1>6. CASE \E r \in Requests : Start(r)
    BY <1>6 DEF Start, Goto, Answer, Dispatch, TypeOK, HandlerInv, VmInv,
       IsBoot
<1>7. CASE \E r \in Requests : StartReturns(r)
    BY <1>7 DEF StartReturns, Goto, Answer, Signalled, TypeOK, HandlerInv,
       VmInv, IsBoot
<1>8. CASE \E r \in Requests : StopReturns(r)
    BY <1>8 DEF StopReturns, Goto, Answer, Signalled, TypeOK, HandlerInv,
       VmInv, IsBoot
<1>9. CASE \E r \in Requests : ConnectReturns(r)
    BY <1>9 DEF ConnectReturns, Answer, Signalled, TypeOK, HandlerInv, VmInv,
       IsBoot
<1>10. CASE \E r \in Requests : TimesOut(r)
    BY <1>10 DEF TimesOut, Answer, Signalled, TypeOK, HandlerInv, VmInv, IsBoot
<1>11. CASE \E r \in Requests : SetRunning(r)
    BY <1>11 DEF SetRunning, Goto, TypeOK, HandlerInv, VmInv, IsBoot
<1>12. CASE \E r \in Requests : SetBootTime(r)
    BY <1>12 DEF SetBootTime, Goto, TypeOK, HandlerInv, VmInv, IsBoot
<1>13. CASE \E r \in Requests : SetKernelPath(r)
    BY <1>13 DEF SetKernelPath, Answer, TypeOK, HandlerInv, VmInv, IsBoot
<1>14. CASE \E r \in Requests : ClearRunning(r)
    BY <1>14 DEF ClearRunning, Goto, TypeOK, HandlerInv, VmInv, IsBoot
<1>15. CASE \E r \in Requests : ClearBootTime(r)
    BY <1>15 DEF ClearBootTime, Answer, TypeOK, HandlerInv, VmInv, IsBoot
<1>16. CASE \E r \in Requests : StartSucceeds(r)
    BY <1>16 DEF StartSucceeds, Signal, TypeOK, HandlerInv, VmInv, IsBoot
<1>17. CASE \E r \in Requests : StartFails(r)
    BY <1>17 DEF StartFails, Signal, TypeOK, HandlerInv, VmInv, IsBoot
<1>18. CASE \E r \in Requests : StopSucceeds(r)
    BY <1>18 DEF StopSucceeds, Signal, TypeOK, HandlerInv, VmInv, IsBoot
<1>19. CASE \E r \in Requests : StopFails(r)
    BY <1>19 DEF StopFails, Signal, TypeOK, HandlerInv, VmInv, IsBoot
<1>20. CASE \E r \in Requests : ConnectSucceeds(r)
    BY <1>20 DEF ConnectSucceeds, Signal, TypeOK, HandlerInv, VmInv, IsBoot
<1>21. CASE \E r \in Requests : ConnectFails(r)
    BY <1>21 DEF ConnectFails, Signal, TypeOK, HandlerInv, VmInv, IsBoot
<1>22. CASE MainStart
  <2>1. Head(mainQueue) \in Requests /\ block[Head(mainQueue)] = "queued"
    BY <1>22 DEF MainStart, TypeOK, QueueInv
  <2>. QED
    BY <1>22, <2>1 DEF MainStart, Signal, TypeOK, VmInv, IsBoot
<1>23. CASE \E op \in {"stop", "connect"} : MainUse(op)
  <2>1. Head(mainQueue) \in Requests /\ block[Head(mainQueue)] = "queued"
    BY <1>23 DEF MainUse, TypeOK, QueueInv
  <2>. QED
    BY <1>23, <2>1 DEF MainUse, Signal, TypeOK, VmInv, IsBoot
<1>24. CASE \E v \in Requests : GuestDidStop(v)
    BY <1>24 DEF GuestDidStop, TypeOK, HandlerInv, VmInv, IsBoot
<1>25. CASE \E v \in Requests : ReleaseVm(v)
    BY <1>25 DEF ReleaseVm, TypeOK, HandlerInv, VmInv, IsBoot
<1>26. CASE \E v \in Requests : GuestLoadsPolicy(v)
    BY <1>26 DEF GuestLoadsPolicy, TypeOK, HandlerInv, VmInv, IsBoot
<1>27. CASE UNCHANGED vars
    BY <1>27, Zenon DEF vars, TypeOK, HandlerInv, VmInv, IsBoot
<1>28. QED
    BY <1>1, <1>2, <1>2a, <1>3, <1>4, <1>5, <1>6, <1>7, <1>8, <1>9, <1>10, <1>11,
       <1>12, <1>13, <1>14, <1>15, <1>16, <1>17, <1>18, <1>19, <1>20, <1>21,
       <1>22, <1>23, <1>24, <1>25, <1>26, <1>27, Zenon DEF Next, HandlerStep,
       Completion, MainQueueStep, Exhausted

\* Every step keeps what is known of stops: a stopped VM never starts again.
LEMMA StopStepInv ==
    ASSUME TypeOK, HandlerInv, QueueInv, VmInv, StopInv, [Next]_vars
    PROVE  StopInv'
<1>. USE DEF vars, stateVars, engineVars, vmVars, reqVars
<1>1. CASE \E r \in Requests, c \in Calls : BootCheck(r, c)
    BY <1>1, LifecycleAssumption DEF BootCheck, Goto, Answer, TypeOK,
       HandlerInv, VmInv, StopInv, IsBoot
<1>2. CASE \E r \in Requests, c \in Calls : StopCheck(r, c)
    BY <1>2, LifecycleAssumption DEF StopCheck, Goto, Answer, TypeOK, HandlerInv,
       VmInv, StopInv, IsBoot
<1>2a. CASE \E r \in Requests : DispatchStop(r)
  <2>1. PICK r \in Requests : DispatchStop(r)
    BY <1>2a, Zenon
  <2>. QED
    BY <2>1, DispatchStopMoves DEF StopInv
<1>3. CASE \E r \in Requests, c \in Calls : ConnectVsock(r, c)
    BY <1>3, LifecycleAssumption DEF ConnectVsock, Dispatch, Goto, TypeOK,
       HandlerInv, VmInv, StopInv, IsBoot
<1>4. CASE \E r \in Requests : WritePolicy(r)
    BY <1>4, LifecycleAssumption DEF WritePolicy, Goto, TypeOK, HandlerInv,
       VmInv, StopInv, IsBoot
<1>5. CASE \E r \in Requests : Configure(r)
    BY <1>5, LifecycleAssumption DEF Configure, Goto, Answer, TypeOK,
       HandlerInv, VmInv, StopInv, IsBoot
<1>6. CASE \E r \in Requests : Start(r)
    BY <1>6, LifecycleAssumption DEF Start, Goto, Answer, Dispatch, TypeOK,
       HandlerInv, VmInv, StopInv, IsBoot
<1>7. CASE \E r \in Requests : StartReturns(r)
    BY <1>7, LifecycleAssumption DEF StartReturns, Goto, Answer, Signalled,
       TypeOK, HandlerInv, VmInv, StopInv, IsBoot
<1>8. CASE \E r \in Requests : StopReturns(r)
    BY <1>8, LifecycleAssumption DEF StopReturns, Goto, Answer, Signalled,
       TypeOK, HandlerInv, VmInv, StopInv, IsBoot
<1>9. CASE \E r \in Requests : ConnectReturns(r)
    BY <1>9, LifecycleAssumption DEF ConnectReturns, Answer, Signalled,
       TypeOK, HandlerInv, VmInv, StopInv, IsBoot
<1>10. CASE \E r \in Requests : TimesOut(r)
    BY <1>10, LifecycleAssumption DEF TimesOut, Answer, Signalled, TypeOK,
       HandlerInv, VmInv, StopInv, IsBoot
<1>11. CASE \E r \in Requests : SetRunning(r)
    BY <1>11, LifecycleAssumption DEF SetRunning, Goto, TypeOK, HandlerInv,
       VmInv, StopInv, IsBoot
<1>12. CASE \E r \in Requests : SetBootTime(r)
    BY <1>12, LifecycleAssumption DEF SetBootTime, Goto, TypeOK, HandlerInv,
       VmInv, StopInv, IsBoot
<1>13. CASE \E r \in Requests : SetKernelPath(r)
    BY <1>13, LifecycleAssumption DEF SetKernelPath, Answer, TypeOK,
       HandlerInv, VmInv, StopInv, IsBoot
<1>14. CASE \E r \in Requests : ClearRunning(r)
    BY <1>14, LifecycleAssumption DEF ClearRunning, Goto, TypeOK, HandlerInv,
       VmInv, StopInv, IsBoot
<1>15. CASE \E r \in Requests : ClearBootTime(r)
    BY <1>15, LifecycleAssumption DEF ClearBootTime, Answer, TypeOK,
       HandlerInv, VmInv, StopInv, IsBoot
<1>16. CASE \E r \in Requests : StartSucceeds(r)
    BY <1>16, LifecycleAssumption DEF StartSucceeds, Signal, TypeOK,
       HandlerInv, VmInv, StopInv, IsBoot
<1>17. CASE \E r \in Requests : StartFails(r)
    BY <1>17, LifecycleAssumption DEF StartFails, Signal, TypeOK, HandlerInv,
       VmInv, StopInv, IsBoot
<1>18. CASE \E r \in Requests : StopSucceeds(r)
    BY <1>18, LifecycleAssumption DEF StopSucceeds, Signal, TypeOK,
       HandlerInv, VmInv, StopInv, IsBoot
<1>19. CASE \E r \in Requests : StopFails(r)
    BY <1>19, LifecycleAssumption DEF StopFails, Signal, TypeOK, HandlerInv,
       VmInv, StopInv, IsBoot
<1>20. CASE \E r \in Requests : ConnectSucceeds(r)
    BY <1>20, LifecycleAssumption DEF ConnectSucceeds, Signal, TypeOK,
       HandlerInv, VmInv, StopInv, IsBoot
<1>21. CASE \E r \in Requests : ConnectFails(r)
    BY <1>21, LifecycleAssumption DEF ConnectFails, Signal, TypeOK,
       HandlerInv, VmInv, StopInv, IsBoot
<1>22. CASE MainStart
  <2>1. Head(mainQueue) \in Requests /\ block[Head(mainQueue)] = "queued"
    BY <1>22 DEF MainStart, TypeOK, QueueInv
  <2>. QED
    BY <1>22, <2>1 DEF MainStart, Signal, TypeOK, VmInv, StopInv, IsBoot
<1>23. CASE \E op \in {"stop", "connect"} : MainUse(op)
  <2>1. Head(mainQueue) \in Requests /\ block[Head(mainQueue)] = "queued"
    BY <1>23 DEF MainUse, TypeOK, QueueInv
  <2>. QED
    BY <1>23, <2>1 DEF MainUse, Signal, TypeOK, VmInv, StopInv, IsBoot
<1>24. CASE \E v \in Requests : GuestDidStop(v)
    BY <1>24, LifecycleAssumption DEF GuestDidStop, TypeOK, HandlerInv, VmInv,
       StopInv, IsBoot
<1>25. CASE \E v \in Requests : ReleaseVm(v)
    BY <1>25, LifecycleAssumption DEF ReleaseVm, TypeOK, HandlerInv, VmInv,
       StopInv, IsBoot
<1>26. CASE \E v \in Requests : GuestLoadsPolicy(v)
    BY <1>26, LifecycleAssumption DEF GuestLoadsPolicy, TypeOK, HandlerInv,
       VmInv, StopInv, IsBoot
<1>27. CASE UNCHANGED vars
    BY <1>27, LifecycleAssumption, Zenon DEF vars, TypeOK, HandlerInv, VmInv,
       StopInv, IsBoot
<1>28. QED
    BY <1>1, <1>2, <1>2a, <1>3, <1>4, <1>5, <1>6, <1>7, <1>8, <1>9, <1>10, <1>11,
       <1>12, <1>13, <1>14, <1>15, <1>16, <1>17, <1>18, <1>19, <1>20, <1>21,
       <1>22, <1>23, <1>24, <1>25, <1>26, <1>27, Zenon DEF Next, HandlerStep,
       Completion, MainQueueStep, Exhausted

\* Every step keeps a cause for `running`.
LEMMA CauseStepInv ==
    ASSUME TypeOK, HandlerInv, QueueInv, RunningHasCause, [Next]_vars
    PROVE  RunningHasCause'
<1>. USE DEF vars, stateVars, engineVars, vmVars, reqVars
<1>1. CASE \E r \in Requests, c \in Calls : BootCheck(r, c)
    BY <1>1 DEF BootCheck, Goto, Answer, TypeOK, HandlerInv, RunningHasCause,
       IsBoot
<1>2. CASE \E r \in Requests, c \in Calls : StopCheck(r, c)
  <2>1. PICK r \in Requests, c \in Calls : StopCheck(r, c)
    BY <1>2, Zenon
  <2>2. running' = running
    BY <2>1, StopCheckMoves, Zenon
  <2>3. \A s \in Requests : pc[s] \in {"set_boot_time", "set_kernel_path", "done"} =>
            pc'[s] = pc[s] /\ call'[s] = call[s] /\ block'[s] = block[s] /\ reply'[s] = reply[s]
    BY <2>1, StopCheckMoves, Zenon
  <2>. QED
    BY <2>2, <2>3, Zenon DEF RunningHasCause
<1>2a. CASE \E r \in Requests : DispatchStop(r)
  <2>1. PICK r \in Requests : DispatchStop(r)
    BY <1>2a, Zenon
  <2>. QED
    BY <2>1, DispatchStopMoves, Zenon DEF HandlerInv, RunningHasCause
<1>3. CASE \E r \in Requests, c \in Calls : ConnectVsock(r, c)
    BY <1>3 DEF ConnectVsock, Dispatch, Goto, TypeOK, HandlerInv,
       RunningHasCause, IsBoot
<1>4. CASE \E r \in Requests : WritePolicy(r)
    BY <1>4 DEF WritePolicy, Goto, TypeOK, HandlerInv, RunningHasCause, IsBoot
<1>5. CASE \E r \in Requests : Configure(r)
    BY <1>5 DEF Configure, Goto, Answer, TypeOK, HandlerInv, RunningHasCause,
       IsBoot
<1>6. CASE \E r \in Requests : Start(r)
  <2>1. PICK r \in Requests : Start(r)
    BY <1>6, Zenon
  <2>2. running' = running
    BY <2>1, StartMoves, Zenon
  <2>3. \A s \in Requests : pc[s] \in {"set_boot_time", "set_kernel_path", "done"} =>
            pc'[s] = pc[s] /\ call'[s] = call[s] /\ block'[s] = block[s] /\ reply'[s] = reply[s]
    BY <2>1, StartMoves, Zenon
  <2>. QED
    BY <2>2, <2>3, Zenon DEF RunningHasCause
<1>7. CASE \E r \in Requests : StartReturns(r)
    BY <1>7 DEF StartReturns, Goto, Answer, Signalled, TypeOK, HandlerInv,
       RunningHasCause, IsBoot
<1>8. CASE \E r \in Requests : StopReturns(r)
    BY <1>8 DEF StopReturns, Goto, Answer, Signalled, TypeOK, HandlerInv,
       RunningHasCause, IsBoot
<1>9. CASE \E r \in Requests : ConnectReturns(r)
    BY <1>9 DEF ConnectReturns, Answer, Signalled, TypeOK, HandlerInv,
       RunningHasCause, IsBoot
<1>10. CASE \E r \in Requests : TimesOut(r)
    BY <1>10 DEF TimesOut, Answer, Signalled, TypeOK, HandlerInv,
       RunningHasCause, IsBoot
<1>11. CASE \E r \in Requests : SetRunning(r)
    BY <1>11 DEF SetRunning, Goto, TypeOK, HandlerInv, RunningHasCause, IsBoot
<1>12. CASE \E r \in Requests : SetBootTime(r)
    BY <1>12 DEF SetBootTime, Goto, TypeOK, HandlerInv, RunningHasCause, IsBoot
<1>13. CASE \E r \in Requests : SetKernelPath(r)
    BY <1>13 DEF SetKernelPath, Answer, TypeOK, HandlerInv, RunningHasCause,
       IsBoot
<1>14. CASE \E r \in Requests : ClearRunning(r)
    BY <1>14, Zenon DEF ClearRunning, Goto, TypeOK, HandlerInv, RunningHasCause,
       IsBoot
<1>15. CASE \E r \in Requests : ClearBootTime(r)
    BY <1>15 DEF ClearBootTime, Answer, TypeOK, HandlerInv, RunningHasCause,
       IsBoot
<1>16. CASE \E r \in Requests : StartSucceeds(r)
    BY <1>16 DEF StartSucceeds, Signal, TypeOK, HandlerInv, RunningHasCause,
       IsBoot
<1>17. CASE \E r \in Requests : StartFails(r)
    BY <1>17 DEF StartFails, Signal, TypeOK, HandlerInv, RunningHasCause,
       IsBoot
<1>18. CASE \E r \in Requests : StopSucceeds(r)
    BY <1>18 DEF StopSucceeds, Signal, TypeOK, HandlerInv, RunningHasCause,
       IsBoot
<1>19. CASE \E r \in Requests : StopFails(r)
    BY <1>19 DEF StopFails, Signal, TypeOK, HandlerInv, RunningHasCause, IsBoot
<1>20. CASE \E r \in Requests : ConnectSucceeds(r)
    BY <1>20 DEF ConnectSucceeds, Signal, TypeOK, HandlerInv, RunningHasCause,
       IsBoot
<1>21. CASE \E r \in Requests : ConnectFails(r)
    BY <1>21 DEF ConnectFails, Signal, TypeOK, HandlerInv, RunningHasCause,
       IsBoot
<1>22. CASE MainStart
  <2>1. Head(mainQueue) \in Requests /\ block[Head(mainQueue)] = "queued"
    BY <1>22 DEF MainStart, TypeOK, QueueInv
  <2>. QED
    BY <1>22, <2>1, Zenon DEF MainStart, Signal, TypeOK, RunningHasCause, IsBoot
<1>23. CASE \E op \in {"stop", "connect"} : MainUse(op)
  <2>1. Head(mainQueue) \in Requests /\ block[Head(mainQueue)] = "queued"
    BY <1>23 DEF MainUse, TypeOK, QueueInv
  <2>. QED
    BY <1>23, <2>1 DEF MainUse, Signal, TypeOK, RunningHasCause, IsBoot
<1>24. CASE \E v \in Requests : GuestDidStop(v)
    BY <1>24 DEF GuestDidStop, TypeOK, HandlerInv, RunningHasCause, IsBoot
<1>25. CASE \E v \in Requests : ReleaseVm(v)
    BY <1>25 DEF ReleaseVm, TypeOK, HandlerInv, RunningHasCause, IsBoot
<1>26. CASE \E v \in Requests : GuestLoadsPolicy(v)
    BY <1>26 DEF GuestLoadsPolicy, TypeOK, HandlerInv, RunningHasCause, IsBoot
<1>27. CASE UNCHANGED vars
    BY <1>27, Zenon DEF vars, TypeOK, HandlerInv, RunningHasCause, IsBoot
<1>28. QED
    BY <1>1, <1>2, <1>2a, <1>3, <1>4, <1>5, <1>6, <1>7, <1>8, <1>9, <1>10, <1>11,
       <1>12, <1>13, <1>14, <1>15, <1>16, <1>17, <1>18, <1>19, <1>20, <1>21,
       <1>22, <1>23, <1>24, <1>25, <1>26, <1>27, Zenon DEF Next, HandlerStep,
       Completion, MainQueueStep, Exhausted

\* Every step keeps the engine configured for the starts under way.
LEMMA ConfiguredStepInv ==
    ASSUME TypeOK, StartIsConfigured, [Next]_vars
    PROVE  StartIsConfigured'
<1>. USE DEF vars, stateVars, engineVars, vmVars, reqVars
<1>1. CASE \E r \in Requests, c \in Calls : BootCheck(r, c)
    BY <1>1 DEF BootCheck, Goto, Answer, TypeOK, StartIsConfigured
<1>2. CASE \E r \in Requests, c \in Calls : StopCheck(r, c)
    BY <1>2 DEF StopCheck, Goto, Answer, TypeOK, StartIsConfigured
<1>2a. CASE \E r \in Requests : DispatchStop(r)
  <2>1. PICK r \in Requests : DispatchStop(r)
    BY <1>2a, Zenon
  <2>. QED
    BY <2>1, DispatchStopMoves DEF StartIsConfigured
<1>3. CASE \E r \in Requests, c \in Calls : ConnectVsock(r, c)
    BY <1>3 DEF ConnectVsock, Dispatch, Goto, TypeOK, StartIsConfigured
<1>4. CASE \E r \in Requests : WritePolicy(r)
    BY <1>4 DEF WritePolicy, Goto, TypeOK, StartIsConfigured
<1>5. CASE \E r \in Requests : Configure(r)
  <2>1. PICK r \in Requests : Configure(r)
    BY <1>5, Zenon
  <2>2. KernelOf(call[r]) # None
    BY KernelOfType, LifecycleAssumption DEF TypeOK
  <2>. QED
    BY <2>1, <2>2 DEF Configure, Goto, Answer, TypeOK, StartIsConfigured
<1>6. CASE \E r \in Requests : Start(r)
    BY <1>6, Zenon DEF Start, Goto, Answer, Dispatch, TypeOK, StartIsConfigured
<1>7. CASE \E r \in Requests : StartReturns(r)
    BY <1>7, Zenon DEF StartReturns, Goto, Answer, Signalled, TypeOK,
       StartIsConfigured
<1>8. CASE \E r \in Requests : StopReturns(r)
    BY <1>8 DEF StopReturns, Goto, Answer, Signalled, TypeOK, StartIsConfigured
<1>9. CASE \E r \in Requests : ConnectReturns(r)
    BY <1>9 DEF ConnectReturns, Answer, Signalled, TypeOK, StartIsConfigured
<1>10. CASE \E r \in Requests : TimesOut(r)
    BY <1>10 DEF TimesOut, Answer, Signalled, TypeOK, StartIsConfigured
<1>11. CASE \E r \in Requests : SetRunning(r)
    BY <1>11 DEF SetRunning, Goto, TypeOK, StartIsConfigured
<1>12. CASE \E r \in Requests : SetBootTime(r)
    BY <1>12 DEF SetBootTime, Goto, TypeOK, StartIsConfigured
<1>13. CASE \E r \in Requests : SetKernelPath(r)
    BY <1>13 DEF SetKernelPath, Answer, TypeOK, StartIsConfigured
<1>14. CASE \E r \in Requests : ClearRunning(r)
    BY <1>14 DEF ClearRunning, Goto, TypeOK, StartIsConfigured
<1>15. CASE \E r \in Requests : ClearBootTime(r)
    BY <1>15 DEF ClearBootTime, Answer, TypeOK, StartIsConfigured
<1>16. CASE \E r \in Requests : StartSucceeds(r)
    BY <1>16, Zenon DEF StartSucceeds, Signal, TypeOK, StartIsConfigured
<1>17. CASE \E r \in Requests : StartFails(r)
    BY <1>17, Zenon DEF StartFails, Signal, TypeOK, StartIsConfigured
<1>18. CASE \E r \in Requests : StopSucceeds(r)
    BY <1>18, Zenon DEF StopSucceeds, Signal, TypeOK, StartIsConfigured
<1>19. CASE \E r \in Requests : StopFails(r)
    BY <1>19, Zenon DEF StopFails, Signal, TypeOK, StartIsConfigured
<1>20. CASE \E r \in Requests : ConnectSucceeds(r)
    BY <1>20, Zenon DEF ConnectSucceeds, Signal, TypeOK, StartIsConfigured
<1>21. CASE \E r \in Requests : ConnectFails(r)
    BY <1>21, Zenon DEF ConnectFails, Signal, TypeOK, StartIsConfigured
<1>22. CASE MainStart
    BY <1>22, Zenon DEF MainStart, Signal, TypeOK, StartIsConfigured
<1>23. CASE \E op \in {"stop", "connect"} : MainUse(op)
    BY <1>23, Zenon DEF MainUse, Signal, TypeOK, StartIsConfigured
<1>24. CASE \E v \in Requests : GuestDidStop(v)
    BY <1>24, Zenon DEF GuestDidStop, TypeOK, StartIsConfigured
<1>25. CASE \E v \in Requests : ReleaseVm(v)
    BY <1>25, Zenon DEF ReleaseVm, TypeOK, StartIsConfigured
<1>26. CASE \E v \in Requests : GuestLoadsPolicy(v)
    BY <1>26, Zenon DEF GuestLoadsPolicy, TypeOK, StartIsConfigured
<1>27. CASE UNCHANGED vars
    BY <1>27, Zenon DEF vars, TypeOK, StartIsConfigured
<1>28. QED
    BY <1>1, <1>2, <1>2a, <1>3, <1>4, <1>5, <1>6, <1>7, <1>8, <1>9, <1>10, <1>11,
       <1>12, <1>13, <1>14, <1>15, <1>16, <1>17, <1>18, <1>19, <1>20, <1>21,
       <1>22, <1>23, <1>24, <1>25, <1>26, <1>27, Zenon DEF Next, HandlerStep,
       Completion, MainQueueStep, Exhausted

\* Taking the head off the main queue leaves the other blocks queued once.
LEMMA TakeFromQueue ==
    ASSUME TypeOK, QueueInv, mainQueue # <<>>, mainQueue' = Tail(mainQueue),
           \A q \in Requests : q # Head(mainQueue) => block'[q] = block[q]
    PROVE  QueueInv'
<1>1. /\ Len(mainQueue') = Len(mainQueue) - 1
      /\ \A i \in 1..Len(mainQueue') : mainQueue'[i] = mainQueue[i + 1]
  BY TakenCalls, Zenon DEF TypeOK
<1>2. \A i \in 1..Len(mainQueue') : i + 1 \in 1..Len(mainQueue) /\ i + 1 # 1
  BY <1>1 DEF TypeOK
<1>3. \A i \in 1..Len(mainQueue') : mainQueue'[i] \in Requests /\ mainQueue'[i] # Head(mainQueue)
  BY <1>1, <1>2 DEF TypeOK, QueueInv
<1>4. \A i, j \in 1..Len(mainQueue') :
          mainQueue[i + 1] = mainQueue[j + 1] => i + 1 = j + 1
  BY <1>2, Zenon DEF QueueInv
<1>5. \A i, j \in 1..Len(mainQueue') : mainQueue'[i] = mainQueue'[j] => i = j
  <2>1. \A i, j \in 1..Len(mainQueue') : i + 1 = j + 1 => i = j
    OBVIOUS
  <2>. QED
    BY <1>1, <1>4, <2>1
<1>6. \A i \in 1..Len(mainQueue') : block'[mainQueue'[i]] = "queued"
  BY <1>1, <1>2, <1>3 DEF QueueInv
<1>. QED
  BY <1>5, <1>6, Zenon DEF QueueInv

\* Every step keeps the main queue free of duplicates and of blocks that
\* have run.
LEMMA QueueStepInv ==
    ASSUME TypeOK, HandlerInv, QueueInv, [Next]_vars
    PROVE  QueueInv'
<1>. USE DEF vars, stateVars, engineVars, vmVars, reqVars
<1>1. CASE \E r \in Requests, c \in Calls : BootCheck(r, c)
    BY <1>1, Zenon DEF BootCheck, Goto, Answer, TypeOK, QueueInv
<1>2. CASE \E r \in Requests, c \in Calls : StopCheck(r, c)
    BY <1>2, StopCheckMoves, Zenon DEF QueueInv
<1>2a. CASE \E r \in Requests : DispatchStop(r)
  <2>1. PICK r \in Requests : DispatchStop(r)
    BY <1>2a, Zenon
  <2>2. /\ block[r] = "none"
        /\ \A i \in 1..Len(mainQueue) : mainQueue[i] \in Requests /\ mainQueue[i] # r
    BY <2>1 DEF DispatchStop, TypeOK, HandlerInv, QueueInv
  <2>3. Dispatch(r)
    BY <2>1, Zenon DEF DispatchStop
  <2>. QED
    BY <2>2, <2>3 DEF Dispatch, TypeOK, QueueInv
<1>3. CASE \E r \in Requests, c \in Calls : ConnectVsock(r, c)
  <2>1. PICK r \in Requests, c \in Calls : ConnectVsock(r, c)
    BY <1>3, Zenon
  <2>2. CASE UNCHANGED <<mainQueue, block>>
    BY <2>2, Zenon DEF QueueInv
  <2>3. CASE Dispatch(r)
    <3>1. /\ block[r] = "none"
          /\ \A i \in 1..Len(mainQueue) : mainQueue[i] \in Requests /\ mainQueue[i] # r
      BY <2>1 DEF ConnectVsock, TypeOK, HandlerInv, QueueInv
    <3>. QED
      BY <2>3, <3>1 DEF Dispatch, TypeOK, QueueInv
  <2>. QED
    BY <2>1, <2>2, <2>3, Zenon DEF ConnectVsock
<1>4. CASE \E r \in Requests : WritePolicy(r)
    BY <1>4, Zenon DEF WritePolicy, Goto, TypeOK, QueueInv
<1>5. CASE \E r \in Requests : Configure(r)
    BY <1>5, Zenon DEF Configure, Goto, Answer, TypeOK, QueueInv
<1>6. CASE \E r \in Requests : Start(r)
  <2>1. PICK r \in Requests : Start(r)
    BY <1>6, Zenon
  <2>2. CASE UNCHANGED <<mainQueue, block>>
    BY <2>2, Zenon DEF QueueInv
  <2>3. CASE Dispatch(r)
    <3>1. /\ block[r] = "none"
          /\ \A i \in 1..Len(mainQueue) : mainQueue[i] \in Requests /\ mainQueue[i] # r
      BY <2>1 DEF Start, TypeOK, HandlerInv, QueueInv
    <3>. QED
      BY <2>3, <3>1 DEF Dispatch, TypeOK, QueueInv
  <2>. QED
    BY <2>1, <2>2, <2>3, Zenon DEF Start
<1>7. CASE \E r \in Requests : StartReturns(r)
    BY <1>7 DEF StartReturns, Goto, Answer, Signalled, TypeOK, QueueInv
<1>8. CASE \E r \in Requests : StopReturns(r)
    BY <1>8 DEF StopReturns, Goto, Answer, Signalled, TypeOK, QueueInv
<1>9. CASE \E r \in Requests : ConnectReturns(r)
    BY <1>9 DEF ConnectReturns, Answer, Signalled, TypeOK, QueueInv
<1>10. CASE \E r \in Requests : TimesOut(r)
    BY <1>10 DEF TimesOut, Answer, Signalled, TypeOK, QueueInv
<1>11. CASE \E r \in Requests : SetRunning(r)
    BY <1>11, Zenon DEF SetRunning, Goto, TypeOK, QueueInv
<1>12. CASE \E r \in Requests : SetBootTime(r)
    BY <1>12, Zenon DEF SetBootTime, Goto, TypeOK, QueueInv
<1>13. CASE \E r \in Requests : SetKernelPath(r)
    BY <1>13, Zenon DEF SetKernelPath, Answer, TypeOK, QueueInv
<1>14. CASE \E r \in Requests : ClearRunning(r)
    BY <1>14, Zenon DEF ClearRunning, Goto, TypeOK, QueueInv
<1>15. CASE \E r \in Requests : ClearBootTime(r)
    BY <1>15, Zenon DEF ClearBootTime, Answer, TypeOK, QueueInv
<1>16. CASE \E r \in Requests : StartSucceeds(r)
    BY <1>16 DEF StartSucceeds, Signal, TypeOK, QueueInv
<1>17. CASE \E r \in Requests : StartFails(r)
    BY <1>17 DEF StartFails, Signal, TypeOK, QueueInv
<1>18. CASE \E r \in Requests : StopSucceeds(r)
    BY <1>18 DEF StopSucceeds, Signal, TypeOK, QueueInv
<1>19. CASE \E r \in Requests : StopFails(r)
    BY <1>19 DEF StopFails, Signal, TypeOK, QueueInv
<1>20. CASE \E r \in Requests : ConnectSucceeds(r)
    BY <1>20 DEF ConnectSucceeds, Signal, TypeOK, QueueInv
<1>21. CASE \E r \in Requests : ConnectFails(r)
    BY <1>21 DEF ConnectFails, Signal, TypeOK, QueueInv
<1>22. CASE MainStart
  <2>1. /\ mainQueue # <<>> /\ mainQueue' = Tail(mainQueue)
        /\ \A q \in Requests : q # Head(mainQueue) => block'[q] = block[q]
    BY <1>22, Zenon DEF MainStart, Signal, TypeOK
  <2>. QED
    BY <2>1, TakeFromQueue, Zenon
<1>23. CASE \E op \in {"stop", "connect"} : MainUse(op)
  <2>1. /\ mainQueue # <<>> /\ mainQueue' = Tail(mainQueue)
        /\ \A q \in Requests : q # Head(mainQueue) => block'[q] = block[q]
    BY <1>23, Zenon DEF MainUse, Signal, TypeOK
  <2>. QED
    BY <2>1, TakeFromQueue, Zenon
<1>24. CASE \E v \in Requests : GuestDidStop(v)
    BY <1>24, Zenon DEF GuestDidStop, TypeOK, QueueInv
<1>25. CASE \E v \in Requests : ReleaseVm(v)
    BY <1>25, Zenon DEF ReleaseVm, TypeOK, QueueInv
<1>26. CASE \E v \in Requests : GuestLoadsPolicy(v)
    BY <1>26 DEF GuestLoadsPolicy, TypeOK, QueueInv
<1>27. CASE UNCHANGED vars
    BY <1>27, Zenon DEF vars, TypeOK, QueueInv
<1>28. QED
    BY <1>1, <1>2, <1>2a, <1>3, <1>4, <1>5, <1>6, <1>7, <1>8, <1>9, <1>10, <1>11,
       <1>12, <1>13, <1>14, <1>15, <1>16, <1>17, <1>18, <1>19, <1>20, <1>21,
       <1>22, <1>23, <1>24, <1>25, <1>26, <1>27, Zenon DEF Next, HandlerStep,
       Completion, MainQueueStep, Exhausted

(***************************************************************************)
(* The theorems.                                                           *)
(***************************************************************************)

\* The daemon starts with no VM and no calls.
LEMMA InvStart == Init => IInv
<1>. SUFFICES ASSUME Init PROVE IInv
  BY Zenon
<1>1. [op |-> "stop", kernel |-> None, policy |-> None] \in AllCalls
  BY Zenon DEF AllCalls
<1>2. TypeOK
  <2>1. mainQueue \in Seq(Requests) /\ vsockConnections \in SUBSET Requests
    BY DEF Init
  <2>2. call \in [Requests -> AllCalls]
    BY <1>1, Zenon DEF Init
  <2>3. running \in BOOLEAN /\ bootTime \in BOOLEAN
    BY Zenon DEF Init
  <2>. QED
    BY <2>1, <2>2, <2>3, Zenon DEF Init, TypeOK
<1>3. QueueInv
  BY DEF Init, QueueInv
<1>4. HandlerInv /\ VmInv /\ StopInv
  BY Zenon DEF Init, HandlerInv, VmInv, StopInv, IsBoot
<1>5. RunningHasCause /\ StartIsConfigured
  BY Zenon DEF Init, RunningHasCause, StartIsConfigured
<1>. QED
  BY <1>2, <1>3, <1>4, <1>5, Zenon DEF IInv

\* Every step keeps it.
LEMMA InvNext == IInv /\ [Next]_vars => IInv'
  BY TypeStep, HandlerStepInv, QueueStepInv, VmStepInv, StopStepInv,
     CauseStepInv, ConfiguredStepInv, Zenon DEF IInv

\* The inductive invariant holds in every reachable state.
THEOREM Invariance == Spec => []IInv
  BY InvStart, InvNext, PTL DEF Spec

\* Every variable keeps its type, whatever the calls and the faults.
THEOREM TypeCorrect == Spec => []TypeOK
<1>1. IInv => TypeOK
  BY Zenon DEF IInv
<1>. QED
  BY <1>1, Invariance, PTL

\* A boot or stop handler that answers success tells the truth about its VM,
\* for any number of concurrent calls, any faults and any late callbacks.
THEOREM RepliesAreHonest == Spec => []HonestReplies
<1>1. IInv => HonestReplies
  BY Zenon DEF IInv, HandlerInv, VmInv, StopInv, HonestReplies
<1>. QED
  BY <1>1, Invariance, PTL

\* `running` is only ever true because some start reported success in time.
THEOREM RunningIsCaused == Spec => []RunningHasCause
<1>1. IInv => RunningHasCause
  BY Zenon DEF IInv
<1>. QED
  BY <1>1, Invariance, PTL

\* start() always finds a configuration.
THEOREM StartsAreConfigured == Spec => []StartIsConfigured
<1>1. IInv => StartIsConfigured
  BY Zenon DEF IInv
<1>. QED
  BY <1>1, Invariance, PTL

(***************************************************************************)
(* One client at a time.                                                   *)
(***************************************************************************)

\* A step of one client, whose boots do not outlive their timeout.
SoloStep ==
    /\ Next
    /\ \A r, s \in InFlight' : r = s
    /\ \A r \in Requests : IsBoot(call[r]) => reply'[r] # "timed_out"

\* No VM is up and no connection is kept.
Down == vsockConnections = {} /\ \A v \in Requests : ~Live(v)

\* The boot whose VM is coming up, or has and is not yet known to run.
Rising(r) == pc[r] \in {"wait_start", "set_running"} /\ block[r] \in {"in_flight", "ok"}

\* The stop whose VM has stopped and is still said to run.
Falling(r) == pc[r] \in {"wait_stop", "clear_running"} /\ block[r] = "ok"

\* One boot or stop at a time.
SoloInv == \A r, s \in InFlight : r = s

\* A boot has its handler until its start has completed, and goes on only
\* while no VM is said to run.
PlaceInv ==
    \A r \in Requests :
        /\ IsBoot(call[r]) /\ block[r] \in {"queued", "in_flight"} => pc[r] = "wait_start"
        /\ pc[r] \in {"policy", "configure", "start", "wait_start", "set_running"} => ~running

\* Only the current machine is up or has connections, and one that is up is
\* said to run, or its boot is about to say so.
EngineInv ==
    /\ \A v \in Requests : Live(v) => machine = v
    /\ \A c \in vsockConnections : target[c] = machine /\ block[c] \in {"ok", "err"}
    /\ \A r \in Requests : call[r].op = "connect" /\ block[r] = "in_flight" => target[r] # None
    /\ \A r \in Requests : pc[r] = "wait_start" /\ block[r] = "in_flight" =>
           vm[r] = "starting" /\ vsockConnections = {}
    /\ \A r \in Requests : Falling(r) => Down
    /\ ~running => Down \/ \E r \in Requests : Rising(r)

\* A step of one client whose calls do not time out, with a guest that does
\* not stop by itself.
OrdinaryStep ==
    /\ SoloStep
    /\ \A r \in Requests : reply'[r] # "timed_out"
    /\ ~\E v \in Requests : GuestDidStop(v)

\* Without timeouts every block has its handler, which finds `running` and the
\* configuration as it left them.
OrdinaryPlaceInv ==
    \A r \in Requests :
        /\ block[r] \in {"queued", "in_flight"} => pc[r] \in {"wait_start", "wait_stop", "wait_connect"}
        /\ pc[r] \in {"stop", "wait_stop", "clear_running", "set_boot_time", "set_kernel_path"} => running
        /\ pc[r] = "clear_boot_time" => ~running
        /\ pc[r] = "start" => config = KernelOf(call[r])
        /\ pc[r] = "wait_start" => captured[r] = KernelOf(call[r])

\* VmState agrees with the engine but for what the call at hand has yet to store.
OrdinaryEngineInv ==
    /\ \A v \in Requests : vm[v] # "none" => vmKernel[v] # None
    /\ \A r \in Requests : Rising(r) \/ pc[r] \in {"set_boot_time", "set_kernel_path"} =>
           machine = r /\ vmKernel[r] = KernelOf(call[r]) /\ (block[r] = "ok" => vm[r] = "running")
    /\ running =>
           \/ \E r \in Requests : Falling(r)
           \/ /\ machine # None /\ vm[machine] = "running"
              /\ \/ kernelPath = vmKernel[machine]
                 \/ \E r \in Requests : pc[r] \in {"set_boot_time", "set_kernel_path"}
    /\ bootTime = running \/ \E r \in Requests : pc[r] \in {"set_boot_time", "clear_boot_time"}

\* A step of one client keeps what is known of where its call is.
LEMMA PlaceStep ==
    ASSUME TypeOK, HandlerInv, QueueInv, SoloInv, PlaceInv, SoloStep
    PROVE  PlaceInv'
<1>. USE DEF vars, stateVars, engineVars, vmVars, reqVars
<1>1. CASE \E r \in Requests, c \in Calls : BootCheck(r, c)
    BY <1>1 DEF BootCheck, Goto, Answer, TypeOK, HandlerInv, PlaceInv
<1>2. CASE \E r \in Requests, c \in Calls : StopCheck(r, c)
    BY <1>2 DEF StopCheck, Goto, Answer, TypeOK, PlaceInv, IsBoot
<1>2a. CASE \E r \in Requests : DispatchStop(r)
  <2>1. PICK r \in Requests : DispatchStop(r)
    BY <1>2a, Zenon
  <2>2. ~IsBoot(call[r])
    BY <2>1, DispatchStopMoves DEF HandlerInv, IsBoot
  <2>. QED
    BY <2>1, <2>2, DispatchStopMoves, Zenon DEF PlaceInv, IsBoot
<1>3. CASE \E r \in Requests, c \in Calls : ConnectVsock(r, c)
    BY <1>3 DEF ConnectVsock, Dispatch, Goto, TypeOK, PlaceInv, IsBoot
<1>4. CASE \E r \in Requests : WritePolicy(r)
    BY <1>4 DEF WritePolicy, Goto, TypeOK, PlaceInv
<1>5. CASE \E r \in Requests : Configure(r)
    BY <1>5 DEF Configure, Goto, Answer, TypeOK, PlaceInv
<1>6. CASE \E r \in Requests : Start(r)
    BY <1>6 DEF Start, Goto, Answer, Dispatch, TypeOK, PlaceInv
<1>7. CASE \E r \in Requests : StartReturns(r)
    BY <1>7 DEF StartReturns, Goto, Answer, Signalled, TypeOK, PlaceInv
<1>8. CASE \E r \in Requests : StopReturns(r)
    BY <1>8 DEF StopReturns, Goto, Answer, Signalled, TypeOK, PlaceInv
<1>9. CASE \E r \in Requests : ConnectReturns(r)
    BY <1>9 DEF ConnectReturns, Answer, Signalled, TypeOK, PlaceInv
<1>10. CASE \E r \in Requests : TimesOut(r)
  <2>1. PICK r \in Requests : TimesOut(r)
    BY <1>10, Zenon
  <2>2. ~IsBoot(call[r])
    BY <2>1, Zenon DEF SoloStep, TimesOut, Answer, TypeOK
  <2>. QED
    BY <2>1, <2>2 DEF TimesOut, Answer, Signalled, TypeOK, HandlerInv, PlaceInv
<1>11. CASE \E r \in Requests : SetRunning(r)
  <2>1. PICK r \in Requests : SetRunning(r)
    BY <1>11, Zenon
  <2>2. pc[r] = "set_running" /\ UNCHANGED <<call, block>>
    BY <2>1, Zenon DEF SetRunning
  <2>3. pc'[r] = "set_boot_time" /\ \A s \in Requests : s # r => pc'[s] = pc[s]
    BY <2>1, Zenon DEF SetRunning, Goto, TypeOK
  <2>4. \A s \in Requests : s # r => pc[s] \in {"idle", "wait_connect", "done"}
    BY <2>2, Zenon DEF SoloInv, InFlight
  <2>. QED
    BY <2>2, <2>3, <2>4, Zenon DEF PlaceInv
<1>12. CASE \E r \in Requests : SetBootTime(r)
    BY <1>12 DEF SetBootTime, Goto, TypeOK, PlaceInv
<1>13. CASE \E r \in Requests : SetKernelPath(r)
    BY <1>13 DEF SetKernelPath, Answer, TypeOK, PlaceInv
<1>14. CASE \E r \in Requests : ClearRunning(r)
    BY <1>14 DEF ClearRunning, Goto, TypeOK, PlaceInv
<1>15. CASE \E r \in Requests : ClearBootTime(r)
    BY <1>15 DEF ClearBootTime, Answer, TypeOK, PlaceInv
<1>16. CASE \E r \in Requests : StartSucceeds(r)
    BY <1>16 DEF StartSucceeds, Signal, TypeOK, PlaceInv
<1>17. CASE \E r \in Requests : StartFails(r)
    BY <1>17 DEF StartFails, Signal, TypeOK, PlaceInv
<1>18. CASE \E r \in Requests : StopSucceeds(r)
    BY <1>18 DEF StopSucceeds, Signal, TypeOK, PlaceInv
<1>19. CASE \E r \in Requests : StopFails(r)
    BY <1>19 DEF StopFails, Signal, TypeOK, PlaceInv
<1>20. CASE \E r \in Requests : ConnectSucceeds(r)
    BY <1>20 DEF ConnectSucceeds, Signal, TypeOK, PlaceInv
<1>21. CASE \E r \in Requests : ConnectFails(r)
    BY <1>21 DEF ConnectFails, Signal, TypeOK, PlaceInv
<1>22. CASE MainStart
  <2>1. Head(mainQueue) \in Requests /\ block[Head(mainQueue)] = "queued"
    BY <1>22 DEF MainStart, TypeOK, QueueInv
  <2>. QED
    BY <1>22, <2>1, Zenon DEF MainStart, Signal, TypeOK, PlaceInv
<1>23. CASE \E op \in {"stop", "connect"} : MainUse(op)
  <2>1. Head(mainQueue) \in Requests /\ block[Head(mainQueue)] = "queued"
    BY <1>23 DEF MainUse, TypeOK, QueueInv
  <2>. QED
    BY <1>23, <2>1 DEF MainUse, Signal, TypeOK, PlaceInv
<1>24. CASE \E v \in Requests : GuestDidStop(v)
    BY <1>24 DEF GuestDidStop, TypeOK, PlaceInv
<1>25. CASE \E v \in Requests : ReleaseVm(v)
    BY <1>25 DEF ReleaseVm, TypeOK, PlaceInv
<1>26. CASE \E v \in Requests : GuestLoadsPolicy(v)
    BY <1>26 DEF GuestLoadsPolicy, TypeOK, PlaceInv
<1>27. CASE UNCHANGED vars
    BY <1>27, Zenon DEF vars, TypeOK, PlaceInv
<1>28. QED
    BY <1>1, <1>2, <1>2a, <1>3, <1>4, <1>5, <1>6, <1>7, <1>8, <1>9, <1>10, <1>11,
       <1>12, <1>13, <1>14, <1>15, <1>16, <1>17, <1>18, <1>19, <1>20, <1>21,
       <1>22, <1>23, <1>24, <1>25, <1>26, <1>27, Zenon DEF SoloStep, Next,
       HandlerStep, Completion, MainQueueStep, Exhausted

\* A step of one client keeps track of the engine.
LEMMA EngineStep ==
    ASSUME TypeOK, HandlerInv, QueueInv, VmInv, StopInv, SoloInv,
           PlaceInv, EngineInv, SoloStep
    PROVE  EngineInv'
<1>. USE DEF vars, stateVars, engineVars, vmVars, reqVars
<1>1. CASE \E r \in Requests, c \in Calls : BootCheck(r, c)
    BY <1>1 DEF BootCheck, Goto, Answer, TypeOK, HandlerInv, EngineInv, Live,
       Down, Rising, Falling
<1>2. CASE \E r \in Requests, c \in Calls : StopCheck(r, c)
  <2>1. PICK r \in Requests, c \in Calls : StopCheck(r, c)
    BY <1>2, Zenon
  <2>2. /\ pc[r] = "idle" /\ block[r] = "none" /\ call'[r].op = "stop"
        /\ pc'[r] \in {"stop", "done"}
        /\ \A s \in Requests : s # r => pc'[s] = pc[s] /\ call'[s] = call[s]
        /\ UNCHANGED <<running, machine, vsockConnections, vm, target, block>>
    BY <2>1, StopCheckMoves, Zenon DEF HandlerInv
  <2>3. \A s \in Requests : /\ Rising(s) => Rising(s)'
                            /\ Falling(s)' => Falling(s)
    BY <2>2, Zenon DEF Rising, Falling
  <2>4. (Down => Down') /\ \A s \in Requests : Live(s)' <=> Live(s)
    BY <2>2, Zenon DEF Down, Live
  <2>. QED
    BY <2>2, <2>3, <2>4, Zenon DEF EngineInv
<1>2a. CASE \E r \in Requests : DispatchStop(r)
  <2>1. PICK r \in Requests : DispatchStop(r)
    BY <1>2a, Zenon
  <2>2. /\ pc[r] = "stop" /\ block[r] = "none"
        /\ pc'[r] = "wait_stop" /\ block'[r] = "queued"
        /\ \A s \in Requests : s # r => pc'[s] = pc[s] /\ block'[s] = block[s]
        /\ UNCHANGED <<running, machine, vsockConnections, vm, call, target>>
    BY <2>1, DispatchStopMoves, Zenon DEF HandlerInv
  <2>3. \A s \in Requests : /\ Rising(s) => Rising(s)'
                            /\ Falling(s)' => Falling(s)
    BY <2>2, Zenon DEF Rising, Falling
  <2>4. (Down => Down') /\ \A s \in Requests : Live(s)' <=> Live(s)
    BY <2>2, Zenon DEF Down, Live
  <2>5. \A s \in vsockConnections : s # r
    BY <2>2, Zenon DEF EngineInv
  <2>6. vsockConnections \subseteq Requests
    BY Zenon DEF TypeOK
  <2>. QED
    BY <2>2, <2>3, <2>4, <2>5, <2>6, Zenon DEF EngineInv
<1>3. CASE \E r \in Requests, c \in Calls : ConnectVsock(r, c)
    BY <1>3 DEF ConnectVsock, Dispatch, Goto, TypeOK, HandlerInv, EngineInv, Live,
       Down, Rising, Falling
<1>4. CASE \E r \in Requests : WritePolicy(r)
    BY <1>4 DEF WritePolicy, Goto, TypeOK, EngineInv, Live, Down, Rising, Falling
<1>5. CASE \E r \in Requests : Configure(r)
    BY <1>5 DEF Configure, Goto, Answer, TypeOK, EngineInv, Live, Down, Rising,
       Falling
<1>6. CASE \E r \in Requests : Start(r)
  <2>1. PICK r \in Requests : Start(r)
    BY <1>6, Zenon
  <2>2. /\ pc[r] = "start" /\ block[r] = "none"
        /\ pc'[r] \in {"wait_start", "done"} /\ block'[r] \in {"none", "queued"}
        /\ \A s \in Requests : s # r => pc'[s] = pc[s] /\ block'[s] = block[s]
        /\ UNCHANGED <<running, machine, vsockConnections, vm, call, target>>
    BY <2>1, StartMoves, Zenon DEF HandlerInv
  <2>3. \A s \in Requests : /\ Rising(s) => Rising(s)'
                            /\ Falling(s)' => Falling(s)
    BY <2>2, Zenon DEF Rising, Falling
  <2>4. (Down => Down') /\ \A s \in Requests : Live(s)' <=> Live(s)
    BY <2>2, Zenon DEF Down, Live
  <2>5. \A s \in vsockConnections : s # r
    BY <2>2, Zenon DEF EngineInv
  <2>6. vsockConnections \subseteq Requests
    BY Zenon DEF TypeOK
  <2>. QED
    BY <2>2, <2>3, <2>4, <2>5, <2>6, Zenon DEF EngineInv
<1>7. CASE \E r \in Requests : StartReturns(r)
    BY <1>7 DEF StartReturns, Goto, Answer, Signalled, TypeOK, EngineInv, Live,
       Down, Rising, Falling
<1>8. CASE \E r \in Requests : StopReturns(r)
    BY <1>8 DEF StopReturns, Goto, Answer, Signalled, TypeOK, EngineInv, Live,
       Down, Rising, Falling
<1>9. CASE \E r \in Requests : ConnectReturns(r)
    BY <1>9 DEF ConnectReturns, Answer, Signalled, TypeOK, EngineInv, Live, Down,
       Rising, Falling
<1>10. CASE \E r \in Requests : TimesOut(r)
  <2>1. PICK r \in Requests : TimesOut(r)
    BY <1>10, Zenon
  <2>2. ~IsBoot(call[r])
    BY <2>1, Zenon DEF SoloStep, TimesOut, Answer, TypeOK
  <2>. QED
    BY <2>1, <2>2 DEF TimesOut, Answer, Signalled, TypeOK, HandlerInv, EngineInv,
       Live, Down, Rising, Falling
<1>11. CASE \E r \in Requests : SetRunning(r)
    BY <1>11 DEF SetRunning, Goto, TypeOK, EngineInv, Live, Down, Rising, Falling
<1>12. CASE \E r \in Requests : SetBootTime(r)
    BY <1>12 DEF SetBootTime, Goto, TypeOK, EngineInv, Live, Down, Rising, Falling
<1>13. CASE \E r \in Requests : SetKernelPath(r)
    BY <1>13 DEF SetKernelPath, Answer, TypeOK, EngineInv, Live, Down, Rising,
       Falling
<1>14. CASE \E r \in Requests : ClearRunning(r)
    BY <1>14 DEF ClearRunning, Goto, TypeOK, HandlerInv, EngineInv, Live, Down,
       Rising, Falling
<1>15. CASE \E r \in Requests : ClearBootTime(r)
    BY <1>15 DEF ClearBootTime, Answer, TypeOK, EngineInv, Live, Down, Rising,
       Falling
<1>16. CASE \E r \in Requests : StartSucceeds(r)
    BY <1>16 DEF StartSucceeds, Signal, TypeOK, VmInv, PlaceInv, EngineInv, Live,
       Down, Rising, Falling
<1>17. CASE \E r \in Requests : StartFails(r)
    BY <1>17 DEF StartFails, Signal, TypeOK, HandlerInv, EngineInv, Live, Down,
       Rising, Falling
<1>18. CASE \E r \in Requests : StopSucceeds(r)
  <2>1. PICK r \in Requests : StopSucceeds(r)
    BY <1>18, Zenon
  <2>2. target[r] \in Requests /\ machine = target[r]
    BY <2>1 DEF StopSucceeds, TypeOK, StopInv, EngineInv, Live
  <2>3. Down'
    BY <2>1, <2>2 DEF StopSucceeds, TypeOK, EngineInv, Live, Down
  <2>4. \A s \in Requests : ~(pc'[s] = "wait_start" /\ block'[s] = "in_flight")
    BY <2>1, <2>2 DEF StopSucceeds, Signal, TypeOK, EngineInv, Live
  <2>5. \A s \in Requests : call'[s].op = "connect" /\ block'[s] = "in_flight" => target'[s] # None
    BY <2>1 DEF StopSucceeds, Signal, TypeOK, EngineInv
  <2>. QED
    BY <2>3, <2>4, <2>5, Zenon DEF EngineInv, Down
<1>19. CASE \E r \in Requests : StopFails(r)
  <2>1. PICK r \in Requests : StopFails(r)
    BY <1>19, Zenon
  <2>2. /\ block[r] = "in_flight" /\ call[r].op = "stop"
        /\ block'[r] = "err" /\ \A s \in Requests : s # r => block'[s] = block[s]
        /\ UNCHANGED <<running, machine, vsockConnections, vm, pc, call, target>>
    BY <2>1, Zenon DEF StopFails, Signal, TypeOK
  <2>3. pc[r] \notin {"wait_start", "set_running"} /\ r \notin vsockConnections
    BY <2>2, Zenon DEF HandlerInv, EngineInv, IsBoot
  <2>4. \A s \in Requests : /\ Rising(s) => Rising(s)'
                            /\ Falling(s)' => Falling(s)
    BY <2>2, <2>3, Zenon DEF Rising, Falling
  <2>5. (Down => Down') /\ \A s \in Requests : Live(s)' <=> Live(s)
    BY <2>2, Zenon DEF Down, Live
  <2>6. vsockConnections \subseteq Requests
    BY Zenon DEF TypeOK
  <2>. QED
    BY <2>2, <2>3, <2>4, <2>5, <2>6, Zenon DEF EngineInv
<1>20. CASE \E r \in Requests : ConnectSucceeds(r)
  <2>1. PICK r \in Requests : ConnectSucceeds(r)
    BY <1>20, Zenon
  <2>2. target[r] \in Requests /\ machine = target[r] /\ Live(target[r])
    BY <2>1 DEF ConnectSucceeds, TypeOK, EngineInv, Live
  <2>3. \A s \in Requests : ~Falling(s) /\ ~(pc[s] = "wait_start" /\ block[s] = "in_flight")
    BY <2>1, <2>2, Zenon DEF ConnectSucceeds, TypeOK, EngineInv, Live, Down
  <2>4. ~running => \E s \in Requests : Rising(s)
    BY <2>2, Zenon DEF EngineInv, Down
  <2>5. \A s \in Requests : s # r => block'[s] = block[s]
    BY <2>1 DEF ConnectSucceeds, Signal, TypeOK
  <2>6. block'[r] \in {"ok", "err"} /\ pc[r] \notin {"wait_start", "wait_stop", "clear_running", "set_running"}
    <3>1. call[r].op = "connect" /\ (block' = [block EXCEPT ![r] = "ok"] \/ block' = [block EXCEPT ![r] = "err"])
      BY <2>1, Zenon DEF ConnectSucceeds, Signal
    <3>2. block[r] = "in_flight" /\ block'[r] \in {"ok", "err"}
      BY <2>1, <3>1, Zenon DEF ConnectSucceeds, TypeOK
    <3>. QED
      BY <3>1, <3>2, Zenon DEF HandlerInv, IsBoot
  <2>7. vsockConnections' = vsockConnections \cup {r} /\ UNCHANGED <<running, machine, vm, pc, call, target>>
    BY <2>1, Zenon DEF ConnectSucceeds
  <2>8. \A s \in Requests : /\ Rising(s) => Rising(s)'
                            /\ ~Falling(s)' /\ ~(pc'[s] = "wait_start" /\ block'[s] = "in_flight")
    BY <2>3, <2>5, <2>6, <2>7, Zenon DEF Rising, Falling
  <2>9. vsockConnections \subseteq Requests /\ \A s \in Requests : Live(s)' <=> Live(s)
    BY <2>7, Zenon DEF TypeOK, Live
  <2>. QED
    BY <2>2, <2>4, <2>5, <2>6, <2>7, <2>8, <2>9, Zenon DEF EngineInv
<1>21. CASE \E r \in Requests : ConnectFails(r)
    BY <1>21 DEF ConnectFails, Signal, TypeOK, HandlerInv, EngineInv, IsBoot,
       Live, Down, Rising, Falling
<1>22. CASE MainStart
  <2>1. PICK r \in Requests : r = Head(mainQueue)
    BY <1>22 DEF MainStart, TypeOK
  <2>2. /\ block[r] = "queued" /\ IsBoot(call[r]) /\ machine' = r /\ vm' = [vm EXCEPT ![r] = "starting"]
        /\ block' = [block EXCEPT ![r] = "in_flight"]
        /\ UNCHANGED <<running, vsockConnections, target, pc, call>>
    BY <1>22, <2>1 DEF MainStart, Signal, TypeOK, QueueInv
  <2>3. pc[r] = "wait_start" /\ ~running
    BY <2>2, Zenon DEF PlaceInv
  <2>4. \A s \in Requests : s # r => pc[s] \in {"idle", "wait_connect", "done"}
    BY <2>3, Zenon DEF SoloInv, InFlight
  <2>5. Down
    BY <2>2, <2>3, <2>4, Zenon DEF EngineInv, Rising
  <2>6. Rising(r)'
    BY <2>2, <2>3, Zenon DEF Rising, TypeOK
  <2>. QED
    <3>1. \A v \in Requests : Live(v)' => v = r
      BY <2>2, <2>5, Zenon DEF TypeOK, Live, Down
    <3>2. vsockConnections' = {} /\ vm'[r] = "starting"
      BY <2>2, <2>5, Zenon DEF TypeOK, Down
    <3>3. \A s \in Requests : pc'[s] = "wait_start" => s = r
      BY <2>2, <2>4, Zenon
    <3>4. \A s \in Requests : ~Falling(s)'
      BY <2>2, <2>3, <2>4, Zenon DEF Falling
    <3>5. \A s \in Requests : s # r => block'[s] = block[s]
      BY <2>2, Zenon DEF TypeOK
    <3>6. call[r].op # "connect"
      BY <2>2, Zenon DEF IsBoot
    <3>. QED
      BY <2>2, <2>6, <3>1, <3>2, <3>3, <3>4, <3>5, <3>6, Zenon DEF EngineInv
<1>23. CASE \E op \in {"stop", "connect"} : MainUse(op)
  <2>1. PICK r \in Requests : r = Head(mainQueue)
    BY <1>23 DEF MainUse, TypeOK
  <2>2. /\ block[r] = "queued" /\ call[r].op \in {"stop", "connect"}
        /\ \A s \in Requests : s # r => block'[s] = block[s] /\ target'[s] = target[s]
        /\ block'[r] = "err" \/ (block'[r] = "in_flight" /\ target'[r] = machine /\ machine # None)
        /\ UNCHANGED <<running, machine, vsockConnections, vm, pc, call>>
    BY <1>23, <2>1 DEF MainUse, Signal, TypeOK, QueueInv
  <2>3. r \notin vsockConnections /\ pc[r] \notin {"wait_start", "set_running"}
    BY <2>2, Zenon DEF EngineInv, HandlerInv, IsBoot
  <2>4. \A s \in Requests : /\ Rising(s) => Rising(s)'
                            /\ Falling(s)' => Falling(s)
    BY <2>2, <2>3, Zenon DEF Rising, Falling
  <2>5. (Down => Down') /\ \A s \in Requests : Live(s)' <=> Live(s)
    BY <2>2, Zenon DEF Down, Live
  <2>6. vsockConnections \subseteq Requests
    BY Zenon DEF TypeOK
  <2>. QED
    BY <2>2, <2>3, <2>4, <2>5, <2>6, Zenon DEF EngineInv
<1>24. CASE \E v \in Requests : GuestDidStop(v)
    BY <1>24 DEF GuestDidStop, TypeOK, EngineInv, Live, Down, Rising, Falling
<1>25. CASE \E v \in Requests : ReleaseVm(v)
    BY <1>25, Zenon DEF ReleaseVm, TypeOK, EngineInv, Live, Down, Rising, Falling
<1>26. CASE \E v \in Requests : GuestLoadsPolicy(v)
    BY <1>26 DEF GuestLoadsPolicy, TypeOK, EngineInv, Live, Down, Rising, Falling
<1>27. CASE UNCHANGED vars
    BY <1>27, Zenon DEF vars, TypeOK, EngineInv, Live, Down, Rising, Falling
<1>28. QED
    BY <1>1, <1>2, <1>2a, <1>3, <1>4, <1>5, <1>6, <1>7, <1>8, <1>9, <1>10, <1>11,
       <1>12, <1>13, <1>14, <1>15, <1>16, <1>17, <1>18, <1>19, <1>20, <1>21,
       <1>22, <1>23, <1>24, <1>25, <1>26, <1>27, Zenon DEF SoloStep, Next,
       HandlerStep, Completion, MainQueueStep, Exhausted

\* A step without timeouts keeps the handlers informed.
LEMMA OrdinaryPlaceStep ==
    ASSUME TypeOK, HandlerInv, QueueInv, SoloInv, OrdinaryPlaceInv, OrdinaryStep
    PROVE  OrdinaryPlaceInv'
<1>. USE DEF vars, stateVars, engineVars, vmVars, reqVars
<1>1. CASE \E r \in Requests, c \in Calls : BootCheck(r, c)
    BY <1>1 DEF BootCheck, Goto, Answer, TypeOK, OrdinaryPlaceInv
<1>2. CASE \E r \in Requests, c \in Calls : StopCheck(r, c)
    BY <1>2 DEF StopCheck, Goto, Answer, TypeOK, OrdinaryPlaceInv
<1>2a. CASE \E r \in Requests : DispatchStop(r)
  <2>1. PICK r \in Requests : DispatchStop(r)
    BY <1>2a, Zenon
  <2>. QED
    BY <2>1, DispatchStopMoves DEF OrdinaryPlaceInv
<1>3. CASE \E r \in Requests, c \in Calls : ConnectVsock(r, c)
    BY <1>3 DEF ConnectVsock, Dispatch, Goto, TypeOK, OrdinaryPlaceInv
<1>4. CASE \E r \in Requests : WritePolicy(r)
    BY <1>4 DEF WritePolicy, Goto, TypeOK, OrdinaryPlaceInv
<1>5. CASE \E r \in Requests : Configure(r)
  <2>1. PICK r \in Requests : Configure(r)
    BY <1>5, Zenon
  <2>2. /\ pc[r] = "configure" /\ UNCHANGED <<running, call, captured, block>>
        /\ \A s \in Requests : s # r => pc'[s] = pc[s]
        /\ pc'[r] = "done" \/ (pc'[r] = "start" /\ config' = KernelOf(call[r]))
    BY <2>1, Zenon DEF Configure, Goto, Answer, TypeOK
  <2>3. \A s \in Requests : s # r => pc[s] \in {"idle", "wait_connect", "done"}
    BY <2>2, Zenon DEF SoloInv, InFlight
  <2>. QED
    BY <2>2, <2>3, Zenon DEF OrdinaryPlaceInv
<1>6. CASE \E r \in Requests : Start(r)
    BY <1>6 DEF Start, Goto, Answer, Dispatch, TypeOK, OrdinaryPlaceInv
<1>7. CASE \E r \in Requests : StartReturns(r)
    BY <1>7 DEF StartReturns, Goto, Answer, Signalled, TypeOK, OrdinaryPlaceInv
<1>8. CASE \E r \in Requests : StopReturns(r)
    BY <1>8 DEF StopReturns, Goto, Answer, Signalled, TypeOK, OrdinaryPlaceInv
<1>9. CASE \E r \in Requests : ConnectReturns(r)
    BY <1>9 DEF ConnectReturns, Answer, Signalled, TypeOK, OrdinaryPlaceInv
<1>10. CASE \E r \in Requests : TimesOut(r)
    BY <1>10 DEF TimesOut, Answer, TypeOK, OrdinaryStep
<1>11. CASE \E r \in Requests : SetRunning(r)
  <2>1. PICK r \in Requests : SetRunning(r)
    BY <1>11, Zenon
  <2>2. pc[r] = "set_running" /\ running' = TRUE /\ UNCHANGED <<call, block, config, captured>>
    BY <2>1, Zenon DEF SetRunning
  <2>3. pc'[r] = "set_boot_time" /\ \A s \in Requests : s # r => pc'[s] = pc[s]
    BY <2>1, Zenon DEF SetRunning, Goto, TypeOK
  <2>4. \A s \in Requests : s # r => pc[s] \in {"idle", "wait_connect", "done"}
    BY <2>2, Zenon DEF SoloInv, InFlight
  <2>. QED
    BY <2>2, <2>3, <2>4, Zenon DEF OrdinaryPlaceInv
<1>12. CASE \E r \in Requests : SetBootTime(r)
    BY <1>12 DEF SetBootTime, Goto, TypeOK, OrdinaryPlaceInv
<1>13. CASE \E r \in Requests : SetKernelPath(r)
    BY <1>13 DEF SetKernelPath, Answer, TypeOK, OrdinaryPlaceInv
<1>14. CASE \E r \in Requests : ClearRunning(r)
  <2>1. PICK r \in Requests : ClearRunning(r)
    BY <1>14, Zenon
  <2>2. pc[r] = "clear_running" /\ running' = FALSE /\ UNCHANGED <<call, block, config, captured>>
    BY <2>1, Zenon DEF ClearRunning
  <2>3. pc'[r] = "clear_boot_time" /\ \A s \in Requests : s # r => pc'[s] = pc[s]
    BY <2>1, Zenon DEF ClearRunning, Goto, TypeOK
  <2>4. \A s \in Requests : s # r => pc[s] \in {"idle", "wait_connect", "done"}
    BY <2>2, Zenon DEF SoloInv, InFlight
  <2>. QED
    BY <2>2, <2>3, <2>4, Zenon DEF OrdinaryPlaceInv
<1>15. CASE \E r \in Requests : ClearBootTime(r)
    BY <1>15 DEF ClearBootTime, Answer, TypeOK, OrdinaryPlaceInv
<1>16. CASE \E r \in Requests : StartSucceeds(r)
    BY <1>16 DEF StartSucceeds, Signal, TypeOK, OrdinaryPlaceInv
<1>17. CASE \E r \in Requests : StartFails(r)
    BY <1>17 DEF StartFails, Signal, TypeOK, OrdinaryPlaceInv
<1>18. CASE \E r \in Requests : StopSucceeds(r)
    BY <1>18 DEF StopSucceeds, Signal, TypeOK, OrdinaryPlaceInv
<1>19. CASE \E r \in Requests : StopFails(r)
    BY <1>19 DEF StopFails, Signal, TypeOK, OrdinaryPlaceInv
<1>20. CASE \E r \in Requests : ConnectSucceeds(r)
    BY <1>20 DEF ConnectSucceeds, Signal, TypeOK, OrdinaryPlaceInv
<1>21. CASE \E r \in Requests : ConnectFails(r)
    BY <1>21 DEF ConnectFails, Signal, TypeOK, OrdinaryPlaceInv
<1>22. CASE MainStart
  <2>1. Head(mainQueue) \in Requests /\ block[Head(mainQueue)] = "queued"
    BY <1>22 DEF MainStart, TypeOK, QueueInv
  <2>. QED
    BY <1>22, <2>1, Zenon DEF MainStart, Signal, TypeOK, OrdinaryPlaceInv
<1>23. CASE \E op \in {"stop", "connect"} : MainUse(op)
  <2>1. Head(mainQueue) \in Requests /\ block[Head(mainQueue)] = "queued"
    BY <1>23 DEF MainUse, TypeOK, QueueInv
  <2>. QED
    BY <1>23, <2>1 DEF MainUse, Signal, TypeOK, OrdinaryPlaceInv
<1>24. CASE \E v \in Requests : GuestDidStop(v)
    BY <1>24 DEF GuestDidStop, TypeOK, OrdinaryPlaceInv
<1>25. CASE \E v \in Requests : ReleaseVm(v)
    BY <1>25 DEF ReleaseVm, TypeOK, OrdinaryPlaceInv
<1>26. CASE \E v \in Requests : GuestLoadsPolicy(v)
    BY <1>26 DEF GuestLoadsPolicy, TypeOK, OrdinaryPlaceInv
<1>27. CASE UNCHANGED vars
    BY <1>27, Zenon DEF vars, TypeOK, OrdinaryPlaceInv
<1>28. QED
    BY <1>1, <1>2, <1>2a, <1>3, <1>4, <1>5, <1>6, <1>7, <1>8, <1>9, <1>10, <1>11,
       <1>12, <1>13, <1>14, <1>15, <1>16, <1>17, <1>18, <1>19, <1>20, <1>21,
       <1>22, <1>23, <1>24, <1>25, <1>26, <1>27, Zenon DEF OrdinaryStep, SoloStep,
       Next, HandlerStep, Completion, MainQueueStep, Exhausted

\* A step without timeouts keeps VmState and the engine in agreement.
LEMMA OrdinaryEngineStep ==
    ASSUME TypeOK, HandlerInv, QueueInv, VmInv, SoloInv, PlaceInv, EngineInv,
           OrdinaryPlaceInv, OrdinaryEngineInv, OrdinaryStep
    PROVE  OrdinaryEngineInv'
<1>. USE DEF vars, stateVars, engineVars, vmVars, reqVars
<1>1. CASE \E r \in Requests, c \in Calls : BootCheck(r, c)
    BY <1>1 DEF BootCheck, Goto, Answer, TypeOK, OrdinaryEngineInv, Rising, Falling
<1>2. CASE \E r \in Requests, c \in Calls : StopCheck(r, c)
  <2>1. PICK r \in Requests, c \in Calls : StopCheck(r, c)
    BY <1>2, Zenon
  <2>2. /\ pc[r] = "idle" /\ pc'[r] \in {"stop", "done"}
        /\ \A s \in Requests : s # r => pc'[s] = pc[s] /\ call'[s] = call[s]
        /\ UNCHANGED <<running, bootTime, kernelPath, machine, vm, vmKernel, block>>
    BY <2>1, StopCheckMoves, Zenon
  <2>. QED
    BY <2>2, Zenon DEF OrdinaryEngineInv, Rising, Falling
<1>2a. CASE \E r \in Requests : DispatchStop(r)
  <2>1. PICK r \in Requests : DispatchStop(r)
    BY <1>2a, Zenon
  <2>2. /\ pc[r] = "stop" /\ pc'[r] = "wait_stop" /\ block'[r] = "queued"
        /\ \A s \in Requests : s # r => pc'[s] = pc[s] /\ block'[s] = block[s]
        /\ UNCHANGED <<running, bootTime, kernelPath, machine, vm, vmKernel, call>>
    BY <2>1, DispatchStopMoves, Zenon
  <2>. QED
    BY <2>2, Zenon DEF OrdinaryEngineInv, Rising, Falling
<1>3. CASE \E r \in Requests, c \in Calls : ConnectVsock(r, c)
    BY <1>3 DEF ConnectVsock, Dispatch, Goto, TypeOK, OrdinaryEngineInv, Rising,
       Falling
<1>4. CASE \E r \in Requests : WritePolicy(r)
    BY <1>4 DEF WritePolicy, Goto, TypeOK, OrdinaryEngineInv, Rising, Falling
<1>5. CASE \E r \in Requests : Configure(r)
    BY <1>5 DEF Configure, Goto, Answer, TypeOK, OrdinaryEngineInv, Rising, Falling
<1>6. CASE \E r \in Requests : Start(r)
  <2>1. PICK r \in Requests : Start(r)
    BY <1>6, Zenon
  <2>2. /\ pc[r] = "start" /\ block[r] = "none"
        /\ pc'[r] \in {"wait_start", "done"} /\ block'[r] \in {"none", "queued"}
        /\ \A s \in Requests : s # r => pc'[s] = pc[s] /\ block'[s] = block[s]
        /\ UNCHANGED <<running, bootTime, kernelPath, machine, vm, vmKernel, call>>
    BY <2>1, StartMoves, Zenon DEF HandlerInv
  <2>. QED
    BY <2>2, Zenon DEF OrdinaryEngineInv, Rising, Falling
<1>7. CASE \E r \in Requests : StartReturns(r)
    BY <1>7 DEF StartReturns, Goto, Answer, Signalled, TypeOK, OrdinaryEngineInv,
       Rising, Falling
<1>8. CASE \E r \in Requests : StopReturns(r)
    BY <1>8 DEF StopReturns, Goto, Answer, Signalled, TypeOK, OrdinaryEngineInv,
       Rising, Falling
<1>9. CASE \E r \in Requests : ConnectReturns(r)
    BY <1>9 DEF ConnectReturns, Answer, Signalled, TypeOK, OrdinaryEngineInv,
       Rising, Falling
<1>10. CASE \E r \in Requests : TimesOut(r)
    BY <1>10 DEF TimesOut, Answer, TypeOK, OrdinaryStep
<1>11. CASE \E r \in Requests : SetRunning(r)
  <2>1. PICK r \in Requests : SetRunning(r)
    BY <1>11, Zenon
  <2>2. machine = r /\ vm[r] = "running" /\ r # None
    BY <2>1, LifecycleAssumption, Zenon DEF SetRunning, HandlerInv, OrdinaryEngineInv,
       Rising
  <2>3. pc'[r] = "set_boot_time" /\ \A s \in Requests : s # r => pc'[s] = pc[s]
    BY <2>1, Zenon DEF SetRunning, Goto, TypeOK
  <2>4. UNCHANGED <<kernelPath, machine, vm, vmKernel, block, call>>
    BY <2>1, Zenon DEF SetRunning
  <2>5. vmKernel[r] = KernelOf(call[r])
    BY <2>1, Zenon DEF SetRunning, HandlerInv, OrdinaryEngineInv, Rising
  <2>. QED
    BY <2>2, <2>3, <2>4, <2>5, Zenon DEF OrdinaryEngineInv, Rising
<1>12. CASE \E r \in Requests : SetBootTime(r)
  <2>1. PICK r \in Requests : SetBootTime(r)
    BY <1>12, Zenon
  <2>2. running' = TRUE /\ bootTime' = TRUE
    BY <2>1, Zenon DEF SetBootTime, TypeOK, OrdinaryPlaceInv
  <2>3. pc'[r] = "set_kernel_path" /\ \A s \in Requests : s # r => pc'[s] = pc[s]
    BY <2>1, Zenon DEF SetBootTime, Goto, TypeOK
  <2>4. pc[r] = "set_boot_time" /\ UNCHANGED <<running, kernelPath, machine, vm, vmKernel, block, call>>
    BY <2>1, Zenon DEF SetBootTime
  <2>. QED
    BY <2>2, <2>3, <2>4 DEF OrdinaryEngineInv, Rising, Falling
<1>13. CASE \E r \in Requests : SetKernelPath(r)
    BY <1>13 DEF SetKernelPath, Answer, TypeOK, OrdinaryEngineInv, Rising, Falling
<1>14. CASE \E r \in Requests : ClearRunning(r)
    BY <1>14 DEF ClearRunning, Goto, TypeOK, OrdinaryEngineInv, Rising, Falling
<1>15. CASE \E r \in Requests : ClearBootTime(r)
  <2>1. PICK r \in Requests : ClearBootTime(r)
    BY <1>15, Zenon
  <2>2. running' = FALSE /\ bootTime' = FALSE
    BY <2>1, Zenon DEF ClearBootTime, TypeOK, OrdinaryPlaceInv
  <2>. QED
    BY <2>1, <2>2, Zenon DEF ClearBootTime, Answer, TypeOK, OrdinaryEngineInv,
       Rising, Falling
<1>16. CASE \E r \in Requests : StartSucceeds(r)
    BY <1>16 DEF StartSucceeds, Signal, TypeOK, OrdinaryEngineInv, Rising, Falling
<1>17. CASE \E r \in Requests : StartFails(r)
    BY <1>17 DEF StartFails, Signal, TypeOK, OrdinaryEngineInv, Rising, Falling
<1>18. CASE \E r \in Requests : StopSucceeds(r)
  <2>1. PICK r \in Requests : StopSucceeds(r)
    BY <1>18, Zenon
  <2>2. /\ block[r] = "in_flight" /\ call[r].op = "stop"
        /\ block'[r] = "ok" /\ \A s \in Requests : s # r => block'[s] = block[s]
        /\ \A v \in Requests : vm'[v] # "none" => vm[v] # "none"
        /\ UNCHANGED <<running, bootTime, kernelPath, vmKernel, pc, call>>
    BY <2>1, Zenon DEF StopSucceeds, Signal, TypeOK
  <2>3. pc[r] = "wait_stop"
    BY <2>2, Zenon DEF HandlerInv, OrdinaryPlaceInv, IsBoot
  <2>4. \A s \in Requests : s # r => pc[s] \in {"idle", "wait_connect", "done"}
    BY <2>3, Zenon DEF SoloInv, InFlight
  <2>5. running /\ Falling(r)'
    BY <2>2, <2>3, Zenon DEF OrdinaryPlaceInv, Falling
  <2>. QED
    BY <2>2, <2>3, <2>4, <2>5, Zenon DEF OrdinaryEngineInv, Rising
<1>19. CASE \E r \in Requests : StopFails(r)
    BY <1>19 DEF StopFails, Signal, TypeOK, OrdinaryEngineInv, Rising, Falling
<1>20. CASE \E r \in Requests : ConnectSucceeds(r)
    BY <1>20 DEF ConnectSucceeds, Signal, TypeOK, EngineInv, OrdinaryEngineInv,
       Live, Rising, Falling
<1>21. CASE \E r \in Requests : ConnectFails(r)
    BY <1>21 DEF ConnectFails, Signal, TypeOK, OrdinaryEngineInv, Rising, Falling
<1>22. CASE MainStart
  <2>1. PICK r \in Requests : r = Head(mainQueue)
    BY <1>22 DEF MainStart, TypeOK
  <2>2. /\ block[r] = "queued" /\ IsBoot(call[r]) /\ machine' = r /\ vm' = [vm EXCEPT ![r] = "starting"]
        /\ block' = [block EXCEPT ![r] = "in_flight"] /\ vmKernel' = [vmKernel EXCEPT ![r] = captured[r]]
        /\ UNCHANGED <<running, bootTime, kernelPath, pc, call>>
    BY <1>22, <2>1 DEF MainStart, Signal, TypeOK, QueueInv
  <2>3. pc[r] = "wait_start" /\ ~running /\ captured[r] = KernelOf(call[r])
    BY <2>2, Zenon DEF PlaceInv, OrdinaryPlaceInv
  <2>4. \A s \in Requests : s # r => pc[s] \in {"idle", "wait_connect", "done"}
    BY <2>3, Zenon DEF SoloInv, InFlight
  <2>5. KernelOf(call[r]) # None
    BY KernelOfType, LifecycleAssumption DEF TypeOK
  <2>. QED
    <3>1. \A v \in Requests : v # r => vm'[v] = vm[v] /\ vmKernel'[v] = vmKernel[v]
      BY <2>2, Zenon DEF TypeOK
    <3>2. vmKernel'[r] = KernelOf(call[r]) /\ block'[r] = "in_flight"
      BY <2>2, <2>3, Zenon DEF TypeOK
    <3>3. \A s \in Requests : ~(Rising(s)' \/ pc'[s] \in {"set_boot_time", "set_kernel_path"}) \/ s = r
      BY <2>2, <2>4, Zenon DEF Rising
    <3>. QED
      BY <2>2, <2>3, <2>5, <3>1, <3>2, <3>3, Zenon DEF OrdinaryEngineInv
<1>23. CASE \E op \in {"stop", "connect"} : MainUse(op)
  <2>1. PICK r \in Requests : r = Head(mainQueue) /\ block[r] = "queued"
    BY <1>23 DEF MainUse, TypeOK, QueueInv
  <2>2. /\ call[r].op \in {"stop", "connect"}
        /\ block' = [block EXCEPT ![r] = "err"] \/ block' = [block EXCEPT ![r] = "in_flight"]
        /\ UNCHANGED <<running, bootTime, kernelPath, machine, vm, vmKernel, pc, call>>
    BY <1>23, <2>1, Zenon DEF MainUse, Signal
  <2>3. block'[r] \in {"err", "in_flight"} /\ \A s \in Requests : s # r => block'[s] = block[s]
    BY <2>2, Zenon DEF TypeOK
  <2>4. pc[r] \notin {"wait_start", "set_running", "set_boot_time", "set_kernel_path"}
    BY <2>2, Zenon DEF HandlerInv, IsBoot
  <2>5. \A s \in Requests : /\ Rising(s)' => Rising(s) /\ block'[s] = block[s]
                            /\ Falling(s) => Falling(s)'
                            /\ pc[s] \in {"set_boot_time", "set_kernel_path"} => block'[s] = block[s]
    BY <2>1, <2>2, <2>3, <2>4, Zenon DEF Rising, Falling
  <2>. QED
    BY <2>2, <2>5, Zenon DEF OrdinaryEngineInv
<1>24. CASE \E v \in Requests : GuestDidStop(v)
    BY <1>24, Zenon DEF OrdinaryStep
<1>25. CASE \E v \in Requests : ReleaseVm(v)
    BY <1>25 DEF ReleaseVm, TypeOK, OrdinaryEngineInv, Rising, Falling
<1>26. CASE \E v \in Requests : GuestLoadsPolicy(v)
    BY <1>26 DEF GuestLoadsPolicy, TypeOK, OrdinaryEngineInv, Rising, Falling
<1>27. CASE UNCHANGED vars
    BY <1>27, Zenon DEF vars, TypeOK, OrdinaryEngineInv, Rising, Falling
<1>28. QED
    BY <1>1, <1>2, <1>2a, <1>3, <1>4, <1>5, <1>6, <1>7, <1>8, <1>9, <1>10, <1>11,
       <1>12, <1>13, <1>14, <1>15, <1>16, <1>17, <1>18, <1>19, <1>20, <1>21,
       <1>22, <1>23, <1>24, <1>25, <1>26, <1>27, Zenon DEF OrdinaryStep, SoloStep,
       Next, HandlerStep, Completion, MainQueueStep, Exhausted

\* A step without timeouts is a step of the service, or none.
LEMMA ServiceStep ==
    ASSUME TypeOK, HandlerInv, QueueInv, VmInv, StopInv, SoloInv, PlaceInv, EngineInv,
           OrdinaryPlaceInv, OrdinaryEngineInv, OrdinaryStep,
           mode = "ordinary", UNCHANGED mode
    PROVE  [Service!Next]_(Service!vars)
<1>. USE DEF vars, stateVars, engineVars, vmVars, reqVars
<1>1. CASE \E r \in Requests, c \in Calls : BootCheck(r, c)
    BY <1>1 DEF BootCheck, Goto, Answer, TypeOK, Service!vars, Sandbox,
       Reported
<1>2. CASE \E r \in Requests, c \in Calls : StopCheck(r, c)
    BY <1>2 DEF StopCheck, Goto, Answer, TypeOK, Service!vars, Sandbox, Reported
<1>2a. CASE \E r \in Requests : DispatchStop(r)
    BY <1>2a DEF DispatchStop, Dispatch, Goto, TypeOK, Service!vars, Sandbox,
       Reported
<1>3. CASE \E r \in Requests, c \in Calls : ConnectVsock(r, c)
    BY <1>3 DEF ConnectVsock, Dispatch, Goto, TypeOK, Service!vars, Sandbox,
       Reported
<1>4. CASE \E r \in Requests : WritePolicy(r)
    BY <1>4 DEF WritePolicy, Goto, TypeOK, Service!vars, Sandbox, Reported
<1>5. CASE \E r \in Requests : Configure(r)
    BY <1>5 DEF Configure, Goto, Answer, TypeOK, Service!vars, Sandbox,
       Reported
<1>6. CASE \E r \in Requests : Start(r)
    BY <1>6 DEF Start, Goto, Answer, Dispatch, TypeOK, Service!vars, Sandbox,
       Reported
<1>7. CASE \E r \in Requests : StartReturns(r)
    BY <1>7 DEF StartReturns, Goto, Answer, Signalled, TypeOK, Service!vars,
       Sandbox, Reported
<1>8. CASE \E r \in Requests : StopReturns(r)
    BY <1>8 DEF StopReturns, Goto, Answer, Signalled, TypeOK, Service!vars,
       Sandbox, Reported
<1>9. CASE \E r \in Requests : ConnectReturns(r)
    BY <1>9 DEF ConnectReturns, Answer, Signalled, TypeOK, Service!vars,
       Sandbox, Reported
<1>10. CASE \E r \in Requests : TimesOut(r)
    BY <1>10 DEF TimesOut, Answer, TypeOK, OrdinaryStep
<1>11. CASE \E r \in Requests : SetRunning(r)
  <2>1. PICK r \in Requests : SetRunning(r)
    BY <1>11, Zenon
  <2>2. machine = r /\ r # None /\ vm[r] = "running" /\ vmKernel[r] # None
    BY <2>1, LifecycleAssumption, Zenon DEF SetRunning, HandlerInv, OrdinaryEngineInv,
       Rising
  <2>3. running' /\ UNCHANGED <<machine, vm, vmKernel>>
    BY <2>1, Zenon DEF SetRunning
  <2>4. Service!Report
    BY <2>2, <2>3, Zenon DEF Service!Report, Sandbox, Reported
  <2>. QED
    BY <2>4, Zenon DEF Service!Next
<1>12. CASE \E r \in Requests : SetBootTime(r)
    BY <1>12 DEF SetBootTime, Goto, TypeOK, Service!vars, Sandbox, Reported
<1>13. CASE \E r \in Requests : SetKernelPath(r)
    BY <1>13 DEF SetKernelPath, Answer, TypeOK, Service!vars, Sandbox, Reported
<1>14. CASE \E r \in Requests : ClearRunning(r)
  <2>1. PICK r \in Requests : ClearRunning(r)
    BY <1>14, Zenon
  <2>2. Down
    BY <2>1, Zenon DEF ClearRunning, HandlerInv, EngineInv, Falling
  <2>3. ~running' /\ UNCHANGED <<machine, vm, vmKernel>>
    BY <2>1, Zenon DEF ClearRunning
  <2>4. Service!Report
    BY <2>2, <2>3, Zenon DEF Service!Report, Sandbox, Reported, Down, Live, TypeOK
  <2>. QED
    BY <2>4, Zenon DEF Service!Next
<1>15. CASE \E r \in Requests : ClearBootTime(r)
    BY <1>15 DEF ClearBootTime, Answer, TypeOK, Service!vars, Sandbox, Reported
<1>16. CASE \E r \in Requests : StartSucceeds(r)
  <2>1. PICK r \in Requests : StartSucceeds(r)
    BY <1>16, Zenon
  <2>2. machine = r /\ vm[r] = "starting" /\ block[r] = "in_flight" /\ r # None
    BY <2>1, LifecycleAssumption, Zenon DEF StartSucceeds, EngineInv, Live
  <2>3. pc[r] = "wait_start" /\ ~running
    BY <2>2, Zenon DEF VmInv, PlaceInv
  <2>4. vmKernel[r] \in Kernels
    BY <2>2, <2>3, KernelOfType, Zenon DEF OrdinaryEngineInv, Rising, TypeOK
  <2>5. UNCHANGED <<machine, vmKernel, running>> /\ vm'[r] = "running"
    BY <2>1, Zenon DEF StartSucceeds, TypeOK
  <2>6. Service!PowerOn(vmKernel[r])
    BY <2>2, <2>3, <2>5, Zenon DEF Service!PowerOn, Sandbox, Reported
  <2>. QED
    BY <2>4, <2>6, Zenon DEF Service!Next
<1>17. CASE \E r \in Requests : StartFails(r)
    BY <1>17 DEF StartFails, Signal, TypeOK, Service!vars, Sandbox, Reported
<1>18. CASE \E r \in Requests : StopSucceeds(r)
  <2>1. PICK r \in Requests : StopSucceeds(r)
    BY <1>18, Zenon
  <2>2. target[r] \in Requests /\ machine = target[r] /\ machine # None /\ vm[machine] = "running"
    BY <2>1 DEF StopSucceeds, TypeOK, StopInv, EngineInv, Live
  <2>3. running
    BY <2>1, Zenon DEF StopSucceeds, TypeOK, HandlerInv, OrdinaryPlaceInv, IsBoot
  <2>4. vmKernel[machine] # None
    BY <2>2, Zenon DEF OrdinaryEngineInv
  <2>5. machine' = None /\ UNCHANGED running
    BY <2>1, Zenon DEF StopSucceeds
  <2>6. Service!PowerOff
    BY <2>2, <2>3, <2>4, <2>5, Zenon DEF Service!PowerOff, Sandbox, Reported
  <2>. QED
    BY <2>6, Zenon DEF Service!Next
<1>19. CASE \E r \in Requests : StopFails(r)
    BY <1>19 DEF StopFails, Signal, TypeOK, Service!vars, Sandbox, Reported
<1>20. CASE \E r \in Requests : ConnectSucceeds(r)
    BY <1>20 DEF ConnectSucceeds, Signal, TypeOK, Service!vars, Sandbox,
       Reported
<1>21. CASE \E r \in Requests : ConnectFails(r)
    BY <1>21 DEF ConnectFails, Signal, TypeOK, Service!vars, Sandbox, Reported
<1>22. CASE MainStart
  <2>1. PICK r \in Requests : r = Head(mainQueue)
    BY <1>22 DEF MainStart, TypeOK
  <2>2. block[r] = "queued" /\ IsBoot(call[r]) /\ machine' = r /\ vm'[r] = "starting" /\ UNCHANGED running
    BY <1>22, <2>1 DEF MainStart, TypeOK, QueueInv
  <2>3. pc[r] = "wait_start" /\ ~running
    BY <2>2, Zenon DEF PlaceInv
  <2>4. Down
    BY <2>2, <2>3 DEF EngineInv, Rising, SoloInv, InFlight
  <2>. QED
    BY <2>2, <2>4, Zenon DEF Service!vars, Sandbox, Reported, Down, Live, TypeOK
<1>23. CASE \E op \in {"stop", "connect"} : MainUse(op)
  <2>1. Head(mainQueue) \in Requests /\ block[Head(mainQueue)] = "queued"
    BY <1>23 DEF MainUse, TypeOK, QueueInv
  <2>. QED
    BY <1>23, <2>1 DEF MainUse, Signal, TypeOK, Service!vars, Sandbox, Reported
<1>24. CASE \E v \in Requests : GuestDidStop(v)
    BY <1>24, Zenon DEF OrdinaryStep
<1>25. CASE \E v \in Requests : ReleaseVm(v)
    BY <1>25 DEF ReleaseVm, TypeOK, Service!vars, Sandbox, Reported
<1>26. CASE \E v \in Requests : GuestLoadsPolicy(v)
    BY <1>26 DEF GuestLoadsPolicy, TypeOK, Service!vars, Sandbox, Reported
<1>27. CASE UNCHANGED vars
    BY <1>27, Zenon DEF vars, TypeOK, Service!vars, Sandbox, Reported
<1>28. QED
    BY <1>1, <1>2, <1>2a, <1>3, <1>4, <1>5, <1>6, <1>7, <1>8, <1>9, <1>10, <1>11,
       <1>12, <1>13, <1>14, <1>15, <1>16, <1>17, <1>18, <1>19, <1>20, <1>21,
       <1>22, <1>23, <1>24, <1>25, <1>26, <1>27, Zenon DEF OrdinaryStep, SoloStep,
       Next, HandlerStep, Completion, MainQueueStep, Exhausted

(***************************************************************************)
(* The inductive invariant of the modes.                                   *)
(***************************************************************************)
ModesInv ==
    /\ IInv /\ mode \in {"racing", "ordinary", "off_track"}
    /\ mode # "racing" => SoloInv /\ PlaceInv /\ EngineInv
    /\ mode = "ordinary" => OrdinaryPlaceInv /\ OrdinaryEngineInv

\* Outside of races the steps that are allowed are those of one client.
LEMMA AllowedSteps ==
    ASSUME Next, Allowed, mode \in {"ordinary", "off_track"}
    PROVE  SoloStep /\ (mode = "ordinary" => OrdinaryStep)
  BY Zenon DEF Allowed, SoloStep, OrdinaryStep

\* The parts that are about one client are about the daemon's state alone.
LEMMA StaysForOneClient ==
    ASSUME UNCHANGED vars
    PROVE  /\ SoloInv => SoloInv'
           /\ PlaceInv => PlaceInv'
           /\ EngineInv => EngineInv'
           /\ OrdinaryPlaceInv => OrdinaryPlaceInv'
           /\ OrdinaryEngineInv => OrdinaryEngineInv'
<1>. USE DEF vars, stateVars, engineVars, vmVars, reqVars
<1>1. SoloInv => SoloInv'
  BY Zenon DEF SoloInv, InFlight
<1>2. PlaceInv => PlaceInv'
  BY Zenon DEF PlaceInv
<1>3. EngineInv => EngineInv'
  BY Zenon DEF EngineInv, Live, Down, Rising, Falling
<1>4. OrdinaryPlaceInv => OrdinaryPlaceInv'
  BY Zenon DEF OrdinaryPlaceInv
<1>5. OrdinaryEngineInv => OrdinaryEngineInv'
  BY Zenon DEF OrdinaryEngineInv, Rising, Falling
<1>. QED
  BY <1>1, <1>2, <1>3, <1>4, <1>5, Zenon

\* Every behaviour starts with nothing up and nothing said to run.
LEMMA ModesStart == ModesInit => ModesInv
<1>. SUFFICES ASSUME ModesInit PROVE ModesInv
  BY Zenon
<1>1. Init /\ mode \in {"racing", "ordinary", "off_track"}
  BY Zenon DEF ModesInit
<1>2. \A r \in Requests : /\ pc[r] = "idle" /\ block[r] = "none" /\ vm[r] = "none"
  BY <1>1, Zenon DEF Init
<1>3. SoloInv
  BY <1>2, Zenon DEF SoloInv, InFlight
<1>4. PlaceInv /\ OrdinaryPlaceInv
  BY <1>2, Zenon DEF PlaceInv, OrdinaryPlaceInv
<1>5. EngineInv
  BY <1>1, <1>2, Zenon DEF EngineInv, Init, Live, Down, Falling
<1>6. OrdinaryEngineInv
  <2>1. running = FALSE /\ bootTime = FALSE
    BY <1>1, Zenon DEF Init
  <2>. QED
    BY <1>2, <2>1, Zenon DEF OrdinaryEngineInv, Rising
<1>. QED
  BY <1>1, <1>3, <1>4, <1>5, <1>6, InvStart, Zenon DEF ModesInv

\* Every step keeps it.
LEMMA ModesKeep == ModesInv /\ [ModesNext]_allVars => ModesInv'
<1>. SUFFICES ASSUME ModesInv, [ModesNext]_allVars PROVE ModesInv'
  BY Zenon
<1>1. CASE UNCHANGED allVars
  BY <1>1, InvNext, StaysForOneClient, Zenon DEF ModesInv, allVars
<1>2. CASE Next /\ Allowed /\ UNCHANGED mode
  <2>1. IInv' /\ mode' = mode
    BY <1>2, InvNext, Zenon DEF ModesInv
  <2>2. CASE mode = "racing"
    BY <2>1, <2>2, Zenon DEF ModesInv
  <2>3. CASE mode \in {"ordinary", "off_track"}
    <3>1. /\ SoloStep /\ IInv /\ SoloInv /\ PlaceInv /\ EngineInv
      BY <1>2, <2>3, AllowedSteps, Zenon DEF ModesInv
    <3>2. SoloInv'
      BY <3>1, Zenon DEF SoloStep, SoloInv
    <3>3. PlaceInv' /\ EngineInv'
      BY <3>1, PlaceStep, EngineStep, Zenon DEF IInv
    <3>4. mode = "ordinary" => OrdinaryPlaceInv' /\ OrdinaryEngineInv'
      BY <1>2, <2>3, <3>1, AllowedSteps, OrdinaryPlaceStep, OrdinaryEngineStep, Zenon DEF
         ModesInv, IInv
    <3>. QED
      BY <2>1, <2>3, <3>2, <3>3, <3>4, Zenon DEF ModesInv
  <2>. QED
    BY <2>2, <2>3, Zenon DEF ModesInv
<1>. QED
  BY <1>1, <1>2, Zenon DEF ModesNext, RacingExhausted

\* With one client the daemon never loses track of its VM, also after stops
\* that failed or timed out and guests that stopped by themselves; where no
\* call times out and no guest stops by itself, all of VmState agrees with the
\* engine between calls.
THEOREM OneClientIsTracked == ModesSpec => []TrackedForOneClient
<1>1. ModesInv => TrackedForOneClient
  <2>. SUFFICES ASSUME ModesInv, mode # "racing"
                PROVE  /\ AtMostOneLive /\ LiveVmCanBeStopped /\ ConnectionsAreCurrent
                       /\ mode = "ordinary" => Coherent
    BY Zenon DEF TrackedForOneClient
  <2>1. TypeOK /\ EngineInv
    BY Zenon DEF ModesInv, IInv
  <2>2. AtMostOneLive /\ ConnectionsAreCurrent
    BY <2>1, Zenon DEF EngineInv, AtMostOneLive, ConnectionsAreCurrent
  <2>3. LiveVmCanBeStopped
    BY <2>1, Zenon DEF EngineInv, TypeOK, LiveVmCanBeStopped, Quiet, InFlight, Live,
       Down, Rising
  <2>4. ASSUME mode = "ordinary" PROVE Coherent
    <3>1. OrdinaryEngineInv
      BY <2>4, Zenon DEF ModesInv
    <3>. QED
      BY <2>1, <2>3, <3>1, Zenon DEF TypeOK, LiveVmCanBeStopped, Coherent,
         OrdinaryEngineInv, Quiet,
         InFlight, Falling
  <2>. QED
    BY <2>2, <2>3, <2>4, Zenon
<1>. QED
  BY <1>1, ModesStart, ModesKeep, PTL DEF ModesSpec

\* The daemon implements the abstract service for one client: PowerOn is the
\* start completion, PowerOff the stop completion, Report the stores of
\* `running`, and every other step leaves the service alone.
THEOREM ServiceIsImplemented == ModesSpec => ImplementsVmService
<1>1. ModesInit => Service!Init
  BY Zenon DEF ModesInit, Init, Service!Init, Sandbox, Reported
<1>2. ModesInv /\ [ModesNext]_allVars => [Service!Next]_(Service!vars)
  <2>. SUFFICES ASSUME ModesInv, [ModesNext]_allVars
                PROVE  [Service!Next]_(Service!vars)
    BY Zenon
  <2>1. CASE UNCHANGED allVars
    BY <2>1, Zenon DEF allVars, vars, stateVars, engineVars, vmVars, Service!vars,
       Sandbox, Reported
  <2>2. CASE Next /\ Allowed /\ UNCHANGED mode
    <3>1. CASE mode = "ordinary"
      BY <2>2, <3>1, AllowedSteps, ServiceStep, Zenon DEF ModesInv, IInv
    <3>2. CASE mode # "ordinary"
      BY <2>2, <3>2, Zenon DEF Service!vars, Sandbox, Reported
    <3>. QED
      BY <3>1, <3>2, Zenon
  <2>. QED
    BY <2>1, <2>2, Zenon DEF ModesNext, RacingExhausted
<1>. QED
  BY <1>1, <1>2, ModesStart, ModesKeep, PTL DEF ModesSpec, ImplementsVmService,
     Service!Spec

=============================================================================
