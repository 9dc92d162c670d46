------------------------------ MODULE VmService ------------------------------
(***************************************************************************)
(* What the daemon promises a client that makes one call at a time: the    *)
(* sandbox is off or on with some kernel; it is switched on only while it  *)
(* is off and reported off, and off only while it is reported on; and the  *)
(* report (VmState.running) only ever moves towards the truth.             *)
(***************************************************************************)
CONSTANTS Kernels, Off

VARIABLES sandbox,  \* Off, or the kernel the sandbox runs
          reported  \* what the status says

vars == <<sandbox, reported>>

Init == sandbox = Off /\ reported = FALSE

PowerOn(k) ==
    /\ sandbox = Off /\ ~reported
    /\ sandbox' = k
    /\ UNCHANGED reported

PowerOff ==
    /\ sandbox # Off /\ reported
    /\ sandbox' = Off
    /\ UNCHANGED reported

Report ==
    /\ reported' = (sandbox # Off)
    /\ UNCHANGED sandbox

Next == (\E k \in Kernels : PowerOn(k)) \/ PowerOff \/ Report

Spec == Init /\ [][Next]_vars

=============================================================================
