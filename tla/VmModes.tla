------------------------------- MODULE VmModes -------------------------------
(***************************************************************************)
(* The lifecycle under the circumstances its promises are made for: calls  *)
(* at once, or one client at a time.  One client sees VmService.           *)
(***************************************************************************)
EXTENDS VmLifecycle

CONSTANTS
    RacingCalls,    \* the calls made at once
    OneClientCalls, \* the calls of one client
    MaxRacing       \* racing behaviours use that many of the requests (a bound)

(***************************************************************************)
(* What a behaviour is about, fixed at its beginning:                      *)
(*   racing     calls at the same time, and every fault; guests that do    *)
(*              not come to load their policy;                             *)
(*   ordinary   one client at a time, calls that may fail but not time out *)
(*              and guests that do not stop by themselves;                 *)
(*   off_track  one client at a time, every fault but a start that         *)
(*              outlives its timeout.                                      *)
(***************************************************************************)
VARIABLE mode

allVars == <<vars, mode>>

Used == {r \in Requests : pc[r] # "idle"}

Allowed ==
    /\ \A r \in Used' : call'[r] \in (IF mode = "racing" THEN RacingCalls ELSE OneClientCalls)
    /\ mode = "racing" => Cardinality(Used') <= MaxRacing /\ UNCHANGED guestPolicy
    /\ mode # "racing" => \A r, s \in InFlight' : r = s
    /\ mode = "ordinary" =>
           /\ \A r \in Requests : reply'[r] # "timed_out"
           /\ ~\E v \in Requests : GuestDidStop(v)
    /\ mode = "off_track" =>
           \A r \in Requests : IsBoot(call[r]) => reply'[r] # "timed_out"

RacingExhausted ==
    /\ mode = "racing" /\ Cardinality(Used) = MaxRacing
    /\ \A r \in Used : pc[r] = "done" /\ block[r] \in {"none", "ok", "err"}
    /\ UNCHANGED allVars

ModesInit == Init /\ mode \in {"racing", "ordinary", "off_track"}

ModesNext == (Next /\ Allowed /\ UNCHANGED mode) \/ RacingExhausted

ModesSpec == ModesInit /\ [][ModesNext]_allVars

(***************************************************************************)
(* Properties of one client at a time.                                     *)
(***************************************************************************)

\* With one client the daemon never loses track of its VM, also after stops
\* that failed or timed out and guests that stopped by themselves: the check
\* of `running` in boot_vm keeps a second VM from coming up beside it, StopVm
\* does not refuse to stop it, and no connection to one that is gone is kept.
\* Where no call times out and no guest stops by itself, all of VmState agrees
\* with the engine between calls.
TrackedForOneClient ==
    mode # "racing" =>
        /\ AtMostOneLive /\ LiveVmCanBeStopped /\ ConnectionsAreCurrent
        /\ mode = "ordinary" => Coherent

(***************************************************************************)
(* One client at a time sees VmService: the machine and `running` of the   *)
(* daemon implement the sandbox and the report of the abstract service.    *)
(* The behaviours that are about something else are mapped to a service    *)
(* nobody uses.                                                            *)
(***************************************************************************)
Sandbox ==
    IF mode = "ordinary" /\ machine # None /\ vm[machine] = "running" THEN vmKernel[machine] ELSE None

Reported == mode = "ordinary" /\ running

Service == INSTANCE VmService WITH Off <- None, sandbox <- Sandbox, reported <- Reported

\* The daemon implements the abstract service for one client, where no call
\* times out and no guest stops by itself.
ImplementsVmService == Service!Spec

=============================================================================
