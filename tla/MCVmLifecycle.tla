---------------------------- MODULE MCVmLifecycle ----------------------------
(***************************************************************************)
(* Instances of VmModes for TLC.                                           *)
(***************************************************************************)
EXTENDS VmModes, TLC

CONSTANTS k1, k2, p1

Boot(k, p) == [op |-> "grpc_boot", kernel |-> k, policy |-> p]
HttpBoot   == [op |-> "http_boot", kernel |-> None, policy |-> None]
Stop       == [op |-> "stop", kernel |-> None, policy |-> None]
Connect    == [op |-> "connect", kernel |-> None, policy |-> None]

MCKernels  == {k1, k2}
MCPolicies == {p1}

\* Everything at once, for the interleavings (policies are left to one client).
MCRacingCalls == {Boot(None, None), HttpBoot, Stop, Connect}
\* One client that boots either way, stops and connects.
MCOneClientCalls == {Boot(k2, p1), HttpBoot, Stop, Connect}

MCCalls == MCRacingCalls \cup MCOneClientCalls

RequestSymmetry == Permutations(Requests)

=============================================================================
