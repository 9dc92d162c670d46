------------------------------- MODULE Probes -------------------------------
(***************************************************************************)
(* The state the BPF programs carry from one call to the next: the open    *)
(* intents and the two maps of TCP byte counters.  They share nothing, so  *)
(* a behaviour works on one of them and leaves the others in their initial *)
(* states; in "paths" one thread opens paths of every shape.               *)
(***************************************************************************)
EXTENDS OpenHooks, TcpBuckets

CONSTANTS Opener,   \* the thread that opens
          PathOpens \* these

VARIABLE workload

ProbesInit ==
    /\ workload \in {"files", "paths"} \cup Directions
    /\ Init /\ TcpInit
    /\ workload # "files" => faults = {} /\ policy = <<>>

OpenPaths ==
    \/ \E o \in PathOpens : TraceOpenat(Opener, o)
    \/ LsmFileOpen(Opener)

ProbesNext ==
    /\ \/ workload = "files" /\ Next /\ UNCHANGED tcpVars
       \/ workload = "paths" /\ OpenPaths /\ UNCHANGED tcpVars
       \/ workload \in Directions /\ (Probe(workload) \/ TcpQuiet) /\ UNCHANGED vars
    /\ UNCHANGED workload

ProbesSpec == ProbesInit /\ [][ProbesNext]_<<workload, vars, tcpVars>>

=============================================================================
