----------------------------- MODULE TcpBuckets -----------------------------
(***************************************************************************)
(* The byte counters of the TCP probes (garden-ebpf-probes): per process   *)
(* and direction, an event for every bucket of bytes.  The threads of a    *)
(* process run the probe on several CPUs at once; each looks the counter   *)
(* up and later stores it.                                                 *)
(***************************************************************************)
EXTENDS Integers, FiniteSets

CONSTANTS
    TcpThreads,      \* threads that send and receive
    TcpPid,          \* the process of each
    TCP_RATE_BUCKET, \* bytes per event
    Results,         \* what tcp_sendmsg is asked for and tcp_recvmsg returns
    Garbage,         \* what the upper half of a return register may hold
    IntHalf,         \* half the number of values of an int (2^31)
    MaxEntries,      \* entries of each map
    MaxMoved         \* bound: bytes per process and direction

ASSUME TcpBucketsAssumption ==
    /\ TCP_RATE_BUCKET \in Nat \ {0}
    /\ IntHalf \in Nat \ {0}
    /\ Results \subseteq -IntHalf..(IntHalf - 1)
    /\ Garbage \subseteq Nat
    /\ MaxEntries \in Nat

Pids       == {TcpPid[t] : t \in TcpThreads}
Directions == {"send", "recv"}
NoEntry    == -1
NoStep     == [dir |-> "none"]

VARIABLES
    bytes,    \* TCP_SEND_BYTES and TCP_RECV_BYTES
    step,     \* what each thread's program has read, while it runs
    moved,    \* bytes that were received, or that a send was asked to send
    reported, \* the sum of the events output
    dropped,  \* the sum of the events the full ring buffer refused
    events,   \* the number of events, refused ones included
    overlap,  \* two programs of the process were running at once
    refused   \* a full map has refused the process an entry

tcpVars == <<bytes, step, moved, reported, dropped, events, overlap, refused>>

Counters(v) == [d \in Directions |-> [p \in Pids |-> v]]

TcpInit ==
    /\ bytes = Counters(NoEntry)
    /\ step = [t \in TcpThreads |-> NoStep]
    /\ moved = Counters(0) /\ reported = Counters(0) /\ dropped = Counters(0)
    /\ events = Counters(0)
    /\ overlap = Counters(FALSE) /\ refused = Counters(FALSE)

\* Mutant: the return register is read as 64 bits.
WholeRegister(reg) == reg

\* `ctx.ret()` as an i32: the low half, sign-extended
as_i32(reg) ==
    LET low == reg % (2 * IntHalf) IN IF low < IntHalf THEN low ELSE low - 2 * IntHalf

\* The register an int result arrives in
Register(n, g) == g * (2 * IntHalf) + (n % (2 * IntHalf))

Running(d, p) == {t \in TcpThreads : step[t].dir = d /\ TcpPid[t] = p}

\* The program reads the counter; nothing is counted for 0 or an error.
LookUp(t, d, n, g) ==
    LET p == TcpPid[t]
        count == IF d = "send" THEN n ELSE as_i32(Register(n, g))
    IN
    /\ step[t] = NoStep
    /\ d = "send" => n >= 0
    /\ count > 0
    /\ moved[d][p] + n <= MaxMoved
    /\ step' = [step EXCEPT ![t] =
           [dir |-> d, moved |-> n, count |-> count,
            prev |-> IF bytes[d][p] = NoEntry THEN 0 ELSE bytes[d][p]]]
    /\ overlap' = IF Running(d, p) = {} THEN overlap ELSE [overlap EXCEPT ![d][p] = TRUE]
    /\ UNCHANGED <<bytes, moved, reported, dropped, events, refused>>

\* HashMap::insert: a new key does not fit a full map.
Insert(d, p, v) ==
    IF bytes[d][p] = NoEntry
           /\ Cardinality({q \in Pids : bytes[d][q] # NoEntry}) >= MaxEntries
    THEN refused' = [refused EXCEPT ![d][p] = TRUE] /\ UNCHANGED bytes
    ELSE bytes' = [bytes EXCEPT ![d][p] = v] /\ UNCHANGED refused

CrossesBucket(pending) == pending >= TCP_RATE_BUCKET

\* The program stores the counter, or resets it and outputs an event; the
\* results of both are ignored.
Store(t) ==
    LET s == step[t]
        d == s.dir
        p == TcpPid[t]
        pending == s.prev + s.count
    IN
    /\ step[t] # NoStep
    /\ step' = [step EXCEPT ![t] = NoStep]
    /\ moved' = [moved EXCEPT ![d][p] = @ + s.moved]
    /\ IF CrossesBucket(pending)
       THEN /\ Insert(d, p, 0)
            /\ events' = [events EXCEPT ![d][p] = @ + 1]
            /\ \/ /\ reported' = [reported EXCEPT ![d][p] = @ + pending]
                  /\ UNCHANGED dropped
               \/ /\ dropped' = [dropped EXCEPT ![d][p] = @ + pending]
                  /\ UNCHANGED reported
       ELSE Insert(d, p, pending) /\ UNCHANGED <<reported, dropped, events>>
    /\ UNCHANGED overlap

Probe(d) ==
    \E t \in TcpThreads :
        \/ \E n \in Results, g \in Garbage : LookUp(t, d, n, g)
        \/ step[t].dir = d /\ Store(t)

\* No traffic
TcpQuiet == (\A t \in TcpThreads : step[t] = NoStep) /\ UNCHANGED tcpVars

TcpNext == TcpQuiet \/ \E d \in Directions : Probe(d)

TcpSpec == TcpInit /\ [][TcpNext]_tcpVars

(***************************************************************************)
(* Properties.                                                             *)
(***************************************************************************)

Pending(d, p) == IF bytes[d][p] = NoEntry THEN 0 ELSE bytes[d][p]

\* "Without losing cumulative accuracy" (main.rs:76): as long as the threads
\* of a process run the probe one at a time and the map had room for it, the
\* bytes it moved are those in the events the probe made and in the counter,
\* which is short of a bucket.  (A send is taken to move the size it is called
\* with, for the probe is at its entry; one that moves less counts in full.)
ReportedWithinBucket ==
    \A d \in Directions, p \in Pids :
        ~overlap[d][p] /\ ~refused[d][p] =>
            /\ moved[d][p] = reported[d][p] + dropped[d][p] + Pending(d, p)
            /\ Pending(d, p) < TCP_RATE_BUCKET

\* However the threads interleave, the events are worth a bucket each: the
\* rate is bounded by what is reported.
RateLimited ==
    \A d \in Directions, p \in Pids :
        events[d][p] * TCP_RATE_BUCKET <= reported[d][p] + dropped[d][p]

=============================================================================
