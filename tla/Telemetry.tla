----------------------------- MODULE Telemetry -----------------------------
(***************************************************************************)
(* The way of an event from a BPF probe in the guest to the session log on *)
(* the host: probe -> ring buffer -> tracer (sequence gaps, dedup) ->      *)
(* bounded channel -> vSock sender -> one of a succession of connections   *)
(* -> telemetry receiver of the daemon.                                    *)
(*                                                                         *)
(* events is the history of everything the probes produced; the stages     *)
(* hold indexes into it, and fate says where an event's way has ended.     *)
(* The receiver of the daemon is one thread: handling a line (log, then    *)
(* broadcast) is one step here; EventLog has the log's own steps.          *)
(***************************************************************************)
EXTENDS Integers, Sequences, FiniteSets

CONSTANTS
    Cpus, Cpu0,     \* Cpu0 is the one whose id is 0
    Kinds,          \* subset of {"open", "other", "mount"}
    Keys,           \* the (pid, path) pairs dedup tells apart
    RingCap,        \* events that fit the 256 KiB ring buffer
    ChannelCap,     \* 1024
    SocketCap,      \* lines a connection buffers
    Window,         \* 100 ms
    CleanupEvery,   \* 1000 opens
    CleanupFactor,  \* 10 windows
    MaxEvents, MaxTime, MaxConns,   \* bounds
    None

ASSUME TelemetryAssumption ==
    /\ Cpu0 \in Cpus
    /\ Kinds \subseteq {"open", "other", "mount"}
    /\ {RingCap, ChannelCap, SocketCap, Window, CleanupEvery, CleanupFactor} \subseteq Nat \ {0}
    /\ {MaxEvents, MaxTime, MaxConns} \subseteq Nat
    /\ None \notin Nat

VARIABLES
    clock,        \* CLOCK_MONOTONIC of the guest
    events,       \* history: what the probes have filled in so far
    fate,         \* history: fate[i] is how event i's way ended, or "moving"
    scratch,      \* per CPU: the event being built, or None
    lastSeq,      \* the SEQ map, per CPU
    ring,         \* the ring buffer
    nextSeq, totalGaps,   \* the tracer's gap detection
    seen, ops,    \* the tracer's EventDedup
    channel,      \* the mpsc channel
    listening,    \* the vSock listener on port 6001 exists
    backlog,      \* connections not accepted yet
    socket,       \* per connection: lines written and not read
    serving,      \* the sender's connection, or None
    inHand,       \* the event the sender has taken from the channel, or None
    closed,       \* connections the host has closed
    noticed,      \* connections whose end has reached the guest
    running,      \* VmState.running
    conn,         \* the host's connection, or None
    opened,       \* connections made so far
    log           \* what the host has logged, in order

probeVars  == <<clock, events, scratch, lastSeq>>
tracerVars == <<nextSeq, totalGaps, seen, ops>>
senderVars == <<listening, serving, inHand>>
hostVars   == <<running, conn, opened, closed, log>>
vars == <<probeVars, fate, ring, tracerVars, channel, senderVars, backlog, socket, noticed, hostVars>>

Ids == 1..Len(events)
Conns == 1..MaxConns

Init ==
    /\ clock = 0
    /\ events = <<>> /\ fate = <<>>
    /\ scratch = [c \in Cpus |-> None]
    /\ lastSeq = [c \in Cpus |-> 0]
    /\ ring = <<>>
    /\ nextSeq = [c \in Cpus |-> None] /\ totalGaps = 0
    /\ seen = [k \in Keys |-> None] /\ ops = 0
    /\ channel = <<>>
    /\ listening \in BOOLEAN
    /\ backlog = <<>>
    /\ socket = [x \in Conns |-> <<>>]
    /\ serving = None /\ inHand = None
    /\ closed = {} /\ noticed = {}
    /\ running = FALSE
    /\ conn = None /\ opened = 0
    /\ log = <<>>

Ends(i, how) == fate' = [fate EXCEPT ![i] = how]

(***************************************************************************)
(* Probes.  A probe fills its CPU's scratch event, then outputs it; probes *)
(* of other CPUs run in between.                                           *)
(***************************************************************************)
Tick ==
    /\ clock < MaxTime
    /\ clock' = clock + 1
    /\ UNCHANGED <<events, scratch, lastSeq, fate, ring, tracerVars, channel, senderVars,
                   backlog, socket, noticed, hostVars>>

\* Mutant: one counter for all CPUs.
FillSharedSeq(c, kind, key) ==
    /\ scratch[c] = None /\ Len(events) < MaxEvents
    /\ lastSeq' = [x \in Cpus |-> lastSeq[x] + 1]
    /\ events' = Append(events, [from |-> c, cpu |-> c, seq |-> lastSeq[c] + 1,
                                 kind |-> kind, key |-> key, ts |-> clock])
    /\ fate' = Append(fate, "moving")
    /\ scratch' = [scratch EXCEPT ![c] = Len(events) + 1]
    /\ UNCHANGED <<clock, ring, tracerVars, channel, senderVars, backlog, socket, noticed, hostVars>>

\* fill_common and fill_cpu_and_seq.  The sb_mount hook calls neither: cpu_id
\* and seq stay zero.
Fill(c, kind, key) ==
    /\ scratch[c] = None /\ Len(events) < MaxEvents
    /\ IF kind = "mount"
       THEN /\ events' = Append(events, [from |-> c, cpu |-> Cpu0, seq |-> 0,
                                         kind |-> kind, key |-> key, ts |-> clock])
            /\ UNCHANGED lastSeq
       ELSE /\ lastSeq' = [lastSeq EXCEPT ![c] = @ + 1]
            /\ events' = Append(events, [from |-> c, cpu |-> c, seq |-> lastSeq[c] + 1,
                                         kind |-> kind, key |-> key, ts |-> clock])
    /\ fate' = Append(fate, "moving")
    /\ scratch' = [scratch EXCEPT ![c] = Len(events) + 1]
    /\ UNCHANGED <<clock, ring, tracerVars, channel, senderVars, backlog, socket, noticed, hostVars>>

\* EVENTS.output; its error, a full buffer, is ignored.
Output(c) ==
    /\ scratch[c] # None
    /\ IF Len(ring) < RingCap
       THEN ring' = Append(ring, scratch[c]) /\ UNCHANGED fate
       ELSE Ends(scratch[c], "ring full") /\ UNCHANGED ring
    /\ scratch' = [scratch EXCEPT ![c] = None]
    /\ UNCHANGED <<clock, events, lastSeq, tracerVars, channel, senderVars, backlog, socket,
                   noticed, hostVars>>

(***************************************************************************)
(* Tracer: the single reader of the ring buffer.                           *)
(***************************************************************************)
Gap(e) ==
    IF nextSeq[e.cpu] # None /\ e.seq > nextSeq[e.cpu] THEN e.seq - nextSeq[e.cpu] ELSE 0

SaturatingSub(a, b) == IF a > b THEN a - b ELSE 0

\* EventDedup's periodic cleanup, before the lookup.
SeenAfterCleanup(e) ==
    IF (ops + 1) % CleanupEvery = 0
    THEN LET cutoff == SaturatingSub(e.ts, Window * CleanupFactor)
         IN  [k \in Keys |-> IF seen[k] # None /\ seen[k] > cutoff THEN seen[k] ELSE None]
    ELSE seen

\* Mutant: off by one at the end of the window.
IsRepeatInclusive(e) ==
    LET last == SeenAfterCleanup(e)[e.key]
    IN  e.kind = "open" /\ last # None /\ SaturatingSub(e.ts, last) <= Window

\* should_emit, negated: only opens are deduplicated.
IsRepeat(e) ==
    LET last == SeenAfterCleanup(e)[e.key]
    IN  e.kind = "open" /\ last # None /\ SaturatingSub(e.ts, last) < Window

\* A repeat does not renew the window.
SeenAfter(e) ==
    IF IsRepeat(e) THEN SeenAfterCleanup(e) ELSE [SeenAfterCleanup(e) EXCEPT ![e.key] = e.ts]

ChannelHasRoom == listening /\ Len(channel) < ChannelCap

\* Gap detection, dedup of opens, try_send.  Without a listener the sender
\* has dropped the receiving end, and every try_send fails.
ReadRing ==
    LET i == Head(ring)  e == events[i] IN
    /\ ring # <<>>
    /\ ring' = Tail(ring)
    /\ totalGaps' = totalGaps + Gap(e)
    /\ nextSeq' = [nextSeq EXCEPT ![e.cpu] = e.seq + 1]
    /\ IF e.kind = "open"
       THEN ops' = ops + 1 /\ seen' = SeenAfter(e)
       ELSE UNCHANGED <<ops, seen>>
    /\ IF IsRepeat(e) THEN Ends(i, "duplicate") /\ UNCHANGED channel
       ELSE IF ChannelHasRoom THEN channel' = Append(channel, i) /\ UNCHANGED fate
       ELSE Ends(i, "channel full") /\ UNCHANGED channel
    /\ UNCHANGED <<probeVars, senderVars, backlog, socket, noticed, hostVars>>

(***************************************************************************)
(* Sender task of the guest agent.                                         *)
(***************************************************************************)
SenderAccept ==
    /\ listening /\ serving = None /\ backlog # <<>>
    /\ serving' = Head(backlog) /\ backlog' = Tail(backlog)
    /\ UNCHANGED <<probeVars, fate, ring, tracerVars, channel, listening, inHand, socket,
                   noticed, hostVars>>

\* Mutant: the event is looked at and not taken.
SenderPeeks ==
    /\ serving # None /\ inHand = None /\ channel # <<>>
    /\ inHand' = Head(channel)
    /\ UNCHANGED <<probeVars, fate, ring, tracerVars, channel, listening, serving, backlog, socket,
                   noticed, hostVars>>

SenderRecv ==
    /\ serving # None /\ inHand = None /\ channel # <<>>
    /\ inHand' = Head(channel) /\ channel' = Tail(channel)
    /\ UNCHANGED <<probeVars, fate, ring, tracerVars, listening, serving, backlog, socket,
                   noticed, hostVars>>

\* Until the guest learns that the host has closed the connection, a write
\* succeeds as long as the buffer has room.
SenderWrite ==
    /\ inHand # None /\ serving \notin noticed /\ Len(socket[serving]) < SocketCap
    /\ IF serving \in closed
       THEN Ends(inHand, "connection lost") /\ UNCHANGED socket
       ELSE socket' = [socket EXCEPT ![serving] = Append(@, inHand)] /\ UNCHANGED fate
    /\ inHand' = None
    /\ UNCHANGED <<probeVars, ring, tracerVars, channel, listening, serving, backlog, noticed,
                   hostVars>>

\* Mutant: the sender keeps the connection after the error.
SenderStays ==
    /\ inHand # None /\ serving \in noticed
    /\ UNCHANGED vars

\* write_all fails: the event is gone and the sender goes back to accept.
SenderFails ==
    /\ inHand # None /\ serving \in noticed
    /\ Ends(inHand, "connection lost")
    /\ inHand' = None /\ serving' = None
    /\ UNCHANGED <<probeVars, ring, tracerVars, channel, listening, backlog, socket, noticed,
                   hostVars>>

\* The transport tells the guest that the host has closed a connection.
CloseArrives(x) ==
    /\ x \in closed \ noticed
    /\ noticed' = noticed \cup {x}
    /\ UNCHANGED <<probeVars, fate, ring, tracerVars, channel, senderVars, backlog, socket, hostVars>>

(***************************************************************************)
(* Telemetry receiver of the daemon.                                       *)
(***************************************************************************)
\* The boot handler sets running; the guest may have produced events before.
BootReturns ==
    /\ ~running
    /\ running' = TRUE
    /\ UNCHANGED <<probeVars, fate, ring, tracerVars, channel, senderVars, backlog, socket,
                   noticed, conn, opened, closed, log>>

\* connect_vsock(6001).  An attempt that fails is retried and leaves nothing.
HostConnect ==
    /\ running /\ conn = None /\ listening /\ opened < MaxConns
    /\ opened' = opened + 1
    /\ conn' = opened + 1
    /\ backlog' = Append(backlog, opened + 1)
    /\ UNCHANGED <<probeVars, fate, ring, tracerVars, channel, senderVars, socket, noticed,
                   running, closed, log>>

\* process_telemetry_stream, one line.
HostReads ==
    /\ conn # None /\ socket[conn] # <<>>
    /\ log' = Append(log, Head(socket[conn]))
    /\ Ends(Head(socket[conn]), "logged")
    /\ socket' = [socket EXCEPT ![conn] = Tail(@)]
    /\ UNCHANGED <<probeVars, ring, tracerVars, channel, senderVars, backlog, noticed, running,
                   conn, opened, closed>>

\* A read fails: the stream is dropped with what it still held.
HostLoses ==
    /\ conn # None /\ opened < MaxConns
    /\ fate' = [i \in DOMAIN fate |->
                   IF \E k \in 1..Len(socket[conn]) : socket[conn][k] = i
                   THEN "connection lost" ELSE fate[i]]
    /\ socket' = [socket EXCEPT ![conn] = <<>>]
    /\ closed' = closed \cup {conn}
    /\ conn' = None
    /\ UNCHANGED <<probeVars, ring, tracerVars, channel, senderVars, backlog, noticed, running,
                   opened, log>>

\* Every event of the instance has been produced and has met its fate.
Exhausted ==
    /\ Len(events) = MaxEvents
    /\ \A i \in Ids : fate[i] # "moving"
    /\ UNCHANGED vars

Probe == \E c \in Cpus : Output(c) \/ \E kind \in Kinds, key \in Keys : Fill(c, kind, key)
Sender == SenderAccept \/ SenderRecv \/ SenderWrite \/ SenderFails
Host == BootReturns \/ HostConnect \/ HostReads \/ HostLoses

Next ==
    \/ Tick \/ Probe \/ ReadRing \/ Sender \/ Host \/ Exhausted
    \/ \E x \in Conns : CloseArrives(x)

Spec == Init /\ [][Next]_vars

\* The tasks of the tokio runtimes run when they are ready, and the transport
\* reports a closed connection.  Probes fire when they please, the boot may
\* never return and connections may break at any time.
FairSpec ==
    /\ Spec
    /\ WF_vars(ReadRing)
    /\ WF_vars(SenderAccept) /\ WF_vars(SenderRecv) /\ WF_vars(SenderWrite) /\ WF_vars(SenderFails)
    /\ WF_vars(HostConnect) /\ WF_vars(HostReads)
    /\ \A x \in Conns : WF_vars(CloseArrives(x))

(***************************************************************************)
(* Properties.                                                             *)
(***************************************************************************)
Elements(s) == {s[k] : k \in 1..Len(s)}

\* "globally ordered": across every queue, reconnection and loss, what the
\* host logs of one CPU's events is in the order the probes produced them, and
\* nothing is logged twice.
LoggedInOrder ==
    \A a, b \in 1..Len(log) : a < b =>
        /\ log[a] # log[b]
        /\ events[log[a]].from = events[log[b]].from => log[a] < log[b]

\* Events the ring buffer dropped that lie between two events of the same CPU
\* that the tracer has read.
HasRead(i) == fate[i] # "ring full" /\ i \notin Elements(ring) /\ \A c \in Cpus : scratch[c] # i
DroppedBetween ==
    {d \in Ids : /\ fate[d] = "ring full"
                 /\ \E a, b \in Ids : /\ a < d /\ d < b
                                       /\ events[a].cpu = events[d].cpu /\ events[b].cpu = events[d].cpu
                                       /\ HasRead(a) /\ HasRead(b)}

\* The tracer's cumulative gap count is exactly the number of events the ring
\* buffer dropped between events it has read.
GapsAreExact == totalGaps = Cardinality(DroppedBetween)

\* "a gap here means real drops, not re-ordering" (garden-ebpf-common lib.rs).
GapsAreDrops == totalGaps <= Cardinality({i \in Ids : fate[i] = "ring full"})

\* An open is only suppressed if an open of the same process and path came
\* through less than a window before it.
SuppressedHasTwin ==
    \A i \in Ids : fate[i] = "duplicate" =>
        \E j \in Ids : /\ j # i /\ fate[j] # "duplicate" /\ HasRead(j)
                       /\ events[j].kind = "open" /\ events[j].key = events[i].key
                       /\ SaturatingSub(events[i].ts, events[j].ts) < Window

\* "if the host disconnects, we go back to the accept loop": once the VM is
\* reported running, an event in the channel leaves the guest or is lost with
\* a broken connection; the sender never stays behind on a dead one.
ChannelDrains ==
    \A i \in 1..MaxEvents :
        (running /\ i \in Elements(channel)) ~> (i \in Ids /\ fate[i] \in {"logged", "connection lost"})

=============================================================================
