# Formal model of garden-ai

garden-ai runs an AI agent's commands in a Linux microVM on macOS and watches
them with eBPF. These modules model the parts whose correctness depends on
interleavings, timeouts, lost events, reused ids and failures half way. TLC
checks them on small instances; TLAPS proves nearly all of their safety
properties for every value of the constants.

## The system

Host: `garden-daemon` serves gRPC (:9000) and HTTP (:9001), drives Apple's
Virtualization framework through Swift, forwards commands to the guest over vSock
(:10000), receives the guest's telemetry, logs it, reacts to it and broadcasts it
(:10001). `garden-cli`, `garden-mcp` and the SwiftUI app are its clients. Guest:
the agent is PID 1; it loads the policy, starts the eBPF tracer, executes
commands, reaps orphans and streams events. Kernel: the probes of
`garden-ebpf-probes` report events, five LSM hooks enforce the policy.

| part | code (under `src/crates` unless noted) | modules |
|---|---|---|
| VM lifecycle: boot, stop and connect handlers, Swift engine, framework callbacks | `garden-daemon/src/main.rs`, `virtualizer.rs`, `swift/` | `VmLifecycle`, `VmService` |
| session log: byte counters, rotation | `garden-daemon/src/event_log.rs` | `EventLog` |
| telemetry: probe, ring buffer, tracer, channel, vSock sender, receiver | `garden-ebpf-probes`, `garden-ebpf/src/tracer.rs`, `garden-agent`, daemon | `Telemetry` |
| command execution, orphan reaper | `garden-agent/src/agent_core.rs` | `AgentExec` |
| network policy: rules, tries, connect and sendmsg hooks, tracer start | `garden-ebpf/src/policy.rs`, `tracer.rs`, probes, CLI | `NetPolicy` |
| open intents, file and exec hooks, path maps | probes, `tracer.rs`, `policy.rs` | `OpenHooks` |
| TCP byte buckets | probes | `TcpBuckets` |
| `detect_violation`, `normalize_path` | `event_log.rs` | `Violations` |
| reactive kills, broadcast of telemetry | daemon `main.rs` | `Reactions` |
| SwiftUI app: state, polls, timers | `src/garden-ui`, `AppState.swift`, `DaemonClient.swift` | `AppState` |
| SwiftUI app: event stream | `src/garden-ui`, `TelemetryStream.swift` | `TelemetryStream` |
| MCP tools and their cached client | `garden-mcp/src/server.rs` | `McpServer` |
| `garden start`, `garden down` | `garden-cli/src/main.rs` | `CliDaemon` |

`PROJECT.json` has the same list with notes, the source lines of every
definition, and the hazards. What is left out is at the end of this file.

## Modules

What the environment may do in a behaviour (`Faults`, `faults`, `timings`, `may`,
`timing`, `host`) is chosen at its beginning and does not change, so that one run
has behaviours without faults and behaviours with them, and a property can say
which it is about.

**VmLifecycle.** A *request* is one call of a handler on its own thread, and also
names the VM a boot creates. `pc`, `call`, `reply` are the handler's control
state. `running`, `bootTime`, `kernelPath` are `VmState`; `config`, `machine`,
`vsockConnections` the Swift engine; `mainQueue` the FIFO of blocks dispatched to
the main thread; `block[r]` the state of a request's block and semaphore. Each
access to state that another thread can see is a step: the check of `running`,
the policy write, `configure`, `start`, the three stores after it, and for a stop
the check and, later, the dispatch of its block. Completion handlers may come
after the handler has timed out. Every wait of a handler is on a semaphore with a
timeout (`TimesOut`), so none depends on the main queue. `VmService` is the promise to
one client: a sandbox that is off or on with a kernel, and a report that follows
it. `VmModes` adds `mode`, also fixed: *racing* (calls at once, every
fault), *ordinary* (one client at a time, calls that fail but do not time out),
*off_track* (one client at a time, every fault but a start that outlives its
timeout).

**EventLog.** `EventLogger::log` one file-system operation at a time. `files[0]`
is `events.ndjson`, `files[n]` is `events.n.ndjson`; `handle` says where the open
file is by now (a name, `/dev/null`, or deleted). A failed write may leave part
of a line.

**Telemetry.** `events` is the history of what the probes produced, the stages
hold indexes into it, and `fate` records how an event's way ended. Stages: per-CPU
scratch and sequence number, ring buffer, the tracer's gap detection and dedup,
the bounded channel, the sender with the event in its hand, a succession of
connections, the receiver.

**AgentExec.** Handlers of commands, `managed_pids`, and the reaper, over a process
table with reused pids. A process is a pid and a generation; the code sees only
the pid. `timings` says whether a command may exit before its pid is registered
and whether a pid may be reused while someone still goes by it.

**NetPolicy.** From the policy file to the verdict of a hook. Addresses are bit
sequences. v4 matching masks a word, v6 matching compares bytes and then bits,
keys for the tries are made by a third piece of code: all three are modelled as
they are. The agent fills four tries, attaches hooks and serves, and may fail at
each step. `readable` says whether the guest can deserialise the file.

**OpenHooks.** `TraceOpenat` is the tracepoint, which leaves an intent for its
thread in `intents` (`OPEN_INTENT`); the kernel then looks the path up, which may
fail (`LookupFails`) so that the hook never runs; `LsmFileOpen` takes the intent
and judges the canonical path; `Execve` is the `bprm_check` hook. `ReuseIds` gives
a thread's ids to a new process. A path is its segments; the limits of the
programs in bytes are limits on the number of segments. **Violations** holds the
host's rules on the same events as operators: every arm of `detect_violation`,
and `normalize_path` with its stack.

**TcpBuckets.** The counters of `tcp_sendmsg` and `tcp_recvmsg`: the look-up and
the store are two steps (`LookUp`, `Store`) of a thread, so probes on several CPUs
can overlap; the return value of `tcp_recvmsg` comes in a register whose upper
half is arbitrary. **Probes** puts `OpenHooks` and `TcpBuckets` side by side: they
share no state, so a behaviour (`workload`) works on one of them.

**Reactions.** `Receive` is one turn of `process_telemetry_stream`: parse, log,
count bytes, detect, broadcast, and start the kill tasks. `Kill` is such a task at
the moment the agent executes it. `slots`, `total` and `conn` are tokio's
broadcast ring and the consumers of :10001. Processes of the guest emit events,
change their uid, end and pass on their pids meanwhile. The agent executes the
kill as uid 1000, so that it is refused for a process of root (`root`, `refused`);
nobody looks at its exit code. `guilty` is the history of the processes that made
a call the daemon kills for.

**AppState.** The main actor is atomic between awaits, so each function is an
action that starts it and one that resumes it (`boot` and `ResumeBoot`, `PollTick`
and what a poll sees). `calls` are the awaited HTTP calls; `running` counts the
timers that really tick, beside the fields that hold them. **TelemetryStream** is
the stream's `NWConnection` and its replacement after 3 s; a callback becomes a
job of the main actor (`jobs`) that may run when its connection is no longer the
stream's. **McpServer** is `exec` with the cached client behind a fair lock; `link`
is what the proxy has made of its connection: when the VM is stopped, the copy
task towards the guest ends and the one towards the client stays, so that the
client's half is open though nothing will come (`cut`). **CliDaemon** is the
processes of the host with `start` and `down` running at once. A daemon that finds
:9000 taken prints so and runs on without it (*stranded*); one may be left of
earlier starts. `down` looks at a pid's command line (`Verify`) and signals it
(`Term`) in two steps, between which the pid may pass on. **HostDaemon** is the
daemon as one client sees it, on the port that client uses, changed by others; it
finishes a boot or a stop whose caller has given up (`late`). **Clients** puts the
four programs beside it, one per behaviour (`program`).

The modules meet at named places: `policyFile` of `VmLifecycle` is what
`NetPolicy`'s agent reads; `running` starts `Telemetry`'s receiver; one `HostReads`
of `Telemetry` is one `Receive` of `Reactions`, whose log call is one `log()` of
`EventLog`; the hooks of `OpenHooks` and the rules of `Violations` are composed and
compared in the `probes` run; the broadcast of `Reactions` ends the connection of a
consumer that lags, which is `Lags` of `TelemetryStream`. `HostDaemon` stands for
`VmService` plus the life of the process.

## Runs

| run | instance | shows |
|---|---|---|
| `vm_lifecycle` | 3 racing calls with every fault; 4 calls of one client | success replies are true, `running` has a cause; for one client the daemon keeps track of its VM and implements `VmService` |
| `event_log` | 2 rotated files, 5 calls | order, size limit, only the oldest file deleted, crossings reported, and once |
| `telemetry` | 2 CPUs, 3 events, capacities 1 | order per CPU, exact gap count, dedup only of repeats, the channel drains |
| `agent` | 2 handlers, 2 pids, 3 processes | statuses are not stolen, every command answered, zombies reaped |
| `net_policy` | 2 rules and the catch-alls, 2-bit and 4-bit addresses | the tries agree with `cidr_match`; `--network=deny`; first match |
| `probes` | PID 1 and a process of 2 threads, 6 policies, every path of up to 5 segments; 3 threads of 2 processes on TCP | an open is judged by its own intent and confined, denied files stay closed, hooks and host agree on `/proc` and on writes, `normalize_path` is lexical, byte counters are accurate |
| `reactions` | PID 1 and one other pid with 2 holders, 3 events, a channel of 1 | what a process is to be killed for is not forgotten and the kill comes, kills for bytes are for the process's own, a stream has no holes |
| `clients` | the app with 2 awaited calls, the stream with 2 connections, 2 tool calls at once, 2 CLI invocations over 3 pids | the app and its stream converge on the daemon, timers tick once, a tool call is answered unless the VM is stopped under it, start and down do what they say |
| `vm_boot_refused`, `vm_stale_policy`, `telemetry_gaps`, `net_deny_unread` | | what the repository says and the code does not do (below) |

Bounds. Three requests (`MaxRacing`) are two racing calls and one that finds what
they left; four are a boot, a stop, a second boot and a connect beside them.
Capacities of one make every queue overflow and drain. Two rotated files have an
oldest, a shifted and an active one. A byte of two bits lets a v6 prefix end
inside a byte, and a trie of two entries overflows with the catch-alls.
`MaxIntents` 1 fills the intent map with the second thread; paths longer than
`MaxKey`, `DotDotScan` and `PrivescScan` are among the calls. `TCP_RATE_BUCKET` 4
with amounts of 1 and 3 fills a bucket exactly, short and over; `IntHalf` 4 makes
an int of three bits, negative results included. `MaxHolders` 2 is one reuse of a
pid. `MaxChanges` 2 lets the daemon go and come back under a client, `MaxCalls` 4
is each of two tool calls before and after. The stream's two `Conns` are an old
and a new connection; the stream alone with three passes too (546,657 states).
Larger instances are not claimed, except where a theorem says so.

Fairness. `Telemetry`: tokio tasks that are ready run, and the transport reports a
closed connection; probes, boots and breaks owe nothing. `AgentExec`: handlers and
their timers run, and the reaper, which wakes every second, comes to each zombie
left to it (strong fairness, because one round ends at the first managed zombie);
commands need not exit. `Reactions`: the receiver and the kill tasks are
scheduled by tokio; processes and consumers owe nothing. `Clients`: `URLSession`
answers or throws (it has a timeout), the main actor resumes what it can and runs
its jobs, the poll's timer repeats, the framework reports what becomes of a
connection, a sleep ends, and a tool call that can go on does (the agent has a
deadline, a closed connection is noticed; one that is open though the VM has
gone never ends the wait); users, terminals and the daemon owe nothing.
`VmLifecycle` assumes none.

Deadlock is checked everywhere: `Exhausted`, `RacingExhausted`, `Dead`, `TcpQuiet`
and `Quiet` are the stutters of a finished instance or of a program that waits
for its user.

### Where the repository and the code disagree

- `vm_boot_refused`: the guest stops by itself, nothing clears `running`, and boot
  is refused, although `garden-daemon/src/main.rs:283-284` keeps the daemon alive
  for "a subsequent `garden boot`".
- `vm_stale_policy`: the HTTP boot leaves the policy file of an earlier boot in
  place; `daemon.proto:35` says "Empty = guest uses default-observe."
- `telemetry_gaps`: events of the `sb_mount` hook carry no sequence number of their
  own, so gaps are counted where nothing was dropped.
- `net_deny_unread`: `garden boot` asks for JSON only. A file that is JSON but no
  `SecurityPolicy` is replaced in the guest by default-observe, catch-alls
  included, while `garden-cli/src/main.rs:24-28` says every connect is rejected.

Three comments that no run refutes, because the modules follow the code:

- `rotate()` is said to delete `events.{max_files-1}` and to shift from
  `max_files-2` down (`event_log.rs:621-623`). It deletes `events.{max_files}` and
  shifts from `max_files-1` down, as the module's own comment (lines 12-13) and
  the test of rotation have it. `OnlyOldestDeleted` is about what it does: by the
  comment on `rotate()` it would fail for `events.{max_files-1}`.
- For rules in `kernel_enforced` "the process is already dead by the time this
  event reaches the daemon" (`garden-daemon/src/main.rs:535-537`). The hooks do not
  know `/proc/sysrq-trigger` and `/proc/sys/kernel/sysrq`, nor the devices of a
  `/dev` that is mounted on its own (`HookMisses`), and they allow writes to `/etc`
  or `/var` (`WritableDirs`), which the host reports.
- "SIGKILL the offending process" (`garden-daemon/src/main.rs:534`): the kill runs
  as uid 1000 and is refused for a process of root, which is what a process caught
  in `privilege_escalation` is.

### Conditions under which properties are stated

These restrict a property to less than every behaviour of the code:

- `TrackedForOneClient` and `ImplementsVmService` are for one boot or stop at a
  time. They leave out start timeouts: a start that completes after its timeout
  leaves a VM that `stop_vm` refuses. That `VmState` agrees with the engine, and
  the refinement, are for *ordinary* behaviours.
- `GapsAreExact` is run, and proved (`NoMounts`), without events of the `sb_mount`
  hook; `telemetry_gaps` is the run with them.
- `FileWithinLimit` counts whole lines: the parts of lines that failed writes leave
  behind come on top.
- `OkMeansLogged` and `CrossingReported` are for a file system without failures.
  After a failed rotation the handle can stay on `/dev/null` and `log` still
  returns Ok.
- `ManagedStatusNotStolen` is for `timings = {}`: a command that exits before its
  pid is registered can lose its status to the reaper.
- `FirstMatchEnforced` is for policies whose allow rules precede their deny rules,
  without ports and log rules: the hooks let any allow entry win. Rules with a
  port are not in the tries, and the tracer's kill covers only events that no
  rule matches.
- `NetworkDenyBlocksTheRest` is for files that the guest can read.
- `IntentHandedOver` is for behaviours in which every lookup reaches its hook and
  the map has room: an `openat` that fails first leaves its intent to the thread's
  next open. `OpensConfined` holds with such leftovers, as long as the map has
  room and the path fits the hook's buffer.
- `DeniedStaysClosed` is for policies without globs and for files whose key no
  allow rule has: the maps hold exact paths, an allow entry wins, and keys are cut
  at 255 bytes, so that an allow rule for a longer path can share a file's key.
- `OpenHooks` assumes that nothing is mounted beneath a directory of `/proc`: the
  hook walks dentries, which end at the root of a mount.
- `ReportedWithinBucket` is for processes whose probes have not overlapped and
  have an entry in the map; with overlaps the theorem `TcpRateIsLimited` remains.
- `HooksAgreeWithHost` is for paths that name their file without links or `..`. Its
  equivalence is for `/proc/<pid>/x` and `/proc/<pid>/ns/x`; elsewhere the hook goes
  by the last names alone and kills for files (a `vmlinux` anywhere, entries of an
  `fd` directory) that no host rule knows.
- `KilledForOwnBytes` is for pids with one holder: the byte counters are never
  reset. Where a pid is given out again while a kill for it is outstanding, the
  kill ends the later holder; no property is stated of that.
- `OffenceNotForgotten` and `OffenderStopped` are for a log, a line and a
  connection that do not fail: there is no retry. Both allow for the kill to be
  refused. `StreamHasNoHoles` is for lines that parse: one that does not is not
  broadcast.
- `TimersTickOnce` is for apps in which no poll falls between the start and the
  end of another operation: a timer that is replaced goes on ticking.
- `UiConverges` is, for a daemon that is up, for status calls that are answered in
  time; boots and stops may take longer than the app waits.
- `StreamReturns` promises the return of the stream for callbacks that take less
  than the 3 s before a reconnection; a later one cancels the connection made
  since. That no second connection is open holds for every delay.
- `DownSignalsItsDaemons` is for hosts where no other command line names
  `garden-daemon` and pids are not reused at once, `StartLeavesOneServer` for
  daemons that do not fail to come up; it counts those that hold :9000, and the
  stranded ones go on beside it. `DownMeansDown` holds on every host, for a daemon
  that ignores SIGTERM only if it listened.
- `EveryToolAnswered` excepts calls that wait, in line, for a command whose VM was
  stopped under it while its daemon lives on: nothing ends that wait.

## Proofs

Each proof module extends its component's module and rests on that module's
`...Assumption` alone. Each has one lemma or step per action, and a last lemma
that puts them together for `Next`.

**VmLifecycleProofs**, any requests, calls, faults and concurrency: `TypeCorrect`,
`RepliesAreHonest` (`HonestReplies`), `RunningIsCaused` (`RunningHasCause`),
`StartsAreConfigured` (the `guard let config` of `start()` never trips).
`HonestReplies` is not inductive: that a success reply is true depends on what
the semaphore meant when the handler read it. `IInv` adds `HandlerInv` (which
call is at which `pc`, and what its block was), `QueueInv` (a queued request is
queued once and its block has not run), `VmInv` (a VM exists only once its block
ran, and did start if its completion said so) and `StopInv` (a stop that
succeeded had a target, stopped for good).

Of the same module, for the modes of `VmModes`: `OneClientIsTracked`
(`TrackedForOneClient`) and `ServiceIsImplemented` (`ImplementsVmService`), any
number of calls of one client. Between two steps of a call the daemon is not
coherent, so the invariants say by how much it may be off. For one client whose
boots do not time out: `PlaceInv` (a boot has its handler until its start has
completed, and goes on only while no VM is said to run) and `EngineInv` (only the
current machine is up or has connections, and one that is up is said to run unless
its boot is about to say so). Where also no call times out and no guest stops by
itself: `OrdinaryPlaceInv` (every block has its handler, which finds `running` and
the configuration as it left them) and `OrdinaryEngineInv` (`VmState` agrees with
the engine but for what the call at hand has yet to store). `ModesInv` puts them
together with `IInv`. In the refinement the sandbox is the kernel of the current
machine while that runs, the report is `running`; a start completion is `PowerOn`,
a stop completion `PowerOff`, a store of `running` is `Report`, and every other
step stutters.

**EventLogProofs**, any limits, number of files, events and failures:
`LogStaysInOrder` (`FilesInOrder`), `FilesStayWithinLimit` (`FileWithinLimit`),
`RotationKeepsLines` (`OnlyOldestDeleted`), `CrossingsAreReportedOnce`
(`CrossingReportedOnce`), `OkIsLogged` (`OkMeansLogged`), `CrossingsAreReported`
(`CrossingReported`). The order of the files is not inductive either: a
rotation that fails half way leaves the handle on a file that has moved. The
invariant adds `NewestAtHand` (the line at hand is newer than every line in the
files), `HandleIsNewest` (no file newer than the handle's has lines, and
`current_bytes` covers the handle's file) and `RoomToShift` (the next rename has a
free target). For the crossings, `ReportedOnly`: a process has been reported only
if its total has reached the threshold, so a crossing at hand is the first. The
other direction (`ReportedAll`, without faults) keeps every total at or over the
threshold reported; that an Ok means a line needs `ActiveAtHand`: without faults
the handle is on `events.ndjson` whenever a line is written.

**ProbesProofs**, first `TcpBuckets`, any threads, bucket, width of int and
register contents: `TcpReportsAreAccurate` (`ReportedWithinBucket`),
`TcpRateIsLimited` (an event for each bucket at most, races included).
`ReadIsCurrent`: without overlap, what a running program has read is still the
counter. `RegisterRoundTrip`: the low half of the register, sign-extended, is the
int that was returned. Then `OpenHooks`, any threads, calls, policies, mounts and
limits: `IntentsAreHandedOver` (`IntentHandedOver`), `OpensAreConfined`
(`OpensConfined`), `DeniedFilesStayClosed` (`DeniedStaysClosed`), `PathsNormalize`
(`NormalizeIsLexical`), `HooksAndHostAgree` (`HooksAgreeWithHost`). `HookInv` ties the
result of each thread's last call to the verdict on its own file with the intent
that was taken, and says where a thread is in its call; `HandOver` adds, where
lookups do not fail and the map has room, that the intent on file is the one of
the call at hand. The other three follow from the verdict alone. `ProcDentries`
relates the names the hook reads to the segments of the path; `ProcFileBlocked` and
`ProcFileReported` work out what the hook and the host make of a file of a process,
`SensitiveBlocked` what the hook makes of the host's sensitive files.

**PathProofs**, paths of any length: `NormalizeFindsTarget`, that `normalize_path`
computes `LexicalTarget`, and `NormalizeIsIdempotent`. `HasStacks` unfolds the fold
of `normalize_path` into the row of stacks after each part; `Lists` says which
parts of the path a stack holds: those not matched by a later `..`, in order, as
counted by `Balance`, which the definition without a stack (`LexicalTarget`) counts
too. `ListsNext` carries it over one part, one lemma for each arm of the match.

**GuestProofs**, first `AgentExec`, any handlers, pids and processes:
`StatusIsNeverStolen` (`ManagedStatusNotStolen`). The invariant says that a handler's child is its own
until its wait returns (`ChildIsOwn`), that two handlers have two pids
(`PidsDiffer`), that a waiting handler's pid is registered (`Registered`), and that
what the reaper is about to reap is no handler's (`ReaperIsRight`). Then `NetPolicy`, any rules, destinations, lengths of addresses and sizes of
tries: `TriesAgreeWithCidr` (`KernelAgreesWithCidr`), `NetworkDenyDenies`
(`NetworkDenyBlocksTheRest`), `HooksEnforceFirstMatch` (`FirstMatchEnforced`). The
lemmas show that v4 words, v6 bytes and trie keys all compare the first *prefix*
bits (`Agree`); the invariant says which tries are filled at which stage of the
start (`TriesFilled`), that both hooks are attached when the agent serves, that
`--network=deny` has put its catch-alls into the rules, and that the last verdict
still stands (`LastStands`).

**ReactionsProofs**, any pids, calls, rules and faults: `OffencesAreNotForgotten`
(`OffenceNotForgotten`), `KillsForOwnBytes` (`KilledForOwnBytes`),
`StreamsHaveNoHoles` (`StreamHasNoHoles`). The first needs that a guilty process is
none that is still to come under its pid (`Known`), and `OffenceStartsTask`: an event
that is an offence leaves the wire only for a task.
`WithinOwn`: with one holder of a pid, its counter is with
the bytes of its events on the wire, within what it had sent by each of them.
`Follows`: a consumer's lines, and those it has yet to take from the ring, are
consecutive.

**TelemetryProofs**, any CPUs, capacities, window, connections and events:
`LogKeepsOrder` (`LoggedInOrder`), `DuplicatesHaveTwins` (`SuppressedHasTwin`),
`GapsAreCounted` (`GapsAreExact`, for guests without `sb_mount` events). The stages
from the log back to the ring buffer are one row of queues, and every step takes
the head of one to the end of the next, drops it or drops a queue (`Advanced`):
the row stays sorted per CPU. `TwinInv` says that behind every entry of the dedup
table is an open that passed at that time. `SeqInv` and `ReadInv`: the numbers of a
CPU have no holes, nothing that is read later precedes what has been read, and
the number the tracer expects next follows that of the last event read.

**ClientsProofs**, any calls, connections, tool calls, commands and pids:
`TimersAreSingle` (`TimersTickOnce`), `ConnectionsDoNotPileUp` (`OneOpenConnection`,
the safety part of `StreamReturns`), `StaleClientsFailOnce`
(`StaleClientFailsOnce`), `DownSignalsOnlyItsDaemons` (`DownSignalsItsDaemons`),
`DownIsDown` (`DownMeansDown`), `StartsLeaveOneServer` (`StartLeavesOneServer`).
`OneAtATime`: where operations do not meet, one call is awaited at a time, the
state of the app is that of the call, and timers run only in a running VM; `McpInv` that the tool call that runs holds the lock, and that a daemon on
whose client a call failed is gone; `Progress` what a `down` has achieved after
each turn of its loop over the pids, and `OneListener` that the port is held once.

Induction over data is by a least counterexample in a set of numbers (`UpTo`):
the library's induction theorems take an operator, which the installed provers
cannot instantiate.

Only model-checked: liveness, which is outside the prover's reach, that the stream
does come back (`StreamReturns`) included.

## Abstractions

VM hardware configuration is the kernel it names. That the framework stops a VM
and that the task waiting for it clears `self.machine` are one step
(`StopSucceeds`): until that task runs, the VM still counts as running, and a start
block that runs in between is one that runs before. For a TCP send the size asked
for at the entry of `tcp_sendmsg` is taken as what is moved; the probe cannot know
better. Event contents are what rules
and dedup look at: a kind, a key or a path, a size. The programs' reads of kernel
memory succeed, and so does taking the per-CPU scratch event (its failure would
block as well). Address parsing is not modelled, except that a prefix may be
missing, not a number or too long. Messages, JSON and terminal output are left
out. Bounds are named `Max...`.

## Not modelled

- The other probes (exec, mount, bpf, ptrace, fork, exit, DNS): each copies kernel
  memory into one event; sending, numbering and drops are in `Telemetry`.
- The copy loops of the TCP to vSock proxy, and `VsockStream`: I/O. The connects
  they ask for are calls of `VmLifecycle`, and what becomes of the client's half
  when the VM stops is `link` of `McpServer`.
- Three of the daemon's four ports in `CliDaemon`: two daemons that each get some
  of them are not among its behaviours.
- The sessions API, MCP resources and prompts: they read log files and format them.
- `garden run`, `agent`, `update`: one request each and its printing.
- The seccomp list and the BTF parser: no state that changes after start.
- Parsing of addresses in `policy.rs`: text to bits, with no state; the hazard list
  says what is uncovered there.
- A `TelemetryStream` that `AppState` replaces without stopping it, which can happen
  where a poll falls into a boot; `AppState` records only whether it holds one.
- Views, mock data, the earlier UI, protocol files, kernel and image builds.
