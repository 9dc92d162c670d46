------------------------------ MODULE OpenHooks ------------------------------
(***************************************************************************)
(* The file side of the in-kernel enforcement (garden-ebpf-probes): the    *)
(* openat tracepoint leaves an intent for the thread in OPEN_INTENT, the   *)
(* file_open hook takes it and judges the canonical path, and the          *)
(* bprm_check hook judges what execve is about to run.  Between the        *)
(* tracepoint and the hook the kernel looks the path up, and may fail.     *)
(*                                                                         *)
(* A canonical path is its sequence of segments.  The byte limits of the   *)
(* probes are limits on the number of segments here.                       *)
(***************************************************************************)
EXTENDS Violations

CONSTANTS
    Threads,       \* pid_tgid values
    Pid,           \* the process of each thread
    OpensOf,       \* the openat calls of each thread: [path, write, file]
    ExecsOf,       \* the execve calls of each thread: [path, arg0, file]
    PolicyChoices, \* the policies the guest may have loaded
    FaultChoices,  \* what may go wrong, per behaviour
    MountRoots,    \* where file systems are mounted
    WorkspaceLike, \* the names that begin with "workspace"
    SelfName,      \* what /proc/self is a link to
    MaxKey,        \* segments that fit the 256 bytes of a path buffer
    DotDotScan,    \* segments within the 125 bytes searched for `..`
    PrivescScan,   \* segments within the 64 bytes searched for the last slash
    MaxIntents     \* entries of OPEN_INTENT

AllFaults == {"lookup", "intent_full"}

Segments  == Seq(STRING)
Paths     == [abs : BOOLEAN, segs : Segments]
FileRules == [action : {"allow", "deny", "log"}, glob : BOOLEAN, dir : Segments]

\* Nothing is mounted beneath a directory of /proc, nor on a file the rules name.
ASSUME OpenHooksAssumption ==
    /\ \A t \in Threads :
           /\ Pid[t] \in Nat \ {0}
           /\ \A o \in OpensOf[t] : o.path \in Paths /\ o.write \in BOOLEAN /\ o.file \in Segments
           /\ \A x \in ExecsOf[t] : x.path \in Paths /\ x.file \in Segments
    /\ \A p \in PolicyChoices : p \in Seq(FileRules)
    /\ FaultChoices \subseteq SUBSET AllFaults
    /\ \A m \in MountRoots : m \in Segments /\ (Len(m) > 1 => m[1] # "proc") /\ m \notin SensitiveInterfaces
    /\ <<>> \in MountRoots /\ "workspace" \in WorkspaceLike
    /\ SelfName \in PidNames /\ PidNames \cap {"dev", "fd", "ns"} = {}
    /\ {MaxKey, DotDotScan, PrivescScan, MaxIntents} \subseteq Nat \ {0}

VARIABLES
    faults, policy, \* chosen once
    intents,        \* OPEN_INTENT: the flags kept for each thread
    pc,             \* "idle", "open" between tracepoint and hook, or "dead"
    cur,            \* the call in progress, or the last one
    used,           \* the intent the hook applied to it
    result          \* what became of it

vars == <<faults, policy, intents, pc, cur, used, result>>

NoCall == [op |-> "none"]

(***************************************************************************)
(* The policy maps: file rules without a glob, by path_to_map_key.         *)
(***************************************************************************)
path_to_map_key(segs) == SubSeq(segs, 1, IF Len(segs) < MaxKey THEN Len(segs) ELSE MaxKey)

\* Mutant: a log rule is taken for an allow rule.
PathsLogAllows(action) ==
    {path_to_map_key(policy[i].dir) : i \in {j \in DOMAIN policy :
        ~policy[j].glob /\ policy[j].action \in {action} \cup
            (IF action = "allow" THEN {"log"} ELSE {})}}

\* DENIED_PATHS and ALLOWED_PATHS
PathsWith(action) ==
    {path_to_map_key(policy[i].dir) : i \in {j \in DOMAIN policy :
        ~policy[j].glob /\ policy[j].action = action}}

\* glob_match: a pattern is a path, or a directory followed by `/*`, which
\* also matches further slashes.
glob_match(rule, path) ==
    IF rule.glob THEN Beneath(path, rule.dir)
                 ELSE path.abs /\ path.segs = rule.dir

\* SecurityPolicy::evaluate on a FileAccess or ProcessExec event
evaluate(path) ==
    LET hits == {i \in DOMAIN policy : glob_match(policy[i], path)} IN
    IF hits = {} THEN "log"
    ELSE policy[CHOOSE i \in hits : \A j \in hits : i <= j].action

(***************************************************************************)
(* What the programs look at.                                              *)
(***************************************************************************)
path_starts_with_workspace(segs) == segs # <<>> /\ segs[1] \in WorkspaceLike

WritableDirs == {"dev", "tmp", "etc", "run", "var", "proc", "sys"}

path_has_dotdot_segment(segs) ==
    \E i \in DOMAIN segs : i <= DotDotScan /\ segs[i] = ".."

\* Mutant: a traversal is looked for only when the open does not write.
EitherIntent(o) ==
    IF o.write THEN {"write"}
    ELSE {x \in {"traversal"} : o.path.abs /\ path_starts_with_workspace(o.path.segs)
                                    /\ path_has_dotdot_segment(o.path.segs)}

\* The flags trace_openat works out from the raw path and the open flags.
IntentOf(o) ==
    {x \in {"traversal"} : o.path.abs /\ path_starts_with_workspace(o.path.segs)
                               /\ path_has_dotdot_segment(o.path.segs)}
        \cup {x \in {"write"} : o.write}

\* bpf_d_path into 256 bytes
d_path_fits(file) == Len(file) <= MaxKey

\* The two checks on the canonical path
IntentAllows(intent, file) ==
    /\ "traversal" \in intent => path_starts_with_workspace(file)
    /\ "write" \in intent => \/ path_starts_with_workspace(file)
                             \/ Len(file) > 1 /\ file[1] \in WritableDirs

\* The name of the dentry i steps above the file; d_parent stops at the root
\* of its file system, which is called "/".
DentryName(file, i) ==
    LET root  == CHOOSE m \in MountRoots :
                     /\ IsPrefix(m, file)
                     /\ \A n \in MountRoots : IsPrefix(n, file) => Len(n) <= Len(m)
        depth == Len(file) - i
    IN  CASE depth > Len(root) -> file[depth]
          [] depth = Len(root) -> "/"
          [] OTHER -> ""

ProcDangerNames ==
    {"mem", "maps", "pagemap", "smaps", "status", "cmdline", "wchan", "stack",
     "syscall", "environ"}
ProcSensitiveLeaves == {"kallsyms", "kcore", "vmlinux"}
DevSensitiveLeaves  == {"mem", "kmem", "port", "kmsg"}

\* Mutant: the leaf is compared with the grandparent.
BlockedGrandparent(n0, n1, n2) ==
    \/ n2 \in PidNames /\ n0 \in ProcDangerNames
    \/ n2 \in PidNames /\ n1 \in {"fd", "ns"}
    \/ n0 \in ProcSensitiveLeaves
    \/ "dev" \in {n1, n2} /\ n0 \in DevSensitiveLeaves

BlockedNames(n0, n1, n2) ==
    \/ n1 \in PidNames /\ n0 \in ProcDangerNames
    \/ n2 \in PidNames /\ n1 \in {"fd", "ns"}
    \/ n0 \in ProcSensitiveLeaves
    \/ "dev" \in {n1, n2} /\ n0 \in DevSensitiveLeaves

\* try_lsm_file_open for a thread that is not PID 1
FileOpenVerdict(intent, file) ==
    IF intent # {} /\ d_path_fits(file) /\ ~IntentAllows(intent, file)
    THEN "killed_intent"
    ELSE IF BlockedNames(DentryName(file, 0), DentryName(file, 1), DentryName(file, 2))
    THEN "killed_leaf"
    ELSE IF d_path_fits(file) /\ file \in PathsWith("deny") \ PathsWith("allow")
    THEN "denied"
    ELSE "ok"

PrivescNames ==
    {"su", "sudo", "newuidmap", "newgidmap", "pkexec", "nsenter", "unshare"}

\* A bare file name has no slash to start from: only su and sudo are known.
path_is_privesc_binary(path) ==
    IF ~path.abs /\ Len(path.segs) = 1
    THEN path.segs[1] \in {"su", "sudo"}
    ELSE Len(path.segs) \in 1..PrivescScan /\ Last(path.segs) \in PrivescNames

\* try_lsm_bprm_check: PID 1 is not exempt.
BprmVerdict(path, file) ==
    IF path_is_privesc_binary(path) THEN "denied"
    ELSE IF ~d_path_fits(file) THEN "ok"
    ELSE IF path_is_privesc_binary(Path(TRUE, file))
             \/ file \in PathsWith("deny") \ PathsWith("allow")
    THEN "denied"
    ELSE "ok"

(***************************************************************************)
(* The calls of the threads.                                               *)
(***************************************************************************)
Init ==
    /\ faults \in FaultChoices
    /\ policy \in PolicyChoices
    /\ intents = [t \in Threads |-> {}]
    /\ pc = [t \in Threads |-> "idle"]
    /\ cur = [t \in Threads |-> NoCall]
    /\ used = [t \in Threads |-> {}]
    /\ result = [t \in Threads |-> "none"]

\* bpf_send_signal(9) ends the process: threads that are in a call finish it.
Dying(p) == \E t \in Threads : Pid[t] = p /\ result[t] \in {"killed_intent", "killed_leaf"}

\* The call of t is over with this result.
Return(t, r) ==
    /\ result' = [result EXCEPT ![t] = r]
    /\ LET killed == Dying(Pid[t]) \/ r \in {"killed_intent", "killed_leaf"} IN
       pc' = [u \in Threads |->
                  IF u = t THEN (IF killed THEN "dead" ELSE "idle")
                  ELSE IF killed /\ Pid[u] = Pid[t] /\ pc[u] = "idle" THEN "dead"
                  ELSE pc[u]]

\* Mutant: the intent is kept for the process, not for the thread.
StashForProcess(t, o) ==
    LET room == "intent_full" \notin faults IN
    intents' = [u \in Threads |->
        IF Pid[u] = Pid[t] /\ IntentOf(o) # {} /\ Pid[t] # 1 /\ room
        THEN IntentOf(o) ELSE intents[u]]

\* OPEN_INTENT.insert: nothing to keep leaves an old entry alone; a full map
\* refuses a new key, and the error is dropped.
Stash(t, o) ==
    LET full == "intent_full" \in faults /\ intents[t] = {}
                /\ Cardinality({u \in Threads : intents[u] # {}}) >= MaxIntents IN
    intents' = IF Pid[t] # 1 /\ IntentOf(o) # {} /\ ~full
               THEN [intents EXCEPT ![t] = IntentOf(o)] ELSE intents

\* trace_openat, on entry to the system call
TraceOpenat(t, o) ==
    /\ pc[t] = "idle"
    /\ Stash(t, o)
    /\ pc' = [pc EXCEPT ![t] = "open"]
    /\ cur' = [cur EXCEPT ![t] = [op |-> "open", path |-> o.path, write |-> o.write,
                                  file |-> o.file]]
    /\ used' = [used EXCEPT ![t] = {}]
    /\ result' = [result EXCEPT ![t] = "none"]
    /\ UNCHANGED <<faults, policy>>

\* The lookup fails before the hook (no such file, no permission, a signal).
LookupFails(t) ==
    /\ "lookup" \in faults
    /\ pc[t] = "open"
    /\ Return(t, "failed")
    /\ UNCHANGED <<faults, policy, intents, cur, used>>

\* The file_open hook takes the thread's intent, whoever it was meant for.
TakeIntent(t) ==
    /\ used' = [used EXCEPT ![t] = IF Pid[t] = 1 THEN {} ELSE intents[t]]
    /\ intents' = IF Pid[t] = 1 THEN intents ELSE [intents EXCEPT ![t] = {}]

HookVerdict(t, file) ==
    IF Pid[t] = 1 THEN "ok" ELSE FileOpenVerdict(intents[t], file)

LsmFileOpen(t) ==
    /\ pc[t] = "open"
    /\ TakeIntent(t)
    /\ LET v == HookVerdict(t, cur[t].file) IN Return(t, IF v = "ok" THEN "opened" ELSE v)
    /\ UNCHANGED <<faults, policy, cur>>

\* execve opens the binary, which runs file_open without the tracepoint, and
\* then bprm_check_security.
Execve(t, x) ==
    /\ pc[t] = "idle"
    /\ cur' = [cur EXCEPT ![t] = [op |-> "exec", path |-> x.path, arg0 |-> x.arg0,
                                  file |-> x.file]]
    /\ TakeIntent(t)
    /\ LET v == HookVerdict(t, x.file)
           w == BprmVerdict(x.path, x.file)
       IN  Return(t, IF v # "ok" THEN v ELSE IF w = "ok" THEN "opened" ELSE w)
    /\ UNCHANGED <<faults, policy>>

\* The process ends and its ids are given to a new one; the map keeps what
\* it has.
ReuseIds(p) ==
    /\ p # 1
    /\ \A t \in Threads : Pid[t] = p => pc[t] # "open"
    /\ LET reset(f, v) == [t \in Threads |-> IF Pid[t] = p THEN v ELSE f[t]] IN
       /\ pc' = reset(pc, "idle") /\ cur' = reset(cur, NoCall)
       /\ used' = reset(used, {}) /\ result' = reset(result, "none")
    /\ UNCHANGED <<faults, policy, intents>>

Next ==
    \/ \E t \in Threads :
           \/ \E o \in OpensOf[t] : TraceOpenat(t, o)
           \/ LookupFails(t) \/ LsmFileOpen(t)
           \/ \E x \in ExecsOf[t] : Execve(t, x)
    \/ \E t \in Threads : ReuseIds(Pid[t])

Spec == Init /\ [][Next]_vars

(***************************************************************************)
(* Properties.                                                             *)
(***************************************************************************)

Judged(t) == result[t] \notin {"none", "failed"}

OwnIntent(t) == IF cur[t].op = "open" /\ Pid[t] # 1 THEN IntentOf(cur[t]) ELSE {}

IntentIsOwn == \A t \in Threads : Judged(t) => used[t] = OwnIntent(t)

\* OPEN_INTENT is "set by trace_openat to hand off `this open needs the
\* resolved path checked' to lsm_file_open" (garden-ebpf-probes main.rs:1178):
\* while every openat reaches its hook and the map has room, the hook judges
\* each call by the intent of that call.  Threads of one process, and
\* processes that follow one another under the same ids, never get one
\* another's intents.
IntentHandedOver == faults = {} => IntentIsOwn

\* Whatever lookups failed before and whichever ids are reused, an open for
\* writing that succeeds is in one of the directories trace_openat's
\* hand-over is meant to confine it to, and one that climbs out of
\* /workspace with `..` ends in /workspace.
OpensConfined ==
    \A t \in Threads :
        (/\ result[t] = "opened" /\ cur[t].op = "open" /\ Pid[t] # 1
         /\ "intent_full" \notin faults /\ Len(cur[t].file) <= MaxKey)
        => LET top == SubSeq(cur[t].file, 1, 1) IN
           /\ cur[t].write => \E d \in WorkspaceLike \cup WritableDirs : top = <<d>>
           /\ (cur[t].path.abs /\ \E i \in 2..Len(cur[t].path.segs) :
                   cur[t].path.segs[1] = "workspace" /\ cur[t].path.segs[i] = ".."
                       /\ i <= DotDotScan)
              => \E d \in WorkspaceLike : top = <<d>>

\* The policy maps and SecurityPolicy::evaluate agree on the files that rules
\* name exactly: what evaluate denies by such a rule, no process but PID 1
\* opens and none executes, unless another rule allows that very file (or one
\* so long that its key is cut down to it).
DeniedStaysClosed ==
    \A t \in Threads :
        (/\ Pid[t] # 1 \/ cur[t].op = "exec"
         /\ result[t] = "opened" /\ Len(cur[t].file) <= MaxKey
         /\ ~\E i \in DOMAIN policy :
                policy[i].action = "allow" /\ path_to_map_key(policy[i].dir) = cur[t].file
         /\ ~\E i \in DOMAIN policy : policy[i].glob)
        => evaluate(Path(TRUE, cur[t].file)) # "deny"

\* What the kernel's lookup makes of a path with no links but /proc/self
Canonical(path) ==
    LET segs == normalize_path(path).segs IN
    [i \in DOMAIN segs |->
        IF i = 2 /\ segs[1] = "proc" /\ segs[2] = "self" THEN SelfName ELSE segs[i]]

Plain(t) == cur[t].op = "open" /\ cur[t].path.abs /\ cur[t].file = Canonical(cur[t].path)

HostRule(t) ==
    detect_violation([kind |-> "FileAccess", pid |-> Pid[t],
                      path |-> cur[t].path, write |-> cur[t].write])

\* /proc/<pid>/x and /proc/<pid>/ns/x, where the two go by the same names; any
\* other file the hook may kill for on account of its last name alone.
ProcFile(file) ==
    /\ Len(file) = 3 \/ (Len(file) = 4 /\ file[3] = "ns")
    /\ file[1] = "proc" /\ file[2] \in PidNames /\ Last(file) \notin ProcSensitiveLeaves

\* What the host calls sensitive_kernel_access and the hook does not know: two
\* files of /proc, and /dev where it is a file system of its own, whose root is
\* then called "/".
HookMisses ==
    {<<"proc", "sysrq-trigger">>, <<"proc", "sys", "kernel", "sysrq">>}
        \cup {f \in SensitiveInterfaces : f[1] = "dev" /\ <<"dev">> \in MountRoots}

Introspection ==
    {"self_process_introspection", "cross_process_memory", "namespace_escape_attempt"}

\* The kernel's checks on dentry names and the host's checks on the text of
\* the path, two lists kept by hand in two crates, agree on what belongs to a
\* process in /proc: the hook kills for it if and only if detect_violation calls
\* it introspection or an escape, unless it has killed for the intent before.
\* Of the kernel interfaces that the daemon leaves to the kernel
\* (sensitive_kernel_access), it opens none but those HookMisses names.  And a
\* process that it kills for where its own call tried to write or climb to is
\* one the host reports a violation of.
HooksAgreeWithHost ==
    \A t \in Threads : Plain(t) /\ Judged(t) =>
        /\ ProcFile(cur[t].file) /\ result[t] # "killed_intent" =>
               (result[t] = "killed_leaf" <=> HostRule(t) \in Introspection)
        /\ result[t] = "opened" /\ HostRule(t) = "sensitive_kernel_access" =>
               cur[t].file \in HookMisses
        /\ result[t] = "killed_intent" /\ used[t] = OwnIntent(t) => HostRule(t) # "none"

\* normalize_path computes the lexical target of every path, absolute or not,
\* and what it returns it leaves alone.
NormalizeIsLexical ==
    \A t \in Threads : cur[t].op = "open" =>
        LET norm == normalize_path(cur[t].path) IN
        norm = LexicalTarget(cur[t].path) /\ normalize_path(norm) = norm

=============================================================================
