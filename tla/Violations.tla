----------------------------- MODULE Violations -----------------------------
(***************************************************************************)
(* The host's hard-coded rules: detect_violation of event_log.rs and the   *)
(* functions it rests on.  A path is what path.split('/') makes of it: a   *)
(* flag for the leading slash and the sequence of its segments.            *)
(***************************************************************************)
EXTENDS Naturals, Sequences, FiniteSets, SequencesExt

CONSTANT PidNames \* the segments made of digits only

Path(absolute, segs) == [abs |-> absolute, segs |-> segs]

\* path.starts_with("/a/b/") on a normalized path: strictly beneath it
Beneath(path, dir) == path.abs /\ IsStrictPrefix(dir, path.segs)

\* Mutant: `..` pops whatever is on the stack, another `..` included.
PopAnyway(absolute, stack, part) ==
    CASE part \in {"", "."} -> stack
      [] part = ".."        -> IF absolute \/ stack # <<>>
                               THEN SubSeq(stack, 1, Len(stack) - 1)
                               ELSE Append(stack, "..")
      [] OTHER              -> Append(stack, part)

\* One turn of normalize_path's loop.  Vec::pop on an empty stack is no
\* error: `..` at the root stays at the root.
PushPart(absolute, stack, part) ==
    CASE part \in {"", "."} -> stack
      [] part = ".."        -> IF absolute \/ (stack # <<>> /\ Last(stack) # "..")
                               THEN SubSeq(stack, 1, Len(stack) - 1)
                               ELSE Append(stack, "..")
      [] OTHER              -> Append(stack, part)

normalize_path(path) ==
    Path(path.abs, FoldLeft(LAMBDA stack, part : PushPart(path.abs, stack, part),
                            <<>>, path.segs))

(***************************************************************************)
(* /proc/<pid or self>/...: `after` is what follows the second slash.      *)
(***************************************************************************)
SensitiveLeaves ==
    {"mem", "maps", "pagemap", "smaps", "status", "cmdline", "wchan", "stack",
     "syscall", "environ"}

ProcOf(norm) ==
    IF norm.abs /\ Len(norm.segs) > 2 /\ norm.segs[1] = "proc"
    THEN CASE norm.segs[2] = "self"      -> "self"
           [] norm.segs[2] \in PidNames  -> "other"
           [] OTHER                      -> "none"
    ELSE "none"

\* after.starts_with("ns/")
InNamespaceDir(norm) ==
    ProcOf(norm) # "none" /\ norm.segs[3] = "ns" /\ Len(norm.segs) > 3

classify_proc_memory_path(norm) ==
    IF InNamespaceDir(norm) \/ (Len(norm.segs) = 3 /\ norm.segs[3] \in SensitiveLeaves)
    THEN ProcOf(norm)
    ELSE "none"

is_allowed_device_write(norm) ==
    \/ norm.abs /\ norm.segs \in {<<"dev", "null">>, <<"dev", "zero">>,
           <<"dev", "urandom">>, <<"dev", "random">>, <<"dev", "tty">>,
           <<"dev", "stdin">>, <<"dev", "stdout">>, <<"dev", "stderr">>,
           <<"dev", "fd", "1">>, <<"dev", "fd", "2">>}
    \/ Beneath(norm, <<"proc", "self", "fd">>)
    \/ Beneath(norm, <<"tmp">>) \/ Beneath(norm, <<"run">>)

SensitiveInterfaces ==
    {<<"dev", "mem">>, <<"dev", "kmem">>, <<"dev", "port">>, <<"dev", "kmsg">>,
     <<"proc", "kallsyms">>, <<"proc", "kcore">>, <<"proc", "sysrq-trigger">>,
     <<"proc", "sys", "kernel", "sysrq">>, <<"sys", "kernel", "btf", "vmlinux">>}

PrivilegedTools ==
    {"su", "sudo", "modprobe", "insmod", "rmmod", "newuidmap", "newgidmap",
     "pkexec", "dbus-daemon", "nsenter", "unshare"}

\* By basename; the path is not normalized.
is_privileged_binary(path) ==
    path.segs # <<>> /\ Last(path.segs) \in PrivilegedTools

InWorkspace(norm) == norm.abs /\ IsPrefix(<<"workspace">>, norm.segs)

HasDotDot(path) == \E i \in DOMAIN path.segs : path.segs[i] = ".."

\* The FileAccess arms, in the order of the match.
FileViolation(path, write) ==
    LET norm == normalize_path(path) IN
    CASE InNamespaceDir(norm) -> "namespace_escape_attempt"
      [] ~InNamespaceDir(norm) /\ classify_proc_memory_path(norm) = "self"
             -> "self_process_introspection"
      [] ~InNamespaceDir(norm) /\ classify_proc_memory_path(norm) = "other"
             -> "cross_process_memory"
      [] norm.abs /\ norm.segs \in SensitiveInterfaces -> "sensitive_kernel_access"
      [] OTHER ->
             IF HasDotDot(path) /\ ~InWorkspace(norm) THEN "path_traversal_attempt"
             ELSE IF write /\ path.abs /\ ~InWorkspace(norm)
                         /\ ~is_allowed_device_write(norm)
                  THEN "write_outside_workspace"
                  ELSE "none"

\* FileDelete and FileRename look at the path as it was given.
CriticalDirs(kind) ==
    IF kind = "FileDelete" THEN {"etc", "usr", "bin", "sbin"} ELSE {"etc", "usr"}

\* The rule an event breaks, or "none".
detect_violation(event) ==
    CASE event.kind = "FileAccess" ->
             IF event.pid # 1 THEN FileViolation(event.path, event.write) ELSE "none"
      [] event.kind = "ProcessExec" ->
             IF is_privileged_binary(event.path) \/ is_privileged_binary(event.arg0)
             THEN "privileged_binary_exec" ELSE "none"
      [] event.kind = "CredsChanged" ->
             IF event.old_uid # 0 /\ event.new_uid = 0
             THEN "privilege_escalation" ELSE "none"
      [] event.kind \in {"FileDelete", "FileRename"} ->
             IF event.pid # 1
                 /\ \E d \in CriticalDirs(event.kind) : Beneath(event.path, <<d>>)
             THEN IF event.kind = "FileDelete" THEN "critical_file_delete"
                                               ELSE "critical_file_rename"
             ELSE "none"
      [] event.kind = "MountAttempt" -> IF event.pid # 1 THEN "mount_attempt" ELSE "none"
      [] event.kind = "BpfSyscall" ->
             IF event.cmd = 5 /\ event.pid # 1 THEN "bpf_prog_load" ELSE "none"
      [] event.kind = "ModuleLoad"      -> "module_load"
      [] event.kind = "FinitModuleLoad" -> "finit_module_load"
      [] event.kind = "PtraceAttempt"   -> "ptrace_attempt"
      [] OTHER -> "none"

Severity(rule) ==
    CASE rule \in {"sensitive_kernel_access", "privilege_escalation"} -> "critical"
      [] rule = "write_outside_workspace" -> "medium"
      [] rule = "none" -> "none"
      [] OTHER -> "high"

(***************************************************************************)
(* What normalize_path should return, without a stack: a name is undone by *)
(* the first `..` that outnumbers the names after it, and a `..` with no   *)
(* name before it to undo stays in a relative path, at the front.          *)
(***************************************************************************)
Names(segs, i, j)   == {k \in i..j : segs[k] \notin {"", ".", ".."}}
DotDots(segs, i, j) == {k \in i..j : segs[k] = ".."}

Survives(segs, i) ==
    /\ i \in Names(segs, 1, Len(segs))
    /\ \A j \in i..Len(segs) :
           Cardinality(DotDots(segs, i, j)) < Cardinality(Names(segs, i, j))

Unmatched(segs, j) ==
    /\ segs[j] = ".."
    /\ \A i \in 1..j : Cardinality(DotDots(segs, i, j)) > Cardinality(Names(segs, i, j))

LexicalTarget(path) ==
    LET kept == {i \in DOMAIN path.segs :
                     \/ Survives(path.segs, i)
                     \/ ~path.abs /\ Unmatched(path.segs, i)}
    IN  Path(path.abs, [n \in 1..Cardinality(kept) |->
            path.segs[CHOOSE i \in kept : Cardinality({k \in kept : k <= i}) = n]])

=============================================================================
