---------------------------- MODULE MCReactions ----------------------------
(***************************************************************************)
(* An instance of Reactions for TLC: PID 1 and another process.              *)
(***************************************************************************)
EXTENDS Reactions

Call(event, fate) == [event |-> event, fate |-> fate]

\* A call that breaks a rule left to the daemon, one that the host's policy
\* denies too, one the hooks kill for though the daemon's list does not say so,
\* one the daemon leaves to the hooks but the policy denies, one that sends bytes,
\* and those by which a process gets uid 0 and gives it up.
Ptrace  == Call([kind |-> "PtraceAttempt", pid |-> 0], "lives")
Delete  == Call([kind |-> "FileDelete", pid |-> 0, path |-> Path(TRUE, <<"etc", "x">>)],
                "lives")
ReadMem == Call([kind |-> "FileAccess", pid |-> 0, write |-> FALSE,
                 path |-> Path(TRUE, <<"proc", "8", "mem">>)], "killed")
RunSu   == Call([kind |-> "ProcessExec", pid |-> 0, path |-> Path(TRUE, <<"bin", "su">>),
                 arg0 |-> Path(FALSE, <<"su">>)], "lives")
SetUid(old, new) ==
    Call([kind |-> "CredsChanged", pid |-> 0, old_uid |-> old, new_uid |-> new], "lives")
Bytes   == Call([kind |-> "TcpSend", pid |-> 0, bytes |-> 1], "lives")

MCCallsOf    == (1 :> {Ptrace}) @@ (7 :> {Ptrace, Delete, ReadMem, RunSu, Bytes, SetUid(1000, 0),
                                     SetUid(0, 1000)})
MCHostDenies == {Delete, RunSu}
MCPidNames   == {"7", "8"}

=============================================================================
