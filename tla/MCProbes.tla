------------------------------ MODULE MCProbes ------------------------------
(***************************************************************************)
(* An instance of Probes for TLC: PID 1 and a process of two threads.      *)
(***************************************************************************)
EXTENDS Probes

CONSTANTS init, a, b, c

MCThreads  == {init, a, b}
MCPid      == (init :> 1) @@ (a :> 7) @@ (b :> 7)
MCPidNames == {"7", "42"}
MCMountRoots == {<<>>, <<"proc">>, <<"sys">>, <<"dev">>, <<"workspace">>}

\* An open that finds what its path says, and one that a link leads elsewhere.
Open(path, write)          == [path |-> path, write |-> write, file |-> Canonical(path)]
Link(path, write, file)    == [path |-> path, write |-> write, file |-> file]
Abs(segs)                  == Path(TRUE, segs)
Rel(segs)                  == Path(FALSE, segs)

\* The agent reads the kernel's types at start-up.
InitOpens == {Open(Abs(<<"sys", "kernel", "btf", "vmlinux">>), FALSE),
              Open(Abs(<<"lib", "x">>), TRUE)}

OpensA ==
    {Open(Abs(<<"workspace", "f">>), TRUE), Open(Abs(<<"lib", "x">>), FALSE),
     Open(Abs(<<"lib", "x">>), TRUE), Open(Abs(<<"tmp">>), TRUE),
     Open(Abs(<<"workspace", "..", "etc", "x">>), FALSE),
     Open(Abs(<<"workspace", "..", "etc", "x">>), TRUE),
     Open(Abs(<<"workspace", "f", "..", "f">>), TRUE),
     Open(Abs(<<"proc", "self", "status">>), FALSE),
     Open(Abs(<<"tmp", ".", "..", "proc", "42", "maps">>), FALSE),
     Open(Abs(<<"proc", "kallsyms">>), FALSE), Open(Abs(<<"proc", "sysrq-trigger">>), FALSE),
     Open(Abs(<<"dev", "kmsg">>), FALSE), Open(Abs(<<"proc", "42", "ns", "net">>), FALSE),
     Open(Abs(<<"proc", "self", "limits">>), FALSE), Open(Abs(<<"workspace", "vmlinux">>), FALSE),
     Open(Abs(<<"workspace2", "f">>), TRUE),
     Link(Abs(<<"workspace", "l">>), TRUE, <<"lib", "x">>),
     Link(Rel(<<"..", "x">>), TRUE, <<"lib", "x">>),
     Link(Rel(<<"f">>), FALSE, <<"workspace", "a", "b", "c", "d", "e">>)}

OpensB == {Open(Abs(<<"tmp", "f">>), TRUE), Open(Abs(<<"lib", "x">>), FALSE),
           Open(Abs(<<"workspace", "..", "workspace", "f">>), FALSE)}

MCOpensOf == (init :> InitOpens) @@ (a :> OpensA) @@ (b :> OpensB)

Run(path, file) == [path |-> path, arg0 |-> path, file |-> file]

MCExecsOf ==
    (init :> {Run(Abs(<<"bin", "sh">>), <<"bin", "sh">>)})
        @@ (a :> {Run(Abs(<<"bin", "sh">>), <<"bin", "sh">>),
                  Run(Rel(<<"su">>), <<"workspace", "su">>),
                  Run(Abs(<<"workspace", "l">>), <<"bin", "nsenter">>)})
        @@ (b :> {})

Rule(action, glob, dir) == [action |-> action, glob |-> glob, dir |-> dir]

MCPolicies ==
    {<<>>,
     <<Rule("deny", FALSE, <<"lib", "x">>), Rule("log", FALSE, <<"lib", "x">>)>>,
     <<Rule("deny", FALSE, <<"bin", "sh">>), Rule("log", FALSE, <<"lib", "x">>)>>,
     <<Rule("log", FALSE, <<"lib", "x">>), Rule("deny", FALSE, <<"lib", "x">>)>>,
     <<Rule("deny", FALSE, <<"bin", "sh">>), Rule("allow", FALSE, <<"bin", "sh">>)>>,
     <<Rule("deny", TRUE, <<"lib">>), Rule("deny", FALSE, <<"lib", "x", "a", "b", "c", "d">>)>>}

\* Every path of up to MaxSegs segments over these.
MaxSegs == 5
MCPathOpens ==
    {[path |-> Path(abs, segs), write |-> FALSE, file |-> <<"workspace", "f">>] :
        abs \in BOOLEAN, segs \in BoundedSeq({"x", "y", ".", ".."}, MaxSegs)}

MCTcpThreads == {a, b, c}
MCTcpPid     == (a :> 7) @@ (b :> 7) @@ (c :> 9)
MCResults    == {-2, 0, 1, 3}

=============================================================================
