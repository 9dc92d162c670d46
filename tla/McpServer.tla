----------------------------- MODULE McpServer -----------------------------
(***************************************************************************)
(* garden-mcp's server.rs: tool calls that share one cached gRPC client    *)
(* behind a tokio Mutex, which a call holds from the connection to the end *)
(* of its command.  tokio's Mutex is fair: waiters get it in order.        *)
(***************************************************************************)
EXTENDS HostDaemon, Sequences

CONSTANTS
    Tools,    \* tool calls that may be outstanding
    MaxCalls  \* tool calls in all (a bound)

ASSUME McpServerAssumption == MaxCalls \in Nat

VARIABLES
    grpc_client, \* 0 or the daemon the cached client is connected to
    link,        \* how the proxy holds that connection: joined to the agent, open
                 \* though the vSock behind it has ended, or closed
    queue,       \* the tool calls that want the lock; its head holds it
    phase,       \* where each tool call is
    started,     \* the number of tool calls so far
    failed       \* daemons that were gone when a command failed on their client

mcpVars == <<grpc_client, link, queue, phase, started, failed>>

McpInit ==
    /\ grpc_client = 0 /\ link = "closed" /\ queue = <<>> /\ started = 0 /\ failed = {}
    /\ phase = [t \in Tools |-> "idle"]

Holds(t) == queue # <<>> /\ Head(queue) = t

\* run_command, read_file, write_file and list_directory all go through exec.
ToolCall(t) ==
    /\ phase[t] = "idle" /\ started < MaxCalls
    /\ started' = started + 1
    /\ phase' = [phase EXCEPT ![t] = "locking"]
    /\ queue' = Append(queue, t)
    /\ UNCHANGED <<daemonVars, grpc_client, link, failed>>

\* The proxy accepts every connection; it closes one for which the guest has
\* no listener: no VM, or an agent that is not up yet.
Connect ==
    /\ grpc_client' = gen
    /\ link' \in IF vm THEN {"open", "closed"} ELSE {"closed"}

\* client(): connects if there is no client.
Client(t) ==
    /\ phase[t] = "locking" /\ Holds(t)
    /\ grpc_client # 0 \/ up
    /\ IF grpc_client = 0 THEN Connect ELSE UNCHANGED <<grpc_client, link>>
    /\ phase' = [phase EXCEPT ![t] = "sending"]
    /\ UNCHANGED <<daemonVars, queue, started, failed>>

\* "Garden sandbox is not running": the lock is dropped.
ConnectFails(t) ==
    /\ phase[t] = "locking" /\ Holds(t) /\ grpc_client = 0 /\ ~up
    /\ phase' = [phase EXCEPT ![t] = "idle"]
    /\ queue' = Tail(queue)
    /\ UNCHANGED <<daemonVars, grpc_client, link, started, failed>>

Connected == up /\ grpc_client = gen

\* tonic's channel notices that its connection has closed and makes a new one.
Reconnects(t) ==
    /\ phase[t] = "sending" /\ up /\ (grpc_client # gen \/ link = "closed")
    /\ Connect
    /\ UNCHANGED <<daemonVars, queue, phase, started, failed>>

\* The request gets to the agent.
Request(t) ==
    /\ phase[t] = "sending" /\ Connected /\ link = "open"
    /\ phase' = [phase EXCEPT ![t] = "running"]
    /\ UNCHANGED <<daemonVars, grpc_client, link, queue, started, failed>>

\* The agent answers, with an exit code of its own; AgentExec bounds the wait.
CommandReturns(t) ==
    /\ phase[t] = "running" /\ Connected /\ link = "open"
    /\ phase' = [phase EXCEPT ![t] = "idle"]
    /\ queue' = Tail(queue)
    /\ UNCHANGED <<daemonVars, grpc_client, link, started, failed>>

\* Nothing ends the wait for an answer when the vSock has gone but the proxy
\* keeps the client's half of the connection open; exec has no timeout.
Hangs(t) == phase[t] = "running" /\ Connected /\ link = "cut"

\* The request does not get through, the connection is lost under the command,
\* or the agent answers with an error status.
Error(t) ==
    \/ phase[t] = "sending" /\ ~(Connected /\ link = "open")
    \/ phase[t] = "running" /\ ~Hangs(t)

\* Mutant: the client is kept after an error.
ErrorKeepsClient(t) ==
    /\ Error(t)
    /\ phase' = [phase EXCEPT ![t] = "idle"]
    /\ queue' = Tail(queue)
    /\ failed' = IF Connected THEN failed ELSE failed \cup {grpc_client}
    /\ UNCHANGED <<daemonVars, grpc_client, link, started>>

\* Mutant: an early return leaves the lock held.
ErrorKeepsLock(t) ==
    /\ Error(t)
    /\ phase' = [phase EXCEPT ![t] = "idle"]
    /\ grpc_client' = 0 /\ link' = "closed"
    /\ failed' = IF Connected THEN failed ELSE failed \cup {grpc_client}
    /\ UNCHANGED <<daemonVars, queue, started>>

\* Whatever the error is, the client is dropped: the next call connects anew.
CommandFails(t) ==
    /\ Error(t)
    /\ phase' = [phase EXCEPT ![t] = "idle"]
    /\ queue' = Tail(queue)
    /\ grpc_client' = 0 /\ link' = "closed"
    /\ failed' = IF Connected THEN failed ELSE failed \cup {grpc_client}
    /\ UNCHANGED <<daemonVars, started>>

McpStep(t) ==
    \/ Client(t) \/ ConnectFails(t) \/ Reconnects(t) \/ Request(t)
    \/ CommandReturns(t) \/ CommandFails(t)

\* The vSock ends with the VM; the copy task for the other direction, and with
\* it the client's connection, stays.
Proxy == link' = IF link = "open" /\ ~vm' THEN "cut" ELSE link

McpNext ==
    \/ Others /\ Proxy /\ UNCHANGED <<grpc_client, queue, phase, started, failed>>
    \/ \E t \in Tools : ToolCall(t) \/ McpStep(t)

=============================================================================
