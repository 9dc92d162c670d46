----------------------------- MODULE MCEventLog -----------------------------
(***************************************************************************)
(* An instance of EventLog for TLC.                                        *)
(***************************************************************************)
EXTENDS EventLog

CONSTANT p1, p2

E(kind, pid, amount, bytes) ==
    [kind |-> kind, pid |-> pid, amount |-> amount, bytes |-> bytes]

\* Lines of three lengths, so that a long line can trigger a rotation and a
\* short one still fit, and sends and receives of two processes that reach
\* the thresholds 3 and 2 in several ways and pass MaxCount.
MCEvents ==
    {E("plain", p1, 0, 2), E("flagged", p2, 0, 3), E("send", p1, 1, 1),
     E("send", p1, 2, 1), E("send", p2, 3, 2), E("recv", p1, 1, 1)}

=============================================================================
