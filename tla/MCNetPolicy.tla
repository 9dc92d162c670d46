---------------------------- MODULE MCNetPolicy ----------------------------
(***************************************************************************)
(* An instance of NetPolicy for TLC: v4 addresses of 2 bits, v6 addresses  *)
(* of 4 bits in bytes of 2, so that a v6 prefix can end inside a byte.     *)
(***************************************************************************)
EXTENDS NetPolicy

MCWidth == [f \in Families |-> IF f = "v4" THEN 2 ELSE 4]

Rule(f, net, prefix, port, action) ==
    [family |-> f, net |-> net, prefix |-> prefix, port |-> port, action |-> action]

\* Exceptions with host bits set, a whole byte, a part of a byte, a bare
\* address, and what the two parsers treat differently: a prefix that is no
\* number and one that is too long.
MCRules ==
    {Rule("v4", <<1, 1>>, 1, Unset, "allow"), Rule("v4", <<1, 0>>, Absent, Unset, "deny"),
     Rule("v6", <<1, 0, 1, 1>>, 3, Unset, "allow"), Rule("v6", <<1, 0, 1, 0>>, 2, Unset, "deny"),
     Rule("v6", <<0, 1, 1, 0>>, 1, Unset, "deny"), Rule("v4", <<0, 1>>, Bad, Unset, "deny"),
     Rule("v4", <<0, 1>>, 3, Unset, "deny"), Rule("v6", <<0, 1, 0, 1>>, 5, Unset, "deny"),
     Rule("v4", <<0, 1>>, 2, 80, "deny"), Rule("v4", <<0, 1>>, Absent, Unset, "log"),
     Rule(Unset, <<>>, Absent, Unset, "deny")}

MCDests ==
    {[family |-> "v4", addr |-> a] : a \in [1..2 -> {0, 1}]}
        \cup {[family |-> "v6", addr |-> a] :
                 a \in {<<1, 0, 1, 0>>, <<1, 0, 0, 1>>, <<0, 1, 0, 1>>, <<1, 1, 0, 0>>}}

=============================================================================
