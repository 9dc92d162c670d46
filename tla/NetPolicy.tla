----------------------------- MODULE NetPolicy -----------------------------
(***************************************************************************)
(* The network rules of a security policy, from the policy file of a VM to *)
(* the verdict on a connection.  The guest agent loads the policy, fills   *)
(* the LPM tries from it, attaches the probes and only then serves         *)
(* commands; the LSM hooks look addresses up in the tries.  The same rules *)
(* are evaluated in user space by SecurityPolicy::evaluate.                *)
(*                                                                         *)
(* An address is its bits in network order, the order in which both the    *)
(* masks and the tries see them (to_be and from_ne_bytes keep it).         *)
(***************************************************************************)
EXTENDS Integers, Sequences, FiniteSets

CONSTANTS
    Width,        \* bits of a v4 and of a v6 address: 32 and 128
    ByteBits,     \* bits of one byte of a v6 address: 8
    MapEntries,   \* entries a trie can hold: 256
    Rules,        \* the rules of this instance
    Dests,        \* the destinations of this instance
    Ports, SentinelPorts,   \* ports; those trace_connect leaves out
    MaxRules,     \* a bound
    Absent, Bad,  \* no "/bits" in a CIDR; one that is not a number
    Unset

Families == {"v4", "v6"}
Bits(f) == [1..Width[f] -> {0, 1}]

ASSUME NetPolicyAssumption ==
    /\ Width \in [Families -> Nat \ {0}]
    /\ ByteBits \in Nat \ {0}
    /\ MapEntries \in Nat /\ MaxRules \in Nat
    /\ \A r \in Rules :
           /\ r.action \in {"allow", "deny", "log"}
           /\ r.family \in Families \cup {Unset}
           /\ r.family # Unset => r.net \in Bits(r.family)
           /\ r.prefix \in Nat \cup {Absent, Bad}
           /\ r.port \in Ports \cup {Unset}
    /\ \A d \in Dests : d.family \in Families /\ d.addr \in Bits(d.family)
    /\ Absent \notin Nat /\ Bad \notin Nat /\ Absent # Bad
    /\ Unset \notin Families /\ Unset \notin Ports
    /\ SentinelPorts \subseteq Ports

VARIABLES
    network,   \* --network of garden boot (fixed)
    readable,  \* the guest can deserialise the policy file (fixed)
    rules,     \* the rules in the policy file
    stage,     \* how far the agent has come
    denied, allowed,   \* DENIED_NETS and ALLOWED_NETS with their _V6 twins
    attached,  \* the LSM hooks that are attached
    last       \* the last attempt to reach the network, and what became of it

netVars == <<network, readable, rules, stage, denied, allowed, attached, last>>

NoAttempt == [hook |-> Unset]

(***************************************************************************)
(* policy.rs.                                                              *)
(***************************************************************************)
\* cidr_match_v4: compare under the mask.
MaskV4(a, p) == [i \in 1..Width["v4"] |-> IF i <= p THEN a[i] ELSE 0]

CidrMatchV4(net, p, target) ==
    \/ p = 0
    \/ p >= Width["v4"] /\ net = target
    \/ 0 < p /\ p < Width["v4"] /\ MaskV4(net, p) = MaskV4(target, p)

\* Byte and position in its byte of bit i.
Byte(i) == (i - 1) \div ByteBits
Pos(i) == (i - 1) % ByteBits

\* cidr_match_v6: whole bytes first, then the bits that remain.
CidrMatchV6(net, p, target) ==
    \/ p = 0
    \/ p >= Width["v6"] /\ net = target
    \/ /\ 0 < p /\ p < Width["v6"]
       /\ \A i \in 1..Width["v6"] : Byte(i) < p \div ByteBits => net[i] = target[i]
       /\ p % ByteBits > 0 =>
              \A i \in 1..Width["v6"] :
                  Byte(i) = p \div ByteBits /\ Pos(i) < p % ByteBits => net[i] = target[i]

\* cidr_match: a prefix that is missing or no number counts as the full width.
CidrMatch(r, d) ==
    LET p == IF r.prefix \in {Absent, Bad} THEN Width[r.family] ELSE r.prefix IN
    /\ r.family # Unset /\ r.family = d.family
    /\ IF r.family = "v4" THEN CidrMatchV4(r.net, p, d.addr) ELSE CidrMatchV6(r.net, p, d.addr)

\* PolicyRule::matches, for a network rule and a connection.
Matches(r, d, port) == CidrMatch(r, d) /\ (r.port = Unset \/ r.port = port)

\* Mutant: the last rule that matches.
EvaluateLast(rs, d, port) ==
    LET hits == {k \in 1..Len(rs) : Matches(rs[k], d, port)} IN
    IF hits = {} THEN "log"
    ELSE rs[CHOOSE k \in hits : \A j \in hits : k >= j].action

\* SecurityPolicy::evaluate: the first rule that matches.
Evaluate(rs, d, port) ==
    LET hits == {k \in 1..Len(rs) : Matches(rs[k], d, port)} IN
    IF hits = {} THEN "log"
    ELSE rs[CHOOSE k \in hits : \A j \in hits : k <= j].action

(***************************************************************************)
(* tracer.rs: from rules to keys.                                          *)
(***************************************************************************)
\* cidr_to_lpm_key and cidr_to_lpm_key_v6 return an error for these.
IsKey(r) ==
    /\ r.family # Unset /\ r.prefix # Bad
    /\ r.family = "v6" => r.prefix = Absent \/ r.prefix <= Width["v6"]

PrefixOf(r) == IF r.prefix = Absent THEN Width[r.family] ELSE r.prefix

\* The mask of cidr_to_lpm_key_v6, byte by byte.
MaskV6(a, p) ==
    [i \in 1..Width["v6"] |->
        IF Byte(i) < p \div ByteBits \/ (Byte(i) = p \div ByteBits /\ Pos(i) < p % ByteBits)
        THEN a[i] ELSE 0]

KeyOf(r) ==
    [prefix |-> PrefixOf(r),
     data |-> IF r.family = "v4" THEN MaskV4(r.net, PrefixOf(r)) ELSE MaskV6(r.net, PrefixOf(r))]

\* Rules with a port are left to user space.
InTrie(r, f, action) == r.port = Unset /\ r.family = f /\ r.action = action /\ IsKey(r)

\* The policy the agent starts the tracer with: a file that it cannot
\* deserialise is replaced by default_observe, which has no rules.
Policy == IF readable THEN rules ELSE <<>>

KeysOf(f, action) ==
    {KeyOf(Policy[k]) : k \in {j \in 1..Len(Policy) : InTrie(Policy[j], f, action)}}

(***************************************************************************)
(* The trie of the kernel.                                                 *)
(***************************************************************************)
\* An insert fails on a prefix longer than the address and on a full trie.
CanHold(f, keys) ==
    (\A k \in keys : k.prefix <= Width[f]) /\ Cardinality(keys) <= MapEntries

Hit(keys, d) == \E k \in keys : \A i \in 1..k.prefix : k.data[i] = d.addr[i]

(***************************************************************************)
(* The agent starts.                                                       *)
(***************************************************************************)
NetInit ==
    /\ network \in {"allow", "deny"} /\ readable \in BOOLEAN
    /\ rules = <<>>
    /\ stage = "writing"
    /\ denied = [f \in Families |-> {}] /\ allowed = [f \in Families |-> {}]
    /\ attached = {}
    /\ last = NoAttempt

\* The policy file given to garden boot.
AddRule(r) ==
    /\ stage = "writing" /\ Len(rules) < MaxRules
    /\ rules' = Append(rules, r)
    /\ UNCHANGED <<network, readable, stage, denied, allowed, attached, last>>

CatchAll(f) ==
    [family |-> f, net |-> [i \in 1..Width[f] |-> 0], prefix |-> 0, port |-> Unset, action |-> "deny"]

\* Mutant: the catch-all of the second family is forgotten.
BootWithoutV6 ==
    /\ stage = "writing"
    /\ stage' = "deny v4"
    /\ rules' = IF network = "deny" THEN Append(rules, CatchAll("v4")) ELSE rules
    /\ UNCHANGED <<network, readable, denied, allowed, attached, last>>

\* garden boot checks that the file is JSON, no more, appends the catch-alls,
\* and the VM boots with the policy.
Boot ==
    /\ stage = "writing"
    /\ stage' = "deny v4"
    /\ rules' = IF network = "deny" THEN rules \o <<CatchAll("v4"), CatchAll("v6")>> ELSE rules
    /\ UNCHANGED <<network, readable, denied, allowed, attached, last>>

\* start_tracer returns an error: the links and programs are dropped and the
\* agent exits, which ends the VM.
StartFails ==
    /\ stage' = "dead"
    /\ attached' = {}
    /\ UNCHANGED <<network, readable, rules, denied, allowed, last>>

\* populate_policy_maps, one map after the other.
FillDenied(f, here, next) ==
    /\ stage = here
    /\ IF CanHold(f, KeysOf(f, "deny"))
       THEN /\ denied' = [denied EXCEPT ![f] = KeysOf(f, "deny")]
            /\ stage' = next
            /\ UNCHANGED <<network, readable, rules, allowed, attached, last>>
       ELSE StartFails

FillAllowed(f, here, next) ==
    /\ stage = here
    /\ IF CanHold(f, KeysOf(f, "allow"))
       THEN /\ allowed' = [allowed EXCEPT ![f] = KeysOf(f, "allow")]
            /\ stage' = next
            /\ UNCHANGED <<network, readable, rules, denied, attached, last>>
       ELSE StartFails

PopulatePolicyMaps ==
    \/ FillDenied("v4", "deny v4", "allow v4")
    \/ FillAllowed("v4", "allow v4", "deny v6")
    \/ FillDenied("v6", "deny v6", "allow v6")
    \/ FillAllowed("v6", "allow v6", "attach")

\* The tracepoints and the required LSM hooks, of which two look at addresses.
AttachHook ==
    /\ stage = "attach"
    /\ \/ /\ attached # {"connect", "sendmsg"}
          /\ attached' = IF attached = {} THEN {"connect"} ELSE {"connect", "sendmsg"}
          /\ UNCHANGED <<network, readable, rules, stage, denied, allowed, last>>
       \/ StartFails

\* Mutant: a hook that is missing does not stop the agent.
ServeAnyway ==
    /\ stage = "attach"
    /\ stage' = "serving"
    /\ UNCHANGED <<network, readable, rules, denied, allowed, attached, last>>

\* start_tracer has succeeded: the agent opens its gRPC port.
Serve ==
    /\ stage = "attach" /\ attached = {"connect", "sendmsg"}
    /\ stage' = "serving"
    /\ UNCHANGED <<network, readable, rules, denied, allowed, attached, last>>

(***************************************************************************)
(* A process reaches for the network.                                      *)
(***************************************************************************)
\* The hooks: an entry in the allow trie wins.  The sendmsg hook leaves PID 1
\* alone, the connect hook does not.
Blocks(hook, isInit, d) ==
    /\ hook \in attached /\ (hook = "connect" \/ ~isInit)
    /\ ~Hit(allowed[d.family], d)
    /\ Hit(denied[d.family], d)

\* The tracepoint of connect sends an event before the hook runs, and the hook
\* one of its own when it blocks.
Traced(hook, port) == hook = "connect" /\ stage \in {"attach", "serving"} /\ port \notin SentinelPorts

Attempt(hook, isInit, d, port) ==
    /\ stage # "dead" /\ stage # "writing"
    /\ last' = [hook |-> hook, isInit |-> isInit, dest |-> d, port |-> port,
                commands |-> stage = "serving",
                blocked |-> Blocks(hook, isInit, d),
                killed |-> hook = "connect" /\ d.family = "v6" /\ Blocks(hook, isInit, d),
                events |-> (IF Traced(hook, port) THEN 1 ELSE 0)
                           + (IF Blocks(hook, isInit, d) THEN 1 ELSE 0)]
    /\ UNCHANGED <<network, readable, rules, stage, denied, allowed, attached>>

Dead ==
    /\ stage = "dead"
    /\ UNCHANGED netVars

NetNext ==
    \/ \E r \in Rules : AddRule(r)
    \/ Boot \/ PopulatePolicyMaps \/ AttachHook \/ Serve
    \/ \E hook \in {"connect", "sendmsg"}, isInit \in BOOLEAN, d \in Dests, port \in Ports :
           Attempt(hook, isInit, d, port)
    \/ Dead

NetSpec == NetInit /\ [][NetNext]_netVars

(***************************************************************************)
(* Properties.                                                             *)
(***************************************************************************)

\* A command (not PID 1) whose connection the hooks have judged.
Judged == last # NoAttempt /\ last.commands /\ ~last.isInit

\* Some rule of rs without a port, that a key can be made of, matches by
\* cidr_match.
RuleFor(rs, action) ==
    \E k \in 1..Len(rs) :
        /\ rs[k].port = Unset /\ IsKey(rs[k]) /\ rs[k].action = action
        /\ CidrMatch(rs[k], last.dest)

\* The kernel's tries and cidr_match agree: a command is blocked exactly when
\* by user space's own matching some deny rule applies and no allow rule does.
\* This needs the tries to be complete and both hooks attached whenever a
\* command runs, whatever failed while the agent started.
KernelAgreesWithCidr ==
    Judged => (last.blocked <=> RuleFor(Policy, "deny") /\ ~RuleFor(Policy, "allow"))

\* "User-supplied per-CIDR allow rules win" (garden-cli/src/main.rs:387): with
\* --network=deny a command is blocked wherever no allow rule applies, and
\* nowhere else, whatever the order of the user's rules, provided the guest
\* can read the policy.
NetworkDenyBlocksTheRest ==
    Judged /\ network = "deny" /\ readable => (last.blocked <=> ~RuleFor(rules, "allow"))

\* "the guest agent's BPF-LSM hook rejects every `socket_connect()` from a
\* non-PID-1 process unless" allow rules were passed (garden-cli/src/main.rs:26):
\* the same promise for every file that garden boot accepts.  It fails: garden
\* boot asks for JSON only, and a file that is JSON but no SecurityPolicy makes
\* the guest fall back to default_observe, without the catch-alls.
NetworkDenyAlwaysDenies ==
    Judged /\ network = "deny" /\ last.hook = "connect" =>
        last.blocked \/ RuleFor(rules, "allow")

\* Policies such as --network=deny makes of a list of exceptions: no ports, no
\* log rules, proper prefixes, and every allow rule before every deny rule.
ExceptionsFirst(rs) ==
    \A k \in 1..Len(rs) :
        /\ rs[k].port = Unset /\ rs[k].action # "log" /\ IsKey(rs[k])
        /\ \A j \in 1..Len(rs) : rs[k].action = "allow" /\ rs[j].action = "deny" => k < j

\* "evaluated in order (first match wins)" (policy.rs:16): for such policies the
\* hooks block what SecurityPolicy::evaluate denies, and nothing else.
FirstMatchEnforced ==
    Judged /\ ExceptionsFirst(Policy) =>
        (last.blocked <=> Evaluate(Policy, last.dest, last.port) = "deny")

=============================================================================
