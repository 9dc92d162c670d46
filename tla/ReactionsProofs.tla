-------------------------- MODULE ReactionsProofs --------------------------
(***************************************************************************)
(* Proofs about the reactive kills and the broadcast, for any processes,   *)
(* calls, policies, consumers and number of events.                        *)
(***************************************************************************)
EXTENDS Reactions, TLAPS

(***************************************************************************)
(* The inductive invariant: an event names the pid of its process, and a   *)
(* process that is to be killed is not one that is still to come.          *)
(***************************************************************************)

Events == [id : Nat, pid : Pids, by : Pids \X Nat, own : Nat, call : Calls]

Types ==
    /\ holder \in [Pids -> Nat] /\ born \in [Pids -> Nat] /\ own \in [Pids -> Nat]
    /\ emitted \in Nat
    /\ wire \in Seq(Events)
    /\ \A t \in tasks : t.event \in Events
    /\ guilty \subseteq Pids \X Nat

Known(g) == g[2] # 0 /\ g[2] <= born[g[1]]

Inv ==
    /\ Types
    /\ \A i \in DOMAIN wire : wire[i].by[1] = wire[i].pid
    /\ \A t \in tasks : t.event.by[1] = t.event.pid
    /\ \A p \in Pids : holder[p] <= born[p]
    /\ \A g \in guilty : Known(g)
    /\ OffenceNotForgotten

LEMMA EventFields ==
    ASSUME NEW e \in Events
    PROVE  e.pid \in Pids /\ e.own \in Nat /\ e.call \in Calls /\ Sent(e.call) \in Nat
<1>1. e.pid \in Pids /\ e.own \in Nat /\ e.call \in Calls
  BY Zenon DEF Events
<1> QED BY <1>1, ReactionsAssumption, Zenon

\* At first every pid has its first holder and there is no event.
LEMMA InitInv == Init => Inv
<1> SUFFICES ASSUME Init PROVE Inv
  BY Zenon
<1>1. Types
  BY DEF Init, Types
<1>2. \A p \in Pids : holder[p] <= born[p]
  BY DEF Init
<1> QED BY <1>1, <1>2 DEF Init, Inv, OffenceNotForgotten

\* A call is reported with its process, and the report of an offence is what
\* its process is hunted by.
LEMMA EmitInv ==
    ASSUME Inv, NEW p \in Pids, NEW call \in CallsOf[p], Emit(p, call)
    PROVE  Inv'
<1> DEFINE e == [id |-> emitted + 1, pid |-> p, by |-> <<p, holder[p]>>, own |-> own'[p], call |-> call]
           new == <<p, holder[p]>>
<1>1. /\ emitted' = emitted + 1 /\ own' = [own EXCEPT ![p] = @ + Sent(call)]
      /\ wire' = Append(wire, e) /\ holder[p] # 0
      /\ holder' = IF call.fate = "killed" THEN [holder EXCEPT ![p] = 0] ELSE holder
      /\ guilty' = guilty \cup {g \in {new} : Offence(p, call)}
      /\ UNCHANGED <<faults, born, tasks, refused>>
  BY Zenon DEF Emit
<1>2. call \in Calls /\ Sent(call) \in Nat
  BY ReactionsAssumption DEF Calls
<1>3. Types
  BY Zenon DEF Inv
<1>4. own' \in [Pids -> Nat] /\ emitted' \in Nat /\ holder' \in [Pids -> Nat]
  BY <1>1, <1>2, <1>3 DEF Types
<1>5. e \in Events /\ e.pid = p /\ e.by = new /\ e.call = call
  <2>1. holder[p] \in Nat /\ own'[p] \in Nat /\ emitted + 1 \in Nat
    BY <1>1, <1>3, <1>4, Zenon DEF Types
  <2> QED BY <1>2, <2>1, Zenon DEF Events
<1>6. new \in Pids \X Nat /\ new[1] = p /\ new[2] = holder[p]
  BY <1>3, Zenon DEF Types
<1> HIDE DEF e, new
<1>7. /\ wire' \in Seq(Events) /\ \E i \in DOMAIN wire' : wire'[i] = e
      /\ \A i \in DOMAIN wire : i \in DOMAIN wire' /\ wire'[i] = wire[i]
      /\ \A i \in DOMAIN wire' : wire'[i] = e \/ (i \in DOMAIN wire /\ wire'[i] = wire[i])
  <2>1. wire \in Seq(Events) /\ e \in Events /\ wire' = Append(wire, e)
    BY <1>1, <1>3, <1>5, Zenon DEF Types
  <2>2. /\ wire' \in Seq(Events) /\ DOMAIN wire = 1..Len(wire) /\ DOMAIN wire' = 1..(Len(wire) + 1)
        /\ Len(wire) \in Nat /\ wire'[Len(wire) + 1] = e /\ \A i \in 1..Len(wire) : wire'[i] = wire[i]
    BY ONLY <2>1
  <2>3. \A i \in 1..(Len(wire) + 1) : i = Len(wire) + 1 \/ i \in 1..Len(wire)
    BY ONLY <2>2
  <2>4. Len(wire) + 1 \in 1..(Len(wire) + 1) /\ \A i \in 1..Len(wire) : i \in 1..(Len(wire) + 1)
    BY ONLY <2>2
  <2> QED BY <2>2, <2>3, <2>4, Zenon
<1>8. Types'
  BY <1>1, <1>3, <1>4, <1>6, <1>7, Zenon DEF Types
<1>9. \A q \in Pids : holder'[q] \in {0, holder[q]}
  BY <1>1, <1>3, Zenon DEF Types
<1>10. \A q \in Pids : holder'[q] <= born'[q]
  <2>1. \A q \in Pids : holder[q] <= born[q] /\ holder[q] \in Nat /\ born[q] \in Nat
    BY <1>3, Zenon DEF Inv, Types
  <2> QED BY <1>1, <1>9, <2>1
<1>11. \A g \in guilty' : Known(g)'
  BY <1>1, <1>6, Zenon DEF Inv, Known
<1>12. ASSUME faults \cap {"log", "connect", "garbled"} = {}, NEW g \in guilty' PROVE Hunted(g)'
  <2>1. CASE g \in guilty
    <3>1. Hunted(g) /\ g[1] \in Pids /\ g[2] # 0
      BY <1>3, <1>12, <2>1 DEF Inv, OffenceNotForgotten, Types, Known
    <3>2. holder[g[1]] # g[2] => holder'[g[1]] # g[2]
      BY <1>9, <3>1, Zenon
    <3> QED BY <1>1, <1>7, <3>1, <3>2, Zenon DEF Hunted
  <2>2. CASE g = new /\ Offence(p, call)
    BY <1>5, <1>6, <1>7, <2>2, Zenon DEF Hunted
  <2> QED BY <1>1, <2>1, <2>2, <1>12, Zenon
<1>13. \A i \in DOMAIN wire' : wire'[i].by[1] = wire'[i].pid
  BY <1>5, <1>6, <1>7, Zenon DEF Inv
<1> QED BY <1>1, <1>8, <1>10, <1>11, <1>12, <1>13, Zenon DEF Inv, OffenceNotForgotten

\* A process that ends, or is killed, has gone.
LEMMA EndsInv ==
    ASSUME Inv, NEW p \in Pids, holder' = holder \/ holder' = [holder EXCEPT ![p] = 0],
           tasks' \subseteq tasks, refused \subseteq refused',
           \A t \in tasks \ tasks' : t.event.pid = p /\ (holder'[p] = 0 \/ <<p, holder[p]>> \in refused'),
           UNCHANGED <<faults, born, own, emitted, wire, guilty>>
    PROVE  Inv'
<1>1. Types
  BY Zenon DEF Inv
<1>2. holder' \in [Pids -> Nat] /\ \A q \in Pids : holder'[q] \in {0, holder[q]}
  <2>1. holder \in [Pids -> Nat] /\ 0 \in Nat
    BY <1>1 DEF Types
  <2> QED BY <2>1, Zenon
<1>3. Types'
  BY <1>1, <1>2, Zenon DEF Types
<1>4. \A q \in Pids : holder'[q] <= born'[q]
  <2>1. \A q \in Pids : holder[q] <= born[q] /\ holder[q] \in Nat /\ born[q] \in Nat
    BY <1>1, Zenon DEF Inv, Types
  <2> QED BY <1>2, <2>1
<1>5. ASSUME faults \cap {"log", "connect", "garbled"} = {}, NEW g \in guilty PROVE Hunted(g)'
  <2>1. Hunted(g) /\ g \in Pids \X Nat /\ g[2] # 0
    BY <1>1, <1>5, Zenon DEF Inv, OffenceNotForgotten, Types, Known
  <2>2. g[1] \in Pids /\ g = <<g[1], g[2]>>
    BY <2>1
  <2>3. holder[g[1]] # g[2] => holder'[g[1]] # g[2]
    BY <1>2, <2>1, <2>2, Zenon
  <2>4. ASSUME NEW t \in tasks, t.event.by = g, t \notin tasks' PROVE Hunted(g)'
    <3>1. g[1] = p /\ (holder'[p] = 0 \/ <<p, holder[p]>> \in refused')
      BY <2>4, Zenon DEF Inv
    <3>2. holder[p] = g[2] /\ <<p, holder[p]>> \in refused' => g \in refused'
      BY <2>2, <3>1, Zenon
    <3> QED BY <2>1, <2>3, <3>1, <3>2, Zenon DEF Hunted
  <2> QED BY <2>1, <2>3, <2>4, Zenon DEF Hunted
<1> QED BY <1>3, <1>4, <1>5, Zenon DEF Inv, OffenceNotForgotten, Known

\* A process that is forked is nobody that is to be killed.
LEMMA ForksInv ==
    ASSUME Inv, NEW p \in Pids, Forks(p)
    PROVE  Inv'
<1>1. /\ holder[p] = 0 /\ holder' = [holder EXCEPT ![p] = born[p] + 1]
      /\ born' = [born EXCEPT ![p] = @ + 1] /\ own' = [own EXCEPT ![p] = 0]
      /\ UNCHANGED <<faults, emitted, wire, tasks, guilty, refused>>
  BY Zenon DEF Forks
<1>2. Types
  BY Zenon DEF Inv
<1>3. /\ holder' \in [Pids -> Nat] /\ born' \in [Pids -> Nat] /\ own' \in [Pids -> Nat]
      /\ holder'[p] = born[p] + 1 /\ born'[p] = born[p] + 1 /\ born[p] \in Nat
      /\ \A q \in Pids \ {p} : holder'[q] = holder[q] /\ born'[q] = born[q]
  BY <1>1, <1>2 DEF Types
<1>4. Types'
  BY <1>1, <1>2, <1>3, Zenon DEF Types
<1>5. \A q \in Pids : holder'[q] <= born'[q]
  <2>1. holder'[p] <= born'[p]
    BY <1>3
  <2> QED BY <1>3, <2>1, Zenon DEF Inv
<1>6. ASSUME NEW g \in guilty PROVE Known(g)' /\ (Hunted(g) => Hunted(g)')
  <2>1. g[1] \in Pids /\ g[2] \in Nat /\ g[2] # 0 /\ g[2] <= born[g[1]]
    BY <1>2 DEF Inv, Types, Known
  <2>2. CASE g[1] = p
    <3>1. g[2] <= born'[p] /\ holder'[p] # g[2]
      BY <1>3, <2>1, <2>2
    <3> QED BY <2>1, <2>2, <3>1, Zenon DEF Known, Hunted
  <2>3. CASE g[1] # p
    <3>1. holder'[g[1]] = holder[g[1]] /\ born'[g[1]] = born[g[1]]
      BY <1>3, <2>1, <2>3, Zenon
    <3> QED BY <1>1, <2>1, <3>1, Zenon DEF Known, Hunted
  <2> QED BY <2>2, <2>3, Zenon
<1> QED BY <1>1, <1>4, <1>5, <1>6, Zenon DEF Inv, OffenceNotForgotten

\* An offence that is read starts a task.
LEMMA OffenceStartsTask ==
    ASSUME NEW e \in Events, Offence(e.pid, e.call)
    PROVE  \E t \in React(e, ViolationOf(e)) : t.event = e
<1> DEFINE static == StaticRule[e.call][e.pid]
           task(rule) == [event |-> e, rule |-> rule]
<1>1. Killable(e.pid)
  BY Zenon DEF Offence, Killable
<1>2. CASE e.call \in HostDenies
  <2>1. task("policy") \in React(e, ViolationOf(e))
    BY <1>1, <1>2, Zenon DEF React
  <2> QED BY <2>1, Zenon
<1>3. CASE Severity(static) \in {"critical", "high"} /\ static \notin KernelEnforced /\ static # "policy"
  <2>1. static # "none"
    BY <1>3, Zenon DEF Severity
  <2>2. ViolationOf(e) = static /\ ShouldKill(static)
    BY <1>3, <2>1, Zenon DEF ViolationOf, ShouldKill
  <2>3. task(static) \in React(e, static)
    <3> HIDE DEF static
    <3> QED BY <1>1, <1>3, <2>2, Zenon DEF React
  <2>4. task(static) \in React(e, ViolationOf(e)) /\ task(static).event = e
    BY <2>2, <2>3
  <2> QED BY <2>4, Zenon
<1>4. static # "policy"
  <2>1. ASSUME NEW event PROVE detect_violation(event) # "policy"
    <3>1. FileViolation(event.path, event.write) # "policy"
      BY Zenon DEF FileViolation
    <3> QED BY <3>1, Zenon DEF detect_violation
  <2>2. e.call \in Calls /\ e.pid \in Pids
    BY EventFields, Zenon
  <2> QED BY <2>1, <2>2, Zenon DEF StaticRule
<1> QED BY <1>2, <1>3, <1>4, Zenon DEF Offence

\* Reading a line takes an event from the wire; its tasks are about it.
LEMMA ReceiveInv ==
    ASSUME Inv, Receive \/ SkipGarbled
    PROVE  Inv'
<1> DEFINE e == Head(wire)
<1>1. wire # <<>> /\ wire' = Tail(wire) /\ UNCHANGED <<faults, guestVars, guilty, refused>>
  BY Zenon DEF Receive, SkipGarbled
<1>2. Types /\ UNCHANGED <<holder, born, own, emitted>>
  BY <1>1, Zenon DEF Inv, guestVars
<1>3. tasks \subseteq tasks' /\ \A t \in tasks' : t \in tasks \/ t.event = e
  <2>1. ASSUME NEW violation, NEW t \in React(e, violation) PROVE t.event = e
    BY <2>1 DEF React
  <2> QED BY <2>1, Zenon DEF Receive, SkipGarbled
<1>4. /\ wire' \in Seq(Events) /\ e \in Events /\ e = wire[1] /\ 1 \in DOMAIN wire
      /\ \A i \in DOMAIN wire' : i + 1 \in DOMAIN wire /\ wire'[i] = wire[i + 1]
      /\ \A i \in DOMAIN wire : i = 1 \/ (i - 1 \in DOMAIN wire' /\ wire'[i - 1] = wire[i])
  BY <1>1, <1>2 DEF Types
<1>5. Types'
  BY <1>1, <1>2, <1>3, <1>4, Zenon DEF Types
<1>6. /\ \A i \in DOMAIN wire' : wire'[i].by[1] = wire'[i].pid
      /\ \A t \in tasks' : t.event.by[1] = t.event.pid
  <2>1. e.by[1] = e.pid
    BY <1>4, Zenon DEF Inv
  <2>2. ASSUME NEW i \in DOMAIN wire' PROVE wire'[i].by[1] = wire'[i].pid
    BY <1>4, <2>2, Zenon DEF Inv
  <2>3. ASSUME NEW t \in tasks' PROVE t.event.by[1] = t.event.pid
    BY <1>3, <2>1, <2>3, Zenon DEF Inv
  <2> QED BY <2>2, <2>3, Zenon
<1>7. ASSUME faults \cap {"log", "connect", "garbled"} = {}, NEW g \in guilty PROVE Hunted(g)'
  <2>1. Hunted(g) /\ "log" \notin faults /\ "garbled" \notin faults
    BY <1>7, Zenon DEF Inv, OffenceNotForgotten
  <2>2. tasks' = tasks \cup React(e, ViolationOf(e))
    BY <2>1, Zenon DEF Receive, SkipGarbled
  <2>3. ASSUME NEW i \in DOMAIN wire, wire[i].by = g, Offence(g[1], wire[i].call) PROVE Hunted(g)'
    <3>1. CASE i = 1
      <4>1. Offence(e.pid, e.call) /\ e.by = g
        BY <1>4, <2>3, <3>1, Zenon DEF Inv
      <4>2. PICK t \in React(e, ViolationOf(e)) : t.event = e
        BY <1>4, <4>1, OffenceStartsTask, Zenon
      <4>3. t \in tasks' /\ t.event.by = g
        BY <2>2, <4>1, <4>2, Zenon
      <4> QED BY <4>3, Zenon DEF Hunted
    <3>2. CASE i - 1 \in DOMAIN wire' /\ wire'[i - 1] = wire[i]
      BY <2>3, <3>2, Zenon DEF Hunted
    <3> QED BY <1>4, <3>1, <3>2, Zenon
  <2> QED BY <1>1, <1>2, <1>3, <2>1, <2>3, Zenon DEF Hunted
<1> QED BY <1>1, <1>2, <1>5, <1>6, <1>7, Zenon DEF Inv, OffenceNotForgotten, Known

\* Every step keeps the invariant.
LEMMA NextInv == Inv /\ [Next]_vars => Inv'
<1> SUFFICES ASSUME Inv, [Next]_vars PROVE Inv'
  BY Zenon
<1>1. ASSUME UNCHANGED <<faults, guestVars, wire, tasks, guilty, refused>> PROVE Inv'
  BY <1>1, Zenon DEF guestVars, Inv, Types, Known, OffenceNotForgotten, Hunted
<1>2. ASSUME NEW t \in tasks, KillFails(t) PROVE Inv'
  <2>1. "connect" \in faults /\ tasks' \subseteq tasks /\ UNCHANGED <<faults, guestVars, wire, guilty>>
    BY <1>2, Zenon DEF KillFails
  <2> QED BY <2>1, Zenon DEF guestVars, Inv, Types, Known, OffenceNotForgotten
<1>3. ASSUME NEW c \in Consumers, Subscribe(c) \/ Recv(c) \/ WriteFails(c) PROVE Inv'
  BY <1>1, <1>3, Zenon DEF Subscribe, Recv, WriteFails
<1>4. CASE UNCHANGED vars
  BY <1>1, <1>4, Zenon DEF vars
<1>5. ASSUME NEW p \in Pids, Exits(p) PROVE Inv'
  <2>1. /\ holder' = [holder EXCEPT ![p] = 0]
        /\ UNCHANGED <<faults, born, own, emitted, wire, tasks, guilty, refused>>
    BY <1>5, Zenon DEF Exits
  <2> QED BY <2>1, EndsInv, Zenon
<1>6. ASSUME NEW t \in tasks, Kill(t) PROVE Inv'
  <2> DEFINE p == t.event.pid
  <2>1. /\ tasks' = tasks \ {t} /\ UNCHANGED <<faults, born, own, emitted, wire, guilty>>
        /\ holder' = IF p \in root THEN holder ELSE [holder EXCEPT ![p] = 0]
        /\ refused' = refused \cup {g \in {<<p, holder[p]>>} : p \in root}
    BY <1>6, Zenon DEF Kill
  <2>2. p \in Pids /\ holder \in [Pids -> Nat]
    BY EventFields, Zenon DEF Inv, Types
  <2>3. holder'[p] = 0 \/ <<p, holder[p]>> \in refused'
    BY <2>1, <2>2, Zenon
  <2> QED BY <2>1, <2>2, <2>3, EndsInv, Zenon
<1> QED BY <1>2, <1>3, <1>4, <1>5, <1>6, EmitInv, ForksInv, ReceiveInv, Zenon DEF Next, Quiet

\* What a process is to be killed for is not forgotten between its call and the
\* kill, for any calls, rules and policy, any number of processes that end and
\* hand on their pids, at once or not, and however many events are on the way
\* (process_telemetry_stream and its kill tasks).
THEOREM OffencesAreNotForgotten == Spec => []OffenceNotForgotten
<1>1. Inv => OffenceNotForgotten
  BY Zenon DEF Inv
<1> QED BY <1>1, InitInv, NextInv, PTL DEF Spec

(***************************************************************************)
(* The bytes a process is killed for.  As long as every pid has its first  *)
(* holder, the daemon's counter of a pid, with the bytes of the pid's      *)
(* events still on the wire, one after the other, stays within what the    *)
(* process had sent by each of these events.                               *)
(***************************************************************************)

WithinOwn(cnt, w, sent) ==
    /\ \A p \in Pids : cnt[p] <= sent[p]
    /\ \A i \in DOMAIN w :
           /\ w[i].own <= sent[w[i].pid]
           /\ cnt[w[i].pid] + Sent(w[i].call) <= w[i].own
           /\ \A j \in 1..(i - 1) :
                  w[j].pid = w[i].pid => w[j].own + Sent(w[i].call) <= w[i].own

ByteInv ==
    /\ counters \in [Pids -> Nat]
    /\ \A p \in Pids : born[p] # 0
    /\ KilledForOwnBytes
    /\ (\A p \in Pids : born[p] = 1) => WithinOwn(counters, wire, own)

\* detect_violation has no rule about bytes.
LEMMA NoStaticRuleOnBytes ==
    ASSUME NEW call \in Calls, NEW p \in Pids
    PROVE  StaticRule[call][p] # "data_exfiltration"
<1> DEFINE event == [call.event EXCEPT !.pid = p]
<1>1. FileViolation(event.path, event.write) # "data_exfiltration"
  BY Zenon DEF FileViolation
<1>2. detect_violation(event) # "data_exfiltration"
  <2> HIDE DEF event
  <2> QED BY <1>1, Zenon DEF detect_violation
<1> QED BY <1>2, Zenon DEF StaticRule

\* Whatever a step does to the guest and the wire, it keeps ByteInv if it
\* leaves the daemon's counters alone and starts no task.
LEMMA EmitBytes ==
    ASSUME Inv, ByteInv, NEW p \in Pids, NEW call \in CallsOf[p], Emit(p, call)
    PROVE  ByteInv'
<1> DEFINE e == [id |-> emitted + 1, pid |-> p, by |-> <<p, holder[p]>>, own |-> own'[p], call |-> call]
<1>1. /\ own' = [own EXCEPT ![p] = @ + Sent(call)]
      /\ wire' = Append(wire, e)
      /\ UNCHANGED <<born, counters, tasks>>
  BY Zenon DEF Emit
<1>2. call \in Calls /\ Sent(call) \in Nat /\ Types /\ counters \in [Pids -> Nat]
  BY ReactionsAssumption DEF Calls, Inv, ByteInv
<1>3. /\ own[p] \in Nat /\ own'[p] = own[p] + Sent(call)
      /\ \A q \in Pids : own[q] \in Nat /\ own'[q] \in Nat /\ own[q] <= own'[q]
  <2>1. own \in [Pids -> Nat] /\ Sent(call) \in Nat
    BY <1>2, Zenon DEF Types
  <2>2. own'[p] = own[p] + Sent(call) /\ \A q \in Pids : q # p => own'[q] = own[q]
    BY <1>1, <2>1, Zenon
  <2>3. p \in Pids /\ \A q \in Pids : own[q] \in Nat
    BY <2>1, Zenon
  <2> QED BY ONLY <2>1, <2>2, <2>3
<1>4. e.pid = p /\ e.own = own[p] + Sent(call) /\ e.call = call
  BY <1>3, Zenon
<1> HIDE DEF e
<1>5. /\ Len(wire) \in Nat /\ DOMAIN wire = 1..Len(wire) /\ DOMAIN wire' = 1..(Len(wire) + 1)
      /\ wire'[Len(wire) + 1] = e
      /\ \A i \in DOMAIN wire : wire'[i] = wire[i]
  BY <1>1, <1>2 DEF Types
<1>6. \A i \in DOMAIN wire : /\ wire[i].pid \in Pids /\ wire[i].own \in Nat
                             /\ Sent(wire[i].call) \in Nat
  BY <1>2, EventFields DEF Types
<1>7. ASSUME WithinOwn(counters, wire, own) PROVE WithinOwn(counters, wire', own')
  <2>1. ASSUME NEW q \in Pids PROVE counters[q] <= own'[q]
    <3>1. counters[q] \in Nat /\ own[q] \in Nat /\ own'[q] \in Nat
      BY <1>1, <1>2 DEF Types
    <3> QED BY <1>3, <1>7, <3>1 DEF WithinOwn
  <2>2. ASSUME NEW i \in DOMAIN wire
        PROVE  /\ wire'[i].own <= own'[wire'[i].pid]
               /\ counters[wire'[i].pid] + Sent(wire'[i].call) <= wire'[i].own
               /\ \A j \in 1..(i - 1) : wire'[j].pid = wire'[i].pid
                      => wire'[j].own + Sent(wire'[i].call) <= wire'[i].own
    <3>1. wire'[i] = wire[i] /\ \A j \in 1..(i - 1) : j \in DOMAIN wire /\ wire'[j] = wire[j]
      BY <1>5
    <3>2. wire[i].own <= own[wire[i].pid] /\ own[wire[i].pid] <= own'[wire[i].pid]
      BY <1>3, <1>6, <1>7, Zenon DEF WithinOwn
    <3>3. wire[i].own <= own'[wire[i].pid]
      <4>1. wire[i].own \in Nat /\ own[wire[i].pid] \in Nat /\ own'[wire[i].pid] \in Nat
        BY <1>3, <1>6, Zenon
      <4> QED BY ONLY <3>2, <4>1
    <3> QED BY <1>7, <3>1, <3>3, Zenon DEF WithinOwn
  <2>3. /\ e.own <= own'[e.pid]
        /\ counters[e.pid] + Sent(e.call) <= e.own
        /\ \A j \in DOMAIN wire : wire[j].pid = e.pid => wire[j].own + Sent(e.call) <= e.own
    BY <1>2, <1>3, <1>4, <1>6, <1>7 DEF WithinOwn
  <2>4. ASSUME NEW i \in DOMAIN wire'
        PROVE  /\ wire'[i].own <= own'[wire'[i].pid]
               /\ counters[wire'[i].pid] + Sent(wire'[i].call) <= wire'[i].own
               /\ \A j \in 1..(i - 1) : wire'[j].pid = wire'[i].pid
                      => wire'[j].own + Sent(wire'[i].call) <= wire'[i].own
    <3>1. i \in DOMAIN wire \/ (i = Len(wire) + 1 /\ \A j \in 1..(i - 1) : j \in DOMAIN wire)
      BY <1>5
    <3>2. CASE i \in DOMAIN wire
      BY <2>2, <3>2, Zenon
    <3>3. CASE wire'[i] = e /\ \A j \in 1..(i - 1) : wire'[j] = wire[j] /\ j \in DOMAIN wire
      BY <2>3, <3>3, Zenon
    <3> QED BY <1>5, <3>1, <3>2, <3>3, Zenon
  <2> QED BY <2>1, <2>4, Zenon DEF WithinOwn
<1> QED BY <1>1, <1>7, Zenon DEF ByteInv, KilledForOwnBytes

\* Reading a line counts its bytes; a task about bytes is started only by the
\* line that takes the counter over the threshold.
LEMMA ReceiveBytes ==
    ASSUME Inv, ByteInv, Receive \/ SkipGarbled
    PROVE  ByteInv'
<1> DEFINE e == Head(wire)
<1>1. wire # <<>> /\ wire' = Tail(wire) /\ born' = born /\ own' = own
  BY Zenon DEF Receive, SkipGarbled, guestVars
<1>2. Types /\ counters \in [Pids -> Nat]
  BY Zenon DEF Inv, ByteInv
<1>3. /\ e = wire[1] /\ 1 \in DOMAIN wire /\ e.pid \in Pids /\ e.own \in Nat /\ e.call \in Calls
      /\ \A i \in DOMAIN wire : /\ wire[i].pid \in Pids /\ wire[i].own \in Nat
                                /\ Sent(wire[i].call) \in Nat
  <2>1. e = wire[1] /\ 1 \in DOMAIN wire /\ \A i \in DOMAIN wire : wire[i] \in Events
    BY <1>1, <1>2 DEF Types
  <2> QED BY <2>1, EventFields, Zenon
<1>4. /\ Len(wire) \in Nat /\ DOMAIN wire = 1..Len(wire) /\ DOMAIN wire' = 1..(Len(wire) - 1)
      /\ \A i \in DOMAIN wire' : i + 1 \in DOMAIN wire /\ wire'[i] = wire[i + 1]
  BY <1>1, <1>2 DEF Types
<1>5. counters' = counters \/ counters' = [counters EXCEPT ![e.pid] = @ + Sent(e.call)]
  BY Zenon DEF Receive, SkipGarbled
<1>6. \A t \in tasks' : t \in tasks
          \/ /\ t.event = e /\ t.rule = "data_exfiltration"
             /\ counters[e.pid] + Sent(e.call) >= SEND_THRESHOLD
          \/ t.rule # "data_exfiltration"
  <2>1. ASSUME NEW violation \in {ViolationOf(e), "none"}, NEW t \in React(e, violation)
        PROVE  \/ /\ t.event = e /\ t.rule = "data_exfiltration"
                  /\ counters[e.pid] + Sent(e.call) >= SEND_THRESHOLD
               \/ t.rule # "data_exfiltration"
    <3>1. t.event = e /\ t.rule \in {violation, "policy"}
      BY <2>1 DEF React
    <3>2. ViolationOf(e) = "data_exfiltration" => counters[e.pid] + Sent(e.call) >= SEND_THRESHOLD
      BY <1>3, NoStaticRuleOnBytes, Zenon DEF ViolationOf, CumulativeViolation
    <3> QED BY <2>1, <3>1, <3>2, Zenon
  <2> QED BY <2>1, Zenon DEF Receive, SkipGarbled
<1> HIDE DEF e
<1>7. /\ counters' \in [Pids -> Nat]
      /\ \A p \in Pids : \/ counters'[p] = counters[p]
                         \/ p = e.pid /\ counters'[p] = counters[p] + Sent(e.call)
  <2>1. e.pid \in Pids /\ Sent(e.call) \in Nat
    BY <1>3, Zenon
  <2> QED BY ONLY <1>2, <1>5, <2>1
<1>8. ASSUME WithinOwn(counters, wire, own)
      PROVE  WithinOwn(counters', wire', own) /\ counters[e.pid] + Sent(e.call) <= e.own
  <2>1. counters[e.pid] + Sent(e.call) <= e.own /\ e.own <= own[e.pid]
    BY <1>3, <1>8, Zenon DEF WithinOwn
  <2>2. ASSUME NEW p \in Pids PROVE counters'[p] <= own[p]
    <3>1. counters[p] \in Nat /\ own[p] \in Nat /\ e.own \in Nat /\ Sent(e.call) \in Nat
      BY <1>2, <1>3, Zenon DEF Types
    <3> QED BY <1>7, <1>8, <2>1, <3>1 DEF WithinOwn
  <2>3. ASSUME NEW i \in DOMAIN wire'
        PROVE  /\ wire'[i].own <= own[wire'[i].pid]
               /\ counters'[wire'[i].pid] + Sent(wire'[i].call) <= wire'[i].own
               /\ \A j \in 1..(i - 1) : wire'[j].pid = wire'[i].pid
                      => wire'[j].own + Sent(wire'[i].call) <= wire'[i].own
    <3>0. PICK k \in DOMAIN wire : k = i + 1
      BY <1>4, Zenon
    <3> DEFINE f == wire[k]
    <3>1. /\ k \in DOMAIN wire /\ wire'[i] = f /\ 1 \in 1..(k - 1)
          /\ \A j \in 1..(i - 1) : wire'[j] = wire[j + 1] /\ j + 1 \in 1..(k - 1)
      BY <1>4, <3>0
    <3>2. /\ f.own <= own[f.pid]
          /\ counters[f.pid] + Sent(f.call) <= f.own
          /\ \A j \in 1..(k - 1) : wire[j].pid = f.pid => wire[j].own + Sent(f.call) <= f.own
      BY <1>8, Zenon DEF WithinOwn
    <3>3. f.pid = e.pid => e.own + Sent(f.call) <= f.own
      BY <1>3, <3>1, <3>2, Zenon
    <3>4. f.pid \in Pids /\ f.own \in Nat /\ Sent(f.call) \in Nat
      BY <1>3, <3>1, Zenon
    <3> HIDE DEF f
    <3>5. counters'[f.pid] + Sent(f.call) <= f.own
      BY <1>2, <1>3, <1>7, <2>1, <3>2, <3>3, <3>4
    <3> QED BY <3>1, <3>2, <3>5, Zenon
  <2> QED BY <2>1, <2>2, <2>3, Zenon DEF WithinOwn
<1>9. KilledForOwnBytes'
  <2>1. SEND_THRESHOLD \in Nat
    BY ReactionsAssumption, Zenon
  <2>2. counters[e.pid] \in Nat /\ Sent(e.call) \in Nat /\ e.own \in Nat
    BY <1>2, <1>3, Zenon
  <2> QED BY <1>1, <1>6, <1>8, <2>1, <2>2 DEF ByteInv, KilledForOwnBytes
<1> QED BY <1>1, <1>7, <1>8, <1>9, Zenon DEF ByteInv

LEMMA NextBytes == Inv /\ ByteInv /\ [Next]_vars => ByteInv'
<1> SUFFICES ASSUME Inv, ByteInv, [Next]_vars PROVE ByteInv'
  BY Zenon
<1>1. ASSUME UNCHANGED <<born, own, wire, counters>>, tasks' \subseteq tasks PROVE ByteInv'
  BY <1>1, Zenon DEF ByteInv, KilledForOwnBytes
<1>2. ASSUME NEW p \in Pids, Exits(p) PROVE ByteInv'
  BY <1>1, <1>2, Zenon DEF Exits
<1>3. ASSUME NEW p \in Pids, Forks(p) PROVE ByteInv'
  <2>1. /\ counters' = counters /\ born' = [born EXCEPT ![p] = @ + 1]
        /\ born \in [Pids -> Nat] /\ born[p] # 0
    BY <1>3, Zenon DEF Forks, Inv, Types, ByteInv
  <2>2. born'[p] # 1 /\ \A q \in Pids : born'[q] # 0
    BY <2>1 DEF ByteInv
  <2> QED BY <2>1, <2>2, Zenon DEF ByteInv, KilledForOwnBytes
<1>4. ASSUME NEW t \in tasks, Kill(t) \/ KillFails(t) PROVE ByteInv'
  BY <1>1, <1>4, Zenon DEF Kill, KillFails, guestVars
<1>5. ASSUME NEW c \in Consumers, Subscribe(c) \/ Recv(c) \/ WriteFails(c) PROVE ByteInv'
  BY <1>1, <1>5, Zenon DEF Subscribe, Recv, WriteFails, guestVars
<1>6. CASE UNCHANGED vars
  BY <1>1, <1>6, Zenon DEF vars, guestVars
<1> QED BY <1>2, <1>3, <1>4, <1>5, <1>6, EmitBytes, ReceiveBytes, Zenon DEF Next, Quiet

\* While no pid has been given out again, nobody is killed for bytes it did
\* not send: the cumulative rule of EventLogger looks at what the process has
\* sent by the event that crosses the threshold, however many events of it are
\* still on the way and whichever lines were lost.
THEOREM KillsForOwnBytes == Spec => []KilledForOwnBytes
<1>1. Init => ByteInv
  BY DEF Init, ByteInv, KilledForOwnBytes, WithinOwn
<1>2. ByteInv => KilledForOwnBytes
  BY Zenon DEF ByteInv
<1> QED BY <1>1, <1>2, InitInv, NextInv, NextBytes, PTL DEF Spec

(***************************************************************************)
(* What a consumer of the broadcast has and will receive.  While one is    *)
(* connected every line that is read is sent, so that the n-th line sent   *)
(* is the last one read less the lines sent after it.                      *)
(***************************************************************************)

LastRead == emitted - Len(wire)

LineOf(n) == LastRead - total + n + 1

Numbered == \A i \in DOMAIN wire : wire[i].id = LastRead + i

Follows(c) ==
    /\ conn[c].next <= total
    /\ \A n \in conn[c].next..(total - 1) :
           total <= n + Capacity => slots[n % Capacity] = LineOf(n)
    /\ \A i \in DOMAIN conn[c].got :
           conn[c].got[i] = LineOf(conn[c].next - Len(conn[c].got) + i - 1)

StreamInv ==
    /\ total \in Nat
    /\ slots \in [0..(Capacity - 1) -> Nat]
    /\ conn \in [Consumers -> [up : BOOLEAN, next : Nat, got : Seq(Nat)]]
    /\ \A c \in Consumers : ~conn[c].up => conn[c].got = <<>>
    /\ "garbled" \notin faults => Numbered /\ \A c \in Consumers : conn[c].up => Follows(c)

\* Two numbers less than Capacity apart have slots of their own.
LEMMA SlotsApart ==
    ASSUME NEW m \in Nat, NEW n \in Nat, NEW k \in Nat \ {0}, m < n, n < m + k
    PROVE  m % k # n % k
<1> DEFINE a == m \div k
           b == n \div k
<1>1. a \in Int /\ b \in Int /\ m = k * a + (m % k) /\ n = k * b + (n % k)
  OBVIOUS
<1>2. SUFFICES ASSUME m % k = n % k PROVE FALSE
  BY Zenon
<1> HIDE DEF a, b
<1>3. n - m = k * (b - a)
  BY <1>1, <1>2
<1>4. b - a <= 0 => k * (b - a) <= 0
  BY <1>1
<1>5. b - a >= 1 => k * (b - a) >= k
  BY <1>1
<1> QED BY <1>1, <1>3, <1>4, <1>5

LEMMA EmitStream ==
    ASSUME Inv, StreamInv, NEW p \in Pids, NEW call \in CallsOf[p], Emit(p, call)
    PROVE  StreamInv'
<1> DEFINE e == [id |-> emitted + 1, pid |-> p, by |-> <<p, holder[p]>>, own |-> own'[p], call |-> call]
<1>1. /\ wire' = Append(wire, e) /\ emitted' = emitted + 1 /\ e.id = emitted + 1
      /\ UNCHANGED <<faults, slots, total, conn>>
  BY Zenon DEF Emit
<1>2. wire \in Seq(Events) /\ emitted \in Nat /\ total \in Nat
  BY Zenon DEF Inv, Types, StreamInv
<1> HIDE DEF e
<1>3. /\ Len(wire) \in Nat /\ Len(wire') = Len(wire) + 1 /\ DOMAIN wire' = 1..(Len(wire) + 1)
      /\ DOMAIN wire = 1..Len(wire) /\ wire'[Len(wire) + 1] = e
      /\ \A i \in DOMAIN wire : wire'[i] = wire[i]
  BY <1>1, <1>2
<1>4. LastRead \in Int /\ LastRead' = LastRead
  BY <1>1, <1>2, <1>3 DEF LastRead
<1>5. e.id = LastRead + (Len(wire) + 1)
  BY <1>1, <1>2, <1>3 DEF LastRead
<1>6. Numbered => Numbered'
  <2>1. ASSUME Numbered, NEW i \in DOMAIN wire' PROVE wire'[i].id = LastRead' + i
    <3>1. i \in DOMAIN wire \/ i = Len(wire) + 1
      BY <1>3
    <3> QED BY <1>3, <1>4, <1>5, <2>1, <3>1, Zenon DEF Numbered
  <2> QED BY <2>1, Zenon DEF Numbered
<1>7. \A c \in Consumers : Follows(c) => Follows(c)'
  BY <1>1, <1>4, Zenon DEF Follows, LineOf
<1> QED BY <1>1, <1>6, <1>7, Zenon DEF StreamInv

\* A line that is read goes to the next slot if anyone is connected, and the
\* slots of the lines before it keep theirs until it is their turn.
LEMMA ReceiveStream ==
    ASSUME Inv, StreamInv, Receive
    PROVE  StreamInv'
<1> DEFINE e == Head(wire)
<1>1. wire # <<>> /\ wire' = Tail(wire) /\ Send(e.id) /\ UNCHANGED <<faults, emitted, conn>>
  BY Zenon DEF Receive, guestVars
<1>2. wire \in Seq(Events) /\ emitted \in Nat /\ total \in Nat /\ Capacity \in Nat \ {0}
  BY ReactionsAssumption, Zenon DEF Inv, Types, StreamInv
<1>3. /\ Len(wire) \in Nat \ {0} /\ Len(wire') = Len(wire) - 1 /\ DOMAIN wire = 1..Len(wire)
      /\ DOMAIN wire' = 1..(Len(wire) - 1) /\ e = wire[1] /\ 1 \in DOMAIN wire
      /\ \A i \in DOMAIN wire' : i + 1 \in DOMAIN wire /\ wire'[i] = wire[i + 1]
  BY <1>1, <1>2
<1>4. e.id \in Nat
  <2>1. wire[1] \in Events
    BY <1>2, <1>3
  <2> QED BY <1>3, <2>1, Zenon DEF Events
<1> HIDE DEF e
<1>5. LastRead \in Int /\ LastRead' = LastRead + 1
  BY <1>1, <1>2, <1>3 DEF LastRead
<1>6. Numbered => Numbered' /\ e.id = LastRead'
  <2>1. ASSUME Numbered, NEW i \in DOMAIN wire' PROVE wire'[i].id = LastRead' + i
    <3>1. wire'[i].id = LastRead + (i + 1)
      BY <1>3, <2>1, Zenon DEF Numbered
    <3>2. i \in Int
      BY <1>3
    <3> QED BY ONLY <1>5, <3>1, <3>2
  <2>2. ASSUME Numbered PROVE e.id = LastRead'
    BY <1>3, <1>5, <2>2, Zenon DEF Numbered
  <2> QED BY <2>1, <2>2, Zenon DEF Numbered
<1>7. CASE \A c \in Consumers : ~conn[c].up
  BY <1>1, <1>6, <1>7, Zenon DEF Send, StreamInv
<1>8. CASE ~ \A c \in Consumers : ~conn[c].up
  <2>1. total' = total + 1 /\ slots' = [slots EXCEPT ![total % Capacity] = e.id]
    BY <1>1, <1>8, Zenon DEF Send
  <2>2. total % Capacity \in 0..(Capacity - 1)
    BY <1>2
  <2>3. /\ slots' \in [0..(Capacity - 1) -> Nat] /\ total' \in Nat
        /\ slots'[total % Capacity] = e.id
        /\ \A k \in 0..(Capacity - 1) : k # total % Capacity => slots'[k] = slots[k]
    BY <1>2, <1>4, <2>1, <2>2 DEF StreamInv
  <2>4. \A n \in Int : LineOf(n)' = LineOf(n)
    BY <1>2, <1>5, <2>1 DEF LineOf
  <2>5. ASSUME NEW c \in Consumers, Follows(c), conn[c].next \in Nat, conn[c].got \in Seq(Nat),
               Numbered
        PROVE  Follows(c)'
    <3>1. conn[c]' = conn[c] /\ conn[c].next <= total'
      BY <1>1, <1>2, <2>1, <2>5 DEF Follows
    <3>2. ASSUME NEW n \in conn[c].next..total, total' <= n + Capacity
          PROVE  slots'[n % Capacity] = LineOf(n)
      <4>1. CASE n = total
        BY <1>2, <1>5, <1>6, <2>3, <2>5, <4>1 DEF LineOf
      <4>2. CASE n < total
        <5>1. n \in Nat /\ n \in conn[c].next..(total - 1) /\ total < n + Capacity
          BY <1>2, <2>1, <2>5, <3>2, <4>2
        <5>2. n % Capacity # total % Capacity /\ n % Capacity \in 0..(Capacity - 1)
          <6>1. n % Capacity \in 0..(Capacity - 1)
            BY <1>2, <5>1
          <6>2. n % Capacity # total % Capacity
            BY ONLY <1>2, <4>2, <5>1, SlotsApart, Zenon
          <6> QED BY <6>1, <6>2, Zenon
        <5>3. slots[n % Capacity] = LineOf(n)
          <6>1. total <= n + Capacity
            BY <1>2, <5>1
          <6> QED BY <2>5, <5>1, <6>1, Zenon DEF Follows
        <5> QED BY <2>3, <5>2, <5>3, Zenon
      <4> QED BY <1>2, <2>5, <3>2, <4>1, <4>2
    <3>3. conn[c].next..(total' - 1) = conn[c].next..total /\ conn[c].next..total \subseteq Int
      BY <1>2, <2>1, <2>5
    <3>4. \A n \in conn[c].next..(total' - 1) :
              total' <= n + Capacity => slots'[n % Capacity] = LineOf(n)'
      BY <2>4, <3>2, <3>3, Zenon
    <3>5. ASSUME NEW i \in DOMAIN conn[c].got
          PROVE  conn[c].got[i] = LineOf(conn[c].next - Len(conn[c].got) + i - 1)'
      <4>1. conn[c].next - Len(conn[c].got) + i - 1 \in Int
        BY <2>5
      <4>2. conn[c].got[i] = LineOf(conn[c].next - Len(conn[c].got) + i - 1)
        BY <2>5, Zenon DEF Follows
      <4> QED BY <1>2, <1>5, <2>1, <3>1, <4>1, <4>2 DEF LineOf
    <3> QED BY <3>1, <3>4, <3>5, Zenon DEF Follows
  <2> QED BY <1>1, <1>6, <2>3, <2>5, Zenon DEF StreamInv
<1> QED BY <1>7, <1>8, Zenon

\* A consumer starts with the next line, takes the lines in turn, and is cut
\* off when its next line has been overwritten.
LEMMA ConsumerStream ==
    ASSUME Inv, StreamInv, NEW c \in Consumers, Subscribe(c) \/ Recv(c) \/ WriteFails(c)
    PROVE  StreamInv'
<1> DEFINE Fresh == [up |-> TRUE, next |-> total, got |-> <<>>]
           More == [up |-> TRUE, next |-> conn[c].next + 1,
                    got |-> Append(conn[c].got, slots[conn[c].next % Capacity])]
<1>1. UNCHANGED <<faults, guestVars, wire, slots, total>>
  BY Zenon DEF Subscribe, Recv, WriteFails
<1>2. /\ total \in Nat /\ Capacity \in Nat \ {0} /\ slots \in [0..(Capacity - 1) -> Nat]
      /\ conn \in [Consumers -> [up : BOOLEAN, next : Nat, got : Seq(Nat)]]
      /\ emitted \in Nat /\ wire \in Seq(Events)
  BY ReactionsAssumption, Zenon DEF StreamInv, Inv, Types
<1>3. /\ conn[c].next \in Nat /\ conn[c].got \in Seq(Nat)
  BY <1>2, Zenon
<1>4. LastRead' = LastRead /\ LastRead \in Int /\ \A n : LineOf(n)' = LineOf(n)
  <2>1. Len(wire) \in Nat
    BY <1>2
  <2> QED BY <1>1, <1>2, <2>1 DEF LastRead, LineOf, guestVars
<1>5. \/ conn' = [conn EXCEPT ![c] = Fresh]
      \/ conn' = [conn EXCEPT ![c] = Closed]
      \/ /\ conn' = [conn EXCEPT ![c] = More] /\ conn[c].up
         /\ conn[c].next < total /\ ~(conn[c].next + Capacity < total)
  BY <1>2, Zenon DEF Subscribe, Recv, WriteFails, Lagged
<1>6. slots[conn[c].next % Capacity] \in Nat
  <2>1. conn[c].next % Capacity \in 0..(Capacity - 1)
    BY <1>2, <1>3
  <2> QED BY <1>2, <2>1, Zenon
<1>7. {Fresh, More, Closed} \subseteq [up : BOOLEAN, next : Nat, got : Seq(Nat)]
  BY <1>2, <1>3, <1>6 DEF Closed
<1>8. More.up /\ Fresh.up /\ ~Closed.up /\ Closed.got = <<>>
  BY Zenon DEF Closed
<1>9. /\ Fresh.next = total /\ DOMAIN Fresh.got = {}
      /\ More.next = conn[c].next + 1
      /\ More.got = Append(conn[c].got, slots[conn[c].next % Capacity])
  OBVIOUS
<1> HIDE DEF Fresh, More
<1>10. conn' \in [Consumers -> [up : BOOLEAN, next : Nat, got : Seq(Nat)]]
  BY <1>2, <1>5, <1>7, Zenon
<1>11. \A d \in Consumers : \/ conn'[d] = conn[d]
                            \/ d = c /\ conn'[c] = Closed
                            \/ d = c /\ conn'[c] = Fresh
                            \/ /\ d = c /\ conn'[c] = More /\ conn[c].up
                               /\ conn[c].next < total /\ ~(conn[c].next + Capacity < total)
  BY <1>2, <1>5, Zenon
<1>12. \A d \in Consumers : ~conn'[d].up => conn'[d].got = <<>>
  BY <1>8, <1>11, Zenon DEF StreamInv
<1>13. ASSUME NEW d \in Consumers, conn'[d] = conn[d], Follows(d) PROVE Follows(d)'
  BY <1>1, <1>4, <1>13, Zenon DEF Follows
<1>14. ASSUME conn'[c] = Fresh PROVE Follows(c)'
  <2>1. total' = total /\ total..(total - 1) = {} /\ total <= total
    BY <1>1, <1>2
  <2>2. conn'[c].next = total' /\ DOMAIN conn'[c].got = {}
    BY <1>9, <1>14, <2>1, Zenon
  <2> QED BY <2>1, <2>2, Zenon DEF Follows
<1>15. ASSUME conn'[c] = More, Follows(c), conn[c].next < total, ~(conn[c].next + Capacity < total)
       PROVE  Follows(c)'
  <2> DEFINE x == conn[c].next
             got == conn[c].got
             line == slots[x % Capacity]
  <2>1. x \in Nat /\ got \in Seq(Nat) /\ x + 1 <= total /\ total <= x + Capacity /\ x \in x..(total - 1)
    BY <1>2, <1>3, <1>15
  <2>2. line = LineOf(x) /\ \A i \in DOMAIN got : got[i] = LineOf(x - Len(got) + i - 1)
    BY <1>15, <2>1, Zenon DEF Follows
  <2>3. \A n \in x..(total - 1) : total <= n + Capacity => slots[n % Capacity] = LineOf(n)
    BY <1>15, Zenon DEF Follows
  <2>4. conn'[c].next = x + 1 /\ conn'[c].got = Append(got, line) /\ line \in Nat
    BY <1>6, <1>9, <1>15, Zenon
  <2> HIDE DEF x, got, line
  <2>5. /\ Len(got) \in Nat /\ Len(Append(got, line)) = Len(got) + 1
        /\ DOMAIN got = 1..Len(got) /\ DOMAIN Append(got, line) = 1..(Len(got) + 1)
        /\ Append(got, line)[Len(got) + 1] = line
        /\ \A i \in 1..Len(got) : Append(got, line)[i] = got[i]
    BY <2>1, <2>4
  <2>6. ASSUME NEW i \in 1..(Len(got) + 1)
        PROVE  Append(got, line)[i] = LineOf((x + 1) - (Len(got) + 1) + i - 1)
    <3>1. (x + 1) - (Len(got) + 1) + i - 1 = x - Len(got) + i - 1
      BY <2>1, <2>5
    <3>2. CASE i = Len(got) + 1
      <4>1. x - Len(got) + i - 1 = x
        BY <2>1, <2>5, <3>2
      <4> QED BY <2>2, <2>5, <3>1, <3>2, <4>1, Zenon
    <3>3. CASE i # Len(got) + 1
      <4>1. i \in 1..Len(got)
        BY <2>5, <3>3
      <4> QED BY <2>2, <2>5, <3>1, <4>1, Zenon
    <3> QED BY <3>2, <3>3, Zenon
  <2>7. \A n \in (x + 1)..(total - 1) : n \in x..(total - 1)
    BY <1>2, <2>1
  <2>8. \A n \in (x + 1)..(total - 1) : total <= n + Capacity => slots[n % Capacity] = LineOf(n)
    BY <2>3, <2>7, Zenon
  <2>9. conn'[c].next <= total' /\ total' = total /\ slots' = slots
    BY <1>1, <2>1, <2>4, Zenon
  <2>10. \A i \in DOMAIN conn'[c].got :
             conn'[c].got[i] = LastRead' - total' + (conn'[c].next - Len(conn'[c].got) + i - 1) + 1
    BY <1>4, <2>4, <2>5, <2>6, <2>9, Zenon DEF LineOf
  <2>11. \A n \in conn'[c].next..(total' - 1) :
             total' <= n + Capacity => slots'[n % Capacity] = LastRead' - total' + n + 1
    BY <1>4, <2>4, <2>8, <2>9, Zenon DEF LineOf
  <2> QED BY <2>9, <2>10, <2>11, Zenon DEF Follows, LineOf
<1>16. ASSUME "garbled" \notin faults PROVE Numbered' /\ \A d \in Consumers : conn'[d].up => Follows(d)'
  <2>1. Numbered'
    BY <1>1, <1>4, <1>16, Zenon DEF StreamInv, Numbered
  <2>2. \A d \in Consumers : conn[d].up => Follows(d)
    BY <1>16, Zenon DEF StreamInv
  <2> QED BY <1>8, <1>11, <1>13, <1>14, <1>15, <2>1, <2>2, Zenon
<1> QED BY <1>1, <1>2, <1>10, <1>12, <1>16, Zenon DEF StreamInv

LEMMA NextStream == Inv /\ StreamInv /\ [Next]_vars => StreamInv'
<1> SUFFICES ASSUME Inv, StreamInv, [Next]_vars PROVE StreamInv'
  BY Zenon
<1>1. ASSUME UNCHANGED <<faults, emitted, wire, slots, total, conn>> PROVE StreamInv'
  BY <1>1 DEF StreamInv, Numbered, Follows, LineOf, LastRead
<1>2. ASSUME NEW p \in Pids, Exits(p) \/ Forks(p) PROVE StreamInv'
  BY <1>1, <1>2, Zenon DEF Exits, Forks
<1>3. ASSUME SkipGarbled PROVE StreamInv'
  BY <1>3, Zenon DEF SkipGarbled, StreamInv
<1>4. ASSUME NEW t \in tasks, Kill(t) \/ KillFails(t) PROVE StreamInv'
  BY <1>1, <1>4, Zenon DEF Kill, KillFails, guestVars
<1>5. CASE UNCHANGED vars
  BY <1>1, <1>5, Zenon DEF vars, guestVars
<1> QED BY <1>2, <1>3, <1>4, <1>5, EmitStream, ReceiveStream, ConsumerStream, Zenon DEF Next, Quiet

\* What a consumer of port 10001 receives over one connection has no holes,
\* for any channel capacity and any number of consumers that come, fall
\* behind and go: run_telemetry_tcp_proxy ends the connection on Lagged.
THEOREM StreamsHaveNoHoles == Spec => []StreamHasNoHoles
<1>1. Init => StreamInv
  <2> SUFFICES ASSUME Init PROVE StreamInv
    BY Zenon
  <2>1. Capacity \in Nat \ {0} /\ Closed \in [up : BOOLEAN, next : Nat, got : Seq(Nat)]
        /\ ~Closed.up /\ Closed.got = <<>>
    BY ReactionsAssumption DEF Closed
  <2> QED BY <2>1 DEF Init, StreamInv, Numbered
<1>2. StreamInv /\ Inv => StreamHasNoHoles
  <2> SUFFICES ASSUME StreamInv, Inv, "garbled" \notin faults, NEW c \in Consumers,
                      NEW i \in DOMAIN conn[c].got
               PROVE  conn[c].got[i] = conn[c].got[1] + (i - 1)
    BY Zenon DEF StreamHasNoHoles
  <2>1. conn[c].next \in Nat /\ conn[c].got \in Seq(Nat) /\ total \in Nat
        /\ wire \in Seq(Events) /\ emitted \in Nat
    BY Zenon DEF StreamInv, Inv, Types
  <2>2. i \in Nat /\ 1 \in DOMAIN conn[c].got /\ Len(conn[c].got) \in Nat /\ Len(wire) \in Nat
    BY <2>1
  <2>3. conn[c].up
    BY <2>2 DEF StreamInv
  <2>4. \A j \in DOMAIN conn[c].got :
            conn[c].got[j] = LastRead - total + (conn[c].next - Len(conn[c].got) + j - 1) + 1
    BY <2>3, Zenon DEF StreamInv, Follows, LineOf
  <2>5. LastRead \in Int
    BY <2>1, <2>2 DEF LastRead
  <2> DEFINE x == LastRead - total + (conn[c].next - Len(conn[c].got))
  <2>6. x \in Int
    <3>1. total \in Nat /\ conn[c].next \in Nat /\ Len(conn[c].got) \in Nat
      BY <2>1, <2>2, Zenon
    <3> QED BY ONLY <2>5, <3>1
  <2>7. ASSUME NEW j \in DOMAIN conn[c].got PROVE conn[c].got[j] = x + j
    <3>1. j \in Nat
      BY <2>1
    <3> DEFINE m == conn[c].next
               k == Len(conn[c].got)
    <3>2. m \in Int /\ k \in Int /\ total \in Int
      BY <2>1, <2>2
    <3>3. conn[c].got[j] = LastRead - total + (m - k + j - 1) + 1 /\ x = LastRead - total + (m - k)
      BY <2>4, Zenon
    <3> HIDE DEF x, m, k
    <3> QED BY <2>5, <3>1, <3>2, <3>3
  <2> HIDE DEF x
  <2>8. conn[c].got[i] = x + i /\ conn[c].got[1] = x + 1 /\ i \in Nat
    BY <2>2, <2>7, Zenon
  <2> QED BY ONLY <2>6, <2>8
<1> QED BY <1>1, <1>2, InitInv, NextInv, NextStream, PTL DEF Spec

=============================================================================
