----------------------------- MODULE GuestProofs -----------------------------
(***************************************************************************)
(* Proofs about the guest agent: AgentExec, for any number of handlers,    *)
(* pids and processes, and NetPolicy, for any rules, destinations, widths  *)
(* of addresses and sizes of tries.                                        *)
(***************************************************************************)
EXTENDS AgentExec, NetPolicy, WellFoundedInduction, TLAPS

(***************************************************************************)
(* AgentExec.                                                              *)
(***************************************************************************)

(***************************************************************************)
(* The inductive invariant.                                                *)
(***************************************************************************)

\* The handler has a command: nobody is given its pid.
Busy(h) == pc[h] \in {"spawned", "waiting"}

\* Until its wait returns, the handler's child is the process it spawned, a
\* child of PID 1, and running as long as its pid is not registered.
ChildIsOwn ==
    \A h \in Handlers : Busy(h) =>
        /\ child[h].pid \in Pids
        /\ pc[h] = "spawned" => proc[child[h].pid].state = "running" /\ ~exited[h]
        /\ ~exited[h] => /\ proc[child[h].pid].state \in {"running", "zombie"}
                         /\ proc[child[h].pid].parent = Agent

PidsDiffer ==
    \A g, h \in Handlers : Busy(g) /\ Busy(h) /\ child[g].pid = child[h].pid => g = h

Registered ==
    \A h \in Handlers : pc[h] = "waiting" => child[h].pid \in managed

\* What the reaper looks at has ended, and what it is about to reap is no
\* handler's.
ReaperIsRight ==
    /\ reaper.at # "sleep" => reaper.pid \in Pids /\ proc[reaper.pid].state # "running"
    /\ reaper.at = "reap" => \A h \in Handlers : Busy(h) => child[h].pid # reaper.pid

IdleHasNotWaited == \A h \in Handlers : pc[h] = "idle" => ~exited[h]

Entry == [state : {"free", "running", "zombie"}, gen : Nat,
          parent : Pids \cup {Agent, None}, pipe : Handlers \cup {None}]

Types ==
    /\ proc \in [Pids -> Entry]
    /\ procs \in Nat
    /\ pc \in [Handlers -> {"idle", "spawned", "waiting", "replied"}]
    /\ child \in [Handlers -> [pid : Pids \cup {None}, gen : Nat]]
    /\ exited \in [Handlers -> BOOLEAN]
    /\ reaper \in [at : {"sleep", "check", "reap"}, pid : Pids \cup {None}]
    /\ \A h \in Handlers : pc[h] \in {"spawned", "waiting"} => child[h].pid \in Pids

Inv ==
    /\ Types
    /\ timings = {} =>
           /\ ChildIsOwn /\ PidsDiffer /\ Registered /\ ReaperIsRight /\ IdleHasNotWaited
           /\ stolen = {}

\* The table without processes, and no handler busy.
LEMMA InitInv == Init => Inv
BY AgentExecAssumption
   DEF Init, Inv, Types, Entry, Free, NoChild, Asleep, ChildIsOwn, PidsDiffer, Registered,
       ReaperIsRight, IdleHasNotWaited, Busy

\* What the process table has after a process is created, after one exits and
\* after one is waited for.
LEMMA AfterCreate ==
    ASSUME Types, NEW p \in Pids, NEW par \in Pids \cup {Agent, None},
           NEW pipe \in Handlers \cup {None}
    PROVE  /\ Create(p, par, pipe) \in [Pids -> Entry]
           /\ Create(p, par, pipe)[p].state = "running" /\ Create(p, par, pipe)[p].parent = par
           /\ \A q \in Pids \ {p} : Create(p, par, pipe)[q] = proc[q]
<1> DEFINE e == [state |-> "running", gen |-> procs + 1, parent |-> par, pipe |-> pipe]
<1>1. e \in Entry /\ e.state = "running" /\ e.parent = par
  <2>1. procs \in Nat
    BY Zenon DEF Types
  <2>2. procs + 1 \in Nat
    BY <2>1
  <2> QED BY <2>2, Zenon DEF Entry
<1>2. Create(p, par, pipe) = [proc EXCEPT ![p] = e]
  BY Zenon DEF Create
<1> HIDE DEF e
<1> QED BY <1>1, <1>2 DEF Types

LEMMA AfterAnExit ==
    ASSUME Types, NEW p \in Pids
    PROVE  /\ AfterExit(p) \in [Pids -> Entry]
           /\ AfterExit(p)[p].state # "running"
           /\ proc[p].parent = Agent =>
                  AfterExit(p)[p].state = "zombie" /\ AfterExit(p)[p].parent = Agent
           /\ \A q \in Pids \ {p} :
                  /\ AfterExit(p)[q].state = proc[q].state
                  /\ proc[q].parent = Agent => AfterExit(p)[q].parent = Agent
<1>1. Free \in Entry /\ Free.state = "free"
  BY Zenon DEF Free, Entry
<1>2. \A q \in Pids : proc[q] \in Entry
  BY Zenon DEF Types
<1> DEFINE zombie == [proc[p] EXCEPT !.state = "zombie", !.pipe = None]
           orphan(q) == [proc[q] EXCEPT !.parent = Agent]
<1>3. zombie \in Entry /\ zombie.state = "zombie" /\ zombie.parent = proc[p].parent
  BY <1>2, Zenon DEF Entry
<1>4. \A q \in Pids :
          orphan(q) \in Entry /\ orphan(q).state = proc[q].state /\ orphan(q).parent = Agent
  BY <1>2, Zenon DEF Entry
<1>5. AfterExit(p) =
          [q \in Pids |-> IF q = p THEN IF proc[p].parent = Agent THEN zombie ELSE Free
                          ELSE IF proc[q].parent = p THEN orphan(q) ELSE proc[q]]
  BY Zenon DEF AfterExit
<1> HIDE DEF zombie, orphan
<1>6. AfterExit(p)[p] = IF proc[p].parent = Agent THEN zombie ELSE Free
  BY <1>5, Zenon
<1>7. \A q \in Pids \ {p} :
          AfterExit(p)[q] = IF proc[q].parent = p THEN orphan(q) ELSE proc[q]
  BY <1>5, Zenon
<1>8. AfterExit(p) \in [Pids -> Entry]
  BY <1>1, <1>2, <1>3, <1>4, <1>5, Zenon
<1>9. /\ AfterExit(p)[p].state # "running"
      /\ proc[p].parent = Agent =>
             AfterExit(p)[p].state = "zombie" /\ AfterExit(p)[p].parent = Agent
  BY <1>1, <1>3, <1>6, Zenon
<1>10. \A q \in Pids \ {p} :
          /\ AfterExit(p)[q].state = proc[q].state
          /\ proc[q].parent = Agent => AfterExit(p)[q].parent = Agent
  BY <1>4, <1>7, Zenon
<1> QED BY <1>8, <1>9, <1>10, Zenon

LEMMA AfterWait ==
    ASSUME Types, NEW p \in Pids
    PROVE  /\ [proc EXCEPT ![p] = Free] \in [Pids -> Entry]
           /\ [proc EXCEPT ![p] = Free][p].state = "free"
           /\ \A q \in Pids \ {p} : [proc EXCEPT ![p] = Free][q] = proc[q]
<1>1. Free \in Entry /\ Free.state = "free"
  BY Zenon DEF Free, Entry
<1> QED BY <1>1, Zenon DEF Types

\* The kernel's steps.
LEMMA ForkInv ==
    ASSUME Inv, NEW p \in Pids, NEW q \in Pids, Fork(p, q)
    PROVE  Inv'
<1>1. /\ proc' = Create(q, p, proc[p].pipe) /\ procs' = procs + 1 /\ Available(q)
      /\ UNCHANGED <<timings, pc, child, exited, managed, reaper, stolen>>
  BY Zenon DEF Fork, handlerVars
<1>2. proc[p].pipe \in Handlers \cup {None} /\ Types
  BY Zenon DEF Inv, Types, Entry
<1>3. Types'
  <2>1. proc' \in [Pids -> Entry]
    BY <1>1, <1>2, AfterCreate, Zenon
  <2>2. procs' \in Nat
    BY <1>1, <1>2 DEF Types
  <2> QED BY <1>1, <1>2, <2>1, <2>2, Zenon DEF Types
<1>4. ASSUME timings = {}
      PROVE  (/\ ChildIsOwn /\ PidsDiffer /\ Registered /\ ReaperIsRight /\ IdleHasNotWaited
              /\ stolen = {})'
  <2>1. proc[q].state = "free" /\ reaper.pid # q /\ \A h \in Handlers : Busy(h) => child[h].pid # q
    BY <1>1, <1>4, Zenon DEF Available, Busy
  <2>2. \A r \in Pids \ {q} : proc'[r] = proc[r]
    BY <1>1, <1>2, AfterCreate
  <2>3. ChildIsOwn'
    BY <1>1, <1>4, <2>1, <2>2, Zenon DEF Inv, ChildIsOwn, Busy
  <2>4. ReaperIsRight'
    BY <1>1, <1>4, <2>1, <2>2, Zenon DEF Inv, ReaperIsRight, Busy
  <2> QED BY <1>1, <1>4, <2>3, <2>4, Zenon DEF Inv, PidsDiffer, Registered, IdleHasNotWaited, Busy
<1> QED BY <1>1, <1>3, <1>4, Zenon DEF Inv

LEMMA ExitInv ==
    ASSUME Inv, NEW p \in Pids, Exit(p)
    PROVE  Inv'
<1>1. /\ proc' = AfterExit(p)
      /\ UNCHANGED <<timings, procs, pc, child, exited, managed, reaper, stolen>>
  BY Zenon DEF Exit, handlerVars
<1>2. Types
  BY Zenon DEF Inv
<1>3. Types'
  BY <1>1, <1>2, AfterAnExit, Zenon DEF Types
<1>4. ASSUME timings = {}
      PROVE  (/\ ChildIsOwn /\ PidsDiffer /\ Registered /\ ReaperIsRight /\ IdleHasNotWaited
              /\ stolen = {})'
  <2>1. \A h \in Handlers : pc[h] = "spawned" => child[h].pid # p
    BY <1>4, Zenon DEF Exit
  <2>2. /\ proc'[p].state # "running"
        /\ proc[p].parent = Agent => proc'[p].state = "zombie" /\ proc'[p].parent = Agent
        /\ \A q \in Pids \ {p} :
               /\ proc'[q].state = proc[q].state
               /\ proc[q].parent = Agent => proc'[q].parent = Agent
    BY <1>1, <1>2, AfterAnExit, Zenon
  <2>5. UNCHANGED <<pc, child, exited, reaper>> /\ ChildIsOwn /\ ReaperIsRight
    BY <1>1, <1>4, Zenon DEF Inv
  <2>3. ChildIsOwn'
    <3> SUFFICES ASSUME NEW h \in Handlers, Busy(h)
                 PROVE  /\ child[h].pid \in Pids
                        /\ pc[h] = "spawned" => proc'[child[h].pid].state = "running" /\ ~exited[h]
                        /\ ~exited[h] => /\ proc'[child[h].pid].state \in {"running", "zombie"}
                                         /\ proc'[child[h].pid].parent = Agent
      BY <2>5, Zenon DEF ChildIsOwn, Busy
    <3>1. CASE child[h].pid = p
      BY <2>5, <2>1, <2>2, <3>1, Zenon DEF ChildIsOwn
    <3>2. CASE child[h].pid # p
      BY <2>5, <2>2, <3>2, Zenon DEF ChildIsOwn
    <3> QED BY <3>1, <3>2, Zenon
  <2>4. ReaperIsRight'
    BY <2>5, <2>2, Zenon DEF ReaperIsRight, Busy
  <2> QED BY <1>1, <1>4, <2>3, <2>4, Zenon DEF Inv, PidsDiffer, Registered, IdleHasNotWaited, Busy
<1> QED BY <1>1, <1>3, <1>4, Zenon DEF Inv

\* A handler that returns gives up its pid and nobody else's, whether it
\* leaves its command alone or kills it.
LEMMA ReturnsInv ==
    ASSUME Inv, NEW h \in Handlers, NEW answer, pc[h] = "waiting", Returns(h, answer),
           proc' = proc \/ (child[h].pid \in Pids /\ proc' = AfterExit(child[h].pid)),
           UNCHANGED <<timings, procs, child, exited, reaper, stolen>>
    PROVE  Inv'
<1>1. /\ pc' = [pc EXCEPT ![h] = "replied"] /\ managed' = managed \ {child[h].pid}
      /\ UNCHANGED <<timings, procs, child, exited, reaper, stolen>>
  BY Zenon DEF Returns
<1>2. Types
  BY Zenon DEF Inv
<1>3. Types'
  <2>1. proc' \in [Pids -> Entry]
    BY <1>2, AfterAnExit DEF Types
  <2>2. pc' \in [Handlers -> {"idle", "spawned", "waiting", "replied"}]
    BY <1>1, <1>2, Zenon DEF Types
  <2>3. \A g \in Handlers : pc'[g] \in {"spawned", "waiting"} => pc'[g] = pc[g]
    BY <1>1, <1>2, Zenon DEF Types
  <2> QED BY <1>1, <1>2, <2>1, <2>2, <2>3, Zenon DEF Types
<1>4. ASSUME timings = {}
      PROVE  (/\ ChildIsOwn /\ PidsDiffer /\ Registered /\ ReaperIsRight /\ IdleHasNotWaited
              /\ stolen = {})'
  <2>1. ChildIsOwn /\ PidsDiffer /\ Registered /\ ReaperIsRight /\ IdleHasNotWaited /\ stolen = {}
    BY <1>4, Zenon DEF Inv
  <2>2. \A q \in Pids :
            /\ proc[q].state # "running" => proc'[q].state # "running"
            /\ q # child[h].pid => /\ proc'[q].state = proc[q].state
                                   /\ proc[q].parent = Agent => proc'[q].parent = Agent
    <3>1. CASE proc' = proc
      BY <3>1, Zenon
    <3>2. CASE child[h].pid \in Pids /\ proc' = AfterExit(child[h].pid)
      BY <1>2, <3>2, AfterAnExit, Zenon
    <3> QED BY <3>1, <3>2, Zenon
  <2>3. \A g \in Handlers :
            /\ pc'[g] = IF g = h THEN "replied" ELSE pc[g]
            /\ Busy(g)' => g # h /\ Busy(g) /\ child[g].pid # child[h].pid
    <3>1. \A g \in Handlers : pc'[g] = IF g = h THEN "replied" ELSE pc[g]
      BY <1>1, <1>2, Zenon DEF Types
    <3>2. \A g \in Handlers : Busy(g)' => g # h /\ Busy(g)
      BY <3>1, Zenon DEF Busy
    <3>3. Busy(h)
      BY Zenon DEF Busy
    <3> QED BY <2>1, <3>1, <3>2, <3>3, Zenon DEF PidsDiffer
  <2>4. ChildIsOwn'
    <3> SUFFICES ASSUME NEW g \in Handlers, Busy(g)'
                 PROVE  /\ child[g].pid \in Pids
                        /\ pc[g] = "spawned" => proc'[child[g].pid].state = "running" /\ ~exited[g]
                        /\ ~exited[g] => /\ proc'[child[g].pid].state \in {"running", "zombie"}
                                         /\ proc'[child[g].pid].parent = Agent
      BY <1>1, <2>3 DEF ChildIsOwn
    <3> QED BY <2>1, <2>2, <2>3, Zenon DEF ChildIsOwn
  <2>5. PidsDiffer'
    BY <1>1, <2>1, <2>3, Zenon DEF PidsDiffer
  <2>6. Registered'
    BY <1>1, <2>1, <2>3, Zenon DEF Registered, Busy
  <2>7. ReaperIsRight'
    BY <1>1, <2>1, <2>2, <2>3, Zenon DEF ReaperIsRight
  <2>8. IdleHasNotWaited'
    BY <1>1, <2>1, <2>3 DEF IdleHasNotWaited
  <2> QED BY <1>1, <2>1, <2>4, <2>5, <2>6, <2>7, <2>8, Zenon
<1> QED BY <1>1, <1>3, <1>4, Zenon DEF Inv

\* A handler takes a pid nobody goes by.
LEMMA SpawnInv ==
    ASSUME Inv, NEW h \in Handlers, NEW p \in Pids, Spawn(h, p)
    PROVE  Inv'
<1> DEFINE c == [pid |-> p, gen |-> procs + 1]
<1>1. /\ pc[h] = "idle" /\ Available(p) /\ proc' = Create(p, Agent, h) /\ procs' = procs + 1
      /\ child' = [child EXCEPT ![h] = c] /\ pc' = [pc EXCEPT ![h] = "spawned"]
      /\ UNCHANGED <<timings, exited, managed, reaper, stolen>>
  BY Zenon DEF Spawn
<1>2. Types
  BY Zenon DEF Inv
<1>3. procs' \in Nat /\ c \in [pid : Pids \cup {None}, gen : Nat] /\ c.pid = p
  <2>1. procs \in Nat
    BY <1>2, Zenon DEF Types
  <2>2. procs + 1 \in Nat
    BY <2>1
  <2> QED BY <1>1, <2>2, Zenon
<1> HIDE DEF c
<1>4. /\ proc' \in [Pids -> Entry]
      /\ proc'[p].state = "running" /\ proc'[p].parent = Agent
      /\ \A q \in Pids \ {p} : proc'[q] = proc[q]
  <2>1. Agent \in Pids \cup {Agent, None} /\ h \in Handlers \cup {None}
    BY Zenon
  <2>2. proc' = Create(p, Agent, h)
    BY <1>1, Zenon
  <2>3. /\ Create(p, Agent, h) \in [Pids -> Entry]
        /\ Create(p, Agent, h)[p].state = "running" /\ Create(p, Agent, h)[p].parent = Agent
        /\ \A q \in Pids \ {p} : Create(p, Agent, h)[q] = proc[q]
    BY <2>1, <1>2, AfterCreate, Zenon
  <2> QED BY <2>2, <2>3, Zenon
<1>5. \A g \in Handlers : /\ pc'[g] = IF g = h THEN "spawned" ELSE pc[g]
                          /\ child'[g] = IF g = h THEN c ELSE child[g]
  BY <1>1, <1>2, Zenon DEF Types
<1>6. Types'
  <2>1. \A g \in Handlers : pc'[g] \in {"spawned", "waiting"} => child'[g].pid \in Pids
    BY <1>2, <1>3, <1>5, Zenon DEF Types
  <2>2. /\ pc' \in [Handlers -> {"idle", "spawned", "waiting", "replied"}]
        /\ child' \in [Handlers -> [pid : Pids \cup {None}, gen : Nat]]
    BY <1>1, <1>2, <1>3, Zenon DEF Types
  <2> QED BY <1>1, <1>2, <1>3, <1>4, <2>1, <2>2, Zenon DEF Types
<1>7. ASSUME timings = {}
      PROVE  (/\ ChildIsOwn /\ PidsDiffer /\ Registered /\ ReaperIsRight /\ IdleHasNotWaited
              /\ stolen = {})'
  <2>1. ChildIsOwn /\ PidsDiffer /\ Registered /\ ReaperIsRight /\ IdleHasNotWaited /\ stolen = {}
    BY <1>7, Zenon DEF Inv
  <2>2. proc[p].state = "free" /\ reaper.pid # p /\ \A g \in Handlers : Busy(g) => child[g].pid # p
    BY <1>1, <1>7, Zenon DEF Available, Busy
  <2>3. \A g \in Handlers : g # h => (Busy(g)' <=> Busy(g)) /\ child'[g] = child[g]
    BY <1>5, Zenon DEF Busy
  <2>4. child'[h].pid = p /\ pc'[h] = "spawned" /\ ~exited[h]
    BY <1>1, <1>3, <1>5, <2>1, Zenon DEF IdleHasNotWaited
  <2>5. ChildIsOwn'
    <3> SUFFICES ASSUME NEW g \in Handlers, Busy(g)'
                 PROVE  (/\ child[g].pid \in Pids
                         /\ pc[g] = "spawned" => proc[child[g].pid].state = "running" /\ ~exited[g]
                         /\ ~exited[g] => /\ proc[child[g].pid].state \in {"running", "zombie"}
                                          /\ proc[child[g].pid].parent = Agent)'
      BY Zenon DEF ChildIsOwn
    <3>1. CASE g = h
      BY <1>1, <1>4, <2>4, <3>1, Zenon
    <3>2. CASE g # h
      BY <1>1, <1>4, <1>5, <2>1, <2>2, <2>3, <3>2 DEF ChildIsOwn
    <3> QED BY <3>1, <3>2, Zenon
  <2>6. PidsDiffer'
    BY <2>1, <2>2, <2>3, <2>4, Zenon DEF PidsDiffer
  <2>7. Registered'
    BY <1>1, <1>5, <2>1 DEF Registered
  <2>8. ReaperIsRight'
    BY <1>1, <1>4, <2>1, <2>2, <2>3, <2>4 DEF ReaperIsRight
  <2>9. IdleHasNotWaited'
    BY <1>1, <1>5, <2>1, Zenon DEF IdleHasNotWaited
  <2> QED BY <1>1, <2>1, <2>5, <2>6, <2>7, <2>8, <2>9, Zenon
<1> QED BY <1>1, <1>6, <1>7, Zenon DEF Inv

\* What a wait for p consumes is nobody else's, if nobody else goes by p.
LEMMA NobodyRobbed ==
    ASSUME NEW p \in Pids, NEW thief,
           \A g \in Handlers \ {thief} : Busy(g) => child[g].pid # p
    PROVE  StolenBy(p, thief) = {}
<1> SUFFICES ASSUME NEW g \in Handlers \ {thief}, Busy(g),
                    child[g] = [pid |-> p, gen |-> proc[p].gen]
             PROVE  FALSE
  BY Zenon DEF StolenBy, Busy
<1> QED OBVIOUS

\* A wait frees the pid of its own handler, which goes on holding it.
LEMMA WaitReturnsInv ==
    ASSUME Inv, NEW h \in Handlers, WaitReturns(h)
    PROVE  Inv'
<1> DEFINE p == child[h].pid
<1>1. /\ pc[h] = "waiting" /\ proc' = [proc EXCEPT ![p] = Free]
      /\ exited' = [exited EXCEPT ![h] = TRUE] /\ stolen' = stolen \cup StolenBy(p, h)
      /\ UNCHANGED <<timings, procs, pc, child, managed, reaper>>
  BY Zenon DEF WaitReturns
<1>2. Types
  BY Zenon DEF Inv
<1>3. Types'
  <2>1. proc' \in [Pids -> Entry]
    <3>1. CASE p \in Pids
      BY <1>1, <1>2, <3>1, AfterWait, Zenon
    <3>2. CASE p \notin Pids
      BY <1>1, <1>2, <3>2, Zenon DEF Types
    <3> QED BY <3>1, <3>2, Zenon
  <2>2. exited' \in [Handlers -> BOOLEAN]
    BY <1>1, <1>2, Zenon DEF Types
  <2> QED BY <1>1, <1>2, <2>1, <2>2, Zenon DEF Types
<1>4. ASSUME timings = {}
      PROVE  (/\ ChildIsOwn /\ PidsDiffer /\ Registered /\ ReaperIsRight /\ IdleHasNotWaited
              /\ stolen = {})'
  <2>1. ChildIsOwn /\ PidsDiffer /\ Registered /\ ReaperIsRight /\ IdleHasNotWaited /\ stolen = {}
    BY <1>4, Zenon DEF Inv
  <2>2. p \in Pids /\ Busy(h)
    BY <1>1, <2>1, Zenon DEF ChildIsOwn, Busy
  <2>3. proc'[p].state = "free" /\ \A q \in Pids \ {p} : proc'[q] = proc[q]
    BY <1>1, <1>2, <2>2, AfterWait, Zenon
  <2>4. \A g \in Handlers \ {h} : Busy(g) => child[g].pid # p
    BY <2>1, <2>2, Zenon DEF PidsDiffer
  <2>5. \A g \in Handlers : exited'[g] = IF g = h THEN TRUE ELSE exited[g]
    BY <1>1, <1>2, Zenon DEF Types
  <2>6. stolen' = {}
    BY <1>1, <2>1, <2>2, <2>4, NobodyRobbed, Zenon
  <2>7. ChildIsOwn'
    <3> SUFFICES ASSUME NEW g \in Handlers, Busy(g)
                 PROVE  /\ child[g].pid \in Pids
                        /\ pc[g] = "spawned" => proc'[child[g].pid].state = "running" /\ ~exited'[g]
                        /\ ~exited'[g] => /\ proc'[child[g].pid].state \in {"running", "zombie"}
                                          /\ proc'[child[g].pid].parent = Agent
      BY <1>1, Zenon DEF ChildIsOwn, Busy
    <3>1. CASE g = h
      BY <1>1, <2>2, <2>5, <3>1, Zenon
    <3>2. CASE g # h
      BY <2>1, <2>3, <2>4, <2>5, <3>2, Zenon DEF ChildIsOwn
    <3> QED BY <3>1, <3>2, Zenon
  <2>8. ReaperIsRight'
    BY <1>1, <2>1, <2>3, Zenon DEF ReaperIsRight, Busy
  <2>9. IdleHasNotWaited'
    BY <1>1, <2>1, <2>5, Zenon DEF IdleHasNotWaited
  <2> QED BY <1>1, <2>1, <2>6, <2>7, <2>8, <2>9, Zenon DEF PidsDiffer, Registered, Busy
<1> QED BY <1>1, <1>3, <1>4, Zenon DEF Inv

\* The reaper looks at what has ended, passes over what is registered, and a
\* child that is not registered is still running.
LEMMA ReaperInv ==
    ASSUME Inv, (\E p \in Pids : ReaperPeek(p)) \/ ReaperCheck \/ ReaperReap
    PROVE  Inv'
<1>1. Types /\ UNCHANGED <<timings, procs, pc, child, exited, managed>>
  BY Zenon DEF Inv, ReaperPeek, ReaperCheck, ReaperReap, handlerVars
<1>2. ASSUME NEW p \in Pids, ReaperPeek(p) PROVE Inv'
  <2>1. /\ reaper' = [at |-> "check", pid |-> p] /\ proc[p].state = "zombie"
        /\ UNCHANGED <<proc, stolen>>
    BY <1>2, Zenon DEF ReaperPeek
  <2>2. Types'
    BY <1>1, <2>1, Zenon DEF Types
  <2>3. timings = {} => ReaperIsRight'
    BY <1>1, <2>1, Zenon DEF ReaperIsRight
  <2> QED BY <1>1, <2>1, <2>2, <2>3, Zenon
          DEF Inv, ChildIsOwn, PidsDiffer, Registered, IdleHasNotWaited, Busy
<1>3. ASSUME ReaperCheck PROVE Inv'
  <2>1. /\ reaper.at = "check" /\ UNCHANGED <<proc, stolen>>
        /\ reaper' = IF reaper.pid \in managed THEN Asleep ELSE [reaper EXCEPT !.at = "reap"]
    BY <1>3, Zenon DEF ReaperCheck
  <2>2. reaper \in [at : {"sleep", "check", "reap"}, pid : Pids \cup {None}]
    BY <1>1, Zenon DEF Types
  <2>3. /\ reaper' \in [at : {"sleep", "check", "reap"}, pid : Pids \cup {None}]
        /\ reaper'.at # "sleep" => reaper'.pid = reaper.pid /\ reaper.pid \notin managed
    BY <2>1, <2>2, Zenon DEF Asleep
  <2>4. Types'
    BY <1>1, <2>1, <2>3, Zenon DEF Types
  <2>5. ASSUME timings = {} PROVE ReaperIsRight'
    <3>1. ChildIsOwn /\ Registered /\ ReaperIsRight
      BY <2>5, Zenon DEF Inv
    <3>2. reaper.pid \in Pids /\ proc[reaper.pid].state # "running"
      BY <2>1, <3>1, Zenon DEF ReaperIsRight
    <3>3. ASSUME reaper.pid \notin managed, NEW h \in Handlers, Busy(h) PROVE child[h].pid # reaper.pid
      BY <3>1, <3>2, <3>3, Zenon DEF ChildIsOwn, Registered, Busy
    <3>4. \A h \in Handlers : Busy(h)' <=> Busy(h)
      BY <1>1, Zenon DEF Busy
    <3> QED BY <1>1, <2>1, <2>3, <3>2, <3>3, <3>4, Zenon DEF ReaperIsRight
  <2> QED BY <1>1, <2>1, <2>4, <2>5, Zenon
          DEF Inv, ChildIsOwn, PidsDiffer, Registered, IdleHasNotWaited, Busy
<1>4. ASSUME ReaperReap PROVE Inv'
  <2> DEFINE p == reaper.pid
  <2>1. /\ reaper.at = "reap" /\ reaper' = Asleep
        /\ \/ proc' = [proc EXCEPT ![p] = Free] /\ stolen' = stolen \cup StolenBy(p, None)
           \/ UNCHANGED <<proc, stolen>>
    BY <1>4, Zenon DEF ReaperReap
  <2>2. Types'
    <3>1. proc' \in [Pids -> Entry]
      <4>1. CASE p \in Pids
        BY <1>1, <2>1, <4>1, AfterWait DEF Types
      <4>2. CASE p \notin Pids
        BY <1>1, <2>1, <4>2, Zenon DEF Types
      <4> QED BY <4>1, <4>2, Zenon
    <3> QED BY <1>1, <2>1, <3>1, Zenon DEF Types, Asleep
  <2>3. ASSUME timings = {}
        PROVE  (/\ ChildIsOwn /\ PidsDiffer /\ Registered /\ ReaperIsRight /\ IdleHasNotWaited
                /\ stolen = {})'
    <3>1. ChildIsOwn /\ PidsDiffer /\ Registered /\ ReaperIsRight /\ IdleHasNotWaited /\ stolen = {}
      BY <2>3, Zenon DEF Inv
    <3>2. p \in Pids /\ \A h \in Handlers : Busy(h) => child[h].pid # p
      BY <2>1, <3>1, Zenon DEF ReaperIsRight
    <3>3. \A q \in Pids \ {p} : proc'[q] = proc[q]
      BY <1>1, <2>1, <3>2, AfterWait, Zenon
    <3>4. stolen' = {}
      BY <2>1, <3>1, <3>2, NobodyRobbed, Zenon
    <3>5. ReaperIsRight'
      BY <2>1, Zenon DEF ReaperIsRight, Asleep
    <3>6. ChildIsOwn'
      BY <1>1, <3>1, <3>2, <3>3, Zenon DEF ChildIsOwn, Busy
    <3> QED BY <1>1, <3>1, <3>4, <3>5, <3>6, Zenon DEF PidsDiffer, Registered, IdleHasNotWaited, Busy
  <2> QED BY <1>1, <2>2, <2>3, Zenon DEF Inv
<1> QED BY <1>2, <1>3, <1>4, Zenon

\* A call that is refused, and the registration of a pid.
LEMMA RefuseRegisterInv ==
    ASSUME Inv, NEW h \in Handlers, Refuse(h) \/ Register(h)
    PROVE  Inv'
<1>1. Types /\ UNCHANGED <<timings, proc, procs, child, exited, reaper, stolen>>
  BY Zenon DEF Inv, Refuse, Register
<1>2. \/ pc[h] = "idle" /\ pc' = [pc EXCEPT ![h] = "replied"] /\ UNCHANGED managed
      \/ /\ pc[h] = "spawned" /\ pc' = [pc EXCEPT ![h] = "waiting"]
         /\ managed' = managed \cup {child[h].pid}
  BY Zenon DEF Refuse, Register
<1>3. Types'
  BY <1>1, <1>2, Zenon DEF Types
<1>4. ASSUME timings = {}
      PROVE  (/\ ChildIsOwn /\ PidsDiffer /\ Registered /\ ReaperIsRight /\ IdleHasNotWaited
              /\ stolen = {})'
  <2>1. ChildIsOwn /\ PidsDiffer /\ Registered /\ ReaperIsRight /\ IdleHasNotWaited /\ stolen = {}
    BY <1>4, Zenon DEF Inv
  <2>2. \A g \in Handlers : (Busy(g)' => Busy(g)) /\ (pc'[g] \in {"idle", "spawned"} => pc'[g] = pc[g])
    BY <1>1, <1>2, Zenon DEF Types, Busy
  <2>3. Registered'
    BY <1>1, <1>2, <2>1, Zenon DEF Registered, Types
  <2>4. ChildIsOwn' /\ PidsDiffer' /\ ReaperIsRight' /\ IdleHasNotWaited'
    BY <1>1, <2>1, <2>2, Zenon DEF ChildIsOwn, PidsDiffer, ReaperIsRight, IdleHasNotWaited
  <2> QED BY <1>1, <2>1, <2>3, <2>4, Zenon
<1> QED BY <1>1, <1>3, <1>4, Zenon DEF Inv

\* Every step keeps the invariant.
LEMMA NextInv == Inv /\ [Next]_vars => Inv'
<1> SUFFICES ASSUME Inv, [Next]_vars PROVE Inv'
  BY Zenon
<1>1. CASE UNCHANGED vars
  BY <1>1, Zenon DEF vars, Inv, Types, ChildIsOwn, PidsDiffer, Registered, ReaperIsRight,
              IdleHasNotWaited, Busy
<1>2. ASSUME NEW h \in Handlers, Collect(h) \/ WaitFails(h) \/ Cancel(h) PROVE Inv'
  <2>1. PICK answer : Returns(h, answer)
    BY <1>2, Zenon DEF Collect, WaitFails, Cancel
  <2>2. pc[h] = "waiting" /\ proc' = proc /\ UNCHANGED <<timings, procs, child, exited, reaper, stolen>>
    BY <1>2, Zenon DEF Collect, WaitFails, Cancel
  <2> QED BY <2>1, <2>2, ReturnsInv, Zenon
<1>3. ASSUME NEW h \in Handlers, Timeout(h) PROVE Inv'
  <2>1. Returns(h, "deadline") /\ pc[h] = "waiting"
        /\ UNCHANGED <<timings, procs, child, exited, reaper, stolen>>
    BY <1>3, Zenon DEF Timeout
  <2>2. proc' = proc \/ proc' = AfterExit(child[h].pid)
    BY <1>3, Zenon DEF Timeout
  <2>3. child[h].pid \in Pids
    BY <2>1, Zenon DEF Inv, Types
  <2> QED BY <2>1, <2>2, <2>3, ReturnsInv, Zenon
<1> QED BY <1>1, <1>2, <1>3, ForkInv, ExitInv, SpawnInv, WaitReturnsInv, ReaperInv, RefuseRegisterInv, Zenon
        DEF Next, HandlerStep, Exhausted

\* No handler's exit status is ever consumed by the reaper or by another
\* handler (run_command_request, ManagedPidGuard, the reaper), in a guest
\* in which a command does not exit before its pid is registered and no pid
\* is reused while someone goes by it.
THEOREM StatusIsNeverStolen == Spec => []ManagedStatusNotStolen
<1>1. Inv => ManagedStatusNotStolen
  BY Zenon DEF Inv, ManagedStatusNotStolen
<1> QED BY <1>1, InitInv, NextInv, PTL DEF Spec

(***************************************************************************)
(* NetPolicy.                                                              *)
(***************************************************************************)

(***************************************************************************)
(* Arithmetic.                                                             *)
(***************************************************************************)

\* The least-number principle, for a set.
LEMMA Least ==
  ASSUME NEW S \in SUBSET Nat, S # {}
  PROVE  \E k \in S : \A j \in S : k <= j
<1> DEFINE R == OpToRel(<, Nat)
<1>1. IsWellFoundedOn(R, Nat)
  BY NatLessThanWellFounded, Zenon
<1>2. R = {pair \in Nat \X Nat : pair[1] < pair[2]}
  BY Zenon DEF OpToRel
<1> HIDE DEF R
<1>3. PICK k \in S : \A j \in S : ~(<<j, k>> \in R)
  BY <1>1, WFMin, Zenon
<1>4. \A j \in S : ~(j < k)
  BY <1>2, <1>3, Zenon
<1> QED BY <1>4

\* Numbers are ordered by quotient, then by remainder.
LEMMA QuotientOrder ==
  ASSUME NEW b \in Nat \ {0}, NEW x \in Nat, NEW y \in Nat
  PROVE  (x \div b < y \div b \/ (x \div b = y \div b /\ x % b < y % b)) <=> x < y
<1> DEFINE q == x \div b
           r == x % b
           s == y \div b
           t == y % b
<1>1. x = b * q + r /\ q \in Nat /\ r \in 0..(b - 1)
  OBVIOUS
<1>2. y = b * s + t /\ s \in Nat /\ t \in 0..(b - 1)
  OBVIOUS
<1> HIDE DEF q, r, s, t
<1>3. CASE q < s
  <2>1. b * (q + 1) <= b * s
    BY <1>1, <1>2, <1>3
  <2>2. b * (q + 1) = b * q + b
    BY <1>1
  <2> QED BY <1>1, <1>2, <1>3, <2>1, <2>2 DEF q, r, s, t
<1>4. CASE s < q
  <2>1. b * (s + 1) <= b * q
    BY <1>1, <1>2, <1>4
  <2>2. b * (s + 1) = b * s + b
    BY <1>2
  <2>3. ~(x < y) /\ ~(q < s) /\ ~(q = s)
    BY <1>1, <1>2, <1>4, <2>1, <2>2
  <2> QED BY <2>3, Zenon DEF q, r, s, t
<1>5. CASE s = q
  <2>1. x < y <=> r < t
    BY <1>1, <1>2, <1>5
  <2>2. ~(q < s)
    BY <1>1, <1>2, <1>5
  <2> QED BY <1>5, <2>1, <2>2, Zenon DEF q, r, s, t
<1> QED BY <1>1, <1>2, <1>3, <1>4, <1>5

(***************************************************************************)
(* Addresses.                                                              *)
(***************************************************************************)

\* Bit i of an address is under a mask of whole bytes and the bits that remain
\* exactly when it is one of the first p.
LEMMA UnderTheMask ==
  ASSUME NEW i \in Nat \ {0}, NEW p \in Nat
  PROVE  (Byte(i) < p \div ByteBits \/ (Byte(i) = p \div ByteBits /\ Pos(i) < p % ByteBits)) <=> i <= p
<1>1. i - 1 \in Nat /\ (i - 1 < p <=> i <= p) /\ ByteBits \in Nat \ {0}
  BY NetPolicyAssumption
<1> QED BY <1>1, QuotientOrder, Zenon DEF Byte, Pos

Agree(a, b, p) == \A i \in 1..p : a[i] = b[i]

\* cidr_match_v4 and cidr_match_v6 compare the first p bits.
LEMMA V4ComparesPrefix ==
  ASSUME NEW a \in Bits("v4"), NEW b \in Bits("v4"), NEW p \in 0..Width["v4"]
  PROVE  CidrMatchV4(a, p, b) <=> Agree(a, b, p)
<1>1. Width["v4"] \in Nat
  BY NetPolicyAssumption, Zenon DEF Families
<1>2. CASE p = 0
  BY <1>2 DEF CidrMatchV4, Agree
<1>3. CASE p = Width["v4"]
  BY <1>1, <1>3 DEF CidrMatchV4, Agree, Bits
<1>4. CASE 0 < p /\ p < Width["v4"]
  <2>1. MaskV4(a, p) = MaskV4(b, p) <=> \A i \in 1..Width["v4"] : MaskV4(a, p)[i] = MaskV4(b, p)[i]
    BY Zenon DEF MaskV4
  <2>2. \A i \in 1..Width["v4"] : MaskV4(a, p)[i] = MaskV4(b, p)[i] <=> (i <= p => a[i] = b[i])
    BY Zenon DEF MaskV4
  <2>3. (\A i \in 1..Width["v4"] : i <= p => a[i] = b[i]) <=> Agree(a, b, p)
    BY <1>1, <1>4 DEF Agree
  <2>4. CidrMatchV4(a, p, b) <=> MaskV4(a, p) = MaskV4(b, p)
    BY <1>1, <1>4 DEF CidrMatchV4
  <2> QED BY <2>1, <2>2, <2>3, <2>4, Zenon
<1> QED BY <1>1, <1>2, <1>3, <1>4

LEMMA V6ComparesPrefix ==
  ASSUME NEW a \in Bits("v6"), NEW b \in Bits("v6"), NEW p \in 0..Width["v6"]
  PROVE  CidrMatchV6(a, p, b) <=> Agree(a, b, p)
<1>1. Width["v6"] \in Nat /\ ByteBits \in Nat \ {0}
  BY NetPolicyAssumption, Zenon DEF Families
<1>2. CASE p = 0
  BY <1>2 DEF CidrMatchV6, Agree
<1>3. CASE p = Width["v6"]
  BY <1>1, <1>3 DEF CidrMatchV6, Agree, Bits
<1>4. CASE 0 < p /\ p < Width["v6"]
  <2> DEFINE whole == p \div ByteBits
             rest == p % ByteBits
  <2>1. \A i \in 1..Width["v6"] :
           (Byte(i) < whole \/ (Byte(i) = whole /\ Pos(i) < rest)) <=> i <= p
    <3>1. \A w \in Nat : (\A i \in 1..w : i \in Nat \ {0}) /\ (\A q \in 0..w : q \in Nat)
      BY ONLY TRUE
    <3> QED BY <1>1, <3>1, UnderTheMask, Zenon
  <2>2. rest \in Nat /\ \A i \in 1..Width["v6"] : Pos(i) \in Nat
    BY <1>1 DEF Pos
  <2>3. CidrMatchV6(a, p, b) <=>
           /\ \A i \in 1..Width["v6"] : Byte(i) < whole => a[i] = b[i]
           /\ rest > 0 => \A i \in 1..Width["v6"] : Byte(i) = whole /\ Pos(i) < rest => a[i] = b[i]
    BY <1>1, <1>4 DEF CidrMatchV6
  <2> HIDE DEF whole, rest
  <2>4. ~(rest > 0) => \A i \in 1..Width["v6"] : ~(Pos(i) < rest)
    BY <2>2
  <2>5. CidrMatchV6(a, p, b) <=> \A i \in 1..Width["v6"] : i <= p => a[i] = b[i]
    BY <2>1, <2>3, <2>4, Zenon
  <2>6. (\A i \in 1..Width["v6"] : i <= p => a[i] = b[i]) <=> Agree(a, b, p)
    BY <1>1, <1>4 DEF Agree
  <2> QED BY <2>5, <2>6, Zenon
<1> QED BY <1>1, <1>2, <1>3, <1>4

(***************************************************************************)
(* Rules and keys.                                                         *)
(***************************************************************************)

AllRules == Rules \cup {CatchAll(f) : f \in Families}

RuleOk(r) ==
    /\ r.family \in Families => r.net \in Bits(r.family)
    /\ r.family \in Families \cup {Unset}
    /\ r.prefix \in Nat \cup {Absent, Bad}

LEMMA RulesAreOk == \A r \in AllRules : RuleOk(r)
<1>1. \A r \in Rules : RuleOk(r)
  BY NetPolicyAssumption, Zenon DEF RuleOk
<1>2. \A f \in Families : RuleOk(CatchAll(f))
  BY Zenon DEF RuleOk, CatchAll, Bits
<1> QED BY <1>1, <1>2, Zenon DEF AllRules

\* The key the tracer makes of a rule, looked up in the trie, and cidr_match of
\* the rule: the masked bits of the key are the first of the address.
LEMMA KeyIsRule ==
  ASSUME NEW r, RuleOk(r), NEW d, d.addr \in Bits(d.family), r.family = d.family, d.family \in Families,
         IsKey(r), KeyOf(r).prefix <= Width[r.family]
  PROVE  (\A i \in 1..KeyOf(r).prefix : KeyOf(r).data[i] = d.addr[i]) <=> CidrMatch(r, d)
<1> DEFINE p == PrefixOf(r)
<1>1. p \in 0..Width[r.family] /\ Width[r.family] \in Nat /\ KeyOf(r).prefix = p
  BY NetPolicyAssumption DEF RuleOk, IsKey, PrefixOf, KeyOf
<1>2. (IF r.prefix \in {Absent, Bad} THEN Width[r.family] ELSE r.prefix) = p
  BY Zenon DEF IsKey, PrefixOf
<1>3. r.family # Unset /\ r.net \in Bits(r.family)
  BY NetPolicyAssumption, Zenon DEF RuleOk
<1> HIDE DEF p
<1>4. CASE r.family = "v4"
  <2>1. CidrMatch(r, d) <=> CidrMatchV4(r.net, p, d.addr)
    BY <1>2, <1>3, <1>4, Zenon DEF CidrMatch
  <2>2. CidrMatchV4(r.net, p, d.addr) <=> Agree(r.net, d.addr, p)
    BY <1>1, <1>3, <1>4, V4ComparesPrefix, Zenon
  <2>3. KeyOf(r).data = MaskV4(r.net, p)
    BY <1>4, Zenon DEF KeyOf, p
  <2>4. \A i \in 1..p : KeyOf(r).data[i] = r.net[i]
    BY <1>1, <1>4, <2>3 DEF MaskV4
  <2> QED BY <1>1, <2>1, <2>2, <2>4, Zenon DEF Agree
<1>5. CASE r.family = "v6"
  <2>1. CidrMatch(r, d) <=> CidrMatchV6(r.net, p, d.addr)
    BY <1>2, <1>3, <1>5, Zenon DEF CidrMatch
  <2>2. CidrMatchV6(r.net, p, d.addr) <=> Agree(r.net, d.addr, p)
    BY <1>1, <1>3, <1>5, V6ComparesPrefix, Zenon
  <2>3. KeyOf(r).data = MaskV6(r.net, p)
    BY <1>5, Zenon DEF KeyOf, p
  <2>4. \A i \in 1..p : KeyOf(r).data[i] = r.net[i]
    <3> TAKE i \in 1..p
    <3>1. i \in Nat \ {0} /\ i <= p /\ p \in Nat /\ i \in 1..Width["v6"]
      BY <1>1, <1>5
    <3>2. Byte(i) < p \div ByteBits \/ (Byte(i) = p \div ByteBits /\ Pos(i) < p % ByteBits)
      BY <3>1, UnderTheMask, Zenon
    <3> QED BY <2>3, <3>1, <3>2, Zenon DEF MaskV6
  <2> QED BY <1>1, <2>1, <2>2, <2>4, Zenon DEF Agree
<1> QED BY <1>4, <1>5, Zenon DEF Families

\* Some rule of rs for the trie of this action matches d.
Applies(rs, action, d) ==
    \E k \in 1..Len(rs) :
        rs[k].port = Unset /\ IsKey(rs[k]) /\ rs[k].action = action /\ CidrMatch(rs[k], d)

\* A lookup in a trie that has taken all of its keys finds what cidr_match does.
LEMMA TrieIsRules ==
  ASSUME Policy \in Seq(AllRules), NEW d \in Dests, NEW action,
         CanHold(d.family, KeysOf(d.family, action))
  PROVE  Hit(KeysOf(d.family, action), d) <=> Applies(Policy, action, d)
<1>1. d.family \in Families /\ d.addr \in Bits(d.family)
  BY NetPolicyAssumption, Zenon
<1>2. \A k \in 1..Len(Policy) : RuleOk(Policy[k])
  BY RulesAreOk
<1>3. ASSUME NEW k \in 1..Len(Policy), InTrie(Policy[k], d.family, action)
      PROVE  (\A i \in 1..KeyOf(Policy[k]).prefix : KeyOf(Policy[k]).data[i] = d.addr[i])
                 <=> CidrMatch(Policy[k], d)
  <2>1. KeyOf(Policy[k]).prefix <= Width[d.family]
    BY <1>3, Zenon DEF CanHold, KeysOf
  <2>2. RuleOk(Policy[k]) /\ Policy[k].family = d.family /\ IsKey(Policy[k])
    BY <1>2, <1>3, Zenon DEF InTrie
  <2> QED BY <1>1, <2>1, <2>2, KeyIsRule, Zenon
<1>4. Hit(KeysOf(d.family, action), d) <=>
        \E k \in 1..Len(Policy) :
            /\ InTrie(Policy[k], d.family, action)
            /\ \A i \in 1..KeyOf(Policy[k]).prefix : KeyOf(Policy[k]).data[i] = d.addr[i]
  BY Zenon DEF Hit, KeysOf
<1>5. \A k \in 1..Len(Policy) : CidrMatch(Policy[k], d) => Policy[k].family = d.family
  BY Zenon DEF CidrMatch
<1> QED BY <1>3, <1>4, <1>5, Zenon DEF Applies, InTrie

(***************************************************************************)
(* The agent.                                                              *)
(***************************************************************************)

\* A stage at which the tries have been filled as far as these.
AfterDenyV4  == {"allow v4", "deny v6", "allow v6", "attach", "serving"}
AfterAllowV4 == AfterDenyV4 \ {"allow v4"}
AfterDenyV6  == AfterAllowV4 \ {"deny v6"}
AfterAllowV6 == AfterDenyV6 \ {"allow v6"}

Complete(map, f, action) == map[f] = KeysOf(f, action) /\ CanHold(f, KeysOf(f, action))

TriesFilled ==
    /\ stage \in AfterDenyV4  => Complete(denied, "v4", "deny")
    /\ stage \in AfterAllowV4 => Complete(allowed, "v4", "allow")
    /\ stage \in AfterDenyV6  => Complete(denied, "v6", "deny")
    /\ stage \in AfterAllowV6 => Complete(allowed, "v6", "allow")

Started == stage = "serving" => attached = {"connect", "sendmsg"}

CatchAllsIn ==
    network = "deny" /\ stage # "writing" =>
        \A f \in Families : \E k \in 1..Len(rules) : rules[k] = CatchAll(f)

\* What the hooks decided for a command they would still decide.
LastStands ==
    Judged => /\ stage = "serving" /\ last.dest \in Dests /\ last.hook \in {"connect", "sendmsg"}
              /\ last.blocked = Blocks(last.hook, last.isInit, last.dest)

NetInv ==
    /\ rules \in Seq(AllRules)
    /\ DOMAIN denied = Families /\ DOMAIN allowed = Families
    /\ TriesFilled /\ Started /\ CatchAllsIn /\ LastStands

LEMMA PolicyKeeps ==
  ASSUME UNCHANGED <<readable, rules>>
  PROVE  /\ Policy' = Policy
         /\ \A f, action : KeysOf(f, action)' = KeysOf(f, action)
BY Zenon DEF Policy, KeysOf

\* One trie is filled, or the agent does not start.
LEMMA FillKeeps ==
  ASSUME NetInv, PopulatePolicyMaps
  PROVE  NetInv'
<1>1. UNCHANGED <<network, readable, rules, last>> /\ stage # "serving" /\ stage # "writing"
  BY Zenon DEF PopulatePolicyMaps, FillDenied, FillAllowed, StartFails
<1>2. /\ Policy' = Policy
      /\ \A f \in Families : KeysOf(f, "deny")' = KeysOf(f, "deny") /\ KeysOf(f, "allow")' = KeysOf(f, "allow")
  BY <1>1, PolicyKeeps, Zenon
<1>3. DOMAIN denied' = Families /\ DOMAIN allowed' = Families /\ stage' # "serving"
  BY Zenon DEF NetInv, PopulatePolicyMaps, FillDenied, FillAllowed, StartFails
<1>4. TriesFilled'
  <2> USE DEF NetInv, TriesFilled, Complete, AfterDenyV4, AfterAllowV4, AfterDenyV6, AfterAllowV6, Families
  <2>1. CASE stage' = "dead"
    BY <2>1, Zenon
  <2>2. CASE FillDenied("v4", "deny v4", "allow v4") /\ stage' # "dead"
    BY <1>2, <2>2, Zenon DEF FillDenied, StartFails
  <2>3. CASE FillAllowed("v4", "allow v4", "deny v6") /\ stage' # "dead"
    BY <1>2, <2>3, Zenon DEF FillAllowed, StartFails
  <2>4. CASE FillDenied("v6", "deny v6", "allow v6") /\ stage' # "dead"
    BY <1>2, <2>4, Zenon DEF FillDenied, StartFails
  <2>5. CASE FillAllowed("v6", "allow v6", "attach") /\ stage' # "dead"
    BY <1>2, <2>5, Zenon DEF FillAllowed, StartFails
  <2> QED BY <2>1, <2>2, <2>3, <2>4, <2>5, Zenon DEF PopulatePolicyMaps
<1>5. Started' /\ CatchAllsIn' /\ LastStands'
  BY <1>1, <1>3, Zenon DEF NetInv, Started, CatchAllsIn, LastStands, Judged
<1> QED BY <1>1, <1>3, <1>4, <1>5, Zenon DEF NetInv

\* The policy file is written before the agent starts.
LEMMA FileKeeps ==
  ASSUME NetInv, Boot \/ \E r \in Rules : AddRule(r)
  PROVE  NetInv'
<1>1. /\ UNCHANGED <<network, denied, allowed, attached, last>>
      /\ stage = "writing" /\ stage' \in {"writing", "deny v4"}
  BY Zenon DEF Boot, AddRule
<1>2. rules' \in Seq(AllRules) /\ (stage' # "writing" => CatchAllsIn')
  <2>1. CatchAll("v4") \in AllRules /\ CatchAll("v6") \in AllRules
    BY Zenon DEF AllRules, Families
  <2>2. ASSUME NEW r \in Rules, AddRule(r)
        PROVE  rules' \in Seq(AllRules) /\ stage' = "writing"
    BY <2>2 DEF AddRule, NetInv, AllRules
  <2>3. CASE Boot /\ network # "deny"
    BY <1>1, <2>3, Zenon DEF Boot, NetInv, CatchAllsIn
  <2>4. CASE Boot /\ network = "deny"
    <3> DEFINE a == CatchAll("v4")
               b == CatchAll("v6")
    <3>1. rules' = rules \o <<a, b>>
      BY <2>4, Zenon DEF Boot
    <3> HIDE DEF a, b
    <3>2. /\ rules' \in Seq(AllRules) /\ Len(rules') = Len(rules) + 2
          /\ rules'[Len(rules) + 1] = a /\ rules'[Len(rules) + 2] = b
      BY <2>1, <3>1 DEF NetInv, a, b
    <3>3. Len(rules) \in Nat
      BY DEF NetInv
    <3>4. \E k \in 1..Len(rules') : rules'[k] = a
      BY <3>2, <3>3
    <3>5. \E k \in 1..Len(rules') : rules'[k] = b
      BY <3>2, <3>3
    <3> QED BY <3>2, <3>4, <3>5, Zenon DEF CatchAllsIn, Families, a, b
  <2> QED BY <2>2, <2>3, <2>4, Zenon
<1>3. TriesFilled' /\ Started' /\ LastStands'
  BY <1>1, Zenon DEF NetInv, TriesFilled, Started, LastStands, Judged, AfterDenyV4, AfterAllowV4, AfterDenyV6,
             AfterAllowV6
<1>4. stage' = "writing" => CatchAllsIn'
  BY Zenon DEF CatchAllsIn
<1> QED BY <1>1, <1>2, <1>3, <1>4, Zenon DEF NetInv

LEMMA NextNet == NetInv /\ [NetNext]_netVars => NetInv'
<1> SUFFICES ASSUME NetInv, [NetNext]_netVars PROVE NetInv'
  BY Zenon
<1>1. ASSUME UNCHANGED <<network, readable, rules, denied, allowed>>,
             \/ stage' = stage
             \/ stage # "writing" /\ stage' = "dead"
             \/ stage = "attach" /\ stage' = "serving"
      PROVE  TriesFilled' /\ CatchAllsIn' /\ rules' \in Seq(AllRules)
             /\ DOMAIN denied' = Families /\ DOMAIN allowed' = Families
  <2>1. \A f \in Families : KeysOf(f, "deny")' = KeysOf(f, "deny") /\ KeysOf(f, "allow")' = KeysOf(f, "allow")
    BY <1>1, PolicyKeeps, Zenon
  <2>2. TriesFilled'
    BY <1>1, <2>1, Zenon DEF NetInv, TriesFilled, Complete, AfterDenyV4, AfterAllowV4, AfterDenyV6, AfterAllowV6,
                      Families
  <2> QED BY <1>1, <2>2, Zenon DEF NetInv, CatchAllsIn
<1>2. CASE Boot \/ \E r \in Rules : AddRule(r)
  BY <1>2, FileKeeps, Zenon
<1>3. CASE PopulatePolicyMaps
  BY <1>3, FillKeeps, Zenon
<1>4. CASE AttachHook \/ Serve
  <2>1. /\ UNCHANGED <<network, readable, rules, denied, allowed, last>> /\ stage = "attach"
        /\ stage' \in {"attach", "dead", "serving"}
        /\ stage' = "serving" => attached' = {"connect", "sendmsg"}
    BY <1>4, Zenon DEF AttachHook, Serve, StartFails
  <2>2. Started' /\ LastStands'
    BY <2>1, Zenon DEF NetInv, Started, LastStands, Judged
  <2> QED BY <1>1, <2>1, <2>2, Zenon DEF NetInv
<1>5. ASSUME NEW hook \in {"connect", "sendmsg"}, NEW isInit \in BOOLEAN, NEW d \in Dests,
             NEW port \in Ports, Attempt(hook, isInit, d, port)
      PROVE  NetInv'
  <2>1. UNCHANGED <<network, readable, rules, stage, denied, allowed, attached>>
    BY <1>5, Zenon DEF Attempt
  <2>2. /\ last'.hook = hook /\ last'.dest = d /\ last'.isInit = isInit
        /\ last'.commands <=> stage = "serving"
        /\ last'.blocked = Blocks(hook, isInit, d)
    BY <1>5, Zenon DEF Attempt
  <2>3. Blocks(hook, isInit, d)' = Blocks(hook, isInit, d)
    BY <2>1, Zenon DEF Blocks
  <2>4. LastStands'
    BY <2>1, <2>2, <2>3, Zenon DEF LastStands, Judged
  <2>5. Started'
    BY <2>1, Zenon DEF NetInv, Started
  <2> QED BY <1>1, <2>1, <2>4, <2>5, Zenon DEF NetInv
<1>6. CASE Dead \/ UNCHANGED netVars
  <2>1. UNCHANGED <<network, readable, rules, stage, denied, allowed, attached, last>>
    BY <1>6, Zenon DEF Dead, netVars
  <2>2. Started' /\ LastStands'
    BY <2>1, Zenon DEF NetInv, Started, LastStands, Judged, Blocks
  <2> QED BY <1>1, <2>1, <2>2, Zenon DEF NetInv
<1> QED BY <1>2, <1>3, <1>4, <1>5, <1>6, Zenon DEF NetNext

LEMMA NetStart == NetInit => NetInv
<1> SUFFICES ASSUME NetInit PROVE NetInv
  BY Zenon
<1>1. rules = <<>> /\ stage = "writing" /\ last = NoAttempt
      /\ DOMAIN denied = Families /\ DOMAIN allowed = Families
  BY Zenon DEF NetInit
<1> QED BY <1>1 DEF NetInv, TriesFilled, Started, CatchAllsIn, LastStands, Judged, AfterDenyV4, AfterAllowV4,
            AfterDenyV6, AfterAllowV6

LEMMA PolicyType == NetInv => Policy \in Seq(AllRules)
BY DEF NetInv, Policy

\* A command is blocked when a deny rule applies and no allow rule does.
LEMMA Verdict ==
  ASSUME NetInv, Judged
  PROVE  /\ last.dest \in Dests
         /\ last.blocked <=> Applies(Policy, "deny", last.dest) /\ ~Applies(Policy, "allow", last.dest)
<1> DEFINE d == last.dest
<1>1. /\ stage = "serving" /\ d \in Dests /\ last.hook \in {"connect", "sendmsg"}
      /\ last.blocked = Blocks(last.hook, last.isInit, d) /\ ~last.isInit
  BY Zenon DEF NetInv, LastStands, Judged
<1>2. attached = {"connect", "sendmsg"} /\ d.family \in Families
  BY <1>1, NetPolicyAssumption, Zenon DEF NetInv, Started
<1>3. last.blocked <=> ~Hit(allowed[d.family], d) /\ Hit(denied[d.family], d)
  BY <1>1, <1>2, Zenon DEF Blocks
<1>4. Complete(denied, d.family, "deny") /\ Complete(allowed, d.family, "allow")
  BY <1>1, <1>2, Zenon DEF NetInv, TriesFilled, AfterDenyV4, AfterAllowV4, AfterDenyV6, AfterAllowV6, Families
<1> HIDE DEF d
<1>5. Hit(denied[d.family], d) <=> Applies(Policy, "deny", d)
  BY <1>1, <1>4, PolicyType, TrieIsRules, Zenon DEF Complete
<1>6. Hit(allowed[d.family], d) <=> Applies(Policy, "allow", d)
  BY <1>1, <1>4, PolicyType, TrieIsRules, Zenon DEF Complete
<1> QED BY <1>1, <1>3, <1>5, <1>6, Zenon DEF d

\* The tries that populate_policy_maps fills from the rules, and the two hooks
\* that look into them, block what cidr_match and the rules block: the masks of
\* the keys, of v4 by word and of v6 by byte, are those of cidr_match.
THEOREM TriesAgreeWithCidr == NetSpec => []KernelAgreesWithCidr
<1>1. NetInv => KernelAgreesWithCidr
  BY Verdict, Zenon DEF KernelAgreesWithCidr, RuleFor, Applies
<1> QED BY <1>1, NetStart, NextNet, PTL DEF NetSpec

\* --network=deny blocks what no allow rule lets through: the catch-alls that
\* garden boot appends match every destination of either family.
THEOREM NetworkDenyDenies == NetSpec => []NetworkDenyBlocksTheRest
<1>1. NetInv => NetworkDenyBlocksTheRest
  <2> SUFFICES ASSUME NetInv, Judged, network = "deny", readable
               PROVE  last.blocked <=> ~RuleFor(rules, "allow")
    BY Zenon DEF NetworkDenyBlocksTheRest
  <2> DEFINE f == last.dest.family
  <2>1. stage = "serving" /\ last.dest \in Dests /\ f \in Families
    BY NetPolicyAssumption, Zenon DEF NetInv, LastStands
  <2>2. PICK k \in 1..Len(rules) : rules[k] = CatchAll(f)
    BY <2>1, Zenon DEF NetInv, CatchAllsIn
  <2>3. IsKey(CatchAll(f)) /\ CidrMatch(CatchAll(f), last.dest)
    <3>1. CatchAll(f).family = f /\ CatchAll(f).prefix = 0
      BY Zenon DEF CatchAll
    <3>2. 0 \notin {Absent, Bad} /\ f # Unset
      BY <2>1, NetPolicyAssumption
    <3>3. 0 <= Width["v6"]
      BY NetPolicyAssumption DEF Families
    <3>4. IsKey(CatchAll(f))
      BY <3>1, <3>2, <3>3, Zenon DEF IsKey
    <3>5. CidrMatch(CatchAll(f), last.dest)
      BY <3>1, <3>2, Zenon DEF CidrMatch, CidrMatchV4, CidrMatchV6
    <3> QED BY <3>4, <3>5, Zenon
  <2>4. Applies(rules, "deny", last.dest)
    <3>1. CatchAll(f).action = "deny" /\ CatchAll(f).port = Unset
      BY Zenon DEF CatchAll
    <3> QED BY <2>2, <2>3, <3>1, Zenon DEF Applies
  <2>5. Policy = rules
    BY Zenon DEF Policy
  <2> QED BY <2>4, <2>5, Verdict, Zenon DEF RuleFor, Applies
<1> QED BY <1>1, NetStart, NextNet, PTL DEF NetSpec

\* The first rule that matches decides, where the exceptions come first.
LEMMA FirstMatch ==
  ASSUME NEW rs \in Seq(AllRules), ExceptionsFirst(rs), NEW d, NEW port
  PROVE  Evaluate(rs, d, port) = "deny" <=> Applies(rs, "deny", d) /\ ~Applies(rs, "allow", d)
<1> DEFINE hits == {k \in 1..Len(rs) : Matches(rs[k], d, port)}
           k == CHOOSE i \in hits : \A j \in hits : i <= j
<1>1. \A i \in 1..Len(rs) : /\ i \in hits <=> CidrMatch(rs[i], d)
                            /\ rs[i].port = Unset /\ IsKey(rs[i]) /\ rs[i].action \in {"allow", "deny"}
  <2>1. \A i \in 1..Len(rs) : rs[i].action \in {"allow", "deny", "log"}
    BY NetPolicyAssumption DEF AllRules, CatchAll
  <2> QED BY <2>1, Zenon DEF Matches, ExceptionsFirst
<1>2. CASE hits = {}
  BY <1>1, <1>2, Zenon DEF Evaluate, Applies
<1>3. CASE hits # {}
  <2>1. hits \in SUBSET Nat
    OBVIOUS
  <2>2. k \in hits /\ \A j \in hits : k <= j
    BY <1>3, <2>1, Least, Zenon
  <2>3. Evaluate(rs, d, port) = rs[k].action
    BY <1>3, Zenon DEF Evaluate
  <2> HIDE DEF k
  <2>4. CASE rs[k].action = "allow"
    <3>1. Applies(rs, "allow", d)
      BY <1>1, <2>2, <2>4, Zenon DEF Applies
    <3> QED BY <2>3, <2>4, <3>1, Zenon
  <2>5. CASE rs[k].action = "deny"
    <3>1. Applies(rs, "deny", d)
      BY <1>1, <2>2, <2>5, Zenon DEF Applies
    <3>2. ASSUME NEW j \in 1..Len(rs), rs[j].action = "allow", CidrMatch(rs[j], d) PROVE FALSE
      <4>1. j \in hits /\ k \in 1..Len(rs)
        BY <1>1, <2>2, <3>2, Zenon
      <4>2. k <= j
        BY <2>2, <4>1, Zenon
      <4>3. j < k
        BY <2>5, <3>2, <4>1, Zenon DEF ExceptionsFirst
      <4> QED BY <4>1, <4>2, <4>3
    <3> QED BY <2>3, <2>5, <3>1, <3>2, Zenon DEF Applies
  <2> QED BY <1>1, <2>2, <2>4, <2>5, Zenon
<1> QED BY <1>2, <1>3, Zenon

\* For policies that list their exceptions first, the hooks enforce what
\* SecurityPolicy::evaluate says: "first match wins" and "allow wins" agree.
THEOREM HooksEnforceFirstMatch == NetSpec => []FirstMatchEnforced
<1>1. NetInv => FirstMatchEnforced
  BY PolicyType, Verdict, FirstMatch, Zenon DEF FirstMatchEnforced
<1> QED BY <1>1, NetStart, NextNet, PTL DEF NetSpec

=============================================================================
