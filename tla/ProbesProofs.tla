---------------------------- MODULE ProbesProofs ----------------------------
(***************************************************************************)
(* Proofs about the two components of Probes.  TcpBuckets: any number of   *)
(* threads and processes, any size of bucket, map and int.  OpenHooks: any *)
(* threads, processes and calls, any policy and mounts, any limits.        *)
(***************************************************************************)
EXTENDS OpenHooks, TcpBuckets, PathProofs, SequenceTheorems, TLAPS

(***************************************************************************)
(* TcpBuckets.                                                             *)
(***************************************************************************)

\* A quotient and a remainder below the modulus are the ones.
LEMMA UniqueRemainder ==
    ASSUME NEW m \in Nat \ {0}, NEW q1 \in Int, NEW q2 \in Int,
           NEW r1 \in 0..(m - 1), NEW r2 \in 0..(m - 1),
           m * q1 + r1 = m * q2 + r2
    PROVE  r1 = r2
<1> DEFINE k == q1 - q2
<1>1. k \in Int /\ m * k = r2 - r1
  BY SMT
<1>2. ~(k >= 1)
  <2>1. k >= 1 => m * k >= m
    BY <1>1, SMT
  <2> QED BY <1>1, <2>1, SMT
<1>3. ~(k <= -1)
  <2>1. k <= -1 => m * k <= -m
    BY <1>1, SMT
  <2> QED BY <1>1, <2>1, SMT
<1>4. k = 0
  BY <1>1, <1>2, <1>3, SMT
<1> QED BY <1>1, <1>4, SMT

\* n % m is found by exhibiting it.
LEMMA RemainderIs ==
    ASSUME NEW m \in Nat \ {0}, NEW n \in Int, NEW q \in Int, NEW r \in 0..(m - 1),
           n = m * q + r
    PROVE  n % m = r
<1> DEFINE q2 == n \div m
           r2 == n % m
<1>1. r2 \in 0..(m - 1) /\ q2 \in Int /\ m * q2 + r2 = m * q + r
  BY SMT
<1> HIDE DEF q2, r2
<1>2. r2 = r
  BY <1>1, UniqueRemainder, Zenon
<1> QED BY <1>2, Zenon DEF r2

\* Whatever the upper half of the register holds, as_i32 gives the int.
LEMMA RegisterRoundTrip ==
    ASSUME NEW n \in -IntHalf..(IntHalf - 1), NEW g \in Nat
    PROVE  as_i32(Register(n, g)) = n
<1> DEFINE m == 2 * IntHalf
           r == IF n >= 0 THEN n ELSE n + m
<1>1. m \in Nat \ {0} /\ IntHalf \in Nat \ {0} /\ n \in Int /\ r \in 0..(m - 1)
  BY TcpBucketsAssumption, SMT
<1>2. n % m = r
  <2>1. n = m * 0 + r \/ n = m * (-1) + r
    BY <1>1, SMT
  <2> HIDE DEF m, r
  <2> QED BY <1>1, <2>1, RemainderIs
<1>3. (g * m + r) % m = r
  <2>1. g * m + r = m * g + r /\ g * m + r \in Int
    BY <1>1, SMT
  <2> HIDE DEF m, r
  <2> QED BY <1>1, <2>1, RemainderIs
<1>4. Register(n, g) % m = r
  BY <1>2, <1>3, Zenon DEF Register
<1> QED BY <1>1, <1>4, SMT DEF as_i32

(***************************************************************************)
(* The inductive invariant.  Probes that overlap and a map that is full    *)
(* are why ReportedWithinBucket needs more than itself: what a running     *)
(* program has read must still be in the counter when it stores.           *)
(***************************************************************************)

Steps == {NoStep} \cup [dir : Directions, moved : Nat, count : Nat, prev : Nat]

Tables(S) == [Directions -> [Pids -> S]]

CountersOK ==
    /\ bytes \in Tables(Nat \cup {NoEntry})
    /\ step \in [TcpThreads -> Steps]
    /\ moved \in Tables(Nat) /\ reported \in Tables(Nat) /\ dropped \in Tables(Nat)
    /\ events \in Tables(Nat)
    /\ overlap \in Tables(BOOLEAN) /\ refused \in Tables(BOOLEAN)

\* A running program counts what was moved; without overlap it is the only
\* one of its process and direction, and what it has read is current.
ReadIsCurrent ==
    \A t \in TcpThreads, d \in Directions : step[t].dir = d =>
        /\ step[t].count = step[t].moved
        /\ ~overlap[d][TcpPid[t]] =>
               /\ step[t].prev = Pending(d, TcpPid[t])
               /\ Running(d, TcpPid[t]) = {t}

TcpInv == CountersOK /\ ReadIsCurrent /\ ReportedWithinBucket /\ RateLimited

\* A table with one entry changed is a table.
LEMMA TableUpdate ==
    ASSUME NEW S, NEW f \in Tables(S), NEW d \in Directions, NEW p \in Pids, NEW v \in S
    PROVE  [f EXCEPT ![d][p] = v] \in Tables(S)
BY Zenon DEF Tables

\* The maps start empty and no program runs.
LEMMA TcpInitInv == TcpInit => TcpInv
<1> SUFFICES ASSUME TcpInit PROVE TcpInv
  BY Zenon
<1> USE DEF TcpInit, Counters, Tables, NoEntry, Directions, NoStep
<1>1. CountersOK
  BY Zenon DEF CountersOK, Steps
<1>2. ReadIsCurrent
  BY Zenon DEF ReadIsCurrent
<1>3. ReportedWithinBucket
  BY TcpBucketsAssumption DEF ReportedWithinBucket, Pending
<1>4. RateLimited
  BY TcpBucketsAssumption DEF RateLimited
<1> QED BY <1>1, <1>2, <1>3, <1>4, Zenon DEF TcpInv

\* LookUp changes only what its thread has read, and overlap.
LEMMA LookUpInv ==
    ASSUME TcpInv, NEW t \in TcpThreads, NEW d \in Directions, NEW n \in Results,
           NEW g \in Garbage, LookUp(t, d, n, g)
    PROVE  TcpInv'
<1> DEFINE p == TcpPid[t]
           count == IF d = "send" THEN n ELSE as_i32(Register(n, g))
           s == [dir |-> d, moved |-> n, count |-> count,
                 prev |-> IF bytes[d][p] = NoEntry THEN 0 ELSE bytes[d][p]]
<1>1. p \in Pids /\ n \in -IntHalf..(IntHalf - 1) /\ g \in Nat
  BY TcpBucketsAssumption, Zenon DEF Pids
<1>2. count = n
  BY <1>1, RegisterRoundTrip, Zenon
<1>3. n \in Nat /\ n > 0
  BY <1>1, <1>2, TcpBucketsAssumption DEF LookUp
<1>4. /\ step[t] = NoStep
      /\ step' = [step EXCEPT ![t] = s]
      /\ overlap' = IF Running(d, p) = {} THEN overlap ELSE [overlap EXCEPT ![d][p] = TRUE]
      /\ UNCHANGED <<bytes, moved, reported, dropped, events, refused>>
  BY Zenon DEF LookUp
<1>5. s.prev = Pending(d, p) /\ s.prev \in Nat
  BY <1>1 DEF TcpInv, CountersOK, Tables, Pending
<1>6. s \in Steps /\ s # NoStep /\ s.dir = d /\ s.count = s.moved
  BY <1>2, <1>3, <1>5, Zenon DEF Steps, NoStep, Directions
<1> HIDE DEF s
<1>7. CountersOK'
  <2>1. step' \in [TcpThreads -> Steps]
    BY <1>4, <1>6, Zenon DEF TcpInv, CountersOK
  <2>2. overlap' \in Tables(BOOLEAN)
    BY <1>1, <1>4, Zenon DEF TcpInv, CountersOK, Tables
  <2> QED BY <1>4, <2>1, <2>2, Zenon DEF TcpInv, CountersOK
<1>8. \A e \in Directions, q \in Pids : ~overlap'[e][q] => ~overlap[e][q]
  BY <1>1, <1>4, Zenon DEF TcpInv, CountersOK, Tables
<1>9. \A e \in Directions, q \in Pids : Pending(e, q)' = Pending(e, q)
  BY <1>4, Zenon DEF Pending
<1>10. ReportedWithinBucket'
  BY <1>4, <1>8, <1>9, Zenon DEF TcpInv, ReportedWithinBucket
<1>11. RateLimited'
  BY <1>4, Zenon DEF TcpInv, RateLimited
<1>12. ReadIsCurrent'
  <2> SUFFICES ASSUME NEW u \in TcpThreads, NEW e \in Directions, step'[u].dir = e
               PROVE  /\ step'[u].count = step'[u].moved
                      /\ ~overlap'[e][TcpPid[u]] =>
                             /\ step'[u].prev = Pending(e, TcpPid[u])'
                             /\ Running(e, TcpPid[u])' = {u}
    BY Zenon DEF ReadIsCurrent
  <2>1. step \in [TcpThreads -> Steps] /\ TcpPid[u] \in Pids
    BY Zenon DEF TcpInv, CountersOK, Pids
  <2>2. CASE u = t
    <3>1. step'[u] = s /\ e = d
      BY <1>4, <1>6, <2>1, <2>2, Zenon
    <3>2. ASSUME ~overlap'[d][p] PROVE Running(d, p)' = {t}
      <4>1. Running(d, p) = {}
        BY <1>1, <1>4, <3>2, Zenon DEF TcpInv, CountersOK, Tables
      <4> QED BY <4>1, <3>1, <2>2, <1>4, <1>6, <2>1, Zenon DEF Running
    <3> QED BY <2>2, <3>1, <3>2, <1>1, <1>5, <1>6, <1>9, Zenon
  <2>3. CASE u # t
    <3>1. step'[u] = step[u]
      BY <1>4, <2>1, <2>3, Zenon
    <3>2. ASSUME ~overlap'[e][TcpPid[u]]
          PROVE  step[u].prev = Pending(e, TcpPid[u])' /\ Running(e, TcpPid[u])' = {u}
      <4>1. step[u].prev = Pending(e, TcpPid[u]) /\ Running(e, TcpPid[u]) = {u}
        BY <1>8, <2>1, <3>1, <3>2, Zenon DEF TcpInv, ReadIsCurrent
      <4>2. ~(e = d /\ TcpPid[u] = p)
        BY <4>1, <1>1, <1>4, <3>2, Zenon DEF TcpInv, CountersOK, Tables
      <4>3. Running(e, TcpPid[u])' = Running(e, TcpPid[u])
        BY <4>2, <1>4, <1>6, <2>1 DEF Running, NoStep, Directions
      <4> QED BY <4>1, <4>3, <1>9, <2>1, Zenon
    <3>3. step[u].count = step[u].moved
      BY <3>1, Zenon DEF TcpInv, ReadIsCurrent
    <3> QED BY <3>1, <3>2, <3>3, Zenon
  <2> QED BY <2>2, <2>3, Zenon
<1> QED BY <1>7, <1>10, <1>11, <1>12, Zenon DEF TcpInv

\* Store ends the program of its thread; the counter takes the new value,
\* unless the full map refuses it.
LEMMA StoreInv ==
    ASSUME TcpInv, NEW t \in TcpThreads, NEW d \in Directions, step[t].dir = d, Store(t)
    PROVE  TcpInv'
<1> DEFINE p == TcpPid[t]
           s == step[t]
           pending == s.prev + s.count
           total == reported[d][p] + dropped[d][p]
           crosses == pending >= TCP_RATE_BUCKET
           kept == IF crosses THEN 0 ELSE pending
           out == IF crosses THEN pending ELSE 0
<1>1. /\ p \in Pids /\ TCP_RATE_BUCKET \in Nat \ {0}
      /\ s.moved \in Nat /\ s.count \in Nat /\ s.prev \in Nat /\ s.count = s.moved
  BY TcpBucketsAssumption DEF TcpInv, CountersOK, ReadIsCurrent, Steps, NoStep, Directions, Pids
<1>2. pending \in Nat /\ kept \in Nat /\ out \in Nat /\ kept < TCP_RATE_BUCKET /\ kept + out = pending
  BY <1>1
<1>3. /\ step' = [step EXCEPT ![t] = NoStep]
      /\ moved' = [moved EXCEPT ![d][p] = @ + s.moved]
      /\ Insert(d, p, kept)
      /\ UNCHANGED overlap
  BY Zenon DEF Store, CrossesBucket
<1>4. \/ /\ crosses
         /\ events' = [events EXCEPT ![d][p] = @ + 1]
         /\ \/ /\ reported' = [reported EXCEPT ![d][p] = @ + pending]
               /\ UNCHANGED dropped
            \/ /\ dropped' = [dropped EXCEPT ![d][p] = @ + pending]
               /\ UNCHANGED reported
      \/ ~crosses /\ UNCHANGED <<reported, dropped, events>>
  BY Zenon DEF Store, CrossesBucket
<1>5. \/ refused' = [refused EXCEPT ![d][p] = TRUE] /\ UNCHANGED bytes
      \/ bytes' = [bytes EXCEPT ![d][p] = kept] /\ UNCHANGED refused
  BY <1>3, Zenon DEF Insert
<1> HIDE DEF s, p
<1>6. CountersOK'
  <2>1. bytes' \in Tables(Nat \cup {NoEntry}) /\ refused' \in Tables(BOOLEAN)
    <3> HIDE DEF kept
    <3>1. /\ [bytes EXCEPT ![d][p] = kept] \in Tables(Nat \cup {NoEntry})
          /\ [refused EXCEPT ![d][p] = TRUE] \in Tables(BOOLEAN)
      BY <1>1, <1>2, TableUpdate, Zenon DEF TcpInv, CountersOK
    <3> QED BY <3>1, <1>5, Zenon DEF TcpInv, CountersOK
  <2>2. step' \in [TcpThreads -> Steps] /\ moved' \in Tables(Nat) /\ overlap' \in Tables(BOOLEAN)
    BY <1>1, <1>3 DEF TcpInv, CountersOK, Tables, Steps
  <2>3. reported' \in Tables(Nat) /\ dropped' \in Tables(Nat) /\ events' \in Tables(Nat)
    <3>1. \A f \in Tables(Nat) : f[d][p] \in Nat
      BY <1>1, Zenon DEF Tables
    <3>2. \A f \in Tables(Nat), n \in Nat : [f EXCEPT ![d][p] = @ + n] \in Tables(Nat)
      <4>1. \A m, n \in Nat : m + n \in Nat
        BY ONLY TRUE
      <4> QED BY <1>1, <3>1, <4>1, TableUpdate, Zenon
    <3>3. reported \in Tables(Nat) /\ dropped \in Tables(Nat) /\ events \in Tables(Nat)
      BY Zenon DEF TcpInv, CountersOK
    <3>4. /\ [reported EXCEPT ![d][p] = @ + pending] \in Tables(Nat)
          /\ [dropped EXCEPT ![d][p] = @ + pending] \in Tables(Nat)
          /\ [events EXCEPT ![d][p] = @ + 1] \in Tables(Nat)
      <4> HIDE DEF pending
      <4> QED BY <1>2, <3>2, <3>3, Zenon
    <3> HIDE DEF pending, crosses
    <3> QED BY <3>3, <3>4, <1>4, Zenon
  <2> QED BY <2>1, <2>2, <2>3, Zenon DEF CountersOK
<1>7. /\ moved'[d][p] = moved[d][p] + s.moved
      /\ reported'[d][p] + dropped'[d][p] = total + out
      /\ events'[d][p] = IF crosses THEN events[d][p] + 1 ELSE events[d][p]
  BY <1>1, <1>2, <1>3, <1>4 DEF TcpInv, CountersOK, Tables
<1>8. \A e \in Directions, q \in Pids : ~(e = d /\ q = p) =>
          /\ moved'[e][q] = moved[e][q] /\ reported'[e][q] = reported[e][q]
          /\ dropped'[e][q] = dropped[e][q] /\ events'[e][q] = events[e][q]
          /\ bytes'[e][q] = bytes[e][q] /\ refused'[e][q] = refused[e][q]
  <2> HIDE DEF pending, kept, crosses
  <2> QED BY <1>1, <1>3, <1>4, <1>5 DEF TcpInv, CountersOK, Tables
<1>9. \A e \in Directions, q \in Pids : ~(e = d /\ q = p) => Pending(e, q)' = Pending(e, q)
  BY <1>8, Zenon DEF Pending
<1>10. ReportedWithinBucket'
  <2> SUFFICES ASSUME NEW e \in Directions, NEW q \in Pids, ~overlap'[e][q], ~refused'[e][q]
               PROVE  /\ moved'[e][q] = reported'[e][q] + dropped'[e][q] + Pending(e, q)'
                      /\ Pending(e, q)' < TCP_RATE_BUCKET
    BY Zenon DEF ReportedWithinBucket
  <2>1. CASE ~(e = d /\ q = p)
    BY <2>1, <1>3, <1>8, <1>9 DEF TcpInv, ReportedWithinBucket
  <2>2. CASE e = d /\ q = p
    <3>1. bytes' = [bytes EXCEPT ![d][p] = kept] /\ ~refused[d][p]
      BY <2>2, <1>1, <1>5 DEF TcpInv, CountersOK, Tables
    <3>2. Pending(d, p)' = kept
      <4> HIDE DEF kept
      <4> QED BY <3>1, <1>1, <1>2 DEF Pending, TcpInv, CountersOK, Tables, NoEntry
    <3>3. s.prev = Pending(d, p) /\ moved[d][p] = total + Pending(d, p)
      BY <2>2, <3>1, <1>3, Zenon DEF TcpInv, ReadIsCurrent, ReportedWithinBucket, s, p
    <3>4. total \in Int /\ moved[d][p] \in Int
      BY <1>1 DEF TcpInv, CountersOK, Tables
    <3> HIDE DEF total, kept, out
    <3>6. /\ s.moved \in Nat /\ s.prev \in Nat /\ kept \in Nat /\ out \in Nat
          /\ kept + out = s.prev + s.moved /\ moved[d][p] = total + s.prev
      BY <3>3, <1>1, <1>2, Zenon
    <3>5. moved[d][p] + s.moved = total + out + kept
      BY ONLY <3>4, <3>6
    <3> QED BY <2>2, <3>2, <3>5, <1>2, <1>7, Zenon
  <2> QED BY <2>1, <2>2, Zenon
<1>11. RateLimited'
  <2> SUFFICES ASSUME NEW e \in Directions, NEW q \in Pids
               PROVE  events'[e][q] * TCP_RATE_BUCKET <= reported'[e][q] + dropped'[e][q]
    BY Zenon DEF RateLimited
  <2>1. CASE ~(e = d /\ q = p)
    BY <2>1, <1>8, Zenon DEF TcpInv, RateLimited
  <2>2. CASE e = d /\ q = p
    <3>1. total \in Nat /\ events[d][p] \in Nat /\ events[d][p] * TCP_RATE_BUCKET <= total
      BY <1>1 DEF TcpInv, CountersOK, Tables, RateLimited
    <3>2. (events[d][p] + 1) * TCP_RATE_BUCKET = events[d][p] * TCP_RATE_BUCKET + TCP_RATE_BUCKET
      BY <1>1, <3>1
    <3>3. events[d][p] * TCP_RATE_BUCKET \in Nat
      BY <1>1, <3>1
    <3> HIDE DEF total
    <3> QED BY <2>2, <3>1, <3>2, <3>3, <1>1, <1>2, <1>7
  <2> QED BY <2>1, <2>2, Zenon
<1>12. ReadIsCurrent'
  <2> SUFFICES ASSUME NEW u \in TcpThreads, NEW e \in Directions, step'[u].dir = e
               PROVE  /\ step'[u].count = step'[u].moved
                      /\ ~overlap'[e][TcpPid[u]] =>
                             /\ step'[u].prev = Pending(e, TcpPid[u])'
                             /\ Running(e, TcpPid[u])' = {u}
    BY Zenon DEF ReadIsCurrent
  <2>1. u # t /\ step'[u] = step[u] /\ TcpPid[u] \in Pids
    BY <1>3, Zenon DEF TcpInv, CountersOK, NoStep, Directions, Pids
  <2>2. ASSUME ~overlap'[e][TcpPid[u]]
        PROVE  step[u].prev = Pending(e, TcpPid[u])' /\ Running(e, TcpPid[u])' = {u}
    <3>1. step[u].prev = Pending(e, TcpPid[u]) /\ Running(e, TcpPid[u]) = {u}
      BY <1>3, <2>1, <2>2, Zenon DEF TcpInv, ReadIsCurrent
    <3>2. ~(e = d /\ TcpPid[u] = p)
      BY <2>1, <3>1, Zenon DEF Running, p
    <3>3. Running(e, TcpPid[u])' = Running(e, TcpPid[u])
      BY <3>2, <1>3, Zenon DEF TcpInv, CountersOK, Running, NoStep, Directions, p
    <3> QED BY <2>1, <3>1, <3>2, <3>3, <1>9, Zenon
  <2> QED BY <2>1, <2>2, Zenon DEF TcpInv, ReadIsCurrent
<1> QED BY <1>6, <1>10, <1>11, <1>12, Zenon DEF TcpInv

\* Every step keeps the invariant.
LEMMA TcpNextInv == TcpInv /\ [TcpNext]_tcpVars => TcpInv'
<1> SUFFICES ASSUME TcpInv, [TcpNext]_tcpVars PROVE TcpInv'
  BY Zenon
<1>1. ASSUME NEW d \in Directions, Probe(d) PROVE TcpInv'
  BY <1>1, LookUpInv, StoreInv, Zenon DEF Probe
<1>2. CASE UNCHANGED tcpVars
  BY <1>2, Zenon DEF tcpVars, TcpInv, CountersOK, ReadIsCurrent, ReportedWithinBucket, RateLimited,
              Pending, Running
<1> QED BY <1>1, <1>2, Zenon DEF TcpNext, TcpQuiet

\* The bytes a process moved are those in its events and in its counter, and
\* the counter is short of a bucket, unless two of its probes overlapped or
\* the map refused it: what try_trace_tcp_sendmsg and try_trace_tcp_recvmsg
\* keep, whatever the garbage in the return register.
THEOREM TcpReportsAreAccurate == TcpSpec => []ReportedWithinBucket
<1>1. TcpInv => ReportedWithinBucket
  BY Zenon DEF TcpInv
<1> QED BY <1>1, TcpInitInv, TcpNextInv, PTL DEF TcpSpec

\* However the probes of a process interleave, its events are worth a bucket
\* each: the rate limit of the probes does not rest on the counters being exact.
THEOREM TcpRateIsLimited == TcpSpec => []RateLimited
<1>1. TcpInv => RateLimited
  BY Zenon DEF TcpInv
<1> QED BY <1>1, TcpInitInv, TcpNextInv, PTL DEF TcpSpec

(***************************************************************************)
(* OpenHooks.  Every result comes from the hook's verdict on the call and  *)
(* the intent it took, and an intent the map kept is the call's own.       *)
(***************************************************************************)
OpenCall(o) == [op |-> "open", path |-> o.path, write |-> o.write, file |-> o.file]
ExecCall(x) == [op |-> "exec", path |-> x.path, arg0 |-> x.arg0, file |-> x.file]

IsCall(t, call) ==
    \/ call = NoCall
    \/ \E o \in OpensOf[t] : call = OpenCall(o)
    \/ \E x \in ExecsOf[t] : call = ExecCall(x)

FileVerdict(t, intent, file) == IF Pid[t] = 1 THEN "ok" ELSE FileOpenVerdict(intent, file)

OpenResult(t, intent, file) ==
    LET v == FileVerdict(t, intent, file) IN IF v = "ok" THEN "opened" ELSE v

ExecResult(t, intent, path, file) ==
    LET v == FileVerdict(t, intent, file)
        w == BprmVerdict(path, file)
    IN  IF v # "ok" THEN v ELSE IF w = "ok" THEN "opened" ELSE w

\* The call of t, and where it is.
CallOk(t, call, p, intent, took, r) ==
    /\ IsCall(t, call)
    /\ call.op = "none" => r = "none"
    /\ p = "open" => call.op = "open" /\ r = "none"
    /\ (p = "open" /\ Pid[t] # 1 /\ "intent_full" \notin faults /\ IntentOf(call) # {})
           => intent = IntentOf(call)
    /\ r \notin {"none", "failed"} =>
           /\ call.op = "open" => r = OpenResult(t, took, call.file)
           /\ call.op = "exec" => r = ExecResult(t, took, call.path, call.file)
           /\ (call.op = "open" /\ Pid[t] # 1 /\ "intent_full" \notin faults /\ IntentOf(call) # {})
                  => took = IntentOf(call)

HookInv ==
    /\ policy \in PolicyChoices
    /\ DOMAIN intents = Threads /\ DOMAIN pc = Threads /\ DOMAIN cur = Threads
    /\ DOMAIN used = Threads /\ DOMAIN result = Threads
    /\ \A t \in Threads : CallOk(t, cur[t], pc[t], intents[t], used[t], result[t])

LEMMA VerdictStays ==
  ASSUME UNCHANGED policy, NEW t \in Threads, NEW intent, NEW path, NEW file
  PROVE  /\ OpenResult(t, intent, file)' = OpenResult(t, intent, file)
         /\ ExecResult(t, intent, path, file)' = ExecResult(t, intent, path, file)
<1>1. \A action : PathsWith(action)' = PathsWith(action)
  BY Zenon DEF PathsWith
<1>2. FileOpenVerdict(intent, file)' = FileOpenVerdict(intent, file)
  BY <1>1, Zenon DEF FileOpenVerdict
<1>3. BprmVerdict(path, file)' = BprmVerdict(path, file)
  BY <1>1, Zenon DEF BprmVerdict
<1> QED BY <1>2, <1>3, Zenon DEF OpenResult, ExecResult, FileVerdict

LEMMA CallStays ==
  ASSUME UNCHANGED <<faults, policy>>, NEW t \in Threads, NEW call, NEW p, NEW intent, NEW took, NEW r,
         CallOk(t, call, p, intent, took, r), NEW q, q = p \/ q # "open"
  PROVE  CallOk(t, call, q, intent, took, r)'
<1>1. /\ OpenResult(t, took, call.file)' = OpenResult(t, took, call.file)
      /\ ExecResult(t, took, call.path, call.file)' = ExecResult(t, took, call.path, call.file)
  BY VerdictStays, Zenon
<1> QED BY <1>1, Zenon DEF CallOk

\* What Return does to the threads.
LEMMA Returned ==
  ASSUME HookInv, NEW t \in Threads, NEW r, Return(t, r)
  PROVE  /\ DOMAIN result' = Threads /\ DOMAIN pc' = Threads
         /\ result'[t] = r /\ pc'[t] # "open"
         /\ \A u \in Threads : u # t => /\ result'[u] = result[u]
                                        /\ pc'[u] = pc[u] \/ pc'[u] # "open"
<1> PICK killed : /\ killed \in BOOLEAN
                  /\ pc' = [u \in Threads |->
                               IF u = t THEN (IF killed THEN "dead" ELSE "idle")
                               ELSE IF killed /\ Pid[u] = Pid[t] /\ pc[u] = "idle" THEN "dead"
                               ELSE pc[u]]
  BY Zenon DEF Return
<1> QED BY Zenon DEF HookInv, Return

\* The threads a step does not touch.
LEMMA OthersStay ==
  ASSUME HookInv, UNCHANGED <<faults, policy>>, NEW u \in Threads,
         cur'[u] = cur[u], intents'[u] = intents[u], used'[u] = used[u], result'[u] = result[u],
         pc'[u] = pc[u] \/ pc'[u] # "open"
  PROVE  CallOk(u, cur[u], pc[u], intents[u], used[u], result[u])'
<1> PICK call, p, intent, took, r :
        call = cur[u] /\ p = pc[u] /\ intent = intents[u] /\ took = used[u] /\ r = result[u]
  BY Zenon
<1> PICK q : q = pc'[u]
  BY Zenon
<1>1. CallOk(u, call, p, intent, took, r)
  BY Zenon DEF HookInv
<1>2. CallOk(u, call, q, intent, took, r)'
  BY <1>1, CallStays, Zenon
<1> QED BY <1>2, Zenon DEF CallOk

LEMMA SameIntent ==
  ASSUME NEW o
  PROVE  IntentOf(OpenCall(o)) = IntentOf(o)
BY Zenon DEF IntentOf, OpenCall

\* The hook takes the thread's intent.
LEMMA Taken ==
  ASSUME HookInv, NEW t \in Threads, TakeIntent(t)
  PROVE  /\ DOMAIN used' = Threads /\ DOMAIN intents' = Threads
         /\ Pid[t] # 1 => used'[t] = intents[t]
         /\ \A u \in Threads : u # t => used'[u] = used[u] /\ intents'[u] = intents[u]
         /\ \A file : HookVerdict(t, file) = FileVerdict(t, used'[t], file)
BY Zenon DEF HookInv, TakeIntent, HookVerdict, FileVerdict

LEMMA NextHook ==
  ASSUME HookInv, [Next]_vars
  PROVE  HookInv'
<1> USE DEF HookInv
<1>1. UNCHANGED <<faults, policy>>
  BY Zenon DEF Next, TraceOpenat, LookupFails, LsmFileOpen, Execve, ReuseIds, vars
<1>2. ASSUME NEW t \in Threads, NEW o \in OpensOf[t], TraceOpenat(t, o)
      PROVE  HookInv'
  <2>1. /\ pc' = [pc EXCEPT ![t] = "open"] /\ cur' = [cur EXCEPT ![t] = OpenCall(o)]
        /\ used' = [used EXCEPT ![t] = {}] /\ result' = [result EXCEPT ![t] = "none"]
    BY <1>2, Zenon DEF TraceOpenat, OpenCall
  <2>2. intents' = intents \/ intents' = [intents EXCEPT ![t] = IntentOf(o)]
    BY <1>2, Zenon DEF TraceOpenat, Stash
  <2>3. Pid[t] # 1 /\ "intent_full" \notin faults /\ IntentOf(o) # {} => intents'[t] = IntentOf(o)
    BY <1>2, Zenon DEF TraceOpenat, Stash
  <2>4. \A u \in Threads : u # t => CallOk(u, cur[u], pc[u], intents[u], used[u], result[u])'
    <3> TAKE u \in Threads
    <3> HAVE u # t
    <3> QED BY <1>1, <2>1, <2>2, OthersStay, Zenon
  <2>5. CallOk(t, cur[t], pc[t], intents[t], used[t], result[t])'
    <3>1. cur'[t] = OpenCall(o) /\ pc'[t] = "open" /\ result'[t] = "none" /\ OpenCall(o).op = "open"
      BY <2>1, Zenon DEF OpenCall
    <3>2. IsCall(t, OpenCall(o)) /\ IntentOf(OpenCall(o)) = IntentOf(o)
      BY SameIntent, Zenon DEF IsCall
    <3> QED BY <1>1, <2>3, <3>1, <3>2, Zenon DEF CallOk
  <2>6. DOMAIN intents' = Threads /\ DOMAIN pc' = Threads /\ DOMAIN cur' = Threads
        /\ DOMAIN used' = Threads /\ DOMAIN result' = Threads
    BY <2>1, <2>2, Zenon
  <2> QED BY <1>1, <2>4, <2>5, <2>6, Zenon
<1>3. ASSUME NEW t \in Threads, LookupFails(t)
      PROVE  HookInv'
  <2>1. pc[t] = "open" /\ Return(t, "failed") /\ UNCHANGED <<intents, cur, used>>
    BY <1>3, Zenon DEF LookupFails
  <2>2. /\ DOMAIN result' = Threads /\ DOMAIN pc' = Threads /\ result'[t] = "failed" /\ pc'[t] # "open"
        /\ \A u \in Threads : u # t => result'[u] = result[u] /\ (pc'[u] = pc[u] \/ pc'[u] # "open")
    BY <2>1, Returned, Zenon
  <2>3. \A u \in Threads : u # t => CallOk(u, cur[u], pc[u], intents[u], used[u], result[u])'
    <3> TAKE u \in Threads
    <3> HAVE u # t
    <3> QED BY <1>1, <2>1, <2>2, OthersStay, Zenon
  <2>4. CallOk(t, cur[t], pc[t], intents[t], used[t], result[t])'
    BY <1>1, <2>1, <2>2, Zenon DEF CallOk
  <2> QED BY <1>1, <2>1, <2>2, <2>3, <2>4, Zenon
<1>4. ASSUME NEW t \in Threads, LsmFileOpen(t)
      PROVE  HookInv'
  <2> PICK r : r = OpenResult(t, used'[t], cur[t].file)
    BY Zenon
  <2>1. pc[t] = "open" /\ TakeIntent(t) /\ cur' = cur
    BY <1>4, Zenon DEF LsmFileOpen
  <2>2. /\ DOMAIN used' = Threads /\ DOMAIN intents' = Threads
        /\ Pid[t] # 1 => used'[t] = intents[t]
        /\ \A u \in Threads : u # t => used'[u] = used[u] /\ intents'[u] = intents[u]
        /\ \A file : HookVerdict(t, file) = FileVerdict(t, used'[t], file)
    BY <2>1, Taken, Zenon
  <2>3. Return(t, r)
    BY <1>4, <2>2, Zenon DEF LsmFileOpen, OpenResult
  <2>4. /\ DOMAIN result' = Threads /\ DOMAIN pc' = Threads /\ result'[t] = r /\ pc'[t] # "open"
        /\ \A u \in Threads : u # t => result'[u] = result[u] /\ (pc'[u] = pc[u] \/ pc'[u] # "open")
    BY <2>3, Returned, Zenon
  <2>5. \A u \in Threads : u # t => CallOk(u, cur[u], pc[u], intents[u], used[u], result[u])'
    <3> TAKE u \in Threads
    <3> HAVE u # t
    <3> QED BY <1>1, <2>1, <2>2, <2>4, OthersStay, Zenon
  <2>6. CallOk(t, cur[t], pc[t], intents[t], used[t], result[t])'
    <3>1. CallOk(t, cur[t], "open", intents[t], used[t], result[t])
      BY <2>1, Zenon
    <3>2. IsCall(t, cur[t]) /\ cur[t].op = "open"
      BY <3>1, Zenon DEF CallOk
    <3>3. Pid[t] # 1 /\ "intent_full" \notin faults /\ IntentOf(cur[t]) # {} => used'[t] = IntentOf(cur[t])
      BY <2>2, <3>1, Zenon DEF CallOk
    <3> PICK call, took : call = cur[t] /\ took = used'[t]
      BY Zenon
    <3>4. r = OpenResult(t, took, call.file)'
      BY <1>1, VerdictStays, Zenon
    <3> QED BY <1>1, <2>1, <2>4, <3>2, <3>3, <3>4, Zenon DEF CallOk
  <2> QED BY <1>1, <2>1, <2>2, <2>4, <2>5, <2>6, Zenon
<1>5. ASSUME NEW t \in Threads, NEW x \in ExecsOf[t], Execve(t, x)
      PROVE  HookInv'
  <2> PICK r : r = ExecResult(t, used'[t], x.path, x.file)
    BY Zenon
  <2>1. TakeIntent(t) /\ cur' = [cur EXCEPT ![t] = ExecCall(x)]
    BY <1>5, Zenon DEF Execve, ExecCall
  <2>2. /\ DOMAIN used' = Threads /\ DOMAIN intents' = Threads
        /\ \A u \in Threads : u # t => used'[u] = used[u] /\ intents'[u] = intents[u]
        /\ \A file : HookVerdict(t, file) = FileVerdict(t, used'[t], file)
    BY <2>1, Taken, Zenon
  <2>3. Return(t, r)
    <3>1. Return(t, IF HookVerdict(t, x.file) # "ok" THEN HookVerdict(t, x.file)
                    ELSE IF BprmVerdict(x.path, x.file) = "ok" THEN "opened"
                    ELSE BprmVerdict(x.path, x.file))
      BY <1>5, Zenon DEF Execve
    <3>2. HookVerdict(t, x.file) = FileVerdict(t, used'[t], x.file)
      BY <2>2, Zenon
    <3> QED BY <3>1, <3>2, Zenon DEF ExecResult
  <2>4. /\ DOMAIN result' = Threads /\ DOMAIN pc' = Threads /\ result'[t] = r /\ pc'[t] # "open"
        /\ \A u \in Threads : u # t => result'[u] = result[u] /\ (pc'[u] = pc[u] \/ pc'[u] # "open")
    BY <2>3, Returned, Zenon
  <2>5. \A u \in Threads : u # t => CallOk(u, cur[u], pc[u], intents[u], used[u], result[u])'
    <3> TAKE u \in Threads
    <3> HAVE u # t
    <3> QED BY <1>1, <2>1, <2>2, <2>4, OthersStay, Zenon
  <2>6. CallOk(t, cur[t], pc[t], intents[t], used[t], result[t])'
    <3>1. /\ cur'[t] = ExecCall(x) /\ ExecCall(x).op = "exec" /\ ExecCall(x).path = x.path
          /\ ExecCall(x).file = x.file /\ IsCall(t, ExecCall(x))
      BY <2>1, Zenon DEF ExecCall, IsCall
    <3> PICK took : took = used'[t]
      BY Zenon
    <3>2. r = ExecResult(t, took, x.path, x.file)'
      BY <1>1, VerdictStays, Zenon
    <3> QED BY <2>4, <3>1, <3>2, Zenon DEF CallOk
  <2>7. DOMAIN cur' = Threads
    BY <2>1, Zenon
  <2> QED BY <1>1, <2>2, <2>4, <2>5, <2>6, <2>7, ZenonT(30)
<1>6. ASSUME NEW p, ReuseIds(p)
      PROVE  HookInv'
  <2>1. /\ pc' = [t \in Threads |-> IF Pid[t] = p THEN "idle" ELSE pc[t]]
        /\ cur' = [t \in Threads |-> IF Pid[t] = p THEN NoCall ELSE cur[t]]
        /\ used' = [t \in Threads |-> IF Pid[t] = p THEN {} ELSE used[t]]
        /\ result' = [t \in Threads |-> IF Pid[t] = p THEN "none" ELSE result[t]]
        /\ intents' = intents
    BY <1>6, Zenon DEF ReuseIds
  <2>2. ASSUME NEW u \in Threads
        PROVE  CallOk(u, cur[u], pc[u], intents[u], used[u], result[u])'
    <3>1. CASE Pid[u] = p
      <4>1. cur'[u] = NoCall /\ pc'[u] = "idle" /\ result'[u] = "none"
        BY <2>1, <3>1, Zenon
      <4> QED BY <4>1, ZenonT(30) DEF CallOk, IsCall
    <3>2. CASE Pid[u] # p
      BY <1>1, <2>1, <3>2, OthersStay, Zenon
    <3> QED BY <3>1, <3>2, Zenon
  <2> QED BY <1>1, <2>1, <2>2, Zenon
<1>7. CASE UNCHANGED vars
  <2>1. UNCHANGED <<faults, policy, intents, pc, cur, used, result>>
    BY <1>7, Zenon DEF vars
  <2>2. \A u \in Threads : CallOk(u, cur[u], pc[u], intents[u], used[u], result[u])'
    BY <2>1, OthersStay, Zenon
  <2> QED BY <2>1, <2>2, Zenon
<1> QED BY <1>2, <1>3, <1>4, <1>5, <1>6, <1>7, Zenon DEF Next

LEMMA HookStart ==
  ASSUME Init
  PROVE  HookInv
<1>1. ASSUME NEW t \in Threads
      PROVE  CallOk(t, cur[t], pc[t], intents[t], used[t], result[t])
  <2>1. cur[t] = NoCall /\ pc[t] = "idle" /\ result[t] = "none"
    BY Zenon DEF Init
  <2> QED BY <2>1, Zenon DEF CallOk, IsCall
<1> QED BY <1>1, Zenon DEF Init, HookInv

\* Without faults the map holds exactly the intents of the calls in progress.
HandOver ==
    faults = {} => \A t \in Threads :
        /\ pc[t] # "open" \/ Pid[t] = 1 => intents[t] = {}
        /\ pc[t] = "open" /\ Pid[t] # 1 => intents[t] = IntentOf(cur[t])
        /\ Judged(t) => used[t] = OwnIntent(t)

LEMMA OthersHandOver ==
  ASSUME HandOver, faults = {}, NEW u \in Threads,
         cur'[u] = cur[u], intents'[u] = intents[u], used'[u] = used[u], result'[u] = result[u],
         pc'[u] = pc[u] \/ (pc[u] # "open" /\ pc'[u] # "open")
  PROVE  /\ pc'[u] # "open" \/ Pid[u] = 1 => intents'[u] = {}
         /\ pc'[u] = "open" /\ Pid[u] # 1 => intents'[u] = IntentOf(cur'[u])
         /\ Judged(u)' => used'[u] = OwnIntent(u)'
<1>1. Judged(u)' => Judged(u)
  BY Zenon DEF Judged
<1>2. OwnIntent(u)' = OwnIntent(u)
  BY Zenon DEF OwnIntent, IntentOf
<1> QED BY <1>1, <1>2, Zenon DEF HandOver

LEMMA ReturnedIdle ==
  ASSUME HookInv, NEW t \in Threads, NEW r, Return(t, r), NEW u \in Threads, u # t
  PROVE  pc'[u] = pc[u] \/ (pc[u] # "open" /\ pc'[u] # "open")
<1> PICK killed : /\ killed \in BOOLEAN
                  /\ pc' = [v \in Threads |->
                               IF v = t THEN (IF killed THEN "dead" ELSE "idle")
                               ELSE IF killed /\ Pid[v] = Pid[t] /\ pc[v] = "idle" THEN "dead"
                               ELSE pc[v]]
  BY ZenonT(30) DEF Return
<1> QED BY Zenon

LEMMA NextHandOver ==
  ASSUME HookInv, HandOver, [Next]_vars
  PROVE  HandOver'
<1>1. UNCHANGED <<faults, policy>>
  BY Zenon DEF Next, TraceOpenat, LookupFails, LsmFileOpen, Execve, ReuseIds, vars
<1> SUFFICES ASSUME faults = {}, NEW u \in Threads
             PROVE  /\ pc'[u] # "open" \/ Pid[u] = 1 => intents'[u] = {}
                    /\ pc'[u] = "open" /\ Pid[u] # 1 => intents'[u] = IntentOf(cur'[u])
                    /\ Judged(u)' => used'[u] = OwnIntent(u)'
  <2>1. HandOver' <=> (faults' = {} => \A t \in Threads :
              /\ pc'[t] # "open" \/ Pid[t] = 1 => intents'[t] = {}
              /\ pc'[t] = "open" /\ Pid[t] # 1 => intents'[t] = IntentOf(cur'[t])
              /\ Judged(t)' => used'[t] = OwnIntent(t)')
    BY Zenon DEF HandOver, IntentOf
  <2> QED BY <1>1, <2>1, Zenon
<1>2. ASSUME NEW t \in Threads, NEW o \in OpensOf[t], TraceOpenat(t, o)
      PROVE  /\ pc'[u] # "open" \/ Pid[u] = 1 => intents'[u] = {}
             /\ pc'[u] = "open" /\ Pid[u] # 1 => intents'[u] = IntentOf(cur'[u])
             /\ Judged(u)' => used'[u] = OwnIntent(u)'
  <2>1. /\ pc[t] = "idle" /\ Stash(t, o)
        /\ pc' = [pc EXCEPT ![t] = "open"] /\ cur' = [cur EXCEPT ![t] = OpenCall(o)]
        /\ used' = [used EXCEPT ![t] = {}] /\ result' = [result EXCEPT ![t] = "none"]
    BY <1>2, Zenon DEF TraceOpenat, OpenCall
  <2>2. intents' = IF Pid[t] # 1 /\ IntentOf(o) # {} THEN [intents EXCEPT ![t] = IntentOf(o)] ELSE intents
    BY <2>1, Zenon DEF Stash
  <2>3. CASE u = t
    <3>1. intents[t] = {}
      BY <2>1, Zenon DEF HandOver
    <3>2. pc'[u] = "open" /\ cur'[u] = OpenCall(o) /\ ~Judged(u)' /\ IntentOf(OpenCall(o)) = IntentOf(o)
      BY <2>1, <2>3, SameIntent, Zenon DEF HookInv, Judged
    <3>3. intents'[u] = IF Pid[t] # 1 /\ IntentOf(o) # {} THEN IntentOf(o) ELSE {}
      BY <2>2, <2>3, <3>1, Zenon DEF HookInv
    <3> QED BY <2>3, <3>2, <3>3, Zenon
  <2>4. CASE u # t
    BY <2>1, <2>2, <2>4, OthersHandOver, Zenon DEF HookInv
  <2> QED BY <2>3, <2>4, Zenon
<1>3. ASSUME NEW t \in Threads, LsmFileOpen(t)
      PROVE  /\ pc'[u] # "open" \/ Pid[u] = 1 => intents'[u] = {}
             /\ pc'[u] = "open" /\ Pid[u] # 1 => intents'[u] = IntentOf(cur'[u])
             /\ Judged(u)' => used'[u] = OwnIntent(u)'
  <2>1. /\ pc[t] = "open" /\ TakeIntent(t) /\ cur' = cur /\ \E r : Return(t, r)
    BY <1>3, Zenon DEF LsmFileOpen
  <2>2. /\ used'[t] = IF Pid[t] = 1 THEN {} ELSE intents[t]
        /\ intents'[t] = IF Pid[t] = 1 THEN intents[t] ELSE {}
    BY <2>1, Zenon DEF TakeIntent, HookInv
  <2>3. CASE u = t
    <3>1. pc'[t] # "open"
      BY <2>1, Returned, Zenon
    <3>2. cur[t].op = "open"
      BY <2>1, Zenon DEF HookInv, CallOk
    <3>3. OwnIntent(u)' = IF Pid[t] # 1 THEN IntentOf(cur[t]) ELSE {}
      BY <2>1, <2>3, <3>2, Zenon DEF OwnIntent, IntentOf
    <3> QED BY <2>1, <2>2, <2>3, <3>1, <3>3, Zenon DEF HandOver
  <2>4. CASE u # t
    BY <2>1, <2>4, OthersHandOver, Taken, Returned, ReturnedIdle, Zenon
  <2> QED BY <2>3, <2>4, ZenonT(30)
<1>4. ASSUME NEW t \in Threads, NEW x \in ExecsOf[t], Execve(t, x)
      PROVE  /\ pc'[u] # "open" \/ Pid[u] = 1 => intents'[u] = {}
             /\ pc'[u] = "open" /\ Pid[u] # 1 => intents'[u] = IntentOf(cur'[u])
             /\ Judged(u)' => used'[u] = OwnIntent(u)'
  <2>1. /\ pc[t] = "idle" /\ TakeIntent(t) /\ cur' = [cur EXCEPT ![t] = ExecCall(x)] /\ \E r : Return(t, r)
    BY <1>4, Zenon DEF Execve, ExecCall
  <2>2. intents[t] = {}
    BY <2>1, Zenon DEF HandOver
  <2>3. used'[t] = {} /\ intents'[t] = {}
    BY <2>1, <2>2, Zenon DEF TakeIntent, HookInv
  <2>4. CASE u = t
    <3>1. pc'[t] # "open"
      BY <2>1, Returned, Zenon
    <3>2. cur'[t] = ExecCall(x) /\ ExecCall(x).op = "exec"
      BY <2>1, Zenon DEF HookInv, ExecCall
    <3>3. OwnIntent(u)' = {}
      BY <2>4, <3>2, Zenon DEF OwnIntent
    <3> QED BY <2>3, <2>4, <3>1, <3>3, Zenon
  <2>5. CASE u # t
    <3>1. cur'[u] = cur[u]
      BY <2>1, <2>5, Zenon DEF HookInv
    <3> QED BY <2>1, <2>5, <3>1, OthersHandOver, Taken, Returned, ReturnedIdle, Zenon
  <2> QED BY <2>4, <2>5, Zenon
<1>5. ASSUME NEW p, ReuseIds(p)
      PROVE  /\ pc'[u] # "open" \/ Pid[u] = 1 => intents'[u] = {}
             /\ pc'[u] = "open" /\ Pid[u] # 1 => intents'[u] = IntentOf(cur'[u])
             /\ Judged(u)' => used'[u] = OwnIntent(u)'
  <2>1. /\ pc' = [t \in Threads |-> IF Pid[t] = p THEN "idle" ELSE pc[t]]
        /\ cur' = [t \in Threads |-> IF Pid[t] = p THEN NoCall ELSE cur[t]]
        /\ used' = [t \in Threads |-> IF Pid[t] = p THEN {} ELSE used[t]]
        /\ result' = [t \in Threads |-> IF Pid[t] = p THEN "none" ELSE result[t]]
        /\ intents' = intents /\ \A t \in Threads : Pid[t] = p => pc[t] # "open"
    BY <1>5, Zenon DEF ReuseIds
  <2>2. CASE Pid[u] = p
    <3>1. pc'[u] = "idle" /\ intents'[u] = {} /\ ~Judged(u)'
      BY <2>1, <2>2, Zenon DEF HandOver, Judged
    <3> QED BY <3>1, Zenon
  <2>3. CASE Pid[u] # p
    BY <2>1, <2>3, OthersHandOver, Zenon
  <2> QED BY <2>2, <2>3, ZenonT(30)
<1>6. ASSUME NEW t \in Threads, LookupFails(t)
      PROVE  FALSE
  BY <1>6, Zenon DEF LookupFails
<1>7. CASE UNCHANGED vars
  <2>1. UNCHANGED <<faults, policy, intents, pc, cur, used, result>>
    BY <1>7, Zenon DEF vars
  <2> QED BY <2>1, OthersHandOver, Zenon
<1> QED BY <1>2, <1>3, <1>4, <1>5, <1>6, <1>7, Zenon DEF Next

\* Whatever the threads of the guest's processes do, the file_open hook judges
\* every openat by the intent trace_openat worked out for that very call, and
\* an execve by none, as long as no lookup fails and the map has room.
THEOREM IntentsAreHandedOver == Spec => []IntentHandedOver
<1>1. Init => HookInv /\ HandOver
  <2> SUFFICES ASSUME Init
               PROVE  HandOver
    BY HookStart, Zenon
  <2> QED BY Zenon DEF Init, HandOver, Judged
<1>2. HookInv /\ HandOver /\ [Next]_vars => (HookInv /\ HandOver)'
  BY NextHook, NextHandOver, Zenon
<1>3. HandOver => IntentHandedOver
  BY Zenon DEF HandOver, IntentHandedOver, IntentIsOwn
<1> QED BY <1>1, <1>2, <1>3, PTL DEF Spec

\* The verdict behind an open that succeeded.
LEMMA OpenedBecause ==
  ASSUME HookInv, NEW t \in Threads, result[t] = "opened", cur[t].op = "open", Pid[t] # 1
  PROVE  /\ FileOpenVerdict(used[t], cur[t].file) = "ok"
         /\ "intent_full" \notin faults /\ IntentOf(cur[t]) # {} => used[t] = IntentOf(cur[t])
         /\ \E o \in OpensOf[t] : cur[t] = OpenCall(o)
<1>1. CallOk(t, cur[t], pc[t], intents[t], used[t], result[t])
  BY Zenon DEF HookInv
<1>2. /\ OpenResult(t, used[t], cur[t].file) = "opened"
      /\ "intent_full" \notin faults /\ IntentOf(cur[t]) # {} => used[t] = IntentOf(cur[t])
      /\ IsCall(t, cur[t])
  BY <1>1, Zenon DEF CallOk
<1>3. FileOpenVerdict(used[t], cur[t].file) = "ok"
  BY <1>2, ZenonT(30) DEF OpenResult, FileVerdict, FileOpenVerdict
<1>4. \E o \in OpensOf[t] : cur[t] = OpenCall(o)
  <2>1. NoCall.op # "open" /\ \A x : ExecCall(x).op # "open"
    BY Zenon DEF NoCall, ExecCall
  <2> QED BY <1>2, <2>1, Zenon DEF IsCall
<1> QED BY <1>2, <1>3, <1>4, Zenon

LEMMA OpenCallTypes ==
  ASSUME NEW t \in Threads, NEW o \in OpensOf[t]
  PROVE  /\ OpenCall(o).op = "open"
         /\ OpenCall(o).path \in Paths /\ OpenCall(o).write \in BOOLEAN /\ OpenCall(o).file \in Seq(STRING)
BY OpenHooksAssumption, Zenon DEF OpenCall, Segments

LEMMA TopOf ==
  ASSUME NEW file \in Seq(STRING), NEW D, file # <<>>, file[1] \in D
  PROVE  \E d \in D : SubSeq(file, 1, 1) = <<d>>
<1>1. Len(file) >= 1
  OBVIOUS
<1>2. /\ SubSeq(file, 1, 1) \in Seq(STRING) /\ Len(SubSeq(file, 1, 1)) = 1
      /\ SubSeq(file, 1, 1)[1] = file[1]
  BY <1>1
<1>3. <<file[1]>> \in Seq(STRING) /\ Len(<<file[1]>>) = 1 /\ <<file[1]>>[1] = file[1]
  BY <1>1
<1>4. \A s, u \in Seq(STRING) : Len(s) = 1 /\ Len(u) = 1 /\ s[1] = u[1] => s = u
  BY SeqEqual
<1>5. SubSeq(file, 1, 1) = <<file[1]>>
  BY <1>2, <1>3, <1>4, Zenon
<1> QED BY <1>5, Zenon

LEMMA ConfinedByHook ==
  ASSUME HookInv
  PROVE  OpensConfined
<1> SUFFICES ASSUME NEW t \in Threads, result[t] = "opened", cur[t].op = "open", Pid[t] # 1,
                    "intent_full" \notin faults, Len(cur[t].file) <= MaxKey
             PROVE  /\ cur[t].write =>
                           \E d \in WorkspaceLike \cup WritableDirs : SubSeq(cur[t].file, 1, 1) = <<d>>
                    /\ (cur[t].path.abs /\ \E i \in 2..Len(cur[t].path.segs) :
                            cur[t].path.segs[1] = "workspace" /\ cur[t].path.segs[i] = ".."
                                /\ i <= DotDotScan)
                       => \E d \in WorkspaceLike : SubSeq(cur[t].file, 1, 1) = <<d>>
  BY Zenon DEF OpensConfined
<1> PICK call : call = cur[t]
  BY Zenon
<1>1. /\ FileOpenVerdict(used[t], call.file) = "ok"
      /\ IntentOf(call) # {} => used[t] = IntentOf(call)
      /\ \E o \in OpensOf[t] : call = OpenCall(o)
  BY OpenedBecause, Zenon
<1>2. call.path \in Paths /\ call.write \in BOOLEAN /\ call.file \in Seq(STRING)
  BY <1>1, OpenCallTypes, Zenon
<1>3. IntentOf(call) # {} => IntentAllows(IntentOf(call), call.file)
  BY <1>1, Zenon DEF FileOpenVerdict, d_path_fits
<1>4. ASSUME call.write
      PROVE  \E d \in WorkspaceLike \cup WritableDirs : SubSeq(call.file, 1, 1) = <<d>>
  <2>1. "write" \in IntentOf(call)
    BY <1>4, Zenon DEF IntentOf
  <2>2. call.file # <<>> /\ call.file[1] \in WorkspaceLike \cup WritableDirs
    BY <1>2, <1>3, <2>1 DEF IntentAllows, path_starts_with_workspace
  <2> QED BY <1>2, <2>2, TopOf, Zenon
<1>5. ASSUME call.path.abs, NEW i \in 2..Len(call.path.segs),
             call.path.segs[1] = "workspace", call.path.segs[i] = "..", i <= DotDotScan
      PROVE  \E d \in WorkspaceLike : SubSeq(call.file, 1, 1) = <<d>>
  <2>1. call.path.segs \in Seq(STRING)
    BY <1>2, Zenon DEF Paths, Segments
  <2>2. call.path.segs # <<>> /\ i \in DOMAIN call.path.segs
    BY <2>1
  <2>3. path_starts_with_workspace(call.path.segs) /\ path_has_dotdot_segment(call.path.segs)
    BY <1>5, <2>2, OpenHooksAssumption, Zenon DEF path_starts_with_workspace, path_has_dotdot_segment
  <2>4. "traversal" \in IntentOf(call)
    BY <1>5, <2>3, Zenon DEF IntentOf
  <2>5. call.file # <<>> /\ call.file[1] \in WorkspaceLike
    BY <1>3, <2>4, Zenon DEF IntentAllows, path_starts_with_workspace
  <2> QED BY <1>2, <2>5, TopOf, Zenon
<1> QED BY <1>4, <1>5, Zenon

\* Whatever lookups failed before and whichever ids were reused, a stale
\* intent never stands in for the intent of an open that has one: every open
\* the hook lets through is within the directories its own intent allows.
THEOREM OpensAreConfined == Spec => []OpensConfined
BY HookStart, NextHook, ConfinedByHook, PTL DEF Spec

\* The files evaluate denies, when no rule is a glob.
LEMMA DeniedBecause ==
  ASSUME policy \in PolicyChoices, ~\E i \in DOMAIN policy : policy[i].glob,
         NEW file \in Seq(STRING), Len(file) <= MaxKey,
         evaluate(Path(TRUE, file)) = "deny"
  PROVE  file \in PathsWith("deny")
<1> DEFINE hits == {i \in DOMAIN policy : glob_match(policy[i], Path(TRUE, file))}
           k == CHOOSE i \in hits : \A j \in hits : i <= j
<1>1. policy \in Seq(FileRules)
  BY OpenHooksAssumption, Zenon
<1>2. hits \in SUBSET Nat
  <2>1. DOMAIN policy = 1..Len(policy) /\ Len(policy) \in Nat
    BY <1>1
  <2>2. hits \subseteq DOMAIN policy
    BY Zenon
  <2> HIDE DEF hits
  <2> QED BY <2>1, <2>2
<1>3. hits # {} /\ policy[k].action = "deny"
  BY Zenon DEF evaluate
<1>4. k \in hits
  <2> HIDE DEF hits
  <2> QED BY <1>2, <1>3, Least, Zenon
<1>5. k \in DOMAIN policy /\ policy[k].dir = file /\ ~policy[k].glob
  BY <1>4, Zenon DEF glob_match, Path
<1> HIDE DEF k
<1>6. path_to_map_key(policy[k].dir) = file
  BY <1>5, OpenHooksAssumption DEF path_to_map_key
<1> QED BY <1>3, <1>5, <1>6, Zenon DEF PathsWith

LEMMA ClosedByHook ==
  ASSUME HookInv
  PROVE  DeniedStaysClosed
<1> SUFFICES ASSUME NEW t \in Threads, Pid[t] # 1 \/ cur[t].op = "exec",
                    result[t] = "opened", Len(cur[t].file) <= MaxKey,
                    ~\E i \in DOMAIN policy :
                        policy[i].action = "allow" /\ path_to_map_key(policy[i].dir) = cur[t].file,
                    ~\E i \in DOMAIN policy : policy[i].glob,
                    evaluate(Path(TRUE, cur[t].file)) = "deny"
             PROVE  FALSE
  BY Zenon DEF DeniedStaysClosed
<1> PICK call : call = cur[t]
  BY Zenon
<1>1. CallOk(t, call, pc[t], intents[t], used[t], result[t]) /\ policy \in PolicyChoices
  BY Zenon DEF HookInv
<1>2. IsCall(t, call) /\ call.op # "none"
  BY <1>1, Zenon DEF CallOk
<1>3. PICK x : \/ x \in OpensOf[t] /\ call = OpenCall(x)
               \/ x \in ExecsOf[t] /\ call = ExecCall(x)
  BY <1>2 DEF IsCall, NoCall
<1>4. call.file \in Seq(STRING) /\ call.op \in {"open", "exec"}
  BY <1>3, OpenHooksAssumption DEF OpenCall, ExecCall, Segments
<1>5. call.file \in PathsWith("deny")
  BY <1>1, <1>4, DeniedBecause, Zenon
<1>6. call.file \notin PathsWith("allow")
  BY Zenon DEF PathsWith
<1>7. CASE call.op = "open"
  <2>1. FileOpenVerdict(used[t], call.file) = "ok"
    BY <1>7, OpenedBecause, Zenon
  <2> QED BY <1>5, <1>6, <2>1, Zenon DEF FileOpenVerdict, d_path_fits
<1>8. CASE call.op = "exec"
  <2>1. ExecResult(t, used[t], call.path, call.file) = "opened"
    BY <1>1, <1>8, Zenon DEF CallOk
  <2>2. BprmVerdict(call.path, call.file) \in {"ok", "denied"}
    BY Zenon DEF BprmVerdict
  <2>3. FileVerdict(t, used[t], call.file) # "opened"
    BY Zenon DEF FileVerdict, FileOpenVerdict
  <2>4. BprmVerdict(call.path, call.file) = "ok"
    BY <2>1, <2>2, <2>3, Zenon DEF ExecResult
  <2> QED BY <1>5, <1>6, <2>4, Zenon DEF BprmVerdict, d_path_fits
<1> QED BY <1>4, <1>7, <1>8, Zenon

\* A file that SecurityPolicy::evaluate denies by a rule without a glob is in
\* DENIED_PATHS, so neither hook lets it be opened or executed, for every
\* policy, thread and order of calls.
THEOREM DeniedFilesStayClosed == Spec => []DeniedStaysClosed
BY HookStart, NextHook, ClosedByHook, PTL DEF Spec

LEMMA CallPaths ==
  ASSUME HookInv, NEW t \in Threads, cur[t].op = "open"
  PROVE  /\ cur[t].path.abs \in BOOLEAN /\ cur[t].path.segs \in Seq(STRING)
         /\ cur[t].write \in BOOLEAN /\ cur[t].file \in Seq(STRING)
<1>1. IsCall(t, cur[t])
  BY Zenon DEF HookInv, CallOk
<1>2. NoCall.op # "open" /\ \A x : ExecCall(x).op # "open"
  BY Zenon DEF NoCall, ExecCall
<1>3. PICK o \in OpensOf[t] : cur[t] = OpenCall(o)
  BY <1>1, <1>2, Zenon DEF IsCall
<1>4. cur[t].path \in Paths /\ cur[t].write \in BOOLEAN /\ cur[t].file \in Seq(STRING)
  BY <1>3, OpenCallTypes, Zenon
<1> QED BY <1>4, Zenon DEF Paths, Segments

\* normalize_path computes the lexical target of every path, of any length,
\* and leaves alone what it returns.
THEOREM PathsNormalize == Spec => []NormalizeIsLexical
<1>1. HookInv => NormalizeIsLexical
  <2> SUFFICES ASSUME HookInv, NEW t \in Threads, cur[t].op = "open"
               PROVE  /\ normalize_path(cur[t].path) = LexicalTarget(cur[t].path)
                      /\ normalize_path(normalize_path(cur[t].path)) = normalize_path(cur[t].path)
    BY Zenon DEF NormalizeIsLexical
  <2> PICK path : path = cur[t].path
    BY Zenon
  <2>1. path.abs \in BOOLEAN /\ path.segs \in Seq(STRING)
    BY CallPaths, Zenon
  <2> QED BY <2>1, NormalizeFindsTarget, NormalizeIsIdempotent
<1> QED BY <1>1, HookStart, NextHook, PTL DEF Spec

(***************************************************************************)
(* The hooks and detect_violation on the same path.                        *)
(***************************************************************************)
\* What the kernel calls the file of a plain call.
LEMMA CanonicalNames ==
  ASSUME NEW path, path.abs \in BOOLEAN, path.segs \in Seq(STRING),
         NEW segs, segs = normalize_path(path).segs, NEW file, file = Canonical(path)
  PROVE  /\ segs \in Seq(STRING) /\ Len(file) = Len(segs)
         /\ \A i \in 1..Len(segs) : i # 2 => file[i] = segs[i]
         /\ 2 \in 1..Len(segs) => file[2] = IF segs[1] = "proc" /\ segs[2] = "self" THEN SelfName ELSE segs[2]
<1>1. segs \in Seq(STRING)
  BY NormalizedIsSegments
<1>2. file = [i \in DOMAIN segs |-> IF i = 2 /\ segs[1] = "proc" /\ segs[2] = "self" THEN SelfName ELSE segs[i]]
  BY Zenon DEF Canonical
<1>3. DOMAIN segs = 1..Len(segs) /\ Len(segs) \in Nat
  BY <1>1
<1>4. DOMAIN file = 1..Len(segs)
  BY <1>2, <1>3, Zenon
<1>5. Len(file) = Len(segs)
  BY <1>3, <1>4
<1>6. \A i \in 1..Len(segs) :
         file[i] = IF i = 2 /\ segs[1] = "proc" /\ segs[2] = "self" THEN SelfName ELSE segs[i]
  BY <1>2, <1>3, Zenon
<1> QED BY <1>1, <1>5, <1>6, Zenon

\* Dentries are called what the path calls them down to the root of the file
\* system the file is in.
LEMMA Mounted ==
  ASSUME NEW file \in Seq(STRING)
  PROVE  \E root \in MountRoots :
             /\ root \in Seq(STRING) /\ IsPrefix(root, file)
             /\ \A i \in Nat : Len(file) - i > Len(root) => DentryName(file, i) = file[Len(file) - i]
             /\ \A i \in Nat : Len(file) - i = Len(root) => DentryName(file, i) = "/"
<1> DEFINE Root(m) == IsPrefix(m, file) /\ \A n \in MountRoots : IsPrefix(n, file) => Len(n) <= Len(m)
           root == CHOOSE m \in MountRoots : Root(m)
           above == {m \in MountRoots : IsPrefix(m, file)}
           lens == {Len(m) + 1 : m \in above}
<1>1. \A m \in MountRoots : m \in Seq(STRING) /\ Len(m) \in Nat
  BY OpenHooksAssumption DEF Segments
<1>2. <<>> \in above
  <2>1. SubSeq(<<>>, 1, Len(<<>>)) = <<>> /\ SubSeq(file, 1, Len(<<>>)) = <<>> /\ Len(<<>>) <= Len(file)
    BY SubSeqEmpty
  <2> QED BY <2>1, OpenHooksAssumption DEF IsPrefix
<1>3. \A m \in above : Len(m) + 1 \in 1..(Len(file) + 1)
  BY <1>1 DEF IsPrefix
<1>4. lens \in SUBSET (1..(Len(file) + 1)) /\ lens # {} /\ Len(file) + 1 \in Nat
  <2>1. Len(file) + 1 \in Nat
    OBVIOUS
  <2> QED BY <1>2, <1>3, <2>1, Zenon
<1>5. Max(lens) \in lens /\ \A y \in lens : Max(lens) >= y
  BY <1>4, Greatest, Zenon
<1>6. PICK m \in above : Max(lens) = Len(m) + 1
  BY <1>5, Zenon
<1>7. \A n \in above : Len(n) <= Len(m)
  <2> TAKE n \in above
  <2>1. Len(m) + 1 >= Len(n) + 1 /\ Len(n) \in Nat /\ Len(m) \in Nat
    BY <1>1, <1>5, <1>6, Zenon
  <2> QED BY ONLY <2>1
<1>8. root \in MountRoots /\ Root(root)
  BY <1>6, <1>7, Zenon
<1> HIDE DEF root
<1>9. \A i \in Nat : DentryName(file, i) = CASE Len(file) - i > Len(root) -> file[Len(file) - i]
                                             [] Len(file) - i = Len(root) -> "/"
                                             [] OTHER -> ""
  BY Zenon DEF DentryName, root
<1>10. ASSUME NEW i \in Nat, Len(file) - i > Len(root) PROVE DentryName(file, i) = file[Len(file) - i]
  <2>1. Len(file) - i # Len(root)
    BY <1>1, <1>8, <1>10
  <2> QED BY <1>9, <1>10, <2>1, Zenon
<1>11. ASSUME NEW i \in Nat, Len(file) - i = Len(root) PROVE DentryName(file, i) = "/"
  <2>1. ~(Len(file) - i > Len(root))
    BY <1>1, <1>8, <1>11
  <2> QED BY <1>9, <1>11, <2>1, Zenon
<1> QED BY <1>1, <1>8, <1>10, <1>11, Zenon

\* No file system is mounted on the way from /proc/<pid> to a leaf.
LEMMA ProcDentries ==
  ASSUME NEW file \in Seq(STRING), Len(file) \in {3, 4}, file[1] = "proc"
  PROVE  /\ DentryName(file, 0) = file[Len(file)] /\ DentryName(file, 1) = file[Len(file) - 1]
         /\ Len(file) = 3 => DentryName(file, 2) \in {"proc", "/"}
         /\ Len(file) = 4 => DentryName(file, 2) = file[2]
<1>1. PICK root \in MountRoots :
             /\ root \in Seq(STRING) /\ IsPrefix(root, file)
             /\ \A i \in Nat : Len(file) - i > Len(root) => DentryName(file, i) = file[Len(file) - i]
             /\ \A i \in Nat : Len(file) - i = Len(root) => DentryName(file, i) = "/"
  BY Mounted, Zenon
<1>2. Len(root) \in Nat /\ (Len(root) > 1 => root[1] # "proc") /\ (root = <<>> => Len(root) = 0)
  BY <1>1, OpenHooksAssumption
<1>3. Len(root) <= 1
  <2>1. CASE root = <<>>
    BY <1>2, <2>1
  <2>2. CASE root # <<>>
    <3>1. root[1] = file[1]
      BY <1>1, <2>2, PrefixHead, Zenon
    <3> QED BY <1>2, <3>1
  <2> QED BY <2>1, <2>2, Zenon
<1> PICK k, n : k = Len(root) /\ n = Len(file)
  BY Zenon
<1>0. k \in Nat /\ k <= 1 /\ n \in {3, 4}
  BY <1>2, <1>3, Zenon
<1>4. Len(file) - 0 > Len(root) /\ Len(file) - 1 > Len(root) /\ Len(file) - 0 = Len(file)
  <2>1. n - 0 > k /\ n - 1 > k /\ n - 0 = n
    BY ONLY <1>0
  <2> QED BY <2>1, Zenon
<1>5. DentryName(file, 0) = file[Len(file)] /\ DentryName(file, 1) = file[Len(file) - 1]
  BY <1>1, <1>4
<1>6. CASE Len(file) = 3
  <2>1. (Len(file) - 2 > Len(root) /\ Len(file) - 2 = 1) \/ Len(file) - 2 = Len(root)
    <3>1. n = 3 => (n - 2 > k /\ n - 2 = 1) \/ n - 2 = k
      BY ONLY <1>0
    <3> QED BY <1>6, <3>1, Zenon
  <2>2. DentryName(file, 2) \in {"proc", "/"}
    BY <1>1, <2>1
  <2> QED BY <1>5, <1>6, <2>2
<1>7. CASE Len(file) = 4
  <2>1. Len(file) - 2 > Len(root) /\ Len(file) - 2 = 2
    BY <1>2, <1>3, <1>7
  <2>2. DentryName(file, 2) = file[2]
    BY <1>1, <2>1
  <2> QED BY <1>5, <1>7, <2>2
<1> QED BY <1>6, <1>7, Zenon

\* What the hook's checks on names come to for a file of a process.
LEMMA ProcFileBlocked ==
  ASSUME NEW file \in Seq(STRING), ProcFile(file)
  PROVE  BlockedNames(DentryName(file, 0), DentryName(file, 1), DentryName(file, 2))
             <=> Len(file) = 4 \/ file[3] \in ProcDangerNames
<1>1. /\ Len(file) = 3 \/ (Len(file) = 4 /\ file[3] = "ns")
      /\ file[1] = "proc" /\ file[2] \in PidNames /\ file[Len(file)] \notin ProcSensitiveLeaves
  BY Zenon DEF ProcFile, Last
<1>2. /\ DentryName(file, 0) = file[Len(file)] /\ DentryName(file, 1) = file[Len(file) - 1]
      /\ Len(file) = 3 => DentryName(file, 2) \in {"proc", "/"}
      /\ Len(file) = 4 => DentryName(file, 2) = file[2]
  <2>1. Len(file) \in {3, 4}
    BY <1>1
  <2> QED BY <1>1, <2>1, ProcDentries, Zenon
<1>3. file[2] \notin {"dev", "fd", "ns"}
  BY <1>1, OpenHooksAssumption, Zenon
<1>4. CASE Len(file) = 3
  <2>1. /\ DentryName(file, 0) = file[3] /\ DentryName(file, 1) = file[2]
        /\ DentryName(file, 2) \in {"proc", "/"} /\ file[3] \notin ProcSensitiveLeaves
    BY <1>1, <1>2, <1>4
  <2> HIDE DEF ProcSensitiveLeaves, ProcDangerNames, DevSensitiveLeaves
  <2>2. "dev" \notin {DentryName(file, 1), DentryName(file, 2)}
    BY <1>3, <2>1
  <2>3. BlockedNames(DentryName(file, 0), DentryName(file, 1), DentryName(file, 2))
            <=> file[3] \in ProcDangerNames
    BY <1>1, <1>3, <2>1, <2>2, Zenon DEF BlockedNames
  <2>4. Len(file) # 4
    BY <1>4
  <2> QED BY <2>3, <2>4, Zenon
<1>5. CASE Len(file) = 4
  <2>1. DentryName(file, 1) = "ns" /\ DentryName(file, 2) \in PidNames
    BY <1>1, <1>2, <1>5
  <2> QED BY <1>5, <2>1, Zenon DEF BlockedNames
<1> QED BY <1>1, <1>4, <1>5, Zenon

\* What the hook's checks on names make of the kernel interfaces.
LEMMA SensitiveBlocked ==
  ASSUME NEW file \in Seq(STRING), file \in SensitiveInterfaces \ HookMisses
  PROVE  BlockedNames(DentryName(file, 0), DentryName(file, 1), DentryName(file, 2))
<1>1. /\ Len(file) \in Nat \ {0}
      /\ \/ file[Len(file)] \in ProcSensitiveLeaves
         \/ /\ Len(file) = 2 /\ file[1] = "dev" /\ file[2] \in DevSensitiveLeaves
            /\ <<"dev">> \notin MountRoots
  <2>1. file \in {<<"proc", "kallsyms">>, <<"proc", "kcore">>, <<"sys", "kernel", "btf", "vmlinux">>}
        \/ (file \in {<<"dev", "mem">>, <<"dev", "kmem">>, <<"dev", "port">>, <<"dev", "kmsg">>}
                /\ ~(file[1] = "dev" /\ <<"dev">> \in MountRoots))
    BY Zenon DEF SensitiveInterfaces, HookMisses
  <2>2. CASE file \in {<<"proc", "kallsyms">>, <<"proc", "kcore">>, <<"sys", "kernel", "btf", "vmlinux">>}
    <3>1. \/ Len(file) = 2 /\ file[2] \in {"kallsyms", "kcore"}
          \/ Len(file) = 4 /\ file[4] = "vmlinux"
      BY ONLY <2>2
    <3> QED BY <3>1 DEF ProcSensitiveLeaves
  <2>3. CASE file \in {<<"dev", "mem">>, <<"dev", "kmem">>, <<"dev", "port">>, <<"dev", "kmsg">>}
    <3>1. Len(file) = 2 /\ Len(file) \in Nat \ {0} /\ file[1] = "dev" /\ file[2] \in DevSensitiveLeaves
      BY ONLY <2>3 DEF DevSensitiveLeaves
    <3>2. file \notin {<<"proc", "kallsyms">>, <<"proc", "kcore">>, <<"sys", "kernel", "btf", "vmlinux">>}
      BY ONLY <3>1
    <3> QED BY <2>1, <3>1, <3>2, Zenon
  <2> QED BY <2>1, <2>2, <2>3, Zenon
<1>2. PICK root \in MountRoots :
             /\ root \in Seq(STRING) /\ IsPrefix(root, file)
             /\ \A i \in Nat : Len(file) - i > Len(root) => DentryName(file, i) = file[Len(file) - i]
             /\ \A i \in Nat : Len(file) - i = Len(root) => DentryName(file, i) = "/"
  BY <1>1, Mounted, Zenon
<1>3. root # file
  BY <1>2, OpenHooksAssumption, Zenon
<1>4. Len(root) \in Nat /\ Len(root) < Len(file)
  <2>1. Len(root) \in Nat /\ Len(root) <= Len(file)
    BY <1>1, <1>2 DEF IsPrefix
  <2>2. Len(root) # Len(file)
    <3>1. Len(root) = Len(file) => SubSeq(root, 1, Len(root)) = SubSeq(file, 1, Len(file))
      BY <1>2, Zenon DEF IsPrefix
    <3>2. SubSeq(root, 1, Len(root)) = root /\ SubSeq(file, 1, Len(file)) = file
      BY <1>1, <1>2, SubSeqFull
    <3> QED BY <1>3, <3>1, <3>2, Zenon
  <2> QED BY <1>1, <2>1, <2>2
<1>5. DentryName(file, 0) = file[Len(file)]
  <2>1. Len(file) - 0 > Len(root) /\ Len(file) - 0 = Len(file) /\ 0 \in Nat
    BY <1>1, <1>4
  <2> QED BY <1>2, <2>1, Zenon
<1>6. CASE Len(file) = 2 /\ file[1] = "dev" /\ file[2] \in DevSensitiveLeaves /\ <<"dev">> \notin MountRoots
  <2>1. Len(root) # 1
    <3> SUFFICES ASSUME Len(root) = 1 PROVE FALSE
      BY Zenon
    <3>1. root[1] = "dev"
      <4>1. Len(<<>>) # 1
        OBVIOUS
      <4> QED BY <1>1, <1>2, <1>6, <4>1, PrefixHead, Zenon
    <3>2. root = <<"dev">>
      BY <1>2, <3>1
    <3> QED BY <1>2, <1>6, <3>2, Zenon
  <2>2. Len(file) - 1 > Len(root) /\ Len(file) - 1 = 1 /\ 1 \in Nat
    <3> PICK k, n : k = Len(root) /\ n = Len(file)
      BY Zenon
    <3>1. k \in Nat /\ k < n /\ n = 2 /\ k # 1
      BY <1>4, <1>6, <2>1, Zenon
    <3>2. n - 1 > k /\ n - 1 = 1 /\ 1 \in Nat
      BY ONLY <3>1
    <3> QED BY <3>2, Zenon
  <2>3. DentryName(file, 1) = "dev"
    BY <1>2, <1>6, <2>2, Zenon
  <2> QED BY <1>5, <1>6, <2>3, Zenon DEF BlockedNames
<1> QED BY <1>1, <1>5, <1>6, Zenon DEF BlockedNames

\* What the host's rules come to for a file of a process.
LEMMA ProcFileReported ==
  ASSUME NEW path, NEW write, NEW norm, norm = normalize_path(path), norm.abs,
         NEW segs \in Seq(STRING), segs = norm.segs, segs[1] = "proc",
         segs[2] = "self" \/ segs[2] \in PidNames,
         Len(segs) = 3 \/ (Len(segs) = 4 /\ segs[3] = "ns")
  PROVE  FileViolation(path, write) \in Introspection
             <=> Len(segs) = 4 \/ segs[3] \in SensitiveLeaves
<1>1. (Len(segs) = 3 \/ Len(segs) = 4) /\ Len(segs) > 2 /\ (Len(segs) > 3 <=> Len(segs) = 4)
      /\ ~(Len(segs) = 3 /\ Len(segs) = 4)
  <2>1. \A n : n = 3 \/ n = 4 => n > 2 /\ (n > 3 <=> n = 4) /\ ~(n = 3 /\ n = 4)
    BY ONLY TRUE
  <2> QED BY <2>1, Zenon
<1>7. norm.segs \notin SensitiveInterfaces
  <2>1. ASSUME segs \in SensitiveInterfaces
        PROVE  Len(segs) = 2 \/ (Len(segs) = 4 /\ segs[3] \in {"kernel", "btf"})
    BY ONLY <2>1 DEF SensitiveInterfaces
  <2>2. \A n : n = 2 => n # 3 /\ n # 4
    BY ONLY TRUE
  <2> QED BY <1>1, <2>1, <2>2, Zenon
<1>2. ProcOf(norm) \in {"self", "other"}
  BY <1>1, Zenon DEF ProcOf
<1>3. InNamespaceDir(norm) <=> Len(segs) = 4
  BY <1>1, <1>2, Zenon DEF InNamespaceDir
<1>4. CASE Len(segs) = 4
  <2>1. FileViolation(path, write) = "namespace_escape_attempt"
    BY <1>3, <1>4, <1>7, Zenon DEF FileViolation
  <2> QED BY <1>4, <2>1, Zenon DEF Introspection
<1>5. CASE Len(segs) = 3 /\ segs[3] \in SensitiveLeaves
  <2>1. ~InNamespaceDir(norm) /\ classify_proc_memory_path(norm) \in {"self", "other"}
    BY <1>1, <1>2, <1>3, <1>5, Zenon DEF classify_proc_memory_path
  <2>2. FileViolation(path, write) \in {"self_process_introspection", "cross_process_memory"}
    BY <1>7, <2>1, Zenon DEF FileViolation
  <2> QED BY <1>5, <2>2, Zenon DEF Introspection
<1>6. CASE Len(segs) = 3 /\ segs[3] \notin SensitiveLeaves
  <2>1. ~InNamespaceDir(norm) /\ classify_proc_memory_path(norm) = "none"
    BY <1>1, <1>3, <1>6, Zenon DEF classify_proc_memory_path
  <2>2. FileViolation(path, write) \in
            {"sensitive_kernel_access", "path_traversal_attempt", "write_outside_workspace", "none"}
    BY <2>1, Zenon DEF FileViolation
  <2> QED BY <1>1, <1>6, <2>2, Zenon DEF Introspection
<1> QED BY <1>1, <1>4, <1>5, <1>6, Zenon

LEMMA WritesAllowedByHost ==
  ASSUME NEW norm, norm.segs \in Seq(STRING), is_allowed_device_write(norm)
  PROVE  Len(norm.segs) > 1 /\ norm.segs[1] \in WritableDirs
<1>1. CASE norm.segs \in {<<"dev", "null">>, <<"dev", "zero">>,
           <<"dev", "urandom">>, <<"dev", "random">>, <<"dev", "tty">>,
           <<"dev", "stdin">>, <<"dev", "stdout">>, <<"dev", "stderr">>,
           <<"dev", "fd", "1">>, <<"dev", "fd", "2">>}
  <2>1. Len(norm.segs) > 1 /\ norm.segs[1] = "dev"
    BY ONLY <1>1
  <2> QED BY <2>1, Zenon DEF WritableDirs
<1>2. CASE Beneath(norm, <<"proc", "self", "fd">>)
  <2>1. IsPrefix(<<"proc", "self", "fd">>, norm.segs)
    BY <1>2, Zenon DEF Beneath, IsStrictPrefix
  <2>2. Len(norm.segs) \in Nat /\ Len(norm.segs) >= 3 /\ norm.segs[1] = "proc"
    BY <2>1, PrefixThree, Zenon
  <2> QED BY <2>2 DEF WritableDirs
<1>3. CASE Beneath(norm, <<"tmp">>) \/ Beneath(norm, <<"run">>)
  <2>1. PICK d \in {"tmp", "run"} : Beneath(norm, <<d>>)
    BY <1>3, Zenon
  <2>2. Len(norm.segs) > 1 /\ norm.segs[1] = d
    BY <2>1, StrictlyBeneath, Zenon
  <2> QED BY <2>2, Zenon DEF WritableDirs
<1> QED BY <1>1, <1>2, <1>3, Zenon DEF is_allowed_device_write

LEMMA HostAgrees ==
  ASSUME HookInv
  PROVE  HooksAgreeWithHost
<1> SUFFICES ASSUME NEW t \in Threads, Plain(t), Judged(t)
             PROVE  /\ ProcFile(cur[t].file) /\ result[t] # "killed_intent" =>
                          (result[t] = "killed_leaf" <=> HostRule(t) \in Introspection)
                    /\ result[t] = "opened" /\ HostRule(t) = "sensitive_kernel_access" =>
                          cur[t].file \in HookMisses
                    /\ result[t] = "killed_intent" /\ used[t] = OwnIntent(t) => HostRule(t) # "none"
  BY Zenon DEF HooksAgreeWithHost
<1> PICK call, path, norm, segs, file :
        /\ call = cur[t] /\ path = call.path /\ norm = normalize_path(path)
        /\ segs = norm.segs /\ file = call.file
  BY Zenon
<1>1. call.op = "open" /\ path.abs /\ file = Canonical(path)
  BY Zenon DEF Plain
<1>2. path.abs \in BOOLEAN /\ path.segs \in Seq(STRING) /\ call.write \in BOOLEAN /\ file \in Seq(STRING)
  BY <1>1, CallPaths, Zenon
<1>3. /\ segs \in Seq(STRING) /\ Len(file) = Len(segs)
      /\ \A i \in 1..Len(segs) : i # 2 => file[i] = segs[i]
      /\ 2 \in 1..Len(segs) => file[2] = IF segs[1] = "proc" /\ segs[2] = "self" THEN SelfName ELSE segs[2]
  <2>1. /\ path.abs \in BOOLEAN /\ path.segs \in Seq(STRING)
        /\ segs = normalize_path(path).segs /\ file = Canonical(path)
    BY <1>1, <1>2, Zenon
  <2> QED BY ONLY <2>1, CanonicalNames
<1>4. norm.abs = path.abs
  BY <1>2, NormalizedIsSegments
<1>5. HostRule(t) = IF Pid[t] # 1 THEN FileViolation(path, call.write) ELSE "none"
  BY ZenonT(30) DEF HostRule, detect_violation
<1>6. CallOk(t, call, pc[t], intents[t], used[t], result[t])
  BY Zenon DEF HookInv
<1>9. result[t] = IF Pid[t] = 1 \/ FileOpenVerdict(used[t], file) = "ok"
                  THEN "opened" ELSE FileOpenVerdict(used[t], file)
  <2>1. result[t] = OpenResult(t, used[t], file)
    BY <1>1, <1>6, Zenon DEF CallOk, Judged
  <2> QED BY <2>1, Zenon DEF OpenResult, FileVerdict
<1> DEFINE blocked == BlockedNames(DentryName(file, 0), DentryName(file, 1), DentryName(file, 2))
<1>7. ASSUME ProcFile(file), result[t] # "killed_intent"
      PROVE  result[t] = "killed_leaf" <=> HostRule(t) \in Introspection
  <2>1. /\ Len(file) = 3 \/ (Len(file) = 4 /\ file[3] = "ns")
        /\ file[1] = "proc" /\ file[2] \in PidNames
    BY <1>7, Zenon DEF ProcFile
  <2>2. 1 \in 1..Len(segs) /\ 2 \in 1..Len(segs) /\ 3 \in 1..Len(segs) /\ 1 # 2 /\ 3 # 2
    <3>1. \A n : n = 3 \/ n = 4 => 1 \in 1..n /\ 2 \in 1..n /\ 3 \in 1..n /\ 1 # 2 /\ 3 # 2
      BY ONLY TRUE
    <3> QED BY <1>3, <2>1, <3>1, Zenon
  <2>3. /\ Len(segs) = 3 \/ (Len(segs) = 4 /\ segs[3] = "ns")
        /\ segs[1] = "proc" /\ (segs[2] = "self" \/ segs[2] \in PidNames) /\ segs[3] = file[3]
    BY <1>3, <2>1, <2>2, Zenon
  <2>4. FileViolation(path, call.write) \in Introspection <=> Len(segs) = 4 \/ segs[3] \in SensitiveLeaves
    BY <1>1, <1>3, <1>4, <2>3, ProcFileReported, Zenon
  <2>5. blocked <=> Len(file) = 4 \/ file[3] \in ProcDangerNames
    BY <1>2, <1>7, ProcFileBlocked, Zenon
  <2>6. SensitiveLeaves = ProcDangerNames
    BY Zenon DEF SensitiveLeaves, ProcDangerNames
  <2>7. FileViolation(path, call.write) \in Introspection <=> blocked
    BY <1>3, <2>3, <2>4, <2>5, <2>6, Zenon
  <2> HIDE DEF blocked
  <2>8. CASE Pid[t] = 1
    BY <1>5, <1>9, <2>8, Zenon DEF Introspection
  <2>9. CASE Pid[t] # 1
    <3>1. FileOpenVerdict(used[t], file) # "killed_intent"
      BY <1>7, <1>9, <2>9, Zenon
    <3>2. FileOpenVerdict(used[t], file) = "killed_leaf" <=> blocked
      BY <3>1, ZenonT(30) DEF FileOpenVerdict, blocked
    <3> QED BY <1>5, <1>9, <2>7, <2>9, <3>2, Zenon
  <2> QED BY <2>8, <2>9, Zenon
<1>10. ASSUME result[t] = "opened", HostRule(t) = "sensitive_kernel_access"
       PROVE  file \in HookMisses
  <2>1. Pid[t] # 1 /\ FileViolation(path, call.write) = "sensitive_kernel_access"
    BY <1>5, <1>10, Zenon
  <2>2. segs \in SensitiveInterfaces
    BY <2>1, Zenon DEF FileViolation
  <2>3. ~(segs[1] = "proc" /\ segs[2] = "self")
    <3>1. segs[1] = "proc" => segs[2] \in {"kallsyms", "kcore", "sysrq-trigger", "sys"}
      BY ONLY <2>2 DEF SensitiveInterfaces
    <3> QED BY <3>1, Zenon
  <2>4. file = segs
    <3>1. \A i \in 1..Len(segs) : file[i] = segs[i]
      BY <1>3, <2>3, Zenon
    <3> QED BY <1>2, <1>3, <3>1, SeqEqual
  <2>5. FileOpenVerdict(used[t], file) = "ok"
    BY <1>1, <1>10, <2>1, OpenedBecause, Zenon
  <2>6. ~blocked
    BY <2>5, ZenonT(30) DEF FileOpenVerdict
  <2> QED BY <1>2, <2>2, <2>4, <2>6, SensitiveBlocked, Zenon
<1>8. ASSUME result[t] = "killed_intent", used[t] = OwnIntent(t), HostRule(t) = "none"
      PROVE  FALSE
  <2>1. OpenResult(t, used[t], file) = "killed_intent"
    BY <1>1, <1>6, <1>8, Zenon DEF CallOk
  <2>2. Pid[t] # 1 /\ FileOpenVerdict(used[t], file) = "killed_intent"
    BY <2>1, Zenon DEF OpenResult, FileVerdict
  <2>3. used[t] = IntentOf(call)
    BY <1>1, <1>8, <2>2, Zenon DEF OwnIntent
  <2>4. ~IntentAllows(IntentOf(call), file)
    BY <2>2, <2>3, ZenonT(30) DEF FileOpenVerdict
  <2>5. FileViolation(path, call.write) = "none"
    BY <1>5, <1>8, <2>2, Zenon
  <2>6. /\ HasDotDot(path) => InWorkspace(norm)
        /\ call.write => InWorkspace(norm) \/ is_allowed_device_write(norm)
    BY <1>1, <2>5, Zenon DEF FileViolation
  <2>7. InWorkspace(norm) => path_starts_with_workspace(file)
    <3> SUFFICES ASSUME InWorkspace(norm)
                 PROVE  path_starts_with_workspace(file)
      BY Zenon
    <3>1. IsPrefix(<<"workspace">>, segs)
      BY Zenon DEF InWorkspace
    <3>2. Len(segs) \in Nat /\ Len(segs) >= 1 /\ segs[1] = "workspace"
      BY <1>3, <3>1, PrefixOne, Zenon
    <3>3. file # <<>> /\ file[1] = "workspace"
      BY <1>2, <1>3, <3>2
    <3> QED BY <3>3, OpenHooksAssumption, Zenon DEF path_starts_with_workspace
  <2>8. is_allowed_device_write(norm) => Len(file) > 1 /\ file[1] \in WritableDirs
    <3> SUFFICES ASSUME is_allowed_device_write(norm)
                 PROVE  Len(file) > 1 /\ file[1] \in WritableDirs
      BY Zenon
    <3>1. Len(segs) > 1 /\ segs[1] \in WritableDirs
      BY <1>3, WritesAllowedByHost, Zenon
    <3> QED BY <1>3, <3>1
  <2>9. "traversal" \in IntentOf(call) => HasDotDot(path)
    BY Zenon DEF IntentOf, path_has_dotdot_segment, HasDotDot
  <2>10. "write" \in IntentOf(call) => call.write
    BY Zenon DEF IntentOf
  <2> QED BY <2>4, <2>6, <2>7, <2>8, <2>9, <2>10, Zenon DEF IntentAllows
<1> QED BY <1>7, <1>8, <1>10, Zenon

\* The hooks' view of a path, by the names of dentries, and the host's, by its
\* normalized text, agree for every path, mounts and limits: on the files of the
\* processes in /proc both ways, on the kernel interfaces but for those the hook
\* does not know, and on what is killed for its intent.  (try_lsm_file_open and
\* detect_violation.)
THEOREM HooksAndHostAgree == Spec => []HooksAgreeWithHost
BY HookStart, NextHook, HostAgrees, PTL DEF Spec

=============================================================================
