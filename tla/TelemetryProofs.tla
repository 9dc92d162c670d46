-------------------------- MODULE TelemetryProofs --------------------------
(***************************************************************************)
(* The order of the session log, the dedup of opens and the gap count of   *)
(* the tracer, for any number of CPUs and events, any capacities and any   *)
(* succession of connections.                                              *)
(***************************************************************************)
EXTENDS Telemetry, FiniteSetTheorems, TLAPS

(***************************************************************************)
(* The stages of the pipeline as one row of queues, from the log (0) back  *)
(* to the ring buffer (4).                                                 *)
(***************************************************************************)

\* Event i may stand before event j.
Before(e, i, j) == i # j /\ (e[i].from = e[j].from => i < j)

Slots == 0..4

Sorted(q, e) ==
    /\ \A n \in Slots : \A a, b \in 1..Len(q[n]) : a < b => Before(e, q[n][a], q[n][b])
    /\ \A m, n \in Slots : m < n =>
           \A a \in 1..Len(q[m]), b \in 1..Len(q[n]) : Before(e, q[m][a], q[n][b])

In(q, i) == \E n \in Slots : \E a \in 1..Len(q[n]) : i = q[n][a]

Within(r, q) == \A n \in Slots : \A a \in 1..Len(r[n]) : In(q, r[n][a])

LEMMA Cut ==
  ASSUME NEW T, NEW s \in Seq(T), s # <<>>
  PROVE  /\ Head(s) \in T /\ Tail(s) \in Seq(T) /\ Len(s) \in Nat /\ 1 \in 1..Len(s) /\ Head(s) = s[1]
         /\ Len(Tail(s)) \in Nat
         /\ \A a \in 1..Len(Tail(s)) : a + 1 \in 1..Len(s) /\ Tail(s)[a] = s[a + 1]
OBVIOUS

LEMMA Added ==
  ASSUME NEW T, NEW s \in Seq(T), NEW x \in T
  PROVE  /\ Append(s, x) \in Seq(T) /\ Len(s) \in Nat /\ Len(Append(s, x)) = Len(s) + 1
         /\ Append(s, x)[Len(s) + 1] = x
         /\ \A a \in 1..Len(Append(s, x)) :
                a = Len(s) + 1 \/ (a \in 1..Len(s) /\ Append(s, x)[a] = s[a])
OBVIOUS

\* A map into which a key is inserted.
LEMMA Inserted ==
  ASSUME NEW S, NEW T, NEW f, NEW g, NEW k, NEW v, f \in [S -> T], k \in S, v \in T,
         g = [f EXCEPT ![k] = v]
  PROVE  g \in [S -> T] /\ g[k] = v /\ \A j \in S : j # k => g[j] = f[j]
BY Zenon

\* What stands first in a queue goes to the end of the next, is dropped, or the
\* whole queue is: the row stays sorted.
Advanced(q, r, m, n) ==
    /\ n = m + 1 /\ q[n] # <<>>
    /\ r[m] = Append(q[m], Head(q[n])) /\ r[n] = Tail(q[n])
    /\ \A k \in Slots : k # m /\ k # n => r[k] = q[k]

LEMMA HeadMoves ==
  ASSUME NEW T, NEW e, NEW q \in [Slots -> Seq(T)], NEW r \in [Slots -> Seq(T)], Sorted(q, e),
         NEW m \in Slots, NEW n \in Slots, Advanced(q, r, m, n)
  PROVE  Sorted(r, e) /\ Within(r, q)
<1> DEFINE x == Head(q[n])
<1> USE DEF Advanced
<1>1. /\ x \in T /\ x = q[n][1] /\ 1 \in 1..Len(q[n]) /\ Len(q[n]) \in Nat /\ Len(r[n]) \in Nat
      /\ \A a \in 1..Len(r[n]) : a + 1 \in 1..Len(q[n]) /\ r[n][a] = q[n][a + 1]
  BY Cut
<1>2. /\ Len(q[m]) \in Nat /\ Len(r[m]) = Len(q[m]) + 1 /\ r[m][Len(q[m]) + 1] = x
      /\ \A a \in 1..Len(r[m]) : a = Len(q[m]) + 1 \/ (a \in 1..Len(q[m]) /\ r[m][a] = q[m][a])
  BY <1>1, Added
<1> HIDE DEF x
\* where an element of r comes from
<1>3. ASSUME NEW k \in Slots, NEW a \in 1..Len(r[k])
      PROVE  \/ k = m /\ a = Len(q[m]) + 1 /\ r[k][a] = q[n][1]
             \/ k = n /\ a + 1 \in 1..Len(q[n]) /\ r[k][a] = q[n][a + 1]
             \/ k # n /\ a \in 1..Len(q[k]) /\ r[k][a] = q[k][a]
  BY <1>1, <1>2, Zenon
<1>4. ASSUME NEW k \in Slots, NEW a \in 1..Len(r[k]), NEW b \in 1..Len(r[k]), a < b
      PROVE  Before(e, r[k][a], r[k][b])
  <2>1. CASE k = n
    <3>1. /\ a + 1 \in 1..Len(q[n]) /\ r[k][a] = q[n][a + 1]
          /\ b + 1 \in 1..Len(q[n]) /\ r[k][b] = q[n][b + 1]
      BY <1>1, <2>1, Zenon
    <3>2. a + 1 < b + 1
      BY <1>4, <2>1
    <3> QED BY <3>1, <3>2, Zenon DEF Sorted
  <2>2. CASE k = m
    <3> DEFINE len == Len(q[m])
    <3>0. len \in Nat /\ Len(r[m]) = len + 1
      BY <1>2, Zenon
    <3> HIDE DEF len
    <3>1. a \in 1..Len(q[m]) /\ r[k][a] = q[m][a]
      <4>1. a \in 1..(len + 1) /\ b \in 1..(len + 1)
        BY <2>2, <3>0, Zenon
      <4>2. a # len + 1
        BY <1>4, <3>0, <4>1
      <4> QED BY <1>2, <2>2, <4>2, Zenon DEF len
    <3>2. CASE b = Len(q[m]) + 1
      <4>1. r[k][b] = q[n][1] /\ m < n
        BY <1>1, <1>2, <2>2, <3>2 DEF Slots
      <4> QED BY <1>1, <3>1, <4>1, <2>2, Zenon DEF Sorted
    <3>3. CASE b \in 1..Len(q[m]) /\ r[m][b] = q[m][b]
      BY <1>4, <2>2, <3>1, <3>3, Zenon DEF Sorted
    <3> QED BY <1>2, <2>2, <3>2, <3>3, Zenon
  <2>3. CASE k # n /\ k # m
    BY <1>4, <2>3, Zenon DEF Sorted
  <2> QED BY <2>1, <2>2, <2>3, Zenon
<1>5. ASSUME NEW k \in Slots, NEW l \in Slots, k < l, NEW a \in 1..Len(r[k]), NEW b \in 1..Len(r[l])
      PROVE  Before(e, r[k][a], r[l][b])
  <2>1. CASE l = m
    <3>1. k # m /\ k # n /\ k < n
      BY <1>5, <2>1 DEF Slots
    <3>2. a \in 1..Len(q[k]) /\ r[k][a] = q[k][a]
      BY <3>1, Zenon
    <3>3. \/ r[l][b] = q[n][1]
          \/ b \in 1..Len(q[m]) /\ r[l][b] = q[m][b]
      BY <1>1, <1>2, <2>1, Zenon
    <3>4. CASE r[l][b] = q[n][1]
      BY <1>1, <3>1, <3>2, <3>4, Zenon DEF Sorted
    <3>5. CASE b \in 1..Len(q[m]) /\ r[l][b] = q[m][b]
      BY <1>5, <2>1, <3>2, <3>5, Zenon DEF Sorted
    <3> QED BY <3>3, <3>4, <3>5, Zenon
  <2>2. CASE l = n
    <3>1. b + 1 \in 1..Len(q[n]) /\ r[l][b] = q[n][b + 1]
      BY <1>1, <2>2, Zenon
    <3>2. 1 < b + 1
      OBVIOUS
    <3>3. k # n
      BY <1>5, <2>2 DEF Slots
    <3>4. \/ k = m /\ r[k][a] = q[n][1]
          \/ a \in 1..Len(q[k]) /\ r[k][a] = q[k][a]
      BY <1>3, <3>3, Zenon
    <3>5. CASE k = m /\ r[k][a] = q[n][1]
      BY <1>1, <2>2, <3>1, <3>2, <3>5, Zenon DEF Sorted
    <3>6. CASE a \in 1..Len(q[k]) /\ r[k][a] = q[k][a]
      BY <1>5, <2>2, <3>1, <3>6, Zenon DEF Sorted
    <3> QED BY <3>4, <3>5, <3>6, Zenon
  <2>3. CASE l # m /\ l # n
    <3>1. b \in 1..Len(q[l]) /\ r[l][b] = q[l][b]
      BY <2>3, Zenon
    <3>2. k = m => n < l
      BY <1>5, <2>3 DEF Slots
    <3>3. \/ r[k][a] = q[n][1] /\ n < l
          \/ k = n /\ a + 1 \in 1..Len(q[n]) /\ r[k][a] = q[n][a + 1]
          \/ a \in 1..Len(q[k]) /\ r[k][a] = q[k][a]
      BY <1>3, <3>2, Zenon
    <3>4. CASE r[k][a] = q[n][1] /\ n < l
      BY <1>1, <3>1, <3>4, Zenon DEF Sorted
    <3>5. CASE k = n /\ a + 1 \in 1..Len(q[n]) /\ r[k][a] = q[n][a + 1]
      BY <1>5, <3>1, <3>5, Zenon DEF Sorted
    <3>6. CASE a \in 1..Len(q[k]) /\ r[k][a] = q[k][a]
      BY <1>5, <3>1, <3>6, Zenon DEF Sorted
    <3> QED BY <3>3, <3>4, <3>5, <3>6, Zenon
  <2> QED BY <2>1, <2>2, <2>3, Zenon
<1>6. Within(r, q)
  BY <1>1, <1>3, Zenon DEF Within, In
<1> QED BY <1>4, <1>5, <1>6, Zenon DEF Sorted

LEMMA HeadDrops ==
  ASSUME NEW T, NEW e, NEW q \in [Slots -> Seq(T)], NEW r \in [Slots -> Seq(T)], Sorted(q, e),
         NEW n \in Slots, q[n] # <<>>, r[n] = Tail(q[n]), \A k \in Slots : k # n => r[k] = q[k]
  PROVE  Sorted(r, e) /\ Within(r, q)
<1>1. \A a \in 1..Len(r[n]) : a + 1 \in 1..Len(q[n]) /\ r[n][a] = q[n][a + 1]
  BY Cut
<1>2. ASSUME NEW k \in Slots, NEW a \in 1..Len(r[k])
      PROVE  IF k = n THEN a + 1 \in 1..Len(q[k]) /\ r[k][a] = q[k][a + 1]
                      ELSE a \in 1..Len(q[k]) /\ r[k][a] = q[k][a]
  BY <1>1, Zenon
<1>3. ASSUME NEW k \in Slots, NEW a \in 1..Len(r[k]), NEW b \in 1..Len(r[k]), a < b
      PROVE  Before(e, r[k][a], r[k][b])
  BY <1>2, <1>3 DEF Sorted
<1>4. ASSUME NEW k \in Slots, NEW l \in Slots, k < l, NEW a \in 1..Len(r[k]), NEW b \in 1..Len(r[l])
      PROVE  Before(e, r[k][a], r[l][b])
  <2>1. PICK x \in 1..Len(q[k]) : r[k][a] = q[k][x]
    BY <1>2, Zenon
  <2>2. PICK y \in 1..Len(q[l]) : r[l][b] = q[l][y]
    BY <1>2, Zenon
  <2> QED BY <1>4, <2>1, <2>2, Zenon DEF Sorted
<1>5. Within(r, q)
  BY <1>2, Zenon DEF Within, In
<1> QED BY <1>3, <1>4, <1>5, Zenon DEF Sorted

LEMMA QueueEmpties ==
  ASSUME NEW T, NEW e, NEW q \in [Slots -> Seq(T)], NEW r \in [Slots -> Seq(T)], Sorted(q, e),
         NEW n \in Slots, r[n] = <<>>, \A k \in Slots : k # n => r[k] = q[k]
  PROVE  Sorted(r, e) /\ Within(r, q)
<1>1. \A k \in Slots : \A a \in 1..Len(r[k]) : a \in 1..Len(q[k]) /\ r[k][a] = q[k][a]
  <2>1. 1..Len(r[n]) = {}
    OBVIOUS
  <2> QED BY <2>1, Zenon
<1>2. Within(r, q)
  BY <1>1, Zenon DEF Within, In
<1>3. ASSUME NEW k \in Slots, NEW a \in 1..Len(r[k]), NEW b \in 1..Len(r[k]), a < b
      PROVE  Before(e, r[k][a], r[k][b])
  BY <1>1, <1>3, Zenon DEF Sorted
<1>4. ASSUME NEW k \in Slots, NEW l \in Slots, k < l, NEW a \in 1..Len(r[k]), NEW b \in 1..Len(r[l])
      PROVE  Before(e, r[k][a], r[l][b])
  BY <1>1, <1>4, Zenon DEF Sorted
<1> QED BY <1>2, <1>3, <1>4, Zenon DEF Sorted

Grown(q, r, x) == r[4] = Append(q[4], x) /\ \A k \in Slots : k # 4 => r[k] = q[k]

AllBefore(q, e, x) == \A k \in Slots : \A a \in 1..Len(q[k]) : Before(e, q[k][a], x)

LEMMA RowGrows ==
  ASSUME NEW T, NEW e, NEW q \in [Slots -> Seq(T)], NEW r \in [Slots -> Seq(T)], Sorted(q, e),
         NEW x \in T, Grown(q, r, x), AllBefore(q, e, x)
  PROVE  /\ Sorted(r, e)
         /\ \A k \in Slots : \A a \in 1..Len(r[k]) : r[k][a] = x \/ In(q, r[k][a])
<1> USE DEF Grown, AllBefore
<1>1. 4 \in Slots
  BY DEF Slots
<1>2. /\ Len(q[4]) \in Nat /\ Len(r[4]) = Len(q[4]) + 1 /\ r[4][Len(q[4]) + 1] = x
      /\ \A a \in 1..Len(r[4]) : a = Len(q[4]) + 1 \/ (a \in 1..Len(q[4]) /\ r[4][a] = q[4][a])
  BY <1>1, Added
<1>3. ASSUME NEW k \in Slots, NEW a \in 1..Len(r[k]), NEW b \in 1..Len(r[k]), a < b
      PROVE  Before(e, r[k][a], r[k][b])
  <2>1. CASE k = 4
    <3>1. a \in 1..Len(q[4]) /\ r[k][a] = q[4][a]
      <4> DEFINE len == Len(q[4])
      <4>1. len \in Nat /\ a \in 1..(len + 1) /\ b \in 1..(len + 1)
        BY <1>2, <2>1, Zenon
      <4> HIDE DEF len
      <4>2. a # len + 1
        BY ONLY <1>3, <4>1
      <4> QED BY <1>2, <2>1, <4>2, Zenon DEF len
    <3>2. CASE b = Len(q[4]) + 1
      BY <1>1, <1>2, <2>1, <3>1, <3>2, Zenon
    <3>3. CASE b \in 1..Len(q[4]) /\ r[4][b] = q[4][b]
      BY <1>1, <1>3, <2>1, <3>1, <3>3, Zenon DEF Sorted
    <3> QED BY <1>2, <2>1, <3>2, <3>3, Zenon
  <2> QED BY <1>3, <2>1, Zenon DEF Sorted
<1>4. ASSUME NEW k \in Slots, NEW l \in Slots, k < l, NEW a \in 1..Len(r[k]), NEW b \in 1..Len(r[l])
      PROVE  Before(e, r[k][a], r[l][b])
  <2>1. k # 4 /\ a \in 1..Len(q[k]) /\ r[k][a] = q[k][a]
    <3>1. k # 4
      BY ONLY <1>4, k \in Slots, l \in Slots DEF Slots
    <3> QED BY <3>1, Zenon
  <2>2. \/ r[l][b] = x
        \/ b \in 1..Len(q[l]) /\ r[l][b] = q[l][b]
    BY <1>2, Zenon
  <2> QED BY <1>4, <2>1, <2>2, Zenon DEF Sorted
<1>5. \A k \in Slots : \A a \in 1..Len(r[k]) : r[k][a] = x \/ In(q, r[k][a])
  BY <1>2, Zenon DEF In
<1> QED BY <1>3, <1>4, <1>5, Zenon DEF Sorted

(***************************************************************************)
(* The order of the log.                                                   *)
(***************************************************************************)

Fates == {"moving", "ring full", "duplicate", "channel full", "connection lost", "logged"}

EventSet ==
    [from : Cpus, cpu : Cpus, seq : Nat, kind : {"open", "other", "mount"}, key : Keys, ts : Nat]

\* What the host has not lost or read of its connection.
Stream == IF conn = None THEN <<>> ELSE socket[conn]
Hand == IF inHand = None THEN <<>> ELSE <<inHand>>

Row == [n \in Slots |-> IF n = 0 THEN log ELSE IF n = 1 THEN Stream ELSE IF n = 2 THEN Hand
                        ELSE IF n = 3 THEN channel ELSE ring]

PipeTypes ==
    /\ clock \in Nat /\ lastSeq \in [Cpus -> Nat]
    /\ events \in Seq(EventSet) /\ fate \in Seq(Fates) /\ Len(fate) = Len(events)
    /\ scratch \in [Cpus -> Ids \cup {None}]
    /\ \A c \in Cpus : scratch[c] # None => events[scratch[c]].from = c
    /\ log \in Seq(Ids) /\ channel \in Seq(Ids) /\ ring \in Seq(Ids)
    /\ inHand \in Ids \cup {None} /\ socket \in [Conns -> Seq(Ids)]

\* The connections: all but the last are closed, and nothing is in them.
ConnInv ==
    /\ opened \in 0..MaxConns /\ (conn = None \/ (conn = opened /\ opened # 0))
    /\ closed = (1..opened) \ {conn}
    /\ backlog \in Seq(1..opened) /\ serving \in (1..opened) \cup {None}
    /\ inHand # None => serving # None
    /\ \A x \in Conns : x # conn => socket[x] = <<>>

\* An event that is being built comes after all of its CPU's on their way.
ScratchLast ==
    \A c \in Cpus : scratch[c] # None =>
        \A n \in Slots : \A a \in 1..Len(Row[n]) : Before(events, Row[n][a], scratch[c])

PipeInv == PipeTypes /\ ConnInv /\ Sorted(Row, events) /\ ScratchLast

\* The event that Fill appends.
LEMMA Filled ==
  ASSUME PipeTypes, NEW c \in Cpus, NEW kind \in Kinds \ {"mount"}, NEW key \in Keys, Fill(c, kind, key)
  PROVE  LET e == events'[Len(events) + 1] IN e.from = c /\ e.cpu = c /\ e.seq = lastSeq[c] + 1
<1>1. events' = Append(events, [from |-> c, cpu |-> c, seq |-> lastSeq[c] + 1,
                                kind |-> kind, key |-> key, ts |-> clock])
  BY Zenon DEF Fill
<1>2. events'[Len(events) + 1] = [from |-> c, cpu |-> c, seq |-> lastSeq[c] + 1,
                                  kind |-> kind, key |-> key, ts |-> clock]
  BY <1>1 DEF PipeTypes
<1> QED BY ONLY <1>2

LEMMA RowType ==
  ASSUME PipeTypes, ConnInv
  PROVE  Row \in [Slots -> Seq(Ids)] /\ Stream \in Seq(Ids) /\ Hand \in Seq(Ids)
<1>1. conn # None => conn \in Conns
  BY TelemetryAssumption DEF ConnInv, Conns
<1>2. Stream \in Seq(Ids) /\ Hand \in Seq(Ids)
  BY <1>1 DEF PipeTypes, Stream, Hand
<1> QED BY <1>2, Zenon DEF PipeTypes, Row

LEMMA RowTypeNext ==
  ASSUME PipeTypes', ConnInv'
  PROVE  Row' \in [Slots -> Seq(Ids')]
<1>1. conn' # None => conn' \in Conns
  BY TelemetryAssumption DEF ConnInv, Conns
<1>2. Stream' \in Seq(Ids') /\ Hand' \in Seq(Ids')
  BY <1>1 DEF PipeTypes, Stream, Hand
<1> QED BY <1>2, Zenon DEF PipeTypes, Row

LEMMA RowStays ==
  ASSUME UNCHANGED <<log, conn, socket, inHand, channel, ring>>
  PROVE  Row' = Row
BY Zenon DEF Row, Stream, Hand

\* Steps that leave events and scratch alone.
LEMMA RowKeeps ==
  ASSUME PipeInv, UNCHANGED <<events, scratch>>, PipeTypes', ConnInv',
         Sorted(Row', events), Within(Row', Row)
  PROVE  PipeInv'
<1>1. ScratchLast'
  <2> SUFFICES ASSUME NEW c \in Cpus, scratch[c] # None, NEW n \in Slots, NEW a \in 1..Len(Row'[n])
               PROVE  Before(events, Row'[n][a], scratch[c])
    BY Zenon DEF ScratchLast
  <2>1. PICK m \in Slots : \E b \in 1..Len(Row[m]) : Row'[n][a] = Row[m][b]
    BY Zenon DEF Within, In
  <2> QED BY <2>1, Zenon DEF PipeInv, ScratchLast
<1> QED BY <1>1, Zenon DEF PipeInv

LEMMA RowSame ==
  ASSUME PipeInv, UNCHANGED <<events, scratch>>, PipeTypes', ConnInv', Row' = Row
  PROVE  PipeInv' /\ Within(Row', Row)
<1>1. Within(Row', Row) /\ Sorted(Row', events)
  BY Zenon DEF Within, In, PipeInv
<1> QED BY <1>1, RowKeeps, Zenon

LEMMA Wider ==
  ASSUME NEW m \in Nat, NEW n \in Nat, m <= n, NEW s \in Seq(1..m)
  PROVE  s \in Seq(1..n)
<1>1. Len(s) \in Nat /\ s = [a \in 1..Len(s) |-> s[a]] /\ \A a \in 1..Len(s) : s[a] \in 1..n
  OBVIOUS
<1> QED BY <1>1

LEMMA FateEnds ==
  ASSUME PipeTypes, NEW i \in Ids, NEW how \in Fates, Ends(i, how)
  PROVE  /\ fate' \in Seq(Fates) /\ Len(fate') = Len(events)
         /\ fate'[i] = how /\ \A j \in Ids : j # i => fate'[j] = fate[j]
<1>1. fate \in [Ids -> Fates] /\ Len(events) \in Nat
  BY DEF PipeTypes, Ids
<1>2. fate' = [j \in Ids |-> IF j = i THEN how ELSE fate[j]]
  BY <1>1, Zenon DEF Ends
<1> QED BY <1>1, <1>2 DEF Ids

\* A probe fills in an event: the next in the history, and the last of its CPU.
LEMMA FillPipe ==
  ASSUME PipeInv, NEW c \in Cpus, NEW kind \in Kinds, NEW key \in Keys, Fill(c, kind, key)
  PROVE  PipeInv'
<1> DEFINE k == Len(events) + 1
<1>1. PICK e \in EventSet : e.from = c /\ events' = Append(events, e)
  <2> DEFINE mount == [from |-> c, cpu |-> Cpu0, seq |-> 0, kind |-> kind, key |-> key, ts |-> clock]
             other == [from |-> c, cpu |-> c, seq |-> lastSeq[c] + 1, kind |-> kind, key |-> key,
                       ts |-> clock]
  <2>1. kind \in {"open", "other", "mount"} /\ clock \in Nat /\ lastSeq[c] + 1 \in Nat /\ Cpu0 \in Cpus
    <3>1. kind \in {"open", "other", "mount"} /\ Cpu0 \in Cpus /\ clock \in Nat /\ lastSeq[c] \in Nat
      BY TelemetryAssumption, Zenon DEF PipeInv, PipeTypes
    <3>2. lastSeq[c] + 1 \in Nat
      BY ONLY <3>1
    <3> QED BY <3>1, <3>2, Zenon
  <2>2. mount \in EventSet /\ other \in EventSet /\ mount.from = c /\ other.from = c
    BY <2>1, Zenon DEF EventSet
  <2>3. events' = Append(events, mount) \/ events' = Append(events, other)
    BY Zenon DEF Fill
  <2> QED BY <2>2, <2>3, Zenon
<1>2. /\ scratch[c] = None /\ scratch' = [scratch EXCEPT ![c] = k]
      /\ fate' = Append(fate, "moving")
      /\ lastSeq' = lastSeq \/ lastSeq' = [lastSeq EXCEPT ![c] = @ + 1]
      /\ UNCHANGED <<clock, ring, channel, inHand, socket, log, conn, opened, closed, backlog, serving>>
  BY Zenon DEF Fill, senderVars, hostVars
<1>3. /\ Len(events) \in Nat /\ k \in Nat /\ Len(events') = k
      /\ events' \in Seq(EventSet) /\ events'[k].from = c
      /\ \A i \in Ids : events'[i] = events[i] /\ i < k
  BY <1>1 DEF PipeInv, PipeTypes, Ids
<1>4. fate' \in Seq(Fates) /\ Len(fate') = Len(events')
  <2>1. "moving" \in Fates
    BY Zenon DEF Fates
  <2>2. fate \in Seq(Fates) /\ Len(fate) = Len(events)
    BY Zenon DEF PipeInv, PipeTypes
  <2>3. fate' \in Seq(Fates) /\ Len(fate') = Len(fate) + 1
    BY <1>2, <2>1, <2>2
  <2> QED BY <1>3, <2>2, <2>3, Zenon
<1>5. Ids' = 1..k /\ Ids = 1..Len(events) /\ Ids \subseteq Ids' /\ k \in Ids'
  BY <1>3 DEF Ids
<1>6. /\ log' \in Seq(Ids') /\ channel' \in Seq(Ids') /\ ring' \in Seq(Ids')
      /\ inHand' \in Ids' \cup {None} /\ socket' \in [Conns -> Seq(Ids')]
  <2>1. \A s \in Seq(Ids) : s \in Seq(Ids')
    BY <1>3, <1>5, Wider
  <2> QED BY <1>2, <1>5, <2>1, Zenon DEF PipeInv, PipeTypes
<1>7. /\ scratch' \in [Cpus -> Ids' \cup {None}] /\ scratch'[c] = k
      /\ \A d \in Cpus : d # c => scratch'[d] = scratch[d]
  BY <1>2, <1>5, Zenon DEF PipeInv, PipeTypes
<1>8. \A d \in Cpus : scratch'[d] # None => events'[scratch'[d]].from = d
  <2> TAKE d \in Cpus
  <2>1. CASE d = c
    BY <1>3, <1>7, <2>1, Zenon
  <2>2. CASE d # c
    <3>1. scratch'[d] = scratch[d] /\ scratch[d] \in Ids \cup {None}
      BY <1>7, <2>2, Zenon DEF PipeInv, PipeTypes
    <3> QED BY <1>3, <3>1, Zenon DEF PipeInv, PipeTypes
  <2> QED BY <2>1, <2>2, Zenon
<1>9. clock' \in Nat /\ lastSeq' \in [Cpus -> Nat]
  <2>1. clock \in Nat /\ lastSeq \in [Cpus -> Nat] /\ lastSeq[c] + 1 \in Nat
    BY DEF PipeInv, PipeTypes
  <2> QED BY <1>2, <2>1, Zenon
<1>10. PipeTypes' /\ ConnInv'
  BY <1>2, <1>3, <1>4, <1>6, <1>7, <1>8, <1>9, Zenon DEF PipeInv, PipeTypes, ConnInv
<1>11. Row' = Row /\ \A n \in Slots : \A a \in 1..Len(Row[n]) : Row[n][a] \in Ids
  <2>1. Row' = Row
    BY <1>2, RowStays, Zenon
  <2> QED BY <2>1, RowType DEF PipeInv
<1> HIDE DEF k
<1>12. \A i, j \in Ids : Before(events, i, j) => Before(events', i, j)
  BY <1>3, Zenon DEF Before
<1>13. Sorted(Row', events')
  BY <1>11, <1>12, Zenon DEF PipeInv, Sorted
<1>14. ScratchLast'
  <2> SUFFICES ASSUME NEW d \in Cpus, scratch'[d] # None, NEW n \in Slots, NEW a \in 1..Len(Row[n])
               PROVE  Before(events', Row[n][a], scratch'[d])
    BY <1>11, Zenon DEF ScratchLast
  <2>1. CASE d = c
    <3>1. Row[n][a] < k /\ Row[n][a] # k
      BY <1>3, <1>5, <1>11
    <3> QED BY <1>7, <2>1, <3>1, Zenon DEF Before
  <2>2. CASE d # c
    <3>1. scratch[d] \in Ids /\ scratch'[d] = scratch[d]
      BY <1>7, <2>2, Zenon DEF PipeInv, PipeTypes
    <3> QED BY <1>11, <1>12, <3>1, Zenon DEF PipeInv, ScratchLast
  <2> QED BY <2>1, <2>2, Zenon
<1> QED BY <1>10, <1>13, <1>14, Zenon DEF PipeInv

LEMMA OutputPipe ==
  ASSUME PipeInv, NEW c \in Cpus, Output(c)
  PROVE  PipeInv'
<1> DEFINE x == scratch[c]
<1>1. /\ scratch' = [scratch EXCEPT ![c] = None] /\ x # None
      /\ UNCHANGED <<clock, events, lastSeq, channel, inHand, serving, backlog, socket, log, conn, opened,
                     closed>>
  BY Zenon DEF Output, senderVars, hostVars
<1>2. x \in Ids /\ events[x].from = c
  BY <1>1, Zenon DEF PipeInv, PipeTypes
<1>3. /\ scratch'[c] = None /\ \A d \in Cpus : d # c => scratch'[d] = scratch[d]
      /\ scratch' \in [Cpus -> Ids \cup {None}] /\ Ids' = Ids
  BY <1>1, Zenon DEF PipeInv, PipeTypes, Ids
<1>4. ConnInv'
  BY <1>1, Zenon DEF PipeInv, ConnInv
<1>5. \A d \in Cpus : scratch'[d] # None => scratch'[d] = scratch[d] /\ Before(events, x, scratch[d])
  BY <1>2, <1>3 DEF PipeInv, PipeTypes, Before
<1>6. CASE Len(ring) < RingCap
  <2>1. ring' = Append(ring, x) /\ fate' = fate
    BY <1>6, Zenon DEF Output
  <2>2. PipeTypes'
    BY <1>1, <1>2, <1>3, <2>1 DEF PipeInv, PipeTypes
  <2>3. Row \in [Slots -> Seq(Ids)] /\ Row' \in [Slots -> Seq(Ids)]
    BY <1>3, <1>4, <2>2, RowType, RowTypeNext, Zenon DEF PipeInv
  <2>4. Row'[4] = Append(Row[4], x) /\ \A k \in Slots : k # 4 => Row'[k] = Row[k]
    BY <1>1, <2>1 DEF Row, Slots, Stream, Hand
  <2>5. \A k \in Slots : \A a \in 1..Len(Row[k]) : Before(events, Row[k][a], x)
    BY <1>1, Zenon DEF PipeInv, ScratchLast
  <2> HIDE DEF x
  <2>6. /\ Sorted(Row', events)
        /\ \A k \in Slots : \A a \in 1..Len(Row'[k]) : Row'[k][a] = x \/ In(Row, Row'[k][a])
    <3>1. Sorted(Row, events)
      BY Zenon DEF PipeInv
    <3>2. Grown(Row, Row', x) /\ AllBefore(Row, events, x)
      BY <2>4, <2>5, Zenon DEF Grown, AllBefore
    <3> QED BY ONLY <1>2, <2>3, <3>1, <3>2, RowGrows, Zenon
  <2>7. ScratchLast'
    <3> SUFFICES ASSUME NEW d \in Cpus, scratch'[d] # None, NEW n \in Slots, NEW a \in 1..Len(Row'[n])
                 PROVE  Before(events, Row'[n][a], scratch[d])
      BY <1>1, <1>5, Zenon DEF ScratchLast
    <3>1. CASE Row'[n][a] = x
      BY <1>5, <3>1, Zenon
    <3>2. CASE In(Row, Row'[n][a])
      <4>1. PICK m \in Slots : \E b \in 1..Len(Row[m]) : Row'[n][a] = Row[m][b]
        BY <3>2, Zenon DEF In
      <4> QED BY <1>5, <4>1, Zenon DEF PipeInv, ScratchLast
    <3> QED BY <2>6, <3>1, <3>2, Zenon
  <2> QED BY <1>1, <1>4, <2>2, <2>6, <2>7, Zenon DEF PipeInv
<1>7. CASE ~(Len(ring) < RingCap)
  <2>1. ring' = ring /\ Ends(x, "ring full")
    BY <1>7, Zenon DEF Output
  <2>2. fate' \in Seq(Fates) /\ Len(fate') = Len(events)
    BY <1>2, <2>1, FateEnds, Zenon DEF PipeInv, Fates
  <2>3. PipeTypes'
    BY <1>1, <1>3, <2>1, <2>2, Zenon DEF PipeInv, PipeTypes
  <2>4. Row' = Row
    BY <1>1, <2>1, RowStays, Zenon
  <2>5. ScratchLast'
    BY <1>1, <1>5, <2>4, Zenon DEF PipeInv, ScratchLast
  <2> QED BY <1>1, <1>4, <2>3, <2>4, <2>5, Zenon DEF PipeInv
<1> QED BY <1>6, <1>7, Zenon

\* The head of one queue goes to the end of the next.
LEMMA HeadAdvances ==
  ASSUME PipeInv, UNCHANGED <<events, scratch>>, PipeTypes', ConnInv',
         NEW m \in Slots, NEW n \in Slots, Advanced(Row, Row', m, n)
  PROVE  PipeInv' /\ Within(Row', Row)
<1>1. Ids' = Ids
  BY Zenon DEF Ids
<1>2. Row \in [Slots -> Seq(Ids)] /\ Row' \in [Slots -> Seq(Ids)]
  BY <1>1, RowType, RowTypeNext, Zenon DEF PipeInv
<1>3. Sorted(Row', events) /\ Within(Row', Row)
  <2>1. Sorted(Row, events)
    BY Zenon DEF PipeInv
  <2> QED BY <1>2, <2>1, HeadMoves, Zenon
<1> QED BY <1>3, RowKeeps, Zenon

LEMMA HeadIsLost ==
  ASSUME PipeInv, UNCHANGED <<events, scratch>>, PipeTypes', ConnInv',
         NEW n \in Slots, Row[n] # <<>>, Row'[n] = Tail(Row[n]),
         \A k \in Slots : k # n => Row'[k] = Row[k]
  PROVE  PipeInv' /\ Within(Row', Row)
<1>1. Ids' = Ids
  BY Zenon DEF Ids
<1>2. Row \in [Slots -> Seq(Ids)] /\ Row' \in [Slots -> Seq(Ids)]
  BY <1>1, RowType, RowTypeNext, Zenon DEF PipeInv
<1>3. Sorted(Row', events) /\ Within(Row', Row)
  BY <1>2, HeadDrops, Zenon DEF PipeInv
<1> QED BY <1>3, RowKeeps, Zenon

LEMMA QueueIsLost ==
  ASSUME PipeInv, UNCHANGED <<events, scratch>>, PipeTypes', ConnInv',
         NEW n \in Slots, Row'[n] = <<>>, \A k \in Slots : k # n => Row'[k] = Row[k]
  PROVE  PipeInv' /\ Within(Row', Row)
<1>1. Ids' = Ids
  BY Zenon DEF Ids
<1>2. Row \in [Slots -> Seq(Ids)] /\ Row' \in [Slots -> Seq(Ids)]
  BY <1>1, RowType, RowTypeNext, Zenon DEF PipeInv
<1>3. Sorted(Row', events) /\ Within(Row', Row)
  BY <1>2, QueueEmpties, Zenon DEF PipeInv
<1> QED BY <1>3, RowKeeps, Zenon

LEMMA ReadPipe ==
  ASSUME PipeInv, ReadRing
  PROVE  PipeInv' /\ Within(Row', Row)
<1> DEFINE i == Head(ring)
<1>1. /\ ring # <<>> /\ ring' = Tail(ring)
      /\ UNCHANGED <<clock, events, scratch, lastSeq, inHand, serving, backlog, socket, log, conn, opened,
                     closed>>
      /\ \/ channel' = Append(channel, i) /\ fate' = fate
         \/ channel' = channel /\ \E how \in Fates : Ends(i, how)
  BY Zenon DEF ReadRing, probeVars, senderVars, hostVars, Fates
<1>2. i \in Ids /\ ring' \in Seq(Ids) /\ Ids' = Ids
  BY <1>1, Cut, Zenon DEF PipeInv, PipeTypes, Ids
<1>3. fate' \in Seq(Fates) /\ Len(fate') = Len(events)
  BY <1>1, <1>2, FateEnds DEF PipeInv, PipeTypes
<1>4. channel' \in Seq(Ids)
  <2>1. channel \in Seq(Ids)
    BY Zenon DEF PipeInv, PipeTypes
  <2> HIDE DEF i
  <2>2. Append(channel, i) \in Seq(Ids)
    BY <1>2, <2>1, Added, Zenon
  <2> QED BY <1>1, <2>1, <2>2, Zenon
<1>5. PipeTypes' /\ ConnInv'
  BY <1>1, <1>2, <1>3, <1>4, Zenon DEF PipeInv, PipeTypes, ConnInv
<1>6. Row'[0] = Row[0] /\ Row'[1] = Row[1] /\ Row'[2] = Row[2] /\ Row'[4] = Tail(Row[4]) /\ Row[4] # <<>>
  BY <1>1 DEF Row, Slots, Stream, Hand
<1>7. CASE channel' = Append(channel, i)
  <2>1. Row'[3] = Append(Row[3], Head(Row[4]))
    BY <1>7 DEF Row, Slots
  <2> QED BY <1>1, <1>5, <1>6, <2>1, HeadAdvances DEF Slots, Advanced
<1>8. CASE channel' = channel
  <2>1. Row'[3] = Row[3]
    BY <1>8 DEF Row, Slots
  <2> QED BY <1>1, <1>5, <1>6, <2>1, HeadIsLost DEF Slots
<1> QED BY <1>1, <1>7, <1>8, Zenon

\* The sender takes an event from the channel, and writes it or loses it.
LEMMA SenderPipe ==
  ASSUME PipeInv, Sender
  PROVE  PipeInv' /\ Within(Row', Row)
<1>1. UNCHANGED <<clock, events, scratch, lastSeq, ring, log, conn, opened, closed>>
  BY Zenon DEF Sender, SenderAccept, SenderRecv, SenderWrite, SenderFails, probeVars, hostVars
<1>2. Ids' = Ids
  BY <1>1, Zenon DEF Ids
<1>3. CASE SenderAccept
  <2>1. /\ UNCHANGED <<fate, channel, inHand, socket>> /\ backlog # <<>>
        /\ serving' = Head(backlog) /\ backlog' = Tail(backlog)
    BY <1>3, Zenon DEF SenderAccept
  <2>2. serving' \in 1..opened /\ backlog' \in Seq(1..opened)
    BY <2>1, Cut, Zenon DEF PipeInv, ConnInv
  <2>3. serving' # None
    BY <2>2, TelemetryAssumption DEF PipeInv, ConnInv
  <2>4. PipeTypes' /\ ConnInv'
    BY <1>1, <1>2, <2>1, <2>2, <2>3, Zenon DEF PipeInv, PipeTypes, ConnInv
  <2> QED BY <1>1, <2>1, <2>4, RowStays, RowSame, Zenon
<1>4. CASE SenderRecv
  <2>1. /\ UNCHANGED <<fate, serving, backlog, socket>> /\ serving # None /\ inHand = None
        /\ channel # <<>> /\ inHand' = Head(channel) /\ channel' = Tail(channel)
    BY <1>4, Zenon DEF SenderRecv
  <2>2. inHand' \in Ids /\ channel' \in Seq(Ids)
    BY <2>1, Cut, Zenon DEF PipeInv, PipeTypes
  <2>3. inHand' # None
    BY <2>2, TelemetryAssumption DEF Ids
  <2>4. PipeTypes' /\ ConnInv'
    BY <1>1, <1>2, <2>1, <2>2, <2>3, Zenon DEF PipeInv, PipeTypes, ConnInv
  <2>5. /\ Row[2] = <<>> /\ Row'[2] = <<Head(Row[3])>> /\ Row'[3] = Tail(Row[3]) /\ Row[3] # <<>>
        /\ Row'[0] = Row[0] /\ Row'[1] = Row[1] /\ Row'[4] = Row[4]
    BY <1>1, <2>1, <2>3 DEF Row, Slots, Stream, Hand
  <2>6. Append(<<>>, Head(Row[3])) = <<Head(Row[3])>>
    OBVIOUS
  <2>7. Advanced(Row, Row', 2, 3)
    BY <2>5, <2>6 DEF Advanced, Slots
  <2> QED BY <1>1, <2>4, <2>7, HeadAdvances DEF Slots
<1>5. ASSUME inHand # None, inHand' = None, Ends(inHand, "connection lost"),
             UNCHANGED <<channel, backlog, socket>>, serving' = serving \/ serving' = None
      PROVE  PipeInv' /\ Within(Row', Row)
  <2>1. inHand \in Ids
    BY <1>5, Zenon DEF PipeInv, PipeTypes
  <2>2. fate' \in Seq(Fates) /\ Len(fate') = Len(events)
    BY <1>5, <2>1, FateEnds, Zenon DEF PipeInv, Fates
  <2>3. PipeTypes' /\ ConnInv'
    BY <1>1, <1>2, <1>5, <2>2, Zenon DEF PipeInv, PipeTypes, ConnInv
  <2>4. Row'[2] = <<>> /\ Row'[0] = Row[0] /\ Row'[1] = Row[1] /\ Row'[3] = Row[3] /\ Row'[4] = Row[4]
    <3>1. inHand' = None /\ channel' = channel /\ socket' = socket
      BY <1>5, Zenon
    <3> QED BY ONLY <1>1, <3>1 DEF Row, Slots, Stream, Hand
  <2> QED BY <1>1, <2>3, <2>4, QueueIsLost DEF Slots
<1>6. CASE SenderWrite
  <2>1. CASE serving \in closed
    BY <1>5, <1>6, <2>1, Zenon DEF SenderWrite
  <2>2. CASE serving \notin closed
    <3>1. /\ inHand # None /\ inHand' = None /\ UNCHANGED <<fate, channel, serving, backlog>>
          /\ socket' = [socket EXCEPT ![serving] = Append(@, inHand)]
      BY <1>6, <2>2, Zenon DEF SenderWrite
    <3>2. serving = conn /\ conn # None /\ conn \in Conns /\ inHand \in Ids
      <4>1. inHand \in Ids /\ serving \in 1..opened
        BY <3>1, Zenon DEF PipeInv, PipeTypes, ConnInv
      <4>2. serving = conn
        BY <2>2, <4>1, Zenon DEF PipeInv, ConnInv
      <4>3. opened \in 0..MaxConns /\ MaxConns \in Nat /\ None \notin Nat
        BY TelemetryAssumption, Zenon DEF PipeInv, ConnInv
      <4>4. \A x \in 1..opened : x \in Nat /\ x \in 1..MaxConns
        BY ONLY <4>3
      <4> QED BY <4>1, <4>2, <4>3, <4>4, Zenon DEF Conns
    <3>3. /\ socket' \in [Conns -> Seq(Ids)] /\ socket'[conn] = Append(socket[conn], inHand)
          /\ \A x \in Conns : x # conn => socket'[x] = socket[x]
      <4>1. socket \in [Conns -> Seq(Ids)]
        BY Zenon DEF PipeInv, PipeTypes
      <4>2. Append(socket[conn], inHand) \in Seq(Ids)
        BY <3>2, <4>1
      <4> QED BY <3>1, <3>2, <4>1, <4>2, Zenon
    <3>4. PipeTypes' /\ ConnInv'
      BY <1>1, <1>2, <3>1, <3>3, Zenon DEF PipeInv, PipeTypes, ConnInv
    <3>5. /\ Row[2] = <<inHand>> /\ Row'[2] = <<>> /\ Row'[1] = Append(Row[1], inHand)
          /\ Row'[0] = Row[0] /\ Row'[3] = Row[3] /\ Row'[4] = Row[4]
      BY <1>1, <3>1, <3>2, <3>3 DEF Row, Slots, Stream, Hand
    <3>6. Head(<<inHand>>) = inHand /\ Tail(<<inHand>>) = <<>> /\ <<inHand>> # <<>>
      OBVIOUS
    <3>7. Advanced(Row, Row', 1, 2)
      BY <3>5, <3>6 DEF Advanced, Slots
    <3> QED BY <1>1, <3>4, <3>7, HeadAdvances DEF Slots
  <2> QED BY <2>1, <2>2, Zenon
<1>7. CASE SenderFails
  BY <1>5, <1>7, Zenon DEF SenderFails
<1> QED BY <1>3, <1>4, <1>6, <1>7, Zenon DEF Sender

\* The receiver connects, reads a line, or loses its connection.
LEMMA HostPipe ==
  ASSUME PipeInv, Host
  PROVE  PipeInv' /\ Within(Row', Row)
<1>1. UNCHANGED <<clock, events, scratch, lastSeq, ring, channel, inHand, serving>>
  BY Zenon DEF Host, BootReturns, HostConnect, HostReads, HostLoses, probeVars, senderVars
<1>2. Ids' = Ids
  BY <1>1, Zenon DEF Ids
<1>3. conn # None => conn \in Conns /\ socket[conn] \in Seq(Ids)
  <2>1. opened \in 0..MaxConns /\ (conn = None \/ (conn = opened /\ opened # 0)) /\ MaxConns \in Nat
    BY TelemetryAssumption, Zenon DEF PipeInv, ConnInv
  <2>2. conn # None => conn \in Conns
    BY <2>1 DEF Conns
  <2>3. socket \in [Conns -> Seq(Ids)]
    BY Zenon DEF PipeInv, PipeTypes
  <2> QED BY <2>2, <2>3, Zenon
<1>4. CASE BootReturns
  <2>1. UNCHANGED <<fate, backlog, socket, conn, opened, closed, log>>
    BY <1>4, Zenon DEF BootReturns
  <2>2. PipeTypes' /\ ConnInv'
    BY <1>1, <1>2, <2>1, Zenon DEF PipeInv, PipeTypes, ConnInv
  <2> QED BY <1>1, <2>1, <2>2, RowStays, RowSame, Zenon
<1>5. CASE HostConnect
  <2> DEFINE n == opened + 1
  <2>1. /\ UNCHANGED <<fate, socket, closed, log>> /\ conn = None /\ opened < MaxConns
        /\ opened' = n /\ conn' = n /\ backlog' = Append(backlog, n)
    BY <1>5, Zenon DEF HostConnect
  <2>2. opened \in Nat /\ n \in Nat /\ n # 0 /\ n \in 1..n /\ opened <= n /\ n \in 0..MaxConns /\ n \in Conns
    BY <2>1, TelemetryAssumption DEF PipeInv, ConnInv, Conns
  <2>3. n # None
    BY <2>2, TelemetryAssumption, Zenon
  <2>4. closed' = (1..n) \ {n}
    <3>1. closed' = (1..opened) \ {None} /\ None \notin Nat
      BY <2>1, TelemetryAssumption, Zenon DEF PipeInv, ConnInv
    <3>2. 1..opened = (1..n) \ {n} /\ \A x \in 1..opened : x \in Nat
      BY ONLY <2>2
    <3> QED BY <3>1, <3>2, Zenon
  <2>5. backlog' \in Seq(1..n) /\ serving' \in (1..n) \cup {None}
    <3>1. backlog \in Seq(1..n)
      BY <2>2, Wider, Zenon DEF PipeInv, ConnInv
    <3>2. backlog' \in Seq(1..n)
      <4> HIDE DEF n
      <4> QED BY <2>1, <2>2, <3>1
    <3>3. serving \in (1..n) \cup {None}
      <4>1. \A x \in 1..opened : x \in 1..n
        BY ONLY <2>2
      <4> QED BY <4>1, Zenon DEF PipeInv, ConnInv
    <3> QED BY <1>1, <3>2, <3>3, Zenon
  <2>6. \A x \in Conns : socket[x] = <<>>
    BY <2>1, TelemetryAssumption DEF PipeInv, ConnInv, Conns
  <2> HIDE DEF n
  <2>7. PipeTypes' /\ ConnInv'
    BY <1>1, <1>2, <2>1, <2>2, <2>4, <2>5, <2>6, Zenon DEF PipeInv, PipeTypes, ConnInv
  <2>8. Stream' = <<>> /\ Stream = <<>>
    BY <2>1, <2>2, <2>3, <2>6, Zenon DEF Stream
  <2>9. Row' = Row
    BY <1>1, <2>1, <2>8, Zenon DEF Row, Hand
  <2> QED BY <1>1, <2>7, <2>9, RowSame, Zenon
<1>6. CASE HostReads
  <2> DEFINE x == Head(socket[conn])
  <2>1. /\ UNCHANGED <<backlog, conn, opened, closed>> /\ conn # None /\ socket[conn] # <<>>
        /\ log' = Append(log, x) /\ Ends(x, "logged")
        /\ socket' = [socket EXCEPT ![conn] = Tail(@)]
    BY <1>6, Zenon DEF HostReads
  <2>2. x \in Ids /\ Tail(socket[conn]) \in Seq(Ids)
    BY <1>3, <2>1, Cut, Zenon
  <2>3. fate' \in Seq(Fates) /\ Len(fate') = Len(events)
    BY <2>1, <2>2, FateEnds, Zenon DEF PipeInv, Fates
  <2>4. /\ socket' \in [Conns -> Seq(Ids)] /\ socket'[conn] = Tail(socket[conn])
        /\ \A y \in Conns : y # conn => socket'[y] = socket[y]
    <3>1. socket \in [Conns -> Seq(Ids)]
      BY Zenon DEF PipeInv, PipeTypes
    <3> QED BY <1>3, <2>1, <2>2, <3>1, Zenon
  <2>5. log' \in Seq(Ids)
    <3>1. log \in Seq(Ids)
      BY Zenon DEF PipeInv, PipeTypes
    <3> HIDE DEF x
    <3> QED BY <2>1, <2>2, <3>1
  <2>6. PipeTypes' /\ ConnInv'
    BY <1>1, <1>2, <2>1, <2>3, <2>4, <2>5, Zenon DEF PipeInv, PipeTypes, ConnInv
  <2>7. /\ Row[1] = socket[conn] /\ Row'[1] = Tail(Row[1]) /\ Row'[0] = Append(Row[0], Head(Row[1]))
        /\ Row'[2] = Row[2] /\ Row'[3] = Row[3] /\ Row'[4] = Row[4]
    <3>1. conn' = conn /\ conn # None /\ log' = Append(log, x)
      BY <2>1, Zenon
    <3> QED BY ONLY <1>1, <2>4, <3>1 DEF Row, Slots, Stream, Hand
  <2>8. Advanced(Row, Row', 0, 1)
    BY <2>1, <2>7 DEF Advanced, Slots
  <2> QED BY <1>1, <2>6, <2>8, HeadAdvances DEF Slots
<1>7. CASE HostLoses
  <2>1. /\ UNCHANGED <<backlog, opened, log>> /\ conn # None /\ conn' = None /\ closed' = closed \cup {conn}
        /\ socket' = [socket EXCEPT ![conn] = <<>>]
        /\ fate' = [i \in DOMAIN fate |->
                        IF \E k \in 1..Len(socket[conn]) : socket[conn][k] = i
                        THEN "connection lost" ELSE fate[i]]
    BY <1>7, Zenon DEF HostLoses
  <2>2. fate' \in Seq(Fates) /\ Len(fate') = Len(events)
    <3>1. fate \in [Ids -> Fates] /\ Len(events) \in Nat
      BY DEF PipeInv, PipeTypes, Ids
    <3>2. fate' \in [Ids -> Fates]
      BY <2>1, <3>1, Zenon DEF Fates
    <3> QED BY <3>1, <3>2 DEF Ids
  <2>3. /\ socket' \in [Conns -> Seq(Ids)]
        /\ \A y \in Conns : socket'[y] = <<>>
    <3>1. socket \in [Conns -> Seq(Ids)] /\ <<>> \in Seq(Ids)
      BY DEF PipeInv, PipeTypes
    <3> QED BY <1>3, <2>1, <3>1, Zenon DEF PipeInv, ConnInv
  <2>4. closed' = (1..opened) \ {None}
    <3>1. conn # None /\ closed' = closed \cup {conn}
      BY <2>1, Zenon
    <3>2. closed = (1..opened) \ {conn} /\ conn \in 1..opened
      BY ONLY <3>1, PipeInv, TelemetryAssumption DEF PipeInv, ConnInv
    <3>3. None \notin 1..opened
      BY TelemetryAssumption DEF PipeInv, ConnInv
    <3> QED BY ONLY <3>1, <3>2, <3>3, Zenon
  <2>5. PipeTypes' /\ ConnInv'
    BY <1>1, <1>2, <2>1, <2>2, <2>3, <2>4, Zenon DEF PipeInv, PipeTypes, ConnInv
  <2>6. Row'[1] = <<>> /\ Row'[0] = Row[0] /\ Row'[2] = Row[2] /\ Row'[3] = Row[3] /\ Row'[4] = Row[4]
    <3>1. conn' = None /\ log' = log
      BY <2>1, Zenon
    <3> QED BY ONLY <1>1, <3>1 DEF Row, Slots, Stream, Hand
  <2> QED BY <1>1, <2>5, <2>6, QueueIsLost DEF Slots
<1> QED BY <1>4, <1>5, <1>6, <1>7, Zenon DEF Host

LEMMA NextPipe ==
  ASSUME PipeInv, [Next]_vars
  PROVE  PipeInv'
<1>1. CASE Probe
  BY <1>1, FillPipe, OutputPipe, Zenon DEF Probe
<1>2. ASSUME UNCHANGED <<events, fate, scratch, lastSeq, ring, channel, inHand, serving, backlog, socket,
                         conn, opened, closed, log>>,
             clock' \in Nat
      PROVE  PipeInv'
  <2>1. Ids' = Ids
    BY <1>2, Zenon DEF Ids
  <2>2. PipeTypes' /\ ConnInv'
    BY <1>2, <2>1, Zenon DEF PipeInv, PipeTypes, ConnInv
  <2> QED BY <1>2, <2>2, RowStays, RowSame, Zenon
<1>3. clock \in Nat
  BY Zenon DEF PipeInv, PipeTypes
<1>4. CASE Tick
  BY <1>2, <1>3, <1>4 DEF Tick, senderVars, hostVars
<1>5. CASE UNCHANGED vars
  BY <1>2, <1>3, <1>5, Zenon DEF vars, probeVars, senderVars, hostVars
<1>6. CASE \E x \in Conns : CloseArrives(x)
  BY <1>2, <1>3, <1>6, Zenon DEF CloseArrives, probeVars, senderVars, hostVars
<1> QED BY <1>1, <1>4, <1>5, <1>6, ReadPipe, SenderPipe, HostPipe, Zenon DEF Next, Exhausted

LEMMA PipeStart ==
  ASSUME Init
  PROVE  PipeInv
<1>1. Len(events) = 0 /\ Ids = {} /\ \A n \in Slots : Row[n] = <<>>
  BY DEF Init, Ids, Row, Stream, Hand
<1>2. PipeTypes
  BY <1>1 DEF Init, PipeTypes
<1>3. ConnInv
  BY TelemetryAssumption DEF Init, ConnInv
<1>4. Sorted(Row, events) /\ ScratchLast
  BY <1>1 DEF Sorted, ScratchLast, Init
<1> QED BY <1>2, <1>3, <1>4, Zenon DEF PipeInv

\* What the host has logged of one CPU's events is in the order its probes
\* produced them and nothing is logged twice, whatever the ring buffer, the
\* channel and any number of broken connections have lost.
THEOREM LogKeepsOrder == Spec => []LoggedInOrder
<1>1. Init => PipeInv
  BY PipeStart, Zenon
<1>2. PipeInv /\ [Next]_vars => PipeInv'
  BY NextPipe, Zenon
<1>3. PipeInv => LoggedInOrder
  <2> SUFFICES ASSUME PipeInv, NEW a \in 1..Len(log), NEW b \in 1..Len(log), a < b
               PROVE  Before(events, log[a], log[b])
    BY Zenon DEF LoggedInOrder, Before
  <2>1. 0 \in Slots /\ Row[0] = log
    BY DEF Row, Slots
  <2> QED BY <2>1, Zenon DEF PipeInv, Sorted
<1> QED BY <1>1, <1>2, <1>3, PTL DEF Spec

(***************************************************************************)
(* Fates.  What has not been read yet is still moving, and what the ring   *)
(* buffer dropped is nowhere.                                              *)
(***************************************************************************)
Upstream(i) == i \in Elements(ring) \/ \E c \in Cpus : scratch[c] = i

FateInv ==
    /\ \A i \in Ids : Upstream(i) => fate[i] = "moving"
    /\ \A n \in Slots : \A a \in 1..Len(Row[n]) : fate[Row[n][a]] # "ring full"

LEMMA ReadOrUpstream ==
  ASSUME NEW i
  PROVE  HasRead(i) <=> fate[i] # "ring full" /\ ~Upstream(i)
BY Zenon DEF HasRead, Upstream

LEMMA ReadOrUpstreamNext ==
  ASSUME NEW i
  PROVE  HasRead(i)' <=> fate'[i] # "ring full" /\ ~Upstream(i)'
BY Zenon DEF HasRead, Upstream

LEMMA DownSlots == \A n \in 0..3 : n \in Slots
BY DEF Slots

LEMMA NoneIsNoId == None \notin Ids
<1>1. \A i \in Ids : i \in Nat
  BY DEF Ids
<1> QED BY <1>1, TelemetryAssumption, Zenon

\* What has left the ring buffer is not upstream.
LEMMA DownIsNotUp ==
  ASSUME PipeInv, NEW n \in 0..3, NEW a \in 1..Len(Row[n])
  PROVE  ~Upstream(Row[n][a])
<1>1. n \in Slots /\ 4 \in Slots /\ n < 4 /\ Row[4] = ring
  BY DEF Slots, Row
<1>2. Row[n][a] \notin Elements(ring)
  <2> SUFFICES ASSUME NEW b \in 1..Len(ring)
               PROVE  Row[n][a] # ring[b]
    BY Zenon DEF Elements
  <2>1. Before(events, Row[n][a], Row[4][b])
    BY <1>1, Zenon DEF PipeInv, Sorted
  <2> QED BY <1>1, <2>1, Zenon DEF Before
<1>3. Row[n][a] \in Ids
  BY <1>1, RowType DEF PipeInv
<1>4. \A c \in Cpus : scratch[c] # Row[n][a]
  <2> TAKE c \in Cpus
  <2>1. CASE scratch[c] = None
    BY <1>3, <2>1, NoneIsNoId, Zenon
  <2>2. CASE scratch[c] # None
    BY <1>1, <2>2, Zenon DEF PipeInv, ScratchLast, Before
  <2> QED BY <2>1, <2>2, Zenon
<1> QED BY <1>2, <1>4, Zenon DEF Upstream

\* Fates only change, past the ring buffer, to logged or lost with a connection.
Downstream ==
    /\ UNCHANGED <<events, scratch, lastSeq, ring, nextSeq, totalGaps, seen, ops>>
    /\ \A i \in Ids : \/ fate'[i] = fate[i]
                      \/ /\ fate'[i] \in {"logged", "connection lost"}
                         /\ \E n \in 0..3 : \E a \in 1..Len(Row[n]) : i = Row[n][a]

LEMMA StillDownstream ==
  ASSUME UNCHANGED <<events, scratch, lastSeq, ring, nextSeq, totalGaps, seen, ops, fate>>
  PROVE  Downstream
BY Zenon DEF Downstream

LEMMA SenderDownstream ==
  ASSUME PipeInv, Sender
  PROVE  Downstream
<1>1. UNCHANGED <<events, scratch, lastSeq, ring, nextSeq, totalGaps, seen, ops>>
  BY Zenon DEF Sender, SenderAccept, SenderRecv, SenderWrite, SenderFails, probeVars, tracerVars
<1>2. CASE fate' = fate
  BY <1>1, <1>2, StillDownstream, Zenon
<1>3. CASE inHand # None /\ Ends(inHand, "connection lost")
  <2>1. inHand \in Ids /\ 2 \in 0..3 /\ Row[2] = <<inHand>>
    <3>1. inHand # None
      BY <1>3, Zenon
    <3>2. inHand \in Ids
      BY <3>1, Zenon DEF PipeInv, PipeTypes
    <3> QED BY ONLY <3>1, <3>2 DEF Row, Slots, Hand
  <2>2. 1 \in 1..Len(Row[2]) /\ inHand = Row[2][1]
    BY <2>1
  <2>3. fate'[inHand] = "connection lost" /\ \A i \in Ids : i # inHand => fate'[i] = fate[i]
    BY <1>3, <2>1, FateEnds, Zenon DEF PipeInv, Fates
  <2> QED BY <1>1, <2>1, <2>2, <2>3, Zenon DEF Downstream
<1> QED BY <1>2, <1>3, Zenon DEF Sender, SenderAccept, SenderRecv, SenderWrite, SenderFails

LEMMA HostDownstream ==
  ASSUME PipeInv, Host
  PROVE  Downstream
<1>1. UNCHANGED <<events, scratch, lastSeq, ring, nextSeq, totalGaps, seen, ops>>
  BY Zenon DEF Host, BootReturns, HostConnect, HostReads, HostLoses, probeVars, tracerVars
<1>2. CASE BootReturns \/ HostConnect
  <2>1. fate' = fate
    BY <1>2, Zenon DEF BootReturns, HostConnect
  <2> QED BY <1>1, <2>1, StillDownstream, Zenon
<1>3. conn # None => Row[1] = socket[conn] /\ 1 \in 0..3 /\ Row[1] \in Seq(Ids)
  BY RowType DEF PipeInv, Row, Slots, Stream
<1>4. CASE HostReads
  <2>1. conn # None /\ Row[1] # <<>> /\ Ends(Head(Row[1]), "logged")
    BY <1>3, <1>4, Zenon DEF HostReads
  <2>2. 1 \in 1..Len(Row[1]) /\ Head(Row[1]) = Row[1][1] /\ Head(Row[1]) \in Ids
    BY <1>3, <2>1, Cut, Zenon
  <2>3. /\ fate'[Head(Row[1])] = "logged"
        /\ \A i \in Ids : i # Head(Row[1]) => fate'[i] = fate[i]
    BY <2>1, <2>2, FateEnds, Zenon DEF PipeInv, Fates
  <2> QED BY <1>1, <1>3, <2>1, <2>2, <2>3, Zenon DEF Downstream
<1>5. CASE HostLoses
  <2>1. conn # None /\ fate' = [i \in DOMAIN fate |->
                                   IF \E k \in 1..Len(socket[conn]) : socket[conn][k] = i
                                   THEN "connection lost" ELSE fate[i]]
    BY <1>5, Zenon DEF HostLoses
  <2>2. DOMAIN fate = Ids
    BY DEF PipeInv, PipeTypes, Ids
  <2> SUFFICES ASSUME NEW i \in Ids, fate'[i] # fate[i]
               PROVE  fate'[i] = "connection lost" /\ \E a \in 1..Len(Row[1]) : i = Row[1][a]
    BY <1>1, <1>3, <2>1, Zenon DEF Downstream
  <2> QED BY <1>3, <2>1, <2>2, Zenon
<1> QED BY <1>2, <1>4, <1>5, Zenon DEF Host

\* The tracer has read nothing and the ring buffer has dropped nothing.
SameReads ==
    /\ \A i \in Ids : HasRead(i)' <=> HasRead(i)
    /\ \A i \in Ids : (fate'[i] = "ring full") <=> (fate[i] = "ring full")
    /\ \A i \in Ids : Upstream(i)' => Upstream(i)

LEMMA DownstreamFates ==
  ASSUME PipeInv, FateInv, Downstream, Within(Row', Row)
  PROVE  FateInv' /\ SameReads
<1>1. Ids' = Ids /\ \A i \in Ids : Upstream(i)' <=> Upstream(i)
  BY ZenonT(30) DEF Downstream, Ids, Upstream, Elements
<1>2. \A i \in Ids : Upstream(i) => fate'[i] = fate[i]
  BY DownIsNotUp, ZenonT(30) DEF Downstream
<1>3. \A n \in Slots : \A a \in 1..Len(Row[n]) : Row[n][a] \in Ids
  BY RowType DEF PipeInv
<1>4. \A i \in Ids : fate[i] # "ring full" => fate'[i] # "ring full"
  BY Zenon DEF Downstream
<1>5. \A i \in Ids : fate[i] = "ring full" => fate'[i] = "ring full"
  <2> SUFFICES ASSUME NEW i \in Ids, fate[i] = "ring full", fate'[i] # fate[i]
               PROVE  FALSE
    BY Zenon
  <2>1. PICK n \in 0..3 : \E a \in 1..Len(Row[n]) : i = Row[n][a]
    BY Zenon DEF Downstream
  <2> QED BY <2>1, DownSlots, Zenon DEF FateInv
<1>6. \A n \in Slots : \A a \in 1..Len(Row'[n]) : fate'[Row'[n][a]] # "ring full"
  <2> TAKE n \in Slots
  <2> TAKE a \in 1..Len(Row'[n])
  <2>1. PICK m \in Slots : \E b \in 1..Len(Row[m]) : Row'[n][a] = Row[m][b]
    BY Zenon DEF Within, In
  <2> QED BY <1>3, <1>4, <2>1, Zenon DEF FateInv
<1>7. FateInv'
  BY <1>1, <1>2, <1>6, Zenon DEF FateInv
<1> QED BY <1>1, <1>4, <1>5, <1>7, ReadOrUpstream, ReadOrUpstreamNext, Zenon DEF SameReads

\* The probes and the tracer move events between scratch, ring and the rest.
LEMMA FillFates ==
  ASSUME PipeInv, FateInv, NEW c \in Cpus, NEW kind \in Kinds, NEW key \in Keys, Fill(c, kind, key),
         NEW k, k = Len(events) + 1
  PROVE  /\ FateInv' /\ Ids' = Ids \cup {k} /\ fate'[k] = "moving" /\ ~HasRead(k)'
         /\ \A i \in Ids : i < k /\ events'[i] = events[i] /\ fate'[i] = fate[i]
         /\ SameReads
<1>1. /\ scratch[c] = None /\ scratch' = [scratch EXCEPT ![c] = k]
      /\ fate' = Append(fate, "moving") /\ ring' = ring
      /\ UNCHANGED <<ring, channel, inHand, socket, log, conn>>
      /\ \E e \in EventSet : events' = Append(events, e)
  <2>1. PipeTypes
    BY Zenon DEF PipeInv
  <2> DEFINE mount == [from |-> c, cpu |-> Cpu0, seq |-> 0, kind |-> kind, key |-> key, ts |-> clock]
             other == [from |-> c, cpu |-> c, seq |-> lastSeq[c] + 1, kind |-> kind, key |-> key,
                       ts |-> clock]
  <2>2. kind \in {"open", "other", "mount"} /\ clock \in Nat /\ lastSeq[c] + 1 \in Nat /\ Cpu0 \in Cpus
    <3>1. kind \in {"open", "other", "mount"} /\ Cpu0 \in Cpus /\ clock \in Nat /\ lastSeq[c] \in Nat
      BY <2>1, TelemetryAssumption, Zenon DEF PipeTypes
    <3>2. lastSeq[c] + 1 \in Nat
      BY ONLY <3>1
    <3> QED BY <3>1, <3>2, Zenon
  <2>3. mount \in EventSet /\ other \in EventSet
    BY <2>2, Zenon DEF EventSet
  <2>4. events' = Append(events, mount) \/ events' = Append(events, other)
    BY Zenon DEF Fill
  <2>5. \E e \in EventSet : events' = Append(events, e)
    BY <2>3, <2>4, Zenon
  <2> QED BY <2>5, Zenon DEF Fill, senderVars, hostVars
<1>2. /\ Len(events) \in Nat /\ events \in Seq(EventSet) /\ fate \in Seq(Fates) /\ Len(fate) = Len(events)
      /\ scratch \in [Cpus -> Ids \cup {None}] /\ k \in Nat
  BY DEF PipeInv, PipeTypes
<1>3. Len(events') = k /\ \A i \in Ids : i \in 1..Len(events) /\ i < k /\ events'[i] = events[i]
  BY <1>1, <1>2 DEF Ids
<1>4. fate'[k] = "moving" /\ \A i \in Ids : fate'[i] = fate[i]
  BY <1>1, <1>2 DEF Ids
<1>5. Ids' = Ids \cup {k} /\ k \notin Ids
  BY <1>2, <1>3 DEF Ids
<1>6. /\ scratch'[c] = k /\ k # None /\ \A d \in Cpus : d # c => scratch'[d] = scratch[d]
  BY <1>1, <1>2, TelemetryAssumption, Zenon
<1>7. Upstream(k)' /\ \A i \in Ids : Upstream(i)' <=> Upstream(i)
  <2>1. \A i : i \in Elements(ring)' <=> i \in Elements(ring)
    BY <1>1, Zenon DEF Elements
  <2>2. \A i \in Ids : i # k /\ i # None
    BY <1>5, NoneIsNoId, Zenon
  <2> QED BY <1>1, <1>6, <2>1, <2>2, Zenon DEF Upstream
<1>8. Row' = Row /\ \A n \in Slots : \A a \in 1..Len(Row[n]) : Row[n][a] \in Ids
  BY <1>1, RowStays, RowType DEF PipeInv
<1>9. FateInv'
  <2>1. \A i \in Ids' : Upstream(i)' => fate'[i] = "moving"
    BY <1>4, <1>5, <1>7, Zenon DEF FateInv
  <2>2. \A n \in Slots : \A a \in 1..Len(Row'[n]) : fate'[Row'[n][a]] # "ring full"
    BY <1>4, <1>8, Zenon DEF FateInv
  <2> QED BY <2>1, <2>2, Zenon DEF FateInv
<1>10. SameReads
  BY <1>4, <1>7, ReadOrUpstream, ReadOrUpstreamNext, Zenon DEF SameReads
<1>11. ~HasRead(k)'
  BY <1>7, ReadOrUpstreamNext, Zenon
<1> QED BY <1>3, <1>4, <1>5, <1>9, <1>10, <1>11, Zenon

LEMMA OutputFates ==
  ASSUME PipeInv, FateInv, NEW c \in Cpus, Output(c)
  PROVE  /\ FateInv' /\ scratch[c] \in Ids /\ Upstream(scratch[c]) /\ UNCHANGED events
         /\ fate'[scratch[c]] \in {"moving", "ring full"}
         /\ \A i \in Ids : i # scratch[c] => fate'[i] = fate[i]
         /\ \A i \in Ids : HasRead(i)' <=> HasRead(i)
         /\ \A i \in Ids : Upstream(i)' => Upstream(i)
<1> PICK x : x = scratch[c]
  BY Zenon
<1>1. /\ scratch' = [scratch EXCEPT ![c] = None] /\ x # None
      /\ UNCHANGED <<events, channel, inHand, socket, log, conn>>
      /\ \/ ring' = Append(ring, x) /\ fate' = fate
         \/ ring' = ring /\ Ends(x, "ring full")
  BY Zenon DEF Output, senderVars, hostVars
<1>2. /\ x \in Ids /\ ring \in Seq(Ids) /\ scratch \in [Cpus -> Ids \cup {None}] /\ Ids' = Ids
      /\ events[x].from = c
  BY <1>1, Zenon DEF PipeInv, PipeTypes, Ids
<1>3. scratch'[c] = None /\ \A d \in Cpus : d # c => scratch'[d] = scratch[d]
  BY <1>1, <1>2, Zenon
<1>4. \A i \in Ids : i # None
  BY TelemetryAssumption DEF Ids
<1>5. Upstream(x) /\ fate[x] = "moving"
  BY <1>2, Zenon DEF Upstream, FateInv
<1>6. \A d \in Cpus : d # c => scratch[d] # x
  BY <1>2, <1>4, Zenon DEF PipeInv, PipeTypes
<1>7. CASE ring' = Append(ring, x) /\ fate' = fate
  <2>1. \A i : i \in Elements(ring)' <=> i \in Elements(ring) \/ i = x
    <3>1. Len(ring') = Len(ring) + 1 /\ Len(ring) \in Nat /\ ring'[Len(ring) + 1] = x
          /\ \A a \in 1..Len(ring) : ring'[a] = ring[a]
      BY <1>2, <1>7
    <3>2. \A a \in 1..Len(ring') : a \in 1..Len(ring) \/ a = Len(ring) + 1
      BY <3>1
    <3>3. \A a \in 1..Len(ring) : a \in 1..Len(ring')
      BY <3>1
    <3>4. Len(ring) + 1 \in 1..Len(ring')
      BY <3>1
    <3> QED BY <3>1, <3>2, <3>3, <3>4, Zenon DEF Elements
  <2>2. \A i \in Ids : Upstream(i)' <=> Upstream(i)
    BY <1>3, <1>4, <2>1, Zenon DEF Upstream
  <2>3. \A n \in Slots : \A a \in 1..Len(Row'[n]) : fate'[Row'[n][a]] # "ring full"
    <3> TAKE n \in Slots
    <3> TAKE a \in 1..Len(Row'[n])
    <3>1. CASE n = 4
      <4>1. Row'[n] = ring'
        BY <3>1 DEF Row, Slots
      <4>2. Row'[n][a] \in Elements(ring)'
        BY <4>1, Zenon DEF Elements
      <4>3. Row'[n][a] = x \/ Row'[n][a] \in Elements(ring)
        BY <2>1, <4>2, Zenon
      <4>4. \A b \in 1..Len(ring) : ring[b] \in Ids
        BY <1>2
      <4>5. Row'[n][a] \in Ids /\ Upstream(Row'[n][a])
        BY <1>2, <1>5, <4>3, <4>4, Zenon DEF Upstream, Elements
      <4> QED BY <1>7, <4>5, Zenon DEF FateInv
    <3>2. CASE n # 4
      <4>1. UNCHANGED <<channel, inHand, socket, log, conn>>
        BY <1>1, Zenon
      <4>2. Row'[n] = Row[n]
        BY ONLY <3>2, <4>1, n \in Slots DEF Row, Slots, Stream, Hand
      <4> QED BY <1>7, <4>2, Zenon DEF FateInv
    <3> QED BY <3>1, <3>2, Zenon
  <2>4. FateInv'
    BY <1>2, <1>7, <2>2, <2>3, Zenon DEF FateInv
  <2> QED BY <1>1, <1>2, <1>5, <1>7, <2>2, <2>4, ReadOrUpstream, ReadOrUpstreamNext, Zenon
<1>8. CASE ring' = ring /\ Ends(x, "ring full")
  <2>1. /\ fate'[x] = "ring full" /\ \A i \in Ids : i # x => fate'[i] = fate[i]
    BY <1>2, <1>8, FateEnds, Zenon DEF PipeInv, Fates
  <2>2. \A i \in Ids : i # x => (Upstream(i)' <=> Upstream(i))
    BY <1>3, <1>4, <1>8, Zenon DEF Upstream, Elements
  <2>3. \A n \in Slots : \A a \in 1..Len(Row[n]) : Row[n][a] # x /\ Row[n][a] \in Ids
    <3>1. \A n \in Slots : \A a \in 1..Len(Row[n]) : Row[n][a] \in Ids
      BY RowType DEF PipeInv
    <3> QED BY <1>1, <3>1, Zenon DEF PipeInv, ScratchLast, Before
  <2>4. Row' = Row
    BY <1>1, <1>8, RowStays, Zenon
  <2>5. ~Upstream(x)'
    <3>1. x \notin Elements(ring)
      BY <2>3 DEF Elements, Row, Slots
    <3>2. \A d \in Cpus : scratch'[d] # x
      BY <1>2, <1>3, <1>4, <1>6, Zenon
    <3>3. Elements(ring)' = Elements(ring)
      BY <1>8, Zenon DEF Elements
    <3> QED BY <3>1, <3>2, <3>3, Zenon DEF Upstream
  <2>6. FateInv'
    <3>1. \A i \in Ids : Upstream(i)' => fate'[i] = "moving"
      <4> SUFFICES ASSUME NEW i \in Ids, Upstream(i)'
                   PROVE  fate'[i] = "moving"
        BY Zenon
      <4>1. i # x
        BY <2>5, Zenon
      <4> QED BY <2>1, <2>2, <4>1, Zenon DEF FateInv
    <3>2. \A n \in Slots : \A a \in 1..Len(Row[n]) : fate'[Row[n][a]] # "ring full"
      BY <2>1, <2>3, Zenon DEF FateInv
    <3>3. Ids' = Ids
      BY <1>2, Zenon
    <3> QED BY <2>4, <3>1, <3>2, <3>3, Zenon DEF FateInv
  <2> QED BY <1>1, <1>2, <1>5, <2>1, <2>2, <2>6, ReadOrUpstream, ReadOrUpstreamNext, Zenon
<1> QED BY <1>1, <1>7, <1>8, Zenon

LEMMA ReadFates ==
  ASSUME PipeInv, FateInv, ReadRing, NEW x, x = Head(ring)
  PROVE  /\ FateInv' /\ UNCHANGED events /\ x \in Ids /\ Upstream(x) /\ HasRead(x)'
         /\ (fate'[x] = "duplicate") <=> IsRepeat(events[x])
         /\ \A i \in Ids : i # x => fate'[i] = fate[i] /\ (HasRead(i)' <=> HasRead(i))
         /\ \A i \in Ids : i # x /\ Upstream(i) => Before(events, x, i)
         /\ \A i \in Ids : Upstream(i)' => Upstream(i) /\ i # x
<1>0. \/ IsRepeat(events[x]) /\ Ends(x, "duplicate")
      \/ ~IsRepeat(events[x]) /\ (fate' = fate \/ Ends(x, "channel full"))
  BY Zenon DEF ReadRing
<1>1. ring # <<>> /\ ring' = Tail(ring) /\ UNCHANGED <<events, scratch>>
  BY Zenon DEF ReadRing, probeVars
<1>2. /\ ring \in Seq(Ids) /\ x \in Ids /\ Len(ring) \in Nat /\ 1 \in 1..Len(ring) /\ x = ring[1]
      /\ Len(ring') \in Nat /\ \A a \in 1..Len(ring') : a + 1 \in 1..Len(ring) /\ ring'[a] = ring[a + 1]
  BY <1>1, Cut, Zenon DEF PipeInv, PipeTypes
<1>3. Ids' = Ids /\ \A i \in Ids : i # None
  BY <1>1, TelemetryAssumption DEF Ids
<1>4. Upstream(x) /\ fate[x] = "moving"
  <2>1. Upstream(x)
    BY <1>2, Zenon DEF Upstream, Elements
  <2> QED BY <1>2, <2>1, Zenon DEF FateInv
<1>5. /\ \A i \in Ids : i # x => fate'[i] = fate[i]
      /\ (fate'[x] = "duplicate") <=> IsRepeat(events[x])
      /\ fate'[x] # "ring full"
  <2>1. CASE IsRepeat(events[x]) /\ Ends(x, "duplicate")
    BY <1>2, <2>1, FateEnds, Zenon DEF PipeInv, Fates
  <2>2. CASE ~IsRepeat(events[x]) /\ Ends(x, "channel full")
    BY <1>2, <2>2, FateEnds, Zenon DEF PipeInv, Fates
  <2>3. CASE ~IsRepeat(events[x]) /\ fate' = fate
    BY <1>4, <2>3, Zenon
  <2> QED BY <1>0, <2>1, <2>2, <2>3, Zenon
<1>6. 4 \in Slots /\ Row[4] = ring
  BY DEF Slots, Row
<1>7. \A b \in 1..Len(ring) : 1 < b => Before(events, x, ring[b])
  <2>1. \A a, b \in 1..Len(Row[4]) : a < b => Before(events, Row[4][a], Row[4][b])
    BY <1>6, Zenon DEF PipeInv, Sorted
  <2> QED BY <1>2, <1>6, <2>1, Zenon
<1>8. \A c \in Cpus : scratch[c] # None => Before(events, x, scratch[c])
  BY <1>2, <1>6, Zenon DEF PipeInv, ScratchLast
<1>9. \A i \in Ids : i # x /\ Upstream(i) => Before(events, x, i)
  <2> SUFFICES ASSUME NEW i \in Ids, i # x, Upstream(i)
               PROVE  Before(events, x, i)
    BY Zenon
  <2>1. CASE i \in Elements(ring)
    <3>1. PICK b \in 1..Len(ring) : i = ring[b]
      BY <2>1, Zenon DEF Elements
    <3>2. 1 < b
      BY <1>2, <3>1
    <3> QED BY <1>7, <3>1, <3>2, Zenon
  <2>2. CASE \E c \in Cpus : scratch[c] = i
    BY <1>3, <1>8, <2>2, Zenon
  <2> QED BY <2>1, <2>2, Zenon DEF Upstream
<1>10. \A i : i \in Elements(ring)' <=> i \in Elements(ring) /\ i # x
  <2>1. ASSUME NEW a \in 1..Len(ring')
        PROVE  ring'[a] \in Elements(ring) /\ ring'[a] # x
    <3>1. a + 1 \in 1..Len(ring) /\ 1 < a + 1 /\ ring'[a] = ring[a + 1]
      BY <1>2
    <3> QED BY <1>7, <3>1, Zenon DEF Elements, Before
  <2>2. ASSUME NEW b \in 1..Len(ring), ring[b] # x
        PROVE  \E a \in 1..Len(ring') : ring'[a] = ring[b]
    <3>1. b - 1 \in 1..Len(Tail(ring)) /\ Tail(ring)[b - 1] = ring[b]
      <4>1. b # 1
        BY <1>2, <2>2, Zenon
      <4> QED BY ONLY <1>1, <1>2, <4>1, b \in 1..Len(ring)
    <3> QED BY <1>1, <3>1, Zenon
  <2> QED BY <2>1, <2>2, Zenon DEF Elements
<1>11. \A i \in Ids : Upstream(i)' <=> Upstream(i) /\ i # x
  <2>1. \A c \in Cpus : scratch[c] # x
    BY <1>2, <1>3, <1>8, Zenon DEF Before
  <2> QED BY <1>1, <1>10, <2>1, Zenon DEF Upstream
<1>12. FateInv'
  <2>1. \A i \in Ids : Upstream(i)' => fate'[i] = "moving"
    BY <1>5, <1>11, Zenon DEF FateInv
  <2>2. \A n \in Slots : \A a \in 1..Len(Row[n]) : fate'[Row[n][a]] # "ring full"
    <3>1. \A n \in Slots : \A a \in 1..Len(Row[n]) : Row[n][a] \in Ids
      BY RowType DEF PipeInv
    <3> QED BY <1>5, <3>1, Zenon DEF FateInv
  <2>3. \A n \in Slots : \A a \in 1..Len(Row'[n]) : fate'[Row'[n][a]] # "ring full"
    <3>1. Within(Row', Row)
      BY ReadPipe, Zenon
    <3> TAKE n \in Slots
    <3> TAKE a \in 1..Len(Row'[n])
    <3>2. PICK m \in Slots : \E b \in 1..Len(Row[m]) : Row'[n][a] = Row[m][b]
      BY <3>1, Zenon DEF Within, In
    <3> QED BY <2>2, <3>2, Zenon
  <2> QED BY <1>3, <2>1, <2>3, Zenon DEF FateInv
<1>13. \A i \in Ids : i # x => (HasRead(i)' <=> HasRead(i))
  BY <1>5, <1>11, ReadOrUpstream, ReadOrUpstreamNext, Zenon
<1>14. HasRead(x)'
  BY <1>2, <1>5, <1>11, ReadOrUpstreamNext, Zenon
<1> QED BY <1>1, <1>2, <1>4, <1>5, <1>9, <1>11, <1>12, <1>13, <1>14, Zenon

(***************************************************************************)
(* Dedup.  Behind every entry of the seen table is an open that came       *)
(* through at that time.                                                   *)
(***************************************************************************)
Passed(j) == fate[j] # "duplicate" /\ HasRead(j) /\ events[j].kind = "open"

TwinInv ==
    /\ seen \in [Keys -> Nat \cup {None}]
    /\ \A k \in Keys : seen[k] # None =>
           \E j \in Ids : Passed(j) /\ events[j].key = k /\ events[j].ts = seen[k]
    /\ SuppressedHasTwin

LEMMA TwinsStay ==
  ASSUME TwinInv, seen' = seen, Ids \subseteq Ids',
         \A j \in Ids : events'[j] = events[j] /\ (Passed(j) => Passed(j)'),
         \A i \in Ids' : fate'[i] = "duplicate" => i \in Ids /\ fate[i] = "duplicate"
  PROVE  TwinInv'
<1>1. \A k \in Keys : seen'[k] # None =>
          \E j \in Ids' : Passed(j)' /\ events'[j].key = k /\ events'[j].ts = seen'[k]
  BY DEF TwinInv
<1>2. SuppressedHasTwin'
  <2> SUFFICES ASSUME NEW i \in Ids', fate'[i] = "duplicate"
               PROVE  \E j \in Ids' : /\ j # i /\ Passed(j)' /\ events'[j].key = events'[i].key
                                       /\ SaturatingSub(events'[i].ts, events'[j].ts) < Window
    BY Zenon DEF SuppressedHasTwin, Passed
  <2>1. PICK j \in Ids : /\ j # i /\ Passed(j) /\ events[j].key = events[i].key
                         /\ SaturatingSub(events[i].ts, events[j].ts) < Window
    BY Zenon DEF TwinInv, SuppressedHasTwin, Passed
  <2> QED BY <2>1, Zenon
<1> QED BY <1>1, <1>2, Zenon DEF TwinInv

LEMMA CleanupForgets ==
  ASSUME NEW e, seen \in [Keys -> Nat \cup {None}]
  PROVE  /\ SeenAfterCleanup(e) \in [Keys -> Nat \cup {None}]
         /\ \A k \in Keys : SeenAfterCleanup(e)[k] # None => SeenAfterCleanup(e)[k] = seen[k]
<1>1. CASE SeenAfterCleanup(e) = seen
  BY <1>1, Zenon
<1>2. CASE SeenAfterCleanup(e) # seen
  <2>1. PICK cutoff : SeenAfterCleanup(e) =
               [k \in Keys |-> IF seen[k] # None /\ seen[k] > cutoff THEN seen[k] ELSE None]
    BY <1>2, Zenon DEF SeenAfterCleanup
  <2> HIDE DEF SeenAfterCleanup
  <2> QED BY <2>1, Zenon
<1> QED BY <1>1, <1>2, Zenon

LEMMA ReadTwin ==
  ASSUME PipeInv, FateInv, TwinInv, ReadRing
  PROVE  TwinInv'
<1> PICK x : x = Head(ring)
  BY Zenon
<1> DEFINE e == events[x]
           kept == SeenAfterCleanup(e)
<1>1. /\ UNCHANGED events /\ x \in Ids /\ Upstream(x) /\ HasRead(x)'
      /\ (fate'[x] = "duplicate") <=> IsRepeat(e)
      /\ \A i \in Ids : i # x => fate'[i] = fate[i] /\ (HasRead(i)' <=> HasRead(i))
  BY ReadFates, Zenon
<1>2. e \in EventSet /\ e.key \in Keys /\ e.ts \in Nat /\ Ids' = Ids
  <2>1. events' = events /\ x \in Ids /\ events \in Seq(EventSet)
    BY <1>1, Zenon DEF PipeInv, PipeTypes
  <2>2. Ids' = Ids /\ e \in EventSet
    BY ONLY <2>1 DEF Ids
  <2> QED BY <2>2, Zenon DEF EventSet
<1>3. ~HasRead(x)
  BY <1>1, ReadOrUpstream, Zenon
<1>4. \A j \in Ids : Passed(j) => j # x /\ Passed(j)'
  BY <1>1, <1>3, Zenon DEF Passed
<1>5. /\ kept \in [Keys -> Nat \cup {None}] /\ \A k \in Keys : kept[k] # None => kept[k] = seen[k]
  BY CleanupForgets, Zenon DEF TwinInv
<1> HIDE DEF kept
<1>6. \A k \in Keys : kept[k] # None =>
          \E j \in Ids : Passed(j) /\ events[j].key = k /\ events[j].ts = kept[k]
  BY <1>5, Zenon DEF TwinInv
<1>7. CASE e.kind # "open"
  <2>1. seen' = seen /\ ~IsRepeat(e)
    BY <1>7, Zenon DEF ReadRing, IsRepeat
  <2> QED BY <1>1, <1>2, <1>4, <2>1, TwinsStay, Zenon
<1>8. CASE e.kind = "open" /\ ~IsRepeat(e)
  <2>1. seen' = [kept EXCEPT ![e.key] = e.ts]
    BY <1>8, Zenon DEF ReadRing, SeenAfter, kept
  <2>2. Passed(x)'
    BY <1>1, <1>8, Zenon DEF Passed
  <2>3. /\ seen' \in [Keys -> Nat \cup {None}] /\ seen'[e.key] = e.ts
        /\ \A k \in Keys : k # e.key => seen'[k] = kept[k]
    <3>1. e.ts \in Nat => e.ts \in Nat \cup {None}
      BY Zenon
    <3> QED BY ONLY <1>2, <1>5, <2>1, <3>1, Inserted, Zenon
  <2>4. \A k \in Keys : seen'[k] # None =>
            \E j \in Ids : Passed(j)' /\ events[j].key = k /\ events[j].ts = seen'[k]
    BY <1>1, <1>4, <1>6, <2>2, <2>3
  <2>5. SuppressedHasTwin'
    <3> SUFFICES ASSUME NEW i \in Ids, fate'[i] = "duplicate"
                 PROVE  \E j \in Ids : /\ j # i /\ Passed(j)' /\ events[j].key = events[i].key
                                        /\ SaturatingSub(events[i].ts, events[j].ts) < Window
      BY <1>1, <1>2, Zenon DEF SuppressedHasTwin, Passed
    <3>1. i # x /\ fate[i] = "duplicate"
      BY <1>1, <1>8, Zenon
    <3>2. PICK j \in Ids : /\ j # i /\ Passed(j) /\ events[j].key = events[i].key
                           /\ SaturatingSub(events[i].ts, events[j].ts) < Window
      BY <3>1, Zenon DEF TwinInv, SuppressedHasTwin, Passed
    <3> QED BY <1>4, <3>2, Zenon
  <2> QED BY <1>1, <1>2, <2>3, <2>4, <2>5, Zenon DEF TwinInv
<1>9. CASE IsRepeat(e)
  <2>1. e.kind = "open" /\ seen' = kept
    BY <1>9, Zenon DEF ReadRing, SeenAfter, IsRepeat, kept
  <2>2. kept[e.key] # None /\ SaturatingSub(e.ts, kept[e.key]) < Window
    BY <1>9, Zenon DEF IsRepeat, kept
  <2>3. SuppressedHasTwin'
    <3> SUFFICES ASSUME NEW i \in Ids, fate'[i] = "duplicate"
                 PROVE  \E j \in Ids : /\ j # i /\ Passed(j)' /\ events[j].key = events[i].key
                                        /\ SaturatingSub(events[i].ts, events[j].ts) < Window
      BY <1>1, <1>2, Zenon DEF SuppressedHasTwin, Passed
    <3>1. CASE i = x
      BY <1>2, <1>4, <1>6, <2>2, <3>1, Zenon
    <3>2. CASE i # x
      <4>1. PICK j \in Ids : /\ j # i /\ Passed(j) /\ events[j].key = events[i].key
                             /\ SaturatingSub(events[i].ts, events[j].ts) < Window
        BY <1>1, <3>2, ZenonT(30) DEF TwinInv, SuppressedHasTwin, Passed
      <4> QED BY <1>4, <4>1, Zenon
    <3> QED BY <3>1, <3>2, Zenon
  <2> QED BY <1>1, <1>2, <1>4, <1>5, <1>6, <2>1, <2>3, Zenon DEF TwinInv
<1> QED BY <1>7, <1>8, <1>9, Zenon

LEMMA DownstreamTwin ==
  ASSUME PipeInv, FateInv, TwinInv, Downstream, SameReads
  PROVE  TwinInv'
<1>1. events' = events /\ seen' = seen /\ Ids' = Ids
  BY Zenon DEF Downstream, Ids
<1>2. \A i \in Ids : fate'[i] = fate[i] \/ fate'[i] # "duplicate"
  BY Zenon DEF Downstream
<1>3. \A j \in Ids : Passed(j) => Passed(j)'
  BY <1>1, <1>2, Zenon DEF Passed, SameReads
<1> QED BY <1>1, <1>2, <1>3, TwinsStay, Zenon

LEMMA FillTwin ==
  ASSUME PipeInv, FateInv, TwinInv, NEW c \in Cpus, NEW kind \in Kinds, NEW key \in Keys,
         Fill(c, kind, key)
  PROVE  TwinInv'
<1> PICK k : k = Len(events) + 1
  BY Zenon
<1>1. seen' = seen
  BY Zenon DEF Fill, tracerVars
<1>2. /\ Ids' = Ids \cup {k} /\ fate'[k] = "moving"
      /\ \A i \in Ids : i < k /\ events'[i] = events[i] /\ fate'[i] = fate[i]
      /\ \A i \in Ids : HasRead(i)' <=> HasRead(i)
  BY FillFates, Zenon DEF SameReads
<1>3. \A j \in Ids : Passed(j) => Passed(j)'
  BY <1>2, Zenon DEF Passed
<1>4. \A i \in Ids' : fate'[i] = "duplicate" => i \in Ids /\ fate[i] = "duplicate"
  BY <1>2, Zenon
<1> QED BY <1>1, <1>2, <1>3, <1>4, TwinsStay, Zenon

LEMMA OutputTwin ==
  ASSUME PipeInv, FateInv, TwinInv, NEW c \in Cpus, Output(c)
  PROVE  TwinInv'
<1> PICK x : x = scratch[c]
  BY Zenon
<1>1. seen' = seen
  BY Zenon DEF Output, tracerVars
<1>2. /\ events' = events /\ fate'[x] \in {"moving", "ring full"} /\ Ids' = Ids
      /\ \A i \in Ids : (i # x => fate'[i] = fate[i]) /\ (HasRead(i)' <=> HasRead(i))
  BY OutputFates, Zenon DEF Ids
<1>3. \A j \in Ids : Passed(j) => Passed(j)'
  BY <1>2, Zenon DEF Passed
<1> QED BY <1>1, <1>2, <1>3, TwinsStay, Zenon

FlowInv == PipeInv /\ FateInv

LEMMA NextFlow ==
  ASSUME FlowInv, [Next]_vars
  PROVE  /\ FlowInv'
         /\ \/ Probe
            \/ ReadRing
            \/ Downstream /\ SameReads
<1> USE DEF FlowInv
<1>1. PipeInv'
  BY NextPipe, Zenon
<1>2. CASE Probe
  <2>1. FateInv'
    BY <1>2, FillFates, OutputFates, Zenon DEF Probe
  <2> QED BY <1>1, <1>2, <2>1, Zenon
<1>3. CASE ReadRing
  BY <1>1, <1>3, ReadFates, Zenon
<1>4. CASE Sender \/ Host
  BY <1>1, <1>4, SenderPipe, HostPipe, SenderDownstream, HostDownstream, DownstreamFates, Zenon
<1>5. ASSUME UNCHANGED <<events, scratch, lastSeq, ring, nextSeq, totalGaps, seen, ops, fate, log, conn,
                         socket, inHand, channel>>
      PROVE  FateInv' /\ Downstream /\ SameReads
  <2>1. Downstream /\ Row' = Row
    BY <1>5, StillDownstream, RowStays, Zenon
  <2>2. Within(Row', Row)
    BY <2>1, Zenon DEF Within, In
  <2> QED BY <2>1, <2>2, DownstreamFates, Zenon
<1>6. CASE Tick \/ UNCHANGED vars \/ \E x \in Conns : CloseArrives(x)
  BY <1>1, <1>5, <1>6, Zenon DEF Tick, CloseArrives, vars, probeVars, tracerVars, senderVars, hostVars
<1> QED BY <1>2, <1>3, <1>4, <1>6, Zenon DEF Next, Exhausted

LEMMA FlowStart ==
  ASSUME Init
  PROVE  FlowInv
<1>1. Ids = {} /\ \A n \in Slots : Row[n] = <<>>
  BY DEF Init, Ids, Row, Stream, Hand
<1>2. \A n \in Slots : 1..Len(Row[n]) = {}
  BY <1>1
<1>3. FateInv
  BY <1>1, <1>2, Zenon DEF FateInv
<1> QED BY <1>3, PipeStart, Zenon DEF FlowInv

\* EventDedup only suppresses an open if one of the same process and path has
\* come through less than a window before, also across its periodic cleanup.
THEOREM DuplicatesHaveTwins == Spec => []SuppressedHasTwin
<1>1. Init => FlowInv /\ TwinInv
  <2> SUFFICES ASSUME Init
               PROVE  TwinInv
    BY FlowStart, Zenon
  <2>1. Ids = {}
    BY DEF Init, Ids
  <2> QED BY <2>1, Zenon DEF Init, TwinInv, SuppressedHasTwin
<1>2. FlowInv /\ TwinInv /\ [Next]_vars => (FlowInv /\ TwinInv)'
  <2> SUFFICES ASSUME FlowInv, TwinInv, [Next]_vars
               PROVE  TwinInv'
    BY NextFlow, Zenon
  <2>1. CASE Probe
    BY <2>1, FillTwin, OutputTwin, Zenon DEF Probe, FlowInv
  <2>2. CASE ReadRing
    BY <2>2, ReadTwin, Zenon DEF FlowInv
  <2>3. CASE Downstream /\ SameReads
    BY <2>3, DownstreamTwin, Zenon DEF FlowInv
  <2> QED BY <2>1, <2>2, <2>3, NextFlow, Zenon
<1>3. TwinInv => SuppressedHasTwin
  BY Zenon DEF TwinInv
<1> QED BY <1>1, <1>2, <1>3, PTL DEF Spec

(***************************************************************************)
(* Gaps.  Every probe but sb_mount stamps its event with its CPU and the   *)
(* next number of that CPU; without sb_mount events the numbers of a CPU   *)
(* have no holes, and the tracer meets them in order.                      *)
(***************************************************************************)
NoMounts == "mount" \notin Kinds

SeqInv ==
    /\ \A i \in Ids : events[i].cpu = events[i].from /\ events[i].seq \in 1..lastSeq[events[i].cpu]
    /\ \A i, j \in Ids : events[i].cpu = events[j].cpu /\ i < j => events[i].seq < events[j].seq
    /\ \A c \in Cpus : \A n \in 1..lastSeq[c] : \E i \in Ids : events[i].cpu = c /\ events[i].seq = n

LastRead(c, l) ==
    /\ HasRead(l) /\ events[l].cpu = c
    /\ \A j \in Ids : HasRead(j) /\ events[j].cpu = c => j <= l

ReadInv ==
    /\ nextSeq \in [Cpus -> Nat \cup {None}]
    /\ \A i, j \in Ids : HasRead(i) /\ Upstream(j) /\ events[i].cpu = events[j].cpu => i < j
    /\ \A i \in Ids : HasRead(i) => nextSeq[events[i].cpu] # None
    /\ \A c \in Cpus : nextSeq[c] # None =>
           \E l \in Ids : LastRead(c, l) /\ nextSeq[c] = events[l].seq + 1

GapInv == SeqInv /\ ReadInv /\ GapsAreExact

LEMMA EventType ==
  ASSUME PipeInv, NEW i \in Ids
  PROVE  /\ events[i] \in EventSet /\ events[i].cpu \in Cpus /\ events[i].from \in Cpus
         /\ events[i].seq \in Nat /\ i \in Nat
<1>1. events \in Seq(EventSet) /\ Len(events) \in Nat
  BY DEF PipeInv, PipeTypes
<1>2. events[i] \in EventSet /\ i \in Nat
  BY <1>1 DEF Ids
<1> QED BY <1>2, Zenon DEF EventSet

\* Where a function is one to one and onto, its inverse is a bijection.
LEMMA InverseExists ==
  ASSUME NEW S, NEW T, NEW f, f \in [S -> T],
         \A a, b \in S : f[a] = f[b] => a = b,
         \A t \in T : \E a \in S : f[a] = t
  PROVE  ExistsBijection(T, S)
<1> DEFINE g == [t \in T |-> CHOOSE a \in S : f[a] = t]
<1>1. \A t \in T : g[t] \in S /\ f[g[t]] = t
  BY Zenon
<1>2. g \in [T -> S]
  BY <1>1, Zenon
<1> HIDE DEF g
<1>3. g \in Injection(T, S)
  BY <1>1, <1>2 DEF Injection, IsInjective
<1>4. \A a \in S : g[f[a]] = a
  BY <1>1, Zenon
<1>5. g \in Surjection(T, S)
  BY <1>2, <1>4, Zenon DEF Surjection
<1> QED BY <1>3, <1>5, Zenon DEF ExistsBijection, Bijection

\* The events of a CPU strictly between two of its events are as many as the
\* numbers between theirs.
LEMMA NumbersBetween ==
  ASSUME PipeInv, SeqInv, NEW c \in Cpus, NEW l \in Ids, NEW x \in Ids, l < x,
         events[l].cpu = c, events[x].cpu = c,
         NEW S, S = {d \in Ids : l < d /\ d < x /\ events[d].cpu = c}
  PROVE  IsFiniteSet(S) /\ Cardinality(S) = events[x].seq - (events[l].seq + 1)
<1> DEFINE lo == events[l].seq + 1
           hi == events[x].seq - 1
           f == [d \in S |-> events[d].seq]
<1>1. /\ events[l].seq \in Nat /\ events[x].seq \in Nat /\ lo \in Int /\ hi \in Int
      /\ events[l].seq < events[x].seq /\ events[x].seq \in 1..lastSeq[c] /\ lastSeq[c] \in Nat
  <2>1. events[l].seq \in Nat /\ events[x].seq \in Nat
    BY EventType, Zenon
  <2>2. events[l].seq < events[x].seq /\ events[x].seq \in 1..lastSeq[c]
    BY Zenon DEF SeqInv
  <2>3. lastSeq[c] \in Nat
    BY Zenon DEF PipeInv, PipeTypes
  <2> QED BY <2>1, <2>2, <2>3
<1>2. \A i \in Ids : events[i].seq \in Nat /\ i \in Nat
  BY EventType, Zenon
<1>3. f \in [S -> lo..hi]
  <2> SUFFICES ASSUME NEW d \in S
               PROVE  events[d].seq \in lo..hi
    BY Zenon
  <2>1. d \in Ids /\ l < d /\ d < x /\ events[d].cpu = c
    BY Zenon
  <2>2. events[l].seq < events[d].seq /\ events[d].seq < events[x].seq
    BY <2>1, Zenon DEF SeqInv
  <2> QED BY <1>1, <1>2, <2>1, <2>2
<1>4. \A a, b \in S : f[a] = f[b] => a = b
  <2> SUFFICES ASSUME NEW a \in S, NEW b \in S, events[a].seq = events[b].seq
               PROVE  a = b
    BY Zenon
  <2>1. a \in Ids /\ b \in Ids /\ events[a].cpu = c /\ events[b].cpu = c
    BY Zenon
  <2>2. ~(a < b) /\ ~(b < a)
    <3>1. a < b => events[a].seq < events[b].seq
      BY <2>1, Zenon DEF SeqInv
    <3>2. b < a => events[b].seq < events[a].seq
      BY <2>1, Zenon DEF SeqInv
    <3> QED BY <1>2, <2>1, <3>1, <3>2
  <2> QED BY <1>2, <2>1, <2>2
<1>5. \A n \in lo..hi : \E d \in S : f[d] = n
  <2> SUFFICES ASSUME NEW n \in lo..hi
               PROVE  \E d \in S : events[d].seq = n
    BY Zenon
  <2>1. n \in 1..lastSeq[c] /\ events[l].seq < n /\ n < events[x].seq /\ n \in Nat
    BY <1>1
  <2>2. PICK d \in Ids : events[d].cpu = c /\ events[d].seq = n
    BY <2>1, Zenon DEF SeqInv
  <2>3. d # l /\ d # x /\ ~(d < l) /\ ~(x < d)
    <3>1. d < l => events[d].seq < events[l].seq
      BY <2>2, Zenon DEF SeqInv
    <3>2. x < d => events[x].seq < events[d].seq
      BY <2>2, Zenon DEF SeqInv
    <3> QED BY <1>1, <2>1, <2>2, <3>1, <3>2
  <2>4. l < d /\ d < x
    BY <1>2, <2>3
  <2> QED BY <2>2, <2>4, Zenon
<1>6. IsFiniteSet(lo..hi) /\ Cardinality(lo..hi) = hi - lo + 1
  <2>1. lo <= hi + 1
    BY <1>1
  <2> HIDE DEF lo, hi
  <2>2. IsFiniteSet(lo..hi) /\ Cardinality(lo..hi) = IF lo > hi THEN 0 ELSE hi - lo + 1
    BY <1>1, FS_Interval, Zenon
  <2> QED BY <1>1, <2>1, <2>2
<1> HIDE DEF f, lo, hi
<1>7. ExistsBijection(lo..hi, S)
  <2>1. PICK T : T = lo..hi
    BY Zenon
  <2>2. /\ f \in [S -> T]
        /\ \A a, b \in S : f[a] = f[b] => a = b
        /\ \A n \in T : \E d \in S : f[d] = n
    BY ONLY <1>3, <1>4, <1>5, <2>1, Zenon
  <2>3. ExistsBijection(T, S)
    BY ONLY <2>2, InverseExists
  <2> QED BY ONLY <2>1, <2>3, Zenon
<1>8. IsFiniteSet(S) /\ Cardinality(S) = hi - lo + 1
  BY <1>6, <1>7, FS_Bijection, Zenon
<1> QED BY <1>1, <1>8 DEF lo, hi

LEMMA DroppedSame ==
  ASSUME Ids \subseteq Ids', SameReads,
         \A i \in Ids : events'[i] = events[i],
         \A i \in Ids' \ Ids : ~HasRead(i)' /\ fate'[i] # "ring full"
  PROVE  DroppedBetween' = DroppedBetween
<1>1. \A d : d \in DroppedBetween => d \in DroppedBetween'
  BY Zenon DEF DroppedBetween, SameReads
<1>2. \A d : d \in DroppedBetween' => d \in DroppedBetween
  BY Zenon DEF DroppedBetween, SameReads
<1> QED BY <1>1, <1>2, Zenon

LEMMA DroppedFinite ==
  ASSUME PipeInv
  PROVE  IsFiniteSet(DroppedBetween)
<1>1. IsFiniteSet(Ids)
  <2>1. Len(events) \in Int /\ 1 \in Int
    BY DEF PipeInv, PipeTypes
  <2> QED BY <2>1, FS_Interval, Zenon DEF Ids
<1>2. DroppedBetween \in SUBSET Ids
  BY Zenon DEF DroppedBetween
<1> QED BY <1>1, <1>2, FS_Subset, Zenon

LEMMA FillGaps ==
  ASSUME NoMounts, PipeInv, FateInv, GapInv, NEW c \in Cpus, NEW kind \in Kinds, NEW key \in Keys,
         Fill(c, kind, key)
  PROVE  GapInv'
<1> PICK k : k = Len(events) + 1
  BY Zenon
<1>1. /\ Ids' = Ids \cup {k} /\ fate'[k] = "moving" /\ ~HasRead(k)' /\ SameReads
      /\ \A i \in Ids : i < k /\ events'[i] = events[i]
  BY FillFates, Zenon
<1>2. UNCHANGED <<nextSeq, totalGaps>>
  BY Zenon DEF Fill, tracerVars
<1>3. DroppedBetween' = DroppedBetween
  BY <1>1, DroppedSame, Zenon
<1>4. lastSeq' = [lastSeq EXCEPT ![c] = @ + 1]
  BY Zenon DEF Fill, NoMounts
<1>5. lastSeq \in [Cpus -> Nat] /\ Len(events) \in Nat
  BY DEF PipeInv, PipeTypes
<1>6. /\ lastSeq'[c] = lastSeq[c] + 1 /\ lastSeq[c] \in Nat
      /\ \A d \in Cpus : lastSeq[d] \in Nat /\ (d # c => lastSeq'[d] = lastSeq[d])
  BY <1>4, <1>5, Zenon
<1>7. events'[k].from = c /\ events'[k].cpu = c /\ events'[k].seq = lastSeq[c] + 1
  <2>1. kind \in Kinds \ {"mount"} /\ PipeTypes
    BY Zenon DEF NoMounts, PipeInv
  <2> QED BY <2>1, Filled, Zenon
<1>8. \A i \in Ids : events[i].cpu \in Cpus /\ events[i].seq \in Nat /\ i \in Nat
  BY EventType, Zenon
<1>9. k \in Nat
  BY <1>5
<1>10. SeqInv'
  <2>1. ASSUME NEW i \in Ids'
        PROVE  events'[i].cpu = events'[i].from /\ events'[i].seq \in 1..lastSeq'[events'[i].cpu]
    <3>1. CASE i = k
      BY ONLY <1>6, <1>7, <3>1
    <3>2. CASE i \in Ids
      <4>1. /\ events'[i] = events[i] /\ events[i].cpu = events[i].from
            /\ events[i].seq \in 1..lastSeq[events[i].cpu] /\ events[i].cpu \in Cpus
        BY <1>1, <1>8, <3>2, Zenon DEF GapInv, SeqInv
      <4>2. lastSeq'[events[i].cpu] \in {lastSeq[events[i].cpu], lastSeq[events[i].cpu] + 1}
        BY <1>6, <4>1, Zenon
      <4> QED BY <1>6, <4>1, <4>2
    <3> QED BY <1>1, <3>1, <3>2, Zenon
  <2>2. ASSUME NEW i \in Ids', NEW j \in Ids', events'[i].cpu = events'[j].cpu, i < j
        PROVE  events'[i].seq < events'[j].seq
    <3>1. i # k /\ i \in Ids
      <4>1. (i \in Ids \/ i = k) /\ (j = k \/ (j \in Nat /\ j < k))
        BY <1>1, <1>8, Zenon
      <4>2. i # k
        BY ONLY <1>9, <2>2, <4>1
      <4> QED BY <4>1, <4>2, Zenon
    <3>2. CASE j = k
      <4>1. events[i].cpu = c /\ events'[i].seq = events[i].seq
        BY <1>1, <1>7, <2>2, <3>1, <3>2, Zenon
      <4>2. events[i].seq \in 1..lastSeq[c]
        BY <3>1, <4>1, Zenon DEF GapInv, SeqInv
      <4> QED BY ONLY <1>6, <1>7, <3>2, <4>1, <4>2
    <3>3. CASE j \in Ids
      BY <1>1, <2>2, <3>1, <3>3, Zenon DEF GapInv, SeqInv
    <3> QED BY <1>1, <3>2, <3>3, Zenon
  <2>3. ASSUME NEW d \in Cpus, NEW n \in 1..lastSeq'[d]
        PROVE  \E i \in Ids' : events'[i].cpu = d /\ events'[i].seq = n
    <3>1. CASE d = c /\ n = lastSeq[c] + 1
      BY <1>1, <1>7, <3>1, Zenon
    <3>2. CASE ~(d = c /\ n = lastSeq[c] + 1)
      <4>1. n \in 1..lastSeq[d]
        BY <1>6, <3>2
      <4>2. PICK i \in Ids : events[i].cpu = d /\ events[i].seq = n
        BY <4>1, Zenon DEF GapInv, SeqInv
      <4> QED BY <1>1, <4>2, Zenon
    <3> QED BY <3>1, <3>2, Zenon
  <2> QED BY <2>1, <2>2, <2>3, Zenon DEF SeqInv
<1>11. ReadInv'
  <2>1. nextSeq \in [Cpus -> Nat \cup {None}]
    BY Zenon DEF GapInv, ReadInv
  <2>2. ASSUME NEW i \in Ids', NEW j \in Ids', HasRead(i)', Upstream(j)', events'[i].cpu = events'[j].cpu
        PROVE  i < j
    <3>1. i \in Ids /\ HasRead(i)
      BY <1>1, <2>2, Zenon DEF SameReads
    <3>2. CASE j = k
      BY <1>1, <3>1, <3>2, Zenon
    <3>3. CASE j \in Ids
      BY <1>1, <2>2, <3>1, <3>3, Zenon DEF GapInv, ReadInv, SameReads
    <3> QED BY <1>1, <3>2, <3>3, Zenon
  <2>3. \A i \in Ids' : HasRead(i)' => nextSeq[events'[i].cpu] # None
    BY <1>1, Zenon DEF GapInv, ReadInv, SameReads
  <2>4. ASSUME NEW d \in Cpus, nextSeq[d] # None
        PROVE  \E l \in Ids' : LastRead(d, l)' /\ nextSeq[d] = events'[l].seq + 1
    <3>1. PICK l \in Ids : LastRead(d, l) /\ nextSeq[d] = events[l].seq + 1
      BY <2>4, Zenon DEF GapInv, ReadInv
    <3>2. LastRead(d, l)'
      BY <1>1, <3>1, Zenon DEF LastRead, SameReads
    <3> QED BY <1>1, <3>1, <3>2, Zenon
  <2> QED BY <1>2, <2>1, <2>2, <2>3, <2>4, Zenon DEF ReadInv
<1> QED BY <1>2, <1>3, <1>10, <1>11, Zenon DEF GapInv, GapsAreExact

LEMMA LastStays ==
  ASSUME UNCHANGED events, NEW c, NEW l \in Ids, LastRead(c, l), \A i \in Ids : HasRead(i)' <=> HasRead(i)
  PROVE  LastRead(c, l)'
<1>1. Ids' = Ids
  BY Zenon DEF Ids
<1> QED BY <1>1, Zenon DEF LastRead

LEMMA ReadInvStays ==
  ASSUME ReadInv, UNCHANGED <<events, nextSeq>>,
         \A i \in Ids : HasRead(i)' <=> HasRead(i), \A i \in Ids : Upstream(i)' => Upstream(i)
  PROVE  ReadInv'
<1>1. Ids' = Ids
  BY Zenon DEF Ids
<1>2. \A c \in Cpus, l \in Ids : LastRead(c, l) => LastRead(c, l)'
  BY LastStays, Zenon
<1> QED BY <1>1, <1>2, Zenon DEF ReadInv

LEMMA SeqInvStays ==
  ASSUME SeqInv, UNCHANGED <<events, lastSeq>>
  PROVE  SeqInv'
<1>1. Ids' = Ids
  BY Zenon DEF Ids
<1> QED BY <1>1 DEF SeqInv

LEMMA OutputGaps ==
  ASSUME PipeInv, FateInv, GapInv, NEW c \in Cpus, Output(c)
  PROVE  GapInv'
<1> PICK x : x = scratch[c]
  BY Zenon
<1>1. /\ events' = events /\ x \in Ids /\ Upstream(x) /\ fate'[x] \in {"moving", "ring full"}
      /\ \A i \in Ids : i # x => fate'[i] = fate[i]
      /\ \A i \in Ids : HasRead(i)' <=> HasRead(i)
      /\ \A i \in Ids : Upstream(i)' => Upstream(i)
  BY OutputFates, Zenon
<1>2. UNCHANGED <<lastSeq, nextSeq, totalGaps>> /\ Ids' = Ids
  BY <1>1, Zenon DEF Output, tracerVars, Ids
<1>3. SeqInv' /\ ReadInv'
  <2>1. SeqInv'
    BY <1>1, <1>2, SeqInvStays, Zenon DEF GapInv
  <2>2. ReadInv'
    BY <1>1, <1>2, ReadInvStays, Zenon DEF GapInv
  <2> QED BY <2>1, <2>2, Zenon
<1>4. \A d : d \in DroppedBetween' => d \in DroppedBetween
  <2> SUFFICES ASSUME NEW d \in DroppedBetween'
               PROVE  d \in DroppedBetween
    BY Zenon
  <2>1. PICK a \in Ids, b \in Ids : /\ a < d /\ d < b
                                    /\ events[a].cpu = events[d].cpu /\ events[b].cpu = events[d].cpu
                                    /\ HasRead(a) /\ HasRead(b)
    BY <1>1, <1>2, Zenon DEF DroppedBetween
  <2>2. d \in Ids /\ fate'[d] = "ring full"
    BY <1>2, Zenon DEF DroppedBetween
  <2>3. d # x
    <3> SUFFICES ASSUME d = x
                 PROVE  FALSE
      BY Zenon
    <3>1. b < d
      BY <1>1, <2>1, Zenon DEF GapInv, ReadInv
    <3>2. b \in Nat /\ d \in Nat
      BY <2>2, EventType, Zenon
    <3> QED BY <2>1, <3>1, <3>2
  <2> QED BY <1>1, <2>1, <2>2, <2>3, Zenon DEF DroppedBetween
<1>5. \A d : d \in DroppedBetween => d \in DroppedBetween'
  <2>1. fate[x] # "ring full"
    BY <1>1, Zenon DEF FateInv
  <2> QED BY <1>1, <1>2, <2>1, Zenon DEF DroppedBetween
<1>6. DroppedBetween' = DroppedBetween
  BY <1>4, <1>5, Zenon
<1> QED BY <1>2, <1>3, <1>6, Zenon DEF GapInv, GapsAreExact

LEMMA DownstreamGaps ==
  ASSUME GapInv, Downstream, SameReads
  PROVE  GapInv'
<1>1. UNCHANGED <<events, lastSeq, nextSeq, totalGaps>> /\ Ids' = Ids
  BY Zenon DEF Downstream, Ids
<1>2. SeqInv' /\ ReadInv'
  BY <1>1, SeqInvStays, ReadInvStays, Zenon DEF GapInv, SameReads
<1>3. DroppedBetween' = DroppedBetween
  BY <1>1, DroppedSame, Zenon
<1> QED BY <1>1, <1>2, <1>3, Zenon DEF GapInv, GapsAreExact

\* The gap a read reports is the number of drops it closes in.
LEMMA ReadGaps ==
  ASSUME PipeInv, FateInv, GapInv, ReadRing
  PROVE  GapInv'
<1> PICK x : x = Head(ring)
  BY Zenon
<1> PICK c : c = events[x].cpu
  BY Zenon
<1>1. /\ events' = events /\ x \in Ids /\ Upstream(x) /\ HasRead(x)'
      /\ \A i \in Ids : i # x => fate'[i] = fate[i]
      /\ \A i \in Ids : i # x => (HasRead(i)' <=> HasRead(i))
      /\ \A i \in Ids : i # x /\ Upstream(i) => Before(events, x, i)
      /\ \A i \in Ids : Upstream(i)' => Upstream(i) /\ i # x
  BY ReadFates, Zenon
<1>2. lastSeq' = lastSeq /\ Ids' = Ids
  BY <1>1, Zenon DEF ReadRing, probeVars, Ids
<1>3. /\ nextSeq' = [nextSeq EXCEPT ![c] = events[x].seq + 1]
      /\ totalGaps' = totalGaps + Gap(events[x])
  BY Zenon DEF ReadRing
<1>4. c \in Cpus /\ events[x].seq \in Nat
  BY <1>1, EventType, Zenon
<1>5. nextSeq \in [Cpus -> Nat \cup {None}]
  BY Zenon DEF GapInv, ReadInv
<1>6. /\ nextSeq' \in [Cpus -> Nat \cup {None}] /\ nextSeq'[c] = events[x].seq + 1 /\ nextSeq'[c] # None
      /\ \A d \in Cpus : d # c => nextSeq'[d] = nextSeq[d]
  <2>1. events[x].seq + 1 \in Nat
    BY <1>4
  <2> QED BY <1>3, <1>4, <1>5, <2>1, TelemetryAssumption, Zenon
<1>7. \A i \in Ids : events[i].cpu \in Cpus /\ i \in Nat
  BY EventType, Zenon
<1>8. SeqInv'
  BY <1>1, <1>2, SeqInvStays, Zenon DEF GapInv
<1>9. ~HasRead(x) /\ fate'[x] # "ring full" /\ fate[x] # "ring full"
  BY <1>1, ReadOrUpstream, ReadOrUpstreamNext, Zenon DEF FateInv
<1>10. \A j \in Ids : HasRead(j) /\ events[j].cpu = c => j < x
  BY <1>1, Zenon DEF GapInv, ReadInv
<1>11. LastRead(c, x)'
  BY <1>1, <1>2, <1>7, <1>10 DEF LastRead
<1>12. ReadInv'
  <2>1. ASSUME NEW i \in Ids, NEW j \in Ids, HasRead(i)', Upstream(j)', events[i].cpu = events[j].cpu
        PROVE  i < j
    <3>1. CASE i = x
      <4>1. Before(events, x, j)
        BY <1>1, <2>1, Zenon
      <4>2. events[x].from = events[j].from
        BY <2>1, <3>1, Zenon DEF GapInv, SeqInv
      <4> QED BY <3>1, <4>1, <4>2, Zenon DEF Before
    <3>2. CASE i # x
      BY <1>1, <2>1, <3>2, Zenon DEF GapInv, ReadInv
    <3> QED BY <3>1, <3>2, Zenon
  <2>2. \A i \in Ids : HasRead(i)' => nextSeq'[events[i].cpu] # None
    BY <1>1, <1>6, <1>7, Zenon DEF GapInv, ReadInv
  <2>3. ASSUME NEW d \in Cpus, nextSeq'[d] # None
        PROVE  \E l \in Ids : LastRead(d, l)' /\ nextSeq'[d] = events[l].seq + 1
    <3>1. CASE d = c
      BY <1>1, <1>6, <1>11, <3>1, Zenon
    <3>2. CASE d # c
      <4>1. PICK l \in Ids : LastRead(d, l) /\ nextSeq[d] = events[l].seq + 1
        BY <1>6, <2>3, <3>2, Zenon DEF GapInv, ReadInv
      <4>2. LastRead(d, l)'
        BY <1>1, <1>2, <3>2, <4>1, Zenon DEF LastRead
      <4> QED BY <1>6, <3>2, <4>1, <4>2, Zenon
    <3> QED BY <3>1, <3>2, Zenon
  <2> QED BY <1>1, <1>2, <1>6, <2>1, <2>2, <2>3, Zenon DEF ReadInv
<1>13. DroppedBetween \subseteq DroppedBetween'
  BY <1>1, <1>2, <1>9, Zenon DEF DroppedBetween
<1>14. CASE nextSeq[c] = None
  <2>1. \A j \in Ids : HasRead(j) => events[j].cpu # c
    BY <1>14, Zenon DEF GapInv, ReadInv
  <2>2. DroppedBetween' \subseteq DroppedBetween
    <3> SUFFICES ASSUME NEW d \in DroppedBetween'
                 PROVE  d \in DroppedBetween
      BY Zenon
    <3>1. d \in Ids /\ fate'[d] = "ring full" /\ d # x /\ fate[d] = "ring full"
      BY <1>1, <1>2, <1>9, Zenon DEF DroppedBetween
    <3>2. PICK a \in Ids, b \in Ids : /\ a < d /\ d < b
                                      /\ events[a].cpu = events[d].cpu /\ events[b].cpu = events[d].cpu
                                      /\ HasRead(a)' /\ HasRead(b)'
      BY <1>1, <1>2, Zenon DEF DroppedBetween
    <3>3. a # b
      <4>1. a < d /\ d < b /\ a \in Nat /\ b \in Nat /\ d \in Nat
        BY <1>7, <3>1, <3>2, Zenon
      <4> QED BY ONLY <4>1
    <3>4. a # x /\ b # x
      BY <1>1, <2>1, <3>2, <3>3, Zenon
    <3> QED BY <1>1, <3>1, <3>2, <3>4, Zenon DEF DroppedBetween
  <2>3. DroppedBetween' = DroppedBetween
    BY <1>13, <2>2, Zenon
  <2>4. Gap(events[x]) = 0
    BY <1>14, Zenon DEF Gap
  <2>5. totalGaps' = totalGaps + 0 /\ totalGaps = Cardinality(DroppedBetween)
    BY <1>3, <2>4, Zenon DEF GapInv, GapsAreExact
  <2>6. IsFiniteSet(DroppedBetween)
    BY DroppedFinite, Zenon
  <2>7. GapsAreExact'
    BY <2>3, <2>5, <2>6, FS_CardinalityType DEF GapsAreExact
  <2> QED BY <1>8, <1>12, <2>7, Zenon DEF GapInv
<1>15. CASE nextSeq[c] # None
  <2>1. PICK l \in Ids : LastRead(c, l) /\ nextSeq[c] = events[l].seq + 1
    BY <1>4, <1>15, Zenon DEF GapInv, ReadInv
  <2>2. HasRead(l) /\ events[l].cpu = c /\ l < x /\ l # x
    BY <1>9, <1>10, <2>1, Zenon DEF LastRead
  <2> DEFINE S == {d \in Ids : l < d /\ d < x /\ events[d].cpu = c}
  <2>3. IsFiniteSet(S) /\ Cardinality(S) = events[x].seq - (events[l].seq + 1)
    BY <1>1, <1>4, <2>2, NumbersBetween, ZenonT(30) DEF GapInv
  <2>4. \A d \in S : fate[d] = "ring full" /\ d # x
    <3> TAKE d \in S
    <3>1. d \in Ids /\ l < d /\ d < x /\ events[d].cpu = c /\ d \in Nat /\ x \in Nat /\ l \in Nat
      BY <1>1, <1>7, Zenon
    <3>2. ~HasRead(d)
      BY <2>1, <3>1 DEF LastRead
    <3>3. ~Upstream(d)
      <4>1. Before(events, x, d) => x < d
        BY <1>1, <3>1, Zenon DEF Before, GapInv, SeqInv
      <4> QED BY <1>1, <3>1, <4>1
    <3>4. d # x
      BY ONLY <3>1
    <3> QED BY <3>2, <3>3, <3>4, ReadOrUpstream, Zenon
  <2>5. DroppedBetween' = DroppedBetween \cup S
    <3>1. ASSUME NEW d \in S
          PROVE  d \in DroppedBetween'
      <4>1. HasRead(l)' /\ HasRead(x)' /\ fate'[d] = "ring full" /\ d \in Ids /\ l < d /\ d < x
            /\ events[d].cpu = c
        BY <1>1, <2>2, <2>4, Zenon
      <4> QED BY <1>1, <1>2, <2>2, <4>1, Zenon DEF DroppedBetween
    <3>2. ASSUME NEW d \in DroppedBetween', d \notin S
          PROVE  d \in DroppedBetween
      <4>1. d \in Ids /\ fate'[d] = "ring full" /\ d # x /\ fate[d] = "ring full"
        BY <1>1, <1>2, <1>9, Zenon DEF DroppedBetween
      <4>2. PICK a \in Ids, b \in Ids : /\ a < d /\ d < b
                                        /\ events[a].cpu = events[d].cpu /\ events[b].cpu = events[d].cpu
                                        /\ HasRead(a)' /\ HasRead(b)'
        BY <1>1, <1>2, Zenon DEF DroppedBetween
      <4>3. d # l
        BY <2>2, <4>1, Zenon DEF HasRead
      <4>4. a \in Nat /\ b \in Nat /\ d \in Nat /\ l \in Nat /\ x \in Nat
        BY <1>1, <1>7, <4>1, Zenon
      <4>5. CASE a # x /\ b # x
        BY <1>1, <4>1, <4>2, <4>5, Zenon DEF DroppedBetween
      <4>6. CASE b = x
        <5>1. a # x /\ HasRead(a) /\ events[d].cpu = c
          <6>1. a # x
            BY ONLY <4>2, <4>4, <4>6
          <6> QED BY <1>1, <4>2, <4>6, <6>1, Zenon
        <5>2. d < l
          <6>1. d < x /\ ~(l < d /\ d < x)
            BY <3>2, <4>1, <4>2, <4>6, <5>1, Zenon
          <6> QED BY ONLY <4>3, <4>4, <6>1
        <5> QED BY <2>2, <4>1, <4>2, <5>1, <5>2, Zenon DEF DroppedBetween
      <4>7. CASE a = x
        <5>1. b # x /\ HasRead(b) /\ events[b].cpu = c
          BY <1>1, <4>2, <4>4, <4>7
        <5>2. b < x
          BY <1>10, <5>1, Zenon
        <5> QED BY <4>2, <4>4, <4>7, <5>2
      <4> QED BY <4>5, <4>6, <4>7, Zenon
    <3> QED BY <1>13, <3>1, <3>2, Zenon
  <2>6. DroppedBetween \cap S = {}
    <3> SUFFICES ASSUME NEW d \in DroppedBetween, d \in S
                 PROVE  FALSE
      BY Zenon
    <3>1. d \in Ids /\ events[d].cpu = c /\ l < d
      BY Zenon
    <3>2. PICK b \in Ids : d < b /\ events[b].cpu = c /\ HasRead(b)
      BY <3>1, Zenon DEF DroppedBetween
    <3>3. b <= l
      BY <2>1, <3>2, Zenon DEF LastRead
    <3> QED BY <1>7, <3>1, <3>2, <3>3
  <2> HIDE DEF S
  <2>7. Cardinality(DroppedBetween') = totalGaps + (events[x].seq - (events[l].seq + 1))
    <3>1. IsFiniteSet(DroppedBetween) /\ totalGaps = Cardinality(DroppedBetween)
      BY DroppedFinite, Zenon DEF GapInv, GapsAreExact
    <3>2. Cardinality(DroppedBetween \cup S) = Cardinality(DroppedBetween) + Cardinality(S) - Cardinality({})
      BY <2>3, <2>6, <3>1, FS_Union
    <3>3. Cardinality({}) = 0 /\ Cardinality(DroppedBetween) \in Nat /\ Cardinality(S) \in Nat
      BY <2>3, <3>1, FS_EmptySet, FS_CardinalityType, Zenon
    <3>4. Cardinality(DroppedBetween \cup S) = Cardinality(DroppedBetween) + Cardinality(S)
      BY <3>2, <3>3
    <3> QED BY <2>3, <2>5, <3>1, <3>4, Zenon
  <2>8. Gap(events[x]) = events[x].seq - (events[l].seq + 1)
    <3>1. events[l].seq < events[x].seq /\ events[l].seq \in Nat
      BY <1>1, <2>2, EventType, Zenon DEF GapInv, SeqInv
    <3> QED BY <1>4, <1>15, <2>1, <3>1 DEF Gap
  <2>9. GapsAreExact'
    BY <1>3, <2>7, <2>8, Zenon DEF GapsAreExact
  <2> QED BY <1>8, <1>12, <2>9, Zenon DEF GapInv
<1> QED BY <1>14, <1>15, Zenon

\* Unless sb_mount, whose hook stamps neither CPU nor number, is among the
\* probes, the tracer's total is exactly the number of events the ring buffer
\* dropped between events it read: nothing is missed, and neither interleaving
\* CPUs nor dedup is taken for a gap.
THEOREM GapsAreCounted == NoMounts => (Spec => []GapsAreExact)
<1> SUFFICES ASSUME NoMounts
             PROVE  Spec => []GapsAreExact
  BY Zenon
<1>1. Init => FlowInv /\ GapInv
  <2> SUFFICES ASSUME Init
               PROVE  GapInv
    BY FlowStart, Zenon
  <2>1. Ids = {} /\ \A c \in Cpus : lastSeq[c] = 0 /\ nextSeq[c] = None
    BY DEF Init, Ids
  <2>2. SeqInv /\ ReadInv
    BY <2>1 DEF Init, SeqInv, ReadInv
  <2>3. DroppedBetween = {}
    BY <2>1, Zenon DEF DroppedBetween
  <2> QED BY <2>2, <2>3, FS_EmptySet, Zenon DEF Init, GapInv, GapsAreExact
<1>2. FlowInv /\ GapInv /\ [Next]_vars => (FlowInv /\ GapInv)'
  <2> SUFFICES ASSUME FlowInv, GapInv, [Next]_vars
               PROVE  GapInv'
    BY NextFlow, Zenon
  <2>1. CASE Probe
    BY <2>1, FillGaps, OutputGaps, Zenon DEF Probe, FlowInv
  <2>2. CASE ReadRing
    BY <2>2, ReadGaps, Zenon DEF FlowInv
  <2>3. CASE Downstream /\ SameReads
    BY <2>3, DownstreamGaps, Zenon DEF FlowInv
  <2> QED BY <2>1, <2>2, <2>3, NextFlow, Zenon
<1>3. GapInv => GapsAreExact
  BY Zenon DEF GapInv
<1> QED BY <1>1, <1>2, <1>3, PTL DEF Spec

=============================================================================
