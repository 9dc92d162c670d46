----------------------------- MODULE PathProofs -----------------------------
(***************************************************************************)
(* Proofs about the path functions of Violations, for paths of any length: *)
(* normalize_path computes the lexical target and leaves it alone.         *)
(***************************************************************************)
EXTENDS Violations, SequenceTheorems, FiniteSetTheorems, WellFoundedInduction, TLAPS

\* A set of indices has a least one.
LEMMA Least ==
  ASSUME NEW S \in SUBSET Nat, S # {}
  PROVE  \E k \in S : \A j \in S : k <= j
<1> DEFINE R == OpToRel(<, Nat)
<1>1. IsWellFoundedOn(R, Nat)
  BY NatLessThanWellFounded, Zenon
<1>2. R = {pair \in Nat \X Nat : pair[1] < pair[2]}
  BY Zenon DEF OpToRel
<1> HIDE DEF R
<1>3. PICK k \in S : \A j \in S : ~(<<j, k>> \in R)
  BY <1>1, WFMin, Zenon
<1>4. \A j \in S : ~(j < k)
  BY <1>2, <1>3, Zenon
<1> QED BY <1>4

(***************************************************************************)
(* normalize_path, whose loop is a fold over the parts of the path.        *)
(***************************************************************************)

\* Induction, for a property given as the set of the numbers that have it.
LEMMA UpTo ==
  ASSUME NEW n \in Nat, NEW P, 0 \in P, \A k \in 0..(n - 1) : k \in P => k + 1 \in P
  PROVE  \A k \in 0..n : k \in P
<1> DEFINE bad == {k \in 0..n : k \notin P}
<1> SUFFICES ASSUME bad # {}
             PROVE  FALSE
  BY Zenon
<1>1. bad \in SUBSET Nat
  OBVIOUS
<1>2. PICK k \in bad : \A j \in bad : k <= j
  BY <1>1, Least, Zenon
<1>3. k \in 0..n /\ k # 0 /\ k - 1 \in 0..(n - 1)
  BY <1>2
<1>4. k - 1 \notin bad
  BY <1>2, <1>3
<1> QED BY <1>2, <1>3, <1>4

LEMMA Greatest ==
  ASSUME NEW n \in Nat, NEW S \in SUBSET (1..n), S # {}
  PROVE  Max(S) \in S /\ \A y \in S : Max(S) >= y
<1> DEFINE T == {n - y : y \in S}
<1>0. \A y \in S : y \in Int /\ n - y \in Nat
  OBVIOUS
<1>1. T \in SUBSET Nat /\ T # {}
  BY <1>0, Zenon
<1>2. PICK k \in T : \A j \in T : k <= j
  BY <1>1, Least, Zenon
<1>3. PICK x \in S : k = n - x
  BY <1>2, Zenon
<1>4. \A y \in S : x >= y
  <2> TAKE y \in S
  <2>1. n - y \in T
    BY Zenon
  <2>2. n - x <= n - y
    BY <1>2, <1>3, <2>1, Zenon
  <2>3. x \in Int /\ y \in Int /\ n \in Int
    BY <1>0
  <2> QED BY ONLY <2>2, <2>3
<1> QED BY <1>4, Zenon DEF Max

IsFold(it, abs, segs, n) ==
    it = [s \in SUBSET (1..n) |->
             IF s = {} THEN <<>> ELSE PushPart(abs, it[s \ {Max(s)}], segs[Max(s)])]

LEMMA FoldGrows ==
  ASSUME NEW abs, NEW segs, NEW n \in Nat, NEW it, IsFold(it, abs, segs, n)
  PROVE  \E longer : IsFold(longer, abs, segs, n + 1)
<1> DEFINE h == [s \in SUBSET (1..(n + 1)) |->
                   IF s = {} THEN <<>> ELSE PushPart(abs, it[s \ {Max(s)}], segs[Max(s)])]
<1>1. \A u \in SUBSET (1..n) :
         it[u] = IF u = {} THEN <<>> ELSE PushPart(abs, it[u \ {Max(u)}], segs[Max(u)])
  BY Zenon DEF IsFold
<1>2. \A u \in SUBSET (1..n) : h[u] = it[u]
  <2> TAKE u \in SUBSET (1..n)
  <2>1. u \in SUBSET (1..(n + 1))
    OBVIOUS
  <2> QED BY <1>1, <2>1, Zenon
<1>3. \A s \in SUBSET (1..(n + 1)) : s # {} => s \ {Max(s)} \in SUBSET (1..n)
  <2> SUFFICES ASSUME NEW s \in SUBSET (1..(n + 1)), s # {}, NEW x \in s \ {Max(s)}
               PROVE  x \in 1..n
    BY Zenon
  <2>1. n + 1 \in Nat /\ x \in s
    OBVIOUS
  <2>2. Max(s) \in s /\ \A y \in s : Max(s) >= y
    BY <2>1, Greatest, Zenon
  <2>3. Max(s) >= x /\ Max(s) # x /\ Max(s) \in 1..(n + 1) /\ x \in 1..(n + 1)
    BY <2>1, <2>2, Zenon
  <2> QED BY <2>3
<1>4. \A s \in SUBSET (1..(n + 1)) :
         h[s] = IF s = {} THEN <<>> ELSE PushPart(abs, h[s \ {Max(s)}], segs[Max(s)])
  <2> TAKE s \in SUBSET (1..(n + 1))
  <2>1. h[s] = IF s = {} THEN <<>> ELSE PushPart(abs, it[s \ {Max(s)}], segs[Max(s)])
    BY Zenon
  <2>2. s # {} => h[s \ {Max(s)}] = it[s \ {Max(s)}]
    BY <1>2, <1>3, Zenon
  <2> HIDE DEF h
  <2> QED BY <2>1, <2>2, Zenon
<1>5. h = [s \in SUBSET (1..(n + 1)) |-> h[s]]
  BY Zenon
<1>6. IsFold(h, abs, segs, n + 1)
  <2> HIDE DEF h
  <2>1. [s \in SUBSET (1..(n + 1)) |-> h[s]]
          = [s \in SUBSET (1..(n + 1)) |->
                IF s = {} THEN <<>> ELSE PushPart(abs, h[s \ {Max(s)}], segs[Max(s)])]
    BY <1>4, Zenon
  <2> QED BY <1>5, <2>1, Zenon DEF IsFold
<1> QED BY <1>6, Zenon

LEMMA FoldExists ==
  ASSUME NEW abs, NEW segs, NEW n \in Nat
  PROVE  \E it : IsFold(it, abs, segs, n)
<1> DEFINE P == {k \in Nat : \E it : IsFold(it, abs, segs, k)}
<1>1. 0 \in P
  <2> DEFINE h == [s \in SUBSET (1..0) |-> <<>>]
  <2>1. \A s \in SUBSET (1..0) : s = {}
    OBVIOUS
  <2>2. [s \in SUBSET (1..0) |-> <<>>]
          = [s \in SUBSET (1..0) |-> IF s = {} THEN <<>> ELSE PushPart(abs, h[s \ {Max(s)}], segs[Max(s)])]
    BY <2>1, Zenon
  <2>3. IsFold(h, abs, segs, 0)
    BY <2>2, Zenon DEF IsFold
  <2>4. 0 \in Nat
    BY Zenon
  <2> QED BY <2>3, <2>4, Zenon
<1>2. \A k \in Nat : k \in P => k + 1 \in P
  <2> TAKE k \in Nat
  <2> HAVE k \in P
  <2>1. PICK it : IsFold(it, abs, segs, k)
    BY Zenon
  <2>2. k + 1 \in Nat
    OBVIOUS
  <2> QED BY <2>1, <2>2, FoldGrows, Zenon
<1>3. n \in P
  <2> HIDE DEF P
  <2>1. \A k \in 0..(n - 1) : k \in P => k + 1 \in P
    BY <1>2
  <2>2. \A k \in 0..n : k \in P
    BY <1>1, <2>1, UpTo, Zenon
  <2> QED BY <2>2
<1> QED BY <1>3, Zenon


\* What normalize_path's loop has on its stack after each of the parts.
Stacks(stack, path) ==
    /\ DOMAIN stack = 0..Len(path.segs)
    /\ stack[0] = <<>>
    /\ \A k \in 1..Len(path.segs) : stack[k] = PushPart(path.abs, stack[k - 1], path.segs[k])
    /\ normalize_path(path) = Path(path.abs, stack[Len(path.segs)])

LEMMA HasStacks ==
  ASSUME NEW path, path.segs \in Seq(STRING)
  PROVE  \E stack : Stacks(stack, path)
<1> DEFINE n == Len(path.segs)
           it == CHOOSE f : IsFold(f, path.abs, path.segs, n)
           stack == [k \in 0..n |-> it[1..k]]
<1>1. n \in Nat /\ DOMAIN path.segs = 1..n
  OBVIOUS
<1>2. normalize_path(path) = Path(path.abs, it[1..n])
  <2>1. normalize_path(path)
          = Path(path.abs, (CHOOSE f : f = [s \in SUBSET DOMAIN path.segs |->
                               IF s = {} THEN <<>>
                               ELSE PushPart(path.abs, f[s \ {Max(s)}], path.segs[Max(s)])])[DOMAIN path.segs])
    BY Zenon DEF normalize_path, FoldLeft, MapThenFoldSet
  <2> QED BY <1>1, <2>1, Zenon DEF IsFold
<1>3. IsFold(it, path.abs, path.segs, n)
  BY <1>1, FoldExists, Zenon
<1> HIDE DEF it, n
<1>4. it[1..0] = <<>>
  <2>1. 1..0 = {} /\ {} \in SUBSET (1..n)
    OBVIOUS
  <2> QED BY <1>3, <2>1, Zenon DEF IsFold
<1>5. \A k \in 1..n : it[1..k] = PushPart(path.abs, it[1..(k - 1)], path.segs[k])
  <2> TAKE k \in 1..n
  <2>1. 1..k \in SUBSET (1..n) /\ k \in 1..k /\ k \in Nat
    BY <1>1
  <2>0. 1..k # {}
    BY <2>1, Zenon
  <2>2. Max(1..k) \in 1..k /\ \A y \in 1..k : Max(1..k) >= y
    BY <2>0, <2>1, Greatest, Zenon
  <2>3. Max(1..k) = k
    BY <2>1, <2>2
  <2>4. (1..k) \ {k} = 1..(k - 1)
    BY <2>1
  <2>5. it[1..k] = IF 1..k = {} THEN <<>>
                   ELSE PushPart(path.abs, it[(1..k) \ {Max(1..k)}], path.segs[Max(1..k)])
    BY <1>3, <2>1, Zenon DEF IsFold
  <2> QED BY <2>0, <2>3, <2>4, <2>5, Zenon
<1>6. /\ DOMAIN stack = 0..n
      /\ \A k \in 0..n : stack[k] = it[1..k]
  BY Zenon
<1> HIDE DEF stack
<1>7. stack[0] = <<>> /\ stack[n] = it[1..n]
  BY <1>1, <1>4, <1>6
<1>8. \A k \in 1..n : stack[k] = PushPart(path.abs, stack[k - 1], path.segs[k])
  <2> TAKE k \in 1..n
  <2>1. stack[k] = it[1..k] /\ stack[k - 1] = it[1..(k - 1)]
    BY <1>1, <1>6
  <2> QED BY <1>5, <2>1, Zenon
<1>9. Stacks(stack, path)
  BY <1>2, <1>6, <1>7, <1>8, Zenon DEF Stacks, n
<1> QED BY <1>9, Zenon

\* The parts that are skipped, and those that are no names.
Skipped == {"", "."}
NoNames == {"", ".", ".."}

LEMMA SkippedParts == ".." \notin Skipped /\ NoNames = Skipped \cup {".."}
BY Zenon DEF Skipped, NoNames

\* The four things a part may do to the stack.
LEMMA PushCases ==
  ASSUME NEW abs \in BOOLEAN, NEW stack, NEW part
  PROVE  PushPart(abs, stack, part)
           = IF part \in Skipped THEN stack
             ELSE IF part # ".." THEN Append(stack, part)
             ELSE IF abs = TRUE \/ (stack # <<>> /\ Last(stack) # "..")
             THEN SubSeq(stack, 1, Len(stack) - 1)
             ELSE Append(stack, "..")
<1>1. ".." \notin Skipped
  BY SkippedParts, Zenon
<1>2. part \in Skipped => PushPart(abs, stack, part) = stack
  BY <1>1, Zenon DEF PushPart, Skipped
<1>3. part = ".." => PushPart(abs, stack, part) = IF abs \/ (stack # <<>> /\ Last(stack) # "..")
                               THEN SubSeq(stack, 1, Len(stack) - 1)
                               ELSE Append(stack, "..")
  BY <1>1, Zenon DEF PushPart, Skipped
<1>4. part \notin NoNames => PushPart(abs, stack, part) = Append(stack, part)
  BY Zenon DEF PushPart, NoNames
<1> QED BY <1>2, <1>3, <1>4, SkippedParts, Zenon

LEMMA PutCase ==
  ASSUME NEW abs \in BOOLEAN, NEW stack, NEW part, part \notin Skipped,
         part = ".." => ~abs /\ (stack = <<>> \/ Last(stack) = "..")
  PROVE  PushPart(abs, stack, part) = Append(stack, part)
<1>1. CASE part # ".."
  BY <1>1, Zenon DEF PushPart, Skipped
<1>2. CASE part = ".."
  <2>1. abs # TRUE /\ ~(stack # <<>> /\ Last(stack) # "..")
    BY <1>2, Zenon
  <2> QED BY <1>2, <2>1, PushCases, Zenon
<1> QED BY <1>1, <1>2, Zenon

LEMMA Pushed ==
  ASSUME NEW abs \in BOOLEAN, NEW stack \in Seq(STRING), NEW part \in STRING
  PROVE  PushPart(abs, stack, part) \in Seq(STRING)
<1>1. SubSeq(stack, 1, Len(stack) - 1) \in Seq(STRING)
  OBVIOUS
<1>2. Append(stack, part) \in Seq(STRING)
  BY AppendProperties, Zenon
<1>3. PushPart(abs, stack, part) \in {stack, SubSeq(stack, 1, Len(stack) - 1), Append(stack, part)}
  BY PushCases, Zenon
<1> QED BY <1>1, <1>2, <1>3, Zenon

\* The stack holds parts of the path.
LEMMA StacksAreSegments ==
  ASSUME NEW path, path.abs \in BOOLEAN, path.segs \in Seq(STRING), NEW stack, Stacks(stack, path)
  PROVE  \A k \in 0..Len(path.segs) : stack[k] \in Seq(STRING)
<1> DEFINE n == Len(path.segs)
           P == {k \in 0..n : stack[k] \in Seq(STRING)}
<1>1. n \in Nat /\ 0 \in 0..n
  OBVIOUS
<1>2. 0 \in P
  <2>1. stack[0] = <<>>
    BY Zenon DEF Stacks
  <2>2. stack[0] \in Seq(STRING)
    BY <2>1
  <2> QED BY <1>1, <2>2, Zenon
<1>3. \A k \in 0..(n - 1) : k \in P => k + 1 \in P
  <2> TAKE k \in 0..(n - 1)
  <2> HAVE k \in P
  <2>1. k + 1 \in 1..n /\ (k + 1) - 1 = k /\ k + 1 \in 0..n
    BY <1>1
  <2>2. stack[k + 1] = PushPart(path.abs, stack[k], path.segs[k + 1])
    BY <2>1, Zenon DEF Stacks
  <2>3. path.segs[k + 1] \in STRING /\ stack[k] \in Seq(STRING)
    BY <2>1
  <2>4. stack[k + 1] \in Seq(STRING)
    BY <2>2, <2>3, Pushed, Zenon
  <2> QED BY <2>1, <2>4, Zenon
<1> HIDE DEF P
<1>4. \A k \in 0..n : k \in P
  BY <1>1, <1>2, <1>3, UpTo, Zenon
<1> QED BY <1>4, Zenon DEF P

LEMMA NormalizedIsSegments ==
  ASSUME NEW path, path.abs \in BOOLEAN, path.segs \in Seq(STRING)
  PROVE  normalize_path(path).segs \in Seq(STRING) /\ normalize_path(path).abs = path.abs
<1>1. PICK stack : Stacks(stack, path)
  BY HasStacks, Zenon
<1>2. stack[Len(path.segs)] \in Seq(STRING)
  BY <1>1, StacksAreSegments
<1>3. normalize_path(path) = Path(path.abs, stack[Len(path.segs)])
  BY <1>1, Zenon DEF Stacks
<1> QED BY <1>2, <1>3 DEF Path

(***************************************************************************)
(* normalize_path finds the lexical target.  Balance counts the names of a *)
(* stretch of the path against its `..`.                                   *)
(***************************************************************************)
Balance(segs, i, j) == Cardinality(Names(segs, i, j)) - Cardinality(DotDots(segs, i, j))

\* One more part changes the balance by one, or not at all.
LEMMA BalanceStep ==
  ASSUME NEW segs \in Seq(STRING), NEW i \in Nat, NEW j \in Nat, i <= j + 1
  PROVE  /\ Balance(segs, i, j) \in Int
         /\ segs[j + 1] \in Skipped => Balance(segs, i, j + 1) = Balance(segs, i, j)
         /\ segs[j + 1] = ".." => Balance(segs, i, j + 1) = Balance(segs, i, j) - 1
         /\ segs[j + 1] \notin NoNames => Balance(segs, i, j + 1) = Balance(segs, i, j) + 1
<1>1. i..(j + 1) = (i..j) \cup {j + 1} /\ j + 1 \notin i..j
  OBVIOUS
<1>2. IsFiniteSet(i..j)
  BY FS_Interval
<1>3. Names(segs, i, j) \subseteq i..j /\ DotDots(segs, i, j) \subseteq i..j
  BY Zenon DEF Names, DotDots
<1>4. /\ IsFiniteSet(Names(segs, i, j)) /\ Cardinality(Names(segs, i, j)) \in Nat
      /\ IsFiniteSet(DotDots(segs, i, j)) /\ Cardinality(DotDots(segs, i, j)) \in Nat
  BY <1>2, <1>3, FS_Subset, FS_CardinalityType, Zenon
<1>5. Names(segs, i, j + 1) = IF segs[j + 1] \notin NoNames
                              THEN Names(segs, i, j) \cup {j + 1} ELSE Names(segs, i, j)
  BY <1>1, Zenon DEF Names, NoNames
<1>6. DotDots(segs, i, j + 1) = IF segs[j + 1] = ".."
                                THEN DotDots(segs, i, j) \cup {j + 1} ELSE DotDots(segs, i, j)
  BY <1>1, Zenon DEF DotDots
<1>7. /\ Cardinality(Names(segs, i, j) \cup {j + 1}) = Cardinality(Names(segs, i, j)) + 1
      /\ Cardinality(DotDots(segs, i, j) \cup {j + 1}) = Cardinality(DotDots(segs, i, j)) + 1
  <2>1. j + 1 \notin Names(segs, i, j) /\ j + 1 \notin DotDots(segs, i, j)
    BY <1>1, <1>3, Zenon
  <2> QED BY <1>4, <2>1, FS_AddElement, Zenon
<1> DEFINE N == Cardinality(Names(segs, i, j))
           D == Cardinality(DotDots(segs, i, j))
           M == Cardinality(Names(segs, i, j + 1))
           E == Cardinality(DotDots(segs, i, j + 1))
<1>8. /\ segs[j + 1] \in Skipped => M = N /\ E = D
      /\ segs[j + 1] = ".." => M = N /\ E = D + 1
      /\ segs[j + 1] \notin NoNames => M = N + 1 /\ E = D
  BY <1>5, <1>6, <1>7, SkippedParts, Zenon
<1>9. N \in Nat /\ D \in Nat /\ Balance(segs, i, j) = N - D /\ Balance(segs, i, j + 1) = M - E
  BY <1>4, Zenon DEF Balance
<1> HIDE DEF N, D, M, E
<1> QED BY ONLY <1>8, <1>9

LEMMA BalanceOfNone ==
  ASSUME NEW segs \in Seq(STRING), NEW i \in Nat
  PROVE  Balance(segs, i + 1, i) = 0
<1>1. (i + 1)..i = {}
  OBVIOUS
<1>2. Names(segs, i + 1, i) = {} /\ DotDots(segs, i + 1, i) = {}
  BY <1>1, Zenon DEF Names, DotDots
<1>3. Cardinality(Names(segs, i + 1, i)) = 0 /\ Cardinality(DotDots(segs, i + 1, i)) = 0
  BY <1>2, FS_EmptySet, Zenon
<1> QED BY <1>3 DEF Balance

\* What survives of the first k parts, and what stays unmatched.
Surviving(segs, k) ==
    {i \in 1..k : segs[i] \notin NoNames /\ \A j \in i..k : Balance(segs, i, j) > 0}

UnmatchedIn(segs, k) ==
    {j \in 1..k : segs[j] = ".." /\ \A i \in 1..j : Balance(segs, i, j) < 0}

Kept(path, k) ==
    IF path.abs THEN Surviving(path.segs, k)
    ELSE Surviving(path.segs, k) \cup UnmatchedIn(path.segs, k)

\* The stack lists, in order, the kept parts among the first k, and the
\* balance from a name on the stack is the number of entries from it up.
Lists(path, k, stack, pos) ==
    /\ stack \in Seq(STRING)
    /\ pos \in [1..Len(stack) -> 1..k]
    /\ \A a, b \in 1..Len(stack) : a < b => pos[a] < pos[b]
    /\ \A a \in 1..Len(stack) : stack[a] = path.segs[pos[a]] /\ stack[a] \notin Skipped
    /\ Kept(path, k) = {pos[a] : a \in 1..Len(stack)}
    /\ \A a \in 1..Len(stack) :
           stack[a] # ".." => Balance(path.segs, pos[a], k) = Len(stack) - a + 1
    /\ \A a \in 0..Len(stack), i \in 1..k :
           (a = 0 \/ pos[a] < i \/ stack[a] = "..") => Balance(path.segs, i, k) <= Len(stack) - a
    /\ path.abs => \A a \in 1..Len(stack) : stack[a] # ".."

LEMMA ListsNothing ==
  ASSUME NEW path, path.abs \in BOOLEAN, path.segs \in Seq(STRING)
  PROVE  Lists(path, 0, <<>>, <<>>)
<1>1. 1..0 = {} /\ Len(<<>>) = 0
  OBVIOUS
<1>2. Kept(path, 0) = {}
  BY <1>1, Zenon DEF Kept, Surviving, UnmatchedIn
<1>3. <<>> \in Seq(STRING) /\ <<>> \in [1..0 -> 1..0]
  OBVIOUS
<1> QED BY <1>1, <1>2, <1>3, Zenon DEF Lists

\* The balances after one more part.
LEMMA BalanceNext ==
  ASSUME NEW segs \in Seq(STRING), NEW k \in Nat
  PROVE  /\ \A i \in 1..k : Balance(segs, i, k) \in Int
         /\ segs[k + 1] \in Skipped =>
               /\ \A i \in 1..k : Balance(segs, i, k + 1) = Balance(segs, i, k)
               /\ Balance(segs, k + 1, k + 1) = 0
         /\ segs[k + 1] = ".." =>
               /\ \A i \in 1..k : Balance(segs, i, k + 1) = Balance(segs, i, k) - 1
               /\ Balance(segs, k + 1, k + 1) = -1
         /\ segs[k + 1] \notin NoNames =>
               /\ \A i \in 1..k : Balance(segs, i, k + 1) = Balance(segs, i, k) + 1
               /\ Balance(segs, k + 1, k + 1) = 1
<1>1. Balance(segs, k + 1, k) = 0
  BY BalanceOfNone, Zenon
<1>2. \A i \in 1..(k + 1) :
         /\ Balance(segs, i, k) \in Int
         /\ segs[k + 1] \in Skipped => Balance(segs, i, k + 1) = Balance(segs, i, k)
         /\ segs[k + 1] = ".." => Balance(segs, i, k + 1) = Balance(segs, i, k) - 1
         /\ segs[k + 1] \notin NoNames => Balance(segs, i, k + 1) = Balance(segs, i, k) + 1
  <2> TAKE i \in 1..(k + 1)
  <2>1. i \in Nat /\ i <= k + 1
    OBVIOUS
  <2> QED BY <2>1, BalanceStep, Zenon
<1>3. k + 1 \in 1..(k + 1) /\ \A i \in 1..k : i \in 1..(k + 1)
  OBVIOUS
<1> QED BY <1>1, <1>2, <1>3

\* What is kept after one more part.
LEMMA KeptNext ==
  ASSUME NEW segs \in Seq(STRING), NEW k \in Nat
  PROVE  /\ \A i : i \in Surviving(segs, k + 1) <=>
                    \/ i \in Surviving(segs, k) /\ Balance(segs, i, k + 1) > 0
                    \/ i = k + 1 /\ segs[i] \notin NoNames
         /\ \A j : j \in UnmatchedIn(segs, k + 1) <=>
                    \/ j \in UnmatchedIn(segs, k)
                    \/ j = k + 1 /\ segs[j] = ".." /\ \A i \in 1..j : Balance(segs, i, j) < 0
<1>1. 1..(k + 1) = (1..k) \cup {k + 1}
  OBVIOUS
<1>2. \A i \in 1..k : i..(k + 1) = (i..k) \cup {k + 1}
  OBVIOUS
<1>3. (k + 1)..(k + 1) = {k + 1} /\ k + 1 \notin 1..k
  OBVIOUS
<1>4. segs[k + 1] \notin NoNames => Balance(segs, k + 1, k + 1) > 0
  <2>1. segs[k + 1] \notin NoNames => Balance(segs, k + 1, k + 1) = 1
    BY BalanceNext, Zenon
  <2> QED BY <2>1
<1>5. ASSUME NEW i
      PROVE  i \in Surviving(segs, k + 1) <=>
                \/ i \in Surviving(segs, k) /\ Balance(segs, i, k + 1) > 0
                \/ i = k + 1 /\ segs[i] \notin NoNames
  <2>1. CASE i \in 1..k
    BY <1>1, <1>2, <1>3, <2>1, Zenon DEF Surviving
  <2>2. CASE i = k + 1
    BY <1>1, <1>3, <1>4, <2>2, Zenon DEF Surviving
  <2>3. CASE i \notin 1..(k + 1)
    BY <1>1, <2>3, Zenon DEF Surviving
  <2> QED BY <1>1, <2>1, <2>2, <2>3, Zenon
<1>6. ASSUME NEW j
      PROVE  j \in UnmatchedIn(segs, k + 1) <=>
                \/ j \in UnmatchedIn(segs, k)
                \/ j = k + 1 /\ segs[j] = ".." /\ \A i \in 1..j : Balance(segs, i, j) < 0
  BY <1>1, Zenon DEF UnmatchedIn
<1> QED BY <1>5, <1>6, Zenon

\* Survivors have a positive balance.
LEMMA SurvivorBalance ==
  ASSUME NEW segs \in Seq(STRING), NEW k \in Nat, NEW i \in Surviving(segs, k)
  PROVE  i \in 1..k /\ segs[i] \notin NoNames /\ Balance(segs, i, k) > 0
<1>1. \A x \in 1..k : k \in x..k
  OBVIOUS
<1> QED BY <1>1, Zenon DEF Surviving

\* A part that is skipped.
LEMMA ListsSkip ==
  ASSUME NEW path, path.abs \in BOOLEAN, path.segs \in Seq(STRING), NEW k \in Nat,
         NEW stack, NEW pos, Lists(path, k, stack, pos), path.segs[k + 1] \in Skipped
  PROVE  Lists(path, k + 1, stack, pos)
<1> PICK segs : segs = path.segs
  BY Zenon
<1>1. /\ \A i \in 1..k : Balance(segs, i, k) \in Int /\ Balance(segs, i, k + 1) = Balance(segs, i, k)
      /\ Balance(segs, k + 1, k + 1) = 0
  BY BalanceNext, Zenon
<1>2. segs[k + 1] # ".." /\ segs[k + 1] \in NoNames
  BY SkippedParts, Zenon
<1>3. \A i : i \in Surviving(segs, k + 1) <=> i \in Surviving(segs, k)
  BY <1>1, <1>2, KeptNext, SurvivorBalance
<1>4. \A j : j \in UnmatchedIn(segs, k + 1) <=> j \in UnmatchedIn(segs, k)
  BY <1>2, KeptNext, Zenon
<1>5. Kept(path, k + 1) = Kept(path, k)
  <2>1. Surviving(segs, k + 1) = Surviving(segs, k) /\ UnmatchedIn(segs, k + 1) = UnmatchedIn(segs, k)
    BY <1>3, <1>4, Zenon
  <2> QED BY <2>1, Zenon DEF Kept
<1>6. pos \in [1..Len(stack) -> 1..(k + 1)]
  BY DEF Lists
<1>7. \A a \in 1..Len(stack) :
         stack[a] # ".." => Balance(segs, pos[a], k + 1) = Len(stack) - a + 1
  BY <1>1, Zenon DEF Lists
<1>8. ASSUME NEW a \in 0..Len(stack), NEW i \in 1..(k + 1), a = 0 \/ pos[a] < i \/ stack[a] = ".."
      PROVE  Balance(segs, i, k + 1) <= Len(stack) - a
  <2>1. CASE i = k + 1
    BY <1>1, <2>1 DEF Lists
  <2>2. CASE i \in 1..k
    BY <1>1, <1>8, <2>2, Zenon DEF Lists
  <2> QED BY <2>1, <2>2
<1> QED BY <1>5, <1>6, <1>7, <1>8, Zenon DEF Lists

\* A part that is put on the stack: a name, or a `..` with nothing to undo.
LEMMA ListsPut ==
  ASSUME NEW path, path.abs \in BOOLEAN, path.segs \in Seq(STRING),
         NEW k \in Nat, k + 1 <= Len(path.segs),
         NEW stack, NEW pos, Lists(path, k, stack, pos),
         path.segs[k + 1] \notin Skipped,
         path.segs[k + 1] = ".." =>
             /\ ~path.abs
             /\ stack = <<>> \/ Last(stack) = ".."
  PROVE  \E p : Lists(path, k + 1, Append(stack, path.segs[k + 1]), p)
<1> PICK segs, m, part : segs = path.segs /\ m = Len(stack) /\ part = segs[k + 1]
  BY Zenon
<1> DEFINE p == [a \in 1..(m + 1) |-> IF a = m + 1 THEN k + 1 ELSE pos[a]]
           longer == Append(stack, part)
<1>1. /\ stack \in Seq(STRING) /\ m \in Nat /\ pos \in [1..m -> 1..k]
      /\ part \in STRING /\ (part = ".." \/ part \notin NoNames)
  BY SkippedParts DEF Lists
<1>2. /\ longer \in Seq(STRING) /\ Len(longer) = m + 1 /\ longer[m + 1] = part
      /\ \A a \in 1..m : longer[a] = stack[a]
  BY <1>1, AppendProperties
<1>3. /\ p \in [1..(m + 1) -> 1..(k + 1)] /\ p[m + 1] = k + 1
      /\ \A a \in 1..m : p[a] = pos[a] /\ p[a] \in 1..k
  <2>4. m \in Nat /\ k \in Nat
    BY <1>1, Zenon
  <2>1. 1..(m + 1) = (1..m) \cup {m + 1} /\ m + 1 \notin 1..m
    BY ONLY <2>4
  <2>2. 1..(k + 1) = (1..k) \cup {k + 1}
    BY ONLY <2>4
  <2>3. \A a \in 1..m : pos[a] \in 1..k
    BY <1>1, Zenon
  <2> QED BY <2>1, <2>2, <2>3, Zenon
<1> HIDE DEF p, longer
<1>4. /\ \A i \in 1..k : Balance(segs, i, k) \in Int
      /\ part = ".." => /\ \A i \in 1..k : Balance(segs, i, k + 1) = Balance(segs, i, k) - 1
                        /\ Balance(segs, k + 1, k + 1) = -1
      /\ part # ".." => /\ \A i \in 1..k : Balance(segs, i, k + 1) = Balance(segs, i, k) + 1
                        /\ Balance(segs, k + 1, k + 1) = 1
  BY <1>1, BalanceNext, Zenon
\* Nothing survives beneath a `..` that stays.
<1>5. part = ".." => \A i \in 1..k : Balance(segs, i, k) <= 0
  <2> SUFFICES ASSUME part = "..", NEW i \in 1..k
               PROVE  Balance(segs, i, k) <= 0
    BY Zenon
  <2>1. m \in 0..Len(stack) /\ (m = 0 \/ stack[m] = "..")
    BY <1>1 DEF Last
  <2> QED BY <2>1 DEF Lists
<1>6. Kept(path, k + 1) = Kept(path, k) \cup {k + 1}
  <2>1. CASE part = ".."
    <3>1. \A i : i \notin Surviving(segs, k)
      BY <1>4, <1>5, <2>1, SurvivorBalance
    <3>2. \A i : i \notin Surviving(segs, k + 1)
      <4>1. segs[k + 1] \in NoNames
        BY <2>1, SkippedParts, Zenon
      <4>2. \A i : i \in Surviving(segs, k + 1) =>
                     i \in Surviving(segs, k) \/ (i = k + 1 /\ segs[i] \notin NoNames)
        BY KeptNext, Zenon
      <4> QED BY <3>1, <4>1, <4>2, Zenon
    <3>3. \A i \in 1..(k + 1) : Balance(segs, i, k + 1) < 0
      BY <1>4, <1>5, <2>1
    <3>4. \A j : j \in UnmatchedIn(segs, k + 1) <=> j \in UnmatchedIn(segs, k) \/ j = k + 1
      BY <2>1, <3>3, KeptNext, Zenon
    <3>5. Surviving(segs, k + 1) = Surviving(segs, k)
             /\ UnmatchedIn(segs, k + 1) = UnmatchedIn(segs, k) \cup {k + 1}
      BY <3>1, <3>2, <3>4, Zenon
    <3> QED BY <2>1, <3>5, Zenon DEF Kept
  <2>2. CASE part # ".."
    <3>1. \A i : i \in Surviving(segs, k + 1) <=> i \in Surviving(segs, k) \/ i = k + 1
      <4>1. segs[k + 1] \notin NoNames
        BY <1>1, <2>2, Zenon
      <4>2. \A i : i \in Surviving(segs, k + 1) <=>
                     \/ i \in Surviving(segs, k) /\ Balance(segs, i, k + 1) > 0
                     \/ i = k + 1 /\ segs[i] \notin NoNames
        BY KeptNext, Zenon
      <4>3. \A i \in Surviving(segs, k) : Balance(segs, i, k + 1) > 0
        <5> TAKE i \in Surviving(segs, k)
        <5>1. i \in 1..k /\ Balance(segs, i, k) > 0
          BY SurvivorBalance, Zenon
        <5> QED BY <1>4, <2>2, <5>1
      <4> QED BY <4>1, <4>2, <4>3, Zenon
    <3>2. \A j : j \in UnmatchedIn(segs, k + 1) <=> j \in UnmatchedIn(segs, k)
      BY <2>2, KeptNext, Zenon
    <3>3. Surviving(segs, k + 1) = Surviving(segs, k) \cup {k + 1}
             /\ UnmatchedIn(segs, k + 1) = UnmatchedIn(segs, k)
      BY <3>1, <3>2, Zenon
    <3> QED BY <3>3, Zenon DEF Kept
  <2> QED BY <2>1, <2>2, Zenon
<1>7. Kept(path, k + 1) = {p[a] : a \in 1..(m + 1)}
  <2>1. Kept(path, k) = {pos[a] : a \in 1..m}
    BY Zenon DEF Lists
  <2>4. m \in Nat
    BY <1>1, Zenon
  <2>2. 1..(m + 1) = (1..m) \cup {m + 1}
    BY ONLY <2>4
  <2>3. p[m + 1] = k + 1 /\ \A a \in 1..m : p[a] = pos[a]
    BY <1>3, Zenon
  <2> QED BY <1>6, <2>1, <2>2, <2>3, Zenon
<1>8. ASSUME NEW a \in 1..(m + 1), NEW b \in 1..(m + 1), a < b
      PROVE  p[a] < p[b]
  <2>1. a \in 1..m /\ p[a] = pos[a] /\ p[a] \in 1..k
    BY <1>1, <1>3, <1>8
  <2>2. CASE b = m + 1
    BY <1>3, <2>1, <2>2
  <2>3. CASE b \in 1..m
    BY <1>3, <1>8, <2>1, <2>3, Zenon DEF Lists
  <2> QED BY <1>1, <2>2, <2>3
<1>9. ASSUME NEW a \in 1..(m + 1)
      PROVE  longer[a] = segs[p[a]] /\ longer[a] \notin Skipped
  <2>1. CASE a = m + 1
    BY <1>2, <1>3, <2>1, Zenon
  <2>2. CASE a \in 1..m
    BY <1>2, <1>3, <2>2, Zenon DEF Lists
  <2> QED BY <1>1, <2>1, <2>2
<1>10. ASSUME NEW a \in 1..(m + 1), longer[a] # ".."
       PROVE  Balance(segs, p[a], k + 1) = (m + 1) - a + 1
  <2>1. CASE a = m + 1
    BY <1>1, <1>2, <1>3, <1>4, <1>10, <2>1
  <2>2. CASE a \in 1..m
    <3>1. Balance(segs, pos[a], k) = m - a + 1
      BY <1>2, <1>10, <2>2, Zenon DEF Lists
    <3>2. part # ".."
      BY <1>1, <1>3, <1>5, <2>2, <3>1
    <3>3. p[a] = pos[a] /\ pos[a] \in 1..k
      BY <1>3, <2>2, Zenon
    <3>4. Balance(segs, pos[a], k + 1) = Balance(segs, pos[a], k) + 1
      BY <1>4, <3>2, <3>3, Zenon
    <3> QED BY <1>1, <2>2, <3>1, <3>3, <3>4
  <2> QED BY <2>1, <2>2
<1>11. ASSUME NEW a \in 0..(m + 1), NEW i \in 1..(k + 1), a = 0 \/ p[a] < i \/ longer[a] = ".."
       PROVE  Balance(segs, i, k + 1) <= (m + 1) - a
  <2>1. CASE a = m + 1
    <3>1. part = ".."
      BY <1>1, <1>2, <1>3, <1>11, <2>1
    <3>2. Balance(segs, i, k + 1) <= 0
      <4>1. CASE i = k + 1
        BY <1>4, <3>1, <4>1
      <4>2. CASE i \in 1..k
        BY <1>4, <1>5, <3>1, <4>2
      <4> QED BY <4>1, <4>2
    <3> QED BY <1>1, <2>1, <3>2
  <2>2. CASE a \in 0..m /\ i = k + 1
    BY <1>1, <1>4, <2>2
  <2>3. CASE a \in 0..m /\ i \in 1..k
    <3>1. a = 0 \/ pos[a] < i \/ stack[a] = ".."
      BY <1>1, <1>2, <1>3, <1>11, <2>3
    <3>2. Balance(segs, i, k) <= m - a
      BY <2>3, <3>1, Zenon DEF Lists
    <3>3. /\ Balance(segs, i, k) \in Int
          /\ \/ Balance(segs, i, k + 1) = Balance(segs, i, k) - 1
             \/ Balance(segs, i, k + 1) = Balance(segs, i, k) + 1 /\ part # ".."
      BY <1>4, <2>3, Zenon
    <3> QED BY <1>1, <2>3, <3>2, <3>3
  <2> QED BY <1>1, <2>1, <2>2, <2>3
<1>12. path.abs => \A a \in 1..(m + 1) : longer[a] # ".."
  <2>1. CASE path.abs
    <3>1. \A a \in 1..m : longer[a] # ".."
      BY <1>2, <2>1, Zenon DEF Lists
    <3>3. m \in Nat
      BY <1>1, Zenon
    <3>2. 1..(m + 1) = (1..m) \cup {m + 1}
      BY ONLY <3>3
    <3> QED BY <1>2, <2>1, <3>1, <3>2, Zenon
  <2> QED BY <2>1, Zenon
<1>13. Lists(path, k + 1, longer, p)
  BY <1>2, <1>3, <1>7, <1>8, <1>9, <1>10, <1>11, <1>12, Zenon DEF Lists
<1> QED BY <1>13, Zenon DEF longer

\* A `..` that undoes the name on top of the stack.
LEMMA ListsPop ==
  ASSUME NEW path, path.abs \in BOOLEAN, path.segs \in Seq(STRING),
         NEW k \in Nat, k + 1 <= Len(path.segs),
         NEW stack, NEW pos, Lists(path, k, stack, pos),
         path.segs[k + 1] = "..", stack # <<>>, Last(stack) # ".."
  PROVE  \E p : Lists(path, k + 1, SubSeq(stack, 1, Len(stack) - 1), p)
<1> PICK segs, m : segs = path.segs /\ m = Len(stack)
  BY Zenon
<1> DEFINE p == [a \in 1..(m - 1) |-> pos[a]]
           shorter == SubSeq(stack, 1, m - 1)
<1>1. /\ stack \in Seq(STRING) /\ m \in Nat \ {0} /\ pos \in [1..m -> 1..k] /\ m \in 1..m
      /\ stack[m] # ".." /\ \A a \in 1..m : pos[a] \in 1..k
  <2>1. stack \in Seq(STRING) /\ pos \in [1..m -> 1..k] /\ stack[m] # ".."
    BY Zenon DEF Lists, Last
  <2>2. m \in Nat \ {0}
    BY <2>1
  <2>3. m \in 1..m
    BY ONLY <2>2
  <2> QED BY <2>1, <2>2, <2>3, Zenon
<1>2. /\ shorter \in Seq(STRING) /\ Len(shorter) = m - 1
      /\ \A a \in 1..(m - 1) : shorter[a] = stack[a]
  BY <1>1
<1>3. /\ p \in [1..(m - 1) -> 1..(k + 1)]
      /\ \A a \in 1..(m - 1) : a \in 1..m /\ p[a] = pos[a] /\ p[a] \in 1..k
  BY <1>1
<1> HIDE DEF p, shorter
<1>4. /\ \A i \in 1..k : Balance(segs, i, k) \in Int /\ Balance(segs, i, k + 1) = Balance(segs, i, k) - 1
      /\ Balance(segs, k + 1, k + 1) = -1
  <2>1. segs \in Seq(STRING) /\ segs[k + 1] = ".."
    BY Zenon
  <2> QED BY <2>1, BalanceNext, Zenon
<1>5. Balance(segs, pos[m], k + 1) = 0
  <2>1. Balance(segs, pos[m], k) = m - m + 1
    BY <1>1, Zenon DEF Lists
  <2>2. /\ m \in Nat /\ Balance(segs, pos[m], k) \in Int
        /\ Balance(segs, pos[m], k + 1) = Balance(segs, pos[m], k) - 1
    BY <1>1, <1>4, Zenon
  <2> QED BY ONLY <2>1, <2>2
<1>6. Kept(path, k + 1) = {i \in Kept(path, k) : i # pos[m]}
  <2>1. segs[k + 1] \in NoNames
    BY SkippedParts, Zenon
  <2>2. \A i : i \in Surviving(segs, k + 1) <=> i \in Surviving(segs, k) /\ Balance(segs, i, k + 1) > 0
    BY <2>1, KeptNext, Zenon
  <2>3. \A j : j \in UnmatchedIn(segs, k + 1) <=> j \in UnmatchedIn(segs, k)
    <3>1. pos[m] \in 1..(k + 1) /\ ~(Balance(segs, pos[m], k + 1) < 0)
      BY <1>1, <1>5
    <3>2. \A j : j \in UnmatchedIn(segs, k + 1) <=>
                    \/ j \in UnmatchedIn(segs, k)
                    \/ j = k + 1 /\ segs[j] = ".." /\ \A i \in 1..j : Balance(segs, i, j) < 0
      BY KeptNext, Zenon
    <3> QED BY <3>1, <3>2, Zenon
  <2>4. \A j \in UnmatchedIn(segs, k) : j # pos[m]
    <3>1. segs[pos[m]] # ".."
      BY <1>1, Zenon DEF Lists
    <3> QED BY <3>1, Zenon DEF UnmatchedIn
  <2>5. ASSUME NEW i \in Surviving(segs, k), i \in Kept(path, k)
        PROVE  Balance(segs, i, k + 1) > 0 <=> i # pos[m]
    <3>1. PICK a \in 1..m : i = pos[a]
      BY <2>5 DEF Lists
    <3>2. segs[i] \notin NoNames
      BY SurvivorBalance, Zenon
    <3>3. stack[a] # ".."
      BY <3>1, <3>2, SkippedParts, Zenon DEF Lists
    <3>4. Balance(segs, i, k) = m - a + 1
      BY <3>1, <3>3, Zenon DEF Lists
    <3>5. Balance(segs, i, k + 1) = m - a
      BY <1>1, <1>4, <3>1, <3>4
    <3>6. a # m => pos[a] < pos[m]
      BY <1>1, <3>1 DEF Lists
    <3>7. pos[a] \in Int /\ pos[m] \in Int
      BY <1>1
    <3> QED BY <1>1, <3>1, <3>5, <3>6, <3>7
  <2>6. \A i \in Surviving(segs, k) : i \in Kept(path, k)
    BY Zenon DEF Kept
  <2> QED BY <2>2, <2>3, <2>4, <2>5, <2>6, Zenon DEF Kept
<1>7. Kept(path, k + 1) = {p[a] : a \in 1..(m - 1)}
  <2>1. Kept(path, k) = {pos[a] : a \in 1..m}
    BY Zenon DEF Lists
  <2>2. \A a \in 1..m : pos[a] # pos[m] <=> a \in 1..(m - 1)
    <3> TAKE a \in 1..m
    <3>1. a # m => pos[a] < pos[m]
      BY <1>1 DEF Lists
    <3>2. pos[a] \in Int /\ pos[m] \in Int
      BY <1>1
    <3> QED BY <1>1, <3>1, <3>2
  <2>3. \A a \in 1..(m - 1) : a \in 1..m /\ p[a] = pos[a]
    BY <1>3, Zenon
  <2> QED BY <1>6, <2>1, <2>2, <2>3, Zenon
<1>8. \A a, b \in 1..(m - 1) : a < b => p[a] < p[b]
  BY <1>3, Zenon DEF Lists
<1>9. \A a \in 1..(m - 1) : shorter[a] = segs[p[a]] /\ shorter[a] \notin Skipped
  BY <1>2, <1>3, Zenon DEF Lists
<1>10. ASSUME NEW a \in 1..(m - 1), shorter[a] # ".."
       PROVE  Balance(segs, p[a], k + 1) = (m - 1) - a + 1
  <2>1. Balance(segs, pos[a], k) = m - a + 1
    BY <1>2, <1>3, <1>10, Zenon DEF Lists
  <2>2. p[a] = pos[a] /\ pos[a] \in 1..k
    BY <1>3, Zenon
  <2>3. Balance(segs, p[a], k + 1) = (m - a + 1) - 1
    BY <1>4, <2>1, <2>2, Zenon
  <2> QED BY <1>1, <2>3
<1>11. ASSUME NEW a \in 0..(m - 1), NEW i \in 1..(k + 1), a = 0 \/ p[a] < i \/ shorter[a] = ".."
       PROVE  Balance(segs, i, k + 1) <= (m - 1) - a
  <2>1. CASE i = k + 1
    BY <1>1, <1>4, <2>1
  <2>2. CASE i \in 1..k
    <3>1. a \in 0..m /\ (a = 0 \/ pos[a] < i \/ stack[a] = "..")
      BY <1>1, <1>2, <1>3, <1>11
    <3>2. Balance(segs, i, k) <= m - a
      BY <2>2, <3>1, Zenon DEF Lists
    <3> QED BY <1>1, <1>4, <2>2, <3>2
  <2> QED BY <2>1, <2>2
<1>12. path.abs => \A a \in 1..(m - 1) : shorter[a] # ".."
  BY <1>2, <1>3, Zenon DEF Lists
<1>13. Lists(path, k + 1, shorter, p)
  BY <1>2, <1>3, <1>7, <1>8, <1>9, <1>10, <1>11, <1>12, Zenon DEF Lists
<1> QED BY <1>13, Zenon DEF shorter

\* A `..` at the root.
LEMMA ListsRoot ==
  ASSUME NEW path, path.abs = TRUE, path.segs \in Seq(STRING),
         NEW k \in Nat, k + 1 <= Len(path.segs),
         NEW pos, Lists(path, k, <<>>, pos), path.segs[k + 1] = ".."
  PROVE  Lists(path, k + 1, <<>>, pos)
<1> PICK segs : segs = path.segs
  BY Zenon
<1>1. Len(<<>>) = 0 /\ 1..0 = {} /\ pos \in [1..0 -> 1..k]
  BY DEF Lists
<1>2. pos \in [1..0 -> 1..(k + 1)]
  BY <1>1, Zenon
<1>3. /\ \A i \in 1..k : Balance(segs, i, k) \in Int /\ Balance(segs, i, k + 1) = Balance(segs, i, k) - 1
      /\ Balance(segs, k + 1, k + 1) = -1
  <2>1. segs \in Seq(STRING) /\ segs[k + 1] = ".."
    BY Zenon
  <2> QED BY <2>1, BalanceNext, Zenon
<1>4. Kept(path, k) = {}
  BY <1>1, Zenon DEF Lists
<1>5. Kept(path, k + 1) = {}
  <2>1. \A i : i \notin Surviving(segs, k)
    BY <1>4, Zenon DEF Kept
  <2>2. segs[k + 1] \in NoNames
    BY SkippedParts, Zenon
  <2>3. \A i : i \notin Surviving(segs, k + 1)
    BY <2>1, <2>2, KeptNext, Zenon
  <2> QED BY <2>3, Zenon DEF Kept
<1>6. ASSUME NEW i \in 1..(k + 1)
      PROVE  Balance(segs, i, k + 1) <= 0
  <2>1. CASE i = k + 1
    BY <1>3, <2>1
  <2>2. CASE i \in 1..k
    <3>1. Balance(segs, i, k) <= 0
      BY <1>1, <2>2 DEF Lists
    <3> QED BY <1>3, <2>2, <3>1
  <2> QED BY <2>1, <2>2
<1> QED BY <1>1, <1>2, <1>5, <1>6 DEF Lists

LEMMA ListsNext ==
  ASSUME NEW path, path.abs \in BOOLEAN, path.segs \in Seq(STRING),
         NEW k \in Nat, k + 1 <= Len(path.segs),
         NEW stack, NEW pos, Lists(path, k, stack, pos)
  PROVE  \E p : Lists(path, k + 1, PushPart(path.abs, stack, path.segs[k + 1]), p)
<1> PICK part : part = path.segs[k + 1]
  BY Zenon
<1>1. CASE part \in Skipped
  <2>1. PushPart(path.abs, stack, part) = stack
    BY <1>1, PushCases, Zenon
  <2>2. /\ path.abs \in BOOLEAN /\ path.segs \in Seq(STRING) /\ k + 1 <= Len(path.segs)
        /\ Lists(path, k, stack, pos) /\ path.segs[k + 1] \in Skipped
    BY <1>1, Zenon
  <2>3. Lists(path, k + 1, stack, pos)
    BY ONLY <2>2, k \in Nat, ListsSkip
  <2> QED BY <2>1, <2>3, Zenon
<1>2. CASE part = ".." /\ stack # <<>> /\ Last(stack) # ".."
  <2>1. PushPart(path.abs, stack, part) = SubSeq(stack, 1, Len(stack) - 1)
    BY <1>2, PushCases, SkippedParts, Zenon
  <2>2. \E p : Lists(path, k + 1, SubSeq(stack, 1, Len(stack) - 1), p)
    <3>1. /\ path.abs \in BOOLEAN /\ path.segs \in Seq(STRING) /\ k + 1 <= Len(path.segs)
          /\ Lists(path, k, stack, pos)
          /\ path.segs[k + 1] = ".." /\ stack # <<>> /\ Last(stack) # ".."
      BY <1>2, Zenon
    <3> QED BY ONLY <3>1, ListsPop
  <2> QED BY <2>1, <2>2, Zenon
<1>3. CASE part = ".." /\ path.abs /\ (stack = <<>> \/ Last(stack) = "..")
  <2>1. stack = <<>>
    <3> SUFFICES ASSUME stack # <<>>
                 PROVE  FALSE
      BY Zenon
    <3>1. stack \in Seq(STRING)
      BY Zenon DEF Lists
    <3>2. Len(stack) \in 1..Len(stack)
      BY <3>1
    <3>3. stack[Len(stack)] # ".."
      BY <1>3, <3>2, Zenon DEF Lists
    <3> QED BY <1>3, <3>3, Zenon DEF Last
  <2>2. PushPart(path.abs, stack, part) = SubSeq(stack, 1, Len(stack) - 1)
    BY <1>3, PushCases, SkippedParts, Zenon
  <2>3. SubSeq(<<>>, 1, Len(<<>>) - 1) = <<>>
    BY SubSeqEmpty
  <2>4. Lists(path, k + 1, <<>>, pos)
    BY <1>3, <2>1, ListsRoot, Zenon
  <2> QED BY <2>1, <2>2, <2>3, <2>4, Zenon
<1>4. CASE part \notin Skipped /\ (part = ".." => ~path.abs /\ (stack = <<>> \/ Last(stack) = ".."))
  <2>1. PushPart(path.abs, stack, part) = Append(stack, part)
    BY <1>4, PutCase, Zenon
  <2>2. \E p : Lists(path, k + 1, Append(stack, part), p)
    <3>1. /\ path.abs \in BOOLEAN /\ path.segs \in Seq(STRING) /\ k + 1 <= Len(path.segs)
          /\ Lists(path, k, stack, pos) /\ path.segs[k + 1] = part /\ part \notin Skipped
          /\ part = ".." => ~path.abs /\ (stack = <<>> \/ Last(stack) = "..")
      BY <1>4, Zenon
    <3> QED BY ONLY <3>1, k \in Nat, ListsPut
  <2> QED BY <2>1, <2>2, Zenon
<1> QED BY <1>1, <1>2, <1>3, <1>4, Zenon

\* After the last part the stack lists what the whole path keeps.
LEMMA StackIsListed ==
  ASSUME NEW path, path.abs \in BOOLEAN, path.segs \in Seq(STRING), NEW stack, Stacks(stack, path)
  PROVE  \E pos : Lists(path, Len(path.segs), stack[Len(path.segs)], pos)
<1> DEFINE n == Len(path.segs)
           P == {k \in 0..n : \E pos : Lists(path, k, stack[k], pos)}
<1>1. n \in Nat /\ 0 \in 0..n /\ n \in 0..n
  OBVIOUS
<1>2. 0 \in P
  <2>1. stack[0] = <<>>
    BY Zenon DEF Stacks
  <2>2. Lists(path, 0, <<>>, <<>>)
    BY ListsNothing
  <2> QED BY <1>1, <2>1, <2>2, Zenon
<1>3. \A k \in 0..(n - 1) : k \in P => k + 1 \in P
  <2> TAKE k \in 0..(n - 1)
  <2> HAVE k \in P
  <2>1. k + 1 \in 1..n /\ (k + 1) - 1 = k /\ k + 1 \in 0..n /\ k \in Nat /\ k + 1 <= n
    BY <1>1
  <2>2. stack[k + 1] = PushPart(path.abs, stack[k], path.segs[k + 1])
    BY <2>1, Zenon DEF Stacks
  <2>3. PICK pos : Lists(path, k, stack[k], pos)
    BY Zenon
  <2>4. \E p : Lists(path, k + 1, PushPart(path.abs, stack[k], path.segs[k + 1]), p)
    <3>1. /\ path.abs \in BOOLEAN /\ path.segs \in Seq(STRING) /\ k \in Nat
          /\ k + 1 <= Len(path.segs) /\ Lists(path, k, stack[k], pos)
      BY <2>1, <2>3, Zenon
    <3> QED BY ONLY <3>1, ListsNext
  <2> QED BY <2>1, <2>2, <2>4, Zenon
<1> HIDE DEF P
<1>4. \A k \in 0..n : k \in P
  BY <1>1, <1>2, <1>3, UpTo, Zenon
<1>5. n \in P
  BY <1>1, <1>4, Zenon
<1> QED BY <1>5, Zenon DEF P

\* pos lists the numbers in K in increasing order.
Increasing(pos, m, K) ==
    /\ \A a \in 1..m : pos[a] \in Nat
    /\ \A a, b \in 1..m : a < b => pos[a] < pos[b]
    /\ K = {pos[a] : a \in 1..m}

LEMMA Ranks ==
  ASSUME NEW m \in Nat, NEW pos, NEW K, Increasing(pos, m, K)
  PROVE  /\ Cardinality(K) = m
         /\ \A a \in 1..m : Cardinality({x \in K : x <= pos[a]}) = a
<1> USE DEF Increasing
<1> DEFINE I(a) == {pos[b] : b \in 1..a}
           P == {a \in 0..m : IsFiniteSet(I(a)) /\ Cardinality(I(a)) = a}
<1>1. 0 \in P
  <2>1. 1..0 = {} /\ 0 \in 0..m
    OBVIOUS
  <2>2. I(0) = {}
    BY <2>1, Zenon
  <2> HIDE DEF I
  <2> QED BY <2>1, <2>2, FS_EmptySet, Zenon
<1>2. \A a \in 0..(m - 1) : a \in P => a + 1 \in P
  <2> TAKE a \in 0..(m - 1)
  <2> HAVE a \in P
  <2>1. 1..(a + 1) = (1..a) \cup {a + 1} /\ a + 1 \in 0..m /\ a \in Nat
    OBVIOUS
  <2>2. I(a + 1) = I(a) \cup {pos[a + 1]}
    BY <2>1, Zenon
  <2>3. pos[a + 1] \notin I(a)
    <3> SUFFICES ASSUME NEW b \in 1..a, pos[b] = pos[a + 1]
                 PROVE  FALSE
      BY Zenon
    <3>1. b \in 1..m /\ a + 1 \in 1..m /\ b < a + 1
      OBVIOUS
    <3>2. pos[b] < pos[a + 1] /\ pos[b] \in Nat
      BY <3>1, Zenon
    <3> QED BY <3>2
  <2>4. IsFiniteSet(I(a)) /\ Cardinality(I(a)) = a
    BY Zenon
  <2> HIDE DEF I
  <2>5. IsFiniteSet(I(a + 1)) /\ Cardinality(I(a + 1)) = a + 1
    <3>1. /\ IsFiniteSet(I(a) \cup {pos[a + 1]})
          /\ Cardinality(I(a) \cup {pos[a + 1]}) = Cardinality(I(a)) + 1
      BY <2>3, <2>4, FS_AddElement, Zenon
    <3> QED BY <2>2, <2>4, <3>1, Zenon
  <2> QED BY <2>1, <2>5, Zenon
<1> HIDE DEF P
<1>3. \A a \in 0..m : a \in P
  BY <1>1, <1>2, UpTo, Zenon
<1>4. \A a \in 0..m : Cardinality(I(a)) = a
  BY <1>3, Zenon DEF P
<1>5. K = I(m)
  BY Zenon
<1>6. \A a \in 1..m : {x \in K : x <= pos[a]} = I(a)
  <2> TAKE a \in 1..m
  <2>1. \A b \in 1..m : pos[b] <= pos[a] <=> b \in 1..a
    <3> TAKE b \in 1..m
    <3>1. (b < a => pos[b] < pos[a]) /\ (a < b => pos[a] < pos[b]) /\ pos[a] \in Nat /\ pos[b] \in Nat
      BY Zenon
    <3> QED BY <3>1
  <2>2. 1..a \subseteq 1..m
    OBVIOUS
  <2> QED BY <2>1, <2>2, Zenon
<1>7. m \in 0..m /\ \A a \in 1..m : a \in 0..m
  OBVIOUS
<1> HIDE DEF I
<1> QED BY <1>4, <1>5, <1>6, <1>7, Zenon

\* normalize_path returns the lexical target.
LEMMA NormalizeFindsTarget ==
  ASSUME NEW path, path.abs \in BOOLEAN, path.segs \in Seq(STRING)
  PROVE  normalize_path(path) = LexicalTarget(path)
<1>1. PICK stack : Stacks(stack, path)
  BY HasStacks, Zenon
<1> PICK segs, n, top, m : segs = path.segs /\ n = Len(segs) /\ top = stack[n] /\ m = Len(top)
  BY Zenon
<1>2. PICK pos : Lists(path, n, top, pos)
  BY <1>1, StackIsListed
<1> DEFINE kept == {i \in DOMAIN path.segs :
                       \/ Survives(path.segs, i)
                       \/ ~path.abs /\ Unmatched(path.segs, i)}
<1>3. n \in Nat /\ DOMAIN segs = 1..n
  OBVIOUS
<1>4. \A i, j \in Nat : /\ Cardinality(Names(segs, i, j)) \in Nat
                         /\ Cardinality(DotDots(segs, i, j)) \in Nat
  <2> TAKE i, j \in Nat
  <2>1. Names(segs, i, j) \subseteq i..j /\ DotDots(segs, i, j) \subseteq i..j
    BY Zenon DEF Names, DotDots
  <2>2. IsFiniteSet(i..j)
    BY FS_Interval
  <2> QED BY <2>1, <2>2, FS_Subset, FS_CardinalityType, Zenon
<1>5. \A i, j \in Nat :
         /\ Balance(segs, i, j) > 0 <=> Cardinality(DotDots(segs, i, j)) < Cardinality(Names(segs, i, j))
         /\ Balance(segs, i, j) < 0 <=> Cardinality(DotDots(segs, i, j)) > Cardinality(Names(segs, i, j))
  <2> TAKE i, j \in Nat
  <2> PICK N, D : N = Cardinality(Names(segs, i, j)) /\ D = Cardinality(DotDots(segs, i, j))
    BY Zenon
  <2>1. N \in Nat /\ D \in Nat /\ Balance(segs, i, j) = N - D
    BY <1>4, Zenon DEF Balance
  <2> QED BY <2>1
<1>6. \A i \in 1..n : Survives(segs, i) <=> i \in Surviving(segs, n)
  <2> TAKE i \in 1..n
  <2>1. \A j \in i..n : i \in Nat /\ j \in Nat
    BY <1>3
  <2>2. i \in Names(segs, 1, n) <=> segs[i] \notin NoNames
    BY Zenon DEF Names, NoNames
  <2> QED BY <1>5, <2>1, <2>2, Zenon DEF Survives, Surviving
<1>7. \A j \in 1..n : Unmatched(segs, j) <=> j \in UnmatchedIn(segs, n)
  <2> TAKE j \in 1..n
  <2>1. \A i \in 1..j : i \in Nat /\ j \in Nat
    BY <1>3
  <2> QED BY <1>5, <2>1, Zenon DEF Unmatched, UnmatchedIn
<1>8. kept = Kept(path, n)
  <2>1. Surviving(segs, n) \subseteq 1..n /\ UnmatchedIn(segs, n) \subseteq 1..n
    BY Zenon DEF Surviving, UnmatchedIn
  <2>2. CASE path.abs
    BY <1>3, <1>6, <2>1, <2>2, Zenon DEF Kept
  <2>3. CASE ~path.abs
    BY <1>3, <1>6, <1>7, <2>1, <2>3, Zenon DEF Kept
  <2> QED BY <2>2, <2>3, Zenon
<1>9. /\ top \in Seq(STRING) /\ m \in Nat /\ DOMAIN top = 1..m /\ pos \in [1..m -> 1..n]
      /\ \A a, b \in 1..m : a < b => pos[a] < pos[b]
      /\ \A a \in 1..m : top[a] = segs[pos[a]]
      /\ kept = {pos[a] : a \in 1..m}
  <2> HIDE DEF kept
  <2> QED BY <1>2, <1>8 DEF Lists
<1> HIDE DEF kept
<1>10. (\A a \in 1..m : pos[a] \in Nat) /\ (\A a \in 1..m : pos[a] \in kept)
  <2>1. \A a \in 1..m : pos[a] \in 1..n
    BY <1>9, Zenon
  <2>2. \A a \in 1..m : pos[a] \in Nat
    BY <2>1
  <2>3. \A a \in 1..m : pos[a] \in kept
    BY <1>9, Zenon
  <2> QED BY <2>2, <2>3, Zenon
<1>11. /\ Cardinality(kept) = m
       /\ \A a \in 1..m : Cardinality({x \in kept : x <= pos[a]}) = a
  <2>1. Increasing(pos, m, kept)
    BY <1>9, <1>10, Zenon DEF Increasing
  <2>2. m \in Nat
    BY <1>9, Zenon
  <2> QED BY ONLY <2>1, <2>2, Ranks
<1>12. \A a \in 1..m : (CHOOSE i \in kept : Cardinality({x \in kept : x <= i}) = a) = pos[a]
  <2> TAKE a \in 1..m
  <2>1. ASSUME NEW i \in kept, Cardinality({x \in kept : x <= i}) = a
        PROVE  i = pos[a]
    <3>1. PICK b \in 1..m : i = pos[b]
      BY <1>9, Zenon
    <3> QED BY <1>11, <2>1, <3>1, Zenon
  <2>2. pos[a] \in kept /\ Cardinality({x \in kept : x <= pos[a]}) = a
    BY <1>10, <1>11, Zenon
  <2> QED BY <2>1, <2>2, Zenon
<1>13. [a \in 1..m |-> segs[CHOOSE i \in kept : Cardinality({x \in kept : x <= i}) = a]] = top
  <2>1. top = [a \in 1..m |-> top[a]]
    BY <1>9
  <2>2. \A a \in 1..m : segs[CHOOSE i \in kept : Cardinality({x \in kept : x <= i}) = a] = top[a]
    BY <1>9, <1>12, Zenon
  <2> QED BY <2>1, <2>2, Zenon
<1>14. LexicalTarget(path) = Path(path.abs, top)
  BY <1>11, <1>13, Zenon DEF LexicalTarget, kept
<1>15. normalize_path(path) = Path(path.abs, top)
  BY <1>1, Zenon DEF Stacks
<1> QED BY <1>14, <1>15, Zenon

\* normalize_path leaves alone what it returns.
LEMMA NormalizeIsIdempotent ==
  ASSUME NEW path, path.abs \in BOOLEAN, path.segs \in Seq(STRING)
  PROVE  normalize_path(normalize_path(path)) = normalize_path(path)
<1>1. PICK stack : Stacks(stack, path)
  BY HasStacks, Zenon
<1> PICK abs, n, top, m : abs = path.abs /\ n = Len(path.segs) /\ top = stack[n] /\ m = Len(top)
  BY Zenon
<1>2. PICK pos : Lists(path, n, top, pos)
  BY <1>1, StackIsListed
<1>3. PICK norm : norm = normalize_path(path)
  BY Zenon
<1>4. norm = Path(abs, top) /\ norm.abs = abs /\ norm.segs = top
  <2>1. norm = Path(abs, top)
    BY <1>1, <1>3, Zenon DEF Stacks
  <2> QED BY <2>1, Zenon DEF Path
<1>5. /\ top \in Seq(STRING) /\ m \in Nat /\ \A a \in 1..m : top[a] \notin Skipped
      /\ abs => \A a \in 1..m : top[a] # ".."
  BY <1>2 DEF Lists
\* In a relative path the `..` come first.
<1>6. ASSUME NEW a \in 1..(m - 1), top[a] # ".."
      PROVE  top[a + 1] # ".."
  <2> SUFFICES ASSUME top[a + 1] = ".."
               PROVE  FALSE
    BY Zenon
  <2>1. a \in 1..m /\ a + 1 \in 0..m
    BY <1>5
  <2>2. Balance(path.segs, pos[a], n) = m - a + 1
    BY <1>2, <1>6, <2>1, Zenon DEF Lists
  <2>3. pos[a] \in 1..n
    BY <1>2, <2>1, Zenon DEF Lists
  <2>4. Balance(path.segs, pos[a], n) <= m - (a + 1)
    BY <1>2, <2>1, <2>3, Zenon DEF Lists
  <2> QED BY <1>5, <2>2, <2>4
<1>7. PICK again : Stacks(again, norm)
  BY <1>4, <1>5, HasStacks, Zenon
<1> DEFINE P == {k \in 0..m : again[k] = SubSeq(top, 1, k)}
<1>8. 0 \in P
  <2>1. again[0] = <<>> /\ SubSeq(top, 1, 0) = <<>> /\ 0 \in 0..m
    BY <1>5, <1>7, SubSeqEmpty DEF Stacks
  <2> QED BY <2>1, Zenon
<1>9. \A k \in 0..(m - 1) : k \in P => k + 1 \in P
  <2> TAKE k \in 0..(m - 1)
  <2> HAVE k \in P
  <2>1. k + 1 \in 1..m /\ (k + 1) - 1 = k /\ k + 1 \in 0..m /\ k \in Nat
    BY <1>5
  <2> PICK low, part : low = SubSeq(top, 1, k) /\ part = top[k + 1]
    BY Zenon
  <2>2. again[k + 1] = PushPart(abs, low, part)
    <3>1. again[k + 1] = PushPart(norm.abs, again[(k + 1) - 1], norm.segs[k + 1])
      BY <1>4, <1>7, <2>1, Zenon DEF Stacks
    <3> QED BY <1>4, <2>1, <3>1, Zenon
  <2>3. /\ low \in Seq(STRING) /\ Len(low) = k /\ \A a \in 1..k : low[a] = top[a]
        /\ part \in STRING /\ part \notin Skipped /\ abs \in BOOLEAN
    BY <1>5, <2>1
  <2>4. part = ".." => ~abs /\ (low = <<>> \/ Last(low) = "..")
    <3> SUFFICES ASSUME part = ".."
                 PROVE  ~abs /\ (low = <<>> \/ Last(low) = "..")
      BY Zenon
    <3>1. ~abs
      BY <1>5, <2>1, Zenon
    <3>2. CASE k = 0
      BY <2>3, <3>1, <3>2
    <3>3. CASE k # 0
      <4>1. k \in 1..(m - 1) /\ k \in 1..k
        BY <2>1, <3>3
      <4>2. top[k] = ".."
        BY <1>6, <4>1, Zenon
      <4>3. Last(low) = ".."
        BY <2>3, <4>1, <4>2, Zenon DEF Last
      <4> QED BY <3>1, <4>3, Zenon
    <3> QED BY <3>2, <3>3, Zenon
  <2>5. PushPart(abs, low, part) = Append(low, part)
    BY ONLY <2>3, <2>4, PutCase, Zenon
  <2>6. Append(low, part) = SubSeq(top, 1, k + 1)
    <3>1. SubSeq(top, 1, k + 1) = SubSeq(top, 1, (k + 1) - 1) \o <<top[k + 1]>>
      BY <1>5, <2>1, SubSeqRecursiveSecond
    <3>2. Append(low, part) = low \o <<part>>
      BY <2>3, AppendIsConcat
    <3> QED BY <2>1, <3>1, <3>2, Zenon
  <2> QED BY <2>1, <2>2, <2>5, <2>6, Zenon
<1> HIDE DEF P
<1>10. \A k \in 0..m : k \in P
  BY <1>5, <1>8, <1>9, UpTo, Zenon
<1>11. again[m] = SubSeq(top, 1, m)
  BY <1>5, <1>10 DEF P
<1>12. SubSeq(top, 1, m) = top
  BY <1>5, SubSeqFull, Zenon
<1>13. normalize_path(norm) = Path(abs, again[m])
  BY <1>4, <1>7, Zenon DEF Stacks
<1> QED BY <1>3, <1>4, <1>11, <1>12, <1>13, Zenon

(***************************************************************************)
(* Prefixes.                                                               *)
(***************************************************************************)

\* A path begins with the first segment of each of its prefixes.
LEMMA PrefixHead ==
  ASSUME NEW s \in Seq(STRING), NEW u \in Seq(STRING), IsPrefix(s, u), s # <<>>
  PROVE  Len(s) \in Nat /\ Len(u) >= Len(s) /\ Len(s) >= 1 /\ u[1] = s[1]
<1>1. Len(s) \in Nat /\ Len(u) \in Nat /\ Len(s) >= 1 /\ Len(s) <= Len(u)
  BY DEF IsPrefix
<1>2. SubSeq(s, 1, Len(s))[1] = s[1] /\ SubSeq(u, 1, Len(s))[1] = u[1]
  BY <1>1
<1> QED BY <1>1, <1>2, Zenon DEF IsPrefix

LEMMA PrefixOne ==
  ASSUME NEW u \in Seq(STRING), NEW d, IsPrefix(<<d>>, u)
  PROVE  Len(u) \in Nat /\ Len(u) >= 1 /\ u[1] = d
<1>1. SubSeq(<<d>>, 1, 1)[1] = d /\ Len(<<d>>) = 1
  OBVIOUS
<1>2. 1 <= Len(u) /\ SubSeq(<<d>>, 1, 1) = SubSeq(u, 1, 1)
  BY <1>1, Zenon DEF IsPrefix
<1>3. SubSeq(u, 1, 1)[1] = u[1]
  BY <1>2
<1> QED BY <1>1, <1>2, <1>3

LEMMA PrefixThree ==
  ASSUME NEW u \in Seq(STRING), NEW d, NEW e, NEW f, IsPrefix(<<d, e, f>>, u)
  PROVE  Len(u) \in Nat /\ Len(u) >= 3 /\ u[1] = d
<1>1. SubSeq(<<d, e, f>>, 1, 3)[1] = d /\ Len(<<d, e, f>>) = 3
  OBVIOUS
<1>2. 3 <= Len(u) /\ SubSeq(<<d, e, f>>, 1, 3) = SubSeq(u, 1, 3)
  BY <1>1, Zenon DEF IsPrefix
<1>3. SubSeq(u, 1, 3)[1] = u[1]
  BY <1>2
<1> QED BY <1>1, <1>2, <1>3

\* A path beneath a directory of the root has a segment after it.
LEMMA StrictlyBeneath ==
  ASSUME NEW path, path.segs \in Seq(STRING), NEW d, Beneath(path, <<d>>)
  PROVE  Len(path.segs) > 1 /\ path.segs[1] = d
<1> PICK u : u = path.segs
  BY Zenon
<1>1. IsPrefix(<<d>>, u) /\ <<d>> # u
  BY Zenon DEF Beneath, IsStrictPrefix
<1>2. Len(u) \in Nat /\ Len(u) >= 1 /\ u[1] = d
  BY <1>1, PrefixOne, Zenon
<1>3. Len(u) # 1
  <2>1. <<u[1]>> \in Seq(STRING) /\ Len(<<u[1]>>) = 1 /\ <<u[1]>>[1] = u[1]
    BY <1>2
  <2>2. \A v, w \in Seq(STRING) : Len(v) = 1 /\ Len(w) = 1 /\ v[1] = w[1] => v = w
    BY SeqEqual
  <2> QED BY <1>1, <1>2, <2>1, <2>2, Zenon
<1> QED BY <1>2, <1>3

=============================================================================
