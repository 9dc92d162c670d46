--------------------------- MODULE EventLogProofs ---------------------------
(***************************************************************************)
(* Proofs about the rotation of the session log, for any limits, events    *)
(* and number of calls, and whatever file-system operations fail.          *)
(***************************************************************************)
EXTENDS EventLog, TLAPS

(***************************************************************************)
(* The inductive invariant.                                                *)
(***************************************************************************)

Working == pc \in {"write", "swap", "delete", "shift", "open"}

Types ==
    /\ files \in [0..MaxFiles -> AllFiles \cup {Missing}]
    /\ handle \in 0..MaxFiles \cup {Null, Unlinked}
    /\ currentBytes \in Nat /\ seq \in Nat
    /\ pc \in {"idle", "write", "swap", "delete", "shift", "open", "panicked"}
    /\ line.seq \in Nat /\ line.bytes \in Nat /\ line.violation \in AllViolations

\* The line at hand is newer than every line in the files.
NewestAtHand ==
    /\ Working => line.seq = seq /\ line.bytes \in 1..MaxFileBytes
    /\ \A i \in 0..MaxFiles : files[i] # Missing =>
           \A a \in 1..Len(files[i].lines) :
               files[i].lines[a].seq <= seq /\ (Working => files[i].lines[a].seq < seq)

\* Nothing newer than the handle's file has a line, and its bytes, like those
\* of events.ndjson, are in current_bytes.
HandleIsNewest ==
    /\ handle \in 0..MaxFiles =>
           /\ files[handle] # Missing /\ files[handle].bytes <= currentBytes
           /\ \A j \in 0..(handle - 1) : files[j] # Missing => Len(files[j].lines) = 0
    /\ files[0] # Missing => files[0].bytes <= currentBytes
    /\ pc = "write" => currentBytes + line.bytes <= MaxFileBytes

\* The next rename has a free target.
RoomToShift ==
    /\ pc = "shift" => n \in 0..(MaxFiles - 1) /\ files[n + 1] = Missing
    /\ pc = "open" => files[0] = Missing

Inv == Types /\ NewestAtHand /\ HandleIsNewest /\ RoomToShift /\ FilesInOrder /\ FileWithinLimit


(***************************************************************************)
(* What writing does to a file.                                            *)
(***************************************************************************)

FilesWith(S) == [lines : S, bytes : Nat, torn : Nat, glued : BOOLEAN]

WithLines(f, x, b) == [f EXCEPT !.lines = x, !.bytes = b, !.glued = FALSE]
WithPart(f, t) == [f EXCEPT !.torn = t, !.glued = TRUE]

\* Replacing the lines and their bytes of a file.
LEMMA LinesUpdated ==
    ASSUME NEW S, NEW f \in FilesWith(S), NEW x \in S, NEW b \in Nat
    PROVE  /\ WithLines(f, x, b) \in FilesWith(S)
           /\ WithLines(f, x, b).lines = x /\ WithLines(f, x, b).bytes = b
  BY Zenon DEF FilesWith, WithLines

\* Replacing the count of stray bytes of a file.
LEMMA PartUpdated ==
    ASSUME NEW S, NEW f \in FilesWith(S), NEW t \in Nat
    PROVE  /\ WithPart(f, t) \in FilesWith(S)
           /\ WithPart(f, t).lines = f.lines /\ WithPart(f, t).bytes = f.bytes
  BY Zenon DEF FilesWith, WithPart

\* write_all of a line adds it at the end and leaves the lines before it.
LEMMA LineIsAppended ==
    ASSUME NEW f \in AllFiles, NEW l, l.seq \in Nat, l.bytes \in Nat, l.violation \in AllViolations
    PROVE  /\ AppendLine(f, l) \in AllFiles
           /\ AppendLine(f, l) # Missing
           /\ AppendLine(f, l).bytes = f.bytes + l.bytes
           /\ Len(AppendLine(f, l).lines) = Len(f.lines) + 1
           /\ \A k \in 1..Len(f.lines) : AppendLine(f, l).lines[k] = f.lines[k]
           /\ AppendLine(f, l).lines[Len(f.lines) + 1].seq = l.seq
<1> DEFINE new == [seq |-> l.seq, violation |-> l.violation, readable |-> ~f.glued]
<1>1. new \in AllLines /\ new.seq = l.seq
  BY Zenon DEF AllFiles, AllLines
<1>2. f.lines \in Seq(AllLines) /\ f.bytes \in Nat
  BY Zenon DEF AllFiles
<1>3. AppendLine(f, l) = WithLines(f, Append(f.lines, new), f.bytes + l.bytes)
  BY Zenon DEF AppendLine, WithLines
<1>4. AllFiles = FilesWith(Seq(AllLines))
  BY Zenon DEF AllFiles, FilesWith
<1> HIDE DEF new
<1>5. /\ Append(f.lines, new) \in Seq(AllLines)
      /\ Len(Append(f.lines, new)) = Len(f.lines) + 1
      /\ \A k \in 1..Len(f.lines) : Append(f.lines, new)[k] = f.lines[k]
      /\ Append(f.lines, new)[Len(f.lines) + 1] = new
  BY <1>1, <1>2
<1>6. f.bytes + l.bytes \in Nat
  BY <1>2
<1>7. \A x \in Seq(AllLines), b \in Nat :
          /\ WithLines(f, x, b) \in FilesWith(Seq(AllLines))
          /\ WithLines(f, x, b).lines = x /\ WithLines(f, x, b).bytes = b
  <2>1. f \in FilesWith(Seq(AllLines))
    BY <1>4, Zenon
  <2> QED
    BY <2>1, LinesUpdated
<1>8. /\ AppendLine(f, l) \in AllFiles
      /\ AppendLine(f, l).lines = Append(f.lines, new)
      /\ AppendLine(f, l).bytes = f.bytes + l.bytes
  <2> DEFINE ls == Append(f.lines, new)
             bs == f.bytes + l.bytes
  <2>1. ls \in Seq(AllLines) /\ bs \in Nat /\ AppendLine(f, l) = WithLines(f, ls, bs)
    BY <1>3, <1>5, <1>6, Zenon
  <2>2. AppendLine(f, l) \in AllFiles /\ AppendLine(f, l).lines = ls /\ AppendLine(f, l).bytes = bs
    <3> HIDE DEF ls, bs
    <3> QED
      BY <1>4, <1>7, <2>1
  <2> QED
    BY <2>2, Zenon
<1>9. AppendLine(f, l) # Missing
  BY <1>8, EventLogAssumption, Zenon
<1> QED
  BY <1>1, <1>5, <1>8, <1>9, Zenon

\* A write that fails half way adds no line.
LEMMA PartIsNoLine ==
    ASSUME NEW f \in AllFiles, NEW k \in Nat
    PROVE  /\ AppendPart(f, k) \in AllFiles
           /\ AppendPart(f, k) # Missing
           /\ AppendPart(f, k).lines = f.lines
           /\ AppendPart(f, k).bytes = f.bytes
<1> DEFINE S == Seq(AllLines)
<1>1. AllFiles = FilesWith(S)
  BY Zenon DEF AllFiles, FilesWith
<1> HIDE DEF S
<1>2. f \in FilesWith(S)
  BY <1>1, Zenon
<1>3. f.torn + k \in Nat
  BY <1>2 DEF FilesWith
<1> DEFINE g == WithPart(f, f.torn + k)
<1>4. g \in FilesWith(S) /\ g.lines = f.lines /\ g.bytes = f.bytes
  BY <1>2, <1>3, PartUpdated, Zenon
<1>5. /\ AppendPart(f, k) \in FilesWith(S)
      /\ AppendPart(f, k).lines = f.lines
      /\ AppendPart(f, k).bytes = f.bytes
  BY <1>2, <1>4, Zenon DEF AppendPart, WithPart
<1> QED
  BY <1>1, <1>5, EventLogAssumption, Zenon

\* A file that has just been created.
LEMMA EmptyIsFile ==
    /\ EmptyFile \in AllFiles /\ EmptyFile # Missing
    /\ EmptyFile.lines = <<>> /\ EmptyFile.bytes = 0 /\ EmptyFile.torn = 0
    /\ Len(EmptyFile.lines) = 0
<1>1. EmptyFile \in AllFiles
  BY DEF EmptyFile, AllFiles
<1> QED
  BY <1>1, EventLogAssumption, Zenon DEF EmptyFile

(***************************************************************************)
(* The invariant is inductive.                                             *)
(***************************************************************************)

\* What the types say of a file that is there.
LEMMA FileTypes ==
    ASSUME Types
    PROVE  \A i \in 0..MaxFiles : files[i] # Missing =>
               /\ files[i] \in AllFiles /\ files[i].bytes \in Nat /\ Len(files[i].lines) \in Nat
               /\ \A a \in 1..Len(files[i].lines) : files[i].lines[a].seq \in Nat
<1> SUFFICES ASSUME NEW i \in 0..MaxFiles, files[i] # Missing
             PROVE  /\ files[i] \in AllFiles /\ files[i].bytes \in Nat
                    /\ Len(files[i].lines) \in Nat
                    /\ \A a \in 1..Len(files[i].lines) : files[i].lines[a].seq \in Nat
  BY Zenon
<1>1. files[i] \in AllFiles
  BY Zenon DEF Types
<1>2. /\ files[i].bytes \in Nat
      /\ files[i].lines \in Seq(AllLines)
  BY <1>1, Zenon DEF AllFiles
<1>3. /\ Len(files[i].lines) \in Nat
      /\ \A a \in 1..Len(files[i].lines) : files[i].lines[a] \in AllLines
  BY <1>2
<1>4. \A l \in AllLines : l.seq \in Nat
  BY Zenon DEF AllLines
<1> QED
  BY <1>1, <1>2, <1>3, <1>4, Zenon

\* EventLogger::new leaves one empty file.
LEMMA InitInv == Init => Inv
<1> SUFFICES ASSUME Init PROVE Inv
  BY Zenon
<1> USE EventLogAssumption, EmptyIsFile
<1>1. Types
  <2>1. files \in [0..MaxFiles -> AllFiles \cup {Missing}]
    BY Zenon DEF Init
  <2>2. line.seq = 0 /\ line.bytes = 0 /\ line.violation = "none"
    BY Zenon DEF Init, NoLine
  <2> QED
    BY <2>1, <2>2 DEF Init, Types, AllViolations
<1>2. NewestAtHand /\ FilesInOrder
  BY DEF Init, NewestAtHand, FilesInOrder, Working
<1>3. HandleIsNewest /\ RoomToShift /\ FileWithinLimit
  BY DEF Init, HandleIsNewest, RoomToShift, FileWithinLimit
<1> QED
  BY <1>1, <1>2, <1>3, Zenon DEF Inv

\* Starting a call: the new line gets the next number.
LEMMA LogInv ==
    ASSUME Inv, NEW e \in Events, Log(e)
    PROVE  Inv'
<1> USE EventLogAssumption DEF Inv
<1>1. e.bytes \in 1..MaxFileBytes
  BY Zenon DEF AllEvents
<1>2. /\ line'.seq = seq + 1 /\ line'.bytes = e.bytes
      /\ line'.violation \in AllViolations
  <2>1. CumulativeViolation(e) \in AllViolations /\ "flagged" \in AllViolations
    BY Zenon DEF CumulativeViolation, AllViolations
  <2> HIDE DEF Inv
  <2> QED
    BY <2>1, Zenon DEF Log
<1>3. Types'
  BY <1>1, <1>2 DEF Log, Types
<1>4. NewestAtHand'
  <2>1. seq' = seq + 1 /\ files' = files /\ seq \in Nat
    BY Zenon DEF Log, Types
  <2>2. ASSUME NEW i \in 0..MaxFiles, files'[i] # Missing, NEW a \in 1..Len(files'[i].lines)
        PROVE  files'[i].lines[a].seq < seq' /\ files'[i].lines[a].seq <= seq'
    <3>1. files'[i].lines[a].seq \in Nat /\ files'[i].lines[a].seq <= seq
      BY <2>1, <2>2, FileTypes, Zenon DEF NewestAtHand
    <3> QED
      BY ONLY <2>1, <3>1
  <2>3. line'.seq = seq' /\ line'.bytes \in 1..MaxFileBytes
    BY <1>1, <1>2, <2>1, Zenon
  <2> QED
    BY <2>2, <2>3, Zenon DEF NewestAtHand
<1>5. HandleIsNewest'
  BY <1>1, <1>2 DEF Log, Types, HandleIsNewest, OverLimit
<1>6. RoomToShift' /\ FilesInOrder' /\ FileWithinLimit'
  BY Zenon DEF Log, RoomToShift, FilesInOrder, FileWithinLimit
<1> QED
  BY <1>3, <1>4, <1>5, <1>6, Zenon

\* A line goes to the newest file that has lines, or nowhere.
LEMMA WriteLineInv ==
    ASSUME Inv, WriteLine
    PROVE  Inv'
<1> USE EventLogAssumption DEF Inv
<1>1. CASE handle \notin 0..MaxFiles
  <2>1. files' = files
    BY <1>1, Zenon DEF WriteLine
  <2>2. Types'
    BY <2>1 DEF WriteLine, Types
  <2>5. RoomToShift' /\ FilesInOrder' /\ FileWithinLimit'
    BY <2>1, Zenon DEF WriteLine, RoomToShift, FilesInOrder, FileWithinLimit
  <2>3. NewestAtHand'
    BY <2>1, Zenon DEF WriteLine, NewestAtHand, Working
  <2>4. HandleIsNewest'
    BY <1>1, <2>1 DEF WriteLine, HandleIsNewest, Types, AllFiles
  <2> QED
    BY <2>2, <2>3, <2>4, <2>5, Zenon
<1>2. CASE handle \in 0..MaxFiles
  <2> DEFINE f == files[handle]
             g == AppendLine(f, line)
  <2>1. f \in AllFiles /\ f # Missing /\ f.bytes <= currentBytes
    BY <1>2, Zenon DEF HandleIsNewest, Types
  <2>2. /\ g \in AllFiles /\ g # Missing /\ g.bytes = f.bytes + line.bytes
        /\ Len(g.lines) = Len(f.lines) + 1
        /\ \A k \in 1..Len(f.lines) : g.lines[k] = f.lines[k]
        /\ g.lines[Len(f.lines) + 1].seq = line.seq
    BY <2>1, LineIsAppended, Zenon DEF Types
  <2>3. files' = [files EXCEPT ![handle] = g]
    BY <1>2, Zenon DEF WriteLine
  <2>4. f.bytes \in Nat /\ Len(f.lines) \in Nat
    BY <2>1 DEF AllFiles
  <2> HIDE DEF g
  <2>5. Types'
    BY <1>2, <2>2, <2>3 DEF WriteLine, Types
  <2>6. /\ files'[handle] = g
        /\ \A i \in 0..MaxFiles : i # handle => files'[i] = files[i]
    BY <1>2, <2>3, Zenon DEF Types
  <2>7. /\ line.seq = seq /\ line.bytes \in Nat /\ seq \in Nat /\ currentBytes \in Nat
        /\ \A i \in 0..MaxFiles : files[i] # Missing =>
               /\ files[i].bytes \in Nat /\ Len(files[i].lines) \in Nat
               /\ \A a \in 1..Len(files[i].lines) :
                      files[i].lines[a].seq \in Nat /\ files[i].lines[a].seq < seq
    BY FileTypes, Zenon DEF WriteLine, NewestAtHand, Working, Types
  <2>8. NewestAtHand'
    <3>1. ASSUME NEW i \in 0..MaxFiles, files'[i] # Missing, NEW a \in 1..Len(files'[i].lines)
          PROVE  files'[i].lines[a].seq <= seq
      <4>1. CASE i = handle /\ a = Len(f.lines) + 1
        BY <4>1, <2>2, <2>6, <2>7
      <4>2. CASE i = handle /\ a # Len(f.lines) + 1
        <5>1. a \in 1..Len(f.lines)
          BY <2>2, <2>4, <2>6, <3>1, <4>2
        <5>2. files'[i].lines[a] = f.lines[a]
          BY <2>2, <2>6, <4>2, <5>1, Zenon
        <5> HIDE DEF Inv
        <5>3. f.lines[a].seq \in Nat /\ f.lines[a].seq < seq /\ seq \in Nat
          BY <1>2, <2>1, <2>7, <5>1, Zenon
        <5> HIDE DEF f
        <5> QED
          BY <5>2, <5>3
      <4>3. CASE i # handle
        BY <4>3, <2>6, <2>7, <3>1
      <4> QED
        BY <4>1, <4>2, <4>3, Zenon
    <3> QED
      BY <3>1, Zenon DEF WriteLine, NewestAtHand, Working
  <2>9. FileWithinLimit'
    <3>1. currentBytes + line.bytes <= MaxFileBytes /\ MaxFileBytes \in Nat
      BY Zenon DEF WriteLine, HandleIsNewest
    <3>2. /\ f.bytes \in Nat /\ line.bytes \in Nat /\ currentBytes \in Nat
          /\ f.bytes <= currentBytes /\ g.bytes = f.bytes + line.bytes
      BY <2>1, <2>2, <2>4, <2>7, Zenon
    <3>3. g.bytes <= MaxFileBytes
      BY ONLY <3>1, <3>2
    <3> QED
      BY <2>6, <3>3, Zenon DEF FileWithinLimit
  <2>10. HandleIsNewest'
    <3>1. currentBytes' = currentBytes + line.bytes /\ handle' = handle /\ pc' = "idle"
      BY Zenon DEF WriteLine
    <3>2. \A j \in 0..(handle - 1) : files'[j] # Missing => Len(files'[j].lines) = 0
      BY <1>2, <2>6 DEF HandleIsNewest
    <3>5. g.bytes <= currentBytes'
      <4>1. /\ f.bytes \in Nat /\ line.bytes \in Nat /\ currentBytes \in Nat
            /\ f.bytes <= currentBytes /\ g.bytes = f.bytes + line.bytes
        BY <2>1, <2>2, <2>4, <2>7, Zenon
      <4> QED
        BY ONLY <3>1, <4>1
    <3>3. files'[0] # Missing => files'[0].bytes <= currentBytes'
      <4>1. CASE handle = 0
        BY <2>6, <3>5, <4>1, Zenon
      <4>2. CASE handle # 0
        <5>1. files'[0] = files[0]
          BY <2>6, <4>2
        <5> QED
          BY <2>7, <3>1, <5>1 DEF HandleIsNewest
      <4> QED
        BY <4>1, <4>2, Zenon
    <3>4. files'[handle] # Missing /\ files'[handle].bytes <= currentBytes'
      BY <2>2, <2>6, <3>5, Zenon
    <3> QED
      BY <3>1, <3>2, <3>3, <3>4, Zenon DEF HandleIsNewest
  <2>11. RoomToShift'
    BY Zenon DEF WriteLine, RoomToShift
  <2>12. FilesInOrder'
    <3>1. ASSUME NEW i \in 0..MaxFiles, NEW j \in 0..MaxFiles,
                 files'[i] # Missing, files'[j] # Missing,
                 NEW a \in 1..Len(files'[i].lines), NEW b \in 1..Len(files'[j].lines),
                 i > j \/ (i = j /\ a < b)
          PROVE  files'[i].lines[a].seq < files'[j].lines[b].seq
      <4>1. i = handle \/ j = handle \/ (i # handle /\ j # handle)
        BY Zenon
      <4>2. CASE i # handle /\ j # handle
        BY <2>6, <3>1, <4>2, Zenon DEF FilesInOrder
      <4>3. CASE j = handle /\ b = Len(f.lines) + 1
        <5>1. files[i] # Missing /\ a \in 1..Len(files[i].lines)
          BY <2>1, <2>2, <2>4, <2>6, <3>1, <4>3
        <5>2. files'[i].lines[a] = files[i].lines[a]
          BY <2>2, <2>6, <5>1, Zenon
        <5>3. files'[j].lines[b].seq = seq
          BY <2>2, <2>6, <2>7, <4>3, Zenon
        <5> QED
          BY <2>7, <5>1, <5>2, <5>3, Zenon
      <4>4. CASE j = handle /\ b # Len(f.lines) + 1
        <5>1. b \in 1..Len(f.lines)
          BY <2>2, <2>4, <2>6, <3>1, <4>4
        <5>2. files[i] # Missing /\ a \in 1..Len(files[i].lines)
          <6>1. CASE i # handle
            BY <2>6, <3>1, <6>1, Zenon
          <6>2. CASE i = handle
            <7>1. a < b
              BY <3>1, <4>4, <6>2
            <7>2. a \in 1..(Len(f.lines) + 1)
              BY <2>2, <2>6, <6>2, Zenon
            <7>3. a \in 1..Len(f.lines)
              BY ONLY <2>4, <5>1, <7>1, <7>2
            <7> QED
              BY <2>1, <6>2, <7>3, Zenon
          <6> QED
            BY <6>1, <6>2, Zenon
        <5>3. files'[i].lines[a] = files[i].lines[a] /\ files'[j].lines[b] = files[j].lines[b]
          BY <2>2, <2>6, <4>4, <5>1, <5>2, Zenon
        <5> QED
          BY <2>1, <3>1, <4>4, <5>1, <5>2, <5>3, Zenon DEF FilesInOrder
      <4>5. CASE i = handle /\ j # handle
        <5>1. Len(files[j].lines) = 0 /\ files'[j] = files[j]
          BY <1>2, <2>6, <3>1, <4>5 DEF HandleIsNewest
        <5> QED
          BY <5>1, <3>1
      <4> QED
        BY <4>2, <4>3, <4>4, <4>5, Zenon
    <3> QED
      BY <3>1, Zenon DEF FilesInOrder
  <2> QED
    BY <2>5, <2>8, <2>9, <2>10, <2>11, <2>12, Zenon
<1> QED
  BY <1>1, <1>2, Zenon

\* A step that writes no line: each file is empty or missing afterwards, or is
\* one that was there, and the files are still in the order they were in.
LEMMA NothingWritten ==
    ASSUME Inv, NEW src \in [0..MaxFiles -> 0..MaxFiles],
           seq' = seq, line' = line, Working' => Working,
           \A i \in 0..MaxFiles : files'[i] # Missing =>
               \/ Len(files'[i].lines) = 0 /\ files'[i].bytes = 0
               \/ /\ files[src[i]] # Missing
                  /\ files'[i].lines = files[src[i]].lines
                  /\ files'[i].bytes = files[src[i]].bytes,
           \A i, j \in 0..MaxFiles :
               i > j /\ files'[i] # Missing /\ files'[j] # Missing => src[i] > src[j]
    PROVE  NewestAtHand' /\ FilesInOrder' /\ FileWithinLimit'
<1> USE EventLogAssumption DEF Inv
<1>1. \A i \in 0..MaxFiles : src[i] \in 0..MaxFiles
  BY Zenon
<1>2. ASSUME NEW i \in 0..MaxFiles, files'[i] # Missing, NEW a \in 1..Len(files'[i].lines)
      PROVE  /\ files[src[i]] # Missing /\ files'[i].lines = files[src[i]].lines
             /\ a \in 1..Len(files[src[i]].lines)
  <2> HIDE DEF Inv
  <2>1. ASSUME Len(files'[i].lines) = 0 PROVE FALSE
    <3>1. a \in 1..0
      BY <2>1, Zenon
    <3> QED
      BY ONLY <3>1
  <2>2. files[src[i]] # Missing /\ files'[i].lines = files[src[i]].lines
    BY <1>2, <2>1, Zenon
  <2> QED
    BY <2>2, Zenon
<1>3. NewestAtHand'
  <2>1. ASSUME NEW i \in 0..MaxFiles, files'[i] # Missing, NEW a \in 1..Len(files'[i].lines)
        PROVE  /\ files'[i].lines[a].seq <= seq
               /\ Working => files'[i].lines[a].seq < seq
    BY <1>1, <1>2, <2>1, Zenon DEF NewestAtHand
  <2> QED
    BY <2>1, Zenon DEF NewestAtHand
<1>4. FilesInOrder'
  <2>1. ASSUME NEW i \in 0..MaxFiles, NEW j \in 0..MaxFiles,
               files'[i] # Missing, files'[j] # Missing,
               NEW a \in 1..Len(files'[i].lines), NEW b \in 1..Len(files'[j].lines),
               i > j \/ (i = j /\ a < b)
        PROVE  files'[i].lines[a].seq < files'[j].lines[b].seq
    <3>1. src[i] > src[j] \/ (src[i] = src[j] /\ a < b)
      BY <2>1, Zenon
    <3> QED
      BY <1>1, <1>2, <2>1, <3>1, Zenon DEF FilesInOrder
  <2> QED
    BY <2>1, Zenon DEF FilesInOrder
<1>5. FileWithinLimit'
  <2>1. ASSUME NEW i \in 0..MaxFiles, files'[i] # Missing
        PROVE  files'[i].bytes <= MaxFileBytes
    <3>1. CASE files'[i].bytes = 0
      <4>1. MaxFileBytes \in Nat
        BY Zenon
      <4> QED
        BY ONLY <3>1, <4>1
    <3>2. CASE files[src[i]] # Missing /\ files'[i].bytes = files[src[i]].bytes
      BY <1>1, <3>2, Zenon DEF FileWithinLimit
    <3> QED
      BY <2>1, <3>1, <3>2, Zenon
  <2> QED
    BY <2>1, Zenon DEF FileWithinLimit
<1> QED
  BY <1>3, <1>4, <1>5, Zenon

\* The same, for a step that leaves every file at its name.
LEMMA NothingMoved ==
    ASSUME Inv, seq' = seq, line' = line, Working' => Working,
           \A i \in 0..MaxFiles : files'[i] # Missing =>
               \/ Len(files'[i].lines) = 0 /\ files'[i].bytes = 0
               \/ /\ files[i] # Missing
                  /\ files'[i].lines = files[i].lines /\ files'[i].bytes = files[i].bytes
    PROVE  NewestAtHand' /\ FilesInOrder' /\ FileWithinLimit'
<1>1. PICK src \in [0..MaxFiles -> 0..MaxFiles] : \A i \in 0..MaxFiles : src[i] = i
  <2>1. [i \in 0..MaxFiles |-> i] \in [0..MaxFiles -> 0..MaxFiles]
    BY Zenon
  <2> QED
    BY <2>1, Zenon
<1>2. \A i \in 0..MaxFiles : files'[i] # Missing =>
               \/ Len(files'[i].lines) = 0 /\ files'[i].bytes = 0
               \/ /\ files[src[i]] # Missing
                  /\ files'[i].lines = files[src[i]].lines
                  /\ files'[i].bytes = files[src[i]].bytes
  BY <1>1, Zenon
<1>3. \A i, j \in 0..MaxFiles :
               i > j /\ files'[i] # Missing /\ files'[j] # Missing => src[i] > src[j]
  BY <1>1, Zenon
<1> QED
  BY <1>2, <1>3, NothingWritten, Zenon

\* A write that fails leaves the lines as they were.
LEMMA WriteFailsInv ==
    ASSUME Inv, WriteFails
    PROVE  Inv'
<1> USE EventLogAssumption DEF Inv
<1>1. PICK k \in 0..(line.bytes - 1) :
          files' = IF handle \in 0..MaxFiles
                   THEN [files EXCEPT ![handle] = AppendPart(@, k)] ELSE files
  BY Zenon DEF WriteFails
<1>2. k \in Nat
  BY DEF Types
<1>3. /\ files' \in [0..MaxFiles -> AllFiles \cup {Missing}]
      /\ \A i \in 0..MaxFiles :
             /\ files[i] = Missing <=> files'[i] = Missing
             /\ files[i] # Missing =>
                    files'[i].lines = files[i].lines /\ files'[i].bytes = files[i].bytes
  <2>1. CASE handle \notin 0..MaxFiles
    BY <1>1, <2>1, Zenon DEF Types
  <2>2. CASE handle \in 0..MaxFiles
    <3> DEFINE g == AppendPart(files[handle], k)
    <3>1. files[handle] \in AllFiles /\ files[handle] # Missing
      BY <2>2, Zenon DEF Types, HandleIsNewest
    <3>2. g \in AllFiles /\ g # Missing /\ g.lines = files[handle].lines /\ g.bytes = files[handle].bytes
      BY <1>2, <3>1, PartIsNoLine, Zenon
    <3>3. files' = [files EXCEPT ![handle] = g]
      BY <1>1, <2>2, Zenon
    <3> HIDE DEF g
    <3> QED
      BY <2>2, <3>1, <3>2, <3>3, Zenon DEF Types
  <2> QED
    BY <2>1, <2>2, Zenon
<1>4. UNCHANGED <<handle, currentBytes, seq, n, line>> /\ pc' = "idle"
  BY Zenon DEF WriteFails, Fail
<1>5. Types' /\ HandleIsNewest' /\ RoomToShift'
  BY <1>3, <1>4 DEF Types, HandleIsNewest, RoomToShift
<1>6. NewestAtHand' /\ FilesInOrder' /\ FileWithinLimit'
  BY <1>3, <1>4, NothingMoved, Zenon DEF Working
<1> QED
  BY <1>5, <1>6, Zenon

\* `files[0]` as open_log_file leaves it.
LEMMA Opened ==
    ASSUME Inv, NEW active, active = IF files[0] = Missing THEN EmptyFile ELSE files[0],
           files' = [files EXCEPT ![0] = active]
    PROVE  /\ files' \in [0..MaxFiles -> AllFiles \cup {Missing}]
           /\ active # Missing /\ files'[0] = active
           /\ \A i \in 1..MaxFiles : files'[i] = files[i]
           /\ files[0] = Missing => active = EmptyFile
           /\ files[0] # Missing => active = files[0]
           /\ \A i \in 0..MaxFiles : files'[i] # Missing =>
                  \/ Len(files'[i].lines) = 0 /\ files'[i].bytes = 0
                  \/ files[i] # Missing /\ files'[i] = files[i]
<1> USE EventLogAssumption, EmptyIsFile DEF Inv
<1>1. active \in AllFiles /\ active # Missing
  BY DEF Types
<1>2. /\ files' \in [0..MaxFiles -> AllFiles \cup {Missing}] /\ files'[0] = active
      /\ \A i \in 1..MaxFiles : files'[i] = files[i]
  BY <1>1 DEF Types
<1> QED
  BY <1>1, <1>2, Zenon

\* Parking the handle touches no line.
LEMMA SwapHandleInv ==
    ASSUME Inv, SwapHandle
    PROVE  Inv'
<1> USE EventLogAssumption DEF Inv
<1>1. /\ UNCHANGED <<currentBytes, seq, n, line>> /\ pc = "swap" /\ pc' \in {"delete", "panicked"}
  BY Zenon DEF SwapHandle
<1>2. Working' => Working
  BY <1>1, Zenon DEF Working
<1>3. CASE files' = files /\ handle' \in {handle, Null}
  <2>1. Types' /\ HandleIsNewest' /\ RoomToShift'
    BY <1>1, <1>3, Zenon DEF Types, HandleIsNewest, RoomToShift
  <2>2. NewestAtHand' /\ FilesInOrder' /\ FileWithinLimit'
    BY <1>1, <1>2, <1>3, NothingMoved, Zenon
  <2> QED
    BY <2>1, <2>2, Zenon
<1>4. CASE handle' = 0 /\ files' = [files EXCEPT ![0] = IF @ = Missing THEN EmptyFile ELSE @]
  <2> DEFINE active == IF files[0] = Missing THEN EmptyFile ELSE files[0]
  <2>1. files' = [files EXCEPT ![0] = active]
    BY <1>4, Zenon
  <2>2. /\ files' \in [0..MaxFiles -> AllFiles \cup {Missing}]
        /\ active # Missing /\ files'[0] = active
        /\ files[0] = Missing => active = EmptyFile
        /\ files[0] # Missing => active = files[0]
        /\ \A i \in 0..MaxFiles : files'[i] # Missing =>
               \/ Len(files'[i].lines) = 0 /\ files'[i].bytes = 0
               \/ files[i] # Missing /\ files'[i] = files[i]
    BY <2>1, Opened, Zenon
  <2> HIDE DEF active
  <2>3. NewestAtHand' /\ FilesInOrder' /\ FileWithinLimit'
    BY <1>1, <1>2, <2>2, NothingMoved, Zenon
  <2>4. Types' /\ RoomToShift'
    BY <1>1, <1>4, <2>2 DEF Types, RoomToShift
  <2>5. HandleIsNewest'
    BY <1>1, <1>4, <2>2, EmptyIsFile DEF HandleIsNewest, Types
  <2> QED
    BY <2>3, <2>4, <2>5, Zenon
<1> QED
  BY <1>3, <1>4, Zenon DEF SwapHandle

\* Removing the oldest file leaves room for the renames.
LEMMA DeleteOldestInv ==
    ASSUME Inv, DeleteOldest
    PROVE  Inv'
<1> USE EventLogAssumption DEF Inv
<1>1. /\ UNCHANGED <<currentBytes, seq, line>> /\ pc = "delete" /\ pc' \in {"shift", "idle"}
  BY Zenon DEF DeleteOldest, Fail
<1>2. Working' => Working
  BY <1>1, Zenon DEF Working
<1>3. CASE /\ files' = [files EXCEPT ![MaxFiles] = Missing]
           /\ handle' = IF handle = MaxFiles THEN Unlinked ELSE handle
           /\ pc' = "shift" /\ n' = MaxFiles - 1
  <2>1. /\ files' \in [0..MaxFiles -> AllFiles \cup {Missing}]
        /\ files'[MaxFiles] = Missing
        /\ \A i \in 0..(MaxFiles - 1) : files'[i] = files[i]
    BY <1>3 DEF Types
  <2>2. Types' /\ RoomToShift'
    BY <1>1, <1>3, <2>1 DEF Types, RoomToShift
  <2>3. HandleIsNewest'
    BY <1>1, <1>3, <2>1 DEF Types, HandleIsNewest
  <2>4. NewestAtHand' /\ FilesInOrder' /\ FileWithinLimit'
    BY <1>1, <1>2, <2>1, NothingMoved
  <2> QED
    BY <2>2, <2>3, <2>4, Zenon
<1>4. CASE UNCHANGED <<files, handle, n>> /\ pc' = "idle"
  <2>1. Types' /\ HandleIsNewest' /\ RoomToShift'
    BY <1>1, <1>4, Zenon DEF Types, HandleIsNewest, RoomToShift
  <2>2. NewestAtHand' /\ FilesInOrder' /\ FileWithinLimit'
    BY <1>1, <1>2, <1>4, NothingMoved, Zenon
  <2> QED
    BY <2>1, <2>2, Zenon
<1> QED
  BY <1>3, <1>4, Zenon DEF DeleteOldest, Fail

\* What one rename does, given that its target is free.
LEMMA Renamed ==
    ASSUME Inv, pc = "shift", files[n] # Missing,
           files' = [files EXCEPT ![n + 1] = files[n], ![n] = Missing]
    PROVE  /\ files' \in [0..MaxFiles -> AllFiles \cup {Missing}]
           /\ n \in 0..(MaxFiles - 1) /\ files[n + 1] = Missing
           /\ files'[n + 1] = files[n] /\ files'[n] = Missing
           /\ \A i \in 0..MaxFiles : i \notin {n, n + 1} => files'[i] = files[i]
<1> USE EventLogAssumption DEF Inv
<1>1. n \in 0..(MaxFiles - 1) /\ files[n + 1] = Missing
  BY Zenon DEF RoomToShift
<1> QED
  BY <1>1 DEF Types

\* A rename leaves the files in order and the next target free.
LEMMA ShiftInv ==
    ASSUME Inv, Shift
    PROVE  Inv'
<1> USE EventLogAssumption DEF Inv
<1>1. /\ UNCHANGED <<currentBytes, seq, line>> /\ pc = "shift"
      /\ pc' \in {"shift", "open", "idle"}
      /\ n \in 0..(MaxFiles - 1) /\ files[n + 1] = Missing
  BY Zenon DEF Shift, Fail, RoomToShift
<1>2. Working' => Working
  BY <1>1, Zenon DEF Working
<1>3. handle # n + 1
  BY <1>1 DEF HandleIsNewest
<1>4. CASE /\ files[n] # Missing
           /\ files' = [files EXCEPT ![n + 1] = files[n], ![n] = Missing]
           /\ handle' = IF handle = n THEN n + 1
                        ELSE IF handle = n + 1 /\ files[n] # Missing THEN Unlinked
                        ELSE handle
           /\ IF n = 0 THEN pc' = "open" /\ UNCHANGED n ELSE n' = n - 1 /\ UNCHANGED pc
  <2>1. /\ files' \in [0..MaxFiles -> AllFiles \cup {Missing}]
        /\ files'[n + 1] = files[n] /\ files'[n] = Missing
        /\ \A i \in 0..MaxFiles : i \notin {n, n + 1} => files'[i] = files[i]
    BY <1>1, <1>4, Renamed, Zenon
  <2>2. handle' = IF handle = n THEN n + 1 ELSE handle
    BY <1>3, <1>4, Zenon
  <2>3. Types'
    BY <1>1, <2>1, <2>2 DEF Types
  <2>4. RoomToShift'
    BY <1>1, <1>4, <2>1 DEF RoomToShift
  <2>5. HandleIsNewest'
    <3>1. CASE handle = n
      BY <1>1, <1>4, <2>1, <2>2, <3>1 DEF HandleIsNewest, Types
    <3>2. CASE handle # n
      BY <1>1, <1>3, <1>4, <2>1, <2>2, <3>2 DEF HandleIsNewest, Types
    <3> QED
      BY <3>1, <3>2, Zenon
  <2>6. NewestAtHand' /\ FilesInOrder' /\ FileWithinLimit'
    <3>1. PICK src \in [0..MaxFiles -> 0..MaxFiles] :
              \A i \in 0..MaxFiles : src[i] = IF i = n + 1 THEN n ELSE i
      <4>1. [i \in 0..MaxFiles |-> IF i = n + 1 THEN n ELSE i] \in [0..MaxFiles -> 0..MaxFiles]
        BY <1>1
      <4> QED
        BY <4>1, Zenon
    <3>2. \A i \in 0..MaxFiles : files'[i] # Missing =>
              \/ Len(files'[i].lines) = 0 /\ files'[i].bytes = 0
              \/ /\ files[src[i]] # Missing
                 /\ files'[i].lines = files[src[i]].lines
                 /\ files'[i].bytes = files[src[i]].bytes
      BY <1>1, <1>4, <2>1, <3>1, Zenon
    <3>3. \A i, j \in 0..MaxFiles :
              i > j /\ files'[i] # Missing /\ files'[j] # Missing => src[i] > src[j]
      <4> SUFFICES ASSUME NEW i \in 0..MaxFiles, NEW j \in 0..MaxFiles, i > j,
                          files'[i] # Missing, files'[j] # Missing
                   PROVE  src[i] > src[j]
        BY Zenon
      <4>1. i # n /\ j # n
        BY <2>1, Zenon
      <4>2. /\ src[i] = IF i = n + 1 THEN n ELSE i
            /\ src[j] = IF j = n + 1 THEN n ELSE j
        BY <3>1, Zenon
      <4>3. n \in Int /\ i \in Int /\ j \in Int /\ i > j
        BY <1>1
      <4> QED
        BY ONLY <4>1, <4>2, <4>3
    <3> QED
      BY <1>1, <1>2, <3>2, <3>3, NothingWritten, Zenon
  <2> QED
    BY <2>3, <2>4, <2>5, <2>6, Zenon
<1>5. CASE /\ files[n] = Missing /\ files' = files
           /\ handle' = IF handle = n THEN n + 1
                        ELSE IF handle = n + 1 /\ files[n] # Missing THEN Unlinked
                        ELSE handle
           /\ IF n = 0 THEN pc' = "open" /\ UNCHANGED n ELSE n' = n - 1 /\ UNCHANGED pc
  <2>1. handle' = handle
    BY <1>1, <1>3, <1>5 DEF HandleIsNewest
  <2>2. Types' /\ HandleIsNewest' /\ RoomToShift'
    BY <1>1, <1>5, <2>1 DEF Types, HandleIsNewest, RoomToShift
  <2>3. NewestAtHand' /\ FilesInOrder' /\ FileWithinLimit'
    BY <1>1, <1>2, <1>5, NothingMoved, Zenon
  <2> QED
    BY <2>2, <2>3, Zenon
<1>6. CASE UNCHANGED <<files, handle, n>> /\ pc' = "idle"
  <2>1. Types' /\ HandleIsNewest' /\ RoomToShift'
    BY <1>1, <1>6, Zenon DEF Types, HandleIsNewest, RoomToShift
  <2>2. NewestAtHand' /\ FilesInOrder' /\ FileWithinLimit'
    BY <1>1, <1>2, <1>6, NothingMoved, Zenon
  <2> QED
    BY <2>1, <2>2, Zenon
<1> QED
  BY <1>4, <1>5, <1>6, Zenon DEF Shift, Fail

\* A fresh file starts with no bytes.
LEMMA OpenFreshInv ==
    ASSUME Inv, OpenFresh
    PROVE  Inv'
<1> USE EventLogAssumption DEF Inv
<1> DEFINE active == IF files[0] = Missing THEN EmptyFile ELSE files[0]
<1>1. /\ UNCHANGED <<seq, n, line>> /\ pc = "open" /\ pc' \in {"write", "idle"}
      /\ files[0] = Missing
  BY Zenon DEF OpenFresh, Fail, RoomToShift
<1>2. Working' => Working
  BY <1>1, Zenon DEF Working
<1>3. active = EmptyFile
  BY <1>1, Zenon
<1>4. ASSUME files' = [files EXCEPT ![0] = active]
      PROVE  /\ files' \in [0..MaxFiles -> AllFiles \cup {Missing}]
             /\ files'[0] = EmptyFile
             /\ \A i \in 1..MaxFiles : files'[i] = files[i]
             /\ NewestAtHand' /\ FilesInOrder' /\ FileWithinLimit'
  <2>1. /\ files' \in [0..MaxFiles -> AllFiles \cup {Missing}]
        /\ files'[0] = active
        /\ \A i \in 1..MaxFiles : files'[i] = files[i]
        /\ \A i \in 0..MaxFiles : files'[i] # Missing =>
               \/ Len(files'[i].lines) = 0 /\ files'[i].bytes = 0
               \/ files[i] # Missing /\ files'[i] = files[i]
    BY <1>4, Opened, Zenon
  <2> HIDE DEF active
  <2>2. NewestAtHand' /\ FilesInOrder' /\ FileWithinLimit'
    BY <1>1, <1>2, <2>1, NothingMoved, Zenon
  <2> QED
    BY <1>3, <2>1, <2>2, Zenon
<1>5. CASE /\ files' = [files EXCEPT ![0] = active] /\ handle' = 0
           /\ currentBytes' = active.bytes + active.torn /\ pc' = "write"
  <2>1. currentBytes' = 0
    BY <1>3, <1>5, EmptyIsFile
  <2>2. Types' /\ RoomToShift'
    BY <1>1, <1>4, <1>5, <2>1 DEF Types, RoomToShift
  <2>3. HandleIsNewest'
    BY <1>1, <1>4, <1>5, <2>1, EmptyIsFile DEF HandleIsNewest, NewestAtHand, Working
  <2> QED
    BY <1>4, <1>5, <2>2, <2>3, Zenon
<1>6. CASE files' = [files EXCEPT ![0] = active] /\ UNCHANGED <<handle, currentBytes>> /\ pc' = "idle"
  <2>1. Types' /\ RoomToShift'
    BY <1>1, <1>4, <1>6, Zenon DEF Types, RoomToShift
  <2>2. HandleIsNewest'
    BY <1>1, <1>4, <1>6, EmptyIsFile DEF HandleIsNewest, Types
  <2> QED
    BY <1>4, <1>6, <2>1, <2>2, Zenon
<1>7. CASE UNCHANGED <<files, handle, currentBytes>> /\ pc' = "idle"
  <2>1. Types' /\ HandleIsNewest' /\ RoomToShift'
    BY <1>1, <1>7, Zenon DEF Types, HandleIsNewest, RoomToShift
  <2>2. NewestAtHand' /\ FilesInOrder' /\ FileWithinLimit'
    BY <1>1, <1>2, <1>7, NothingMoved, Zenon
  <2> QED
    BY <2>1, <2>2, Zenon
<1> QED
  BY <1>5, <1>6, <1>7, Zenon DEF OpenFresh, Fail

\* Every step keeps the invariant.
LEMMA NextInv == Inv /\ [Next]_vars => Inv'
<1> SUFFICES ASSUME Inv, [Next]_vars PROVE Inv'
  BY Zenon
<1>1. CASE UNCHANGED vars
  BY <1>1, Zenon DEF vars, Inv, Types, NewestAtHand, Working, HandleIsNewest, RoomToShift,
              FilesInOrder, FileWithinLimit
<1> QED
  BY <1>1, LogInv, WriteLineInv, WriteFailsInv, SwapHandleInv, DeleteOldestInv, ShiftInv,
     OpenFreshInv, Zenon DEF Next, Exhausted

(***************************************************************************)
(* Theorems.                                                               *)
(***************************************************************************)

\* Whatever fails in whichever rotation, the lines are in order from the
\* oldest file to the active one.
THEOREM LogStaysInOrder == Spec => []FilesInOrder
<1>1. Inv => FilesInOrder
  BY Zenon DEF Inv
<1> QED
  BY <1>1, InitInv, NextInv, PTL DEF Spec

\* Whatever fails in whichever rotation, no file holds more than
\* max_file_bytes of lines.
THEOREM FilesStayWithinLimit == Spec => []FileWithinLimit
<1>1. Inv => FileWithinLimit
  BY Zenon DEF Inv
<1> QED
  BY <1>1, InitInv, NextInv, PTL DEF Spec

\* No step of log() or rotate() loses a line but the deletion of the oldest
\* file: no rename lands on a file.
THEOREM RotationKeepsLines == Spec => OnlyOldestDeleted
<1> DEFINE Kept == \A i \in 0..(MaxFiles - 1) : \A l \in LinesOf(files[i]) :
                       \E j \in 0..MaxFiles : l \in LinesOf(files'[j])
<1>1. Inv /\ Next => Kept
  <2> SUFFICES ASSUME Inv, Next,
                      NEW i \in 0..(MaxFiles - 1), NEW l \in LinesOf(files[i])
               PROVE  \E j \in 0..MaxFiles : l \in LinesOf(files'[j])
    BY Zenon
  <2> USE EventLogAssumption
  <2>1. /\ i \in 0..MaxFiles /\ files[i] # Missing /\ files[i] \in AllFiles
        /\ \E k \in 1..Len(files[i].lines) : l = files[i].lines[k]
    BY DEF LinesOf, Inv, Types
  <2>2. CASE files' = files
    BY <2>1, <2>2, Zenon
  <2>3. CASE WriteLine /\ handle \in 0..MaxFiles
    <3> DEFINE g == AppendLine(files[handle], line)
    <3>1. files' = [files EXCEPT ![handle] = g]
      BY <2>3, Zenon DEF WriteLine
    <3>2. CASE i # handle
      BY <2>1, <3>1, <3>2, Zenon DEF Inv, Types
    <3>3. CASE i = handle
      <4>1. /\ g # Missing /\ Len(g.lines) = Len(files[i].lines) + 1
            /\ \A k \in 1..Len(files[i].lines) : g.lines[k] = files[i].lines[k]
        BY <2>1, <3>3, LineIsAppended DEF Inv, Types
      <4>2. Len(files[i].lines) \in Nat
        BY <2>1, FileTypes, Zenon DEF Inv
      <4> HIDE DEF g
      <4>3. files'[i] = g
        BY <2>1, <3>1, <3>3, Zenon DEF Inv, Types
      <4>4. PICK k \in 1..Len(files[i].lines) : l = files[i].lines[k]
        BY <2>1, Zenon
      <4>5. k \in 1..Len(g.lines) /\ l = g.lines[k]
        BY <4>1, <4>2, <4>4
      <4>6. l \in LinesOf(files'[i])
        BY <4>1, <4>3, <4>5, Zenon DEF LinesOf
      <4> QED
        BY <2>1, <4>6, Zenon
    <3> QED
      BY <3>2, <3>3, Zenon
  <2>4. CASE WriteFails /\ handle \in 0..MaxFiles
    <3>1. PICK k \in 0..(line.bytes - 1) : files' = [files EXCEPT ![handle] = AppendPart(@, k)]
      BY <2>4, Zenon DEF WriteFails
    <3>2. CASE i # handle
      BY <2>1, <3>1, <3>2, Zenon DEF Inv, Types
    <3>3. CASE i = handle
      <4> DEFINE g == AppendPart(files[i], k)
      <4>1. k \in Nat
        BY DEF Inv, Types
      <4>2. g # Missing /\ g.lines = files[i].lines
        BY <2>1, <4>1, PartIsNoLine, Zenon
      <4> HIDE DEF g
      <4>3. files'[i] = g
        BY <2>1, <3>1, <3>3, Zenon DEF Inv, Types, g
      <4> QED
        BY <2>1, <4>2, <4>3, Zenon DEF LinesOf
    <3> QED
      BY <3>2, <3>3, Zenon
  <2>5. CASE DeleteOldest
    <3>1. files' = files \/ files' = [files EXCEPT ![MaxFiles] = Missing]
      BY <2>5, Zenon DEF DeleteOldest
    <3>2. files'[i] = files[i]
      BY <2>1, <3>1 DEF Inv, Types
    <3> QED
      BY <2>1, <3>2, Zenon
  <2>6. CASE /\ pc = "shift" /\ files[n] # Missing
             /\ files' = [files EXCEPT ![n + 1] = files[n], ![n] = Missing]
    <3>1. /\ n \in 0..(MaxFiles - 1) /\ files[n + 1] = Missing /\ files'[n + 1] = files[n]
          /\ \A k \in 0..MaxFiles : k \notin {n, n + 1} => files'[k] = files[k]
      BY <2>6, Renamed, Zenon
    <3>2. CASE i = n
      BY <3>1, <3>2
    <3>3. CASE i # n
      BY <2>1, <3>1, <3>3, Zenon
    <3> QED
      BY <3>2, <3>3, Zenon
  <2>7. CASE files' = [files EXCEPT ![0] = IF files[0] = Missing THEN EmptyFile ELSE files[0]]
    <3>1. files'[i] = files[i]
      BY <2>1, <2>7, Zenon DEF Inv, Types
    <3> QED
      BY <2>1, <3>1, Zenon
  <2> QED
    BY <2>2, <2>3, <2>4, <2>5, <2>6, <2>7, Zenon
       DEF Next, Log, WriteLine, WriteFails, SwapHandle, Shift, OpenFresh, Exhausted, vars
<1>2. Inv /\ [Next]_vars => [Kept]_vars
  BY <1>1, Zenon
<1> QED
  BY <1>2, InitInv, NextInv, PTL DEF Spec, OnlyOldestDeleted

(***************************************************************************)
(* The byte counters.  A process is in `returned' only once its total has  *)
(* reached the threshold, and a line that reports a crossing is the first. *)
(***************************************************************************)

CounterTypes == sent \in [Pids -> 0..MaxCount] /\ received \in [Pids -> 0..MaxCount]

ReportedOnly(total, threshold, rule) ==
    /\ \A p \in Pids : <<p, rule>> \in returned => total[p] >= threshold
    /\ Working /\ line.violation = rule =>
           line.pid \in Pids /\ total[line.pid] >= threshold /\ <<line.pid, rule>> \notin returned

CountInv ==
    /\ CounterTypes
    /\ ReportedOnly(sent, SendThreshold, "data_exfiltration")
    /\ ReportedOnly(received, RecvThreshold, "large_download")

\* The saturating counters never fall.
LEMMA CountersGrow ==
    ASSUME CounterTypes, NEW e \in Events
    PROVE  /\ SentAfter(e) \in [Pids -> 0..MaxCount] /\ ReceivedAfter(e) \in [Pids -> 0..MaxCount]
           /\ \A p \in Pids : SentAfter(e)[p] >= sent[p] /\ ReceivedAfter(e)[p] >= received[p]
<1>1. e.pid \in Pids /\ e.amount \in 0..MaxCount /\ MaxCount \in Nat
  BY EventLogAssumption, Zenon DEF AllEvents
<1>2. \A a \in 0..MaxCount :
          SaturatingAdd(a, e.amount) \in 0..MaxCount /\ SaturatingAdd(a, e.amount) >= a
  BY <1>1 DEF SaturatingAdd
<1> QED
  BY <1>1, <1>2 DEF CounterTypes, SentAfter, ReceivedAfter

\* The event that crosses a threshold is the first.
LEMMA LogCounts ==
    ASSUME CountInv, NEW e \in Events, Log(e)
    PROVE  CountInv'
<1> USE DEF CountInv
<1>1. /\ sent' = SentAfter(e) /\ received' = ReceivedAfter(e) /\ returned' = returned
      /\ line'.pid = e.pid
      /\ line'.violation = IF e.kind = "flagged" THEN "flagged" ELSE CumulativeViolation(e)
      /\ e.pid \in Pids
      /\ SendThreshold \in Nat /\ RecvThreshold \in Nat
  BY EventLogAssumption DEF Log, AllEvents
<1>2. CounterTypes'
  BY <1>1, CountersGrow, Zenon DEF CounterTypes
<1>3. /\ \A p \in Pids : sent'[p] \in Nat /\ sent[p] \in Nat /\ sent'[p] >= sent[p]
      /\ \A p \in Pids : received'[p] \in Nat /\ received[p] \in Nat /\ received'[p] >= received[p]
  BY <1>1, CountersGrow, EventLogAssumption DEF CounterTypes
<1>4. /\ line'.violation = "data_exfiltration" =>
             sent[e.pid] < SendThreshold /\ sent'[e.pid] >= SendThreshold
      /\ line'.violation = "large_download" =>
             received[e.pid] < RecvThreshold /\ received'[e.pid] >= RecvThreshold
  BY <1>1, Zenon DEF CumulativeViolation
<1>5. ReportedOnly(sent, SendThreshold, "data_exfiltration")'
  BY <1>1, <1>3, <1>4 DEF ReportedOnly
<1>6. ReportedOnly(received, RecvThreshold, "large_download")'
  BY <1>1, <1>3, <1>4 DEF ReportedOnly
<1> QED
  BY <1>2, <1>5, <1>6, Zenon

\* Every step keeps the invariant of the counters.
LEMMA NextCounts == CountInv /\ [Next]_vars => CountInv'
<1> SUFFICES ASSUME CountInv, [Next]_vars PROVE CountInv'
  BY Zenon
<1>1. ASSUME NEW e \in Events, Log(e) PROVE CountInv'
  BY <1>1, LogCounts, Zenon
<1>2. CASE WriteLine
  <2>1. /\ UNCHANGED <<sent, received, line>> /\ pc = "write" /\ pc' = "idle"
        /\ returned' = returned \cup {<<line.pid, line.violation>>}
    BY <1>2, Zenon DEF WriteLine, counters
  <2>2. ~Working' /\ Working
    BY <2>1, Zenon DEF Working
  <2>3. \A total, threshold, rule : ReportedOnly(total, threshold, rule) =>
            \A p \in Pids : <<p, rule>> \in returned' => total[p] >= threshold
    BY <2>1, <2>2, Zenon DEF ReportedOnly
  <2> QED
    BY <2>1, <2>2, <2>3, Zenon DEF CountInv, CounterTypes, ReportedOnly
<1>3. CASE UNCHANGED <<sent, received, line, returned>> /\ (Working' => Working)
  BY <1>3, Zenon DEF CountInv, CounterTypes, ReportedOnly
<1>4. WriteFails \/ SwapHandle \/ DeleteOldest \/ Shift \/ OpenFresh \/ Exhausted \/ UNCHANGED vars
          => UNCHANGED <<sent, received, line, returned>> /\ (Working' => Working)
  BY Zenon DEF WriteFails, SwapHandle, DeleteOldest, Shift, OpenFresh, Exhausted, Fail, vars, counters,
         Working
<1> QED
  BY <1>1, <1>2, <1>3, <1>4, Zenon DEF Next

\* No process is reported twice for a threshold, also where writes and
\* rotations fail.
THEOREM CrossingsAreReportedOnce == Spec => CrossingReportedOnce
<1> DEFINE Once ==
        (pc = "write" /\ pc' = "idle" /\ line.violation \in {"data_exfiltration", "large_download"})
            => <<line.pid, line.violation>> \notin returned
<1>1. Init => CountInv
  BY EventLogAssumption DEF Init, CountInv, CounterTypes, ReportedOnly, Working
<1>2. CountInv => Once
  BY Zenon DEF CountInv, ReportedOnly, Working
<1>3. CountInv /\ [Next]_vars => [Once]_vars
  BY <1>2, Zenon
<1> QED
  BY <1>1, <1>3, NextCounts, PTL DEF Spec, CrossingReportedOnce

(***************************************************************************)
(* A file system that works.  Between calls, and when a line is written,   *)
(* the handle is on events.ndjson, which ends with a whole line.           *)
(***************************************************************************)

ActiveAtHand ==
    /\ pc \in {"idle", "write"} => handle = 0 /\ files[0] # Missing
    /\ files[0] # Missing => ~files[0].glued

LoggedInv == faults = {} => ActiveAtHand /\ OkMeansLogged

ReportedAll(total, threshold, rule) ==
    \A p \in Pids : total[p] >= threshold =>
        \/ <<p, rule>> \in returned
        \/ Working /\ line.pid = p /\ line.violation = rule

ReportedInv ==
    faults = {} => /\ ReportedAll(sent, SendThreshold, "data_exfiltration")
                   /\ ReportedAll(received, RecvThreshold, "large_download")

\* A line written after whole lines can be read back, and ends the file.
LEMMA LineIsReadable ==
    ASSUME NEW f \in AllFiles, ~f.glued,
           NEW l, l.seq \in Nat, l.bytes \in Nat, l.violation \in AllViolations
    PROVE  /\ ~AppendLine(f, l).glued
           /\ \E k \in 1..Len(AppendLine(f, l).lines) :
                  /\ AppendLine(f, l).lines[k].seq = l.seq
                  /\ AppendLine(f, l).lines[k].readable
<1> DEFINE new == [seq |-> l.seq, violation |-> l.violation, readable |-> ~f.glued]
           k == Len(f.lines) + 1
<1>1. new.seq = l.seq /\ new.readable
  BY Zenon
<1>2. new \in AllLines /\ f.lines \in Seq(AllLines)
  BY Zenon DEF AllFiles, AllLines
<1>3. DOMAIN f = {"lines", "bytes", "torn", "glued"}
  BY Zenon DEF AllFiles
<1>4. AppendLine(f, l).lines = Append(f.lines, new) /\ AppendLine(f, l).glued = FALSE
  BY <1>3, Zenon DEF AppendLine
<1> HIDE DEF new
<1>5. k \in 1..Len(Append(f.lines, new)) /\ Append(f.lines, new)[k] = new
  BY <1>2
<1> QED
  BY <1>1, <1>4, <1>5, Zenon

\* Without faults a call either is on its way or has written its line.
LEMMA NextLogged == Inv /\ LoggedInv /\ [Next]_vars => LoggedInv'
<1> SUFFICES ASSUME Inv, LoggedInv, [Next]_vars, faults = {} PROVE (ActiveAtHand /\ OkMeansLogged)'
  BY Zenon DEF LoggedInv, Next, Log, WriteLine, WriteFails, SwapHandle, DeleteOldest, Shift, OpenFresh,
         Exhausted, vars
<1>1. ActiveAtHand /\ OkMeansLogged /\ Types /\ MaxFiles \in Nat \ {0}
  BY EventLogAssumption, Zenon DEF LoggedInv, Inv
<1>2. ASSUME NEW e \in Events, Log(e) PROVE (ActiveAtHand /\ OkMeansLogged)'
  <2>1. pc = "idle" /\ pc' \in {"swap", "write"} /\ UNCHANGED <<files, handle>>
    BY <1>2, Zenon DEF Log
  <2> QED
    BY <1>1, <2>1, Zenon DEF ActiveAtHand, OkMeansLogged
<1>3. CASE WriteLine
  <2> DEFINE f == files[0]
             g == AppendLine(f, line)
  <2>1. pc = "write" /\ handle = 0 /\ handle' = 0 /\ seq' = seq /\ f # Missing /\ ~f.glued
    BY <1>1, <1>3, Zenon DEF WriteLine, ActiveAtHand
  <2>2. files' = [files EXCEPT ![0] = g]
    BY <1>1, <1>3, <2>1 DEF WriteLine
  <2>3. /\ f \in AllFiles /\ line.seq \in Nat /\ line.bytes \in Nat /\ line.violation \in AllViolations
    BY <1>1, <2>1 DEF Types
  <2>4. /\ ~g.glued /\ g # Missing
        /\ \E k \in 1..Len(g.lines) : g.lines[k].seq = line.seq /\ g.lines[k].readable
    <3>1. g # Missing
      BY <2>3, LineIsAppended, Zenon
    <3>2. /\ ~g.glued
          /\ \E k \in 1..Len(g.lines) : g.lines[k].seq = line.seq /\ g.lines[k].readable
      BY <2>1, <2>3, LineIsReadable, Zenon
    <3> QED
      BY <3>1, <3>2, Zenon
  <2>5. line.seq = seq
    BY <2>1, Zenon DEF Inv, NewestAtHand, Working
  <2> HIDE DEF g
  <2>6. files'[0] = g /\ 0 \in 0..MaxFiles
    BY <1>1, <2>2 DEF Types
  <2>7. \E l \in LinesOf(files'[0]) : l.seq = seq /\ l.readable
    BY <2>4, <2>5, <2>6, Zenon DEF LinesOf
  <2> QED
    BY <2>1, <2>4, <2>6, <2>7, Zenon DEF ActiveAtHand, OkMeansLogged
<1>4. CASE SwapHandle
  <2>1. pc' = "delete" /\ files' = files
    BY <1>4, Zenon DEF SwapHandle
  <2> QED
    BY <1>1, <2>1, Zenon DEF ActiveAtHand, OkMeansLogged
<1>5. CASE DeleteOldest
  <2>1. pc' = "shift" /\ files' = [files EXCEPT ![MaxFiles] = Missing]
    BY <1>5, Zenon DEF DeleteOldest
  <2>2. files'[0] = files[0]
    BY <1>1, <2>1 DEF Types
  <2> QED
    BY <1>1, <2>1, <2>2, Zenon DEF ActiveAtHand, OkMeansLogged
<1>6. CASE Shift
  <2>1. /\ pc' \in {"shift", "open"} /\ n \in 0..(MaxFiles - 1)
        /\ \/ files' = files
           \/ files' = [files EXCEPT ![n + 1] = files[n], ![n] = Missing]
    BY <1>6, Zenon DEF Shift, Inv, RoomToShift
  <2>2. files'[0] = files[0] \/ files'[0] = Missing
    BY <1>1, <2>1 DEF Types
  <2> QED
    BY <1>1, <2>1, <2>2, Zenon DEF ActiveAtHand, OkMeansLogged
<1>7. CASE OpenFresh
  <2>1. pc = "open" /\ files[0] = Missing
    BY <1>7, Zenon DEF OpenFresh, Inv, RoomToShift
  <2>2. pc' = "write" /\ handle' = 0 /\ files' = [files EXCEPT ![0] = EmptyFile]
    BY <1>7, <2>1, Zenon DEF OpenFresh
  <2>3. files'[0] = EmptyFile /\ EmptyFile # Missing /\ ~EmptyFile.glued
    BY <1>1, <2>2, EmptyIsFile DEF Types, EmptyFile
  <2> QED
    BY <2>2, <2>3, Zenon DEF ActiveAtHand, OkMeansLogged
<1>8. CASE Exhausted \/ UNCHANGED vars
  BY <1>1, <1>8, Zenon DEF Exhausted, vars, ActiveAtHand, OkMeansLogged
<1>9. ~WriteFails
  BY Zenon DEF WriteFails
<1> QED
  BY <1>2, <1>3, <1>4, <1>5, <1>6, <1>7, <1>8, <1>9, Zenon DEF Next

\* On a file system that works an event whose log() returned Ok is in a file
\* and can be read back, through any number of rotations.
THEOREM OkIsLogged == Spec => []OkMeansLogged
<1>1. Init => LoggedInv
  <2> SUFFICES ASSUME Init PROVE ActiveAtHand /\ OkMeansLogged
    BY Zenon DEF LoggedInv
  <2>1. files[0] = EmptyFile
    BY EventLogAssumption DEF Init
  <2> QED
    BY <2>1, EmptyIsFile DEF Init, ActiveAtHand, OkMeansLogged, EmptyFile
<1>2. LoggedInv => OkMeansLogged
  BY Zenon DEF LoggedInv, OkMeansLogged
<1> QED
  BY <1>1, <1>2, InitInv, NextInv, NextLogged, PTL DEF Spec

\* Without faults a crossing is on its way to the caller or was returned.
LEMMA NextReported == CountInv /\ ReportedInv /\ [Next]_vars => ReportedInv'
<1> SUFFICES ASSUME CountInv, ReportedInv, [Next]_vars, faults = {}
             PROVE  /\ ReportedAll(sent, SendThreshold, "data_exfiltration")'
                    /\ ReportedAll(received, RecvThreshold, "large_download")'
  BY Zenon DEF ReportedInv, Next, Log, WriteLine, WriteFails, SwapHandle, DeleteOldest, Shift, OpenFresh,
         Exhausted, vars
<1>1. /\ ReportedAll(sent, SendThreshold, "data_exfiltration")
      /\ ReportedAll(received, RecvThreshold, "large_download")
  BY Zenon DEF ReportedInv
<1>2. ASSUME NEW e \in Events, Log(e)
      PROVE  /\ ReportedAll(sent, SendThreshold, "data_exfiltration")'
             /\ ReportedAll(received, RecvThreshold, "large_download")'
  <2>1. /\ sent' = SentAfter(e) /\ received' = ReceivedAfter(e) /\ returned' = returned
        /\ line'.pid = e.pid
        /\ line'.violation = IF e.kind = "flagged" THEN "flagged" ELSE CumulativeViolation(e)
        /\ e.pid \in Pids /\ SendThreshold \in Nat /\ RecvThreshold \in Nat
        /\ ~Working /\ Working'
    BY <1>2, EventLogAssumption DEF Log, AllEvents, Working
  <2>2. sent \in [Pids -> 0..MaxCount] /\ received \in [Pids -> 0..MaxCount]
    BY Zenon DEF CountInv, CounterTypes
  <2>3. /\ \A p \in Pids : sent'[p] # sent[p] => p = e.pid /\ e.kind = "send"
        /\ \A p \in Pids : received'[p] # received[p] => p = e.pid /\ e.kind = "recv"
    BY <2>1, <2>2, Zenon DEF SentAfter, ReceivedAfter
  <2>4. \A p \in Pids : sent[p] \in Nat /\ received[p] \in Nat
    BY <2>2, EventLogAssumption
  <2>5. ReportedAll(sent, SendThreshold, "data_exfiltration")'
    <3> SUFFICES ASSUME NEW p \in Pids, sent'[p] >= SendThreshold, <<p, "data_exfiltration">> \notin returned
                 PROVE  line'.pid = p /\ line'.violation = "data_exfiltration"
      BY <2>1, Zenon DEF ReportedAll
    <3>1. ~(sent[p] >= SendThreshold)
      BY <1>1, <2>1, Zenon DEF ReportedAll
    <3>2. p = e.pid /\ e.kind = "send"
      BY <2>3, <3>1, Zenon
    <3> QED
      BY <2>1, <2>4, <3>1, <3>2 DEF CumulativeViolation
  <2>6. ReportedAll(received, RecvThreshold, "large_download")'
    <3> SUFFICES ASSUME NEW p \in Pids, received'[p] >= RecvThreshold, <<p, "large_download">> \notin returned
                 PROVE  line'.pid = p /\ line'.violation = "large_download"
      BY <2>1, Zenon DEF ReportedAll
    <3>1. ~(received[p] >= RecvThreshold)
      BY <1>1, <2>1, Zenon DEF ReportedAll
    <3>2. p = e.pid /\ e.kind = "recv"
      BY <2>3, <3>1, Zenon
    <3> QED
      BY <2>1, <2>4, <3>1, <3>2 DEF CumulativeViolation
  <2> QED
    BY <2>5, <2>6, Zenon
<1>3. CASE WriteLine
  BY <1>1, <1>3, Zenon DEF WriteLine, counters, ReportedAll
<1>4. SwapHandle \/ DeleteOldest \/ Shift \/ OpenFresh \/ Exhausted \/ UNCHANGED vars
          => UNCHANGED <<sent, received, line, returned>> /\ (Working => Working')
  BY Zenon DEF SwapHandle, DeleteOldest, Shift, OpenFresh, Exhausted, vars, counters, Working
<1>5. CASE UNCHANGED <<sent, received, line, returned>> /\ (Working => Working')
  BY <1>1, <1>5, Zenon DEF ReportedAll
<1>6. ~WriteFails
  BY Zenon DEF WriteFails
<1> QED
  BY <1>2, <1>3, <1>4, <1>5, <1>6, Zenon DEF Next

\* On a file system that works every process whose total reaches a threshold
\* is reported to the caller, in whichever pieces the bytes come and where
\* the counter saturates.
THEOREM CrossingsAreReported == Spec => []CrossingReported
<1>1. Init => CountInv
  BY EventLogAssumption DEF Init, CountInv, CounterTypes, ReportedOnly, Working
<1>2. Init => ReportedInv
  BY EventLogAssumption DEF Init, ReportedInv, ReportedAll
<1>3. ReportedInv => CrossingReported
  BY Zenon DEF ReportedInv, ReportedAll, CrossingReported, Working
<1> QED
  BY <1>1, <1>2, <1>3, NextCounts, NextReported, PTL DEF Spec

=============================================================================
