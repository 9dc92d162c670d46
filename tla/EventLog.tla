------------------------------ MODULE EventLog ------------------------------
(***************************************************************************)
(* The session log of garden-daemon (event_log.rs): EventLogger::log with  *)
(* its per-process byte counters, and the rotation of events.ndjson, one   *)
(* file-system operation at a time, any of which may fail.                 *)
(*                                                                         *)
(* The log has one writer, the telemetry receiver.  Readers (the HTTP      *)
(* session API, the MCP resources) open the files between any two steps.   *)
(***************************************************************************)
EXTENDS Integers, Sequences, FiniteSets

CONSTANTS
    MaxFileBytes,   \* max_file_bytes
    MaxFiles,       \* max_files
    Pids,
    SendThreshold,  \* 10 MB
    RecvThreshold,  \* 50 MB
    MaxCount,       \* u64::MAX, where the counters saturate
    Events,         \* the events the guest sends in this instance
    MaxLogs,        \* calls of log (a bound)
    Missing,        \* no file of that name
    Null, Unlinked  \* the handle is on /dev/null, or on a deleted file

\* An event: whether detect_violation flags it, its process, the TCP bytes it
\* reports, and the length of its line in the log.
AllEvents ==
    [kind : {"plain", "flagged", "send", "recv"}, pid : Pids,
     amount : 0..MaxCount, bytes : 1..MaxFileBytes]

\* The file-system operations that can fail.
AllFaults == {"devnull", "fallback", "remove", "rename", "open", "write"}

\* What log() can return for an event.
AllViolations == {"none", "flagged", "data_exfiltration", "large_download"}

\* A file: its lines, their bytes, and the bytes of the parts of lines that a
\* failed write left behind (glued: the last of them has no newline).
AllLines == [seq : Nat, violation : AllViolations, readable : BOOLEAN]
AllFiles == [lines : Seq(AllLines), bytes : Nat, torn : Nat, glued : BOOLEAN]

ASSUME EventLogAssumption ==
    /\ MaxFileBytes \in Nat \ {0}
    /\ MaxFiles \in Nat \ {0}
    /\ MaxCount \in Nat /\ SendThreshold \in 1..MaxCount /\ RecvThreshold \in 1..MaxCount
    /\ Events \subseteq AllEvents
    /\ MaxLogs \in Nat
    /\ Missing \notin AllFiles
    /\ Null \notin 0..MaxFiles /\ Unlinked \notin 0..MaxFiles \cup {Null}

VARIABLES
    faults,        \* what may fail in this behaviour: nothing or anything (fixed)
    files,         \* files[0] is events.ndjson, files[n] is events.n.ndjson
    handle,        \* where the file behind RotatingFile.file is now
    currentBytes,  \* RotatingFile.current_bytes
    seq,           \* the line counter
    sent, received,\* byte_counters
    pc, n,         \* where log() is, and the loop variable of rotate()
    line,          \* the line being written
    result,        \* what the last log() returned: ok, violation
    returned       \* the (process, rule) pairs returned to the caller so far

counters == <<sent, received>>
vars == <<faults, files, handle, currentBytes, seq, counters, pc, n, line, result, returned>>

EmptyFile == [lines |-> <<>>, bytes |-> 0, torn |-> 0, glued |-> FALSE]
NoLine == [seq |-> 0, pid |-> CHOOSE p \in Pids : TRUE, violation |-> "none", bytes |-> 0]

\* After part of a line without its newline the next line is glued to it and
\* neither parses.
AppendLine(f, l) ==
    [f EXCEPT !.lines = Append(@, [seq |-> l.seq, violation |-> l.violation, readable |-> ~f.glued]),
              !.bytes = @ + l.bytes,
              !.glued = FALSE]

AppendPart(f, k) ==
    IF k = 0 THEN f ELSE [f EXCEPT !.torn = @ + k, !.glued = TRUE]

Init ==
    /\ faults \in {{}, AllFaults}
    /\ files = [i \in 0..MaxFiles |-> IF i = 0 THEN EmptyFile ELSE Missing]
    /\ handle = 0
    /\ currentBytes = 0
    /\ seq = 0
    /\ sent = [p \in Pids |-> 0] /\ received = [p \in Pids |-> 0]
    /\ pc = "idle" /\ n = 0
    /\ line = NoLine
    /\ result = [ok |-> TRUE, violation |-> "none"]
    /\ returned = {}

(***************************************************************************)
(* log()                                                                   *)
(***************************************************************************)

SaturatingAdd(a, b) == IF a + b > MaxCount THEN MaxCount ELSE a + b

SentAfter(e) ==
    IF e.kind = "send" THEN [sent EXCEPT ![e.pid] = SaturatingAdd(@, e.amount)] ELSE sent
ReceivedAfter(e) ==
    IF e.kind = "recv" THEN [received EXCEPT ![e.pid] = SaturatingAdd(@, e.amount)] ELSE received

\* Mutant: the violation is raised again on every later event.
CumulativeEveryTime(e) ==
    IF e.kind = "send" /\ SentAfter(e)[e.pid] >= SendThreshold THEN "data_exfiltration"
    ELSE IF e.kind = "recv" /\ ReceivedAfter(e)[e.pid] >= RecvThreshold THEN "large_download"
    ELSE "none"

\* Mutant: the old check of one event against the threshold.
PerEventBytes(e) ==
    IF e.kind = "send" /\ e.amount >= SendThreshold THEN "data_exfiltration"
    ELSE IF e.kind = "recv" /\ e.amount >= RecvThreshold THEN "large_download"
    ELSE "none"

\* check_cumulative_bytes: only the event that crosses the threshold counts.
CumulativeViolation(e) ==
    IF e.kind = "send" /\ sent[e.pid] < SendThreshold /\ SentAfter(e)[e.pid] >= SendThreshold
    THEN "data_exfiltration"
    ELSE IF e.kind = "recv" /\ received[e.pid] < RecvThreshold
            /\ ReceivedAfter(e)[e.pid] >= RecvThreshold
    THEN "large_download"
    ELSE "none"

\* Mutant: the limit is checked without the new line.
OverLimitLate(bytes) == currentBytes > MaxFileBytes

\* Rotate before writing if this line would push the file over the limit.
OverLimit(bytes) == currentBytes + bytes > MaxFileBytes

\* Mutant: the sequence number is read but never stored back.
LogWithoutIncrement(e) ==
    /\ pc = "idle" /\ seq < MaxLogs
    /\ sent' = SentAfter(e) /\ received' = ReceivedAfter(e)
    /\ line' = [seq |-> seq + 1, pid |-> e.pid, bytes |-> e.bytes,
                violation |-> IF e.kind = "flagged" THEN "flagged" ELSE CumulativeViolation(e)]
    /\ pc' = IF OverLimit(e.bytes) THEN "swap" ELSE "write"
    /\ UNCHANGED <<faults, seq, files, handle, currentBytes, n, result, returned>>

Log(e) ==
    /\ pc = "idle" /\ seq < MaxLogs
    /\ seq' = seq + 1
    /\ sent' = SentAfter(e) /\ received' = ReceivedAfter(e)
    /\ line' = [seq |-> seq + 1, pid |-> e.pid, bytes |-> e.bytes,
                violation |-> IF e.kind = "flagged" THEN "flagged" ELSE CumulativeViolation(e)]
    /\ pc' = IF OverLimit(e.bytes) THEN "swap" ELSE "write"
    /\ UNCHANGED <<faults, files, handle, currentBytes, n, result, returned>>

\* `?` on an I/O error: the caller gets an error in place of the violation.
Fail ==
    /\ pc' = "idle"
    /\ result' = [ok |-> FALSE, violation |-> "none"]
    /\ UNCHANGED returned

WriteLine ==
    /\ pc = "write"
    /\ files' = IF handle \in 0..MaxFiles
                THEN [files EXCEPT ![handle] = AppendLine(@, line)] ELSE files
    /\ currentBytes' = currentBytes + line.bytes
    /\ pc' = "idle"
    /\ result' = [ok |-> TRUE, violation |-> line.violation]
    /\ returned' = returned \cup {<<line.pid, line.violation>>}
    /\ UNCHANGED <<faults, handle, seq, counters, n, line>>

\* write_all may fail after any part of the line (a full disk).
WriteFails ==
    /\ pc = "write" /\ "write" \in faults /\ handle # Null
    /\ \E k \in 0..(line.bytes - 1) :
           files' = IF handle \in 0..MaxFiles
                    THEN [files EXCEPT ![handle] = AppendPart(@, k)] ELSE files
    /\ Fail
    /\ UNCHANGED <<faults, handle, currentBytes, seq, counters, n, line>>

(***************************************************************************)
(* rotate()                                                                *)
(***************************************************************************)

\* The handle is parked on /dev/null; if that cannot be opened, on
\* events.ndjson again; if that cannot be opened either, the thread panics
\* with the lock held and the log is dead.
SwapHandle ==
    /\ pc = "swap"
    /\ \/ /\ handle' = Null
          /\ pc' = "delete"
          /\ UNCHANGED files
       \/ /\ "devnull" \in faults
          /\ handle' = 0
          /\ files' = [files EXCEPT ![0] = IF @ = Missing THEN EmptyFile ELSE @]
          /\ pc' = "delete"
       \/ /\ {"devnull", "fallback"} \subseteq faults
          /\ pc' = "panicked"
          /\ UNCHANGED <<files, handle>>
    /\ UNCHANGED <<faults, currentBytes, seq, counters, n, line, result, returned>>

\* Mutant: the loop that follows starts one file too low.
DeleteOldestShortLoop ==
    /\ pc = "delete"
    /\ files' = [files EXCEPT ![MaxFiles] = Missing]
    /\ handle' = IF handle = MaxFiles THEN Unlinked ELSE handle
    /\ pc' = "shift" /\ n' = MaxFiles - 2
    /\ UNCHANGED <<faults, result, returned, currentBytes, seq, counters, line>>

DeleteOldest ==
    /\ pc = "delete"
    /\ \/ /\ files' = [files EXCEPT ![MaxFiles] = Missing]
          /\ handle' = IF handle = MaxFiles THEN Unlinked ELSE handle
          /\ pc' = "shift" /\ n' = MaxFiles - 1
          /\ UNCHANGED <<result, returned>>
       \/ /\ "remove" \in faults /\ files[MaxFiles] # Missing
          /\ Fail
          /\ UNCHANGED <<files, handle, n>>
    /\ UNCHANGED <<faults, currentBytes, seq, counters, line>>

\* events.n becomes events.{n+1}, the oldest first; n = 0 is events.ndjson
\* itself.  A handle on a renamed file follows it.
Shift ==
    /\ pc = "shift"
    /\ \/ /\ files' = IF files[n] = Missing THEN files
                      ELSE [files EXCEPT ![n + 1] = files[n], ![n] = Missing]
          /\ handle' = IF handle = n THEN n + 1
                       ELSE IF handle = n + 1 /\ files[n] # Missing THEN Unlinked
                       ELSE handle
          /\ IF n = 0 THEN pc' = "open" /\ UNCHANGED n ELSE n' = n - 1 /\ UNCHANGED pc
          /\ UNCHANGED <<result, returned>>
       \/ /\ "rename" \in faults /\ files[n] # Missing
          /\ Fail
          /\ UNCHANGED <<files, handle, n>>
    /\ UNCHANGED <<faults, currentBytes, seq, counters, line>>

\* Mutant: the fresh file is opened but the handle stays on /dev/null.
OpenWithoutHandle ==
    LET active == IF files[0] = Missing THEN EmptyFile ELSE files[0] IN
    /\ pc = "open"
    /\ files' = [files EXCEPT ![0] = active]
    /\ currentBytes' = active.bytes + active.torn
    /\ handle' = Null
    /\ pc' = "write"
    /\ UNCHANGED <<faults, result, returned, seq, counters, n, line>>

\* open_log_file: open, then ask for the length.  Either may fail; the second
\* leaves the file created.
OpenFresh ==
    LET active == IF files[0] = Missing THEN EmptyFile ELSE files[0] IN
    /\ pc = "open"
    /\ \/ /\ files' = [files EXCEPT ![0] = active]
          /\ handle' = 0
          /\ currentBytes' = active.bytes + active.torn
          /\ pc' = "write"
          /\ UNCHANGED <<result, returned>>
       \/ /\ "open" \in faults
          /\ files' \in {files, [files EXCEPT ![0] = active]}
          /\ Fail
          /\ UNCHANGED <<handle, currentBytes>>
    /\ UNCHANGED <<faults, seq, counters, n, line>>

\* The instance has used up its calls, or the log is dead.
Exhausted ==
    /\ pc = "panicked" \/ (pc = "idle" /\ seq = MaxLogs)
    /\ UNCHANGED vars

Next ==
    \/ \E e \in Events : Log(e)
    \/ WriteLine \/ WriteFails
    \/ SwapHandle \/ DeleteOldest \/ Shift \/ OpenFresh
    \/ Exhausted

Spec == Init /\ [][Next]_vars

(***************************************************************************)
(* Properties.                                                             *)
(***************************************************************************)

LinesOf(f) == IF f = Missing THEN {} ELSE {f.lines[k] : k \in 1..Len(f.lines)}

\* Read from the oldest file to the active one, the lines are in the order
\* log() numbered them, whatever failed half way through which rotation.
FilesInOrder ==
    \A i, j \in 0..MaxFiles : files[i] # Missing /\ files[j] # Missing =>
        \A a \in 1..Len(files[i].lines), b \in 1..Len(files[j].lines) :
            (i > j \/ (i = j /\ a < b)) => files[i].lines[a].seq < files[j].lines[b].seq

\* No rename ever lands on a file that still holds lines: a step only loses
\* lines by deleting the oldest file, events.{max_files}.  (So says the module's
\* comment, event_log.rs:12-13; the comment on rotate(), lines 621-622, has the
\* deletion and the shift one file lower than the code.)
OnlyOldestDeleted ==
    [][\A i \in 0..(MaxFiles - 1) : \A l \in LinesOf(files[i]) :
           \E j \in 0..MaxFiles : l \in LinesOf(files'[j])]_vars

\* The lines of a file never exceed max_file_bytes, also when rotations fail
\* and the handle is left on /dev/null or on a file that has moved.  (Parts of
\* lines that failed are not in current_bytes and come on top.)
FileWithinLimit ==
    \A i \in 0..MaxFiles : files[i] # Missing => files[i].bytes <= MaxFileBytes

\* "Every security event received from the guest is written to an NDJSON
\* file" (event_log.rs:3): on a file system that works, when log() has
\* returned Ok its line is in a file and can be read back.
OkMeansLogged ==
    faults = {} /\ pc = "idle" /\ seq > 0 /\ result.ok =>
        \E i \in 0..MaxFiles : \E l \in LinesOf(files[i]) : l.seq = seq /\ l.readable

\* "a process sending 1000 x 10KB writes should still trigger at 10MB total"
\* (event_log.rs:576): on a file system that works, between calls the caller
\* has been given a violation for every process whose total has reached a
\* threshold.
CrossingReported ==
    faults = {} /\ pc = "idle" => \A p \in Pids :
        /\ sent[p] >= SendThreshold => <<p, "data_exfiltration">> \in returned
        /\ received[p] >= RecvThreshold => <<p, "large_download">> \in returned

\* "Only fire the violation once": no process is reported twice for a
\* threshold.
CrossingReportedOnce ==
    [][(pc = "write" /\ pc' = "idle" /\ line.violation \in {"data_exfiltration", "large_download"})
           => <<line.pid, line.violation>> \notin returned]_vars

=============================================================================
