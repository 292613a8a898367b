----------------------------- MODULE DiskManager -----------------------------
(***************************************************************************)
(* DiskManager: the database file, read and written a page at a time under *)
(* db_io_latch_, and the log file.  A stream on which an operation failed  *)
(* stays bad, and does nothing any more, until the manager is made anew.   *)
(* Offsets and file sizes are ints.  What is written is flushed at once,   *)
(* so a restart finds all of it.  A read that meets the end of a file      *)
(* leaves its stream failed until it is cleared: a failed stream writes    *)
(* nothing, and says nothing about it.                                     *)
(***************************************************************************)
EXTENDS Integers, Sequences

CONSTANTS
    PageIds,        \* the pages that are written and read
    Contents,       \* what a page may hold
    PAGE_SIZE,      \* BUSTUB_PAGE_SIZE
    INT_MAX,        \* the largest int
    Buffers,        \* log buffers
    LogBytes,       \* what a byte of the log may be
    MaxChunk,       \* the most bytes WriteLog is given, or ReadLog asked for
    MaxLog,         \* a bound on the size of the log
    MaxErrors       \* how often the device may fail

ASSUME SizesAssumption ==
    PAGE_SIZE \in Nat \ {0} /\ INT_MAX \in Nat /\ {MaxChunk, MaxLog, MaxErrors} \subseteq Nat
\* An int counts the bytes of every page that is used, and of those before it.
ASSUME PagesAssumption == PageIds \subseteq Nat /\ \A p \in PageIds : (p + 1) * PAGE_SIZE <= INT_MAX
\* An int counts the bytes of the log.
ASSUME LogAssumption == MaxLog <= INT_MAX

VARIABLES
    file,           \* what the database file holds, a page after the other
    bad,            \* db_io_ is bad
    log,            \* what the log file holds
    log_state,      \* log_io_: "good", "fail" or "bad"
    log_position,   \* its cursor
    log_written,    \* the bytes that WriteLog was to put in the log, but for those a failing device dropped
    buffer_used,    \* the buffer last given to WriteLog
    flush_log_,
    errors,         \* how often the device has failed
    written,        \* page -> what it was last asked to hold
    lost,           \* the pages whose last write did not get to the file
    call            \* the last call and what it left in its buffer
vars == <<file, bad, log, log_state, log_position, log_written, buffer_used, flush_log_, errors, written, lost, call>>
dbfile == <<file, bad, written, lost>>
logfile == <<log, log_state, log_position, log_written, buffer_used, flush_log_>>

Zero == "zero"              \* a page, or a byte, of zeros
Untouched == "untouched"    \* what the caller's buffer held before
Torn == "torn"              \* a page of which a part was written
NoBuffer == "nullptr"
NoCall == [op |-> "none"]

TypeOK ==
    /\ \A i \in DOMAIN file : file[i] \in Contents \cup {Zero, Torn}
    /\ bad \in BOOLEAN /\ log_state \in {"good", "fail", "bad"} /\ flush_log_ \in BOOLEAN
    /\ Len(log) <= MaxLog /\ log_position \in 0..Len(log)
    /\ buffer_used \in Buffers \cup {NoBuffer} /\ errors \in 0..MaxErrors

\* The constructor's part of the state; the files are new.
Open == bad = FALSE /\ log_state = "good" /\ log_position = 0 /\ buffer_used = NoBuffer /\ flush_log_ = FALSE
Init ==
    /\ Open /\ file = <<>> /\ log = <<>> /\ log_written = <<>> /\ errors = 0 /\ call = NoCall
    /\ written = [p \in PageIds |-> Zero] /\ lost = {}

-----------------------------------------------------------------------------
(* The database file.                                                      *)

\* A number as an int holds it.
Ints == 2 * (INT_MAX + 1)
AsInt(n) == IF n % Ints <= INT_MAX THEN n % Ints ELSE (n % Ints) - Ints
GetFileSize == AsInt(Len(file) * PAGE_SIZE)

Larger(m, n) == IF m >= n THEN m ELSE n
\* The file with page p written: what lies between its old end and the page is zeros.
WithPage(p, data) ==
    [i \in 1..Larger(Len(file), p + 1) |-> IF i = p + 1 THEN data ELSE IF i <= Len(file) THEN file[i] ELSE Zero]

WritePage ==
    \E p \in PageIds, data \in Contents :
        /\ call' = [op |-> "WritePage", page |-> p]
        /\ written' = [written EXCEPT ![p] = data]
        /\ IF bad THEN lost' = lost \cup {p} /\ UNCHANGED file
           ELSE lost' = lost \ {p} /\ file' = WithPage(p, data)
        /\ UNCHANGED <<bad, logfile, errors>>

\* The device fails a write: the stream is bad from now on, and nobody is told.
WritePageFails ==
    \E p \in PageIds, data \in Contents :
        /\ ~bad /\ errors < MaxErrors
        /\ call' = [op |-> "WritePage fails", page |-> p]
        /\ bad' = TRUE /\ errors' = errors + 1
        /\ written' = [written EXCEPT ![p] = data] /\ lost' = lost \cup {p}
        /\ file' = file \/ file' = WithPage(p, Torn)
        /\ UNCHANGED logfile

\* What ReadPage leaves in the buffer.  A read that starts behind the end leaves it alone,
\* one that starts at the end, or that cannot be positioned, fills it with zeros.
\* Mutant: a short read is not cleared up.
ReadShort(p) ==
    LET offset == AsInt(p * PAGE_SIZE) IN
    IF offset > GetFileSize \/ bad \/ offset = GetFileSize THEN Untouched
    ELSE IF offset < 0 THEN Zero ELSE file[(offset \div PAGE_SIZE) + 1]
Read(p) ==
    LET offset == AsInt(p * PAGE_SIZE) IN
    IF offset > GetFileSize \/ bad THEN Untouched
    ELSE IF offset < 0 \/ offset >= Len(file) * PAGE_SIZE THEN Zero
    ELSE file[(offset \div PAGE_SIZE) + 1]
ReadPage ==
    \E p \in PageIds :
        /\ call' = [op |-> "ReadPage", page |-> p, data |-> Read(p), at_end |-> p = Len(file)]
        /\ UNCHANGED <<dbfile, logfile, errors>>

-----------------------------------------------------------------------------
(* The log file, which no latch protects; it has one caller at a time.     *)

\* How the constructor opens it.  With "app" a write goes to the end, wherever the cursor is.
LogMode == {"in", "out", "app"}
LogWith(chunk) ==
    LET at == IF "app" \in LogMode THEN Len(log) ELSE log_position IN
    [i \in 1..Larger(Len(log), at + Len(chunk)) |->
        IF i \in (at + 1)..(at + Len(chunk)) THEN chunk[i - at] ELSE log[i]]

LogChunks == UNION {[1..n -> LogBytes] : n \in 0..MaxChunk}
\* The assertion on the buffers has held.
WriteLog ==
    \E b \in Buffers \ {buffer_used}, chunk \in LogChunks :
        /\ Len(log) + Len(chunk) <= MaxLog
        /\ buffer_used' = b
        /\ call' = [op |-> "WriteLog"]
        /\ log_written' = IF log_state = "bad" THEN log_written ELSE log_written \o chunk
        /\ IF chunk = <<>> THEN UNCHANGED <<log, log_position, flush_log_>>
           ELSE /\ flush_log_' = (log_state = "bad")
                /\ IF log_state = "good" THEN log' = LogWith(chunk) /\ log_position' = Len(log')
                   ELSE UNCHANGED <<log, log_position>>
        /\ UNCHANGED <<dbfile, log_state, errors>>

\* The device fails, and has taken a part of the chunk: in write, or in flush, after the
\* stream has been asked whether it is bad.
WriteLogFails ==
    \E b \in Buffers \ {buffer_used}, chunk \in LogChunks :
        /\ log_state = "good" /\ errors < MaxErrors
        /\ Len(log) + Len(chunk) <= MaxLog
        /\ buffer_used' = b /\ flush_log_' \in BOOLEAN
        /\ log' = LogWith(chunk) /\ log_position' = Len(log') /\ log_written' = log_written \o chunk
        /\ log_state' = "bad" /\ errors' = errors + 1
        /\ call' = [op |-> "WriteLog"]
        /\ UNCHANGED dbfile

\* Mutant: a short read is not cleared up.
StillFailed(state) == state
Cleared(state) == "good"

\* Whether the log reaches to offset and can be read, and how many of size bytes it has there.
\* A failed stream is not moved and reads nothing.
Found(offset) == offset < AsInt(Len(log)) /\ log_state # "bad"
ReadCount(offset, size) ==
    IF log_state = "fail" THEN 0 ELSE IF offset + size <= Len(log) THEN size ELSE Len(log) - offset
LogData(offset, size) ==
    [i \in 1..size |-> IF ~Found(offset) THEN Untouched
                       ELSE IF i <= ReadCount(offset, size) THEN log[offset + i] ELSE Zero]
ReadLog ==
    \E offset \in 0..MaxLog, size \in 1..MaxChunk :
        /\ call' = [op |-> "ReadLog", offset |-> offset, size |-> size,
                    ret |-> Found(offset), data |-> LogData(offset, size)]
        /\ log_position' = IF Found(offset) /\ log_state = "good" THEN offset + ReadCount(offset, size)
                           ELSE log_position
        /\ log_state' = IF Found(offset) /\ ReadCount(offset, size) < size THEN Cleared("fail") ELSE log_state
        /\ UNCHANGED <<dbfile, log, log_written, buffer_used, flush_log_, errors>>

\* ShutDown, or the end of the process, and a new manager on the same files.
Restart ==
    /\ call # NoCall /\ call' = NoCall
    /\ bad' = FALSE /\ log_state' = "good" /\ log_position' = 0 /\ buffer_used' = NoBuffer /\ flush_log_' = FALSE
    /\ UNCHANGED <<file, log, log_written, errors, written, lost>>

Next == WritePage \/ WritePageFails \/ ReadPage \/ WriteLog \/ WriteLogFails \/ ReadLog \/ Restart
Spec == Init /\ [][Next]_vars

-----------------------------------------------------------------------------
(* Properties.                                                             *)

\* A page reads back as what was last written to it, before a restart or after, if that
\* write got to the file and the stream is good; one that was never written reads as
\* zeros, unless it lies behind the end of the file.
ReadsBack ==
    /\ TypeOK
    /\ (call.op = "ReadPage" /\ ~bad /\ call.page \notin lost) =>
          IF written[call.page] # Zero THEN call.data = written[call.page]
          ELSE call.data = Zero \/ (call.data = Untouched /\ ~call.at_end)

\* ReadLog returns, at every offset, what WriteLog was given to put there, and zeros for what
\* lies behind the end, and false only from the end on: whatever was read before, the last
\* bytes short of a buffer included, and whatever failed before a restart.
LogReadsBack ==
    (call.op = "ReadLog" /\ log_state # "bad") =>
        /\ call.ret <=> call.offset < Len(log_written)
        /\ call.ret => \A i \in 1..call.size :
               call.data[i] = IF call.offset + i <= Len(log_written) THEN log_written[call.offset + i] ELSE Zero

=============================================================================
