-------------------------- MODULE DiskManagerProofs --------------------------
(***************************************************************************)
(* Proofs about DiskManager: a page reads back as what was last written to *)
(* it, and the log as what it was given, for every set of pages and every  *)
(* log whose bytes an int counts, every size of page and every number of   *)
(* failures and restarts.                                                  *)
(***************************************************************************)
EXTENDS DiskManager, TLAPS

-----------------------------------------------------------------------------
(* The inductive invariant.                                                *)

\* What the file holds where page p belongs.
InFile(p) == p + 1 \in DOMAIN file
\* A page whose last write got to the file is there, and one that was never written is
\* zeros, if the file is that long.
Kept ==
    \A p \in PageIds \ lost :
        IF written[p] # Zero THEN InFile(p) /\ file[p + 1] = written[p] ELSE InFile(p) => file[p + 1] = Zero
\* The file ends with a page that is used, so that an int counts its bytes.
Counted == Len(file) * PAGE_SIZE <= INT_MAX

PageData == Contents \cup {Zero, Torn}
Types ==
    /\ file \in Seq(PageData)
    /\ log \in Seq(LogBytes) /\ Len(log) <= MaxLog /\ log_position \in 0..Len(log)
    /\ bad \in BOOLEAN /\ log_state \in {"good", "fail", "bad"} /\ flush_log_ \in BOOLEAN
    /\ buffer_used \in Buffers \cup {NoBuffer} /\ errors \in 0..MaxErrors
    /\ written \in [PageIds -> Contents \cup {Zero}]

\* ReadsBack without its types.
AsWritten ==
    (call.op = "ReadPage" /\ ~bad /\ call.page \notin lost) =>
        IF written[call.page] # Zero THEN call.data = written[call.page]
        ELSE call.data = Zero \/ (call.data = Untouched /\ ~call.at_end)

\* The log holds what it was given, and no call leaves its stream failed: a write to a failed
\* stream would be dropped, and reported as flushed.
LogKept == log_written = log /\ log_state # "fail"

IInv == Types /\ Kept /\ Counted /\ AsWritten /\ LogKept /\ LogReadsBack

-----------------------------------------------------------------------------
(* Numbers.                                                                *)

\* Products are ordered as their first factors.
LEMMA ProductOrder ==
    ASSUME NEW a \in Nat, NEW b \in Nat, NEW c \in Nat \ {0}
    PROVE  /\ a * c \in Nat
           /\ a <= b => a * c <= b * c
           /\ a > b => a * c > b * c
           /\ (a * c) \div c = a
<1>1. a * c \in Nat /\ b * c \in Nat
  OBVIOUS
<1>2. ASSUME a <= b PROVE a * c <= b * c
  <2>1. PICK d \in Nat : b = a + d
    BY <1>2
  <2>2. b * c = a * c + d * c /\ d * c >= 0
    BY <2>1
  <2> QED
    BY <2>2, <1>1
<1>3. ASSUME a > b PROVE a * c > b * c
  <2>1. PICK d \in Nat : a = b + d + 1
    <3>1. a - b - 1 \in Nat /\ a = b + (a - b - 1) + 1
      BY <1>3
    <3> QED
      BY <3>1
  <2>2. a * c = b * c + d * c + c /\ d * c >= 0
    BY <2>1
  <2> QED
    BY <2>2, <1>1
<1>4. (a * c) \div c = a
  OBVIOUS
<1> QED
  BY <1>1, <1>2, <1>3, <1>4

\* A number that is not too large for an int is what the int holds.
LEMMA IntHolds ==
    ASSUME NEW n \in Nat, n <= INT_MAX
    PROVE  AsInt(n) = n
<1>1. Ints \in Nat /\ n < Ints
  BY SizesAssumption DEF Ints
<1>2. n % Ints = n
  BY <1>1
<1> QED
  BY <1>2 DEF AsInt

\* The bytes of a page that is used, and of those before it.
LEMMA PageCounted ==
    ASSUME NEW p \in PageIds
    PROVE  /\ p \in Nat
           /\ (p + 1) * PAGE_SIZE \in Nat /\ (p + 1) * PAGE_SIZE <= INT_MAX
           /\ p * PAGE_SIZE \in Nat /\ p * PAGE_SIZE <= INT_MAX
<1>1. p \in Nat /\ (p + 1) * PAGE_SIZE <= INT_MAX /\ PAGE_SIZE \in Nat \ {0} /\ INT_MAX \in Nat
  BY PagesAssumption, SizesAssumption
<1>2. (p + 1) * PAGE_SIZE \in Nat /\ p * PAGE_SIZE \in Nat /\ p * PAGE_SIZE <= (p + 1) * PAGE_SIZE
  <2>1. p + 1 \in Nat /\ p <= p + 1
    BY <1>1
  <2> QED
    BY <1>1, <2>1, ProductOrder
<1> QED
  BY <1>1, <1>2
-----------------------------------------------------------------------------
(* The file.                                                               *)

\* What WithPage returns.
LEMMA PageWritten ==
    ASSUME file \in Seq(PageData), NEW p \in Nat, NEW data \in PageData, NEW f, f = WithPage(p, data)
    PROVE  /\ f \in Seq(PageData)
           /\ Len(f) = Larger(Len(file), p + 1)
           /\ p + 1 \in DOMAIN f /\ f[p + 1] = data
           /\ \A q \in Nat : (q # p /\ q + 1 \in DOMAIN file) => q + 1 \in DOMAIN f /\ f[q + 1] = file[q + 1]
           /\ \A q \in Nat : (q # p /\ q + 1 \in DOMAIN f /\ q + 1 \notin DOMAIN file) => f[q + 1] = Zero
<1>0. Zero \in PageData
  BY DEF PageData
<1> DEFINE n == Larger(Len(file), p + 1)
<1>1. n \in Nat /\ n >= Len(file) /\ n >= p + 1 /\ Len(file) \in Nat /\ DOMAIN file = 1..Len(file)
  BY DEF Larger
<1>2. f = [i \in 1..n |-> IF i = p + 1 THEN data ELSE IF i <= Len(file) THEN file[i] ELSE Zero]
  BY DEF WithPage
<1> HIDE DEF n
<1>3. \A i \in 1..n : f[i] \in PageData
  <2> SUFFICES ASSUME NEW i \in 1..n PROVE f[i] \in PageData
    OBVIOUS
  <2>1. CASE i = p + 1
    BY <2>1, <1>2
  <2>2. CASE i # p + 1 /\ i <= Len(file)
    <3>1. i \in 1..Len(file)
      BY <2>2, <1>1
    <3>2. file[i] \in PageData
      BY <3>1
    <3> QED
      BY <2>2, <3>2, <1>2
  <2>3. CASE i # p + 1 /\ ~(i <= Len(file))
    BY <2>3, <1>0, <1>2
  <2> QED
    BY <2>1, <2>2, <2>3
<1>4. f \in [1..n -> PageData]
  BY <1>2, <1>3
<1>5. f \in Seq(PageData) /\ Len(f) = n /\ DOMAIN f = 1..n
  BY <1>4, <1>1
<1>6. p + 1 \in 1..n /\ f[p + 1] = data
  BY <1>1, <1>2
<1>7. ASSUME NEW q \in Nat, q # p, q + 1 \in DOMAIN file
      PROVE  q + 1 \in DOMAIN f /\ f[q + 1] = file[q + 1]
  <2>1. q + 1 \in 1..n /\ q + 1 # p + 1 /\ q + 1 <= Len(file)
    BY <1>1, <1>7
  <2> QED
    BY <2>1, <1>2, <1>5
<1>8. ASSUME NEW q \in Nat, q # p, q + 1 \in DOMAIN f, q + 1 \notin DOMAIN file
      PROVE  f[q + 1] = Zero
  <2>1. q + 1 \in 1..n /\ q + 1 # p + 1 /\ ~(q + 1 <= Len(file))
    BY <1>1, <1>5, <1>8
  <2> QED
    BY <2>1, <1>2
<1> QED
  BY <1>5, <1>6, <1>7, <1>8 DEF n

\* The file with a page written, or a part of one, is still counted by an int.
LEMMA StaysCounted ==
    ASSUME Types, Counted, NEW p \in PageIds, NEW f, Len(f) = Larger(Len(file), p + 1)
    PROVE  Len(f) * PAGE_SIZE <= INT_MAX
<1>1. CASE Len(file) >= p + 1
  BY <1>1 DEF Larger, Counted
<1>2. CASE ~(Len(file) >= p + 1)
  BY <1>2, PageCounted DEF Larger
<1> QED
  BY <1>1, <1>2

\* A page that lies in the file is read from it; one at its end is zeros; the buffer is
\* left alone only behind it.
LEMMA WhatIsRead ==
    ASSUME Types, Counted, ~bad, NEW p \in PageIds
    PROVE  /\ InFile(p) => Read(p) = file[p + 1]
           /\ ~InFile(p) => Read(p) = Zero \/ (Read(p) = Untouched /\ p # Len(file))
<1> DEFINE L == Len(file)
           o == p * PAGE_SIZE
           e == L * PAGE_SIZE
<1>1. L \in Nat /\ DOMAIN file = 1..L
  BY DEF Types
<1>2. p \in Nat /\ o \in Nat /\ o <= INT_MAX /\ PAGE_SIZE \in Nat \ {0}
  BY PageCounted, SizesAssumption
<1> HIDE DEF L
<1>3. e \in Nat /\ e <= INT_MAX
  BY <1>1, <1>2, ProductOrder DEF Counted, L
<1>4. AsInt(o) = o /\ GetFileSize = e
  BY <1>2, <1>3, IntHolds DEF GetFileSize, L
<1>5. /\ p >= L => o >= e
      /\ p < L => o < e
      /\ p = L => o = e
      /\ o \div PAGE_SIZE = p
  BY <1>1, <1>2, ProductOrder
<1> HIDE DEF o, e
<1>6. Read(p) = IF o > e THEN Untouched ELSE IF o < 0 \/ o >= e THEN Zero ELSE file[(o \div PAGE_SIZE) + 1]
  BY <1>4 DEF Read, o, e, L
<1>7. CASE InFile(p)
  <2>1. p < L
    BY <1>7, <1>1, <1>2 DEF InFile
  <2>2. ~(o > e) /\ ~(o < 0 \/ o >= e)
    BY <2>1, <1>5, <1>2, <1>3
  <2> QED
    BY <2>2, <1>5, <1>6, <1>7
<1>8. CASE ~InFile(p)
  <2>1. p >= L
    BY <1>8, <1>1, <1>2 DEF InFile
  <2>2. o >= e /\ (p = L => ~(o > e))
    BY <2>1, <1>5, <1>2, <1>3
  <2> QED
    BY <2>2, <1>6, <1>8 DEF L
<1> QED
  BY <1>7, <1>8
-----------------------------------------------------------------------------
(* The steps.                                                              *)

LEMMA InitHolds == Init => IInv
<1> SUFFICES ASSUME Init PROVE IInv
  OBVIOUS
<1>1. Types
  <2>1. MaxLog \in Nat /\ MaxErrors \in Nat
    BY SizesAssumption
  <2>2. file \in Seq(PageData) /\ log \in Seq(LogBytes) /\ Len(log) = 0
    BY DEF Init
  <2>3. Len(log) <= MaxLog /\ log_position \in 0..Len(log) /\ errors \in 0..MaxErrors
    BY <2>1, <2>2 DEF Init, Open
  <2>4. bad \in BOOLEAN /\ log_state \in {"good", "fail", "bad"} /\ flush_log_ \in BOOLEAN /\ buffer_used \in Buffers \cup {NoBuffer}
    BY Zenon DEF Init, Open
  <2>5. written \in [PageIds -> Contents \cup {Zero}]
    BY DEF Init
  <2> QED
    BY <2>2, <2>3, <2>4, <2>5 DEF Types
<1>2. Len(file) = 0 /\ DOMAIN file = {}
  BY DEF Init
<1>3. Kept
  BY <1>2 DEF Init, Kept, InFile
<1>4. Counted
  BY <1>2, SizesAssumption DEF Counted
<1>5. AsWritten
  BY DEF Init, AsWritten, NoCall
<1>6. LogKept /\ LogReadsBack
  BY Zenon DEF Init, Open, LogKept, LogReadsBack, NoCall
<1> QED
  BY <1>1, <1>3, <1>4, <1>5, <1>6 DEF IInv

\* A call on the database file leaves the log alone.
LEMMA PageCallsKeep ==
    ASSUME IInv, UNCHANGED logfile, call'.op # "ReadLog"
    PROVE  LogKept' /\ LogReadsBack'
<1> QED
  BY DEF IInv, LogKept, LogReadsBack, logfile

\* What is kept stays so when page p is written: the other pages are where they were.
LEMMA WriteKeeps ==
    ASSUME Types, Kept, NEW p \in PageIds, NEW data \in Contents, NEW c \in PageData,
           file' = WithPage(p, c), written' = [written EXCEPT ![p] = data],
           \/ lost' = lost \ {p} /\ c = data
           \/ lost' = lost \cup {p}
    PROVE  Kept'
<1>1. file \in Seq(PageData) /\ p \in Nat /\ PageIds \subseteq Nat
  BY PagesAssumption DEF Types
<1>2. /\ file'[p + 1] = c /\ p + 1 \in DOMAIN file'
      /\ \A q \in Nat : (q # p /\ q + 1 \in DOMAIN file) => q + 1 \in DOMAIN file' /\ file'[q + 1] = file[q + 1]
      /\ \A q \in Nat : (q # p /\ q + 1 \in DOMAIN file' /\ q + 1 \notin DOMAIN file) => file'[q + 1] = Zero
  <2>1. PICK f : f = file'
    OBVIOUS
  <2>2. f = WithPage(p, c)
    BY <2>1
  <2>3. p + 1 \in DOMAIN f /\ f[p + 1] = c
    <3>1. p + 1 \in DOMAIN f
      BY <1>1, <2>2, PageWritten
    <3>2. f[p + 1] = c
      BY <1>1, <2>2, <3>1, PageWritten
    <3> QED
      BY <3>1, <3>2
  <2>4. ASSUME NEW q \in Nat, q # p, q + 1 \in DOMAIN file
        PROVE  q + 1 \in DOMAIN f /\ f[q + 1] = file[q + 1]
    BY <1>1, <2>2, <2>4, PageWritten
  <2>5. ASSUME NEW q \in Nat, q # p, q + 1 \in DOMAIN f, q + 1 \notin DOMAIN file
        PROVE  f[q + 1] = Zero
    BY <1>1, <2>2, <2>5, PageWritten
  <2> QED
    BY <2>1, <2>3, <2>4, <2>5
<1>3. written'[p] = data /\ \A q \in PageIds : q # p => written'[q] = written[q]
  BY DEF Types
<1> SUFFICES ASSUME NEW q \in PageIds \ lost'
             PROVE  IF written'[q] # Zero THEN InFile(q)' /\ file'[q + 1] = written'[q]
                    ELSE InFile(q)' => file'[q + 1] = Zero
  BY DEF Kept
<1>4. CASE q = p
  <2>1. c = data
    BY <1>4
  <2> QED
    BY <2>1, <1>4, <1>2, <1>3 DEF InFile
<1>5. CASE q # p
  <2>1. q \in PageIds \ lost /\ written'[q] = written[q] /\ q \in Nat
    BY <1>5, <1>3, <1>1
  <2>2. IF written[q] # Zero THEN InFile(q) /\ file[q + 1] = written[q] ELSE InFile(q) => file[q + 1] = Zero
    BY <2>1 DEF Kept
  <2>3. InFile(q) => InFile(q)' /\ file'[q + 1] = file[q + 1]
    BY <2>1, <1>5, <1>2 DEF InFile
  <2>4. InFile(q)' /\ ~InFile(q) => file'[q + 1] = Zero
    BY <2>1, <1>5, <1>2 DEF InFile
  <2> QED
    BY <2>1, <2>2, <2>3, <2>4
<1> QED
  BY <1>4, <1>5

LEMMA WritePagePreserves == IInv /\ WritePage => IInv'
<1> SUFFICES ASSUME IInv, WritePage PROVE IInv'
  OBVIOUS
<1>1. PICK p \in PageIds, data \in Contents :
        /\ call' = [op |-> "WritePage", page |-> p]
        /\ written' = [written EXCEPT ![p] = data]
        /\ IF bad THEN lost' = lost \cup {p} /\ UNCHANGED file
           ELSE lost' = lost \ {p} /\ file' = WithPage(p, data)
        /\ UNCHANGED <<bad, logfile, errors>>
  BY Zenon DEF WritePage
<1>2. Types /\ Kept /\ Counted
  BY DEF IInv
<1>3. AsWritten' /\ LogKept' /\ LogReadsBack'
  BY <1>1, PageCallsKeep DEF AsWritten
<1>4. written' \in [PageIds -> Contents \cup {Zero}]
  BY <1>1, <1>2 DEF Types
<1>5. CASE bad
  <2>1. Types'
    BY <1>1, <1>2, <1>4, <1>5 DEF Types, logfile
  <2>2. Kept'
    <3>1. \A q \in PageIds : q # p => written'[q] = written[q]
      BY <1>1, <1>2 DEF Types
    <3> QED
      BY <1>1, <1>2, <1>5, <3>1 DEF Kept, InFile
  <2>3. Counted'
    BY <1>1, <1>2, <1>5 DEF Counted
  <2> QED
    BY <2>1, <2>2, <2>3, <1>3 DEF IInv
<1>6. CASE ~bad
  <2>0. file \in Seq(PageData) /\ p \in Nat /\ data \in PageData
    BY <1>2, PagesAssumption DEF Types, PageData
  <2>1. file' \in Seq(PageData) /\ Len(file') = Larger(Len(file), p + 1)
    BY <2>0, <1>1, <1>6, PageWritten
  <2>2. Types'
    BY <1>1, <1>2, <1>4, <2>1 DEF Types, logfile
  <2>3. Kept'
    BY <2>0, <1>1, <1>2, <1>6, WriteKeeps, Zenon
  <2>4. Counted'
    BY <1>2, <2>1, StaysCounted DEF Counted
  <2> QED
    BY <2>2, <2>3, <2>4, <1>3 DEF IInv
<1> QED
  BY <1>5, <1>6

LEMMA WritePageFailsPreserves == IInv /\ WritePageFails => IInv'
<1> SUFFICES ASSUME IInv, WritePageFails PROVE IInv'
  OBVIOUS
<1>1. PICK p \in PageIds, data \in Contents :
        /\ ~bad /\ errors < MaxErrors
        /\ call' = [op |-> "WritePage fails", page |-> p]
        /\ bad' = TRUE /\ errors' = errors + 1
        /\ written' = [written EXCEPT ![p] = data] /\ lost' = lost \cup {p}
        /\ file' = file \/ file' = WithPage(p, Torn)
        /\ UNCHANGED logfile
  BY DEF WritePageFails
<1>2. Types /\ Kept /\ Counted
  BY DEF IInv
<1>3. AsWritten' /\ LogKept' /\ LogReadsBack'
  BY <1>1, PageCallsKeep DEF AsWritten
<1>4. written' \in [PageIds -> Contents \cup {Zero}] /\ errors' \in 0..MaxErrors
  <2>1. MaxErrors \in Nat
    BY SizesAssumption
  <2>2. written' \in [PageIds -> Contents \cup {Zero}]
    BY <1>1, <1>2 DEF Types
  <2>3. errors \in 0..MaxErrors /\ errors < MaxErrors /\ errors' = errors + 1
    BY <1>1, <1>2 DEF Types
  <2>4. errors' \in 0..MaxErrors
    BY <2>1, <2>3
  <2> QED
    BY <2>2, <2>4
<1>5. CASE file' = file
  <2>1. Types'
    BY <1>1, <1>2, <1>4, <1>5 DEF Types, logfile
  <2>2. Kept'
    <3>1. \A q \in PageIds : q # p => written'[q] = written[q]
      BY <1>1, <1>2 DEF Types
    <3> QED
      BY <1>1, <1>2, <1>5, <3>1 DEF Kept, InFile
  <2>3. Counted'
    BY <1>2, <1>5 DEF Counted
  <2> QED
    BY <2>1, <2>2, <2>3, <1>3 DEF IInv
<1>6. CASE file' = WithPage(p, Torn)
  <2>0. file \in Seq(PageData) /\ p \in Nat /\ Torn \in PageData
    BY <1>2, PagesAssumption DEF Types, PageData
  <2>1. file' \in Seq(PageData) /\ Len(file') = Larger(Len(file), p + 1)
    BY <2>0, <1>6, PageWritten, Zenon
  <2>2. Types'
    BY <1>1, <1>2, <1>4, <2>1 DEF Types, logfile
  <2>3. Kept'
    BY <2>0, <1>1, <1>2, <1>6, WriteKeeps
  <2>4. Counted'
    BY <1>2, <2>1, StaysCounted DEF Counted
  <2> QED
    BY <2>2, <2>3, <2>4, <1>3 DEF IInv
<1> QED
  BY <1>1, <1>5, <1>6

LEMMA ReadPagePreserves == IInv /\ ReadPage => IInv'
<1> SUFFICES ASSUME IInv, ReadPage PROVE IInv'
  OBVIOUS
<1>1. PICK p \in PageIds :
        /\ call' = [op |-> "ReadPage", page |-> p, data |-> Read(p), at_end |-> p = Len(file)]
        /\ UNCHANGED <<dbfile, logfile, errors>>
  BY DEF ReadPage
<1>2. Types /\ Kept /\ Counted
  BY DEF IInv
<1>3. Types' /\ Kept' /\ Counted'
  BY <1>1, <1>2 DEF Types, Kept, Counted, InFile, dbfile, logfile
<1>4. AsWritten'
  <2> SUFFICES ASSUME ~bad, p \notin lost
               PROVE  IF written[p] # Zero THEN Read(p) = written[p]
                      ELSE Read(p) = Zero \/ (Read(p) = Untouched /\ p # Len(file))
    BY <1>1, Zenon DEF AsWritten, dbfile
  <2>1. IF written[p] # Zero THEN InFile(p) /\ file[p + 1] = written[p] ELSE InFile(p) => file[p + 1] = Zero
    BY <1>2 DEF Kept
  <2>2. /\ InFile(p) => Read(p) = file[p + 1]
        /\ ~InFile(p) => Read(p) = Zero \/ (Read(p) = Untouched /\ p # Len(file))
    BY <1>2, WhatIsRead
  <2> QED
    BY <2>1, <2>2
<1>5. LogKept' /\ LogReadsBack'
  BY <1>1, PageCallsKeep
<1> QED
  BY <1>3, <1>4, <1>5 DEF IInv

\* A call on the log leaves the database file alone.
LEMMA LogCallsKeep ==
    ASSUME IInv, UNCHANGED dbfile, Types', LogKept', LogReadsBack', call'.op # "ReadPage"
    PROVE  IInv'
<1>1. Kept' /\ Counted'
  BY DEF IInv, Kept, Counted, InFile, dbfile
<1>2. AsWritten'
  BY DEF AsWritten
<1> QED
  BY <1>1, <1>2 DEF IInv

\* A chunk of the log is a sequence of its bytes.
LEMMA ChunksAreSequences ==
    ASSUME NEW chunk \in LogChunks
    PROVE  chunk \in Seq(LogBytes) /\ Len(chunk) \in Nat
<1>1. PICK n \in 0..MaxChunk : chunk \in [1..n -> LogBytes]
  BY DEF LogChunks
<1>2. n \in Nat
  BY <1>1
<1> QED
  BY <1>1, <1>2

\* A sequence is a function of its places.
LEMMA SequenceIsFunction ==
    ASSUME NEW S, NEW s \in Seq(S), NEW n, n = Len(s)
    PROVE  s = [i \in 1..n |-> s[i]]
<1>1. DOMAIN s = 1..n /\ s \in [1..n -> S]
  OBVIOUS
<1> QED
  BY <1>1

\* The stream appends: a chunk is put behind what the log holds, wherever the cursor is.
LEMMA LogAppends ==
    ASSUME log \in Seq(LogBytes), NEW chunk \in Seq(LogBytes)
    PROVE  /\ LogWith(chunk) = log \o chunk
           /\ log \o chunk \in Seq(LogBytes)
           /\ Len(log \o chunk) = Len(log) + Len(chunk)
<1> DEFINE m == Len(log)
           k == Len(chunk)
           both == log \o chunk
<1>1. m \in Nat /\ k \in Nat
  OBVIOUS
<1>2. both \in Seq(LogBytes) /\ Len(both) = m + k /\ DOMAIN both = 1..(m + k)
  OBVIOUS
<1>3. \A i \in 1..(m + k) : both[i] = IF i <= m THEN log[i] ELSE chunk[i - m]
  OBVIOUS
<1>4. Larger(m, m + k) = m + k
  BY <1>1 DEF Larger
<1>5. LogWith(chunk) = [i \in 1..(m + k) |-> IF i \in (m + 1)..(m + k) THEN chunk[i - m] ELSE log[i]]
  BY <1>4 DEF LogWith, LogMode
<1>6. both = [i \in 1..(m + k) |-> both[i]]
  BY <1>2, SequenceIsFunction
<1> HIDE DEF both, m, k
<1>7. \A i \in 1..(m + k) : both[i] = IF i \in (m + 1)..(m + k) THEN chunk[i - m] ELSE log[i]
  BY <1>1, <1>3
<1>8. LogWith(chunk) = both
  BY <1>5, <1>6, <1>7
<1> QED
  BY <1>2, <1>8 DEF both, m, k

\* What a chunk that is appended leaves of the types.
LEMMA AppendKeeps ==
    ASSUME Types, LogKept, NEW chunk \in LogChunks, Len(log) + Len(chunk) <= MaxLog,
           log' = LogWith(chunk), log_position' = Len(log'), log_written' = log_written \o chunk
    PROVE  /\ log' \in Seq(LogBytes) /\ Len(log') <= MaxLog /\ log_position' \in 0..Len(log')
           /\ log_written' = log'
<1>1. log \in Seq(LogBytes) /\ chunk \in Seq(LogBytes)
  BY ChunksAreSequences DEF Types
<1>2. log' = log \o chunk /\ log' \in Seq(LogBytes) /\ Len(log') = Len(log) + Len(chunk)
  BY <1>1, LogAppends
<1>3. Len(log') \in Nat
  BY <1>2
<1> QED
  BY <1>2, <1>3 DEF LogKept

LEMMA WriteLogPreserves == IInv /\ WriteLog => IInv'
<1> SUFFICES ASSUME IInv, WriteLog PROVE IInv'
  OBVIOUS
<1>1. PICK b \in Buffers \ {buffer_used}, chunk \in LogChunks :
        /\ Len(log) + Len(chunk) <= MaxLog
        /\ buffer_used' = b
        /\ call' = [op |-> "WriteLog"]
        /\ log_written' = IF log_state = "bad" THEN log_written ELSE log_written \o chunk
        /\ IF chunk = <<>> THEN UNCHANGED <<log, log_position, flush_log_>>
           ELSE /\ flush_log_' = (log_state = "bad")
                /\ IF log_state = "good" THEN log' = LogWith(chunk) /\ log_position' = Len(log')
                   ELSE UNCHANGED <<log, log_position>>
        /\ UNCHANGED <<dbfile, log_state, errors>>
  BY DEF WriteLog
<1>2. Types /\ LogKept
  BY DEF IInv
<1>3. flush_log_' \in BOOLEAN
  BY <1>1, <1>2, Zenon DEF Types
<1>4. /\ log' \in Seq(LogBytes) /\ Len(log') <= MaxLog /\ log_position' \in 0..Len(log')
      /\ log_written' = log'
  <2>1. CASE UNCHANGED <<log, log_position>> /\ chunk = <<>>
    <3>1. log_written \o chunk = log_written
      BY <2>1, <1>2 DEF Types, LogKept
    <3> QED
      BY <2>1, <3>1, <1>1, <1>2 DEF Types, LogKept
  <2>2. CASE UNCHANGED <<log, log_position>> /\ log_state = "bad"
    BY <2>2, <1>1, <1>2 DEF Types, LogKept
  <2>3. CASE log_state = "good" /\ log' = LogWith(chunk) /\ log_position' = Len(log')
    BY <2>3, <1>1, <1>2, AppendKeeps
  <2> QED
    BY <2>1, <2>2, <2>3, <1>1, <1>2 DEF Types, LogKept
<1>5. Types'
  BY <1>1, <1>2, <1>3, <1>4 DEF Types, dbfile
<1>6. LogKept' /\ LogReadsBack'
  BY <1>1, <1>2, <1>4 DEF LogKept, LogReadsBack
<1> QED
  BY <1>1, <1>5, <1>6, LogCallsKeep

LEMMA WriteLogFailsPreserves == IInv /\ WriteLogFails => IInv'
<1> SUFFICES ASSUME IInv, WriteLogFails PROVE IInv'
  OBVIOUS
<1>1. PICK b \in Buffers \ {buffer_used}, chunk \in LogChunks :
        /\ log_state = "good" /\ errors < MaxErrors
        /\ Len(log) + Len(chunk) <= MaxLog
        /\ buffer_used' = b /\ flush_log_' \in BOOLEAN
        /\ log' = LogWith(chunk) /\ log_position' = Len(log') /\ log_written' = log_written \o chunk
        /\ log_state' = "bad" /\ errors' = errors + 1
        /\ call' = [op |-> "WriteLog"]
        /\ UNCHANGED dbfile
  BY DEF WriteLogFails
<1>2. Types /\ LogKept /\ MaxErrors \in Nat
  BY SizesAssumption DEF IInv
<1>3. errors' \in 0..MaxErrors
  <2>1. errors \in 0..MaxErrors /\ errors < MaxErrors /\ errors' = errors + 1
    BY <1>1, <1>2 DEF Types
  <2> QED
    BY <2>1, <1>2
<1>4. /\ log' \in Seq(LogBytes) /\ Len(log') <= MaxLog /\ log_position' \in 0..Len(log')
      /\ log_written' = log'
  BY <1>1, <1>2, AppendKeeps
<1>5. Types'
  BY <1>1, <1>2, <1>3, <1>4 DEF Types, dbfile
<1>6. LogKept' /\ LogReadsBack'
  BY <1>1, <1>4 DEF LogKept, LogReadsBack
<1> QED
  BY <1>1, <1>5, <1>6, LogCallsKeep

\* What is read of a log whose bytes an int counts.
LEMMA WhatIsFound ==
    ASSUME Types, log_state # "fail", NEW offset \in 0..MaxLog, NEW size \in 1..MaxChunk
    PROVE  /\ Found(offset) <=> offset < Len(log) /\ log_state # "bad"
           /\ Found(offset) => /\ ReadCount(offset, size) \in 0..size
                               /\ offset + ReadCount(offset, size) \in 0..Len(log)
                               /\ \A i \in 1..size : i <= ReadCount(offset, size) <=> offset + i <= Len(log)
<1>1. Len(log) \in Nat /\ Len(log) <= INT_MAX /\ offset \in Nat /\ size \in Nat
  BY SizesAssumption, LogAssumption DEF Types
<1>2. AsInt(Len(log)) = Len(log)
  BY <1>1, IntHolds
<1>3. Found(offset) <=> offset < Len(log) /\ log_state # "bad"
  BY <1>2 DEF Found
<1>4. ASSUME Found(offset)
      PROVE  /\ ReadCount(offset, size) \in 0..size
             /\ offset + ReadCount(offset, size) \in 0..Len(log)
             /\ \A i \in 1..size : i <= ReadCount(offset, size) <=> offset + i <= Len(log)
  <2>1. offset < Len(log)
    BY <1>3, <1>4
  <2>2. ReadCount(offset, size) = IF offset + size <= Len(log) THEN size ELSE Len(log) - offset
    BY DEF ReadCount
  <2> QED
    BY <1>1, <2>1, <2>2
<1> QED
  BY <1>3, <1>4

LEMMA ReadLogPreserves == IInv /\ ReadLog => IInv'
<1> SUFFICES ASSUME IInv, ReadLog PROVE IInv'
  OBVIOUS
<1>1. PICK offset \in 0..MaxLog, size \in 1..MaxChunk :
        /\ call' = [op |-> "ReadLog", offset |-> offset, size |-> size,
                    ret |-> Found(offset), data |-> LogData(offset, size)]
        /\ log_position' = IF Found(offset) /\ log_state = "good" THEN offset + ReadCount(offset, size)
                           ELSE log_position
        /\ log_state' = IF Found(offset) /\ ReadCount(offset, size) < size THEN Cleared("fail") ELSE log_state
        /\ UNCHANGED <<dbfile, log, log_written, buffer_used, flush_log_, errors>>
  BY DEF ReadLog
<1>2. Types /\ LogKept
  BY DEF IInv
<1>3. log_position' \in 0..Len(log)
  <2>1. log_position \in 0..Len(log)
    BY <1>2 DEF Types
  <2>2. Found(offset) => offset + ReadCount(offset, size) \in 0..Len(log)
    BY <1>2, WhatIsFound DEF LogKept
  <2> QED
    BY <2>1, <2>2, <1>1
<1>4. log_state' \in {"good", "bad"} /\ (log_state' = "bad" <=> log_state = "bad")
  BY <1>1, <1>2 DEF Types, LogKept, Cleared, Found
<1>5. Types'
  BY <1>1, <1>2, <1>3, <1>4 DEF Types, dbfile
<1>6. LogKept'
  BY <1>1, <1>2, <1>4 DEF LogKept
<1>7. LogReadsBack'
  <2> SUFFICES ASSUME log_state # "bad"
               PROVE  /\ Found(offset) <=> offset < Len(log)
                      /\ Found(offset) => \A i \in 1..size :
                           LogData(offset, size)[i] = IF offset + i <= Len(log) THEN log[offset + i] ELSE Zero
    BY <1>1, <1>2, <1>4 DEF LogReadsBack, LogKept
  <2>1. Found(offset) <=> offset < Len(log)
    BY <1>2, WhatIsFound DEF LogKept
  <2>2. ASSUME Found(offset), NEW i \in 1..size
        PROVE  LogData(offset, size)[i] = IF offset + i <= Len(log) THEN log[offset + i] ELSE Zero
    <3>1. LogData(offset, size)[i] = IF i <= ReadCount(offset, size) THEN log[offset + i] ELSE Zero
      BY <2>2 DEF LogData
    <3>2. i <= ReadCount(offset, size) <=> offset + i <= Len(log)
      BY <1>2, <2>2, WhatIsFound DEF LogKept
    <3> QED
      BY <3>1, <3>2
  <2> QED
    BY <2>1, <2>2
<1> QED
  BY <1>1, <1>5, <1>6, <1>7, LogCallsKeep

LEMMA RestartPreserves == IInv /\ Restart => IInv'
<1> SUFFICES ASSUME IInv, Restart PROVE IInv'
  OBVIOUS
<1>1. Types /\ Kept /\ Counted
  BY DEF IInv
<1>2. Kept' /\ Counted'
  BY <1>1 DEF Restart, Kept, Counted, InFile
<1>3. log_position' \in 0..Len(log)
  BY <1>1 DEF Restart, Types
<1>4. Types'
  BY <1>1, <1>3, Zenon DEF Restart, Types
<1>5. AsWritten'
  BY DEF Restart, AsWritten, NoCall
<1>6. LogKept' /\ LogReadsBack'
  BY DEF IInv, Restart, LogKept, LogReadsBack, NoCall
<1> QED
  BY <1>2, <1>4, <1>5, <1>6 DEF IInv

LEMMA Inductive == IInv /\ [Next]_vars => IInv'
<1> SUFFICES ASSUME IInv, [Next]_vars PROVE IInv'
  OBVIOUS
<1>1. CASE UNCHANGED vars
  BY <1>1 DEF IInv, Types, Kept, Counted, AsWritten, LogKept, LogReadsBack, InFile, vars
<1> QED
  BY <1>1, WritePagePreserves, WritePageFailsPreserves, ReadPagePreserves, WriteLogPreserves,
     WriteLogFailsPreserves, ReadLogPreserves, RestartPreserves DEF Next

LEMMA AlwaysIInv == Spec => []IInv
<1> QED
  BY InitHolds, Inductive, PTL DEF Spec

-----------------------------------------------------------------------------
(* The theorems.                                                           *)

\* A page reads back as what was last written to it and got to the file, after any number
\* of writes elsewhere, writes that grow the file, failures of the device and restarts; one
\* that was never written reads as zeros or leaves the buffer alone (ReadPage, WritePage).
THEOREM PagesReadBack == Spec => []ReadsBack
<1>1. IInv => ReadsBack
  <2> SUFFICES ASSUME IInv PROVE ReadsBack
    OBVIOUS
  <2>1. Types /\ AsWritten
    BY DEF IInv
  <2>2. \A i \in DOMAIN file : file[i] \in Contents \cup {Zero, Torn}
    BY <2>1 DEF Types, PageData
  <2>3. TypeOK
    BY <2>1, <2>2 DEF Types, TypeOK
  <2> QED
    BY <2>1, <2>3 DEF ReadsBack, AsWritten
<1> QED
  BY <1>1, AlwaysIInv, PTL

\* What ReadLog returns is what WriteLog was given to put there: no call overwrites what the
\* log holds, since the stream appends (the constructor's ios::app) wherever ReadLog has moved
\* its cursor, and none leaves the stream failed, since ReadLog clears it after a short read.
THEOREM LogReadBack == Spec => []LogReadsBack
<1>1. IInv => LogReadsBack
  BY DEF IInv
<1> QED
  BY <1>1, AlwaysIInv, PTL
=============================================================================
