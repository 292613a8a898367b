----------------------- MODULE BufferPoolManagerProofs -----------------------
(***************************************************************************)
(* Proofs about BufferPoolManager, for every pool size, number of pages    *)
(* and finite set of clients: its invariants, and that it implements       *)
(* PageStore.                                                              *)
(***************************************************************************)
EXTENDS BufferPoolManager, FiniteSetTheorems, TLAPS

(***************************************************************************)
(* The inductive invariant                                                 *)
(***************************************************************************)
(* Page ids that were not given out yet are used nowhere.                  *)
FreshPages ==
  \A p \in PageId : p >= next_page_id_ =>
    /\ page_table_[p] = NoFrame /\ disk[p] = 0
    /\ p \notin deleted /\ flush.before[p] = 0

(* A deleted page is not in the pool, and what a free frame remembers is a *)
(* deleted page: writing a free frame back, as NewPage and FetchPage do if *)
(* its stale dirty flag is set, harms no live page.                        *)
StaleFramesHarmless ==
  /\ \A p \in deleted : page_table_[p] = NoFrame
  /\ \A f \in free_list_ : \/ pages_[f].page_id_ \in deleted
                           \/ pages_[f].page_id_ = INVALID_PAGE_ID /\ ~pages_[f].is_dirty_
  /\ \A f \in free_list_ : pages_[f].data_ = 0

(* The disk is never ahead of the pool, and no copy is ahead of the writes.*)
CopiesOrdered ==
  \A p \in PageId :
    /\ disk[p] <= writes /\ flush.before[p] <= writes
    /\ page_table_[p] # NoFrame => /\ disk[p] <= pages_[page_table_[p]].data_
                                   /\ pages_[page_table_[p]].data_ <= writes

(* While FlushAllPages runs, each page it owes is on disk, or is in a      *)
(* frame still to be looked at, or is the page about to be flushed.        *)
FlushProgress ==
  flush.pc # "idle" =>
    \A p \in Live :
      \/ disk[p] >= flush.before[p]
      \/ /\ flush.pc # "done"
         /\ page_table_[p] # NoFrame
         /\ page_table_[p] >= flush.frame
         /\ pages_[page_table_[p]].data_ >= flush.before[p]
         /\ flush.pc = "flush" /\ page_table_[p] = flush.frame => flush.id = p

Inv ==
  /\ TypeOK /\ FramesAgree /\ PinsAgree /\ ReplacerAgrees /\ CleanPagesOnDisk
  /\ FreshPages /\ StaleFramesHarmless /\ CopiesOrdered /\ FlushProgress

(***************************************************************************)
(* Lemmas on pins                                                          *)
(***************************************************************************)
(* Any set of clients is finite, so that pin counts can be added to.       *)
LEMMA HoldersFinite ==
  ASSUME NEW f
  PROVE  IsFiniteSet(Holders(f)) /\ Cardinality(Holders(f)) \in Nat
<1>1. Holders(f) \subseteq Client
  BY DEF Holders
<1> QED
  BY <1>1, ClientAssumption, FS_Subset, FS_CardinalityType

(* A client that takes a pin (FetchPage, NewPage) is one more holder of    *)
(* the frame it gets, and of no other.                                     *)
LEMMA PinTaken ==
  ASSUME TypeOK, NEW c \in Client, NEW x \in Pin, pin[c] = NoPin,
         pin' = [pin EXCEPT ![c] = x], NEW f, f = x.frame
  PROVE  /\ Cardinality(Holders(f)') = Cardinality(Holders(f)) + 1
         /\ \A g \in Frame : g # f => Holders(g)' = Holders(g)
<1>1. x # NoPin
  BY NoPinAssumption
<1>2. Holders(f)' = Holders(f) \cup {c}
  BY <1>1 DEF Holders, TypeOK
<1>3. c \notin Holders(f)
  BY DEF Holders
<1>4. \A g \in Frame : g # f => Holders(g)' = Holders(g)
  BY <1>1 DEF Holders, TypeOK
<1> QED
  BY <1>2, <1>3, <1>4, HoldersFinite, FS_AddElement, Zenon

(* A client that gives up its pin (UnpinPage) is one holder less.          *)
LEMMA PinReleased ==
  ASSUME TypeOK, NEW c \in Client, pin[c] # NoPin, NEW f, f = pin[c].frame,
         pin' = [pin EXCEPT ![c] = NoPin]
  PROVE  /\ Cardinality(Holders(f)') = Cardinality(Holders(f)) - 1
         /\ \A g \in Frame : g # f => Holders(g)' = Holders(g)
<1>2. Holders(f)' = Holders(f) \ {c}
  BY DEF Holders, TypeOK
<1>3. c \in Holders(f)
  BY DEF Holders
<1>4. \A g \in Frame : g # f => Holders(g)' = Holders(g)
  BY DEF Holders, TypeOK
<1> QED
  BY <1>2, <1>3, <1>4, HoldersFinite, FS_RemoveElement, ZenonT(30)

(* An unpinned frame has no holder.                                        *)
LEMMA UnpinnedNotHeld ==
  ASSUME TypeOK, PinsAgree, NEW f \in Frame, pages_[f].pin_count_ = 0
  PROVE  \A c \in Client : pin[c] # NoPin => pin[c].frame # f
<1>1. Holders(f) = {}
  BY HoldersFinite, FS_EmptySet DEF PinsAgree
<1> QED
  BY <1>1 DEF Holders

THEOREM InitInv == Init => Inv
<1> SUFFICES ASSUME Init PROVE Inv
  OBVIOUS
<1>1. TypeOK
  BY BoundsAssumption DEF Init, TypeOK, R!Empty, Frame, PageId, Data, NoFrame, INVALID_PAGE_ID
<1>2. FramesAgree /\ ReplacerAgrees /\ CleanPagesOnDisk
  BY DEF Init, FramesAgree, ReplacerAgrees, CleanPagesOnDisk, R!Empty
<1>3. PinsAgree
  <2>1. \A f \in Frame : Holders(f) = {}
    BY DEF Init, Holders
  <2> QED
    BY <2>1, FS_EmptySet, Zenon DEF Init, PinsAgree, HoldersCanUnpin
<1>4. FreshPages /\ StaleFramesHarmless
  BY DEF Init, FreshPages, StaleFramesHarmless
<1>5. CopiesOrdered /\ FlushProgress
  BY DEF Init, CopiesOrdered, FlushProgress
<1> QED
  BY <1>1, <1>2, <1>3, <1>4, <1>5 DEF Inv

(***************************************************************************)
(* Putting a page into a frame                                             *)
(***************************************************************************)
(* Frame f is free or evictable, and page p is neither in the pool nor     *)
(* deleted: what NewPage and FetchPage know when they take a frame.        *)
MayTake(f, p) ==
  f \in Candidates /\ p \in PageId /\ page_table_[p] = NoFrame /\ p \notin deleted

(* What taking a frame relies on: the frame is unpinned, the page it gives *)
(* up is not p, and is in the pool only if the frame is not free; and the  *)
(* write-back leaves on disk what the frame had.                           *)
LEMMA TakeFrameFacts ==
  ASSUME Inv, NEW f, NEW p, MayTake(f, p), NEW old, old = pages_[f].page_id_
  PROVE  /\ f \in Frame /\ pages_[f].pin_count_ = 0
         /\ \A c \in Client : pin[c] # NoPin => pin[c].frame # f
         /\ old # p
         /\ \A q \in PageId : page_table_[q] = f <=> q = old /\ f \notin free_list_
         /\ \A q \in PageId : q # old => WrittenBack(f)[q] = disk[q]
         /\ old \in PageId => old < next_page_id_
         /\ old \in PageId /\ f \notin free_list_ =>
              /\ old \notin deleted
              /\ WrittenBack(f)[old] = pages_[f].data_
         /\ old \in PageId /\ f \in free_list_ => old \in deleted
         /\ WrittenBack(f) \in [PageId -> Data]
<1> USE DEF Inv, NoFrame, INVALID_PAGE_ID
<1>1. f \in Frame
  BY DEF MayTake, Candidates, TypeOK
<1>2. pages_[f].pin_count_ = 0
  <2>1. CASE f \in free_list_
    <3>1. ASSUME NEW c \in Client, pin[c] # NoPin, pin[c].frame = f
          PROVE  FALSE
      <4>1. pin[c].page \in PageId
        BY <3>1 DEF TypeOK, Pin
      <4>2. page_table_[pin[c].page] = f
        BY <3>1 DEF PinsAgree, HoldersCanUnpin
      <4> QED
        BY <4>1, <4>2, <2>1, <1>1 DEF FramesAgree, Frame
    <3>2. Holders(f) = {}
      BY <3>1 DEF Holders
    <3> QED
      BY <3>2, <1>1, FS_EmptySet DEF PinsAgree
  <2>2. CASE f \notin free_list_
    BY <2>2 DEF MayTake, Candidates, ReplacerAgrees
  <2> QED
    BY <2>1, <2>2
<1>3. \A c \in Client : pin[c] # NoPin => pin[c].frame # f
  BY <1>1, <1>2, UnpinnedNotHeld
<1>4. f # NoFrame
  BY <1>1 DEF Frame
<1>5. old \in PageId \cup {INVALID_PAGE_ID} /\ INVALID_PAGE_ID \notin PageId
  BY <1>1 DEF TypeOK, PageId
<1>6. old # p
  BY <1>1, <1>4, <1>5 DEF MayTake, FramesAgree, StaleFramesHarmless
<1>7. \A q \in PageId : page_table_[q] = f <=> q = old /\ f \notin free_list_
  BY <1>1, <1>4 DEF FramesAgree
<1>8. old \in PageId /\ f \in free_list_ => old \in deleted
  BY <1>5 DEF StaleFramesHarmless
<1>9. old \in PageId /\ f \notin free_list_ => old \notin deleted
  BY <1>4, <1>7 DEF StaleFramesHarmless
<1>10. pages_[f].is_dirty_ => old \in PageId
  <2>1. CASE f \in free_list_
    BY <2>1, <1>5 DEF StaleFramesHarmless, TypeOK
  <2>2. CASE f \notin free_list_
    BY <2>2, <1>1 DEF FramesAgree
  <2> QED
    BY <2>1, <2>2
<1>11. \A q \in PageId : q # old => WrittenBack(f)[q] = disk[q]
  BY DEF WrittenBack, TypeOK
<1>12. old \in PageId /\ f \notin free_list_ => WrittenBack(f)[old] = pages_[f].data_
  <2> SUFFICES ASSUME old \in PageId, f \notin free_list_
               PROVE  WrittenBack(f)[old] = pages_[f].data_
    OBVIOUS
  <2>1. page_table_[old] = f
    BY <1>7
  <2>2. \A c \in Client : pin[c] # NoPin => pin[c].page # old
    BY <2>1, <1>3 DEF PinsAgree, HoldersCanUnpin
  <2>3. CASE pages_[f].is_dirty_
    BY <2>3 DEF WrittenBack, TypeOK
  <2>4. CASE ~pages_[f].is_dirty_
    BY <2>1, <2>2, <2>4, <1>4 DEF WrittenBack, CleanPagesOnDisk
  <2> QED
    BY <2>3, <2>4
<1>13. WrittenBack(f) \in [PageId -> Data]
  BY <1>1, <1>10 DEF WrittenBack, TypeOK
<1>14. old \in PageId => old < next_page_id_
  <2> SUFFICES ASSUME old \in PageId, ~(old < next_page_id_) PROVE FALSE
    OBVIOUS
  <2>1. old >= next_page_id_
    BY DEF TypeOK, PageId
  <2> QED
    BY <2>1, <1>4, <1>7, <1>8 DEF FreshPages
<1> QED
  BY <1>1, <1>2, <1>3, <1>6, <1>7, <1>8, <1>9, <1>11, <1>12, <1>13, <1>14

(* A frame other than frame h, and not before it, comes after it, and so h  *)
(* is not the last frame of the pool: the step from one round of the loop of *)
(* FlushAllPgsImp to the next.                                               *)
LEMMA LaterFrame ==
  ASSUME NEW g \in Frame, NEW h \in Frame, g >= h, g # h
  PROVE  g >= h + 1 /\ h + 1 # pool_size_
BY BoundsAssumption DEF Frame

(* A copy that only grows and still misses a bound missed it before.       *)
LEMMA MissedBefore ==
  ASSUME NEW a \in Int, NEW b \in Int, NEW c \in Int, a >= b, ~(a >= c)
  PROVE  ~(b >= c)
OBVIOUS

(* The pages allocated so far are pages.                                   *)
LEMMA AllocatedPages ==
  ASSUME NEW n \in 0 .. MaxPages, NEW q \in 0 .. n - 1
  PROVE  q \in PageId /\ q < n
BY BoundsAssumption DEF PageId

(* Taking a frame preserves the invariant, for NewPage (p is the next page *)
(* id) and for FetchPage (p was allocated before).                         *)
LEMMA TakeFramePreserves ==
  ASSUME Inv, NEW c \in Client, NEW f, NEW p, MayTake(f, p), pin[c] = NoPin,
         TakeFrame(c, f, p, WrittenBack(f)[p]),
         next_page_id_' \in 0 .. MaxPages, next_page_id_' >= next_page_id_,
         p < next_page_id_',
         \A q \in PageId : q < next_page_id_' => q < next_page_id_ \/ q = p,
         UNCHANGED <<writes, deleted, flush>>
  PROVE  Inv'
<1> DEFINE old == pages_[f].page_id_
           x == [page |-> p, frame |-> f, wrote |-> FALSE]
<1> USE DEF NoFrame, INVALID_PAGE_ID
<1>inv. TypeOK /\ FramesAgree /\ PinsAgree /\ ReplacerAgrees /\ CleanPagesOnDisk
        /\ FreshPages /\ StaleFramesHarmless /\ CopiesOrdered /\ FlushProgress
  BY DEF Inv
<1>p. p \in PageId /\ page_table_[p] = NoFrame /\ p \notin deleted
  BY DEF MayTake
<1>f. /\ f \in Frame /\ pages_[f].pin_count_ = 0 /\ f # NoFrame
      /\ \A e \in Client : pin[e] # NoPin => pin[e].frame # f
      /\ old # p
      /\ \A q \in PageId : page_table_[q] = f <=> q = old /\ f \notin free_list_
      /\ \A q \in PageId : q # old => WrittenBack(f)[q] = disk[q]
      /\ old \in PageId => old < next_page_id_
      /\ old \in PageId /\ f \notin free_list_ =>
           old \notin deleted /\ WrittenBack(f)[old] = pages_[f].data_
      /\ old \in PageId /\ f \in free_list_ => old \in deleted
      /\ WrittenBack(f) \in [PageId -> Data]
  BY TakeFrameFacts DEF Frame
<1> HIDE DEF old
<1>pt. /\ page_table_' \in [PageId -> Frame \cup {NoFrame}]
       /\ page_table_'[p] = f
       /\ \A q \in PageId : q # p /\ q = old => page_table_'[q] = NoFrame
       /\ \A q \in PageId : q # p /\ q # old => page_table_'[q] = page_table_[q]
  BY <1>inv, <1>p, <1>f DEF TakeFrame, Unmapped, TypeOK, old
<1>away. \A q \in PageId : q # p => page_table_'[q] # f
  BY <1>f, <1>pt, <1>inv DEF TypeOK
<1>pg. /\ pages_' \in [Frame -> [page_id_ : PageId \cup {INVALID_PAGE_ID}, pin_count_ : Nat,
                                 is_dirty_ : BOOLEAN, data_ : Data]]
       /\ pages_'[f] = [page_id_ |-> p, pin_count_ |-> 1, is_dirty_ |-> FALSE,
                        data_ |-> WrittenBack(f)[p]]
       /\ \A g \in Frame : g # f => pages_'[g] = pages_[g]
  BY <1>inv, <1>p, <1>f DEF TakeFrame, TypeOK
<1>dk. disk' = WrittenBack(f) /\ free_list_' = free_list_ \ {f}
  BY DEF TakeFrame
<1>dp. disk'[p] = disk[p] /\ pages_'[f].data_ = disk[p]
  BY <1>dk, <1>f, <1>p, <1>pg
<1>x. x \in Pin /\ pin' = [pin EXCEPT ![c] = x] /\ x # NoPin
  <2>1. x \in Pin
    BY <1>p, <1>f DEF Pin
  <2>2. pin' = [pin EXCEPT ![c] = x]
    BY DEF TakeFrame
  <2> QED
    BY <2>1, <2>2, NoPinAssumption, Zenon
<1> HIDE DEF x
<1>xf. x.frame = f /\ x.page = p /\ x.wrote = FALSE
  BY DEF x
<1>pin. /\ pin'[c] = x
        /\ \A e \in Client : e # c => pin'[e] = pin[e]
  BY <1>x, <1>inv DEF TypeOK
<1>rep. /\ replacer'.tracked = replacer.tracked \cup {f}
        /\ replacer'.evictable = replacer.evictable \ {f}
        /\ replacer' \in [tracked : SUBSET Frame, evictable : SUBSET Frame]
  BY <1>inv, <1>f DEF TakeFrame, Accessed, R!SetEvictable, R!RecordAccess, R!Forget, TypeOK
<1>1. TypeOK'
  <2>1. pin' \in [Client -> Pin \cup {NoPin}]
    BY <1>inv, <1>x DEF TypeOK
  <2> QED
    BY <2>1, <1>inv, <1>pt, <1>pg, <1>dk, <1>f, <1>rep DEF TypeOK
<1>2. FramesAgree'
  <2>1. ASSUME NEW q \in PageId, page_table_'[q] # NoFrame
        PROVE  page_table_'[q] \notin free_list_' /\ pages_'[page_table_'[q]].page_id_ = q
    <3>1. CASE q = p
      BY <3>1, <1>pt, <1>pg, <1>dk
    <3>2. CASE q # p
      <4>1. page_table_'[q] = page_table_[q] /\ page_table_[q] # f /\ page_table_[q] \in Frame
        BY <3>2, <2>1, <1>pt, <1>away, <1>inv DEF TypeOK
      <4> QED
        BY <4>1, <2>1, <1>inv, <1>pg, <1>dk DEF FramesAgree
    <3> QED
      BY <3>1, <3>2
  <2>2. ASSUME NEW g \in Frame, g \notin free_list_'
        PROVE  pages_'[g].page_id_ \in PageId /\ page_table_'[pages_'[g].page_id_] = g
    <3>1. CASE g = f
      BY <3>1, <1>pg, <1>pt, <1>p, SMTT(40)
    <3>2. CASE g # f
      <4>1. /\ pages_'[g] = pages_[g]
            /\ pages_[g].page_id_ \in PageId /\ page_table_[pages_[g].page_id_] = g
        BY <3>2, <2>2, <1>pg, <1>dk, <1>inv, Zenon DEF FramesAgree
      <4>2. pages_[g].page_id_ # p
        BY <4>1, <1>p DEF Frame
      <4>3. pages_[g].page_id_ # old
        BY <4>1, <3>2, <1>f, <1>inv DEF StaleFramesHarmless, Frame
      <4> QED
        BY <4>1, <4>2, <4>3, <1>pt
    <3> QED
      BY <3>1, <3>2, Zenon
  <2> QED
    BY <2>1, <2>2 DEF FramesAgree
<1>3. PinsAgree'
  <2>1. HoldersCanUnpin'
    <3> SUFFICES ASSUME NEW e \in Client, pin'[e] # NoPin
                 PROVE  /\ page_table_'[pin'[e].page] = pin'[e].frame
                        /\ pages_'[pin'[e].frame].pin_count_ > 0
      BY DEF HoldersCanUnpin
    <3>1. CASE e = c
      BY <3>1, <1>pin, <1>xf, <1>pt, <1>pg
    <3>2. CASE e # c
      <4>1. /\ pin'[e] = pin[e] /\ pin[e].page \in PageId
            /\ pin[e].frame \in Frame /\ pin[e].frame # f
            /\ page_table_[pin[e].page] = pin[e].frame
            /\ pages_[pin[e].frame].pin_count_ > 0
        BY <3>2, <1>pin, <1>f, <1>inv, SMTT(40) DEF TypeOK, Pin, PinsAgree, HoldersCanUnpin
      <4>2. pin[e].page # p
        BY <4>1, <1>p, SMTT(40) DEF Frame
      <4>3. pin[e].page # old
        BY <4>1, <1>f, <1>inv DEF StaleFramesHarmless, Frame
      <4> QED
        BY <4>1, <4>2, <4>3, <1>pt, <1>pg, ZenonT(30)
    <3> QED
      BY <3>1, <3>2
  <2>2. \A g \in Frame : pages_'[g].pin_count_ = Cardinality(Holders(g)')
    <3>1. /\ Cardinality(Holders(f)') = Cardinality(Holders(f)) + 1
          /\ \A g \in Frame : g # f => Holders(g)' = Holders(g)
      BY PinTaken, <1>inv, <1>x, <1>xf, Zenon
    <3>2. Cardinality(Holders(f)) = 0
      BY <1>inv, <1>f DEF PinsAgree
    <3> QED
      BY <3>1, <3>2, <1>pg, <1>inv, SMTT(40) DEF PinsAgree
  <2> QED
    BY <2>1, <2>2 DEF PinsAgree
<1>4. ReplacerAgrees'
  BY <1>inv, <1>rep, <1>dk, <1>pg, <1>f, SMTT(40) DEF ReplacerAgrees
<1>5. CleanPagesOnDisk'
  <2> SUFFICES ASSUME NEW q \in PageId, page_table_'[q] # NoFrame,
                      ~pages_'[page_table_'[q]].is_dirty_,
                      \A e \in Client : pin'[e] # NoPin /\ pin'[e].page = q => ~pin'[e].wrote
               PROVE  disk'[q] = pages_'[page_table_'[q]].data_
    BY DEF CleanPagesOnDisk
  <2>1. CASE q = p
    BY <2>1, <1>pt, <1>dp
  <2>2. CASE q # p
    <3>1. /\ q # old /\ page_table_'[q] = page_table_[q] /\ page_table_[q] \in Frame
          /\ page_table_[q] # f
      BY <2>2, <1>pt, <1>away, <1>inv, Zenon DEF TypeOK
    <3>2. pages_'[page_table_'[q]] = pages_[page_table_[q]] /\ disk'[q] = disk[q]
      BY <3>1, <1>pg, <1>dk, <1>f, Zenon
    <3>3. ASSUME NEW e \in Client, pin[e] # NoPin, pin[e].page = q
          PROVE  ~pin[e].wrote
      <4>1. e # c
        BY <3>3
      <4> QED
        BY <4>1, <3>3, <1>pin, Zenon
    <3> QED
      BY <3>1, <3>2, <3>3, <1>inv, Zenon DEF CleanPagesOnDisk
  <2> QED
    BY <2>1, <2>2, Zenon
<1>6. FreshPages'
  <2> SUFFICES ASSUME NEW q \in PageId, q >= next_page_id_'
               PROVE  page_table_'[q] = NoFrame /\ disk'[q] = 0
                      /\ q \notin deleted /\ flush.before[q] = 0
    BY DEF FreshPages
  <2>1. q >= next_page_id_ /\ q # p /\ q # old
    BY <1>p, <1>f, <1>inv, SMTT(40) DEF TypeOK, PageId
  <2> QED
    BY <2>1, <1>inv, <1>pt, <1>dk, <1>f DEF FreshPages
<1>7. StaleFramesHarmless'
  <2>1. \A q \in deleted : page_table_'[q] = NoFrame
    BY <1>inv, <1>p, <1>pt DEF StaleFramesHarmless, TypeOK
  <2>2. \A g \in free_list_' : pages_'[g] = pages_[g]
    BY <1>inv, <1>pg, <1>dk DEF TypeOK
  <2> QED
    BY <2>1, <2>2, <1>inv, <1>dk, Zenon DEF StaleFramesHarmless
<1>8. CopiesOrdered'
  <2> SUFFICES ASSUME NEW q \in PageId
               PROVE  /\ disk'[q] <= writes /\ flush.before[q] <= writes
                      /\ page_table_'[q] # NoFrame =>
                           /\ disk'[q] <= pages_'[page_table_'[q]].data_
                           /\ pages_'[page_table_'[q]].data_ <= writes
    BY DEF CopiesOrdered
  <2>0. disk[q] \in Data /\ flush.before[q] <= writes /\ disk[q] <= writes
    BY <1>inv DEF TypeOK, CopiesOrdered
  <2>1. CASE q = p
    BY <2>0, <2>1, <1>pt, <1>dp, BoundsAssumption DEF Data
  <2>2. CASE q # p /\ q # old
    <3>1. disk'[q] = disk[q] /\ page_table_'[q] = page_table_[q]
      BY <2>2, <1>pt, <1>dk, <1>f, Zenon
    <3>2. page_table_[q] # NoFrame => pages_'[page_table_[q]] = pages_[page_table_[q]]
      BY <2>2, <3>1, <1>away, <1>pg, <1>inv, Zenon DEF TypeOK
    <3> QED
      BY <3>1, <3>2, <1>inv DEF CopiesOrdered
  <2>3. CASE q # p /\ q = old
    <3>1. page_table_'[q] = NoFrame
      BY <2>3, <1>pt, Zenon
    <3>2. disk'[q] = disk[q] \/ disk'[q] = pages_[f].data_
      BY <1>dk, <2>3, <1>inv, Zenon DEF WrittenBack, TypeOK, old
    <3>3. CASE f \notin free_list_
      BY <3>1, <3>2, <3>3, <2>0, <2>3, <1>f, <1>inv, Zenon DEF CopiesOrdered
    <3>4. CASE f \in free_list_
      BY <3>1, <3>2, <3>4, <2>0, <1>inv, SMTT(40) DEF StaleFramesHarmless, TypeOK
    <3> QED
      BY <3>3, <3>4, Zenon
  <2> QED
    BY <2>1, <2>2, <2>3
<1>9. FlushProgress'
  <2> SUFFICES ASSUME flush.pc # "idle", NEW q \in Live',
                      ~(disk'[q] >= flush.before[q])
               PROVE  /\ flush.pc # "done"
                      /\ page_table_'[q] # NoFrame
                      /\ page_table_'[q] >= flush.frame
                      /\ pages_'[page_table_'[q]].data_ >= flush.before[q]
                      /\ flush.pc = "flush" /\ page_table_'[q] = flush.frame => flush.id = q
    BY DEF FlushProgress
  <2>1. q \in PageId /\ q \notin deleted /\ (q \in Live \/ q = p)
    <3>1. q \in 0 .. next_page_id_' - 1 /\ q \notin deleted
      BY Zenon DEF Live, Allocated
    <3>2. q \in PageId /\ q < next_page_id_'
      BY <3>1, AllocatedPages, Zenon
    <3> QED
      BY <3>1, <3>2, <1>inv DEF Live, Allocated, PageId, TypeOK
  <2>2. q # p
    <3>1. CASE p \in Live
      BY <3>1, <1>inv, <1>p, <1>dp, Zenon DEF FlushProgress
    <3>2. CASE p \notin Live
      <4>1. p >= next_page_id_
        BY <3>2, <1>p, <1>inv DEF Live, Allocated, PageId, TypeOK
      <4> QED
        BY <4>1, <1>p, <1>dp, <1>inv DEF FreshPages
    <3> QED
      BY <3>1, <3>2
  <2>3. q # old
    <3> SUFFICES ASSUME q = old PROVE FALSE
      BY Zenon
    <3>1. f \notin free_list_ /\ page_table_[q] = f
      BY <2>1, <1>f, Zenon
    <3>2. disk'[q] = pages_[f].data_ /\ disk[q] <= pages_[f].data_
      BY <3>1, <2>1, <1>f, <1>dk, <1>inv, Zenon DEF CopiesOrdered
    <3>3. disk'[q] \in Int /\ disk[q] \in Int /\ flush.before[q] \in Int
      BY <2>1, <1>1, <1>inv, SMTT(40) DEF TypeOK, Data
    <3> QED
      BY <3>1, <3>2, <3>3, <2>1, <2>2, <1>inv, SMTT(40) DEF FlushProgress
  <2>4. disk'[q] = disk[q] /\ page_table_'[q] = page_table_[q]
    BY <2>1, <2>2, <2>3, <1>pt, <1>dk, <1>f, Zenon
  <2>5. page_table_[q] # NoFrame => pages_'[page_table_[q]] = pages_[page_table_[q]]
    BY <2>1, <2>2, <2>4, <1>away, <1>pg, <1>inv, Zenon DEF TypeOK
  <2> QED
    BY <2>1, <2>2, <2>4, <2>5, <1>inv DEF FlushProgress
<1> QED
  BY <1>1, <1>2, <1>3, <1>4, <1>5, <1>6, <1>7, <1>8, <1>9 DEF Inv

(* NewPage and FetchPage of a page that is not in the pool take a frame.   *)
LEMMA NewPgInv ==
  ASSUME Inv, NEW c \in Client, NewPgImp(c)
  PROVE  Inv'
<1>1. PICK f \in Candidates : TakeFrame(c, f, next_page_id_, 0)
  BY DEF NewPgImp
<1>2. next_page_id_ \in PageId /\ next_page_id_ >= next_page_id_
  BY BoundsAssumption DEF Inv, TypeOK, NewPgImp, PageId
<1>3. PICK p : p = next_page_id_
  OBVIOUS
<1>4. MayTake(f, p) /\ disk[p] = 0
  BY <1>2, <1>3 DEF Inv, FreshPages, MayTake
<1>5. WrittenBack(f)[p] = 0
  BY <1>4, TakeFrameFacts DEF MayTake
<1>6. TakeFrame(c, f, p, WrittenBack(f)[p])
  BY <1>1, <1>3, <1>5
<1>7. /\ next_page_id_' = next_page_id_ + 1 /\ next_page_id_ \in Int
      /\ next_page_id_' \in 0 .. MaxPages
  BY BoundsAssumption DEF Inv, TypeOK, NewPgImp
<1>8. next_page_id_' >= next_page_id_ /\ p < next_page_id_'
  BY <1>3, <1>7
<1>9. \A q \in PageId : q < next_page_id_' => q < next_page_id_ \/ q = p
  BY <1>3, <1>7 DEF PageId
<1> QED
  BY <1>4, <1>6, <1>7, <1>8, <1>9, TakeFramePreserves DEF NewPgImp

(* A live page may be fetched.                                             *)
LEMMA LivePages ==
  ASSUME Inv, NEW p \in Live
  PROVE  p \in PageId /\ p < next_page_id_ /\ p \notin deleted
BY AllocatedPages DEF Inv, TypeOK, Live, Allocated

LEMMA FetchMissInv ==
  ASSUME Inv, NEW c \in Client, NEW p \in Live, FetchMiss(c, p)
  PROVE  Inv'
<1>1. PICK f \in Candidates : TakeFrame(c, f, p, WrittenBack(f)[p])
  BY DEF FetchMiss
<1>2. MayTake(f, p) /\ p < next_page_id_
  BY LivePages DEF MayTake, FetchMiss
<1>3. next_page_id_' = next_page_id_ /\ next_page_id_ \in 0 .. MaxPages
  BY DEF FetchMiss, Inv, TypeOK
<1> QED
  BY <1>1, <1>2, <1>3, TakeFramePreserves DEF FetchMiss

(* FetchPage of a page in the pool adds a holder of its frame.             *)
LEMMA FetchHitInv ==
  ASSUME Inv, NEW c \in Client, NEW p \in Live, FetchHit(c, p)
  PROVE  Inv'
<1> USE DEF NoFrame, INVALID_PAGE_ID
<1>inv. TypeOK /\ FramesAgree /\ PinsAgree /\ ReplacerAgrees /\ CleanPagesOnDisk
        /\ FreshPages /\ StaleFramesHarmless /\ CopiesOrdered /\ FlushProgress
  BY DEF Inv
<1>p. p \in PageId
  BY LivePages
<1>f. PICK f \in Frame : f = page_table_[p]
  BY <1>p, <1>inv DEF FetchHit, TypeOK
<1>n. f \notin free_list_
  BY <1>f, <1>p, <1>inv DEF FramesAgree, Frame
<1>x. PICK x \in Pin : x = [page |-> p, frame |-> f, wrote |-> FALSE]
  BY <1>p, Zenon DEF Pin
<1>s. /\ pin[c] = NoPin /\ pin' = [pin EXCEPT ![c] = x]
      /\ pages_' = [pages_ EXCEPT ![f].pin_count_ = @ + 1]
      /\ replacer' = Accessed(replacer, f)
      /\ UNCHANGED <<page_table_, free_list_, next_page_id_, disk, writes, deleted, flush>>
  BY <1>f, <1>x DEF FetchHit
<1>pg. /\ pages_' \in [Frame -> [page_id_ : PageId \cup {INVALID_PAGE_ID}, pin_count_ : Nat,
                                 is_dirty_ : BOOLEAN, data_ : Data]]
       /\ pages_'[f].pin_count_ = pages_[f].pin_count_ + 1
       /\ \A g \in Frame : g # f => pages_'[g] = pages_[g]
       /\ \A g \in Frame : /\ pages_'[g].page_id_ = pages_[g].page_id_
                           /\ pages_'[g].is_dirty_ = pages_[g].is_dirty_
                           /\ pages_'[g].data_ = pages_[g].data_
  BY <1>s, <1>inv DEF TypeOK
<1>pin. /\ pin'[c] = x /\ x # NoPin
        /\ \A e \in Client : e # c => pin'[e] = pin[e]
  BY <1>s, <1>inv, NoPinAssumption DEF TypeOK
<1>rep. /\ replacer'.tracked = replacer.tracked \cup {f}
        /\ replacer'.evictable = replacer.evictable \ {f}
        /\ replacer' \in [tracked : SUBSET Frame, evictable : SUBSET Frame]
  BY <1>inv, <1>s, <1>n, Zenon DEF Accessed, R!SetEvictable, R!RecordAccess, TypeOK, ReplacerAgrees
<1>1. TypeOK'
  <2>1. pin' \in [Client -> Pin \cup {NoPin}]
    BY <1>inv, <1>s DEF TypeOK
  <2> QED
    BY <2>1, <1>inv, <1>s, <1>pg, <1>rep DEF TypeOK
<1>2. FramesAgree'
  BY <1>inv, <1>s, <1>pg DEF FramesAgree, TypeOK
<1>3. PinsAgree'
  <2>1. /\ Cardinality(Holders(f)') = Cardinality(Holders(f)) + 1
        /\ \A g \in Frame : g # f => Holders(g)' = Holders(g)
    BY PinTaken, <1>inv, <1>s, <1>x, Zenon
  <2>2. \A g \in Frame : pages_'[g].pin_count_ = Cardinality(Holders(g)')
    BY <2>1, <1>pg, <1>inv, Zenon DEF PinsAgree
  <2>3. \A g \in Frame : pages_[g].pin_count_ \in Nat
    BY <1>inv DEF TypeOK
  <2>4. \A e \in Client : pin[e] # NoPin => pin[e].frame \in Frame
    BY <1>inv DEF TypeOK, Pin
  <2>5. HoldersCanUnpin'
    BY <2>3, <2>4, <1>inv, <1>s, <1>pg, <1>pin, <1>x, <1>f DEF PinsAgree, HoldersCanUnpin
  <2> QED
    BY <2>2, <2>5 DEF PinsAgree
<1>4. ReplacerAgrees'
  <2>1. pages_[f].pin_count_ + 1 # 0
    BY <1>inv DEF TypeOK
  <2> QED
    BY <2>1, <1>inv, <1>s, <1>rep, <1>n, <1>pg DEF ReplacerAgrees
<1>5. CleanPagesOnDisk'
  <2> SUFFICES ASSUME NEW q \in PageId, page_table_[q] # NoFrame,
                      ~pages_'[page_table_[q]].is_dirty_,
                      \A e \in Client : pin'[e] # NoPin /\ pin'[e].page = q => ~pin'[e].wrote
               PROVE  disk[q] = pages_'[page_table_[q]].data_
    BY <1>s DEF CleanPagesOnDisk
  <2>1. page_table_[q] \in Frame
    BY <1>inv DEF TypeOK
  <2>2. \A e \in Client : pin[e] # NoPin /\ pin[e].page = q => ~pin[e].wrote
    BY <1>s, <1>pin
  <2> QED
    BY <2>1, <2>2, <1>pg, <1>inv DEF CleanPagesOnDisk
<1>6. FreshPages' /\ StaleFramesHarmless'
  BY <1>inv, <1>s, <1>pg DEF FreshPages, StaleFramesHarmless, TypeOK
<1>7. CopiesOrdered'
  BY <1>inv, <1>s, <1>pg DEF CopiesOrdered, TypeOK
<1>8. FlushProgress'
  <2>1. Live' = Live /\ \A q \in Live : q \in PageId
    BY <1>s, LivePages DEF Live, Allocated
  <2> QED
    BY <2>1, <1>inv, <1>s, <1>pg DEF FlushProgress, TypeOK
<1> QED
  BY <1>1, <1>2, <1>3, <1>4, <1>5, <1>6, <1>7, <1>8 DEF Inv

(* The page and the frame of a holder.                                     *)
LEMMA HolderFacts ==
  ASSUME Inv, NEW c \in Client, pin[c] # NoPin
  PROVE  /\ pin[c] \in Pin /\ pin[c].page \in PageId /\ pin[c].frame \in Frame
         /\ page_table_[pin[c].page] = pin[c].frame
         /\ pin[c].frame \notin free_list_
         /\ pages_[pin[c].frame].page_id_ = pin[c].page
         /\ pages_[pin[c].frame].pin_count_ > 0
         /\ \A q \in PageId : page_table_[q] = pin[c].frame => q = pin[c].page
<1>1. pin[c] \in Pin /\ pin[c].page \in PageId /\ pin[c].frame \in Frame
  BY DEF Inv, TypeOK, Pin
<1>2. /\ page_table_[pin[c].page] = pin[c].frame
      /\ pages_[pin[c].frame].pin_count_ > 0
  BY DEF Inv, PinsAgree, HoldersCanUnpin
<1>3. pin[c].frame # NoFrame
  BY <1>1 DEF Frame, NoFrame
<1> QED
  BY <1>1, <1>2, <1>3 DEF Inv, FramesAgree

(* A client that writes holds the page, so that no other page changes.     *)
LEMMA WriteDataInv ==
  ASSUME Inv, NEW c \in Client, WriteData(c)
  PROVE  Inv'
<1> USE DEF NoFrame, INVALID_PAGE_ID
<1>inv. TypeOK /\ FramesAgree /\ PinsAgree /\ ReplacerAgrees /\ CleanPagesOnDisk
        /\ FreshPages /\ StaleFramesHarmless /\ CopiesOrdered /\ FlushProgress
  BY DEF Inv
<1>0. pin[c] # NoPin
  BY DEF WriteData
<1>f. PICK f \in Frame, p \in PageId : f = pin[c].frame /\ p = pin[c].page
  BY <1>0, HolderFacts
<1>h. /\ pin[c] \in Pin /\ page_table_[p] = f /\ f \notin free_list_
      /\ \A q \in PageId : page_table_[q] = f => q = p
  BY <1>0, <1>f, HolderFacts
<1>s. /\ writes < MaxWrites /\ writes' = writes + 1
      /\ pages_' = [pages_ EXCEPT ![f].data_ = writes + 1]
      /\ pin' = [pin EXCEPT ![c].wrote = TRUE]
      /\ UNCHANGED <<page_table_, free_list_, replacer, next_page_id_, disk, deleted, flush>>
  BY <1>f DEF WriteData
<1>w. writes' \in Data /\ writes' \in 0 .. MaxWrites /\ writes \in Int
  BY <1>s, <1>inv, BoundsAssumption DEF TypeOK, Data
<1>pg. /\ pages_' \in [Frame -> [page_id_ : PageId \cup {INVALID_PAGE_ID}, pin_count_ : Nat,
                                 is_dirty_ : BOOLEAN, data_ : Data]]
       /\ pages_'[f].data_ = writes + 1
       /\ \A g \in Frame : g # f => pages_'[g] = pages_[g]
       /\ \A g \in Frame : /\ pages_'[g].page_id_ = pages_[g].page_id_
                           /\ pages_'[g].is_dirty_ = pages_[g].is_dirty_
                           /\ pages_'[g].pin_count_ = pages_[g].pin_count_
  BY <1>s, <1>w, <1>inv DEF TypeOK
<1>pin. /\ pin'[c] \in Pin /\ pin'[c] # NoPin
        /\ pin'[c].page = p /\ pin'[c].frame = f /\ pin'[c].wrote = TRUE
        /\ \A e \in Client : e # c => pin'[e] = pin[e]
        /\ pin' \in [Client -> Pin \cup {NoPin}]
  <2>1. pin'[c] = [pin[c] EXCEPT !.wrote = TRUE] /\ \A e \in Client : e # c => pin'[e] = pin[e]
    BY <1>s, <1>inv DEF TypeOK
  <2>2. pin'[c] \in Pin
    BY <2>1, <1>h, Zenon DEF Pin
  <2> QED
    BY <2>1, <2>2, <1>f, <1>h, <1>s, <1>inv, NoPinAssumption, Zenon DEF TypeOK, Pin
<1>1. TypeOK'
  BY <1>inv, <1>s, <1>w, <1>pg, <1>pin DEF TypeOK
<1>2. FramesAgree' /\ ReplacerAgrees'
  BY <1>inv, <1>s, <1>pg DEF FramesAgree, ReplacerAgrees, TypeOK
<1>3. PinsAgree'
  <2>1. \A g \in Frame : Holders(g)' = Holders(g)
    BY <1>0, <1>f, <1>pin, ZenonT(30) DEF Holders
  <2>2. HoldersCanUnpin'
    BY <1>0, <1>f, <1>pin, <1>pg, <1>s, <1>inv, SMTT(40) DEF PinsAgree, HoldersCanUnpin, TypeOK, Pin
  <2> QED
    BY <2>1, <2>2, <1>pg, <1>inv DEF PinsAgree
<1>4. CleanPagesOnDisk'
  <2> SUFFICES ASSUME NEW q \in PageId, page_table_[q] # NoFrame,
                      ~pages_'[page_table_[q]].is_dirty_,
                      \A e \in Client : pin'[e] # NoPin /\ pin'[e].page = q => ~pin'[e].wrote
               PROVE  disk[q] = pages_'[page_table_[q]].data_
    BY <1>s DEF CleanPagesOnDisk
  <2>1. page_table_[q] \in Frame /\ q # p
    BY <1>inv, <1>pin DEF TypeOK
  <2>2. page_table_[q] # f /\ pages_'[page_table_[q]] = pages_[page_table_[q]]
    BY <2>1, <1>h, <1>pg, Zenon
  <2>3. \A e \in Client : pin[e] # NoPin /\ pin[e].page = q => ~pin[e].wrote
    BY <2>1, <1>f, <1>pin, Zenon
  <2> QED
    BY <2>1, <2>2, <2>3, <1>inv, Zenon DEF CleanPagesOnDisk
<1>5. FreshPages' /\ StaleFramesHarmless'
  BY <1>inv, <1>s, <1>pg, <1>h, SMTT(40) DEF FreshPages, StaleFramesHarmless, TypeOK
<1>6. CopiesOrdered'
  <2> SUFFICES ASSUME NEW q \in PageId
               PROVE  /\ disk[q] <= writes' /\ flush.before[q] <= writes'
                      /\ page_table_[q] # NoFrame =>
                           /\ disk[q] <= pages_'[page_table_[q]].data_
                           /\ pages_'[page_table_[q]].data_ <= writes'
    BY <1>s DEF CopiesOrdered
  <2>1. /\ disk[q] \in Int /\ flush.before[q] \in Int
        /\ disk[q] <= writes /\ flush.before[q] <= writes
    BY <1>inv DEF CopiesOrdered, TypeOK, Data
  <2>2. CASE page_table_[q] = f
    BY <2>1, <2>2, <1>s, <1>w, <1>pg
  <2>3. CASE page_table_[q] # f /\ page_table_[q] # NoFrame
    <3>1. page_table_[q] \in Frame /\ pages_'[page_table_[q]] = pages_[page_table_[q]]
      BY <2>3, <1>inv, <1>pg, Zenon DEF TypeOK
    <3>2. pages_[page_table_[q]].data_ \in Int
      BY <3>1, <1>inv, SMTT(40) DEF TypeOK, Data
    <3> QED
      BY <2>1, <2>3, <3>1, <3>2, <1>s, <1>w, <1>inv, SMTT(40) DEF CopiesOrdered
  <2>4. CASE page_table_[q] = NoFrame
    BY <2>1, <2>4, <1>s, <1>w
  <2> QED
    BY <2>2, <2>3, <2>4, Zenon
<1>7. FlushProgress'
  <2>1. Live' = Live
    BY <1>s DEF Live, Allocated
  <2>2. ASSUME NEW q \in Live, page_table_[q] # NoFrame,
               pages_[page_table_[q]].data_ >= flush.before[q]
        PROVE  pages_'[page_table_[q]].data_ >= flush.before[q]
    <3>1. page_table_[q] \in Frame /\ flush.before[q] \in Int /\ flush.before[q] <= writes
      BY <2>2, LivePages, <1>inv DEF TypeOK, Data, CopiesOrdered
    <3> QED
      BY <3>1, <2>2, <1>pg, <1>w
  <2> QED
    BY <2>1, <2>2, <1>s, <1>inv DEF FlushProgress
<1> QED
  BY <1>1, <1>2, <1>3, <1>4, <1>5, <1>6, <1>7 DEF Inv

(* UnpinPage by a holder succeeds; the frame becomes evictable with its    *)
(* last holder, and dirty if a holder wrote.                               *)
LEMMA UnpinInv ==
  ASSUME Inv, NEW c \in Client, NEW is_dirty \in BOOLEAN, UnpinPgImp(c, is_dirty)
  PROVE  Inv'
<1> USE DEF NoFrame, INVALID_PAGE_ID
<1>inv. TypeOK /\ FramesAgree /\ PinsAgree /\ ReplacerAgrees /\ CleanPagesOnDisk
        /\ FreshPages /\ StaleFramesHarmless /\ CopiesOrdered /\ FlushProgress
  BY Zenon DEF Inv
<1>0. pin[c] # NoPin
  BY Zenon DEF UnpinPgImp
<1>f. PICK f \in Frame, p \in PageId : f = pin[c].frame /\ p = pin[c].page
  BY <1>0, HolderFacts, Zenon
<1>h. /\ page_table_[p] = f /\ f \notin free_list_ /\ f # NoFrame
      /\ pages_[f].pin_count_ > 0 /\ pages_[f].pin_count_ \in Nat
      /\ \A q \in PageId : page_table_[q] = f => q = p
  BY <1>0, <1>f, <1>inv, HolderFacts, SMTT(40) DEF Frame, TypeOK
<1>ok. CanUnpin(p)
  BY <1>h DEF CanUnpin
<1>s. /\ pin[c].wrote => is_dirty
      /\ pin' = [pin EXCEPT ![c] = NoPin]
      /\ pages_' = [pages_ EXCEPT ![f].pin_count_ = @ - 1, ![f].is_dirty_ = @ \/ is_dirty]
      /\ replacer' = IF pages_[f].pin_count_ = 1
                     THEN R!SetEvictable(replacer, f, TRUE) ELSE replacer
      /\ UNCHANGED <<page_table_, free_list_, next_page_id_, disk, writes, deleted, flush>>
  BY <1>f, <1>h, <1>ok, Zenon DEF UnpinPgImp
<1>pg. /\ pages_' \in [Frame -> [page_id_ : PageId \cup {INVALID_PAGE_ID}, pin_count_ : Nat,
                                 is_dirty_ : BOOLEAN, data_ : Data]]
       /\ pages_'[f].pin_count_ = pages_[f].pin_count_ - 1
       /\ pages_'[f].is_dirty_ = (pages_[f].is_dirty_ \/ is_dirty)
       /\ \A g \in Frame : g # f => pages_'[g] = pages_[g]
       /\ \A g \in Frame : /\ pages_'[g].page_id_ = pages_[g].page_id_
                           /\ pages_'[g].data_ = pages_[g].data_
  <2>1. PICK b \in BOOLEAN : b = (pages_[f].is_dirty_ \/ is_dirty)
    BY Zenon
  <2>2. pages_' = [pages_ EXCEPT ![f].pin_count_ = @ - 1, ![f].is_dirty_ = b]
    BY <1>s, <2>1
  <2>3. pages_[f] \in [page_id_ : PageId \cup {INVALID_PAGE_ID}, pin_count_ : Nat,
                       is_dirty_ : BOOLEAN, data_ : Data]
    BY <1>inv DEF TypeOK
  <2>4. PICK n \in Nat : n = pages_[f].pin_count_ - 1
    BY <1>h
  <2>5. \A g \in Frame : g # f => pages_'[g] = pages_[g]
    BY <2>2, <1>inv DEF TypeOK
  <2>6. pages_'[f] = [page_id_ |-> pages_[f].page_id_, pin_count_ |-> n,
                      is_dirty_ |-> b, data_ |-> pages_[f].data_]
    BY <2>2, <2>3, <2>4, <1>inv, Zenon DEF TypeOK
  <2>7. pages_'[f] \in [page_id_ : PageId \cup {INVALID_PAGE_ID}, pin_count_ : Nat,
                        is_dirty_ : BOOLEAN, data_ : Data]
    BY <2>3, <2>6
  <2>8. pages_' = [g \in Frame |-> pages_'[g]]
    BY <2>2, <1>inv, Zenon DEF TypeOK
  <2>9. pages_' \in [Frame -> [page_id_ : PageId \cup {INVALID_PAGE_ID}, pin_count_ : Nat,
                               is_dirty_ : BOOLEAN, data_ : Data]]
    BY <2>5, <2>7, <2>8, <1>inv DEF TypeOK
  <2>10. /\ pages_'[f].pin_count_ = n /\ pages_'[f].is_dirty_ = b
         /\ pages_'[f].page_id_ = pages_[f].page_id_ /\ pages_'[f].data_ = pages_[f].data_
    BY <2>6
  <2> QED
    BY <2>1, <2>4, <2>5, <2>6, <2>9, <2>10, Zenon
<1>pin. /\ pin'[c] = NoPin
        /\ \A e \in Client : e # c => pin'[e] = pin[e]
        /\ pin' \in [Client -> Pin \cup {NoPin}]
  BY <1>s, <1>inv DEF TypeOK
<1>rep. /\ replacer'.tracked = replacer.tracked
        /\ replacer'.evictable = IF pages_[f].pin_count_ = 1
                                 THEN replacer.evictable \cup {f} ELSE replacer.evictable
        /\ replacer' \in [tracked : SUBSET Frame, evictable : SUBSET Frame]
  BY <1>inv, <1>s, <1>h, Zenon DEF R!SetEvictable, TypeOK, ReplacerAgrees
<1>1. TypeOK'
  BY <1>inv, <1>s, <1>pg, <1>pin, <1>rep, Zenon DEF TypeOK
<1>2. FramesAgree'
  BY <1>inv, <1>s, <1>pg, SMTT(40) DEF FramesAgree, TypeOK
<1>3. PinsAgree'
  <2>1. /\ Cardinality(Holders(f)') = Cardinality(Holders(f)) - 1
        /\ \A g \in Frame : g # f => Holders(g)' = Holders(g)
    BY PinReleased, <1>0, <1>f, <1>inv, <1>s, Zenon
  <2>2. \A g \in Frame : pages_'[g].pin_count_ = Cardinality(Holders(g)')
    BY <2>1, <1>pg, <1>inv, Zenon DEF PinsAgree
  <2>3. ASSUME NEW e \in Client, pin'[e] # NoPin
        PROVE  page_table_[pin'[e].page] = pin'[e].frame /\ pages_'[pin'[e].frame].pin_count_ > 0
    <3>1. e # c /\ pin'[e] = pin[e] /\ pin[e].frame \in Frame
      BY <2>3, <1>pin, <1>inv, Zenon DEF TypeOK, Pin
    <3>2. page_table_[pin[e].page] = pin[e].frame
      BY <2>3, <3>1, <1>inv, Zenon DEF PinsAgree, HoldersCanUnpin
    <3>3. PICK g \in Frame : g = pin[e].frame
      BY <3>1
    <3>4. e \in Holders(g)'
      BY <2>3, <3>1, <3>3 DEF Holders
    <3>5. IsFiniteSet(Holders(g)') /\ Cardinality(Holders(g)') \in Nat
      <4>1. Holders(g)' \subseteq Client
        BY DEF Holders
      <4> QED
        BY <4>1, ClientAssumption, FS_Subset, FS_CardinalityType
    <3>6. Cardinality(Holders(g)') # 0
      BY <3>4, <3>5, FS_EmptySet
    <3> QED
      BY <3>1, <3>2, <3>3, <3>5, <3>6, <2>2, SMTT(40)
  <2> QED
    BY <2>2, <2>3, <1>s, Zenon DEF PinsAgree, HoldersCanUnpin
<1>4. ReplacerAgrees'
  <2>1. replacer'.tracked = Frame \ free_list_'
    BY <1>inv, <1>s, <1>rep, Zenon DEF ReplacerAgrees
  <2>2. replacer'.evictable = {g \in Frame \ free_list_ : pages_'[g].pin_count_ = 0}
    BY <1>inv, <1>rep, <1>pg, <1>h, SMTT(40) DEF ReplacerAgrees
  <2> QED
    BY <2>1, <2>2, <1>s DEF ReplacerAgrees
<1>5. CleanPagesOnDisk'
  <2> SUFFICES ASSUME NEW q \in PageId, page_table_[q] # NoFrame,
                      ~pages_'[page_table_[q]].is_dirty_,
                      \A e \in Client : pin'[e] # NoPin /\ pin'[e].page = q => ~pin'[e].wrote
               PROVE  disk[q] = pages_'[page_table_[q]].data_
    BY <1>s, Zenon DEF CleanPagesOnDisk
  <2>1. page_table_[q] \in Frame
    BY <1>inv DEF TypeOK
  <2>2. ~pages_[page_table_[q]].is_dirty_ /\ (q = p => ~is_dirty)
    BY <2>1, <1>pg, <1>h
  <2>3. ASSUME NEW e \in Client, pin[e] # NoPin, pin[e].page = q
        PROVE  ~pin[e].wrote
    BY <2>2, <2>3, <1>f, <1>s, <1>pin, Zenon
  <2> QED
    BY <2>1, <2>2, <2>3, <1>pg, <1>inv, Zenon DEF CleanPagesOnDisk
<1>6. FreshPages' /\ StaleFramesHarmless'
  BY <1>inv, <1>s, <1>pg, <1>h, SMTT(40) DEF FreshPages, StaleFramesHarmless, TypeOK
<1>7. CopiesOrdered'
  BY <1>inv, <1>s, <1>pg DEF CopiesOrdered, TypeOK
<1>8. FlushProgress'
  <2>1. Live' = Live /\ \A q \in Live : q \in PageId
    BY <1>s, LivePages, Zenon DEF Live, Allocated
  <2> QED
    BY <2>1, <1>inv, <1>s, <1>pg DEF FlushProgress, TypeOK
<1> QED
  BY <1>1, <1>2, <1>3, <1>4, <1>5, <1>6, <1>7, <1>8 DEF Inv

(***************************************************************************)
(* Flushing                                                                *)
(***************************************************************************)
(* A flush only brings the disk up to date and clears a dirty flag.        *)
LEMMA FlushFacts ==
  ASSUME Inv, NEW p \in PageId \cup {INVALID_PAGE_ID}, Flush(p),
         UNCHANGED <<page_table_, free_list_, replacer, next_page_id_, pin, writes, deleted>>,
         flush'.before = flush.before
  PROVE  /\ pages_' \in [Frame -> [page_id_ : PageId \cup {INVALID_PAGE_ID}, pin_count_ : Nat,
                                   is_dirty_ : BOOLEAN, data_ : Data]]
         /\ disk' \in [PageId -> Data]
         /\ \A q \in PageId : disk'[q] >= disk[q]
         /\ p \in PageId /\ page_table_[p] # NoFrame => disk'[p] = pages_[page_table_[p]].data_
         /\ \A q \in PageId : q # p \/ page_table_[q] = NoFrame => disk'[q] = disk[q]
         /\ \A g \in Frame : /\ pages_'[g].data_ = pages_[g].data_
                             /\ pages_'[g].page_id_ = pages_[g].page_id_
         /\ FramesAgree' /\ PinsAgree' /\ ReplacerAgrees' /\ CleanPagesOnDisk'
         /\ FreshPages' /\ StaleFramesHarmless' /\ CopiesOrdered'
<1> USE DEF NoFrame, INVALID_PAGE_ID
<1>inv. TypeOK /\ FramesAgree /\ PinsAgree /\ ReplacerAgrees /\ CleanPagesOnDisk
        /\ FreshPages /\ StaleFramesHarmless /\ CopiesOrdered
  BY Zenon DEF Inv
<1>0. INVALID_PAGE_ID \notin PageId
  BY DEF PageId
<1>pg. /\ pages_' \in [Frame -> [page_id_ : PageId \cup {INVALID_PAGE_ID}, pin_count_ : Nat,
                                 is_dirty_ : BOOLEAN, data_ : Data]]
       /\ \A g \in Frame : /\ pages_'[g].data_ = pages_[g].data_
                           /\ pages_'[g].page_id_ = pages_[g].page_id_
                           /\ pages_'[g].pin_count_ = pages_[g].pin_count_
                           /\ ~pages_[g].is_dirty_ => ~pages_'[g].is_dirty_
       /\ \A g \in Frame : p \in PageId /\ page_table_[p] # g => pages_'[g] = pages_[g]
       /\ p \notin PageId => pages_' = pages_
  <2>1. CASE p \in PageId /\ page_table_[p] # NoFrame
    <3>1. PICK f \in Frame : f = page_table_[p]
      BY <2>1, <1>inv, Zenon DEF TypeOK
    <3>2. pages_' = [pages_ EXCEPT ![f].is_dirty_ = FALSE]
      BY <2>1, <3>1, <1>0 DEF Flush
    <3>3. \A g \in Frame : g # f => pages_'[g] = pages_[g]
      BY <3>2, <1>inv DEF TypeOK
    <3>4. pages_'[f] = [pages_[f] EXCEPT !.is_dirty_ = FALSE]
      BY <3>2, <1>inv DEF TypeOK
    <3>5. pages_' \in [Frame -> [page_id_ : PageId \cup {INVALID_PAGE_ID}, pin_count_ : Nat,
                                 is_dirty_ : BOOLEAN, data_ : Data]]
      <4>1. PICK b \in BOOLEAN : b = FALSE
        BY Zenon
      <4>2. pages_' = [pages_ EXCEPT ![f].is_dirty_ = b]
        BY <4>1, <3>2, Zenon
      <4> QED
        BY <4>2, <1>inv DEF TypeOK
    <3>6. ~pages_'[f].is_dirty_
      BY <3>4, <1>inv DEF TypeOK
    <3>7. /\ pages_'[f].data_ = pages_[f].data_ /\ pages_'[f].page_id_ = pages_[f].page_id_
          /\ pages_'[f].pin_count_ = pages_[f].pin_count_
      BY <3>4, <1>inv DEF TypeOK
    <3> QED
      BY <2>1, <3>1, <3>3, <3>5, <3>6, <3>7, Zenon
  <2>2. CASE ~(p \in PageId /\ page_table_[p] # NoFrame)
    BY <2>2, <1>0, <1>inv DEF Flush, TypeOK
  <2> QED
    BY <2>1, <2>2, Zenon
<1>dk. /\ disk' \in [PageId -> Data]
       /\ p \in PageId /\ page_table_[p] # NoFrame => disk'[p] = pages_[page_table_[p]].data_
       /\ \A q \in PageId : q # p \/ page_table_[q] = NoFrame => disk'[q] = disk[q]
  BY <1>0, <1>inv DEF Flush, TypeOK
<1>int. /\ \A q \in PageId : disk[q] \in Int /\ disk'[q] \in Int
        /\ \A g \in Frame : pages_[g].data_ \in Int
  BY <1>dk, <1>inv, SMTT(40) DEF TypeOK, Data
<1>ge. \A q \in PageId : disk'[q] >= disk[q]
  BY <1>dk, <1>int, <1>inv, SMTT(40) DEF CopiesOrdered, TypeOK
<1>1. FramesAgree' /\ ReplacerAgrees' /\ FreshPages'
  BY <1>inv, <1>pg, <1>dk, SMTT(40) DEF FramesAgree, ReplacerAgrees, FreshPages, TypeOK
<1>2. StaleFramesHarmless'
  BY <1>inv, <1>pg, <1>dk, Zenon DEF StaleFramesHarmless, TypeOK
<1>3. PinsAgree'
  <2>1. \A g \in Frame : Holders(g)' = Holders(g)
    BY DEF Holders
  <2>2. \A e \in Client : pin[e] # NoPin => pin[e].frame \in Frame
    BY <1>inv DEF TypeOK, Pin
  <2> QED
    BY <2>1, <2>2, <1>pg, <1>inv, Zenon DEF PinsAgree, HoldersCanUnpin
<1>4. CleanPagesOnDisk'
  <2> SUFFICES ASSUME NEW q \in PageId, page_table_[q] # NoFrame,
                      ~pages_'[page_table_[q]].is_dirty_,
                      \A e \in Client : pin[e] # NoPin /\ pin[e].page = q => ~pin[e].wrote
               PROVE  disk'[q] = pages_'[page_table_[q]].data_
    BY DEF CleanPagesOnDisk
  <2>1. page_table_[q] \in Frame
    BY <1>inv, Zenon DEF TypeOK
  <2>2. CASE q = p
    BY <2>1, <2>2, <1>pg, <1>dk, Zenon
  <2>3. CASE q # p
    <3>1. p \in PageId => page_table_[p] # page_table_[q]
      BY <2>1, <2>3, <1>inv, ZenonT(30) DEF FramesAgree, Frame
    <3> QED
      BY <2>1, <2>3, <3>1, <1>pg, <1>dk, <1>inv, Zenon DEF CleanPagesOnDisk
  <2> QED
    BY <2>2, <2>3
<1>5. CopiesOrdered'
  <2> SUFFICES ASSUME NEW q \in PageId
               PROVE  /\ disk'[q] <= writes /\ flush.before[q] <= writes
                      /\ page_table_[q] # NoFrame =>
                           /\ disk'[q] <= pages_'[page_table_[q]].data_
                           /\ pages_'[page_table_[q]].data_ <= writes
    BY Zenon DEF CopiesOrdered
  <2>1. CASE page_table_[q] = NoFrame
    BY <2>1, <1>dk, <1>inv, Zenon DEF CopiesOrdered
  <2>2. CASE page_table_[q] # NoFrame
    <3>1. page_table_[q] \in Frame
      BY <2>2, <1>inv, Zenon DEF TypeOK
    <3> QED
      BY <2>2, <3>1, <1>pg, <1>dk, <1>int, <1>inv, SMTT(40) DEF CopiesOrdered
  <2> QED
    BY <2>1, <2>2, Zenon
<1> QED
  BY <1>pg, <1>dk, <1>ge, <1>1, <1>2, <1>3, <1>4, <1>5, Zenon

LEMMA FlushPgInv ==
  ASSUME Inv, NEW p \in Live, FlushPgImp(p)
  PROVE  Inv'
<1>1. /\ p \in PageId /\ Flush(p)
      /\ UNCHANGED <<page_table_, free_list_, replacer, next_page_id_, pin, writes, deleted>>
      /\ flush' = flush
  BY LivePages, Zenon DEF FlushPgImp
<1>2. TypeOK'
  BY <1>1, FlushFacts, Zenon DEF Inv, TypeOK
<1>3. FlushProgress'
  <2>1. Live' = Live
    BY <1>1, Zenon DEF Live, Allocated
  <2>2. ASSUME NEW q \in Live
        PROVE  /\ disk'[q] >= disk[q]
               /\ disk'[q] \in Int /\ disk[q] \in Int /\ flush.before[q] \in Int
               /\ page_table_[q] # NoFrame =>
                    pages_'[page_table_[q]].data_ = pages_[page_table_[q]].data_
    <3>1. q \in PageId
      BY LivePages, Zenon
    <3> QED
      BY <3>1, <1>1, <1>2, FlushFacts, SMTT(40) DEF Inv, TypeOK, Data
  <2>3. ASSUME flush.pc # "idle", NEW q \in Live, ~(disk'[q] >= flush.before[q])
        PROVE  /\ flush.pc # "done"
               /\ page_table_[q] # NoFrame
               /\ page_table_[q] >= flush.frame
               /\ pages_'[page_table_[q]].data_ >= flush.before[q]
               /\ flush.pc = "flush" /\ page_table_[q] = flush.frame => flush.id = q
    <3>1. ~(disk[q] >= flush.before[q])
      BY <2>2, <2>3
    <3>2. /\ flush.pc # "done"
          /\ page_table_[q] # NoFrame
          /\ page_table_[q] >= flush.frame
          /\ pages_[page_table_[q]].data_ >= flush.before[q]
          /\ flush.pc = "flush" /\ page_table_[q] = flush.frame => flush.id = q
      BY <2>3, <3>1 DEF Inv, FlushProgress
    <3> QED
      BY <2>2, <3>2, Zenon
  <2> QED
    BY <2>1, <2>3, <1>1, Zenon DEF FlushProgress
<1> QED
  BY <1>1, <1>2, <1>3, FlushFacts, Zenon DEF Inv

(* The steps of FlushAllPages that leave the pool alone need only keep     *)
(* what the invariant says of flush.                                       *)
LEMMA OnlyFlushChanges ==
  ASSUME Inv, UNCHANGED <<poolVars, pin, writes, deleted>>,
         flush' \in [pc : {"idle", "read", "flush", "done"}, frame : 0 .. pool_size_,
                     id : PageId \cup {INVALID_PAGE_ID}, before : [PageId -> Data]],
         flush'.pc \in {"read", "flush"} => flush'.frame \in Frame,
         \A p \in PageId : flush'.before[p] <= writes,
         \A p \in PageId : p >= next_page_id_ => flush'.before[p] = 0,
         FlushProgress'
  PROVE  Inv'
<1>1. UNCHANGED <<pages_, page_table_, free_list_, replacer, next_page_id_, disk,
                  pin, writes, deleted>>
  BY Zenon DEF poolVars
<1>2. TypeOK'
  BY <1>1, Zenon DEF Inv, TypeOK
<1>3. FramesAgree' /\ ReplacerAgrees' /\ CleanPagesOnDisk' /\ StaleFramesHarmless'
  BY <1>1, ZenonT(30) DEF Inv, FramesAgree, ReplacerAgrees, CleanPagesOnDisk, StaleFramesHarmless
<1>4. PinsAgree'
  <2>1. PinsAgree
    BY Zenon DEF Inv
  <2>2. \A f : Holders(f)' = Holders(f)
    BY <1>1 DEF Holders
  <2>3. HoldersCanUnpin'
    BY <2>1, <1>1, Zenon DEF PinsAgree, HoldersCanUnpin
  <2> QED
    BY <2>1, <2>2, <2>3, <1>1, Zenon DEF PinsAgree
<1>5. FreshPages' /\ CopiesOrdered'
  BY <1>1, Zenon DEF Inv, FreshPages, CopiesOrdered
<1> QED
  BY <1>2, <1>3, <1>4, <1>5 DEF Inv

LEMMA FlushAllBeginInv ==
  ASSUME Inv, FlushAllBegin
  PROVE  Inv'
<1> USE DEF NoFrame, INVALID_PAGE_ID
<1>0. TypeOK /\ CopiesOrdered /\ FreshPages
  BY DEF Inv
<1>1. PICK before : before = [p \in PageId |-> IF page_table_[p] = NoFrame THEN 0
                                               ELSE pages_[page_table_[p]].data_]
  BY Zenon
<1>2. flush' = [pc |-> IF pool_size_ = 0 THEN "done" ELSE "read",
                frame |-> 0, id |-> INVALID_PAGE_ID, before |-> before]
  BY <1>1 DEF FlushAllBegin
<1>3. ASSUME NEW p \in PageId
      PROVE  /\ before[p] \in Data /\ before[p] <= writes
             /\ page_table_[p] = NoFrame => before[p] = 0
             /\ page_table_[p] # NoFrame => /\ before[p] = pages_[page_table_[p]].data_
                                            /\ page_table_[p] \in Frame
    BY <1>1, <1>0, BoundsAssumption, SMTT(40) DEF TypeOK, CopiesOrdered, Data
<1>4. before \in [PageId -> Data]
  BY <1>1, <1>3, Zenon
<1>5. /\ flush' \in [pc : {"idle", "read", "flush", "done"}, frame : 0 .. pool_size_,
                     id : PageId \cup {INVALID_PAGE_ID}, before : [PageId -> Data]]
      /\ flush'.pc \in {"read", "flush"} => flush'.frame \in Frame
      /\ flush'.before = before
  BY <1>2, <1>4, BoundsAssumption, SMTT(40) DEF Frame
<1>6. UNCHANGED <<poolVars, pin, writes, deleted>>
  BY Zenon DEF FlushAllBegin
<1>7. FlushProgress'
  <2> SUFFICES ASSUME NEW p \in Live
               PROVE  \/ disk[p] >= before[p]
                      \/ /\ flush'.pc # "done"
                         /\ page_table_[p] # NoFrame
                         /\ page_table_[p] >= flush'.frame
                         /\ pages_[page_table_[p]].data_ >= before[p]
                         /\ flush'.pc = "flush" /\ page_table_[p] = flush'.frame
                              => flush'.id = p
    BY <1>5, <1>6, Zenon DEF FlushProgress, Live, Allocated, poolVars
  <2>1. p \in PageId /\ disk[p] \in Data
    BY LivePages, <1>0 DEF TypeOK
  <2>2. CASE page_table_[p] = NoFrame
    BY <2>1, <2>2, <1>3 DEF Data
  <2>3. CASE page_table_[p] # NoFrame
    <3>1. page_table_[p] \in Frame /\ before[p] = pages_[page_table_[p]].data_
          /\ before[p] \in Data
      BY <2>1, <2>3, <1>3, Zenon
    <3>2. flush'.frame = 0 /\ flush'.pc = "read"
      BY <3>1, <1>2, BoundsAssumption, SMTT(40) DEF Frame
    <3> QED
      BY <2>3, <3>1, <3>2, BoundsAssumption, SMTT(40) DEF Frame, Data
  <2> QED
    BY <2>2, <2>3, Zenon
<1> QED
  BY <1>3, <1>5, <1>6, <1>7, <1>0, OnlyFlushChanges, Zenon DEF FreshPages

LEMMA FlushAllReadIdInv ==
  ASSUME Inv, FlushAllReadId
  PROVE  Inv'
<1> USE DEF NoFrame, INVALID_PAGE_ID
<1>0. TypeOK /\ CopiesOrdered /\ FreshPages /\ FlushProgress /\ FramesAgree
  BY DEF Inv
<1>1. /\ flush' = [flush EXCEPT !.pc = "flush", !.id = pages_[flush.frame].page_id_]
      /\ flush.pc = "read" /\ UNCHANGED <<poolVars, pin, writes, deleted>>
  BY DEF FlushAllReadId
<1>2. flush.frame \in Frame
  BY <1>0, <1>1 DEF TypeOK
<1>3. /\ flush'.before = flush.before /\ flush'.frame = flush.frame
      /\ flush'.pc = "flush" /\ flush'.id = pages_[flush.frame].page_id_
      /\ flush' \in [pc : {"idle", "read", "flush", "done"}, frame : 0 .. pool_size_,
                     id : PageId \cup {INVALID_PAGE_ID}, before : [PageId -> Data]]
  BY <1>0, <1>1, <1>2, Zenon DEF TypeOK
<1>4. FlushProgress'
  <2>1. Live' = Live /\ UNCHANGED <<pages_, page_table_, disk>>
    BY <1>1 DEF Live, Allocated, poolVars
  <2>2. ASSUME NEW p \in Live, page_table_[p] = flush.frame
        PROVE  flush'.id = p
    BY <2>2, <1>0, <1>2, <1>3, LivePages, SMTT(40) DEF FramesAgree, Frame
  <2> QED
    BY <2>1, <2>2, <1>0, <1>1, <1>3 DEF FlushProgress
<1> QED
  BY <1>0, <1>1, <1>2, <1>3, <1>4, OnlyFlushChanges DEF CopiesOrdered, FreshPages

LEMMA FlushAllReturnInv ==
  ASSUME Inv, FlushAllReturn
  PROVE  Inv'
<1>0. TypeOK
  BY DEF Inv
<1>1. PICK before \in [PageId -> Data] : before = [p \in PageId |-> 0]
  <2>1. 0 \in Data
    BY BoundsAssumption DEF Data
  <2>2. [p \in PageId |-> 0] \in [PageId -> Data]
    BY <2>1
  <2> QED
    BY <2>2, Zenon
<1>2. /\ flush' = [pc |-> "idle", frame |-> 0, id |-> INVALID_PAGE_ID, before |-> before]
      /\ UNCHANGED <<poolVars, pin, writes, deleted>>
  BY <1>1 DEF FlushAllReturn
<1>3. \A p \in PageId : before[p] = 0 /\ before[p] <= writes
  BY <1>0, <1>1, SMTT(40) DEF TypeOK
<1>4. FlushProgress'
  BY <1>2, Zenon DEF FlushProgress
<1>5. /\ flush' \in [pc : {"idle", "read", "flush", "done"}, frame : 0 .. pool_size_,
                     id : PageId \cup {INVALID_PAGE_ID}, before : [PageId -> Data]]
      /\ flush'.before = before /\ flush'.pc = "idle"
  BY <1>2, BoundsAssumption, SMTT(40)
<1> QED
  BY <1>2, <1>3, <1>4, <1>5, OnlyFlushChanges, Zenon

(* The step that flushes the page whose id was read: of the pages owed,    *)
(* the one in this frame reaches the disk, the others are in later frames. *)
LEMMA FlushAllFlushInv ==
  ASSUME Inv, FlushAllFlush
  PROVE  Inv'
<1> USE DEF NoFrame, INVALID_PAGE_ID
<1>0. TypeOK /\ FlushProgress
  BY DEF Inv
<1>1. /\ Flush(flush.id) /\ flush.pc = "flush" /\ flush.frame \in Frame
      /\ flush.id \in PageId \cup {INVALID_PAGE_ID}
      /\ UNCHANGED <<page_table_, free_list_, replacer, next_page_id_, pin, writes, deleted>>
  BY <1>0 DEF FlushAllFlush, TypeOK
<1>2. /\ flush'.before = flush.before /\ flush'.frame = flush.frame + 1
      /\ flush'.pc = IF flush.frame + 1 = pool_size_ THEN "done" ELSE "read"
      /\ flush' \in [pc : {"idle", "read", "flush", "done"}, frame : 0 .. pool_size_,
                     id : PageId \cup {INVALID_PAGE_ID}, before : [PageId -> Data]]
      /\ flush'.pc \in {"read", "flush"} => flush'.frame \in Frame
  <2>1. flush' = [flush EXCEPT !.pc = IF flush.frame + 1 = pool_size_ THEN "done" ELSE "read",
                               !.frame = flush.frame + 1]
    BY DEF FlushAllFlush
  <2>2. flush.frame + 1 \in 0 .. pool_size_
    BY <1>1, BoundsAssumption DEF Frame
  <2>3. flush.frame + 1 # pool_size_ => flush.frame + 1 \in Frame
    BY <2>2, BoundsAssumption, SMTT(40) DEF Frame
  <2> QED
    BY <2>1, <2>2, <2>3, <1>0, Zenon DEF TypeOK
<1>3. TypeOK'
  BY <1>0, <1>1, <1>2, FlushFacts, Zenon DEF TypeOK
<1>4. FlushProgress'
  <2>1. Live' = Live
    BY <1>1, Zenon DEF Live, Allocated
  <2>0. SUFFICES ASSUME NEW q \in Live, ~(disk'[q] >= flush.before[q])
               PROVE  /\ flush'.pc = "read"
                      /\ page_table_[q] # NoFrame
                      /\ page_table_[q] >= flush.frame + 1
                      /\ pages_'[page_table_[q]].data_ >= flush.before[q]
    BY <2>1, <1>1, <1>2, Zenon DEF FlushProgress
  <2>2. q \in PageId
    BY LivePages, Zenon
  <2>3. /\ disk'[q] >= disk[q]
        /\ disk'[q] \in Int /\ disk[q] \in Int /\ flush.before[q] \in Int
    BY <2>2, <1>0, <1>1, <1>2, <1>3, FlushFacts, SMTT(40) DEF TypeOK, Data
  <2>4. /\ page_table_[q] # NoFrame
        /\ page_table_[q] >= flush.frame
        /\ pages_[page_table_[q]].data_ >= flush.before[q]
        /\ page_table_[q] = flush.frame => flush.id = q
    <3>1. ~(disk[q] >= flush.before[q])
      BY <2>0, <2>3, MissedBefore, Zenon
    <3>2. flush.pc # "idle" /\ flush.pc = "flush"
      BY <1>1
    <3> QED
      BY <3>1, <3>2, <1>0, Zenon DEF FlushProgress
  <2>5. page_table_[q] \in Frame
    BY <2>2, <2>4, <1>0 DEF TypeOK
  <2>6. pages_'[page_table_[q]].data_ = pages_[page_table_[q]].data_
    BY <2>5, <1>1, <1>2, FlushFacts, Zenon
  <2>7. page_table_[q] # flush.frame
    <3>0. SUFFICES ASSUME page_table_[q] = flush.frame PROVE FALSE
      BY Zenon
    <3>1. flush.id = q
      BY <3>0, <2>4, Zenon
    <3>2. disk'[q] = pages_[page_table_[q]].data_
      BY <3>1, <2>2, <2>4, <1>1, <1>2, FlushFacts, Zenon
    <3> QED
      BY <2>0, <3>2, <2>4, Zenon
  <2>8. page_table_[q] >= flush.frame + 1 /\ flush.frame + 1 # pool_size_
    BY <2>4, <2>5, <2>7, <1>1, LaterFrame, Zenon
  <2> QED
    BY <2>4, <2>6, <2>8, <1>2, Zenon
<1> QED
  BY <1>1, <1>2, <1>3, <1>4, FlushFacts, Zenon DEF Inv

(***************************************************************************)
(* DeletePage                                                              *)
(***************************************************************************)
(* The page leaves the pool and its frame becomes free; nobody holds it.   *)
LEMMA DeleteMappedInv ==
  ASSUME Inv, NEW p \in Live, DeleteMapped(p)
  PROVE  Inv'
<1> USE DEF NoFrame, INVALID_PAGE_ID
<1>inv. TypeOK /\ FramesAgree /\ PinsAgree /\ ReplacerAgrees /\ CleanPagesOnDisk
        /\ FreshPages /\ StaleFramesHarmless /\ CopiesOrdered /\ FlushProgress
  BY Zenon DEF Inv
<1>p. p \in PageId /\ p < next_page_id_
  BY LivePages
<1>f. PICK f \in Frame : f = page_table_[p]
  BY <1>p, <1>inv DEF DeleteMapped, TypeOK
<1>h. /\ f \notin free_list_ /\ f # NoFrame /\ pages_[f].page_id_ = p
      /\ \A q \in PageId : page_table_[q] = f => q = p
  BY <1>f, <1>p, <1>inv, SMTT(40) DEF FramesAgree, Frame
<1>s. /\ pages_[f].pin_count_ = 0
      /\ pages_' = [pages_ EXCEPT ![f].data_ = 0]
      /\ replacer' = R!Forget(replacer, f)
      /\ page_table_' = Unmapped(p)
      /\ free_list_' = free_list_ \cup {f}
      /\ deleted' = deleted \cup {p}
      /\ UNCHANGED <<next_page_id_, disk, pin, writes, flush>>
  BY <1>f, Zenon DEF DeleteMapped
<1>nh. \A e \in Client : pin[e] # NoPin => pin[e].frame # f /\ pin[e].page # p
  <2>1. \A e \in Client : pin[e] # NoPin => pin[e].frame # f
    BY <1>s, <1>inv, UnpinnedNotHeld
  <2> QED
    BY <2>1, <1>f, HolderFacts, Zenon
<1>pg. /\ pages_' \in [Frame -> [page_id_ : PageId \cup {INVALID_PAGE_ID}, pin_count_ : Nat,
                                 is_dirty_ : BOOLEAN, data_ : Data]]
       /\ pages_'[f].data_ = 0
       /\ \A g \in Frame : g # f => pages_'[g] = pages_[g]
       /\ \A g \in Frame : /\ pages_'[g].page_id_ = pages_[g].page_id_
                           /\ pages_'[g].is_dirty_ = pages_[g].is_dirty_
                           /\ pages_'[g].pin_count_ = pages_[g].pin_count_
  <2>1. 0 \in Data
    BY BoundsAssumption DEF Data
  <2> QED
    BY <2>1, <1>s, <1>inv DEF TypeOK
<1>pt. /\ page_table_' \in [PageId -> Frame \cup {NoFrame}]
       /\ page_table_'[p] = NoFrame
       /\ \A q \in PageId : q # p => page_table_'[q] = page_table_[q]
  BY <1>s, <1>p, <1>inv DEF Unmapped, TypeOK
<1>away. \A q \in PageId : page_table_'[q] # f
  BY <1>pt, <1>h
<1>rep. /\ replacer'.tracked = replacer.tracked \ {f}
        /\ replacer'.evictable = replacer.evictable \ {f}
        /\ replacer' \in [tracked : SUBSET Frame, evictable : SUBSET Frame]
  BY <1>inv, <1>s DEF R!Forget, TypeOK
<1>1. TypeOK'
  BY <1>inv, <1>s, <1>p, <1>pg, <1>pt, <1>rep, Zenon DEF TypeOK
<1>2. FramesAgree'
  <2>1. ASSUME NEW q \in PageId, page_table_'[q] # NoFrame
        PROVE  page_table_'[q] \notin free_list_' /\ pages_'[page_table_'[q]].page_id_ = q
    <3>1. q # p /\ page_table_'[q] = page_table_[q] /\ page_table_[q] # f
          /\ page_table_[q] \in Frame
      BY <2>1, <1>pt, <1>away, <1>inv, Zenon DEF TypeOK
    <3> QED
      BY <2>1, <3>1, <1>s, <1>pg, <1>inv, ZenonT(30) DEF FramesAgree
  <2>2. ASSUME NEW g \in Frame, g \notin free_list_'
        PROVE  pages_'[g].page_id_ \in PageId /\ page_table_'[pages_'[g].page_id_] = g
    <3>1. g # f /\ g \notin free_list_ /\ pages_'[g] = pages_[g]
      BY <2>2, <1>s, <1>pg, Zenon
    <3>2. pages_[g].page_id_ # p
      BY <3>1, <1>f, <1>inv, Zenon DEF FramesAgree
    <3> QED
      BY <3>1, <3>2, <1>pt, <1>inv, Zenon DEF FramesAgree
  <2> QED
    BY <2>1, <2>2, Zenon DEF FramesAgree
<1>3. PinsAgree'
  <2>1. \A g \in Frame : Holders(g)' = Holders(g)
    BY <1>s, Zenon DEF Holders
  <2>2. ASSUME NEW e \in Client, pin[e] # NoPin
        PROVE  /\ page_table_'[pin[e].page] = pin[e].frame
               /\ pages_'[pin[e].frame].pin_count_ > 0
    <3>1. pin[e].page \in PageId /\ pin[e].frame \in Frame /\ pin[e].page # p
      BY <2>2, <1>nh, HolderFacts, Zenon
    <3> QED
      BY <2>2, <3>1, <1>pt, <1>pg, HolderFacts, Zenon
  <2> QED
    BY <2>1, <2>2, <1>s, <1>pg, <1>inv DEF PinsAgree, HoldersCanUnpin
<1>4. ReplacerAgrees'
  BY <1>inv, <1>rep, <1>s, <1>pg, Zenon DEF ReplacerAgrees
<1>other. \A q \in PageId : page_table_'[q] # NoFrame =>
            /\ q # p /\ page_table_'[q] = page_table_[q] /\ page_table_[q] \in Frame
            /\ pages_'[page_table_[q]] = pages_[page_table_[q]]
  BY <1>pt, <1>away, <1>pg, <1>inv, SMTT(40) DEF TypeOK
<1>5. CleanPagesOnDisk'
  <2>1. disk' = disk /\ pin' = pin
    BY <1>s, Zenon
  <2>2. CleanPagesOnDisk
    BY <1>inv, Zenon
  <2> QED
    BY <2>1, <2>2, <1>other, Zenon DEF CleanPagesOnDisk
<1>6. FreshPages'
  <2>1. \A q \in PageId : q >= next_page_id_ => q # p
    BY <1>p, <1>inv, SMTT(40) DEF TypeOK, PageId
  <2> QED
    BY <2>1, <1>pt, <1>s, <1>inv DEF FreshPages
<1>7. StaleFramesHarmless'
  <2>1. \A q \in deleted' : page_table_'[q] = NoFrame
    BY <1>s, <1>pt, <1>inv DEF StaleFramesHarmless, TypeOK
  <2>2. ASSUME NEW g \in free_list_'
        PROVE  /\ \/ pages_'[g].page_id_ \in deleted'
                  \/ pages_'[g].page_id_ = INVALID_PAGE_ID /\ ~pages_'[g].is_dirty_
               /\ pages_'[g].data_ = 0
    <3>1. CASE g = f
      BY <3>1, <1>s, <1>pg, <1>h
    <3>2. CASE g # f
      <4>1. g \in free_list_ /\ pages_'[g] = pages_[g]
        BY <3>2, <2>2, <1>s, <1>pg, <1>inv DEF TypeOK
      <4> QED
        BY <4>1, <1>s, <1>inv DEF StaleFramesHarmless
    <3> QED
      BY <3>1, <3>2
  <2> QED
    BY <2>1, <2>2, Zenon DEF StaleFramesHarmless
<1>8. CopiesOrdered'
  <2>1. disk' = disk /\ writes' = writes /\ flush' = flush
    BY <1>s, Zenon
  <2>2. CopiesOrdered
    BY <1>inv, Zenon
  <2> QED
    BY <2>1, <2>2, <1>other, Zenon DEF CopiesOrdered
<1>9. FlushProgress'
  <2>1. \A q \in Live' : q \in Live /\ q # p /\ q \in PageId
    BY <1>s, LivePages, Zenon DEF Live, Allocated
  <2>2. \A q \in Live' : page_table_'[q] = page_table_[q]
    BY <2>1, <1>pt
  <2>3. \A q \in Live' : page_table_[q] # NoFrame =>
          pages_'[page_table_[q]] = pages_[page_table_[q]]
    BY <2>1, <2>2, <1>other, Zenon
  <2>4. flush' = flush /\ disk' = disk
    BY <1>s
  <2> QED
    BY <2>1, <2>2, <2>3, <2>4, <1>inv, ZenonT(30) DEF FlushProgress
<1> QED
  BY <1>1, <1>2, <1>3, <1>4, <1>5, <1>6, <1>7, <1>8, <1>9, Zenon DEF Inv

LEMMA DeleteUnmappedInv ==
  ASSUME Inv, NEW p \in Live, DeleteUnmapped(p)
  PROVE  Inv'
<1>1. /\ page_table_[p] = NoFrame /\ deleted' = deleted \cup {p}
      /\ UNCHANGED <<pages_, page_table_, free_list_, replacer, next_page_id_, disk,
                     pin, writes, flush>>
  BY Zenon DEF DeleteUnmapped, poolVars
<1>2. p \in PageId /\ p < next_page_id_
  BY LivePages
<1>3. TypeOK'
  BY <1>1, <1>2, Zenon DEF Inv, TypeOK
<1>4. FramesAgree' /\ ReplacerAgrees' /\ CleanPagesOnDisk' /\ CopiesOrdered'
  BY <1>1, Zenon DEF Inv, FramesAgree, ReplacerAgrees, CleanPagesOnDisk, CopiesOrdered
<1>5. PinsAgree'
  BY <1>1, Zenon DEF Inv, PinsAgree, HoldersCanUnpin, Holders
<1>6. FreshPages'
  <2>1. \A q \in PageId : q >= next_page_id_ => q # p
    BY <1>2, SMTT(40) DEF Inv, TypeOK, PageId
  <2> QED
    BY <2>1, <1>1 DEF Inv, FreshPages
<1>7. StaleFramesHarmless'
  BY <1>1, Zenon DEF Inv, StaleFramesHarmless
<1>8. FlushProgress'
  <2>1. \A q \in Live' : q \in Live
    BY <1>1 DEF Live, Allocated
  <2> QED
    BY <2>1, <1>1, Zenon DEF Inv, FlushProgress
<1> QED
  BY <1>3, <1>4, <1>5, <1>6, <1>7, <1>8, Zenon DEF Inv

(***************************************************************************)
(* Invariance                                                              *)
(***************************************************************************)
(* Every step of the pool and its clients preserves the invariant.         *)
THEOREM NextInv == Inv /\ [Next]_vars => Inv'
<1> SUFFICES ASSUME Inv, [Next]_vars PROVE Inv'
  OBVIOUS
<1>1. ASSUME NEW c \in Client, NewPgImp(c) PROVE Inv'
  BY <1>1, NewPgInv
<1>2. ASSUME NEW c \in Client, NEW p \in Live, FetchPgImp(c, p) PROVE Inv'
  BY <1>2, FetchMissInv, FetchHitInv DEF FetchPgImp
<1>3. ASSUME NEW c \in Client, WriteData(c) PROVE Inv'
  BY <1>3, WriteDataInv
<1>4. ASSUME NEW c \in Client, NEW d \in BOOLEAN, UnpinPgImp(c, d) PROVE Inv'
  BY <1>4, UnpinInv
<1>5. ASSUME NEW p \in Live, FlushPgImp(p) PROVE Inv'
  BY <1>5, FlushPgInv
<1>6. ASSUME NEW p \in Live, DeletePgImp(p) PROVE Inv'
  BY <1>6, DeleteMappedInv, DeleteUnmappedInv DEF DeletePgImp
<1>7. CASE FlushAllBegin \/ FlushAllReadId \/ FlushAllFlush \/ FlushAllReturn
  BY <1>7, FlushAllBeginInv, FlushAllReadIdInv, FlushAllFlushInv, FlushAllReturnInv
<1>8. CASE UNCHANGED vars
  <2>1. UNCHANGED <<pages_, page_table_, free_list_, replacer, next_page_id_, disk,
                    pin, writes, deleted, flush>>
    BY <1>8, Zenon DEF vars
  <2>2. TypeOK' /\ FramesAgree' /\ ReplacerAgrees' /\ CleanPagesOnDisk'
    BY <2>1, Zenon DEF Inv, TypeOK, FramesAgree, ReplacerAgrees, CleanPagesOnDisk
  <2>3. PinsAgree' /\ FreshPages' /\ StaleFramesHarmless' /\ CopiesOrdered'
    BY <2>1, Zenon DEF Inv, PinsAgree, HoldersCanUnpin, Holders, FreshPages, StaleFramesHarmless,
                CopiesOrdered
  <2>4. FlushProgress'
    BY <2>1, Zenon DEF Inv, FlushProgress, Live, Allocated
  <2> QED
    BY <2>2, <2>3, <2>4 DEF Inv
<1> QED
  BY <1>1, <1>2, <1>3, <1>4, <1>5, <1>6, <1>7, <1>8 DEF Next

(* The inductive invariant holds in every behaviour of the pool.           *)
THEOREM Invariance == Spec => []Inv
BY InitInv, NextInv, PTL DEF Spec

(* Type correctness; FlushAllPages never looks past the last frame.        *)
THEOREM TypeCorrect == Spec => []TypeOK
<1>1. Inv => TypeOK
  BY DEF Inv
<1> QED
  BY <1>1, Invariance, PTL

(* Every frame is free or holds the page the page table gives to it, for   *)
(* NewPage, FetchPage, UnpinPage, FlushPage and DeletePage in any order.   *)
THEOREM FramesStayAgreed == Spec => []FramesAgree
<1>1. Inv => FramesAgree
  BY DEF Inv
<1> QED
  BY <1>1, Invariance, PTL

(* Pin counts are the numbers of holders, and the page under a holder's    *)
(* pointer stays the page it asked for.                                    *)
THEOREM PinsStayAgreed == Spec => []PinsAgree
<1>1. Inv => PinsAgree
  BY DEF Inv
<1> QED
  BY <1>1, Invariance, PTL

(* The replacer may give up exactly the unpinned frames that hold a page.  *)
THEOREM ReplacerStaysAgreed == Spec => []ReplacerAgrees
<1>1. Inv => ReplacerAgrees
  BY DEF Inv
<1> QED
  BY <1>1, Invariance, PTL

(* So all that the pool keeps agrees, for any number of frames and clients.*)
THEOREM PoolStaysAgreed == Spec => []PoolAgrees
BY TypeCorrect, FramesStayAgreed, PinsStayAgreed, ReplacerStaysAgreed, PTL DEF PoolAgrees

(* A clean page of the pool that nobody is writing is the same on disk.    *)
THEOREM CleanPagesStayOnDisk == Spec => []CleanPagesOnDisk
<1>1. Inv => CleanPagesOnDisk
  BY DEF Inv
<1> QED
  BY <1>1, Invariance, PTL

(* When FlushAllPages returns, what was in the pool when it began is on    *)
(* disk, whatever other threads did in between.                            *)
THEOREM FlushAllCompletes == Spec => []FlushAllComplete
<1>1. Inv => FlushAllComplete
  BY DEF Inv, FlushProgress, FlushAllComplete
<1> QED
  BY <1>1, Invariance, PTL

(***************************************************************************)
(* The pool implements PageStore                                           *)
(***************************************************************************)
(* Taking a frame for page p changes the contents of no live page, and p   *)
(* has the contents that it has on disk.                                   *)
LEMMA TakeFrameContents ==
  ASSUME Inv, Inv', NEW c \in Client, NEW f, NEW p, MayTake(f, p), NEW d,
         TakeFrame(c, f, p, d)
  PROVE  /\ Current(p)' = d
         /\ \A q \in Live : q # p => Current(q)' = Current(q)
<1> USE DEF NoFrame, INVALID_PAGE_ID
<1>inv. TypeOK /\ FramesAgree
  BY DEF Inv
<1>p. p \in PageId
  BY DEF MayTake
<1>o. PICK old : old = pages_[f].page_id_
  BY Zenon
<1>f. /\ f \in Frame /\ f # NoFrame
      /\ \A q \in PageId : page_table_[q] = f <=> q = old /\ f \notin free_list_
      /\ \A q \in PageId : q # old => WrittenBack(f)[q] = disk[q]
      /\ old \in PageId /\ f \notin free_list_ => WrittenBack(f)[old] = pages_[f].data_
      /\ old \in PageId /\ f \in free_list_ => old \in deleted
  <2>1. /\ f \in Frame
        /\ \A q \in PageId : page_table_[q] = f <=> q = old /\ f \notin free_list_
        /\ \A q \in PageId : q # old => WrittenBack(f)[q] = disk[q]
        /\ old \in PageId /\ f \notin free_list_ => WrittenBack(f)[old] = pages_[f].data_
        /\ old \in PageId /\ f \in free_list_ => old \in deleted
    BY <1>o, TakeFrameFacts, SMTT(40)
  <2>2. NoFrame \notin Frame
    BY DEF Frame
  <2> QED
    BY <2>1, <2>2, Zenon
<1>s. /\ page_table_'[p] = f /\ pages_'[f].data_ = d
      /\ disk' = WrittenBack(f)
      /\ \A g \in Frame : g # f => pages_'[g] = pages_[g]
      /\ \A q \in PageId : q # p /\ q = old => page_table_'[q] = NoFrame
      /\ \A q \in PageId : q # p /\ q # old => page_table_'[q] = page_table_[q]
  BY <1>o, <1>f, <1>p, <1>inv, Zenon DEF TakeFrame, Unmapped, TypeOK
<1>1. Current(p)' = d
  BY <1>s, <1>f, Zenon DEF Current
<1>2. ASSUME NEW q \in Live, q # p
      PROVE  Current(q)' = Current(q)
  <2>1. q \in PageId /\ q \notin deleted
    BY LivePages
  <2>2. CASE q = old
    <3>1. f \notin free_list_
      BY <2>1, <2>2, <1>f, Zenon
    <3>2. page_table_[q] = f
      BY <3>1, <2>1, <2>2, <1>f, Zenon
    <3>3. page_table_'[q] = NoFrame
      BY <2>1, <2>2, <1>2, <1>s, Zenon
    <3>4. disk'[q] = pages_[f].data_
      BY <3>1, <2>1, <2>2, <1>f, <1>s, Zenon
    <3> QED
      BY <3>2, <3>3, <3>4, <1>f, Zenon DEF Current
  <2>3. CASE q # old
    <3>1. page_table_'[q] = page_table_[q] /\ page_table_[q] # f
      BY <2>1, <2>3, <1>2, <1>f, <1>s, Zenon
    <3>2. disk'[q] = disk[q]
      BY <2>1, <2>3, <1>f, <1>s, Zenon
    <3>3. page_table_[q] # NoFrame => page_table_[q] \in Frame
      BY <2>1, <1>inv, Zenon DEF TypeOK
    <3>4. page_table_[q] # NoFrame => pages_'[page_table_[q]] = pages_[page_table_[q]]
      BY <3>1, <3>3, <1>s, Zenon
    <3> QED
      BY <3>1, <3>2, <3>4, Zenon DEF Current
  <2> QED
    BY <2>2, <2>3
<1> QED
  BY <1>1, <1>2

(* How the pages that clients hold change with pin.                        *)
LEMMA HeldAfterTake ==
  ASSUME TypeOK, NEW c \in Client, NEW x \in Pin, pin[c] = NoPin,
         pin' = [pin EXCEPT ![c] = x]
  PROVE  Held[c] = INVALID_PAGE_ID /\ Held' = [Held EXCEPT ![c] = x.page]
<1>1. x # NoPin /\ pin'[c] = x /\ \A e \in Client : e # c => pin'[e] = pin[e]
  BY NoPinAssumption DEF TypeOK
<1>2. Held[c] = INVALID_PAGE_ID
  BY DEF Held
<1>3. Held' = [e \in Client |-> IF e = c THEN x.page ELSE Held[e]]
  BY <1>1 DEF Held
<1>4. [Held EXCEPT ![c] = x.page] = [e \in Client |-> IF e = c THEN x.page ELSE Held[e]]
  BY Zenon DEF Held
<1> QED
  BY <1>2, <1>3, <1>4

(* Every step of the pool is a step of the page store or changes nothing   *)
(* that its clients see.                                                   *)
LEMMA StepRefines ==
  ASSUME Inv, Inv', Next
  PROVE  [Store!Next]_<<Live, Content, Held>>
<1> USE DEF NoFrame, INVALID_PAGE_ID
<1>inv. TypeOK /\ FramesAgree
  BY Zenon DEF Inv
<1>same. ASSUME UNCHANGED <<next_page_id_, deleted, pin>>,
                \A q \in Live : Current(q)' = Current(q)
         PROVE  UNCHANGED <<Live, Content, Held>>
  BY <1>same DEF Live, Allocated, Content, Held
<1>1. ASSUME NEW c \in Client, NewPgImp(c)
      PROVE  Store!Next
  <2>1. PICK f \in Candidates : TakeFrame(c, f, next_page_id_, 0)
    BY <1>1 DEF NewPgImp
  <2>2. PICK p : p = next_page_id_
    OBVIOUS
  <2>3. /\ p \in PageId /\ p >= next_page_id_ /\ next_page_id_ \in Nat
        /\ next_page_id_' = next_page_id_ + 1 /\ deleted' = deleted
    BY <1>1, <2>2, <1>inv, BoundsAssumption, SMTT(40) DEF NewPgImp, TypeOK, PageId
  <2>4. MayTake(f, p) /\ p \notin deleted /\ p \notin Live
    <3>1. FreshPages
      BY DEF Inv
    <3>2. page_table_[p] = NoFrame /\ p \notin deleted
      BY <3>1, <2>3, Zenon DEF FreshPages
    <3>3. p \notin Live
      BY <2>2, <2>3 DEF Live, Allocated
    <3> QED
      BY <3>2, <3>3, <2>3, Zenon DEF MayTake
  <2>5. Live' = Live \cup {p}
    BY <2>2, <2>3, <2>4 DEF Live, Allocated
  <2>6. /\ Current(p)' = 0
        /\ \A q \in Live : q # p => Current(q)' = Current(q)
    BY <2>1, <2>2, <2>4, TakeFrameContents
  <2>7. Content' = [Content EXCEPT ![p] = 0]
    BY <2>4, <2>5, <2>6 DEF Content
  <2>8. Held[c] = INVALID_PAGE_ID /\ Held' = [Held EXCEPT ![c] = p]
    <3>1. PICK x \in Pin : x = [page |-> p, frame |-> f, wrote |-> FALSE]
      <4>1. f \in Frame
        BY <2>4, TakeFrameFacts, SMTT(40)
      <4> QED
        BY <4>1, <2>3, Zenon DEF Pin
    <3>2. pin[c] = NoPin /\ pin' = [pin EXCEPT ![c] = x] /\ x.page = p
      BY <1>1, <2>1, <2>2, <3>1, Zenon DEF NewPgImp, TakeFrame
    <3> QED
      BY <3>1, <3>2, <1>inv, HeldAfterTake, Zenon
  <2>9. Store!New(c, p)
    BY <2>4, <2>5, <2>7, <2>8 DEF Store!New
  <2> QED
    BY <2>3, <2>9 DEF Store!Next
<1>2. ASSUME NEW c \in Client, NEW p \in Live, FetchMiss(c, p)
      PROVE  Store!Next
  <2>1. PICK f \in Candidates : TakeFrame(c, f, p, WrittenBack(f)[p])
    BY <1>2, Zenon DEF FetchMiss
  <2>2. p \in PageId /\ MayTake(f, p) /\ page_table_[p] = NoFrame
    BY <1>2, LivePages, Zenon DEF MayTake, FetchMiss
  <2>3. WrittenBack(f)[p] = disk[p] /\ f \in Frame
    <3>1. PICK old : old = pages_[f].page_id_
      OBVIOUS
    <3>2. f \in Frame /\ old # p /\ \A q \in PageId : q # old => WrittenBack(f)[q] = disk[q]
      BY <3>1, <2>2, TakeFrameFacts, SMTT(40)
    <3> QED
      BY <3>2, <2>2, Zenon
  <2>4. \A q \in Live : Current(q)' = Current(q)
    <3>1. Current(p)' = disk[p]
      BY <2>1, <2>2, <2>3, TakeFrameContents, Zenon
    <3>2. \A q \in Live : q # p => Current(q)' = Current(q)
      BY <2>1, <2>2, <2>3, TakeFrameContents, Zenon
    <3>3. Current(p) = disk[p]
      BY <2>2, Zenon DEF Current
    <3> QED
      BY <3>1, <3>2, <3>3, Zenon
  <2>5. UNCHANGED <<Live, Content>>
    BY <1>2, <2>4 DEF FetchMiss, Live, Allocated, Content
  <2>6. Held[c] = INVALID_PAGE_ID /\ Held' = [Held EXCEPT ![c] = p]
    <3>1. PICK x \in Pin : x = [page |-> p, frame |-> f, wrote |-> FALSE]
      BY <2>2, <2>3, Zenon DEF Pin
    <3>2. pin[c] = NoPin /\ pin' = [pin EXCEPT ![c] = x] /\ x.page = p
      BY <1>2, <2>1, <3>1, Zenon DEF FetchMiss, TakeFrame
    <3> QED
      BY <3>1, <3>2, <1>inv, HeldAfterTake, Zenon
  <2>7. Store!Hold(c, p)
    BY <2>5, <2>6 DEF Store!Hold
  <2> QED
    BY <2>2, <2>7, Zenon DEF Store!Next
<1>3. ASSUME NEW c \in Client, NEW p \in Live, FetchHit(c, p)
      PROVE  Store!Next
  <2>1. p \in PageId
    BY LivePages
  <2>2. PICK f \in Frame : f = page_table_[p]
    BY <2>1, <1>3, <1>inv DEF FetchHit, TypeOK
  <2>3. /\ pages_' = [pages_ EXCEPT ![f].pin_count_ = @ + 1]
        /\ UNCHANGED <<page_table_, disk, next_page_id_, deleted>>
    BY <1>3, <2>2 DEF FetchHit
  <2>4. \A g \in Frame : pages_'[g].data_ = pages_[g].data_
    BY <2>3, <1>inv DEF TypeOK
  <2>5. \A q \in Live : Current(q)' = Current(q)
    BY <2>3, <2>4, LivePages, <1>inv DEF Current, TypeOK
  <2>6. UNCHANGED <<Live, Content>>
    BY <2>3, <2>5 DEF Live, Allocated, Content
  <2>7. Held[c] = INVALID_PAGE_ID /\ Held' = [Held EXCEPT ![c] = p]
    <3>1. PICK x \in Pin : x = [page |-> p, frame |-> f, wrote |-> FALSE]
      BY <2>1, Zenon DEF Pin
    <3>2. pin[c] = NoPin /\ pin' = [pin EXCEPT ![c] = x] /\ x.page = p
      BY <1>3, <2>2, <3>1 DEF FetchHit
    <3> QED
      BY <3>1, <3>2, <1>inv, HeldAfterTake, Zenon
  <2>8. Store!Hold(c, p)
    BY <2>6, <2>7 DEF Store!Hold
  <2> QED
    BY <2>1, <2>8 DEF Store!Next
<1>4. ASSUME NEW c \in Client, WriteData(c)
      PROVE  Store!Next
  <2>0. pin[c] # NoPin
    BY <1>4, Zenon DEF WriteData
  <2>1. PICK f \in Frame, p \in PageId : f = pin[c].frame /\ p = pin[c].page
    BY <2>0, HolderFacts, Zenon
  <2>2. /\ page_table_[p] = f /\ f # NoFrame
        /\ \A q \in PageId : page_table_[q] = f => q = p
    <3>1. page_table_[p] = f /\ \A q \in PageId : page_table_[q] = f => q = p
      BY <2>0, <2>1, HolderFacts, Zenon
    <3>2. NoFrame \notin Frame
      BY DEF Frame
    <3> QED
      BY <3>1, <3>2, <2>1, Zenon
  <2>3. PICK d : d = writes + 1
    OBVIOUS
  <2>4. /\ pages_' = [pages_ EXCEPT ![f].data_ = d]
        /\ pin' = [pin EXCEPT ![c].wrote = TRUE]
        /\ UNCHANGED <<page_table_, disk, next_page_id_, deleted>>
    BY <1>4, <2>1, <2>3 DEF WriteData
  <2>5. d \in Data
    BY <1>4, <2>3, <1>inv, BoundsAssumption DEF WriteData, TypeOK, Data
  <2>6. pages_'[f].data_ = d /\ \A g \in Frame : g # f => pages_'[g] = pages_[g]
    BY <2>4, <1>inv DEF TypeOK
  <2>7. Current(p)' = d
    BY <2>2, <2>4, <2>6 DEF Current
  <2>8. \A q \in Live : q # p => Current(q)' = Current(q)
    BY <2>2, <2>4, <2>6, LivePages, <1>inv, ZenonT(30) DEF Current, TypeOK
  <2>9. p \in Live
    <3>1. p \notin deleted
      <4>1. StaleFramesHarmless
        BY DEF Inv
      <4> QED
        BY <4>1, <2>2, Zenon DEF StaleFramesHarmless
    <3>2. p < next_page_id_
      <4> SUFFICES ASSUME p >= next_page_id_ PROVE FALSE
        BY <1>inv DEF TypeOK, PageId
      <4> QED
        <5>1. FreshPages
          BY DEF Inv
        <5> QED
          BY <5>1, <2>2, Zenon DEF FreshPages
    <3> QED
      BY <3>1, <3>2, <1>inv, SMTT(40) DEF Live, Allocated, PageId, TypeOK
  <2>10. Live' = Live
    BY <2>4 DEF Live, Allocated
  <2>11. Content' = [Content EXCEPT ![p] = d]
    BY <2>7, <2>8, <2>9, <2>10, Zenon DEF Content
  <2>12. Held' = Held /\ Held[c] = p
    <3>1. /\ pin'[c] = [pin[c] EXCEPT !.wrote = TRUE]
          /\ \A e \in Client : e # c => pin'[e] = pin[e]
      BY <2>4, <1>inv, Zenon DEF TypeOK
    <3>2. pin[c] \in Pin
      BY <2>0, HolderFacts, Zenon
    <3>3. pin'[c] \in Pin /\ pin'[c].page = p
      BY <3>1, <3>2, <2>1, Zenon DEF Pin
    <3>4. pin'[c] # NoPin
      BY <3>3, NoPinAssumption
    <3> QED
      BY <2>0, <2>1, <3>1, <3>3, <3>4, Zenon DEF Held
  <2>13. Store!Write(c, p, d)
    BY <2>9, <2>10, <2>11, <2>12, Zenon DEF Store!Write
  <2> QED
    BY <2>5, <2>13 DEF Store!Next
<1>5. ASSUME NEW c \in Client, NEW is_dirty \in BOOLEAN, UnpinPgImp(c, is_dirty)
      PROVE  Store!Next
  <2>0. pin[c] # NoPin
    BY <1>5, Zenon DEF UnpinPgImp
  <2>1. PICK p \in PageId : p = pin[c].page
    BY <2>0, HolderFacts, Zenon
  <2>2. /\ pin' = [pin EXCEPT ![c] = NoPin]
        /\ UNCHANGED <<page_table_, disk, next_page_id_, deleted>>
    BY <1>5, Zenon DEF UnpinPgImp
  <2>3. \A g \in Frame : pages_'[g].data_ = pages_[g].data_
    <3>1. PICK f : f = page_table_[p]
      BY Zenon
    <3>2. \/ pages_' = pages_
          \/ pages_' = [pages_ EXCEPT ![f].pin_count_ = @ - 1, ![f].is_dirty_ = @ \/ is_dirty]
      BY <1>5, <2>1, <3>1, Zenon DEF UnpinPgImp
    <3> QED
      BY <3>2, <1>inv DEF TypeOK
  <2>4. \A q \in Live : Current(q)' = Current(q)
    BY <2>2, <2>3, LivePages, <1>inv, Zenon DEF Current, TypeOK
  <2>5. UNCHANGED <<Live, Content>>
    BY <2>2, <2>4, Zenon DEF Live, Allocated, Content
  <2>6. Held[c] # INVALID_PAGE_ID
    BY <2>0, <2>1, SMTT(40) DEF Held, PageId
  <2>7. Held' = [Held EXCEPT ![c] = INVALID_PAGE_ID]
    <3>1. pin'[c] = NoPin /\ \A e \in Client : e # c => pin'[e] = pin[e]
      BY <2>2, <1>inv, Zenon DEF TypeOK
    <3>2. Held' = [e \in Client |-> IF e = c THEN INVALID_PAGE_ID ELSE Held[e]]
      BY <3>1 DEF Held
    <3>3. [Held EXCEPT ![c] = INVALID_PAGE_ID]
            = [e \in Client |-> IF e = c THEN INVALID_PAGE_ID ELSE Held[e]]
      BY Zenon DEF Held
    <3> QED
      BY <3>2, <3>3, Zenon
  <2>8. Store!Release(c)
    BY <2>5, <2>6, <2>7 DEF Store!Release
  <2> QED
    BY <2>8, Zenon DEF Store!Next
<1>6. ASSUME NEW p \in Live, DeletePgImp(p)
      PROVE  Store!Next
  <2>0. p \in PageId
    BY LivePages
  <2>1. deleted' = deleted \cup {p} /\ UNCHANGED <<next_page_id_, disk, pin>>
    BY <1>6 DEF DeletePgImp, DeleteMapped, DeleteUnmapped, poolVars
  <2>2. Live' = Live \ {p}
    BY <2>1 DEF Live, Allocated
  <2>3. \A q \in Live : q # p => Current(q)' = Current(q)
    <3>1. CASE DeleteMapped(p)
      <4>1. PICK f \in Frame : f = page_table_[p]
        BY <2>0, <3>1, <1>inv, Zenon DEF DeleteMapped, TypeOK
      <4>2. /\ \A g \in Frame : g # f => pages_'[g] = pages_[g]
            /\ \A q \in PageId : q # p => page_table_'[q] = page_table_[q]
        BY <3>1, <4>1, <1>inv, Zenon DEF DeleteMapped, Unmapped, TypeOK
      <4>3. \A q \in PageId : q # p => page_table_[q] # f
        BY <2>0, <4>1, <1>inv, SMTT(40) DEF FramesAgree, Frame
      <4> QED
        BY <4>2, <4>3, <2>1, LivePages, <1>inv, Zenon DEF Current, TypeOK
    <3>2. CASE DeleteUnmapped(p)
      BY <3>2, Zenon DEF DeleteUnmapped, poolVars, Current
    <3> QED
      BY <1>6, <3>1, <3>2, Zenon DEF DeletePgImp
  <2>4. Content' = [Content EXCEPT ![p] = 0]
    BY <2>2, <2>3, Zenon DEF Content
  <2>5. Held' = Held
    BY <2>1 DEF Held
  <2>6. \A e \in Client : Held[e] # p
    <3> SUFFICES ASSUME NEW e \in Client, Held[e] = p PROVE FALSE
      OBVIOUS
    <3>1. pin[e] # NoPin /\ pin[e].page = p
      BY <2>0, SMTT(40) DEF Held, PageId
    <3>2. /\ page_table_[p] = pin[e].frame /\ pin[e].frame \in Frame
          /\ pages_[page_table_[p]].pin_count_ > 0
      BY <3>1, HolderFacts, Zenon
    <3> QED
      BY <3>2, <1>6 DEF DeletePgImp, DeleteMapped, DeleteUnmapped, Frame
  <2>7. Store!Delete(p)
    BY <2>2, <2>4, <2>5, <2>6, Zenon DEF Store!Delete
  <2> QED
    BY <2>0, <2>7 DEF Store!Next
<1>7. ASSUME NEW p \in PageId \cup {INVALID_PAGE_ID}, Flush(p),
             UNCHANGED <<page_table_, free_list_, replacer, next_page_id_, pin, writes, deleted>>,
             flush'.before = flush.before
      PROVE  UNCHANGED <<Live, Content, Held>>
  <2>1. ASSUME NEW q \in Live
        PROVE  Current(q)' = Current(q)
    <3>1. q \in PageId /\ page_table_[q] \in Frame \cup {NoFrame}
      BY LivePages, <1>inv, Zenon DEF TypeOK
    <3>2. \A g \in Frame : pages_'[g].data_ = pages_[g].data_
      BY <1>7, FlushFacts, Zenon
    <3>3. page_table_[q] = NoFrame => disk'[q] = disk[q]
      BY <1>7, <3>1, FlushFacts, Zenon
    <3> QED
      BY <1>7, <3>1, <3>2, <3>3, Zenon DEF Current
  <2> QED
    BY <1>7, <2>1, <1>same, Zenon
<1>8. ASSUME NEW p \in Live, FlushPgImp(p)
      PROVE  UNCHANGED <<Live, Content, Held>>
  BY <1>7, <1>8, LivePages DEF FlushPgImp
<1>9. CASE FlushAllFlush
  <2>1. /\ flush.id \in PageId \cup {INVALID_PAGE_ID} /\ flush'.before = flush.before
        /\ Flush(flush.id)
        /\ UNCHANGED <<page_table_, free_list_, replacer, next_page_id_, pin, writes, deleted>>
    BY <1>9, <1>inv DEF FlushAllFlush, TypeOK
  <2> QED
    BY <2>1, <1>7
<1>10. CASE FlushAllBegin \/ FlushAllReadId \/ FlushAllReturn
  <2>1. UNCHANGED <<pages_, page_table_, disk, next_page_id_, deleted, pin>>
    BY <1>10 DEF FlushAllBegin, FlushAllReadId, FlushAllReturn, poolVars
  <2> QED
    BY <2>1, <1>same DEF Current
<1> QED
  BY <1>1, <1>2, <1>3, <1>4, <1>5, <1>6, <1>8, <1>9, <1>10, Zenon DEF Next, FetchPgImp

(* What clients read is what was last written to the page, through any     *)
(* sequence of evictions, write-backs, fetches, flushes and deletions.     *)
THEOREM PoolRefinesPageStore == Spec => RefinesPageStore
<1>1. Init => Store!Init
  <2> SUFFICES ASSUME Init PROVE Store!Init
    OBVIOUS
  <2>1. Live = {}
    BY SMTT(40) DEF Init, Live, Allocated
  <2>2. Content = [p \in PageId |-> 0]
    BY <2>1, Zenon DEF Content
  <2>3. Held = [c \in Client |-> INVALID_PAGE_ID]
    BY Zenon DEF Init, Held
  <2> QED
    BY <2>1, <2>2, <2>3, Zenon DEF Store!Init
<1>2. Inv /\ Inv' /\ [Next]_vars => [Store!Next]_(Store!vars)
  <2> SUFFICES ASSUME Inv, Inv', [Next]_vars PROVE [Store!Next]_(Store!vars)
    OBVIOUS
  <2>1. CASE Next
    BY <2>1, StepRefines DEF Store!vars
  <2>2. CASE UNCHANGED vars
    <3>1. UNCHANGED <<Live, Content, Held>>
      BY <2>2, Zenon DEF vars, Live, Allocated, Content, Current, Held
    <3> QED
      BY <3>1, Zenon DEF Store!vars
  <2> QED
    BY <2>1, <2>2
<1> QED
  BY <1>1, <1>2, Invariance, PTL DEF Spec, RefinesPageStore, Store!Spec

==============================================================================
