-------------------------- MODULE BufferPoolManager --------------------------
(***************************************************************************)
(* The buffer pool manager of                                              *)
(* src/buffer/buffer_pool_manager_instance.cpp, with the clients that use  *)
(* its pages.                                                              *)
(*                                                                         *)
(* A client holds at most one pin (a thread that holds several is several  *)
(* clients), and keeps the frame pointer that FetchPage or NewPage gave    *)
(* it.  It writes through that pointer without the pool's latch, and       *)
(* passes is_dirty to UnpinPage if it wrote.  The contents of a page are   *)
(* the number of the last write to it; 0 stands for a page of zeros.       *)
(*                                                                         *)
(* Every operation holds latch_ from beginning to end and is one action,   *)
(* except FlushAllPgsImp, which reads the page id of each frame without    *)
(* the latch and then flushes that page.                                   *)
(*                                                                         *)
(* page_table_ is a finite map (ExtendibleHashTable implements it), the    *)
(* replacer is any replacer (LRUKReplacer implements it), and any free     *)
(* frame may be the front of free_list_.                                   *)
(***************************************************************************)
EXTENDS Integers, FiniteSets

CONSTANTS
  pool_size_,
  MaxPages,       \* bound on next_page_id_
  MaxWrites,      \* bound on the number of client writes
  Client,
  NoPin           \* what a client holds when it holds no pin

ASSUME BoundsAssumption ==
  pool_size_ \in Nat /\ MaxPages \in Nat /\ MaxWrites \in Nat
ASSUME ClientAssumption == IsFiniteSet(Client)

INVALID_PAGE_ID == -1
PageId == 0 .. MaxPages - 1
Frame == 0 .. pool_size_ - 1
NoFrame == -1
Data == 0 .. MaxWrites
Pin == [page : PageId, frame : Frame, wrote : BOOLEAN]
ASSUME NoPinAssumption == NoPin \notin Pin

VARIABLES
  pages_,         \* the frames: page_id_, pin_count_, is_dirty_, data_
  page_table_,    \* the frame of each page, or NoFrame
  free_list_,     \* the set of free frames
  replacer,       \* the state of the replacer
  next_page_id_,
  disk,           \* the contents of each page in the database file
  pin,            \* what each client holds: page, frame pointer, wrote
  writes,         \* the number of client writes
  deleted,        \* pages that were deleted
  flush           \* the thread in FlushAllPages: pc, frame, page id read,
                  \* and what the pool held of each page when it began

poolVars == <<pages_, page_table_, free_list_, replacer, next_page_id_, disk>>
vars == <<pages_, page_table_, free_list_, replacer, next_page_id_, disk,
          pin, writes, deleted, flush>>

R == INSTANCE Replacer WITH NumFrames <- pool_size_, ret <- 0

Init ==
  /\ pages_ = [f \in Frame |-> [page_id_ |-> INVALID_PAGE_ID, pin_count_ |-> 0,
                                is_dirty_ |-> FALSE, data_ |-> 0]]
  /\ page_table_ = [p \in PageId |-> NoFrame]
  /\ free_list_ = Frame
  /\ replacer = R!Empty
  /\ next_page_id_ = 0
  /\ disk = [p \in PageId |-> 0]
  /\ pin = [c \in Client |-> NoPin]
  /\ writes = 0
  /\ deleted = {}
  /\ flush = [pc |-> "idle", frame |-> 0, id |-> INVALID_PAGE_ID,
              before |-> [p \in PageId |-> 0]]

(***************************************************************************)
(* NewPage and FetchPage                                                   *)
(***************************************************************************)
(* The frames a page can be put into: the free ones if there are any, else *)
(* the ones the replacer may give up.                                      *)
Candidates == IF free_list_ # {} THEN free_list_ ELSE replacer.evictable

(* Mutant: a dirty frame is reused without being written back.             *)
WrittenBackNever(f) == disk

(* The disk after frame f was written back, if it is dirty.                *)
WrittenBack(f) ==
  IF pages_[f].is_dirty_
  THEN [disk EXCEPT ![pages_[f].page_id_] = pages_[f].data_]
  ELSE disk

(* The page table without page p.                                          *)
Unmapped(p) == [q \in PageId |-> IF q = p THEN NoFrame ELSE page_table_[q]]

(* Mutant: the frame is not set non-evictable.                             *)
AccessedEvictable(r, f) == R!RecordAccess(r, f)

(* An accessed frame is not evictable.                                     *)
Accessed(r, f) == R!SetEvictable(R!RecordAccess(r, f), f, FALSE)

(* Frame f gives up its page and takes page p, with contents d, for        *)
(* client c.                                                               *)
TakeFrame(c, f, p, d) ==
  /\ free_list_' = free_list_ \ {f}
  /\ disk' = WrittenBack(f)
  /\ page_table_' = [Unmapped(pages_[f].page_id_) EXCEPT ![p] = f]
  /\ pages_' = [pages_ EXCEPT ![f] = [page_id_ |-> p, pin_count_ |-> 1,
                                      is_dirty_ |-> FALSE, data_ |-> d]]
  /\ replacer' = Accessed(R!Forget(replacer, f), f)
  /\ pin' = [pin EXCEPT ![c] = [page |-> p, frame |-> f, wrote |-> FALSE]]

NewPgImp(c) ==
  /\ pin[c] = NoPin
  /\ next_page_id_ < MaxPages
  /\ \E f \in Candidates : TakeFrame(c, f, next_page_id_, 0)
  /\ next_page_id_' = next_page_id_ + 1
  /\ UNCHANGED <<writes, deleted, flush>>

(* A page that is not in the pool is read after the write-back.            *)
FetchMiss(c, p) ==
  /\ pin[c] = NoPin
  /\ page_table_[p] = NoFrame
  /\ \E f \in Candidates : TakeFrame(c, f, p, WrittenBack(f)[p])
  /\ UNCHANGED <<next_page_id_, writes, deleted, flush>>

FetchHit(c, p) ==
  /\ pin[c] = NoPin
  /\ page_table_[p] # NoFrame
  /\ LET f == page_table_[p]
     IN  /\ replacer' = Accessed(replacer, f)
         /\ pages_' = [pages_ EXCEPT ![f].pin_count_ = @ + 1]
         /\ pin' = [pin EXCEPT ![c] = [page |-> p, frame |-> f, wrote |-> FALSE]]
  /\ UNCHANGED <<page_table_, free_list_, next_page_id_, disk, writes, deleted, flush>>

FetchPgImp(c, p) == FetchMiss(c, p) \/ FetchHit(c, p)

(***************************************************************************)
(* Clients write through the pointer they hold.                            *)
(***************************************************************************)
WriteData(c) ==
  /\ pin[c] # NoPin
  /\ writes < MaxWrites
  /\ writes' = writes + 1
  /\ pages_' = [pages_ EXCEPT ![pin[c].frame].data_ = writes + 1]
  /\ pin' = [pin EXCEPT ![c].wrote = TRUE]
  /\ UNCHANGED <<page_table_, free_list_, replacer, next_page_id_, disk, deleted, flush>>

(***************************************************************************)
(* UnpinPage                                                               *)
(***************************************************************************)
(* UnpinPage returns false, and does nothing, for a page that is not in    *)
(* the pool or not pinned.                                                 *)
CanUnpin(p) == page_table_[p] # NoFrame /\ pages_[page_table_[p]].pin_count_ # 0

(* Mutant: is_dirty replaces the dirty flag instead of being added to it.  *)
UnpinOverwritesDirty(c, is_dirty) ==
  /\ pin[c] # NoPin
  /\ pin[c].wrote => is_dirty
  /\ pin' = [pin EXCEPT ![c] = NoPin]
  /\ LET f == page_table_[pin[c].page]
     IN  /\ pages_' = [pages_ EXCEPT ![f].pin_count_ = @ - 1,
                                     ![f].is_dirty_ = is_dirty]
         /\ replacer' = IF pages_[f].pin_count_ = 1
                        THEN R!SetEvictable(replacer, f, TRUE) ELSE replacer
  /\ UNCHANGED <<page_table_, free_list_, next_page_id_, disk, writes, deleted, flush>>

(* Client c gives up its pin.  It may call a page dirty that it did not    *)
(* write.                                                                  *)
UnpinPgImp(c, is_dirty) ==
  /\ pin[c] # NoPin
  /\ pin[c].wrote => is_dirty
  /\ pin' = [pin EXCEPT ![c] = NoPin]
  /\ LET f == page_table_[pin[c].page]
     IN  IF CanUnpin(pin[c].page)
         THEN /\ pages_' = [pages_ EXCEPT ![f].pin_count_ = @ - 1,
                                          ![f].is_dirty_ = @ \/ is_dirty]
              /\ replacer' = IF pages_[f].pin_count_ = 1
                             THEN R!SetEvictable(replacer, f, TRUE) ELSE replacer
         ELSE UNCHANGED <<pages_, replacer>>
  /\ UNCHANGED <<page_table_, free_list_, next_page_id_, disk, writes, deleted, flush>>

(***************************************************************************)
(* FlushPage and FlushAllPages                                             *)
(***************************************************************************)
(* Mutant: a page that is not marked dirty is not written.                 *)
FlushIfDirty(p) ==
  IF p # INVALID_PAGE_ID /\ page_table_[p] # NoFrame /\ pages_[page_table_[p]].is_dirty_
  THEN /\ disk' = [disk EXCEPT ![p] = pages_[page_table_[p]].data_]
       /\ pages_' = [pages_ EXCEPT ![page_table_[p]].is_dirty_ = FALSE]
  ELSE UNCHANGED <<disk, pages_>>

(* Page p is written, dirty or not; a page that is not in the pool is not. *)
Flush(p) ==
  IF p # INVALID_PAGE_ID /\ page_table_[p] # NoFrame
  THEN /\ disk' = [disk EXCEPT ![p] = pages_[page_table_[p]].data_]
       /\ pages_' = [pages_ EXCEPT ![page_table_[p]].is_dirty_ = FALSE]
  ELSE UNCHANGED <<disk, pages_>>

FlushPgImp(p) ==
  /\ Flush(p)
  /\ UNCHANGED <<page_table_, free_list_, replacer, next_page_id_,
                 pin, writes, deleted, flush>>

FlushAllBegin ==
  /\ flush.pc = "idle"
  /\ flush' = [pc |-> IF pool_size_ = 0 THEN "done" ELSE "read",
               frame |-> 0, id |-> INVALID_PAGE_ID,
               before |-> [p \in PageId |-> IF page_table_[p] = NoFrame THEN 0
                                            ELSE pages_[page_table_[p]].data_]]
  /\ UNCHANGED <<poolVars, pin, writes, deleted>>

(* The page id is read without the latch.                                  *)
FlushAllReadId ==
  /\ flush.pc = "read"
  /\ flush' = [flush EXCEPT !.pc = "flush", !.id = pages_[flush.frame].page_id_]
  /\ UNCHANGED <<poolVars, pin, writes, deleted>>

FlushAllFlush ==
  /\ flush.pc = "flush"
  /\ Flush(flush.id)
  /\ flush' = [flush EXCEPT !.pc = IF flush.frame + 1 = pool_size_ THEN "done" ELSE "read",
                            !.frame = @ + 1]
  /\ UNCHANGED <<page_table_, free_list_, replacer, next_page_id_,
                 pin, writes, deleted>>

FlushAllReturn ==
  /\ flush.pc = "done"
  /\ flush' = [pc |-> "idle", frame |-> 0, id |-> INVALID_PAGE_ID,
               before |-> [p \in PageId |-> 0]]
  /\ UNCHANGED <<poolVars, pin, writes, deleted>>

(***************************************************************************)
(* DeletePage                                                              *)
(***************************************************************************)
(* The frame's memory is reset and it goes to the free list; its page id   *)
(* and its dirty flag stay.                                                *)
DeleteMapped(p) ==
  /\ page_table_[p] # NoFrame
  /\ LET f == page_table_[p]
     IN  /\ pages_[f].pin_count_ = 0
         /\ pages_' = [pages_ EXCEPT ![f].data_ = 0]
         /\ replacer' = R!Forget(replacer, f)
         /\ page_table_' = Unmapped(p)
         /\ free_list_' = free_list_ \cup {f}
  /\ deleted' = deleted \cup {p}
  /\ UNCHANGED <<next_page_id_, disk, pin, writes, flush>>

(* Nothing to do, and true, for a page that is not in the pool.  For a     *)
(* pinned page DeletePage returns false and changes nothing.               *)
DeleteUnmapped(p) ==
  /\ page_table_[p] = NoFrame
  /\ deleted' = deleted \cup {p}
  /\ UNCHANGED <<poolVars, pin, writes, flush>>

DeletePgImp(p) == DeleteMapped(p) \/ DeleteUnmapped(p)

(***************************************************************************)
(* The specification                                                       *)
(***************************************************************************)
Allocated == 0 .. next_page_id_ - 1
Live == Allocated \ deleted

(* Clients do not use a page after it was deleted.                         *)
Next ==
  \/ \E c \in Client : NewPgImp(c)
  \/ \E c \in Client, p \in Live : FetchPgImp(c, p)
  \/ \E c \in Client : WriteData(c)
  \/ \E c \in Client, is_dirty \in BOOLEAN : UnpinPgImp(c, is_dirty)
  \/ \E p \in Live : FlushPgImp(p)
  \/ \E p \in Live : DeletePgImp(p)
  \/ FlushAllBegin
  \/ FlushAllReadId
  \/ FlushAllFlush
  \/ FlushAllReturn

Spec == Init /\ [][Next]_vars

(***************************************************************************)
(* Properties                                                              *)
(***************************************************************************)
(* The types of the variables; the frame that FlushAllPages looks at is a  *)
(* frame of the pool.                                                      *)
TypeOK ==
  /\ pages_ \in [Frame -> [page_id_ : PageId \cup {INVALID_PAGE_ID}, pin_count_ : Nat,
                           is_dirty_ : BOOLEAN, data_ : Data]]
  /\ page_table_ \in [PageId -> Frame \cup {NoFrame}]
  /\ free_list_ \subseteq Frame
  /\ replacer \in [tracked : SUBSET Frame, evictable : SUBSET Frame]
  /\ next_page_id_ \in 0 .. MaxPages
  /\ disk \in [PageId -> Data]
  /\ pin \in [Client -> Pin \cup {NoPin}]
  /\ writes \in 0 .. MaxWrites
  /\ deleted \subseteq PageId
  /\ flush \in [pc : {"idle", "read", "flush", "done"}, frame : 0 .. pool_size_,
                id : PageId \cup {INVALID_PAGE_ID}, before : [PageId -> Data]]
  /\ flush.pc \in {"read", "flush"} => flush.frame \in Frame

(* Every frame is either free or holds the page that the page table gives  *)
(* to it: no page is in two frames, and no frame is lost, although a freed *)
(* frame keeps the id of its last page and the page table is cleaned by    *)
(* that id when the frame is used again.                                   *)
FramesAgree ==
  /\ \A p \in PageId : page_table_[p] # NoFrame =>
       page_table_[p] \notin free_list_ /\ pages_[page_table_[p]].page_id_ = p
  /\ \A f \in Frame \ free_list_ :
       pages_[f].page_id_ \in PageId /\ page_table_[pages_[f].page_id_] = f

(* "false if the page pin count is <= 0 before this call, true otherwise"  *)
(* (buffer_pool_manager.h:115): the page that a client holds is in the     *)
(* frame the client has a pointer to, pinned, so that UnpinPage returns    *)
(* true.                                                                   *)
HoldersCanUnpin ==
  \A c \in Client : pin[c] # NoPin =>
    page_table_[pin[c].page] = pin[c].frame /\ pages_[pin[c].frame].pin_count_ > 0

Holders(f) == {c \in Client : pin[c] # NoPin /\ pin[c].frame = f}

(* The page under a client's pointer stays the page it asked for, and the  *)
(* pin count of a frame is the number of clients with a pointer to it.     *)
PinsAgree ==
  /\ HoldersCanUnpin
  /\ \A f \in Frame : pages_[f].pin_count_ = Cardinality(Holders(f))

(* The replacer tracks the frames that hold pages, and may give up exactly *)
(* the unpinned ones.  So a pinned page is never evicted, NewPage and      *)
(* FetchPage return nullptr only when every frame is pinned                *)
(* (buffer_pool_manager_instance.h:59-60, 78-79), and the Remove that      *)
(* DeletePage calls never throws.                                          *)
ReplacerAgrees ==
  /\ replacer.tracked = Frame \ free_list_
  /\ replacer.evictable = {f \in Frame \ free_list_ : pages_[f].pin_count_ = 0}

(* Frames, page table, free list, pins and replacer agree.                 *)
PoolAgrees == TypeOK /\ FramesAgree /\ PinsAgree /\ ReplacerAgrees

(* A page in the pool that is not marked dirty is the same on disk, unless *)
(* a client that wrote to it has not unpinned it yet: reusing the frame    *)
(* loses nothing.                                                          *)
CleanPagesOnDisk ==
  \A p \in PageId :
    /\ page_table_[p] # NoFrame
    /\ ~pages_[page_table_[p]].is_dirty_
    /\ \A c \in Client : pin[c] # NoPin /\ pin[c].page = p => ~pin[c].wrote
    => disk[p] = pages_[page_table_[p]].data_

(* What a client that fetched page p would read from it.                   *)
Current(p) ==
  IF page_table_[p] = NoFrame THEN disk[p] ELSE pages_[page_table_[p]].data_

Content == [p \in PageId |-> IF p \in Live THEN Current(p) ELSE 0]
Held == [c \in Client |-> IF pin[c] = NoPin THEN INVALID_PAGE_ID ELSE pin[c].page]

Store == INSTANCE PageStore
           WITH Zero <- 0, NoPage <- INVALID_PAGE_ID,
                live <- Live, content <- Content, held <- Held

(* The contents of a page change only when a client that holds the page    *)
(* writes to it: no eviction, write-back, fetch, flush, or deletion of     *)
(* another page changes or loses what was written.                         *)
RefinesPageStore == Store!Spec

(* "Flush all the pages in the buffer pool to disk"                        *)
(* (buffer_pool_manager_instance.h:124): when FlushAllPages returns, every *)
(* page that was in the pool when it began, and is not deleted, is on disk *)
(* as it was then or newer, although pages change frames while the ids of  *)
(* the frames are read without the latch.                                  *)
FlushAllComplete ==
  flush.pc = "done" => \A p \in Live : disk[p] >= flush.before[p]

==============================================================================
