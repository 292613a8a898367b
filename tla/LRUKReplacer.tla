----------------------------- MODULE LRUKReplacer -----------------------------
(***************************************************************************)
(* The LRU-K replacer of src/buffer/lru_k_replacer.cpp.                    *)
(*                                                                         *)
(* history and lru are its two linked lists without their sentinels, head  *)
(* first.  The fields of a Frame node (timestamps_, record_cnt_,           *)
(* evictable_) are functions of the frame; for a frame that is not in mp_  *)
(* they have the values that a new node starts with.                       *)
(*                                                                         *)
(* Every call holds latch_ from beginning to end.  latch_ is therefore     *)
(* free between steps, except after the one call that locks it twice.      *)
(***************************************************************************)
EXTENDS Integers, FiniteSets, Sequences

CONSTANTS
  Frame,          \* the frame ids that callers pass
  replacer_size_, \* the number of frames the replacer was built for
  k_,             \* the lookback constant
  MaxTimestamp    \* bound on the number of accesses

ASSUME FrameAssumption == Frame \subseteq Nat
ASSUME SizeAssumption == replacer_size_ \in Nat \ {0} /\ k_ \in Nat \ {0} /\ MaxTimestamp \in Nat

VARIABLES
  current_timestamp_,
  curr_size_,     \* what Size() returns
  tot_size_,      \* frames in the two lists
  mp_,            \* the frames with a node
  history,        \* frames with fewer than k_ accesses
  lru,            \* the others
  timestamps_,    \* the last k_ accesses of each frame, oldest first
  record_cnt_,    \* the number of accesses of each frame
  evictable_,
  latch_,         \* "free" or "deadlocked"
  ret             \* the last call that returned, with its result

vars == <<current_timestamp_, curr_size_, tot_size_, mp_, history, lru,
          timestamps_, record_cnt_, evictable_, latch_, ret>>

NoCall == [op |-> "none"]

Init ==
  /\ current_timestamp_ = 0 /\ curr_size_ = 0 /\ tot_size_ = 0
  /\ mp_ = {}
  /\ history = <<>> /\ lru = <<>>
  /\ timestamps_ = [f \in Frame |-> <<>>]
  /\ record_cnt_ = [f \in Frame |-> 0]
  /\ evictable_ = [f \in Frame |-> TRUE]
  /\ latch_ = "free"
  /\ ret = NoCall

InList(list) == {list[i] : i \in DOMAIN list}

(* RemoveFromList unlinks a node from the list it is in.                   *)
RemoveFromList(list, f) ==
  IF f \notin InList(list) THEN list
  ELSE LET at == CHOOSE i \in DOMAIN list : list[i] = f
       IN  [i \in 1 .. Len(list) - 1 |-> IF i < at THEN list[i] ELSE list[i + 1]]

(* Mutant: nodes are linked in front of the tail sentinel.                 *)
InsertToListTail(list, f) == Append(list, f)

InsertToListHead(list, f) == <<f>> \o list

(***************************************************************************)
(* RecordAccess                                                            *)
(***************************************************************************)

(* The timestamps of frame f after an access.                              *)
Stamped(f) ==
  Append(IF Len(timestamps_[f]) = k_ THEN Tail(timestamps_[f]) ELSE timestamps_[f],
         current_timestamp_ + 1)

(* A first access enters the history list; the k-th and later ones move    *)
(* the frame to the head of the LRU list.                                  *)
RecordAccess(f) ==
  /\ latch_ = "free"
  /\ current_timestamp_ < MaxTimestamp
  /\ f <= replacer_size_
  /\ f \in mp_ \/ tot_size_ # replacer_size_
  /\ current_timestamp_' = current_timestamp_ + 1
  /\ mp_' = mp_ \cup {f}
  /\ timestamps_' = [timestamps_ EXCEPT ![f] = Stamped(f)]
  /\ record_cnt_' = [record_cnt_ EXCEPT ![f] = @ + 1]
  /\ LET listed == IF record_cnt_[f] = 0 THEN InsertToListHead(history, f) ELSE history
     IN  IF record_cnt_[f] + 1 >= k_
         THEN /\ history' = RemoveFromList(listed, f)
              /\ lru' = InsertToListHead(RemoveFromList(lru, f), f)
         ELSE /\ history' = listed
              /\ UNCHANGED lru
  /\ curr_size_' = IF record_cnt_[f] = 0 THEN curr_size_ + 1 ELSE curr_size_
  /\ tot_size_' = IF record_cnt_[f] = 0 THEN tot_size_ + 1 ELSE tot_size_
  /\ ret' = [op |-> "RecordAccess"]
  /\ UNCHANGED <<evictable_, latch_>>

(* A new frame when the lists are full: RecordAccess calls Evict, which    *)
(* locks the latch that RecordAccess holds.                                *)
RecordAccessWhenFull(f) ==
  /\ latch_ = "free"
  /\ current_timestamp_ < MaxTimestamp
  /\ f <= replacer_size_
  /\ f \notin mp_ /\ tot_size_ = replacer_size_
  /\ current_timestamp_' = current_timestamp_ + 1
  /\ mp_' = mp_ \cup {f}
  /\ timestamps_' = [timestamps_ EXCEPT ![f] = Stamped(f)]
  /\ record_cnt_' = [record_cnt_ EXCEPT ![f] = 1]
  /\ latch_' = "deadlocked"
  /\ UNCHANGED <<curr_size_, tot_size_, history, lru, evictable_, ret>>

RecordAccessThrows(f) ==
  /\ latch_ = "free"
  /\ f > replacer_size_
  /\ ret' = [op |-> "RecordAccessThrows"]
  /\ UNCHANGED <<current_timestamp_, curr_size_, tot_size_, mp_, history, lru,
                 timestamps_, record_cnt_, evictable_, latch_>>

(***************************************************************************)
(* SetEvictable: an id that is not in mp_, valid or not, is ignored.       *)
(***************************************************************************)
SetEvictable(f, e) ==
  /\ latch_ = "free"
  /\ evictable_' = [evictable_ EXCEPT ![f] = IF f \in mp_ THEN e ELSE @]
  /\ curr_size_' = IF f \notin mp_ \/ evictable_[f] = e THEN curr_size_
                   ELSE IF e THEN curr_size_ + 1 ELSE curr_size_ - 1
  /\ ret' = [op |-> "SetEvictable"]
  /\ UNCHANGED <<current_timestamp_, tot_size_, mp_, history, lru,
                 timestamps_, record_cnt_, latch_>>

(***************************************************************************)
(* Evict and Remove                                                        *)
(***************************************************************************)
(* Mutant: curr_size_ is not decremented.                                  *)
EraseKeepsCurrSize(f) ==
  /\ history' = RemoveFromList(history, f)
  /\ lru' = RemoveFromList(lru, f)
  /\ mp_' = mp_ \ {f}
  /\ timestamps_' = [timestamps_ EXCEPT ![f] = <<>>]
  /\ record_cnt_' = [record_cnt_ EXCEPT ![f] = 0]
  /\ evictable_' = [evictable_ EXCEPT ![f] = TRUE]
  /\ tot_size_' = tot_size_ - 1
  /\ UNCHANGED <<current_timestamp_, latch_, curr_size_>>

(* Mutant: tot_size_ is not decremented.                                   *)
EraseKeepsTotSize(f) ==
  /\ history' = RemoveFromList(history, f)
  /\ lru' = RemoveFromList(lru, f)
  /\ mp_' = mp_ \ {f}
  /\ timestamps_' = [timestamps_ EXCEPT ![f] = <<>>]
  /\ record_cnt_' = [record_cnt_ EXCEPT ![f] = 0]
  /\ evictable_' = [evictable_ EXCEPT ![f] = TRUE]
  /\ curr_size_' = curr_size_ - 1
  /\ UNCHANGED <<current_timestamp_, latch_, tot_size_>>

(* Frame f's node leaves its list and mp_, and with it its history.        *)
Erase(f) ==
  /\ history' = RemoveFromList(history, f)
  /\ lru' = RemoveFromList(lru, f)
  /\ mp_' = mp_ \ {f}
  /\ timestamps_' = [timestamps_ EXCEPT ![f] = <<>>]
  /\ record_cnt_' = [record_cnt_ EXCEPT ![f] = 0]
  /\ evictable_' = [evictable_ EXCEPT ![f] = TRUE]
  /\ tot_size_' = tot_size_ - 1
  /\ curr_size_' = curr_size_ - 1
  /\ UNCHANGED <<current_timestamp_, latch_>>

(* Mutant: the walk over a list does not look at evictable_.               *)
EvictablesAll(list) == DOMAIN list

(* Where the evictable frames of a list are: a walk that starts at the     *)
(* tail comes to the last of them first.                                   *)
Evictables(list) == {i \in DOMAIN list : evictable_[list[i]]}
Victim(list) == list[CHOOSE i \in Evictables(list) : \A j \in Evictables(list) : j <= i]

(* The history list first, then the LRU list.                              *)
Evict ==
  /\ latch_ = "free"
  /\ curr_size_ # 0
  /\ LET list == IF Evictables(history) # {} THEN history ELSE lru
     IN  /\ Evictables(list) # {}
         /\ Erase(Victim(list))
         /\ ret' = [op |-> "Evict", victim |-> Victim(list)]

(* No frame is evictable, by Size() or by the walk over both lists.        *)
EvictNone ==
  /\ latch_ = "free"
  /\ curr_size_ = 0 \/ (Evictables(history) = {} /\ Evictables(lru) = {})
  /\ ret' = [op |-> "EvictNone"]
  /\ UNCHANGED <<current_timestamp_, curr_size_, tot_size_, mp_, history, lru,
                 timestamps_, record_cnt_, evictable_, latch_>>

Remove(f) ==
  /\ latch_ = "free"
  /\ f \in mp_ /\ evictable_[f]
  /\ Erase(f)
  /\ ret' = [op |-> "Remove"]

(* Remove returns at once for a frame without a node, and throws for one   *)
(* that is not evictable.                                                  *)
RemoveNothing(f) ==
  /\ latch_ = "free"
  /\ f \in mp_ => ~evictable_[f]
  /\ ret' = [op |-> IF f \in mp_ THEN "RemoveThrows" ELSE "Remove"]
  /\ UNCHANGED <<current_timestamp_, curr_size_, tot_size_, mp_, history, lru,
                 timestamps_, record_cnt_, evictable_, latch_>>

Next ==
  \/ \E f \in Frame :
       \/ RecordAccess(f)
       \/ RecordAccessWhenFull(f)
       \/ RecordAccessThrows(f)
       \/ \E e \in BOOLEAN : SetEvictable(f, e)
       \/ Remove(f)
       \/ RemoveNothing(f)
  \/ Evict
  \/ EvictNone

Spec == Init /\ [][Next]_vars

(***************************************************************************)
(* Properties                                                              *)
(***************************************************************************)
TypeOK ==
  /\ current_timestamp_ \in 0 .. MaxTimestamp
  /\ curr_size_ \in 0 .. replacer_size_ /\ tot_size_ \in 0 .. replacer_size_
  /\ mp_ \subseteq Frame
  /\ history \in Seq(mp_) /\ lru \in Seq(mp_)
  /\ \A f \in Frame : /\ Len(timestamps_[f]) <= k_
                       /\ \A i \in DOMAIN timestamps_[f] :
                            timestamps_[f][i] \in 1 .. current_timestamp_
  /\ record_cnt_ \in [Frame -> 0 .. MaxTimestamp]
  /\ evictable_ \in [Frame -> BOOLEAN]
  /\ latch_ \in {"free", "deadlocked"}

Listed == InList(history) \cup InList(lru)

(* The two lists together hold each tracked frame once, in the list that   *)
(* its number of accesses calls for, and the counters agree with them:     *)
(* Size() is the number of evictable frames (lru_k_replacer.h:101,         *)
(* "size is equal to number of evictable entries") and tot_size_ the       *)
(* length of both lists.  Evict's early return on Size() = 0, and its two  *)
(* walks, give the same answer only because of this.                       *)
ListsAndSizesAgree ==
  /\ TypeOK
  /\ Len(history) + Len(lru) = Cardinality(Listed)
  /\ latch_ = "free" => Listed = mp_
  /\ \A f \in Listed : f \in InList(lru) <=> record_cnt_[f] >= k_
  /\ tot_size_ = Cardinality(Listed)
  /\ curr_size_ = Cardinality({f \in Listed : evictable_[f]})

(* Whatever the calls, in whatever order, the replacer does what the       *)
(* buffer pool relies on: Evict gives up a frame that is tracked and       *)
(* evictable and returns false only when there is none, and a frame that   *)
(* comes back after Evict or Remove starts afresh, evictable.              *)
Abstract == INSTANCE Replacer
              WITH NumFrames <- replacer_size_,
                   replacer <- [tracked |-> Listed,
                                evictable |-> {f \in Listed : evictable_[f]}]
RefinesReplacer == Abstract!Spec

(* A call hangs on its own latch only if a caller uses a frame id that is  *)
(* not one of the replacer_size_ frames: with the ids of a buffer pool,    *)
(* the lists are never full when a new frame is recorded.                  *)
NeverStuckWithinSize ==
  latch_ = "deadlocked" => \E f \in mp_ : f >= replacer_size_

LastAccess(f) == timestamps_[f][Len(timestamps_[f])]

(* Frame f goes before frame g: a frame with fewer than k_ accesses before *)
(* one with more; two with fewer by their first access; two with more by   *)
(* their latest access.                                                    *)
GoesBefore(f, g) ==
  IF record_cnt_[f] < k_
  THEN record_cnt_[g] >= k_ \/ timestamps_[f][1] < timestamps_[g][1]
  ELSE record_cnt_[g] >= k_ /\ LastAccess(f) < LastAccess(g)

EvictStep(A(_, _)) ==
  \A f \in mp_ \ mp_' : ret' = [op |-> "Evict", victim |-> f] =>
    \A g \in mp_ \ {f} : evictable_[g] => A(f, g)

(* The order of the lists is the order of the accesses: Evict, which never *)
(* looks at a timestamp, takes the evictable frame that goes before every  *)
(* other evictable frame, however accesses, removals and changes of        *)
(* evictability were interleaved.                                          *)
EvictionOrder == [][EvictStep(GoesBefore)]_vars

(* "Find the frame with largest backward k-distance and evict that frame"  *)
(* (lru_k_replacer.h:63): of two frames with k_ accesses, the one whose    *)
(* k-th previous access is older.                                          *)
LargerKDistance(f, g) ==
  record_cnt_[f] >= k_ /\ record_cnt_[g] >= k_ =>
    timestamps_[f][1] < timestamps_[g][1]
EvictsLargestKDistance == [][EvictStep(LargerKDistance)]_vars

==============================================================================
