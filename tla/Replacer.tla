------------------------------- MODULE Replacer -------------------------------
(***************************************************************************)
(* What the buffer pool relies on of its replacer, whatever the policy:    *)
(* the replacer tracks frames, some of them evictable; Evict gives up an   *)
(* evictable frame if there is one.  LRUKReplacer implements this, and     *)
(* BufferPoolManager is written over it.                                   *)
(*                                                                         *)
(* Each call is an operator on the replacer's state, a record, because a   *)
(* buffer pool operation makes several calls under one latch.              *)
(***************************************************************************)
EXTENDS Integers

CONSTANTS
  Frame,      \* the frame ids that callers pass, integers
  NumFrames   \* the number of frames the replacer was built for

VARIABLES
  replacer,   \* [tracked |-> set of frames, evictable |-> subset of it]
  ret         \* the last call that returned, with its result

vars == <<replacer, ret>>

Empty == [tracked |-> {}, evictable |-> {}]

(* A frame accessed for the first time is tracked, and evictable at first. *)
RecordAccess(r, f) ==
  [tracked   |-> r.tracked \cup {f},
   evictable |-> IF f \in r.tracked THEN r.evictable ELSE r.evictable \cup {f}]

SetEvictable(r, f, e) ==
  [r EXCEPT !.evictable = IF f \in r.tracked /\ e THEN @ \cup {f} ELSE @ \ {f}]

(* Removing a frame, by Remove or by Evict.                                *)
Forget(r, f) ==
  [tracked |-> r.tracked \ {f}, evictable |-> r.evictable \ {f}]

(***************************************************************************)
(* As a component of its own: any sequence of calls, one at a time.        *)
(***************************************************************************)
NoCall == [op |-> "none"]

Init ==
  /\ replacer = Empty
  /\ ret = NoCall

DoRecordAccess(f) ==
  /\ f <= NumFrames
  /\ replacer' = RecordAccess(replacer, f)
  /\ ret' = [op |-> "RecordAccess"]

(* Frame ids above the number of frames are refused.                       *)
DoRecordAccessThrows(f) ==
  /\ f > NumFrames
  /\ UNCHANGED replacer
  /\ ret' = [op |-> "RecordAccessThrows"]

DoSetEvictable(f, e) ==
  /\ f \in replacer.tracked
  /\ replacer' = SetEvictable(replacer, f, e)
  /\ ret' = [op |-> "SetEvictable"]

(* A frame that is not tracked is ignored.  lru_k_replacer.h has an        *)
(* exception or an abort for ids that are not valid; the code ignores      *)
(* those too, and the pool, which passes its own frames, never meets them. *)
DoSetEvictableIgnored(f) ==
  /\ f \notin replacer.tracked
  /\ UNCHANGED replacer
  /\ ret' = [op |-> "SetEvictable"]

(* Evict fails only when no frame is evictable.                            *)
DoEvict ==
  \/ \E f \in replacer.evictable :
       /\ replacer' = Forget(replacer, f)
       /\ ret' = [op |-> "Evict", victim |-> f]
  \/ /\ replacer.evictable = {}
     /\ UNCHANGED replacer
     /\ ret' = [op |-> "EvictNone"]

(* Remove throws on a frame that is tracked and not evictable.             *)
DoRemove(f) ==
  \/ /\ f \in replacer.tracked => f \in replacer.evictable
     /\ replacer' = Forget(replacer, f)
     /\ ret' = [op |-> "Remove"]
  \/ /\ f \in replacer.tracked \ replacer.evictable
     /\ UNCHANGED replacer
     /\ ret' = [op |-> "RemoveThrows"]

Next ==
  \/ \E f \in Frame : \/ DoRecordAccess(f)
                      \/ DoRecordAccessThrows(f)
                      \/ \E e \in BOOLEAN : DoSetEvictable(f, e)
                      \/ DoSetEvictableIgnored(f)
                      \/ DoRemove(f)
  \/ DoEvict

Spec == Init /\ [][Next]_vars

==============================================================================
