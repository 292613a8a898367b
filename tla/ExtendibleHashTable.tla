------------------------- MODULE ExtendibleHashTable -------------------------
(***************************************************************************)
(* The in-memory extendible hash table of                                  *)
(* src/container/hash/extendible_hash_table.cpp, which the buffer pool     *)
(* uses as its page table.                                                 *)
(*                                                                         *)
(* A directory index of d bits is written in binary: a function from the   *)
(* bit positions 0 .. d-1 to {0, 1}, position 0 the least significant.     *)
(* So "hash & ((1 << d) - 1)" is the restriction of the hash to its low d  *)
(* bits, and "(i >> c) & 1" is the bit i[c].  A bucket is a number; its    *)
(* list of pairs, whose keys are distinct and whose order no caller sees,  *)
(* is a function from keys to a value or NotFound.                         *)
(*                                                                         *)
(* Every operation holds latch_ from beginning to end.  Find and Remove    *)
(* are one step each.  Insert retries in a loop while it holds the latch,  *)
(* so each iteration is a step, and "inserting" is the pair of the Insert  *)
(* that holds the latch.                                                   *)
(***************************************************************************)
EXTENDS Integers, FiniteSets

CONSTANTS
  Key, Value, NotFound,
  Hash,        \* Hash[k][i] is bit i of the hash of key k
  HashBits,    \* number of hash bits that an int mask can select
  BucketSize,  \* bucket_size_, the capacity of a bucket
  NoInsert     \* no Insert is under way: latch_ is free

Bit == {0, 1}

ASSUME NotFoundAssumption == NotFound \notin Value
ASSUME NoInsertAssumption == NoInsert \notin Key \X Value
ASSUME SizeAssumption == BucketSize \in Nat \ {0} /\ HashBits \in Nat
ASSUME HashAssumption == Hash \in [Key -> [0 .. HashBits - 1 -> Bit]]

(* No more keys than fit in one bucket have hashes equal in all HashBits   *)
(* bits.  std::hash<int> is the identity, so for int keys each such class  *)
(* has at most two members, and the buffer pool's buckets hold four.       *)
ASSUME SpreadAssumption ==
  \A S \in SUBSET Key :
    /\ IsFiniteSet(S)
    /\ \A k, l \in S : Hash[k] = Hash[l]
    => Cardinality(S) <= BucketSize

VARIABLES
  global_depth_,  \* number of hash bits the directory uses
  dir_,           \* directory index -> bucket
  num_buckets_,   \* the buckets are 0 .. num_buckets_ - 1
  depth_,         \* bucket -> its local depth
  list_,          \* bucket -> key -> value or NotFound
  inserting,      \* the <<key, value>> being inserted, or NoInsert
  ret             \* the last call that returned, with its result

vars == <<global_depth_, dir_, num_buckets_, depth_, list_, inserting, ret>>
tableVars == <<global_depth_, dir_, num_buckets_, depth_, list_>>

Bucket == 0 .. num_buckets_ - 1

(* The directory indices of d bits, and the low d bits of a longer one.    *)
Index(d) == [0 .. d - 1 -> Bit]
LowBits(x, d) == [i \in 0 .. d - 1 |-> x[i]]

(* The bucket that the directory selects for key k.                        *)
IndexOf(k) == LowBits(Hash[k], global_depth_)
BucketOf(k) == dir_[IndexOf(k)]

(* The keys in bucket b, and whether Bucket::Insert has room for key k.    *)
KeysIn(b) == {k \in Key : list_[b][k] # NotFound}
IsFull(b) == Cardinality(KeysIn(b)) = BucketSize
HasRoom(b, k) == k \in KeysIn(b) \/ ~IsFull(b)

NoCall == [op |-> "none"]

Init ==
  /\ global_depth_ = 0
  /\ dir_ = [x \in Index(0) |-> 0]
  /\ num_buckets_ = 1
  /\ depth_ = [b \in 0 .. 0 |-> 0]
  /\ list_ = [b \in 0 .. 0 |-> [k \in Key |-> NotFound]]
  /\ inserting = NoInsert
  /\ ret = NoCall

(***************************************************************************)
(* Find and Remove: one look at the bucket the key hashes to.              *)
(***************************************************************************)
Find(k) ==
  /\ inserting = NoInsert
  /\ ret' = [op |-> "Find", key |-> k, value |-> list_[BucketOf(k)][k]]
  /\ UNCHANGED <<tableVars, inserting>>

Remove(k) ==
  /\ inserting = NoInsert
  /\ list_' = [list_ EXCEPT ![BucketOf(k)][k] = NotFound]
  /\ ret' = [op |-> "Remove", key |-> k,
             found |-> list_[BucketOf(k)][k] # NotFound]
  /\ UNCHANGED <<global_depth_, dir_, num_buckets_, depth_, inserting>>

(***************************************************************************)
(* Insert: take the latch, then split the key's bucket until the pair      *)
(* fits in the bucket its key then hashes to.                              *)
(***************************************************************************)
InsertBegin(k, v) ==
  /\ inserting = NoInsert
  /\ inserting' = <<k, v>>
  /\ UNCHANGED <<tableVars, ret>>

(* Bucket::Insert succeeds: it replaces the key's value or appends a pair. *)
InsertIntoBucket ==
  /\ inserting # NoInsert
  /\ LET k == inserting[1]
     IN  /\ HasRoom(BucketOf(k), k)
         /\ list_' = [list_ EXCEPT ![BucketOf(k)][k] = inserting[2]]
         /\ ret' = [op |-> "Insert", key |-> k]
  /\ inserting' = NoInsert
  /\ UNCHANGED <<global_depth_, dir_, num_buckets_, depth_>>

(* The directory after the doubling that a full bucket b of global depth   *)
(* needs first; a shallower bucket needs none.                             *)
GrownDepth(b) == IF depth_[b] = global_depth_ THEN global_depth_ + 1
                                              ELSE global_depth_
GrownDir(b) ==
  [x \in Index(GrownDepth(b)) |-> dir_[LowBits(x, global_depth_)]]

(* RedistributeBucket: the entries of bucket b with a 1 in the bit that    *)
(* its new depth adds go to the new bucket, and the pairs follow them.     *)
(* Mutant: the bit tested is the directory's last, not the bucket's.       *)
SplitDirLastBit(b) ==
  [x \in Index(GrownDepth(b)) |->
     IF GrownDir(b)[x] = b /\ x[GrownDepth(b) - 1] = 1 THEN num_buckets_
                                                       ELSE GrownDir(b)[x]]
SplitDir(b) ==
  [x \in Index(GrownDepth(b)) |->
     IF GrownDir(b)[x] = b /\ x[depth_[b]] = 1 THEN num_buckets_
                                               ELSE GrownDir(b)[x]]
(* Mutant: the pairs stay in the old bucket.                               *)
LeavingNone(b) == {}
Leaving(b) ==
  {k \in KeysIn(b) : SplitDir(b)[LowBits(Hash[k], GrownDepth(b))] # b}

(* Mutant: the pairs that leave the old bucket are not inserted in the new *)
(* one.                                                                    *)
RedistributeDropsPairs(b) ==
  /\ num_buckets_' = num_buckets_ + 1
  /\ depth_' = [c \in 0 .. num_buckets_ |->
                  IF c \in {b, num_buckets_} THEN depth_[b] + 1 ELSE depth_[c]]
  /\ dir_' = SplitDir(b)
  /\ list_' = [c \in 0 .. num_buckets_ |-> [k \in Key |->
                  IF c = num_buckets_ \/ (c = b /\ k \in Leaving(b))
                  THEN NotFound ELSE list_[c][k]]]
(* Mutant: only a bucket for which the directory has just doubled is split.*)
RedistributeDeepest(b) ==
  IF depth_[b] = global_depth_
  THEN /\ num_buckets_' = num_buckets_ + 1
       /\ depth_' = [c \in 0 .. num_buckets_ |->
                       IF c \in {b, num_buckets_} THEN depth_[b] + 1 ELSE depth_[c]]
       /\ dir_' = SplitDir(b)
       /\ list_' = [c \in 0 .. num_buckets_ |-> [k \in Key |->
                       IF c = num_buckets_
                       THEN IF k \in Leaving(b) THEN list_[b][k] ELSE NotFound
                       ELSE IF c = b /\ k \in Leaving(b) THEN NotFound
                       ELSE list_[c][k]]]
  ELSE UNCHANGED <<num_buckets_, depth_, dir_, list_>>

RedistributeBucket(b) ==
  /\ num_buckets_' = num_buckets_ + 1
  /\ depth_' = [c \in 0 .. num_buckets_ |->
                  IF c \in {b, num_buckets_} THEN depth_[b] + 1 ELSE depth_[c]]
  /\ dir_' = SplitDir(b)
  /\ list_' = [c \in 0 .. num_buckets_ |-> [k \in Key |->
                  IF c = num_buckets_
                  THEN IF k \in Leaving(b) THEN list_[b][k] ELSE NotFound
                  ELSE IF c = b /\ k \in Leaving(b) THEN NotFound
                  ELSE list_[c][k]]]

(* The mask (1 << global_depth_) - 1 is an int, so the directory has       *)
(* nowhere to grow once it uses HashBits bits.                             *)
InsertSplit ==
  /\ inserting # NoInsert
  /\ LET b == BucketOf(inserting[1])
     IN  /\ ~HasRoom(b, inserting[1])
         /\ GrownDepth(b) <= HashBits
         /\ global_depth_' = GrownDepth(b)
         /\ RedistributeBucket(b)
  /\ UNCHANGED <<inserting, ret>>

Next ==
  \/ \E k \in Key : Find(k)
  \/ \E k \in Key : Remove(k)
  \/ \E k \in Key, v \in Value : InsertBegin(k, v)
  \/ InsertIntoBucket
  \/ InsertSplit

Spec == Init /\ [][Next]_vars

(* The thread in Insert runs on: its loop neither blocks nor gives up the  *)
(* latch.                                                                  *)
FairSpec == Spec /\ WF_vars(InsertIntoBucket) /\ WF_vars(InsertSplit)

(***************************************************************************)
(* Properties                                                              *)
(***************************************************************************)
TypeOK ==
  /\ global_depth_ \in 0 .. HashBits
  /\ num_buckets_ \in Nat \ {0}
  /\ dir_ \in [Index(global_depth_) -> Bucket]
  /\ depth_ \in [Bucket -> 0 .. global_depth_]
  /\ list_ \in [Bucket -> [Key -> Value \cup {NotFound}]]
  /\ inserting \in (Key \X Value) \cup {NoInsert}

(* Splitting loses and misplaces no key: every key stored in a bucket is   *)
(* in the bucket that Find and Remove look at, whatever sequence of        *)
(* doublings and splits, several within one Insert, came before.           *)
KeysAreFound ==
  \A b \in Bucket : \A k \in KeysIn(b) : BucketOf(k) = b

(* The directory is coherent: two entries point to the same bucket exactly *)
(* when they agree in as many low bits as the bucket's local depth.  (It   *)
(* is what HashTableDirectoryPage::VerifyIntegrity checks by counting.)    *)
DirectoryCoherent ==
  \A x, y \in Index(global_depth_) :
    dir_[x] = dir_[y] <=> \A i \in 0 .. depth_[dir_[x]] - 1 : x[i] = y[i]

(* num_buckets_, which RedistributeBucket increments, counts the buckets   *)
(* the directory still reaches: no split leaves one unreferenced.          *)
BucketsReachable ==
  \A b \in Bucket : \E x \in Index(global_depth_) : dir_[x] = b

(* No bucket holds more pairs than bucket_size_; IsFull tests equality, so *)
(* a bucket past its capacity would never be full again.                   *)
WithinCapacity ==
  \A b \in Bucket : IsFiniteSet(KeysIn(b))
                      /\ Cardinality(KeysIn(b)) <= BucketSize

(* An Insert that must split always has a further hash bit to split on:    *)
(* the loop in Insert never shifts past the width of the int mask.         *)
CanAlwaysSplit ==
  inserting # NoInsert =>
    LET b == BucketOf(inserting[1])
    IN  ~HasRoom(b, inserting[1]) => GrownDepth(b) <= HashBits

(* The directory, the buckets and the counter of buckets agree after every *)
(* step of an Insert that doubles and splits, and the next step can be     *)
(* taken.                                                                  *)
TableCoherent ==
  TypeOK /\ DirectoryCoherent /\ BucketsReachable /\ WithinCapacity /\ CanAlwaysSplit

(* The table behaves as a map: Find returns what the last Insert of the    *)
(* key stored, Remove reports what was there, and a split changes nothing  *)
(* a caller can see.                                                       *)
Contents == [k \in Key |-> list_[BucketOf(k)][k]]
Map == INSTANCE KeyValueMap WITH map <- Contents
RefinesMap == Map!Spec

(* Insert returns: "while (true)" leaves its loop, and with it the latch.  *)
InsertReturns == (inserting # NoInsert) ~> (inserting = NoInsert)

==============================================================================
