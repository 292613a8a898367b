---------------------- MODULE ExtendibleHashTableProofs ----------------------
(***************************************************************************)
(* Proofs about ExtendibleHashTable, for every set of keys and values,     *)
(* every hash function, bucket size and number of hash bits.               *)
(***************************************************************************)
EXTENDS ExtendibleHashTable, FiniteSetTheorems, TLAPS

(* The inductive invariant.  Coherence of the directory is what makes a    *)
(* split leave both halves reachable; that keys are where they are looked  *)
(* for is what makes a split invisible to callers.                         *)
Inv ==
  /\ TypeOK
  /\ KeysAreFound
  /\ DirectoryCoherent
  /\ BucketsReachable
  /\ WithinCapacity

------------------------------------------------------------------------------
(***************************************************************************)
(* Directory indices                                                       *)
(***************************************************************************)

(* The low bits of an index are an index, bit by bit (the mask in          *)
(* IndexOf).                                                               *)
LEMMA LowBitsType ==
  ASSUME NEW d \in Nat, NEW e \in Nat, d <= e, NEW x \in Index(e)
  PROVE  /\ LowBits(x, d) \in Index(d)
         /\ \A i \in 0 .. d - 1 : LowBits(x, d)[i] = x[i]
BY DEF LowBits, Index, Bit

(* Masking with more bits first changes nothing.                           *)
LEMMA LowBitsTwice ==
  ASSUME NEW d \in Nat, NEW e \in Nat, d <= e, NEW x
  PROVE  LowBits(LowBits(x, e), d) = LowBits(x, d)
BY DEF LowBits

(* A hash has HashBits bits to mask.                                       *)
LEMMA HashLowBits ==
  ASSUME NEW k \in Key, NEW d \in 0 .. HashBits
  PROVE  LowBits(Hash[k], d) \in Index(d)
<1>1. Hash[k] \in Index(HashBits)
  BY HashAssumption DEF Index
<1> QED  BY <1>1, LowBitsType, SizeAssumption

(* The directory sends every key to a bucket.                              *)
LEMMA BucketOfType ==
  ASSUME TypeOK, NEW k \in Key
  PROVE  IndexOf(k) \in Index(global_depth_) /\ BucketOf(k) \in Bucket
BY HashLowBits DEF TypeOK, IndexOf, BucketOf

------------------------------------------------------------------------------
(***************************************************************************)
(* The operations that leave the directory alone                           *)
(***************************************************************************)

(* The constructor's single empty bucket satisfies the invariant.          *)
LEMMA InitInv == Init => Inv
<1> SUFFICES ASSUME Init PROVE Inv
  OBVIOUS
<1>1. Index(0) # {} /\ \A x \in Index(0), y \in Index(0) : x = y
  <2>1. 0 .. 0 - 1 = {}
    OBVIOUS
  <2>2. Index(0) = [{} -> Bit]
    BY <2>1 DEF Index
  <2>3. [i \in {} |-> 0] \in [{} -> Bit]
    OBVIOUS
  <2>4. \A x, y \in [{} -> Bit] : x = y
    OBVIOUS
  <2> QED  BY <2>2, <2>3, <2>4, Zenon
<1>2. TypeOK
  BY <1>1, SizeAssumption DEF Init, TypeOK, Bucket
<1>3. \A b \in Bucket : KeysIn(b) = {}
  BY DEF Init, Bucket, KeysIn
<1>4. KeysAreFound /\ WithinCapacity
  BY <1>3, FS_EmptySet, SizeAssumption DEF KeysAreFound, WithinCapacity
<1>5. DirectoryCoherent
  BY <1>1 DEF Init, DirectoryCoherent
<1>6. BucketsReachable
  BY <1>1 DEF Init, BucketsReachable, Bucket
<1> QED  BY <1>2, <1>4, <1>5, <1>6 DEF Inv

(* Find and the start of Insert change no bucket.                          *)
LEMMA TableUnchangedInv ==
  ASSUME Inv, UNCHANGED tableVars,
         inserting' \in (Key \X Value) \cup {NoInsert}
  PROVE  Inv'
<1>1. Bucket' = Bucket /\ \A b : KeysIn(b)' = KeysIn(b)
  BY DEF tableVars, Bucket, KeysIn
<1>2. \A l : BucketOf(l)' = BucketOf(l)
  BY DEF tableVars, BucketOf, IndexOf
<1>3. TypeOK'
  BY <1>1 DEF Inv, tableVars, TypeOK
<1>4. KeysAreFound' /\ WithinCapacity'
  BY <1>1, <1>2 DEF Inv, KeysAreFound, WithinCapacity
<1>5. DirectoryCoherent' /\ BucketsReachable'
  BY <1>1 DEF Inv, tableVars, DirectoryCoherent, BucketsReachable
<1> QED  BY <1>3, <1>4, <1>5 DEF Inv

(* Remove takes a key out of the one bucket it can be in.                  *)
LEMMA RemoveInv ==
  ASSUME Inv, NEW k \in Key, Remove(k)
  PROVE  Inv'
<1> USE DEF Inv
<1>1. BucketOf(k) \in Bucket
  BY BucketOfType
<1>2. TypeOK'
  BY <1>1 DEF TypeOK, Remove, Bucket
<1>3. Bucket' = Bucket /\ \A b \in Bucket : KeysIn(b)' \subseteq KeysIn(b)
  BY <1>1 DEF TypeOK, Remove, Bucket, KeysIn
<1>4. \A l : BucketOf(l)' = BucketOf(l)
  BY DEF Remove, BucketOf, IndexOf
<1>5. KeysAreFound'
  BY <1>3, <1>4 DEF KeysAreFound
<1>6. WithinCapacity'
  <2> SUFFICES ASSUME NEW b \in Bucket
               PROVE  /\ IsFiniteSet(KeysIn(b)')
                      /\ Cardinality(KeysIn(b)') <= BucketSize
    BY <1>3 DEF WithinCapacity
  <2>1. /\ IsFiniteSet(KeysIn(b)) /\ KeysIn(b)' \subseteq KeysIn(b)
        /\ Cardinality(KeysIn(b)) <= BucketSize
    BY <1>3 DEF WithinCapacity
  <2>2. IsFiniteSet(KeysIn(b)') /\ Cardinality(KeysIn(b)') <= Cardinality(KeysIn(b))
    BY <2>1, FS_Subset
  <2>3. Cardinality(KeysIn(b)') \in Nat /\ Cardinality(KeysIn(b)) \in Nat
    BY <2>1, <2>2, FS_CardinalityType
  <2> QED  BY <2>1, <2>2, <2>3, SizeAssumption
<1>7. DirectoryCoherent' /\ BucketsReachable'
  BY <1>3 DEF DirectoryCoherent, BucketsReachable, Remove
<1> QED  BY <1>2, <1>5, <1>6, <1>7

(* A successful Bucket::Insert adds at most the one key, to the bucket the *)
(* key hashes to, and only if the bucket has room.                         *)
LEMMA InsertIntoBucketInv ==
  ASSUME Inv, InsertIntoBucket
  PROVE  Inv'
<1> USE DEF Inv
<1> DEFINE k == inserting[1]
           c == BucketOf(k)
<1>1. k \in Key /\ inserting[2] \in Value
  BY DEF TypeOK, InsertIntoBucket
<1>2. c \in Bucket
  BY <1>1, BucketOfType
<1>3. TypeOK'
  BY <1>1, <1>2 DEF TypeOK, InsertIntoBucket, Bucket
<1>4. /\ Bucket' = Bucket
      /\ \A b \in Bucket : KeysIn(b)' = IF b = c THEN KeysIn(b) \cup {k} ELSE KeysIn(b)
  BY <1>1, <1>2, NotFoundAssumption DEF TypeOK, InsertIntoBucket, Bucket, KeysIn
<1>5. \A l : BucketOf(l)' = BucketOf(l)
  BY DEF InsertIntoBucket, BucketOf, IndexOf
<1>6. KeysAreFound'
  BY <1>4, <1>5 DEF KeysAreFound
<1>7. WithinCapacity'
  <2> SUFFICES ASSUME NEW b \in Bucket
               PROVE  /\ IsFiniteSet(KeysIn(b)')
                      /\ Cardinality(KeysIn(b)') <= BucketSize
    BY <1>4 DEF WithinCapacity
  <2>1. /\ IsFiniteSet(KeysIn(b)) /\ Cardinality(KeysIn(b)) <= BucketSize
        /\ Cardinality(KeysIn(b)) \in Nat
    BY FS_CardinalityType DEF WithinCapacity
  <2>2. CASE b # c \/ k \in KeysIn(b)
    <3>1. KeysIn(b)' = KeysIn(b)
      BY <2>2, <1>4
    <3> QED  BY <3>1, <2>1
  <2>3. CASE b = c /\ k \notin KeysIn(b)
    <3>1. KeysIn(b)' = KeysIn(b) \cup {k}
      BY <2>3, <1>4
    <3>2. Cardinality(KeysIn(b)) # BucketSize
      BY <2>3 DEF InsertIntoBucket, HasRoom, IsFull
    <3>3. /\ IsFiniteSet(KeysIn(b) \cup {k})
          /\ Cardinality(KeysIn(b) \cup {k}) = Cardinality(KeysIn(b)) + 1
      BY <2>1, <2>3, FS_AddElement
    <3> QED  BY <3>1, <3>2, <3>3, <2>1, SizeAssumption
  <2> QED  BY <2>2, <2>3
<1>8. DirectoryCoherent' /\ BucketsReachable'
  BY <1>4 DEF DirectoryCoherent, BucketsReachable, InsertIntoBucket
<1> QED  BY <1>3, <1>6, <1>7, <1>8

------------------------------------------------------------------------------
(***************************************************************************)
(* Splitting a bucket                                                      *)
(***************************************************************************)

(* What one iteration of Insert's loop does to the directory, entry by     *)
(* entry and key by key.                                                   *)
LEMMA SplitFacts ==
  ASSUME Inv, InsertSplit, NEW b, b = BucketOf(inserting[1]),
         NEW g, g = GrownDepth(b)
  PROVE  /\ inserting[1] \in Key /\ b \in Bucket /\ Bucket' = Bucket \cup {num_buckets_}
         /\ num_buckets_ \notin Bucket
         /\ global_depth_ \in Nat /\ depth_[b] \in Nat /\ g \in Nat /\ global_depth_' = g
         /\ global_depth_ <= g /\ depth_[b] < g /\ g <= HashBits
         /\ \A x \in Index(g) :
              /\ LowBits(x, global_depth_) \in Index(global_depth_)
              /\ \A i \in 0 .. global_depth_ - 1 : LowBits(x, global_depth_)[i] = x[i]
              /\ x[depth_[b]] \in Bit
              /\ dir_[LowBits(x, global_depth_)] \in Bucket
              /\ dir_'[x] = IF dir_[LowBits(x, global_depth_)] = b /\ x[depth_[b]] = 1
                            THEN num_buckets_ ELSE dir_[LowBits(x, global_depth_)]
<1> USE DEF Inv
<1>1. inserting[1] \in Key
  BY DEF TypeOK, InsertSplit
<1>2. b \in Bucket
  BY <1>1, BucketOfType
<1>3. /\ Bucket' = Bucket \cup {num_buckets_} /\ num_buckets_ \notin Bucket
  BY DEF InsertSplit, RedistributeBucket, TypeOK, Bucket
<1>4. /\ global_depth_ \in Nat /\ depth_[b] \in Nat /\ g \in Nat /\ global_depth_' = g
      /\ global_depth_ <= g /\ depth_[b] < g /\ g <= HashBits
  <2>1. /\ global_depth_ \in Nat /\ depth_[b] \in 0 .. global_depth_
    BY <1>2, SizeAssumption DEF TypeOK
  <2>2. global_depth_' = g /\ g <= HashBits
    BY DEF InsertSplit
  <2> QED  BY <2>1, <2>2 DEF GrownDepth
<1> SUFFICES ASSUME NEW x \in Index(g)
             PROVE  /\ LowBits(x, global_depth_) \in Index(global_depth_)
                    /\ \A i \in 0 .. global_depth_ - 1 : LowBits(x, global_depth_)[i] = x[i]
                    /\ x[depth_[b]] \in Bit
                    /\ dir_[LowBits(x, global_depth_)] \in Bucket
                    /\ dir_'[x] = IF dir_[LowBits(x, global_depth_)] = b /\ x[depth_[b]] = 1
                                  THEN num_buckets_ ELSE dir_[LowBits(x, global_depth_)]
  BY <1>1, <1>2, <1>3, <1>4
<1>5. /\ LowBits(x, global_depth_) \in Index(global_depth_)
      /\ \A i \in 0 .. global_depth_ - 1 : LowBits(x, global_depth_)[i] = x[i]
  BY <1>4, LowBitsType
<1>6. x[depth_[b]] \in Bit
  BY <1>4 DEF Index
<1>7. dir_[LowBits(x, global_depth_)] \in Bucket
  BY <1>5 DEF TypeOK
<1>8. dir_' = SplitDir(b)
  BY DEF InsertSplit, RedistributeBucket
<1>9. GrownDir(b)[x] = dir_[LowBits(x, global_depth_)]
  BY DEF GrownDir
<1> QED  BY <1>5, <1>6, <1>7, <1>8, <1>9 DEF SplitDir

(* After the split a key is looked for in its old bucket or in the new     *)
(* one, and the pairs of the split bucket are divided accordingly.         *)
LEMMA SplitKeys ==
  ASSUME Inv, InsertSplit, NEW b, b = BucketOf(inserting[1]),
         NEW n, n = num_buckets_
  PROVE  /\ \A k \in Key : \/ BucketOf(k)' = BucketOf(k)
                           \/ BucketOf(k) = b /\ BucketOf(k)' = n
         /\ Leaving(b) = {k \in KeysIn(b) : BucketOf(k)' # b}
         /\ \A c \in Bucket' : \A k \in Key : list_'[c][k] =
              IF c = n
              THEN IF k \in Leaving(b) THEN list_[b][k] ELSE NotFound
              ELSE IF c = b /\ k \in Leaving(b) THEN NotFound
              ELSE list_[c][k]
         /\ KeysIn(n)' = Leaving(b)
         /\ KeysIn(b)' = KeysIn(b) \ Leaving(b)
         /\ \A c \in Bucket \ {b} : KeysIn(c)' = KeysIn(c)
<1> DEFINE g == GrownDepth(b)
<1>1. /\ b \in Bucket /\ Bucket' = Bucket \cup {n} /\ n \notin Bucket
      /\ global_depth_ \in Nat /\ g \in 0 .. HashBits /\ global_depth_' = g /\ global_depth_ <= g
  BY SplitFacts, SizeAssumption
<1>2. ASSUME NEW k \in Key
      PROVE  /\ \/ BucketOf(k)' = BucketOf(k)
                \/ BucketOf(k) = b /\ BucketOf(k)' = n
             /\ BucketOf(k)' = SplitDir(b)[LowBits(Hash[k], g)]
  <2>1. LowBits(Hash[k], g) \in Index(g)
    BY <1>1, HashLowBits
  <2>2. BucketOf(k)' = dir_'[LowBits(Hash[k], g)]
    BY <1>1 DEF BucketOf, IndexOf
  <2>3. LowBits(LowBits(Hash[k], g), global_depth_) = IndexOf(k)
    BY <1>1, LowBitsTwice DEF IndexOf
  <2>4. dir_' = SplitDir(b)
    BY DEF InsertSplit, RedistributeBucket
  <2>5. dir_'[LowBits(Hash[k], g)] \in {BucketOf(k), n}
        /\ (dir_'[LowBits(Hash[k], g)] = n => BucketOf(k) \in {b, n})
    BY <2>1, <2>3, SplitFacts DEF BucketOf
  <2>6. BucketOf(k) \in Bucket
    BY BucketOfType DEF Inv
  <2> QED  BY <2>2, <2>4, <2>5, <2>6, <1>1
<1>3. Leaving(b) = {k \in KeysIn(b) : BucketOf(k)' # b}
  BY <1>2 DEF Leaving, KeysIn
<1>4. \A c \in Bucket' : \A k \in Key : list_'[c][k] =
              IF c = n
              THEN IF k \in Leaving(b) THEN list_[b][k] ELSE NotFound
              ELSE IF c = b /\ k \in Leaving(b) THEN NotFound
              ELSE list_[c][k]
  BY DEF InsertSplit, RedistributeBucket, Bucket, Inv, TypeOK
<1>5. Leaving(b) \subseteq KeysIn(b)
  BY DEF Leaving
<1>6. KeysIn(n)' = Leaving(b)
  BY <1>1, <1>4, <1>5 DEF KeysIn
<1>7. KeysIn(b)' = KeysIn(b) \ Leaving(b)
  BY <1>1, <1>4 DEF KeysIn
<1>8. \A c \in Bucket \ {b} : KeysIn(c)' = KeysIn(c)
  BY <1>1, <1>4 DEF KeysIn
<1> QED  BY <1>2, <1>3, <1>4, <1>6, <1>7, <1>8

(* One iteration of Insert's loop that splits preserves the invariant.     *)
LEMMA InsertSplitInv ==
  ASSUME Inv, InsertSplit
  PROVE  Inv'
<1> USE DEF Inv
<1>0. PICK b, n, g, d : /\ b = BucketOf(inserting[1]) /\ n = num_buckets_
                        /\ g = GrownDepth(b) /\ d = depth_[b]
  OBVIOUS
<1>1. /\ b \in Bucket /\ Bucket' = Bucket \cup {n} /\ n \notin Bucket
      /\ global_depth_ \in Nat /\ d \in Nat /\ g \in Nat /\ global_depth_' = g
      /\ global_depth_ <= g /\ d < g /\ g <= HashBits
  BY <1>0, SplitFacts
<1>2. \A x \in Index(g) :
        /\ LowBits(x, global_depth_) \in Index(global_depth_)
        /\ \A i \in 0 .. global_depth_ - 1 : LowBits(x, global_depth_)[i] = x[i]
        /\ x[d] \in Bit
        /\ dir_[LowBits(x, global_depth_)] \in Bucket
        /\ dir_'[x] = IF dir_[LowBits(x, global_depth_)] = b /\ x[d] = 1
                      THEN n ELSE dir_[LowBits(x, global_depth_)]
  BY <1>0, SplitFacts
<1>3. depth_' = [c \in Bucket' |-> IF c \in {b, n} THEN d + 1 ELSE depth_[c]]
  BY <1>0 DEF InsertSplit, RedistributeBucket, Bucket, TypeOK
<1>4. \A c \in Bucket : depth_[c] \in 0 .. global_depth_
  BY DEF TypeOK
<1>5. TypeOK'
  <2>1. num_buckets_' \in Nat \ {0} /\ global_depth_' \in 0 .. HashBits
    BY <1>1 DEF InsertSplit, RedistributeBucket, TypeOK
  <2>2. dir_' \in [Index(g) -> Bucket']
    <3>1. dir_' = [x \in Index(g) |-> dir_'[x]]
      BY <1>0 DEF InsertSplit, RedistributeBucket, SplitDir
    <3>2. \A x \in Index(g) : dir_'[x] \in Bucket'
      BY <1>1, <1>2
    <3> QED  BY <3>1, <3>2
  <2>3. depth_' \in [Bucket' -> 0 .. g]
    BY <1>1, <1>3, <1>4
  <2>4. list_' \in [Bucket' -> [Key -> Value \cup {NotFound}]]
    <3>1. Bucket' = 0 .. num_buckets_ /\ Bucket = 0 .. num_buckets_ - 1
      BY DEF InsertSplit, RedistributeBucket, Bucket, TypeOK
    <3>2. list_' = [c \in Bucket' |-> [k \in Key |->
                      IF c = n
                      THEN IF k \in Leaving(b) THEN list_[b][k] ELSE NotFound
                      ELSE IF c = b /\ k \in Leaving(b) THEN NotFound
                      ELSE list_[c][k]]]
      BY <3>1, <1>0 DEF InsertSplit, RedistributeBucket
    <3> QED  BY <3>2, <1>1 DEF TypeOK
  <2> QED  BY <2>1, <2>2, <2>3, <2>4, <1>1 DEF TypeOK, InsertSplit
<1>6. /\ \A k \in Key : \/ BucketOf(k)' = BucketOf(k)
                        \/ BucketOf(k) = b /\ BucketOf(k)' = n
      /\ Leaving(b) = {k \in KeysIn(b) : BucketOf(k)' # b}
      /\ KeysIn(n)' = Leaving(b)
      /\ KeysIn(b)' = KeysIn(b) \ Leaving(b)
      /\ \A c \in Bucket \ {b} : KeysIn(c)' = KeysIn(c)
  BY <1>0, SplitKeys
<1>7. KeysAreFound'
  <2> SUFFICES ASSUME NEW c \in Bucket', NEW k \in KeysIn(c)'
               PROVE  BucketOf(k)' = c
    BY DEF KeysAreFound
  <2>1. k \in Key
    BY DEF KeysIn
  <2>2. CASE c = n
    <3>1. k \in KeysIn(b) /\ BucketOf(k)' # b
      BY <2>2, <1>6
    <3>2. BucketOf(k) = b
      BY <3>1, <1>1 DEF KeysAreFound
    <3> QED  BY <2>1, <2>2, <3>1, <3>2, <1>6
  <2>3. CASE c = b
    BY <2>3, <1>6
  <2>4. CASE c \in Bucket \ {b}
    <3>1. BucketOf(k) = c
      BY <2>4, <1>6 DEF KeysAreFound
    <3> QED  BY <3>1, <2>1, <2>4, <1>6
  <2> QED  BY <2>2, <2>3, <2>4, <1>1
<1>8. WithinCapacity'
  <2> SUFFICES ASSUME NEW c \in Bucket'
               PROVE  /\ IsFiniteSet(KeysIn(c)')
                      /\ Cardinality(KeysIn(c)') <= BucketSize
    BY DEF WithinCapacity
  <2>1. PICK e \in Bucket : KeysIn(c)' \subseteq KeysIn(e)
    BY <1>1, <1>6
  <2>2. IsFiniteSet(KeysIn(e)) /\ Cardinality(KeysIn(e)) <= BucketSize
    BY DEF WithinCapacity
  <2>3. IsFiniteSet(KeysIn(c)') /\ Cardinality(KeysIn(c)') <= Cardinality(KeysIn(e))
    BY <2>1, <2>2, FS_Subset
  <2>4. Cardinality(KeysIn(c)') \in Nat /\ Cardinality(KeysIn(e)) \in Nat
    BY <2>2, <2>3, FS_CardinalityType
  <2> QED  BY <2>2, <2>3, <2>4, SizeAssumption
<1>9. DirectoryCoherent'
  <2> SUFFICES ASSUME NEW x \in Index(g), NEW y \in Index(g)
               PROVE  dir_'[x] = dir_'[y]
                        <=> \A i \in 0 .. depth_'[dir_'[x]] - 1 : x[i] = y[i]
    BY <1>1 DEF DirectoryCoherent
  <2> DEFINE lx == LowBits(x, global_depth_)
             ly == LowBits(y, global_depth_)
             Same(e) == \A i \in 0 .. e - 1 : x[i] = y[i]
  <2>1. dir_[lx] = dir_[ly] <=> Same(depth_[dir_[lx]])
    <3>1. dir_[lx] = dir_[ly] <=> \A i \in 0 .. depth_[dir_[lx]] - 1 : lx[i] = ly[i]
      BY <1>2 DEF DirectoryCoherent
    <3>2. depth_[dir_[lx]] \in 0 .. global_depth_
      BY <1>2, <1>4
    <3>3. \A i \in 0 .. depth_[dir_[lx]] - 1 : lx[i] = x[i] /\ ly[i] = y[i]
      BY <3>2, <1>1, <1>2
    <3> QED  BY <3>1, <3>3
  <2>2. dir_[lx] \in Bucket /\ dir_[ly] \in Bucket /\ x[d] \in Bit /\ y[d] \in Bit
    BY <1>2
  <2>3. CASE dir_[lx] # b
    <3>1. dir_'[x] = dir_[lx] /\ depth_'[dir_'[x]] = depth_[dir_[lx]]
      BY <2>2, <2>3, <1>1, <1>2, <1>3
    <3>2. dir_'[y] = dir_'[x] <=> dir_[ly] = dir_[lx]
      BY <2>2, <2>3, <3>1, <1>1, <1>2
    <3> QED  BY <3>1, <3>2, <2>1
  <2>4. CASE dir_[lx] = b
    <3>1. dir_'[x] \in {b, n} /\ depth_'[dir_'[x]] = d + 1
      BY <2>2, <2>4, <1>1, <1>2, <1>3
    <3>2. dir_'[y] = dir_'[x] <=> dir_[ly] = b /\ x[d] = y[d]
      BY <2>2, <2>4, <1>1, <1>2 DEF Bit
    <3>3. dir_[ly] = b <=> Same(d)
      BY <2>1, <2>4, <1>0
    <3>4. Same(d) /\ x[d] = y[d] <=> Same(d + 1)
      BY <1>1
    <3> QED  BY <3>1, <3>2, <3>3, <3>4
  <2> QED  BY <2>3, <2>4
<1>10. BucketsReachable'
  <2> SUFFICES ASSUME NEW c \in Bucket'
               PROVE  \E z \in Index(g) : dir_'[z] = c
    BY <1>1 DEF BucketsReachable
  <2>1. PICK x \in Index(global_depth_) : dir_[x] = IF c = n THEN b ELSE c
    BY <1>1 DEF BucketsReachable
  <2> DEFINE z == [i \in 0 .. g - 1 |-> IF i = d /\ c \in {b, n}
                                          THEN IF c = n THEN 1 ELSE 0
                                          ELSE IF i < global_depth_ THEN x[i] ELSE 0]
  <2>2. z \in Index(g)
    BY <1>1 DEF Index, Bit
  <2>3. depth_[dir_[x]] \in 0 .. global_depth_ /\ (c \in {b, n} => depth_[dir_[x]] = d)
    BY <2>1, <1>0, <1>1, <1>4
  <2>4. \A i \in 0 .. depth_[dir_[x]] - 1 : x[i] = LowBits(z, global_depth_)[i]
    BY <2>2, <2>3, <1>1, <1>2, SMTT(30)
  <2>5. dir_[LowBits(z, global_depth_)] = dir_[x]
    BY <2>2, <2>4, <1>2 DEF DirectoryCoherent
  <2>6. c \in {b, n} => z[d] = IF c = n THEN 1 ELSE 0
    BY <1>1
  <2>7. dir_'[z] = c
    BY <2>1, <2>2, <2>5, <2>6, <1>1, <1>2
  <2> QED  BY <2>2, <2>7
<1> QED  BY <1>5, <1>7, <1>8, <1>9, <1>10

------------------------------------------------------------------------------
(***************************************************************************)
(* The theorems                                                            *)
(***************************************************************************)

(* Every call preserves the invariant.                                     *)
LEMMA NextInv == Inv /\ [Next]_vars => Inv'
<1> SUFFICES ASSUME Inv, [Next]_vars PROVE Inv'
  OBVIOUS
<1>1. ASSUME NEW k \in Key, Find(k) PROVE Inv'
  BY <1>1, TableUnchangedInv DEF Find, Inv, TypeOK
<1>2. ASSUME NEW k \in Key, Remove(k) PROVE Inv'
  BY <1>2, RemoveInv
<1>3. ASSUME NEW k \in Key, NEW v \in Value, InsertBegin(k, v) PROVE Inv'
  BY <1>3, TableUnchangedInv DEF InsertBegin
<1>4. CASE InsertIntoBucket
  BY <1>4, InsertIntoBucketInv
<1>5. CASE InsertSplit
  BY <1>5, InsertSplitInv
<1>6. CASE UNCHANGED vars
  BY <1>6, TableUnchangedInv DEF vars, tableVars, Inv, TypeOK
<1> QED  BY <1>1, <1>2, <1>3, <1>4, <1>5, <1>6 DEF Next

(* The invariant holds in every state of the hash table.                   *)
THEOREM Invariance == Spec => []Inv
BY InitInv, NextInv, PTL DEF Spec

(* The members of the table keep their types: in particular no local depth *)
(* passes the global depth, and every directory entry is a live bucket.    *)
THEOREM TypeCorrect == Spec => []TypeOK
<1>1. Inv => TypeOK
  BY DEF Inv
<1> QED  BY <1>1, Invariance, PTL

(* However Insert doubles and splits, each stored key stays in the bucket  *)
(* that Find and Remove look at.                                           *)
THEOREM KeysStayFound == Spec => []KeysAreFound
<1>1. Inv => KeysAreFound
  BY DEF Inv
<1> QED  BY <1>1, Invariance, PTL

(* The directory is coherent, num_buckets_ counts reachable buckets only,  *)
(* and no bucket overflows.                                                *)
THEOREM DirectoryStaysCoherent ==
  Spec => [](DirectoryCoherent /\ BucketsReachable /\ WithinCapacity)
<1>1. Inv => DirectoryCoherent /\ BucketsReachable /\ WithinCapacity
  BY DEF Inv
<1> QED  BY <1>1, Invariance, PTL

(* A full bucket at the full depth of the mask would hold, with the key    *)
(* being inserted, more keys of equal hash than the hash function allows.  *)
LEMMA InvCanAlwaysSplit == Inv => CanAlwaysSplit
<1> USE DEF Inv
<1> SUFFICES ASSUME Inv, inserting # NoInsert,
                    NEW b, b = BucketOf(inserting[1]),
                    ~HasRoom(b, inserting[1]),
                    ~(GrownDepth(b) <= HashBits)
             PROVE  FALSE
  BY DEF CanAlwaysSplit
<1> DEFINE S == KeysIn(b) \cup {inserting[1]}
<1>1. inserting[1] \in Key /\ b \in Bucket
  BY BucketOfType DEF TypeOK
<1>2. depth_[b] = global_depth_ /\ global_depth_ = HashBits
  BY <1>1, SizeAssumption DEF GrownDepth, TypeOK
<1>3. \A k \in S : k \in Key /\ BucketOf(k) = b
  BY <1>1 DEF KeysAreFound, KeysIn
<1>4. ASSUME NEW k \in S, NEW l \in S PROVE Hash[k] = Hash[l]
  <2>1. IndexOf(k) \in Index(HashBits) /\ IndexOf(l) \in Index(HashBits)
        /\ dir_[IndexOf(k)] = b /\ dir_[IndexOf(l)] = b
    BY <1>2, <1>3, BucketOfType DEF BucketOf
  <2>2. \A i \in 0 .. HashBits - 1 : IndexOf(k)[i] = IndexOf(l)[i]
    BY <1>2, <2>1 DEF DirectoryCoherent
  <2>3. \A i \in 0 .. HashBits - 1 : IndexOf(k)[i] = Hash[k][i] /\ IndexOf(l)[i] = Hash[l][i]
    BY <1>2 DEF IndexOf, LowBits
  <2>4. Hash[k] \in [0 .. HashBits - 1 -> Bit] /\ Hash[l] \in [0 .. HashBits - 1 -> Bit]
    BY <1>3, HashAssumption
  <2>5. /\ Hash[k] = [i \in 0 .. HashBits - 1 |-> Hash[k][i]]
        /\ Hash[l] = [i \in 0 .. HashBits - 1 |-> Hash[l][i]]
    BY <2>4, Zenon
  <2>6. \A i \in 0 .. HashBits - 1 : Hash[k][i] = Hash[l][i]
    BY <2>2, <2>3
  <2> QED  BY <2>5, <2>6
<1>5. /\ IsFiniteSet(KeysIn(b)) /\ inserting[1] \notin KeysIn(b)
      /\ Cardinality(KeysIn(b)) = BucketSize
  BY <1>1 DEF WithinCapacity, HasRoom, IsFull
<1>6. IsFiniteSet(S) /\ Cardinality(S) = BucketSize + 1
  BY <1>5, FS_AddElement
<1>7. Cardinality(S) <= BucketSize
  BY <1>3, <1>4, <1>6, SpreadAssumption
<1> QED  BY <1>6, <1>7, SizeAssumption

(* Insert never needs more hash bits than the int mask of IndexOf has.     *)
THEOREM InsertCanAlwaysSplit == Spec => []CanAlwaysSplit
BY InvCanAlwaysSplit, Invariance, PTL

(* So the whole table stays coherent, whatever the keys, the hash function *)
(* and the size of a bucket.                                               *)
THEOREM TableStaysCoherent == Spec => []TableCoherent
BY TypeCorrect, DirectoryStaysCoherent, InsertCanAlwaysSplit, PTL DEF TableCoherent

(* The initial table is the empty map, and each step of the table is a     *)
(* step of the map or one that its callers cannot see.                     *)
LEMMA InitRefines == Init => Map!Init
<1> SUFFICES ASSUME Init PROVE Map!Init
  OBVIOUS
<1>1. \A k \in Key : BucketOf(k) \in Bucket
  BY InitInv, BucketOfType DEF Inv
<1>2. \A k \in Key : list_[BucketOf(k)][k] = NotFound
  BY <1>1 DEF Init, Bucket
<1> QED  BY <1>2 DEF Map!Init, Contents, Init, NoCall, Map!NoCall

LEMMA NextRefines == Inv /\ [Next]_vars => [Map!Next]_(Map!vars)
<1> SUFFICES ASSUME Inv, [Next]_vars PROVE [Map!Next]_(Map!vars)
  OBVIOUS
<1> USE DEF Contents
<1>1. ASSUME UNCHANGED tableVars PROVE Contents' = Contents
  BY <1>1 DEF tableVars, BucketOf, IndexOf
<1>2. \A k \in Key : BucketOf(k) \in Bucket
  BY BucketOfType DEF Inv
<1>3. ASSUME NEW k \in Key, Find(k) PROVE Map!Find(k)
  BY <1>1, <1>3 DEF Find, Map!Find
<1>4. ASSUME NEW k \in Key, NEW v,
             list_' = [list_ EXCEPT ![BucketOf(k)][k] = v],
             UNCHANGED <<global_depth_, dir_>>
      PROVE  Contents' = [Contents EXCEPT ![k] = v]
  <2>1. \A l \in Key : BucketOf(l)' = BucketOf(l)
    BY <1>4 DEF BucketOf, IndexOf
  <2>2. \A l \in Key : list_'[BucketOf(l)][l] = IF l = k THEN v ELSE list_[BucketOf(l)][l]
    BY <1>2, <1>4 DEF Inv, TypeOK
  <2> QED  BY <2>1, <2>2, Zenon
<1>5. ASSUME NEW k \in Key, Remove(k) PROVE Map!Remove(k)
  BY <1>4, <1>5, Zenon DEF Remove, Map!Remove
<1>6. CASE InsertIntoBucket
  <2>1. PICK k \in Key, v \in Value : inserting[1] = k /\ inserting[2] = v
    BY <1>6 DEF InsertIntoBucket, Inv, TypeOK
  <2>2. Map!Insert(k, v)
    BY <1>4, <1>6, <2>1, Zenon DEF InsertIntoBucket, Map!Insert
  <2> QED  BY <2>2 DEF Map!Next
<1>7. CASE InsertSplit
  <2>1. PICK b, n : b = BucketOf(inserting[1]) /\ n = num_buckets_
    OBVIOUS
  <2>2. b \in Bucket /\ Bucket' = Bucket \cup {n} /\ n \notin Bucket
    BY <1>7, <2>1, SplitFacts
  <2>3. ASSUME NEW k \in Key
        PROVE  list_'[BucketOf(k)'][k] = list_[BucketOf(k)][k]
    <3>1. CASE BucketOf(k)' = BucketOf(k)
      <4>1. BucketOf(k) = b => k \notin Leaving(b)
        BY <1>7, <2>1, <3>1, SplitKeys
      <4> QED  BY <1>2, <1>7, <2>1, <2>2, <3>1, <4>1, SplitKeys
    <3>2. CASE BucketOf(k) = b /\ BucketOf(k)' = n
      <4>1. k \in Leaving(b) <=> list_[b][k] # NotFound
        BY <1>7, <2>1, <2>2, <3>2, SplitKeys DEF KeysIn
      <4> QED  BY <1>7, <2>1, <2>2, <3>2, <4>1, SplitKeys
    <3> QED  BY <1>7, <2>1, <3>1, <3>2, SplitKeys
  <2>4. Contents' = Contents /\ ret' = ret
    BY <1>7, <2>3 DEF InsertSplit
  <2> QED  BY <2>4 DEF Map!vars
<1>8. ASSUME NEW k \in Key, NEW v \in Value, InsertBegin(k, v)
      PROVE  UNCHANGED Map!vars
  BY <1>1, <1>8 DEF InsertBegin, Map!vars
<1>9. CASE UNCHANGED vars
  BY <1>1, <1>9 DEF vars, tableVars, Map!vars
<1> QED  BY <1>3, <1>5, <1>6, <1>7, <1>8, <1>9 DEF Next, Map!Next

(* The extendible hash table implements the map its callers rely on.       *)
THEOREM TableRefinesMap == Spec => RefinesMap
BY InitRefines, NextRefines, Invariance, PTL DEF Spec, RefinesMap, Map!Spec

==============================================================================
