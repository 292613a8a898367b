------------------------ MODULE MCExtendibleHashTable ------------------------
(***************************************************************************)
(* A small instance of ExtendibleHashTable: int keys, whose std::hash is   *)
(* the identity, buckets of one and a mask of three bits.  Keys 0 and 4    *)
(* agree in two bits, so that one Insert splits three times; 1 and 3 then  *)
(* split a bucket that is shallower than the directory.                    *)
(***************************************************************************)
EXTENDS ExtendibleHashTable

MCHashBits == 3
MCKey == {0, 1, 3, 4}

(* std::hash<int>, bit by bit.                                             *)
MCHash == [k \in MCKey |-> [i \in 0 .. MCHashBits - 1 |-> (k \div 2^i) % 2]]

==============================================================================
