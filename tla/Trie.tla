-------------------------------- MODULE Trie --------------------------------
(***************************************************************************)
(* The trie of src/include/primer/p0_trie.h, with the steps its threads    *)
(* take between acquiring and releasing latch_.                            *)
(*                                                                         *)
(* Nodes live in a heap.  A pointer std::unique_ptr<TrieNode>* is the      *)
(* address of the entry of a children_ map: it stays good when Insert puts *)
(* a TrieNodeWithValue there, and dangles once the entry is erased.  An    *)
(* address is the path to the entry and a number that tells an entry from  *)
(* the erased ones that some thread still points to.                       *)
(***************************************************************************)
EXTENDS Integers, FiniteSets, Sequences, TLC

LOCAL INSTANCE FiniteSetsExt
LOCAL INSTANCE SequencesExt

CONSTANTS
    Threads, Keys, Values, NoValue,
    MayCall(_, _, _)    \* which calls a thread may make: thread, operation, key

VARIABLES
    nodes,      \* address -> node, for the nodes that are not freed
    op,         \* thread -> what it remembers between the two halves of a call
    ret,        \* the last call that returned, with its result
    dangling    \* a freed node has been read: anything may happen from then on
vars == <<nodes, op, ret, dangling>>

Root == [path |-> <<>>, incarnation |-> 0]
Null == [path |-> <<>>, incarnation |-> -1]
Freed == <<>>    \* the heap after a freed node was read

Empty == [c \in {} |-> Null]
TrieNode(key_char) == [key_char |-> key_char, is_end |-> FALSE, value |-> NoValue, children |-> Empty]
TrieNodeWithValue(node, value) == [node EXCEPT !.is_end = TRUE, !.value = value]

Idle == [call |-> "idle", key |-> <<>>, v |-> <<>>]
NoCall == [op |-> "none"]
Result(t, call, key, ok, value) == [thread |-> t, op |-> call, key |-> key, ok |-> ok, value |-> value]

-----------------------------------------------------------------------------
(* Operations on nodes; ns is the heap.                                    *)

HasChild(ns, n, c) == c \in DOMAIN ns[n].children
HasChildren(ns, n) == DOMAIN ns[n].children # {}
GetChildNode(ns, n, c) == IF HasChild(ns, n, c) THEN ns[n].children[c] ELSE Null

\* An address that neither the heap nor a thread knows.
Referenced == UNION {Range(op[t].v) : t \in Threads}
Allocate(ns, path) ==
    LET taken == {n.incarnation : n \in {m \in DOMAIN ns \cup Referenced : m.path = path}} IN
    [path |-> path, incarnation |-> Min((0 .. Cardinality(taken)) \ taken)]
InsertChildNode(ns, n, c, child) ==
    IF HasChild(ns, n, c) THEN ns
    ELSE [ns EXCEPT ![n].children = (c :> child) @@ @] @@ (child :> TrieNode(c))

\* The entry's node is destroyed with it, and so are the nodes below.
RemoveChildNode(ns, n, c) ==
    IF ~HasChild(ns, n, c) THEN ns
    ELSE LET child == ns[n].children[c]
             rest == {m \in DOMAIN ns : ~IsPrefix(child.path, m.path)}
         IN  [m \in rest |-> IF m = n THEN [ns[m] EXCEPT !.children = [d \in DOMAIN @ \ {c} |-> @[d]]] ELSE ns[m]]

\* The nodes from the root along key, as long as there are any.
Path(ns, key) ==
    LET p[i \in 0 .. Len(key)] ==
            IF i = 0 THEN Root ELSE IF p[i - 1] = Null THEN Null ELSE GetChildNode(ns, p[i - 1], key[i])
    IN  p
Found(ns, key) == Path(ns, key)[Len(key)]

-----------------------------------------------------------------------------
(* The algorithms under the latch.                                         *)

\* One turn of Insert's loop: the child, created if it is not there.
Descend(ns, n, c) ==
    IF HasChild(ns, n, c) THEN <<ns, GetChildNode(ns, n, c)>>
    ELSE LET child == Allocate(ns, Append(n.path, c)) IN <<InsertChildNode(ns, n, c, child), child>>
Grown(ns, key) == FoldLeft(LAMBDA at, c : Descend(at[1], at[2], c), <<ns, Root>>, key)

\* Remove's loop over the collected pointers, from the last: v[i + 1] is the son on the
\* path of key's first i characters.  A node that ends another key is removed as well.
RECURSIVE RemoveUp(_, _, _, _)
RemoveUp(ns, key, v, i) ==
    LET son == v[Len(v)]
        father == v[Len(v) - 1]
    IN  IF Len(v) <= 1 THEN ns
        ELSE IF son \notin DOMAIN ns THEN Freed
        ELSE IF HasChildren(ns, son) THEN ns
        ELSE IF father \notin DOMAIN ns THEN Freed
        ELSE RemoveUp(RemoveChildNode(ns, father, key[i]), key, Front(v), i - 1)

\* The recursive form, which nothing calls.
RECURSIVE RemoveAux(_, _, _, _)
RemoveAux(ns, key, index, pre) ==
    IF index = Len(key) THEN ns
    ELSE LET below == RemoveAux(ns, key, index + 1, GetChildNode(ns, pre, key[index + 1]))
             node == GetChildNode(below, pre, key[index + 1])
         IN  IF node # Null /\ ~HasChildren(below, node) THEN RemoveChildNode(below, pre, key[index + 1]) ELSE below

-----------------------------------------------------------------------------
(* Steps of the calls.                                                     *)

Init ==
    /\ nodes = (Root :> TrieNode(""))
    /\ op = [t \in Threads |-> Idle] /\ ret = NoCall /\ dangling = FALSE

Starts(t, call, key) == ~dangling /\ op[t] = Idle /\ MayCall(t, call, key)
Return(t, call, key, ok, value) ==
    ret' = Result(t, call, key, ok, value) /\ op' = [op EXCEPT ![t] = Idle] /\ UNCHANGED dangling

\* Mutant: the value of a key that is there is overwritten.
InsertedOver(at, value) == [ok |-> TRUE, nodes |-> [at[1] EXCEPT ![at[2]] = TrieNodeWithValue(@, value)]]
Inserted(at, value) ==
    IF at[1][at[2]].is_end THEN [ok |-> FALSE, nodes |-> at[1]]
    ELSE [ok |-> TRUE, nodes |-> [at[1] EXCEPT ![at[2]] = TrieNodeWithValue(@, value)]]
Insert ==
    \E t \in Threads, key \in Keys, value \in Values :
        /\ Starts(t, "insert", key)
        /\ LET out == IF key = <<>> THEN [ok |-> FALSE, nodes |-> nodes] ELSE Inserted(Grown(nodes, key), value) IN
           nodes' = out.nodes /\ Return(t, "insert", key, out.ok, NoValue)

\* Mutant: only the last two pointers are kept.
CollectedLast(p, n) == <<p[n - 1], p[n]>>
Collected(p, n) == [i \in 1 .. n + 1 |-> p[i - 1]]
\* Under the read latch: the way to the key's node.
RemoveFind ==
    \E t \in Threads, key \in Keys :
        /\ Starts(t, "remove", key)
        /\ IF key = <<>> \/ Found(nodes, key) = Null THEN Return(t, "remove", key, FALSE, NoValue)
           ELSE /\ op' = [op EXCEPT ![t] = [call |-> "remove", key |-> key, v |-> Collected(Path(nodes, key), Len(key))]]
                /\ UNCHANGED <<ret, dangling>>
        /\ UNCHANGED nodes
\* Under the write latch: the nodes are removed.
RemoveErase ==
    \E t \in Threads :
        /\ ~dangling /\ op[t].call = "remove"
        /\ LET ns == RemoveUp(nodes, op[t].key, op[t].v, Len(op[t].key)) IN
           IF ns = Freed THEN dangling' = TRUE /\ UNCHANGED <<nodes, op, ret>>
           ELSE nodes' = ns /\ Return(t, "remove", op[t].key, TRUE, NoValue)

\* Under the read latch: the node, if it holds a value of the type asked for.
GetValueFind ==
    \E t \in Threads, key \in Keys, type \in {v.type : v \in Values} :
        /\ Starts(t, "get", key)
        /\ LET p == Found(nodes, key) IN
           IF p = Null THEN Return(t, "get", key, FALSE, NoValue)
           ELSE IF ~nodes[p].is_end THEN Return(t, "get", key, FALSE, NoValue)
           ELSE IF nodes[p].value.type # type THEN Return(t, "get", key, FALSE, NoValue)
           ELSE /\ op' = [op EXCEPT ![t] = [call |-> "get", key |-> key, v |-> <<p>>]]
                /\ UNCHANGED <<ret, dangling>>
        /\ UNCHANGED nodes
\* The latch is released before the value is read.
GetValueRead ==
    \E t \in Threads :
        /\ ~dangling /\ op[t].call = "get"
        /\ LET res == op[t].v[1] IN
           IF res \notin DOMAIN nodes THEN dangling' = TRUE /\ UNCHANGED <<op, ret>>
           ELSE Return(t, "get", op[t].key, TRUE, nodes[res].value)
        /\ UNCHANGED nodes

Next == Insert \/ RemoveFind \/ RemoveErase \/ GetValueFind \/ GetValueRead
Spec == Init /\ [][Next]_vars

-----------------------------------------------------------------------------
(* Properties.                                                             *)

\* The heap is a tree under the root whose entries are keyed by their nodes' characters,
\* and a node has a value exactly if it is an end node.
TypeOK ==
    /\ Root \in DOMAIN nodes
    /\ \A n \in DOMAIN nodes :
        /\ \A c \in DOMAIN nodes[n].children :
            LET m == nodes[n].children[c] IN m \in DOMAIN nodes /\ m.path = Append(n.path, c) /\ nodes[m].key_char = c
        /\ nodes[n].is_end <=> nodes[n].value # NoValue
    /\ \A t \in Threads : op[t].call \in {"idle", "remove", "get"}

Value(key) == LET p == Found(nodes, key) IN IF p = Null THEN NoValue ELSE nodes[p].value
Contents == [key \in Keys |-> Value(key)]

\* Insert, Remove and GetValue of several threads behave as one call after another on a
\* map would, although Remove and GetValue take two steps each.
Map == INSTANCE TypedMap WITH map <- Contents
RefinesMap == Map!Spec

\* The pointers that a thread has collected stay good until it comes back for them: what
\* others remove in between, inner nodes on its path included, is nothing it points to.
PointersGood == ~dangling /\ \A t \in Threads : Range(op[t].v) \subseteq DOMAIN nodes

\* Every node is part of a key: Remove leaves no branch behind that ends nowhere.
NoBranchLeft == \A n \in DOMAIN nodes : HasChildren(nodes, n) \/ nodes[n].is_end \/ n = Root

\* The loop of Remove erases the nodes that the recursive RemoveAux would.
LoopIsRecursion ==
    \A key \in Keys :
        (key # <<>> /\ Found(nodes, key) # Null) =>
            RemoveUp(nodes, key, [i \in 1 .. Len(key) + 1 |-> Path(nodes, key)[i - 1]], Len(key)) = RemoveAux(nodes, key, 0, Root)

\* Threads that insert, read and remove at the same time, as long as nobody else reads or
\* removes the keys that one of them removes, leave a trie: well-formed nodes, pointers
\* that stay good between the two halves of a call, no branch that ends nowhere, and no
\* difference between the two ways of removing a key.
TrieIntact == TypeOK /\ PointersGood /\ NoBranchLeft /\ LoopIsRecursion

=============================================================================
