------------------------- MODULE BustubInstanceProofs -------------------------
(***************************************************************************)
(* For any sessions and any texts, a name is created once.  The invariant  *)
(* is that the holder of the exclusive lock is the one session that is     *)
(* between the look-up and the insertion of a definition, so that what it  *)
(* has not found is still not there, and that all oids given out are below *)
(* the next one.                                                           *)
(***************************************************************************)
EXTENDS BustubInstance, FiniteSetTheorems, TLAPS

LockInv ==
    /\ catalog_lock_ \in [shared : SUBSET Sessions, exclusive : SUBSET Sessions]
    /\ \A s \in Sessions : s \in catalog_lock_.exclusive <=> pc[s] = "defining"
    /\ \A s, u \in catalog_lock_.exclusive : s = u
SessionInv ==
    /\ DOMAIN pc = Sessions /\ DOMAIN todo = Sessions /\ absent \in [Sessions -> BOOLEAN]
    /\ \A s \in Sessions : pc[s] \in {"define", "defining"} => Statement(s).kind \in Kinds
    /\ \A s \in Sessions : pc[s] = "defining" /\ absent[s] => ObjectOf(Statement(s)) \notin DOMAIN objects
CatalogInv ==
    /\ next_oid \in [Kinds -> Nat]
    /\ \A c \in created : /\ c[1] \in DOMAIN objects /\ objects[c[1]] = c[2]
                          /\ c[1][1] \in Kinds /\ c[2] \in Nat /\ c[2] < next_oid[c[1][1]]
    /\ \A c, d \in created : (c[1][1] = d[1][1] /\ c[2] = d[2]) => c = d
    /\ (\A s \in Sessions : pc[s] = "generate") => created = {}
IInv == LockInv /\ SessionInv /\ CatalogInv

\* The instance begins with an empty catalog and a free lock.
LEMMA InitInv == Init => IInv
<1> SUFFICES ASSUME Init PROVE IInv
  OBVIOUS
<1>1. LockInv
  BY DEF Init, LockInv, Free
<1>2. SessionInv
  BY DEF Init, SessionInv
<1>3. CatalogInv
  BY DEF Init, CatalogInv, Kinds
<1> QED
  BY <1>1, <1>2, <1>3 DEF IInv

\* A step of a session that neither takes nor gives back the exclusive lock.
LEMMA OtherStep ==
    ASSUME IInv, NEW s \in Sessions, NEW where, pc[s] # "defining",
           pc' = [pc EXCEPT ![s] = where], where \notin {"generate", "defining"},
           where = "define" => Head(todo'[s]).kind \in Kinds,
           DOMAIN todo' = Sessions, \A u \in Sessions \ {s} : todo'[u] = todo[u],
           catalog_lock_' \in [shared : SUBSET Sessions, exclusive : SUBSET Sessions],
           catalog_lock_'.exclusive = catalog_lock_.exclusive,
           UNCHANGED <<catalog, absent>>
    PROVE  IInv'
<1>1. \A u \in Sessions : pc'[u] = IF u = s THEN where ELSE pc[u]
  BY DEF IInv, SessionInv
<1>2. LockInv'
  BY <1>1 DEF IInv, LockInv
<1>3. SessionInv'
  BY <1>1 DEF IInv, SessionInv, Statement, ObjectOf, catalog
<1>4. CatalogInv'
  BY <1>1 DEF IInv, CatalogInv, catalog
<1> QED
  BY <1>2, <1>3, <1>4 DEF IInv

\* A session that takes the exclusive lock looks up the name it is to define.
LEMMA FindStep ==
    ASSUME IInv, DefineFind
    PROVE  IInv'
<1>1. PICK s \in Sessions :
         /\ pc[s] = "define" /\ LockExclusive(s) /\ pc' = [pc EXCEPT ![s] = "defining"] /\ todo' = todo
         /\ absent' = [absent EXCEPT ![s] = ObjectOf(Statement(s)) \notin DOMAIN objects]
  BY Zenon DEF DefineFind, At, Goto
<1>2. UNCHANGED catalog
  BY DEF DefineFind
<1>3. \A u \in Sessions : pc'[u] = IF u = s THEN "defining" ELSE pc[u]
  BY <1>1 DEF IInv, SessionInv
<1>4. /\ catalog_lock_.exclusive = {} /\ catalog_lock_'.exclusive = {s}
      /\ catalog_lock_' \in [shared : SUBSET Sessions, exclusive : SUBSET Sessions]
  BY <1>1 DEF LockExclusive, Free
<1>5. LockInv'
  BY <1>3, <1>4 DEF IInv, LockInv
<1>6. SessionInv'
  <2>1. \A u \in Sessions \ {s} : pc'[u] # "defining"
    BY <1>3, <1>4 DEF IInv, LockInv
  <2>2. absent' \in [Sessions -> BOOLEAN] /\ absent'[s] = (ObjectOf(Statement(s)) \notin DOMAIN objects)
    BY <1>1 DEF IInv, SessionInv
  <2> QED
    BY <1>1, <1>2, <1>3, <2>1, <2>2, Zenon DEF IInv, SessionInv, Statement, ObjectOf, catalog
<1>7. CatalogInv'
  BY <1>1, <1>2, <1>3 DEF IInv, CatalogInv, catalog
<1> QED
  BY <1>5, <1>6, <1>7 DEF IInv

\* The same session enters the name, which is still not there, under an oid that no other
\* has, or throws; either way it gives back the lock.
LEMMA EnterStep ==
    ASSUME IInv, DefineEnter
    PROVE  IInv'
<1>1. PICK s \in Sessions :
         /\ pc[s] = "defining" /\ Unlock(s) /\ absent' = [absent EXCEPT ![s] = FALSE]
         /\ LET object == ObjectOf(Statement(s))
                oid == next_oid[object[1]]
            IN  IF absent[s]
                THEN /\ objects' = [o \in DOMAIN objects \cup {object} |-> IF o = object THEN oid ELSE objects[o]]
                     /\ next_oid' = [next_oid EXCEPT ![object[1]] = @ + 1]
                     /\ created' = created \cup {<<object, oid>>}
                     /\ Advance(s)
                ELSE Throw(s) /\ UNCHANGED catalog
  BY Zenon DEF DefineEnter, At
<1> DEFINE object == ObjectOf(Statement(s))
           oid == next_oid[object[1]]
<1>2. object[1] \in Kinds
  <2>1. Statement(s).kind \in Kinds
    BY <1>1 DEF IInv, SessionInv
  <2>2. CASE Statement(s).kind = "create"
    BY <2>2 DEF ObjectOf, Kinds
  <2>3. CASE Statement(s).kind = "index"
    BY <2>3 DEF ObjectOf, Kinds
  <2> QED
    BY <2>1, <2>2, <2>3 DEF Kinds
<1>3. PICK where \in {"commit", "bind", "lost"} : pc' = [pc EXCEPT ![s] = where]
  BY <1>1 DEF Advance, Throw, Goto
<1>4. DOMAIN todo' = Sessions /\ \A u \in Sessions \ {s} : todo'[u] = todo[u]
  BY <1>1 DEF Advance, Throw, Goto, IInv, SessionInv
<1>5. \A u \in Sessions : pc'[u] = IF u = s THEN where ELSE pc[u]
  BY <1>3 DEF IInv, SessionInv
<1>6. \A u \in Sessions : pc'[u] # "defining"
  BY <1>1, <1>5 DEF IInv, LockInv
<1>7. LockInv'
  <2>1. /\ catalog_lock_' \in [shared : SUBSET Sessions, exclusive : SUBSET Sessions]
        /\ catalog_lock_'.exclusive = catalog_lock_.exclusive \ {s}
    BY <1>1 DEF Unlock, IInv, LockInv
  <2>2. catalog_lock_'.exclusive = {}
    BY <1>1, <2>1 DEF IInv, LockInv
  <2> QED
    BY <1>6, <2>1, <2>2 DEF LockInv
<1>8. SessionInv'
  <2>1. \A u \in Sessions : pc'[u] = "define" => Head(todo'[u]).kind \in Kinds
    BY <1>4, <1>5 DEF IInv, SessionInv, Statement
  <2>2. absent' \in [Sessions -> BOOLEAN] /\ DOMAIN pc' = Sessions
    BY <1>1, <1>3 DEF IInv, SessionInv
  <2> QED
    BY <1>4, <1>6, <2>1, <2>2 DEF SessionInv, Statement
<1>9. CatalogInv'
  <2>1. CASE ~absent[s]
    BY <1>1, <1>5, <2>1 DEF IInv, CatalogInv, catalog
  <2>2. CASE absent[s]
    <3>1. object \notin DOMAIN objects
      BY <1>1, <2>2 DEF IInv, SessionInv
    <3>2. /\ objects' = [o \in DOMAIN objects \cup {object} |-> IF o = object THEN oid ELSE objects[o]]
          /\ next_oid' = [next_oid EXCEPT ![object[1]] = next_oid[object[1]] + 1]
          /\ created' = created \cup {<<object, oid>>}
      BY <1>1, <2>2
    <3> HIDE DEF object
    <3>3. oid \in Nat /\ next_oid \in [Kinds -> Nat]
      BY <1>2 DEF IInv, CatalogInv
    <3>4. next_oid' \in [Kinds -> Nat] /\ next_oid'[object[1]] = oid + 1
      BY <1>2, <3>2, <3>3
    <3>5. \A k \in Kinds : next_oid[k] <= next_oid'[k]
      BY <1>2, <3>2, <3>3
    <3>6. \A c \in created : /\ c[1] \in DOMAIN objects' /\ objects'[c[1]] = c[2]
                             /\ c[1][1] \in Kinds /\ c[2] \in Nat /\ c[2] < next_oid'[c[1][1]]
      <4> TAKE c \in created
      <4>1. /\ c[1] \in DOMAIN objects /\ objects[c[1]] = c[2]
            /\ c[1][1] \in Kinds /\ c[2] \in Nat /\ c[2] < next_oid[c[1][1]]
        BY DEF IInv, CatalogInv
      <4>2. c[1] \in DOMAIN objects' /\ objects'[c[1]] = c[2]
        BY <3>1, <3>2, <4>1
      <4>3. c[2] < next_oid'[c[1][1]]
        BY <3>3, <3>4, <3>5, <4>1
      <4> QED
        BY <4>1, <4>2, <4>3
    <3>7. \A c \in created : ~(c[1][1] = object[1] /\ c[2] = oid)
      <4> SUFFICES ASSUME NEW c \in created, c[1][1] = object[1], c[2] = oid PROVE FALSE
        OBVIOUS
      <4>1. c[2] \in Nat /\ c[2] < next_oid[c[1][1]]
        BY DEF IInv, CatalogInv
      <4> QED
        BY <3>3, <4>1
    <3>8. object \in DOMAIN objects' /\ objects'[object] = oid
      BY <3>2
    <3>9. \A c \in created' : /\ c[1] \in DOMAIN objects' /\ objects'[c[1]] = c[2]
                              /\ c[1][1] \in Kinds /\ c[2] \in Nat /\ c[2] < next_oid'[c[1][1]]
      <4> SUFFICES ASSUME NEW c \in created', c = <<object, oid>>
                   PROVE  /\ c[1] \in DOMAIN objects' /\ objects'[c[1]] = c[2]
                          /\ c[1][1] \in Kinds /\ c[2] \in Nat /\ c[2] < next_oid'[c[1][1]]
        BY <3>2, <3>6, Zenon
      <4>1. c[1] = object /\ c[2] = oid
        OBVIOUS
      <4>2. oid < oid + 1
        BY <3>3
      <4> QED
        BY <1>2, <3>3, <3>4, <3>8, <4>1, <4>2
    <3>10. \A c, d \in created' : (c[1][1] = d[1][1] /\ c[2] = d[2]) => c = d
      <4> DEFINE new == <<object, oid>>
      <4>1. new[1] = object /\ new[2] = oid
        OBVIOUS
      <4>2. \A c, d \in created : (c[1][1] = d[1][1] /\ c[2] = d[2]) => c = d
        BY DEF IInv, CatalogInv
      <4>3. created' = created \cup {new}
        BY <3>2
      <4> HIDE DEF new, oid
      <4> QED
        BY <3>7, <4>1, <4>2, <4>3
    <3>11. ~\A u \in Sessions : pc'[u] = "generate"
      BY <1>5
    <3> QED
      BY <3>4, <3>9, <3>10, <3>11 DEF CatalogInv
  <2> QED
    BY <1>1, <2>1, <2>2 DEF IInv, SessionInv
<1> QED
  BY <1>7, <1>8, <1>9 DEF IInv

\* The mock tables come before every definition.
LEMMA GenerateStep ==
    ASSUME IInv, GenerateMockTable
    PROVE  IInv'
<1>1. created = {} /\ created' = {}
  BY DEF GenerateMockTable, IInv, CatalogInv
<1>2. Cardinality(MockTables) \in Nat
  BY MockTablesAssumption, FS_CardinalityType
<1>3. next_oid' \in [Kinds -> Nat]
  BY <1>2, Zenon DEF GenerateMockTable, IInv, CatalogInv
<1>4. \A s \in Sessions : pc[s] = "generate" /\ pc'[s] = "idle"
  BY DEF GenerateMockTable
<1>5. CatalogInv'
  BY <1>1, <1>3 DEF CatalogInv
<1>6. LockInv' /\ SessionInv'
  BY <1>4 DEF GenerateMockTable, IInv, LockInv, SessionInv
<1> QED
  BY <1>5, <1>6 DEF IInv

\* A step that leaves the catalog, its lock and the sessions.
LEMMA CheckpointStep ==
    ASSUME IInv, UNCHANGED <<catalog, catalog_lock_, session>>
    PROVE  IInv'
BY DEF IInv, LockInv, SessionInv, CatalogInv, Statement, catalog, session

\* Throw, Goto and Advance move a session on, and the others not.
LEMMA Moves ==
    ASSUME IInv, NEW s \in Sessions
    PROVE  /\ \A where : Goto(s, where) => /\ pc' = [pc EXCEPT ![s] = where] /\ DOMAIN todo' = Sessions
                                           /\ \A u \in Sessions : todo'[u] = todo[u]
           /\ Throw(s) => Goto(s, "lost")
           /\ Advance(s) => /\ \E where \in {"commit", "bind"} : pc' = [pc EXCEPT ![s] = where]
                            /\ DOMAIN todo' = Sessions /\ \A u \in Sessions \ {s} : todo'[u] = todo[u]
BY DEF Goto, Throw, Advance, IInv, SessionInv

\* Every step keeps the invariant.
LEMMA StepInv == IInv /\ [Next]_vars => IInv'
<1> SUFFICES ASSUME IInv, [Next]_vars PROVE IInv'
  OBVIOUS
<1> DEFINE Lock == [shared : SUBSET Sessions, exclusive : SUBSET Sessions]
<1>lock. catalog_lock_ \in Lock
  BY DEF IInv, LockInv
<1>1. CASE GenerateMockTable
  BY <1>1, GenerateStep
<1>2. CASE Begin
  <2>1. PICK s \in Sessions, text \in Texts :
           /\ pc[s] = "idle" /\ todo' = [todo EXCEPT ![s] = text]
           /\ pc' = [pc EXCEPT ![s] = IF text # <<>> /\ Head(text).kind = "meta" THEN "meta" ELSE "parse"]
    BY <1>2, Zenon DEF Begin, At
  <2>2. PICK where \in {"meta", "parse"} : pc' = [pc EXCEPT ![s] = where]
    BY <2>1, Zenon
  <2>3. DOMAIN todo' = Sessions /\ \A u \in Sessions \ {s} : todo'[u] = todo[u]
    BY <2>1 DEF IInv, SessionInv
  <2> QED
    BY <1>2, <1>lock, <2>1, <2>2, <2>3, OtherStep, ZenonT(30) DEF Begin
<1>3. CASE Meta
  <2>1. PICK s \in Sessions : pc[s] = "meta" /\ (Throw(s) \/ Goto(s, "commit"))
    BY <1>3 DEF Meta, At
  <2>2. PICK where \in {"lost", "commit"} : Goto(s, where)
    BY <2>1, Moves
  <2> QED
    BY <1>3, <1>lock, <2>1, <2>2, Moves, OtherStep DEF Meta
<1>4. CASE Parse
  <2>1. PICK s \in Sessions : pc[s] = "parse" /\ Goto(s, IF todo[s] = <<>> THEN "commit" ELSE "bind")
    BY <1>4 DEF Parse, At
  <2>2. PICK where \in {"commit", "bind"} : Goto(s, where)
    BY <2>1
  <2> QED
    BY <1>4, <1>lock, <2>1, <2>2, Moves, OtherStep, ZenonT(30) DEF Parse
<1>5. CASE Bind
  <2>1. PICK s \in Sessions :
           /\ pc[s] = "bind"
           /\ \/ Throw(s)
              \/ Goto(s, IF Statement(s).kind \in Kinds THEN "define" ELSE IF Statement(s).kind = "set" THEN "set" ELSE "plan")
    BY <1>5 DEF Bind, At
  <2>2. PICK where \in {"lost", "define", "set", "plan"} :
           Goto(s, where) /\ (where = "define" => Statement(s).kind \in Kinds)
    BY <2>1, Moves
  <2>3. where = "define" => Head(todo'[s]).kind \in Kinds
    BY <2>2, Moves DEF Statement
  <2> QED
    BY <1>5, <1>lock, <2>1, <2>2, <2>3, Moves, OtherStep DEF Bind
<1>6. CASE DefineFind
  BY <1>6, FindStep
<1>7. CASE DefineEnter
  BY <1>7, EnterStep
<1>8. CASE Set
  <2>1. PICK s \in Sessions : pc[s] = "set" /\ Advance(s)
    BY <1>8 DEF Set, At
  <2>2. PICK where \in {"commit", "bind"} : pc' = [pc EXCEPT ![s] = where]
    BY <2>1, Moves
  <2> QED
    BY <1>8, <1>lock, <2>1, <2>2, Moves, OtherStep, Zenon DEF Set
<1>9. CASE PlanBegin
  <2>1. PICK s \in Sessions : pc[s] = "plan" /\ LockShared(s) /\ Goto(s, "planning")
    BY <1>9 DEF PlanBegin, At
  <2>2. catalog_lock_' \in Lock /\ catalog_lock_'.exclusive = catalog_lock_.exclusive
    BY <1>lock, <2>1 DEF LockShared
  <2> QED
    BY <1>9, <2>1, <2>2, Moves, OtherStep DEF PlanBegin
<1>10. CASE PlanEnd
  <2>1. PICK s \in Sessions :
           pc[s] = "planning" /\ Unlock(s) /\ (Throw(s) \/ Advance(s) \/ Goto(s, "execute"))
    BY <1>10 DEF PlanEnd, At
  <2>2. s \notin catalog_lock_.exclusive
    BY <2>1 DEF IInv, LockInv
  <2>3. catalog_lock_' \in Lock /\ catalog_lock_'.exclusive = catalog_lock_.exclusive
    BY <1>lock, <2>1, <2>2 DEF Unlock
  <2>4. PICK where \in {"lost", "commit", "bind", "execute"} : pc' = [pc EXCEPT ![s] = where]
    BY <2>1, Moves
  <2>5. DOMAIN todo' = Sessions /\ \A u \in Sessions \ {s} : todo'[u] = todo[u]
    BY <2>1, Moves
  <2> QED
    BY <1>10, <2>1, <2>3, <2>4, <2>5, OtherStep, Zenon DEF PlanEnd
<1>11. CASE Execute
  <2>1. PICK s \in Sessions : pc[s] = "execute" /\ (Throw(s) \/ Advance(s))
    BY <1>11 DEF Execute, At
  <2>2. PICK where \in {"lost", "commit", "bind"} : pc' = [pc EXCEPT ![s] = where]
    BY <2>1, Moves
  <2>3. DOMAIN todo' = Sessions /\ \A u \in Sessions \ {s} : todo'[u] = todo[u]
    BY <2>1, Moves
  <2> QED
    BY <1>11, <1>lock, <2>1, <2>2, <2>3, OtherStep, Zenon DEF Execute
<1>12. CASE Commit
  <2>1. PICK s \in Sessions : pc[s] = "commit" /\ Goto(s, "done")
    BY <1>12 DEF Commit, At
  <2> QED
    BY <1>12, <1>lock, <2>1, Moves, OtherStep DEF Commit
<1>13. CASE BlockAllTransactions \/ ResumeTransactions \/ UNCHANGED vars
  BY <1>13, CheckpointStep DEF BlockAllTransactions, ResumeTransactions, vars
<1> QED
  BY <1>1, <1>2, <1>3, <1>4, <1>5, <1>6, <1>7, <1>8, <1>9, <1>10, <1>11, <1>12, <1>13 DEF Next

-----------------------------------------------------------------------------
(* The theorem.                                                            *)

\* However many sessions define the same tables, or the same indexes of a table, at once, at
\* most one is told that it has created each, with the oid the catalog has for it, and no oid
\* is given to two tables or to two indexes.
THEOREM NamesCreatedOnce == Spec => []CreatedOnce
<1>1. IInv => CreatedOnce
  BY DEF IInv, CatalogInv, CreatedOnce
<1> QED
  BY <1>1, InitInv, StepInv, PTL DEF Spec

=============================================================================
