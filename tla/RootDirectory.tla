---------------------------- MODULE RootDirectory ----------------------------
(***************************************************************************)
(* What a header page promises: the root page of each index, by name.  A   *)
(* name is recorded once, and only what is recorded is changed or removed. *)
(***************************************************************************)
EXTENDS Integers

CONSTANTS Names, RootIds
VARIABLES
    roots,   \* name -> root page id
    call     \* the last call and its arguments
vars == <<roots, call>>

Init == roots = [n \in {} |-> 0] /\ call = <<"none">>
Insert(n, r) ==
    /\ call' = <<"InsertRecord", n, r>>
    /\ roots' = [m \in DOMAIN roots \cup {n} |-> IF m \in DOMAIN roots THEN roots[m] ELSE r]
Update(n, r) ==
    /\ call' = <<"UpdateRecord", n, r>>
    /\ roots' = [m \in DOMAIN roots |-> IF m = n THEN r ELSE roots[m]]
Delete(n) ==
    /\ call' = <<"DeleteRecord", n>>
    /\ roots' = [m \in DOMAIN roots \ {n} |-> roots[m]]
Next == \E n \in Names : Delete(n) \/ \E r \in RootIds : Insert(n, r) \/ Update(n, r)
Spec == Init /\ [][Next]_vars

=============================================================================
