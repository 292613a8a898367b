------------------------------ MODULE PageStore ------------------------------
(***************************************************************************)
(* What a buffer pool promises its clients: a set of pages with contents   *)
(* that change only when a client that holds the page writes to it.  There *)
(* are no frames, no disk and no eviction here.  BufferPoolManager         *)
(* implements this specification.                                          *)
(***************************************************************************)
CONSTANTS
  PageId, Client, Data,
  Zero,       \* the contents of a page that was never written
  NoPage      \* what a client holds when it holds no page

VARIABLES
  live,       \* pages allocated and not deleted
  content,    \* what a client that holds a live page would read from it
  held        \* the page each client holds, or NoPage

vars == <<live, content, held>>

Init ==
  /\ live = {}
  /\ content = [p \in PageId |-> Zero]
  /\ held = [c \in Client |-> NoPage]

(* A client allocates a page that was never live and holds it.             *)
New(c, p) ==
  /\ held[c] = NoPage
  /\ p \notin live
  /\ live' = live \cup {p}
  /\ held' = [held EXCEPT ![c] = p]
  /\ content' = [content EXCEPT ![p] = Zero]

Hold(c, p) ==
  /\ held[c] = NoPage
  /\ p \in live
  /\ held' = [held EXCEPT ![c] = p]
  /\ UNCHANGED <<live, content>>

Write(c, p, d) ==
  /\ held[c] = p
  /\ p \in live
  /\ content' = [content EXCEPT ![p] = d]
  /\ UNCHANGED <<live, held>>

Release(c) ==
  /\ held[c] # NoPage
  /\ held' = [held EXCEPT ![c] = NoPage]
  /\ UNCHANGED <<live, content>>

(* A page can be deleted when nobody holds it; its contents are gone.      *)
Delete(p) ==
  /\ p \in live
  /\ \A c \in Client : held[c] # p
  /\ live' = live \ {p}
  /\ content' = [content EXCEPT ![p] = Zero]
  /\ UNCHANGED held

Next ==
  \/ \E c \in Client, p \in PageId : New(c, p) \/ Hold(c, p)
  \/ \E c \in Client, p \in PageId, d \in Data : Write(c, p, d)
  \/ \E c \in Client : Release(c)
  \/ \E p \in PageId : Delete(p)

Spec == Init /\ [][Next]_vars

==============================================================================
