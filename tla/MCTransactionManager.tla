------------------------ MODULE MCTransactionManager ------------------------
(* A page takes two tuples of two units, or one of three and a small one.    *)
EXTENDS TransactionManager

NoPage == -1
Even == {<<1, 2>>, <<3, 4>>}
Uneven == {<<1>>, <<2, 3, 4>>}
TooLarge == {<<1, 2, 3, 4, 5, 6>>}

Load(tuples, loaded, frames, logging, cs, max, serial) ==
    [tuples |-> tuples, loaded |-> loaded, frames |-> frames, logging |-> logging,
     calls |-> cs, max_calls |-> max, serial |-> serial]

\* Two transactions that write.
Writers == Load(Even, <<<<1, 2>>>>, 4, FALSE, {"insert", "mark", "update"}, 2, FALSE)
\* One after the other, with rows that grow and shrink.
OneByOne == Load(Uneven, <<<<1>>, <<2, 3, 4>>>>, 4, FALSE, {"mark", "update"}, 3, TRUE)
\* Scans among inserts and deletes.
Scanners == Load({<<3, 4>>}, <<<<1, 2>>>>, 4, FALSE, {"insert", "mark", "scan"}, 2, FALSE)
\* Two frames, tuples that are refused, and logging switched on.
FewFrames == Load({<<3, 4>>} \union TooLarge, <<<<1, 2>>>>, 2, TRUE, {"insert", "mark", "update", "get"}, 2, FALSE)

MCWorkloads == {Writers, OneByOne, Scanners, FewFrames}
=============================================================================
