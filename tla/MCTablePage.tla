---------------------------- MODULE MCTablePage ----------------------------
(* One page with room for three tuples; an entry of the directory is one    *)
(* unit, the smallest tuple too.                                            *)
EXTENDS TablePage

NoPage == -1
SomeTuples == {<<1>>, <<2, 3>>, <<4, 5, 6>>}
=============================================================================
