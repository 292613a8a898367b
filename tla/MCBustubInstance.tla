-------------------------- MODULE MCBustubInstance --------------------------
(***************************************************************************)
(* Three sessions with a text each: definitions of the same table and the  *)
(* same index, and of an index of the same name on another table, queries  *)
(* on a mock table and on the new one, a query that fails in each stage,   *)
(* and meta-commands.                                                      *)
(***************************************************************************)
EXTENDS BustubInstance

Stmt(kind, name, table, fails) == [kind |-> kind, name |-> name, table |-> table, fails |-> fails]
NewTable(name) == Stmt("create", name, name, "no")
NewIndex(table) == Stmt("index", "x", table, "no")
Query(table, fails) == Stmt("query", "", table, fails)
Explain(table) == Stmt("explain", "", table, "no")
SetVariable == Stmt("set", "", "mock", "no")
MetaCommand(name) == <<Stmt("meta", name, "", "no")>>

MCTexts ==
    { <<>>, <<NewTable("w"), NewIndex("w")>>, <<NewTable("v"), NewIndex("v")>>, <<NewIndex("w"), Query("w", "no")>>,
      <<SetVariable, Query("mock", "no")>>,
      <<Explain("w")>>, <<Query("mock", "plan")>>, <<Query("mock", "execute")>>, MetaCommand("dt"), MetaCommand("unsupported") }
MCMockTables == {"mock"}

=============================================================================
