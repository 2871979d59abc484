----------------------------- MODULE MCPgVector -----------------------------
(***************************************************************************)
(* Three rows: of one tenant, of both, and of nobody; a table with a row   *)
(* ingested under a state that is none; an empty one.                      *)
(***************************************************************************)
EXTENDS PgVector, TLC

MCRow(ts, state) == [tenants |-> ts, state |-> state]

MCTables ==
  {"c1" :> MCRow({"acme"}, "stated") @@ "c2" :> MCRow({"acme", "globex"}, "stated")
     @@ "c3" :> MCRow({}, "unknown"),
   "c1" :> MCRow({"globex"}, "other"),
   <<>>}

\* A positive limit leaves rows out; a negative one is an error of the database.
MCLimits == {2, -1}
=============================================================================
