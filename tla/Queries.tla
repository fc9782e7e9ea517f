------------------------------- MODULE Queries -------------------------------
(***************************************************************************)
(* A SELECT from beginning to end: Engine.Query binds it to a plan and     *)
(* builds the operators, and a caller pulls rows until there are no more.  *)
(*                                                                         *)
(* The tables are those of one snapshot, which Storage.tla is about.       *)
(***************************************************************************)
EXTENDS Execution, Meaning, Numbers

CONSTANTS
  Scenarios     \* sets of queries, each with the tables they are run on

VARIABLES
  query,
  db,       \* for each table, its rows
  cols,     \* the columns announced, once the query is bound
  op,       \* the operators
  pulled,   \* the rows the caller got
  phase     \* "new", "rejected", "open", "failed" or "done"; or "shown"

vars == <<value, query, db, cols, op, pulled, phase>>

Context == [env |-> <<>>, db |-> db]
Pending == Failed(NULL)

\* A behaviour runs a query, or shows one value for what Numbers says of it.
Init ==
  /\ cols = <<>> /\ op = Pending /\ pulled = <<>>
  /\ \/ /\ value = NoValue /\ phase = "new"
        /\ \E s \in Scenarios : query \in s.queries /\ db \in s.databases
     \/ /\ value \in Sample /\ phase = "shown"
        /\ query = None /\ db = <<>>

\* Binding rejects the query, or building fails, or rows can be pulled.
Begin ==
  /\ phase = "new"
  /\ \E bound \in {Bind(query)} :
       IF ~bound.st.ok
       THEN phase' = "rejected" /\ UNCHANGED <<cols, op>>
       ELSE /\ cols' = Names(bound.node.cols)
            /\ op' = Open(bound.node, Context)
            /\ phase' = IF op'.o = "failed" THEN "failed" ELSE "open"
  /\ UNCHANGED <<value, query, db, pulled>>

Pull ==
  /\ phase = "open"
  /\ \E step \in {Next(op, Context)} :
       /\ op' = step.op
       /\ pulled' = IF step.out.r = "row" THEN Append(pulled, step.out.row) ELSE pulled
       /\ phase' = CASE step.out.r = "row" -> "open" [] step.out.r = "end" -> "done" [] OTHER -> "failed"
  /\ UNCHANGED <<value, query, db, cols>>

Proceed == Begin \/ Pull
Spec  == Init /\ [][Proceed]_vars

-----------------------------------------------------------------------------
Meant == Relation(query, <<>>, db)

\* Binding to ordinals and levels, and pulling row by row through operators
\* that hash, count, buffer and mark, gives exactly the rows that the names of
\* the query mean over the whole tables, in the order promised, and an error
\* exactly when the query has no meaning.
Answers ==
  /\ phase # "rejected"
  /\ phase \in {"done", "failed"} =>
       \E m \in {Meant} :
         /\ phase = "failed" => ~m.ok
         /\ phase = "done" => m.ok
         /\ phase = "done" => /\ Len(pulled) = Len(m.rows)
                              /\ \A i \in DOMAIN pulled : AlikeAll(pulled[i], ValuesOf(m.rows[i]))

\* Every row has the columns that were announced before the first of them was
\* computed: as many, under the names the query gives them, and each NULL or of
\* the kind announced, whichever branch, join side or accumulator it comes from.
ColumnsAnnounced ==
  /\ \A i \in DOMAIN pulled :
       /\ Len(pulled[i]) = Len(cols)
       /\ \A k \in DOMAIN cols : pulled[i][k].k \in {"null", cols[k].kind}
  /\ phase = "done" =>
       \E shape \in {Meant.shape} : [k \in DOMAIN cols |-> cols[k].name] = [k \in DOMAIN shape |-> shape[k].n]
=============================================================================
