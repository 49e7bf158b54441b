------------------------------- MODULE SqlDml -------------------------------
(***************************************************************************)
(* INSERT, INSERT ... SELECT, DELETE and UPDATE: what execute_planned does *)
(* to a transaction's write buffer and to the sequence of an               *)
(* auto-increment column.                                                  *)
(*                                                                         *)
(* A statement is one of                                                   *)
(*   [s |-> "query", q]               [s |-> "select", tab, cols, q]       *)
(*   [s |-> "insert", tab, cols, rows]                                     *)
(*   [s |-> "delete", tab, where]     [s |-> "update", tab, sets, where]   *)
(* where "select" is INSERT ... SELECT, cols is <<>> for all columns, rows *)
(* are sequences of expressions, where is <<>> or <<predicate>>, and sets  *)
(* is a sequence of <<column, expression>>.  x also has seq, the next      *)
(* value of each table's sequence.  Executing a statement gives            *)
(* [buf, seq, n, err] for its table: n rows done, perhaps an error after   *)
(* them.                                                                   *)
(***************************************************************************)
EXTENDS SqlEngine

TargetColumns(schema, cols) ==
  IF cols = <<>> THEN [i \in 1..Len(schema.cols) |-> schema.cols[i].name] ELSE cols

(* LogicalPlanner::plan.  The plan of a DELETE or UPDATE finds its target  *)
(* rows; an INSERT of values has none, and its table stands for it.        *)
TargetPlan(st, sets, pred) ==
  IF AnyBad(sets) THEN PlanError ELSE WhereOver(Scan(st.tab, Tables[st.tab], <<>>), pred)
PlanStatement(st) ==
  LET fits(r) == Len(r) = Len(TargetColumns(Tables[st.tab], st.cols)) /\ ~AnyBad(PlanExprs(r, <<>>))
      sets == IF st.s = "update" THEN [i \in 1..Len(st.sets) |-> st.sets[i][2]] ELSE <<>>
  IN CASE st.s \in {"query", "select"} -> PlanQuery(st.q, <<>>)
       [] st.s = "insert" -> IF \A r \in Range(st.rows) : fits(r)
                             THEN Scan(st.tab, Tables[st.tab], <<>>) ELSE PlanError
       [] st.s \in {"delete", "update"} ->
            TargetPlan(st, PlanExprs(sets, <<>>), PlanExprs(st.where, <<>>))

-----------------------------------------------------------------------------
(* Rows into the write buffer.                                             *)

(* The values in the columns they are meant for, defaults elsewhere; <<>>  *)
(* when a column is unknown.                                               *)
AlignedRow(schema, cols, vals) ==
  LET given(j) == {i \in 1..Len(cols) : cols[i] = schema.cols[j].name}
      known == {schema.cols[j].name : j \in 1..Len(schema.cols)}
  IN IF ~(Range(cols) \subseteq known) THEN <<>>
     ELSE [j \in 1..Len(schema.cols) |->
             IF given(j) = {} THEN schema.cols[j].def ELSE vals[Max(given(j))]]

(* update_sequence_value and next_sequence_value.                          *)
KeepsSequence(val, seq) == seq
UpdateSequence(val, seq) == IF val >= seq THEN val + 1 ELSE seq

(* The auto-increment columns of a row: a NULL draws the next value, an    *)
(* explicit integer moves the sequence past it.                            *)
DrawSequence(schema, row, seq) ==
  LET step(acc, j) ==
        CASE ~schema.cols[j].auto -> acc
          [] schema.cols[j].auto /\ IsNull(acc.row[j]) ->
               [row |-> [acc.row EXCEPT ![j] = IntV(acc.seq)], seq |-> acc.seq + 1]
          [] schema.cols[j].auto /\ acc.row[j].t = "Int" ->
               [acc EXCEPT !.seq = UpdateSequence(acc.row[j].v[1], @)]
          [] OTHER -> acc
  IN FoldLeft(step, [row |-> row, seq |-> seq], [j \in 1..Len(row) |-> j])

(* extract_primary_key succeeds.                                           *)
KeyedRow(schema, row) == \A i \in 1..Len(schema.pk) : HasKey(row[schema.pk[i]])

(* validate_row; the types of a valid row are those of its key too         *)
(* (validate_key).                                                         *)
ValidRow(schema, row) ==
  \A i \in 1..Len(row) : IF IsNull(row[i]) THEN schema.cols[i].nullable
                         ELSE row[i].t = schema.cols[i].ty

(* Transaction::put and Transaction::delete, on the buffer of one table.   *)
Put(s, schema, row) ==
  IF ValidRow(schema, row)
  THEN [s EXCEPT !.buf = (PkOf(schema, row) :> <<row>>) @@ @, !.n = @ + 1]
  ELSE [s EXCEPT !.err = TRUE]
Delete(s, key) == [s EXCEPT !.buf = (key :> <<>>) @@ @]

(* One row of an INSERT: aligned, numbered, looked up and put.             *)
InsertAnyway(s, schema, row, x, tab) ==
  LET d == DrawSequence(schema, row, s.seq)
  IN IF s.err \/ row = <<>> \/ AnyErr(row) THEN [s EXCEPT !.err = TRUE]
     ELSE Put([s EXCEPT !.seq = d.seq], schema, d.row)
InsertRow(s, schema, row, x, tab) ==
  LET d == DrawSequence(schema, row, s.seq)
      now == [x EXCEPT !.buf[tab] = s.buf]
      taken == MultiGet(now, tab, <<PkOf(schema, d.row)>>, <<>>) # <<>>
  IN IF s.err \/ row = <<>> \/ AnyErr(row) THEN [s EXCEPT !.err = TRUE]
     ELSE IF ~KeyedRow(schema, d.row) \/ taken THEN [s EXCEPT !.seq = d.seq, !.err = TRUE]
     ELSE Put([s EXCEPT !.seq = d.seq], schema, d.row)

(* One row of an UPDATE: the assignments see the old row; a new key moves  *)
(* the row, without a look at what is there.                               *)
Assigned(schema, sets, row, vals) ==
  LET of(j) == {i \in 1..Len(sets) : sets[i][1] = schema.cols[j].name}
  IN [j \in 1..Len(row) |-> IF of(j) = {} THEN row[j] ELSE vals[Max(of(j))]]
PutUpdated(s, schema, row, vals, updated) ==
  IF AnyErr(vals) \/ ~KeyedRow(schema, updated) THEN [s EXCEPT !.err = TRUE]
  ELSE Put(IF PkOf(schema, updated) # PkOf(schema, row) THEN Delete(s, PkOf(schema, row)) ELSE s,
           schema, updated)
PutAssigned(s, schema, sets, row, vals) ==
  PutUpdated(s, schema, row, vals, Assigned(schema, sets, row, vals))
UpdateRow(s, schema, sets, row) ==
  IF s.err THEN s
  ELSE PutAssigned(s, schema, sets, row,
                   [i \in 1..Len(sets) |-> Eval(BindColumns(sets[i][2], schema), row)])

-----------------------------------------------------------------------------
(* Statements.                                                             *)

(* A stream's rows one by one, then its error.                             *)
Broken(s) == [s EXCEPT !.err = TRUE]
Drain(stream, s) == IF stream.err THEN Broken(s) ELSE s

ExecuteInsert(st, x, start) ==
  LET schema == Tables[st.tab]
      step(s, r) ==
        InsertRow(s, schema,
                  AlignedRow(schema, TargetColumns(schema, st.cols),
                             [i \in 1..Len(r) |->
                                Eval(SubstituteExpr(PlanExpr(r[i], <<>>), x.params), <<>>)]),
                  x, st.tab)
  IN FoldLeft(step, start, st.rows)

InsertStream(st, stream, x, start) ==
  LET schema == Tables[st.tab]
      cols == TargetColumns(schema, st.cols)
      step(s, r) == InsertRow(s, schema, AlignedRow(schema, cols, r), x, st.tab)
  IN Drain(stream, FoldLeft(step, start, stream.rows))
InsertCompiled(st, c, x, start) ==
  IF IsBad(c) THEN Broken(start)
  ELSE IF Len(TargetColumns(Tables[st.tab], st.cols)) # Len(SchemaOf(c).cols) THEN Broken(start)
  ELSE InsertStream(st, Run(c, x), x, start)
InsertFolded(st, plan, x, start) ==
  IF IsBad(plan) THEN Broken(start)
  ELSE InsertCompiled(st, Compile(plan, <<PlanColumns(plan)>>, x.topn), x, start)
ExecuteInsertSelect(st, plan, x, start) ==
  InsertFolded(st, IF ContainsSubquery(plan) THEN FoldPlan(plan, x) ELSE plan, x, start)

DeleteStream(st, stream, start) ==
  LET step(s, r) == [Delete(s, PkOf(Tables[st.tab], r)) EXCEPT !.n = @ + 1]
  IN Drain(stream, FoldLeft(step, start, stream.rows))
DeleteCompiled(st, c, x, start) ==
  IF IsBad(c) THEN Broken(start) ELSE DeleteStream(st, Run(c, x), start)
ExecuteDelete(st, plan, x, start) == DeleteCompiled(st, Compile(plan, <<>>, x.topn), x, start)

(* An unknown column is noticed with the first row.                        *)
UpdateStream(st, sets, stream, start) ==
  LET schema == Tables[st.tab]
      unknown == \E i \in 1..Len(sets) :
                   \A j \in 1..Len(schema.cols) : schema.cols[j].name # sets[i][1]
      step(s, r) == UpdateRow(s, schema, sets, r)
  IN IF stream.rows # <<>> /\ unknown THEN Broken(start)
     ELSE Drain(stream, FoldLeft(step, start, stream.rows))
UpdateCompiled(st, c, sets, x, start) ==
  IF IsBad(c) \/ \E i \in 1..Len(sets) : sets[i][2] = Lit(Err) THEN Broken(start)
  ELSE UpdateStream(st, sets, Run(c, x), start)
ExecuteUpdate(st, plan, x, start) ==
  UpdateCompiled(st, Compile(plan, <<>>, x.topn),
                 [i \in 1..Len(st.sets) |->
                    <<st.sets[i][1], FoldExpr(SubstituteExpr(PlanExpr(st.sets[i][2], <<>>), x.params), x)>>],
                 x, start)

(* The data-changing arms of execute_planned.                              *)
ExecuteDml(st, plan, x) ==
  LET start == [buf |-> x.buf[st.tab], seq |-> x.seq[st.tab], n |-> 0, err |-> FALSE]
  IN CASE st.s = "insert" -> ExecuteInsert(st, x, start)
       [] st.s = "select" -> ExecuteInsertSelect(st, plan, x, start)
       [] st.s = "delete" -> ExecuteDelete(st, plan, x, start)
       [] st.s = "update" -> ExecuteUpdate(st, plan, x, start)
=============================================================================
