----------------------------- MODULE SqlSession -----------------------------
(***************************************************************************)
(* A session's statements on their way through the engine: planned,        *)
(* optimized pass by pass, folded, compiled and executed, directly or as   *)
(* prepared statements that reuse cached plans, for every choice the cost  *)
(* comparisons may make and every memory budget of a set, while another    *)
(* session changes the catalog.                                            *)
(*                                                                         *)
(* A script is [stmts, ddl]: statements [s, ..., params] of this session,  *)
(* and the DDL statements of the other one.  Without DDL the statements    *)
(* share a transaction; with DDL each has its own, since DDL waits until   *)
(* no transaction uses its table (Catalog).                                *)
(***************************************************************************)
EXTENDS SqlReference

CONSTANTS Scripts,
          Catalog0,     \* the tables at the start
          Databases,    \* what is read: records [rows, buf, seq, warm]
          Execs         \* the ways to run a plan: records [budget, topn,
                        \* desc, last, alt, skew]

VARIABLES script, data, mode,
          path,       \* what is planned for: "direct", "prepare" or "refresh"
          stage, logical, plan, out,
          version,    \* schema_version
          locked,     \* a DDL statement has published, and not yet returned
          tag,        \* the version read before planning
          cache,      \* plan_cache, of this statement: <<>> or <<entry>>
          prepared,   \* the PreparedStatement: <<>> or <<entry>>
          using,      \* the plan execute_prepared runs
          before,     \* history: data when the statement began
          overtaken,  \* history: the statement overlaps a DDL statement
          lost,       \* history: a DDL statement changed the catalog and failed
          renumbered  \* history: an UPDATE wrote an auto-increment column

catalogVars == <<Tables, version, locked, lost>>
cacheVars == <<tag, cache, prepared, using>>
historyVars == <<before, overtaken, renumbered>>
vars == <<script, data, mode, path, stage, logical, plan, out, catalogVars, cacheVars, historyVars>>

case == script.stmts[1]

(* The argument of the evaluation under one way to run.                    *)
Context(d, e) == [params |-> case.params] @@ d @@ e

Nothing == [rows |-> <<>>, n |-> 0, err |-> FALSE]
Error == [Nothing EXCEPT !.err = TRUE]

Init ==
  /\ Tables = Catalog0
  /\ script \in Scripts
  /\ data \in Databases
  /\ mode \in {"direct", "prepared"}
  /\ path = IF mode = "direct" THEN "direct" ELSE "prepare"
  /\ stage = IF mode = "direct" THEN "parsed" ELSE "called"
  /\ logical = PlanError /\ plan = PlanError
  /\ out = Nothing
  /\ version = 0 /\ locked = FALSE /\ tag = 0
  /\ cache = <<>> /\ prepared = <<>> /\ using = <<>>
  /\ before = data
  /\ overtaken = FALSE /\ lost = FALSE /\ renumbered = FALSE

-----------------------------------------------------------------------------
(* Planning.  The catalog is read under its lock, which a DDL statement    *)
(* holds until it returns.                                                 *)

Goto(to) == stage' = to
Unplanned == UNCHANGED <<logical, plan>>
Elsewhere == UNCHANGED <<script, data, mode>> /\ UNCHANGED catalogVars /\ UNCHANGED historyVars

(* The planner; a direct execution binds the parameters right after it.    *)
Planned(p, bound) ==
  LET fails == path = "direct" /\ IsBad(bound)
  IN /\ Goto(CASE fails -> "done"
               [] path # "direct" /\ (IsBad(p) \/ case.s # "query") -> "optimized"
               [] OTHER -> "planned")
     /\ logical' = p /\ plan' = bound
     /\ out' = IF fails THEN Error ELSE out
PlannedFrom(p) ==
  Planned(p, IF path = "direct" /\ ~IsBad(p) THEN SubstituteParams(p, case.params) ELSE p)
Plan ==
  /\ stage = "parsed" /\ ~locked
  /\ PlannedFrom(PlanStatement(case))
  /\ UNCHANGED path /\ UNCHANGED cacheVars /\ Elsewhere

(* A DELETE or UPDATE folds the subqueries of its predicate before its     *)
(* plan is optimized.                                                      *)
Targeted(folded) ==
  /\ plan' = folded
  /\ Goto(IF IsBad(folded) THEN "done" ELSE "targeted")
  /\ out' = IF IsBad(folded) THEN Error ELSE out
Target ==
  /\ stage = "planned" /\ case.s \in {"delete", "update"} /\ ~locked
  /\ \E e \in Execs : Targeted(FoldPlan(plan, Context(data, e)))
  /\ UNCHANGED <<path, logical>> /\ UNCHANGED cacheVars /\ Elsewhere

Optimizing == UNCHANGED <<path, logical, out>> /\ UNCHANGED cacheVars /\ Elsewhere

PushPredicates ==
  /\ stage = "targeted" \/ (stage = "planned" /\ case.s \in {"query", "select"})
  /\ Goto("pushed")
  /\ plan' \in PushDown(plan, <<>>)
  /\ Optimizing

OrderJoins ==
  /\ stage = "pushed" /\ Goto("joined")
  /\ plan' \in JoinOrders(plan)
  /\ Optimizing

PushLimits ==
  /\ stage = "joined" /\ Goto("limited")
  /\ plan' = PushLimit(plan)
  /\ Optimizing

RemoveSorts ==
  /\ stage = "limited" /\ Goto("optimized")
  /\ plan' = EliminateSorts(plan)
  /\ Optimizing

-----------------------------------------------------------------------------
(* Execution.                                                              *)

(* execute_planned on an optimized statement.                              *)
ExecuteSelect ==
  /\ path = "direct" /\ stage = "optimized" /\ case.s = "query" /\ ~locked
  /\ Goto("done")
  /\ \E e \in Execs : out' = ExecuteQuery(plan, Context(data, e)) @@ Nothing
  /\ UNCHANGED path /\ Unplanned /\ UNCHANGED cacheVars /\ Elsewhere

WritesAutoColumn(st) ==
  st.s = "update" /\ \E c \in Range(Tables[st.tab].cols), i \in 1..Len(st.sets) :
                       c.auto /\ st.sets[i][1] = c.name

Changed(r) ==
  /\ data' = [data EXCEPT !.buf[case.tab] = r.buf, !.seq[case.tab] = r.seq]
  /\ out' = [rows |-> <<>>, n |-> r.n, err |-> r.err]
ExecuteChange ==
  /\ path = "direct" /\ case.s # "query" /\ ~locked
  /\ stage = IF case.s = "insert" THEN "planned" ELSE "optimized"
  /\ Goto("done")
  /\ \E e \in Execs : Changed(ExecuteDml(case, plan, Context(data, e)))
  /\ renumbered' = (renumbered \/ WritesAutoColumn(case))
  /\ UNCHANGED <<script, mode, path, before, overtaken>> /\ Unplanned
  /\ UNCHANGED cacheVars /\ UNCHANGED catalogVars

(* The session's next statement; a prepared statement that is executed     *)
(* again may be the one at hand or be prepared once more.                  *)
NextStatement ==
  /\ stage = "done" /\ Len(script.stmts) > 1
  /\ script' = [script EXCEPT !.stmts = Tail(@)]
  /\ LET same == script.stmts[2] = case
     IN \/ /\ path' = IF mode = "direct" THEN "direct" ELSE "prepare"
           /\ Goto(IF mode = "direct" THEN "parsed" ELSE "called")
           /\ prepared' = <<>> /\ cache' = IF same THEN cache ELSE <<>>
        \/ /\ mode = "prepared" /\ same
           /\ path' = "prepare" /\ Goto("prepared")
           /\ UNCHANGED <<prepared, cache>>
  /\ out' = Nothing /\ using' = <<>>
  /\ before' = data /\ overtaken' = locked
  /\ UNCHANGED <<data, mode, tag, renumbered>> /\ Unplanned /\ UNCHANGED catalogVars

-----------------------------------------------------------------------------
(* Prepared statements.                                                    *)

NoCheck(t) == TRUE
Current(t) == t = version

(* The start of prepare, and of refreshed_plan once a plan is out of date: *)
(* the version is read without the lock, then the cache.                   *)
Lookup ==
  LET hit == cache # <<>> /\ Current(cache[1].tag)
  IN /\ stage = "called"
     /\ tag' = version
     /\ Goto(IF ~hit THEN "parsed" ELSE IF path = "prepare" THEN "prepared" ELSE "ready")
     /\ prepared' = IF hit /\ path = "prepare" THEN cache ELSE prepared
     /\ using' = IF hit /\ path = "refresh" THEN cache ELSE using
     /\ UNCHANGED <<cache, path, out>> /\ Unplanned /\ Elsewhere

(* What is cached is tagged with the version read before it was planned.   *)
TagLate(entry) == entry @@ [tag |-> version]
Tagged(entry) == entry @@ [tag |-> tag]

(* The end of prepare and of refreshed_plan.                               *)
Stored(entry) ==
  /\ cache' = <<entry>>
  /\ prepared' = IF path = "prepare" THEN <<entry>> ELSE prepared
  /\ using' = IF path = "refresh" THEN <<entry>> ELSE using
Store ==
  /\ stage = "optimized" /\ path # "direct" /\ ~locked
  /\ \E e \in Execs :
       Stored(Tagged(IF IsBad(logical) \/ case.s # "query"
                     THEN [logical |-> logical, point |-> <<>>, physical |-> <<>>]
                     ELSE PreparedQuery(logical, plan, Context(data, e))))
  /\ Goto(IF path = "prepare" THEN "prepared" ELSE "ready")
  /\ UNCHANGED <<tag, path, out>> /\ Unplanned /\ Elsewhere

(* execute_prepared begins with refreshed_plan: a statement that could be  *)
(* planned, under another version, is looked up or planned again.          *)
Refresh ==
  LET fresh == IsBad(prepared[1].logical) \/ Current(prepared[1].tag)
  IN /\ stage = "prepared"
     /\ Goto(IF fresh THEN "ready" ELSE "called")
     /\ path' = IF fresh THEN path ELSE "refresh"
     /\ using' = IF fresh THEN prepared ELSE using
     /\ UNCHANGED <<tag, cache, prepared, out>> /\ Unplanned /\ Elsewhere

RunPrepared ==
  LET entry == using[1]
      bound == SubstituteParams(entry.logical, case.params)
      query == case.s = "query" /\ ~IsBad(entry.logical)
  IN /\ stage = "ready" /\ ~locked
     /\ path' = IF query THEN path ELSE "direct"
     /\ CASE query -> /\ Goto("done") /\ UNCHANGED plan
                      /\ \E e \in Execs : out' = ExecutePrepared(entry, Context(data, e)) @@ Nothing
          [] IsBad(entry.logical) -> Goto("parsed") /\ UNCHANGED <<plan, out>>
          [] OTHER -> /\ plan' = bound
                      /\ Goto(IF IsBad(bound) THEN "done" ELSE "planned")
                      /\ out' = IF IsBad(bound) THEN Error ELSE out
     /\ UNCHANGED logical /\ UNCHANGED cacheVars /\ Elsewhere

-----------------------------------------------------------------------------
(* The other session's DDL: [d, tab, ...].                                 *)

HasColumn(schema, name) == \E c \in Range(schema.cols) : c.name = name
Without(s, i) == SubSeq(s, 1, i - 1) \o SubSeq(s, i + 1, Len(s))

(* The checks of the statement.                                            *)
Permitted(d) ==
  LET schema == Tables[d.tab]
  IN CASE d.d = "create_index" -> ~HasIndex(schema, d.index.name)
       [] d.d = "drop_index" -> HasIndex(schema, d.name)
       [] d.d = "add_column" -> /\ ~HasColumn(schema, d.col.name) /\ d.col.lg = ""
                                /\ d.col.nullable \/ ~IsNull(d.col.def) \/ data.rows[d.tab] = {}
       [] d.d = "drop_column" -> /\ HasColumn(schema, d.column)
                                 /\ ColumnPos(schema, d.column) \notin Range(schema.pk)
                                 /\ \A i \in Range(schema.idxs) : d.column \notin Range(i.cols)

(* The schema it leaves; a row of the table as it is read from then on.    *)
NewSchema(d) ==
  LET schema == Tables[d.tab]
      at == ColumnPos(schema, d.column)
  IN CASE d.d = "create_index" -> [schema EXCEPT !.idxs = Append(@, d.index)]
       [] d.d = "drop_index" -> [schema EXCEPT !.idxs = SelectSeq(@, LAMBDA i : i.name # d.name)]
       [] d.d = "add_column" -> [schema EXCEPT !.cols = Append(@, d.col)]
       [] d.d = "drop_column" -> [schema EXCEPT !.cols = Without(@, at),
                                    !.pk = [i \in 1..Len(@) |-> IF @[i] > at THEN @[i] - 1 ELSE @[i]]]
NewRow(d, r) ==
  CASE d.d = "add_column" -> Append(r, d.col.def)
    [] d.d = "drop_column" -> Without(r, ColumnPos(Tables[d.tab], d.column))
    [] OTHER -> r

DdlStep ==
  UNCHANGED <<mode, path, stage, logical, plan, out, before, renumbered>> /\ UNCHANGED cacheVars

(* The statement publishes the new schema, the catalog locked, once no     *)
(* transaction with writes to the table is left; a statement that is under *)
(* way from here on overlaps with it.  One that is refused changes nothing. *)
Publish ==
  /\ script.ddl # <<>> /\ ~locked /\ stage # "done"
  /\ LET d == script.ddl[1]
     IN /\ Permitted(d) /\ DOMAIN data.buf[d.tab] = {}
        /\ Tables' = [Tables EXCEPT ![d.tab] = NewSchema(d)]
        /\ data' = [data EXCEPT !.rows[d.tab] = {NewRow(d, r) : r \in @}]
  /\ locked' = TRUE /\ overtaken' = TRUE
  /\ UNCHANGED <<script, version, lost>> /\ DdlStep

(* It counts schema_version up and releases the catalog.                   *)
Return ==
  /\ locked
  /\ version' = version + 1 /\ locked' = FALSE
  /\ script' = [script EXCEPT !.ddl = Tail(@)]
  /\ UNCHANGED <<Tables, data, lost, overtaken>> /\ DdlStep

(* DROP INDEX takes the index out of the table first; an I/O error after   *)
(* that returns without counting.                                          *)
ReturnError ==
  /\ locked /\ script.ddl[1].d = "drop_index"
  /\ locked' = FALSE /\ lost' = TRUE
  /\ script' = [script EXCEPT !.ddl = Tail(@)]
  /\ UNCHANGED <<Tables, data, version, overtaken>> /\ DdlStep

Next ==
  \/ Plan \/ Target \/ PushPredicates \/ OrderJoins \/ PushLimits \/ RemoveSorts
  \/ ExecuteSelect \/ ExecuteChange \/ NextStatement
  \/ Lookup \/ Store \/ Refresh \/ RunPrepared
  \/ Publish \/ Return \/ ReturnError

Spec == Init /\ [][Next]_vars

-----------------------------------------------------------------------------
(* Where the engine is known to disagree with the definition.  Each        *)
(* predicate names the plans, or the queries, of one disagreement; the     *)
(* properties below are about the others.                                  *)

RECURSIVE NodesOf(_)
NodesOf(p) == {p} \cup UNION {NodesOf(Inputs(p)[i]) : i \in 1..Len(Inputs(p))}
IndexScans(p) == {n \in NodesOf(p) : n.p = "iscan" /\ HasIndex(Tables[n.tab], n.index)}

(* Some scanned index has no entry for a row that a scan of the table in   *)
(* its place would have returned: a NULL in an indexed column.             *)
IndexOmitsRows(p) ==
  \E n \in IndexScans(p) :
    LET schema == Tables[n.tab]
        index == IndexNamed(schema, n.index)
    IN \E r \in Range(VisibleRows(data, n.tab)) :
         /\ IndexKeys(schema, index, r) = {}
         /\ n.range = <<>> \/ ~IsNull(r[ColumnPos(schema, index.cols[1])])

(* An ordered scan of a full-text index, with an entry for every token.    *)
OrderedByTokens(p) ==
  \E n \in IndexScans(p) : IndexNamed(Tables[n.tab], n.index).kind # "btree"

(* A scan whose lower bound is above its upper bound.                      *)
InvertedRange(p) ==
  \E n \in NodesOf(p) :
    /\ n.p \in {"scan", "iscan"}
    /\ n.range # <<>>
    /\ LET rng == ResolveRange(n.range, case.params)
       IN rng = <<>> \/ CompareDbKeys(rng[1], rng[2]) = "Greater"

(* A prepared statement whose compiled plan still holds a subquery.        *)
UnfoldedSubquery(p) ==
  mode = "prepared" /\ ContainsSubquery(p)

(* A scan bounded by a key of another type than its column, which orders   *)
(* before or after every key of the column whatever its value.             *)
ForeignRange(p) ==
  \E n \in IndexScans(p) \cup {n \in NodesOf(p) : n.p = "scan"} :
    /\ n.range # <<>>
    /\ LET schema == Tables[n.tab]
           pos == IF n.p = "scan" THEN schema.pk[1]
                  ELSE ColumnPos(schema, IndexNamed(schema, n.index).cols[1])
       IN \E i \in 1..2 : n.range[i].k = "val" /\ n.range[i].val.t # schema.cols[pos].ty

(* A WHERE comparison with the column on the right, or a negated MATCH:    *)
(* the key range or the text query taken from it is not the one it states. *)
MisreadPredicate(p) ==
  \E e \in AllExprs(p) :
    \/ /\ e.e = "bin" /\ e.op \in Comparisons \ {"=", "<>"}
       /\ e.l.e \in {"lit", "param"} /\ e.r.e = "col"
    \/ e.e = "not" /\ HasKind(e.l, {"match"})

(* An index scan that does not load the column it sorts by.                *)
PrunedSortColumn(p) ==
  \E n \in IndexScans(Compile(p, <<PlanColumns(p)>>, 1)) :
    LET schema == Tables[n.tab]
        first == IndexNamed(schema, n.index).cols[1]
    IN schema.cols[ColumnPos(schema, first)].lg \notin NeededGroups(schema, n.columns)

(* ORDER BY under DISTINCT, whose rows come out in their own order; and an *)
(* ORDER BY or GROUP BY over a subquery with a LIMIT, served by an index   *)
(* below that LIMIT.                                                       *)
LosesOrder(q) ==
  \/ q.body.b = "select" /\ q.body.distinct /\ q.order # <<>>
  \/ /\ q.body.b = "select" /\ q.body.from.f = "derived"
     /\ q.body.from.query.lim # <<>> /\ (q.order # <<>> \/ q.body.group # <<>>)

Disagrees(p) ==
  \/ IndexOmitsRows(p) \/ OrderedByTokens(p) \/ InvertedRange(p) \/ ForeignRange(p)
  \/ UnfoldedSubquery(p) \/ MisreadPredicate(p) \/ PrunedSortColumn(p)
  \/ (case.s = "query" /\ LosesOrder(case.q))

-----------------------------------------------------------------------------
(* The rows returned are an answer to the query: the right rows, as often  *)
(* as the statement says, in an order its ORDER BY allows, cut to its      *)
(* LIMIT window; whatever scan paths and join orders the costs favour,     *)
(* whatever is buffered in the transaction, however little memory the      *)
(* operators may use (execute_planned and execute_prepared).               *)
AnswerIsCorrect ==
  stage = "done" /\ case.s = "query" =>
    \/ overtaken \/ lost
    \/ ~IsBad(plan) /\ Disagrees(plan)
    \/ Answers(out, case.q, Context(data, <<>>))

(* Each pass of Optimizer::optimize preserves the answer: the plan it      *)
(* leaves, executed as it stands, still answers the query.                 *)
PlanAnswers(x) ==
  Answers(ExecuteQuery(SubstituteParams(plan, case.params), x), case.q, x)
EveryPassAnswers ==
  stage \in {"planned", "pushed", "joined", "limited", "optimized"} /\ case.s = "query"
    /\ ~IsBad(plan) /\ ~overtaken /\ ~lost /\ ~Disagrees(plan) =>
    PlanAnswers(Context(data, CHOOSE e \in Execs : TRUE))

(* An INSERT, UPDATE or DELETE does to the rows its transaction sees what  *)
(* the statement says, and counts them; one that fails has a reason to,    *)
(* and touches no row that it is not about (execute_planned on top of the  *)
(* transaction's write buffer).  UPDATEs that give a row another row's key *)
(* apart, and those with a predicate of the disagreements.                 *)
EffectIsCorrect ==
  stage = "done" /\ case.s # "query" =>
    \/ ~IsBad(plan) /\ Disagrees(plan)
    \/ Effect(case, Context(before, <<>>), Context(data, <<>>), out)

(* The sequence of an auto-increment column is beyond every value that is  *)
(* visible, so that a value it gives out is not a taken key                *)
(* (next_sequence_value, update_sequence_value); unless an UPDATE wrote    *)
(* the column, which does not move the sequence.                           *)
SequenceAhead ==
  renumbered \/ \A tab \in DOMAIN Tables : ~SequenceBehind(data, tab)

(* A cached plan that prepare or refreshed_plan would take for current     *)
(* fits the catalog: the indexes it scans exist, on the columns they had,  *)
(* and the columns are where it expects them.                              *)
Fits(p) ==
  \A n \in NodesOf(p) :
    n.p \in {"scan", "iscan", "fts"} =>
      /\ n.schema.idxs = Tables[n.tab].idxs
      /\ Len(n.schema.cols) = Len(Tables[n.tab].cols)
      /\ \A i \in 1..Len(n.schema.cols) : n.schema.cols[i].name[2] = Tables[n.tab].cols[i].name[2]
CacheIsCurrent ==
  cache # <<>> /\ cache[1].tag = version /\ ~locked /\ ~lost =>
    \A p \in Range(cache[1].point \o cache[1].physical) : Fits(p)

(* docs/sql_support.md: ORDER BY "Orders results by one or more            *)
(* expressions".  A query of a whole table with an ORDER BY returns as     *)
(* many rows as the table has; what try_promote_to_index_scan makes of it  *)
(* does not, when an indexed column is NULL.                               *)
OrderByOnlyOrders ==
  LET body == case.q.body
  IN /\ stage = "done" /\ case.s = "query" /\ ~overtaken /\ mode = "direct"
     /\ case.q.order # <<>> /\ case.q.lim = <<>>
     /\ body.b = "select" /\ body.from.f = "table" /\ body.joins = <<>>
     /\ body.where = <<>> /\ body.group = <<>> /\ ~body.distinct
     => Len(out.rows) = Len(VisibleRows(data, body.from.tab))
=============================================================================
