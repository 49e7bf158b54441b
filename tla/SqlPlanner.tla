----------------------------- MODULE SqlPlanner -----------------------------
(***************************************************************************)
(* LogicalPlanner: from a query to a logical plan.  Planning that fails    *)
(* gives PlanError; a scope of common table expressions is a sequence of   *)
(* [name, plan], the innermost last.                                       *)
(***************************************************************************)
EXTENDS SqlPlan, SequencesExt

IsBad(p) == p = PlanError

(* The elements of a finite set in some order.                             *)
AnySeq(S) == FoldSet(LAMBDA e, acc : Append(acc, e), <<>>, S)

(* The name a column keeps when it is read through a new qualifier.        *)
Requalify(q, name) == <<q, name[2]>>

(* qualified_projection: every column re-aliased, read by position.        *)
QualifiedProjection(plan, q, aliases) ==
  LET cols == SchemaOf(plan).cols
  IN IF aliases # <<>> /\ Len(aliases) # Len(cols) THEN PlanError
     ELSE NewProjection(plan,
            [i \in 1..Len(cols) |->
               [e |-> "col", name |-> cols[i].name, at |-> <<i>>]],
            [i \in 1..Len(cols) |->
               IF aliases = <<>> THEN Requalify(q, cols[i].name) ELSE <<q, aliases[i]>>])

RECURSIVE Resolves(_)
(* ~reject_if_correlated: every expression of every node refers only to    *)
(* columns of that node's own input.                                       *)
Resolves(p) ==
  LET input == IF p.p = "join" THEN p.schema ELSE SchemaOf(Inputs(p)[1])
  IN /\ p.p \in {"filter", "proj", "join", "agg", "sort"} =>
          \A i \in 1..Len(ExprsOf(p)) : \A c \in LocalColumns(ExprsOf(p)[i]) :
            ContainsColumn(input, c)
     /\ \A i \in 1..Len(Inputs(p)) : Resolves(Inputs(p)[i])

(* validate_set_op_schemas.                                                *)
SameShape(l, r) ==
  /\ Len(l.cols) = Len(r.cols)
  /\ \A i \in 1..Len(l.cols) : l.cols[i].ty = r.cols[i].ty

RECURSIVE HasAggregate(_)
(* has_aggregate_function looks through operators only.                    *)
HasAggregate(e) ==
  e.e = "agg" \/ (e.e = "bin" /\ (HasAggregate(e.l) \/ HasAggregate(e.r)))

RECURSIVE RewriteAggregates(_, _)
(* rewrite_having_expr: aggregate calls become references to columns of    *)
(* the Aggregate node, named by their text.  A call equal to one already   *)
(* collected is not collected again, whatever its text.  The operand of a  *)
(* CASE, IS NULL, IN, BETWEEN, LIKE and CAST are not looked into.          *)
Collect(a, r) == [aggs |-> r.aggs, names |-> r.names, out |-> Append(a.out, r.e)]
CollectCall(e, acc, call) ==
  IF \E i \in 1..Len(acc.aggs) : acc.aggs[i] = call
  THEN [e |-> Col("", e.text), aggs |-> acc.aggs, names |-> acc.names]
  ELSE [e |-> Col("", e.text), aggs |-> Append(acc.aggs, call),
        names |-> Append(acc.names, <<"", e.text>>)]
Rewritten(e, r) == [e |-> WithSubExprs(e, r.out), aggs |-> r.aggs, names |-> r.names]
RewriteAggregates(e, acc) ==
  LET kept == IF e.e = "case" THEN Len(e.operand) ELSE 0
      step(a, sub) == Collect(a, RewriteAggregates(sub, a))
  IN CASE e.e = "agg" -> CollectCall(e, acc, [f |-> e.f, l |-> e.l, dist |-> e.dist])
       [] \/ e.e \in {"not", "case"}
          \/ e.e = "bin" /\ e.op # "like"
          \/ e.e = "fn" /\ e.f # "between" ->
            Rewritten(e, FoldLeft(step, [aggs |-> acc.aggs, names |-> acc.names,
                                         out |-> SubSeq(SubExprs(e), 1, kept)],
                                  SubSeq(SubExprs(e), kept + 1, Len(SubExprs(e)))))
       [] OTHER -> [e |-> e, aggs |-> acc.aggs, names |-> acc.names]

OutputName(item, planned) ==
  IF item.alias # <<>> THEN <<"", item.alias[1]>>
  ELSE IF planned.e = "col" THEN planned.name ELSE <<"", "expr">>

RECURSIVE PlanQuery(_, _), PlanExpr(_, _), PlanBody(_, _, _)

PlanExprs(s, env) == [i \in 1..Len(s) |-> PlanExpr(s[i], env)]
AnyBad(s) == \E i \in 1..Len(s) : s[i] = Lit(Err)

(* BETWEEN becomes a conjunction; a minus sign before a number is part of  *)
(* the number.                                                             *)
PlanBetween(s) == Bin("and", Bin(">=", s[1], s[2]), Bin("<=", s[1], s[3]))
PlanNegative(operand) ==
  IF operand.e = "lit" /\ operand.val.t \in {"Int", "Float"}
  THEN Lit([operand.val EXCEPT !.v[1] = -@])
  ELSE Bin("-", Lit(IntV(0)), operand)

(* A subquery must not be correlated.                                      *)
PlanSubquery(e, s, sub) ==
  IF IsBad(sub) \/ ~Resolves(sub) THEN Lit(Err) ELSE [WithSubExprs(e, s) EXCEPT !.sub = sub]

(* plan_expr: the operators keep their operands' order; an aggregate call  *)
(* here is an error.                                                       *)
PlanOver(e, s, env) ==      \* s: the planned operands
  IF AnyBad(s) \/ e.e = "agg" THEN Lit(Err)
  ELSE CASE e.e = "fn" /\ e.f = "between" -> PlanBetween(s)
         [] e.e = "fn" /\ e.f = "neg" -> PlanNegative(s[1])
         [] e.e \in SubqueryKinds -> PlanSubquery(e, s, PlanQuery(e.sub, env))
         [] OTHER -> WithSubExprs(e, s)
PlanExpr(e, env) == PlanOver(e, PlanExprs(SubExprs(e), env), env)

(* plan_table_factor: a common table expression shadows a base table; the  *)
(* columns are qualified by the alias.                                     *)
BaseTable(f, schema) ==
  Scan(f.tab, [schema EXCEPT !.cols = [i \in 1..Len(schema.cols) |->
                 [schema.cols[i] EXCEPT !.name = Requalify(f.alias, @)]]], <<>>)
DerivedTable(f, inner) ==
  IF IsBad(inner) \/ ~Resolves(inner) THEN PlanError
  ELSE QualifiedProjection(inner, f.alias, f.cols)
PlanTableFactor(f, env) ==
  LET visible == {i \in 1..Len(env) : env[i].name = f.tab}
  IN IF f.f = "derived" THEN DerivedTable(f, PlanQuery(f.query, env))
     ELSE IF visible # {} THEN QualifiedProjection(env[Max(visible)].plan, f.alias, f.cols)
     ELSE IF f.tab \in DOMAIN Tables THEN BaseTable(f, Tables[f.tab])
     ELSE PlanError

(* The FROM item and its joins, left to right.                             *)
JoinTables(left, right, cond, jt) ==
  IF IsBad(left) \/ IsBad(right) \/ cond = Lit(Err) THEN PlanError
  ELSE NewJoin(left, right, cond, jt)
PlanFrom(sel, env) ==
  LET join(acc, j) == JoinTables(acc, PlanTableFactor(j.factor, env),
                        IF j.jt = "cross" THEN Lit(IntV(1)) ELSE PlanExpr(j.on, env), j.jt)
  IN FoldLeft(join, PlanTableFactor(sel.from, env), sel.joins)

SortOn(plan, keys) ==
  IF IsBad(plan) \/ \E i \in 1..Len(keys) : keys[i][1] = Lit(Err) THEN PlanError
  ELSE IF keys = <<>> THEN plan ELSE Sort(plan, keys)
SortBy(plan, order, env) ==
  SortOn(plan, [i \in 1..Len(order) |-> <<PlanExpr(order[i][1], env), order[i][2]>>])

(* The aggregate branch of plan_select_internal: the calls of the select   *)
(* list and HAVING are collected, then planned;                            *)
CollectCalls(sel, group) ==
  LET rewrite(acc, e) == Collect(acc, RewriteAggregates(e, acc))
      name(e) == IF e.e = "col" THEN e.name ELSE <<"", "group_key">>
  IN FoldLeft(rewrite, [aggs |-> <<>>, names |-> [i \in 1..Len(group) |-> name(group[i])],
                        out |-> <<>>],
              [i \in 1..Len(sel.items) |-> sel.items[i].expr] \o sel.having)
PlanCalls(group, r, env) ==
  [group |-> group, names |-> r.names, planned |-> PlanExprs(r.out, env),
   calls |-> [i \in 1..Len(r.aggs) |-> [r.aggs[i] EXCEPT !.l = PlanExpr(@, env)]]]
PlanGroups(sel, group, env) == PlanCalls(group, CollectCalls(sel, group), env)

(* then come Aggregate, HAVING, the select list, and the ORDER BY above it.*)
AggregatedItems(src, sel, a) ==
  LET n == Len(sel.items)
      grouped == NewAggregate(src, a.group, a.calls, a.names)
  IN IF \/ n = 0 \/ AnyBad(a.group) \/ AnyBad(a.planned)
        \/ \E i \in 1..Len(a.calls) : a.calls[i].l = Lit(Err)
     THEN PlanError
     ELSE NewProjection(IF sel.having = <<>> THEN grouped ELSE Filter(grouped, a.planned[n + 1]),
                        SubSeq(a.planned, 1, n),
                        [i \in 1..n |-> OutputName(sel.items[i], a.planned[i])])
PlanAggregate(src, sel, order, env) ==
  SortBy(AggregatedItems(src, sel, PlanGroups(sel, PlanExprs(sel.group, env), env)), order, env)

(* plan_select_internal: FROM, WHERE, then either the aggregate branch or  *)
(* ORDER BY below the select list.                                         *)
SelectItems(sel, sorted, items) ==
  LET cols == SchemaOf(sorted).cols
  IN IF IsBad(sorted) \/ AnyBad(items) THEN PlanError
     ELSE IF items = <<>>
     THEN NewProjection(sorted,
            [i \in 1..Len(cols) |-> [e |-> "col", name |-> cols[i].name, at |-> <<>>]],
            [i \in 1..Len(cols) |-> cols[i].name])
     ELSE NewProjection(sorted, items,
            [i \in 1..Len(items) |-> OutputName(sel.items[i], items[i])])
Aggregates(sel) ==
  \/ sel.group # <<>> \/ sel.having # <<>>
  \/ \E i \in 1..Len(sel.items) : HasAggregate(sel.items[i].expr)
SelectFrom(sel, order, env, src) ==
  IF IsBad(src) THEN PlanError
  ELSE IF Aggregates(sel) THEN PlanAggregate(src, sel, order, env)
  ELSE SelectItems(sel, SortBy(src, order, env),
                   PlanExprs([i \in 1..Len(sel.items) |-> sel.items[i].expr], env))
WhereOver(from, pred) ==
  IF IsBad(from) \/ AnyBad(pred) THEN PlanError
  ELSE IF pred = <<>> THEN from ELSE Filter(from, pred[1])
PlanSelect(sel, order, env) ==
  SelectFrom(sel, order, env, WhereOver(PlanFrom(sel, env), PlanExprs(sel.where, env)))

(* plan_set_expr; only a select that is a whole query sorts its rows.      *)
CombineBodies(l, r, body) ==
  IF IsBad(l) \/ IsBad(r) \/ ~SameShape(SchemaOf(l), SchemaOf(r)) THEN PlanError
  ELSE SetOp(l, r, body.op, body.all)
PlanBody(body, order, env) ==
  IF body.b = "select" THEN PlanSelect(body, order, env)
  ELSE CombineBodies(PlanBody(body.left, <<>>, env), PlanBody(body.right, <<>>, env), body)

(* The common table expressions in order, each seeing the earlier ones.    *)
AddCte(acc, cte, plan) ==
  IF acc.bad \/ IsBad(plan) \/ cte.name \in acc.mine THEN [acc EXCEPT !.bad = TRUE]
  ELSE [env |-> Append(acc.env, [name |-> cte.name, plan |-> plan]),
        mine |-> acc.mine \cup {cte.name}, bad |-> FALSE]
NamedColumns(cte, inner) ==
  IF IsBad(inner) \/ cte.cols = <<>> THEN inner ELSE QualifiedProjection(inner, "", cte.cols)
PlanScope(q, env) ==
  LET with(acc, cte) == AddCte(acc, cte, NamedColumns(cte, PlanQuery(cte.query, acc.env)))
  IN FoldLeft(with, [env |-> env, mine |-> {}, bad |-> FALSE], q.with)

(* plan_query: the body; DISTINCT above the select list; LIMIT on top.     *)
LimitOver(plan, lim, off) ==
  IF IsBad(plan) \/ AnyBad(lim \o off) THEN PlanError
  ELSE IF lim \o off = <<>> THEN plan ELSE Limit(plan, lim, off)
WholeBody(q, body, env) ==
  IF q.body.b # "select" THEN SortBy(body, q.order, env)
  ELSE IF q.body.distinct /\ ~IsBad(body) THEN Distinct(body) ELSE body
PlanInScope(q, scope) ==
  IF scope.bad THEN PlanError
  ELSE LimitOver(WholeBody(q, PlanBody(q.body, q.order, scope.env), scope.env),
                 PlanExprs(q.lim, scope.env), PlanExprs(q.off, scope.env))
PlanQuery(q, env) == PlanInScope(q, PlanScope(q, env))
=============================================================================
