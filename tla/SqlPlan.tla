------------------------------- MODULE SqlPlan -------------------------------
(***************************************************************************)
(* Logical plans, their schemas and the walks over them.                   *)
(*                                                                         *)
(* A plan is a record whose field p is its operator:                       *)
(*   scan(tab, schema, range)  iscan(tab, index, schema, range)            *)
(*   fts(tab, index, schema, query)  filter(src, pred)                     *)
(*   proj(src, exprs, names, schema)  join(left, right, cond, jt, schema)  *)
(*   agg(src, group, aggs, names, schema)  sort(src, keys)                 *)
(*   limit(src, lim, off)  setop(left, right, op, all)  distinct(src)      *)
(* range is <<>> or <<low, high>>, each bound a value or a parameter.      *)
(*                                                                         *)
(* A query (the parsed statement) is [with, body, order, lim, off]; its    *)
(* body is a select [b |-> "select", from, joins, where, group, having,    *)
(* items, distinct] or a set operation [b |-> "setop", op, all, left,      *)
(* right]; a FROM item is [f |-> "table", tab, alias, cols] or             *)
(* [f |-> "derived", query, alias, cols]; a common table expression is     *)
(* [name, cols, query].  items is <<>> for SELECT * and otherwise a        *)
(* sequence of [expr, alias].                                              *)
(***************************************************************************)
EXTENDS SqlExpr

VARIABLE Tables      \* the catalog: table name -> [cols, pk, idxs]

PlanError == [p |-> "error"]
ValueKey(x) == [k |-> "val", val |-> x]
ParamKey(n) == [k |-> "par", par |-> n]

Scan(tab, schema, range) ==
  [p |-> "scan", tab |-> tab, schema |-> schema, range |-> range]
IndexScan(tab, index, schema, range) ==
  [p |-> "iscan", tab |-> tab, index |-> index, schema |-> schema, range |-> range]
FullTextScan(tab, index, schema, query) ==
  [p |-> "fts", tab |-> tab, index |-> index, schema |-> schema, query |-> query]
Filter(src, pred) == [p |-> "filter", src |-> src, pred |-> pred]
Sort(src, keys) == [p |-> "sort", src |-> src, keys |-> keys]
Limit(src, lim, off) == [p |-> "limit", src |-> src, lim |-> lim, off |-> off]
Distinct(src) == [p |-> "distinct", src |-> src]
SetOp(left, right, op, all) ==
  [p |-> "setop", left |-> left, right |-> right, op |-> op, all |-> all]

Ephemeral(cols) == [cols |-> cols, pk |-> <<>>, idxs |-> <<>>]

RECURSIVE SchemaOf(_)
(* LogicalPlan::schema.                                                    *)
SchemaOf(p) ==
  CASE p.p \in {"scan", "iscan", "fts", "proj", "join", "agg"} -> p.schema
    [] p.p \in {"filter", "limit", "distinct", "sort"} -> SchemaOf(p.src)
    [] p.p = "setop" -> SchemaOf(p.left)

(* The type of the first column of a schema that a name matches.           *)
ColumnType(schema, name, default) ==
  LET m == MatchingColumns(schema, name)
  IN IF m = {} THEN default
     ELSE schema.cols[CHOOSE i \in m : \A j \in m : i <= j].ty

RECURSIVE InferType(_, _)
(* infer_expr_type.                                                        *)
InferType(e, schema) ==
  CASE e.e = "lit" -> e.val.t
    [] e.e = "col" -> ColumnType(schema, e.name, "Str")
    [] e.e = "bin" -> IF e.op \in {"+", "-", "*", "/"}
                      THEN InferType(e.l, schema) ELSE "Int"
    [] e.e = "case" -> InferType(e.whens[1][2], schema)
    [] e.e = "fn" -> IF e.f = "length" THEN "Int"
                     ELSE IF e.f = "coalesce" THEN InferType(e.args[1], schema)
                     ELSE "Str"
    [] e.e \in {"not", "isnull", "in", "inq"} -> "Int"
    [] e.e \in {"match", "exists"} -> "Bool"
    [] e.e = "scalarq" -> SchemaOf(e.sub).cols[1].ty
    [] e.e = "param" -> "Null"
    [] e.e = "cast" -> e.ty

NewProjection(src, exprs, names) ==
  [p |-> "proj", src |-> src, exprs |-> exprs, names |-> names,
   schema |-> Ephemeral([i \in 1..Len(exprs) |->
     [name |-> names[i], ty |-> InferType(exprs[i], SchemaOf(src))]])]

NewJoin(left, right, cond, jt) ==
  [p |-> "join", left |-> left, right |-> right, cond |-> cond, jt |-> jt,
   schema |-> Ephemeral(SchemaOf(left).cols \o SchemaOf(right).cols)]

(* An aggregate call is [f, l, dist].                                      *)
NewAggregate(src, group, aggs, names) ==
  LET in == SchemaOf(src)
      Of(e, default) == IF e.e = "col" THEN ColumnType(in, e.name, default) ELSE default
      ty(a) == CASE a.f = "count" -> "Int"
                 [] a.f = "avg" -> IF Of(a.l, "Float") = "Dec" THEN "Dec" ELSE "Float"
                 [] OTHER -> Of(a.l, "Float")
      n == Len(group)
  IN [p |-> "agg", src |-> src, group |-> group, aggs |-> aggs, names |-> names,
      schema |-> Ephemeral([i \in 1..(n + Len(aggs)) |->
        [name |-> names[i],
         ty |-> IF i <= n THEN Of(group[i], "Str") ELSE ty(aggs[i - n])]])]

-----------------------------------------------------------------------------
(* Walking plans: the plans and the expressions directly inside a plan.    *)

Inputs(p) ==
  CASE p.p \in {"join", "setop"} -> <<p.left, p.right>>
    [] p.p \in {"scan", "iscan", "fts", "error"} -> <<>>
    [] OTHER -> <<p.src>>

WithInputs(p, s) ==
  CASE p.p \in {"join", "setop"} -> [p EXCEPT !.left = s[1], !.right = s[2]]
    [] p.p \in {"scan", "iscan", "fts", "error"} -> p
    [] OTHER -> [p EXCEPT !.src = s[1]]

ExprsOf(p) ==
  CASE p.p = "filter" -> <<p.pred>>
    [] p.p = "proj" -> p.exprs
    [] p.p = "join" -> <<p.cond>>
    [] p.p = "agg" -> p.group \o [i \in 1..Len(p.aggs) |-> p.aggs[i].l]
    [] p.p = "sort" -> [i \in 1..Len(p.keys) |-> p.keys[i][1]]
    [] p.p = "limit" -> p.lim \o p.off
    [] OTHER -> <<>>

WithExprs(p, s) ==
  CASE p.p = "filter" -> [p EXCEPT !.pred = s[1]]
    [] p.p = "proj" -> [p EXCEPT !.exprs = s]
    [] p.p = "join" -> [p EXCEPT !.cond = s[1]]
    [] p.p = "agg" ->
         LET n == Len(p.group)
         IN [p EXCEPT !.group = SubSeq(s, 1, n),
                      !.aggs = [i \in 1..Len(p.aggs) |->
                                  [p.aggs[i] EXCEPT !.l = s[n + i]]]]
    [] p.p = "sort" -> [p EXCEPT !.keys =
                          [i \in 1..Len(p.keys) |-> <<s[i], p.keys[i][2]>>]]
    [] p.p = "limit" -> [p EXCEPT !.lim = SubSeq(s, 1, Len(p.lim)),
                                  !.off = SubSeq(s, Len(p.lim) + 1, Len(s))]
    [] OTHER -> p

RECURSIVE ExprColumns(_), PlanColumns(_)
(* Expr::collect_columns and LogicalPlan::collect_columns.                 *)
ExprColumns(e) ==
  (IF e.e \in {"col", "match"} THEN {e.name} ELSE {})
    \cup (IF e.e \in SubqueryKinds THEN PlanColumns(e.sub) ELSE {})
    \cup UNION {ExprColumns(SubExprs(e)[i]) : i \in 1..Len(SubExprs(e))}
PlanColumns(p) ==
  UNION ({ExprColumns(ExprsOf(p)[i]) : i \in 1..Len(ExprsOf(p))}
         \cup {PlanColumns(Inputs(p)[i]) : i \in 1..Len(Inputs(p))})

RECURSIVE SubstituteExpr(_, _), SubstituteParams(_, _)
(* substitute_params, for bindings that cover every parameter: values      *)
(* replace parameters; a range bound must be an Int or a Str.              *)
SubstituteExpr(e, params) ==
  LET s == SubExprs(e)
      inner == WithSubExprs(e, [i \in 1..Len(s) |-> SubstituteExpr(s[i], params)])
  IN CASE e.e = "param" -> Lit(params[e.par])
       [] e.e \in SubqueryKinds -> [inner EXCEPT !.sub = SubstituteParams(@, params)]
       [] OTHER -> inner
SubstituteParams(p, params) ==
  LET in == Inputs(p)
      ex == ExprsOf(p)
      inner == WithExprs(WithInputs(p, [i \in 1..Len(in) |-> SubstituteParams(in[i], params)]),
                         [i \in 1..Len(ex) |-> SubstituteExpr(ex[i], params)])
      Bound(b) == IF b.k = "par" THEN ValueKey(params[b.par]) ELSE b
  IN IF p.p \in {"scan", "iscan"} /\ p.range # <<>>
     THEN IF \E i \in 1..2 : p.range[i].k = "par" /\
                              params[p.range[i].par].t \notin {"Int", "Str"}
          THEN PlanError
          ELSE [p EXCEPT !.range = <<Bound(p.range[1]), Bound(p.range[2])>>]
     ELSE IF \E i \in 1..Len(in) : Inputs(inner)[i] = PlanError THEN PlanError
     ELSE inner
=============================================================================
