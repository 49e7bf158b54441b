------------------------------ MODULE SqlEngine ------------------------------
(***************************************************************************)
(* SqlEngine's way from a planned query to its rows: subqueries folded to  *)
(* constants, the plan optimized, compiled and drained.                    *)
(*                                                                         *)
(* x is the argument of Run; its field alt says which candidate the costs  *)
(* favour when a subquery is optimized.                                    *)
(***************************************************************************)
EXTENDS SqlPhysical

(* Optimizer::optimize, for one outcome of the cost comparisons.           *)
Favoured(candidates, alt) ==
  LET one == CHOOSE q \in candidates : TRUE
  IN IF alt /\ candidates # {one} THEN CHOOSE q \in candidates \ {one} : TRUE ELSE one
Optimize(p, x) ==
  EliminateSorts(PushLimit(CHOOSE q \in JoinOrders(Favoured(PushDown(p, <<>>), x.alt)) : TRUE))

RECURSIVE AllExprs(_), AllWithin(_)
(* Every expression anywhere in a plan, those of its subqueries included.  *)
AllWithin(e) ==
  {e} \cup UNION {AllWithin(SubExprs(e)[i]) : i \in 1..Len(SubExprs(e))}
      \cup (IF e.e \in SubqueryKinds THEN AllExprs(e.sub) ELSE {})
AllExprs(p) ==
  UNION ({AllWithin(ExprsOf(p)[i]) : i \in 1..Len(ExprsOf(p))}
         \cup {AllExprs(Inputs(p)[i]) : i \in 1..Len(Inputs(p))})

ContainsSubquery(p) == \E e \in AllExprs(p) : e.e \in SubqueryKinds

RECURSIVE FoldPlan(_, _), FoldExpr(_, _)
(* exec_subplan.                                                           *)
RunCompiled(c, x) == IF IsBad(c) THEN Failed ELSE Run(c, x)
ExecSubplan(p, x) == RunCompiled(Compile(Optimize(p, x), <<>>, x.topn), x)

(* fold_subquery_node: a subquery becomes a constant, Err's literal when   *)
(* it fails.                                                               *)
Constant(e, operands, got) ==
  LET list == InList(operands[1], [i \in 1..Len(got.rows) |-> Lit(got.rows[i][1])])
      one == Len(SchemaOf(e.sub).cols) = 1
  IN IF got.err \/ (e.e # "exists" /\ ~one) THEN Lit(Err)
     ELSE CASE e.e = "exists" -> Lit(BoolV((got.rows # <<>>) # e.neg))
            [] e.e = "inq" -> IF e.neg THEN NotE(list) ELSE list
            [] e.e = "scalarq" -> IF Len(got.rows) > 1 THEN Lit(Err)
                                  ELSE Lit(IF got.rows = <<>> THEN Null ELSE got.rows[1][1])
FoldSubquery(e, operands, sub, x) ==
  IF IsBad(sub) THEN Lit(Err) ELSE Constant(e, operands, ExecSubplan(sub, x))

(* fold_expr, from the operands up.                                        *)
FoldOver(e, operands, x) ==
  IF AnyBad(operands) THEN Lit(Err)
  ELSE IF e.e \in SubqueryKinds THEN FoldSubquery(e, operands, FoldPlan(e.sub, x), x)
  ELSE WithSubExprs(e, operands)
FoldExpr(e, x) == FoldOver(e, [i \in 1..Len(SubExprs(e)) |-> FoldExpr(SubExprs(e)[i], x)], x)

(* fold_plan; the counts of a LIMIT are not folded.                        *)
FoldedPlan(p, inputs, exprs) ==
  IF (\E i \in 1..Len(inputs) : IsBad(inputs[i])) \/ AnyBad(exprs) THEN PlanError
  ELSE WithExprs(WithInputs(p, inputs), exprs)
FoldPlan(p, x) ==
  FoldedPlan(p, [i \in 1..Len(Inputs(p)) |-> FoldPlan(Inputs(p)[i], x)],
             IF p.p = "limit" THEN ExprsOf(p)
             ELSE [i \in 1..Len(ExprsOf(p)) |-> FoldExpr(ExprsOf(p)[i], x)])

(* match_point_get and execute_point_get: an optional projection over an   *)
(* optional filter over a scan of one key is one read; <<stream>>, or <<>> *)
(* when the plan is not of that shape.                                     *)
BelowList(p) == IF p.p = "proj" THEN p.src ELSE p
PointScan(p) == IF BelowList(p).p = "filter" THEN BelowList(p).src ELSE BelowList(p)
PointPred(p) == IF BelowList(p).p = "filter" THEN <<BelowList(p).pred>> ELSE <<>>
PointExprs(p) == PointPred(p) \o (IF p.p = "proj" THEN p.exprs ELSE <<>>)
PointRow(p, row, n, vals) ==      \* vals: of the n predicates, then of the list
  IF n = 1 /\ IsErr(vals[1]) THEN Failed
  ELSE IF n = 1 /\ ~Truthy(vals[1]) THEN Rows(<<>>)
  ELSE IF p.p # "proj" THEN Rows(<<row>>)
  ELSE IF AnyErr(vals) THEN Failed ELSE Rows(<<SubSeq(vals, n + 1, Len(vals))>>)
PointFound(p, got, x) ==
  LET bound(e) == BindColumns(SubstituteExpr(e, x.params), PointScan(p).schema)
  IN IF got = <<>> THEN Rows(<<>>)
     ELSE PointRow(p, got[1], Len(PointPred(p)),
                   [i \in 1..Len(PointExprs(p)) |-> Eval(bound(PointExprs(p)[i]), got[1])])
PointAt(p, rng, x) ==
  IF rng = <<>> \/ rng[1] # rng[2] THEN <<>>
  ELSE <<PointFound(p, MultiGet(x, PointScan(p).tab, <<<<rng[1]>>>>,
                                <<ColumnsOfAll(PointExprs(p))>>), x)>>
PointGet(p, x) ==
  IF PointScan(p).p # "scan" \/ PointScan(p).range = <<>> THEN <<>>
  ELSE PointAt(p, ResolveRange(PointScan(p).range, x.params), x)

(* The Query arm of execute_planned: fold, try a point get, otherwise      *)
(* compile for the columns the plan names, and drain.                      *)
PointOrRun(p, got, x) ==
  IF got # <<>> THEN got[1] ELSE RunCompiled(Compile(p, <<PlanColumns(p)>>, x.topn), x)
ExecuteFolded(p, x) == IF IsBad(p) THEN Failed ELSE PointOrRun(p, PointGet(p, x), x)
ExecuteQuery(p, x) == ExecuteFolded(IF ContainsSubquery(p) THEN FoldPlan(p, x) ELSE p, x)

-----------------------------------------------------------------------------
(* Prepared statements: parameters stay symbolic in the cached plan.       *)

HasParameter(e) == \E f \in AllWithin(e) : f.e = "param"

ParameterizedLike(p) ==
  \E e \in AllExprs(p) : e.e = "bin" /\ e.op = "like" /\ HasParameter(e)

(* A comparison of a parameter with a column whose statistics are skewed.  *)
SkewedComparison(p, skewed) ==
  \E e \in AllExprs(p) :
    /\ e.e = "bin" /\ e.op \in Comparisons
    /\ \/ e.l.e = "col" /\ e.r.e = "param" /\ e.l.name[2] \in skewed
       \/ e.l.e = "param" /\ e.r.e = "col" /\ e.r.name[2] \in skewed

(* is_value_dependent.                                                     *)
ValueDependent(p, x) == ParameterizedLike(p) \/ SkewedComparison(p, x.skew)

(* is_point_get_symbolic.                                                  *)
SymbolicPointGet(p) ==
  /\ PointScan(p).p = "scan"
  /\ PointScan(p).range # <<>>
  /\ PointScan(p).range[1] = PointScan(p).range[2]

(* What prepare caches for a query: the logical plan, and an optimized     *)
(* point get or a compiled plan when there is one.                         *)
CacheEntry(p, optimized, c, x) ==
  LET point == SymbolicPointGet(optimized)
  IN [logical |-> p, point |-> IF point THEN <<optimized>> ELSE <<>>,
      physical |-> IF point \/ ValueDependent(p, x) \/ IsBad(c) THEN <<>> ELSE <<c>>]
PreparedQuery(p, optimized, x) ==
  CacheEntry(p, optimized, Compile(optimized, <<PlanColumns(optimized)>>, x.topn), x)

(* execute_prepared of a fresh statement: the point get, the compiled plan *)
(* with the parameters bound as it runs, or the direct path.               *)
ExecuteBound(bound, x) == IF IsBad(bound) THEN Failed ELSE ExecuteQuery(Optimize(bound, x), x)
ExecuteEntry(prepared, got, x) ==
  IF got # <<>> THEN got[1]
  ELSE IF prepared.physical # <<>> THEN Run(prepared.physical[1], x)
  ELSE ExecuteBound(SubstituteParams(prepared.logical, x.params), x)
ExecutePrepared(prepared, x) ==
  ExecuteEntry(prepared, IF prepared.point = <<>> THEN <<>> ELSE PointGet(prepared.point[1], x), x)
=============================================================================
