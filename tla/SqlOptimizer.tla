----------------------------- MODULE SqlOptimizer -----------------------------
(***************************************************************************)
(* Optimizer: predicates pushed down to the scans, a scan path chosen for  *)
(* them, inner joins reordered, limits pushed through projections, sorts   *)
(* removed or replaced by index scans.                                     *)
(*                                                                         *)
(* The code compares costs computed from statistics that may be absent or  *)
(* of any age, so a choice made by cost is a choice among the candidates:  *)
(* the first two passes are sets of plans.                                 *)
(***************************************************************************)
EXTENDS SqlPlanner

RECURSIVE SplitConjuncts(_)
SplitConjuncts(e) ==
  IF e.e = "bin" /\ e.op = "and"
  THEN SplitConjuncts(e.l) \o SplitConjuncts(e.r) ELSE <<e>>

(* combine_conjuncts of a nonempty sequence, left to right.                *)
CombineConjuncts(s) ==
  LET and(a, b) == Bin("and", a, b) IN FoldLeft(and, s[1], Tail(s))

(* The Filter the passes leave above a node that keeps its conjuncts.      *)
FilteredBy(plan, conjuncts) ==
  IF conjuncts = <<>> THEN plan ELSE Filter(plan, CombineConjuncts(conjuncts))

(* cols_subset_of_schema.                                                  *)
ColumnsWithin(cols, schema) == \A c \in cols : ContainsColumn(schema, c)

-----------------------------------------------------------------------------
(* Key ranges.  An optional bound pair is <<>> or <<low, high>>.           *)

(* get_column_comparison and val_to_key: the key a column is compared      *)
(* with, whichever side the column is on; Bool, Float and NULL give none.  *)
ColumnComparison(l, r, name) ==
  LET Of(c, x) == CASE c.e # "col" -> <<>>
                    [] ~NamesMatch(c.name, name) -> <<>>
                    [] x.e = "lit" /\ x.val.t \in {"Int", "Str", "Dec"} -> <<ValueKey(x.val)>>
                    [] x.e = "param" -> <<ParamKey(x.par)>>
                    [] OTHER -> <<>>
  IN IF Of(l, r) # <<>> THEN Of(l, r) ELSE Of(r, l)

(* The least and the greatest key of a column type, text being the default.*)
TypeMin(ty) == ValueKey(IF ty \in {"Int", "Dec"} THEN KeyBounds(ty)[1] ELSE Str(<<>>))
TypeMax(ty) == ValueKey(IF ty \in {"Int", "Dec"} THEN KeyBounds(ty)[2] ELSE Str(<<MaxChar>>))

(* The inclusive bound for a strict comparison: the next integer, the text *)
(* followed by the least character, anything else itself.                  *)
After(k) ==
  CASE k.k = "val" /\ k.val = IntV(MaxInt) -> <<>>
    [] k.k = "val" /\ k.val.t = "Int" -> <<ValueKey(IntV(k.val.v[1] + 1))>>
    [] k.k = "val" /\ k.val.t = "Str" -> <<ValueKey(Str(Append(k.val.v, 0)))>>
    [] OTHER -> <<k>>
Before(k) ==
  CASE k.k = "val" /\ k.val = IntV(MinInt) -> <<>>
    [] k.k = "val" /\ k.val.t = "Int" -> <<ValueKey(IntV(k.val.v[1] - 1))>>
    [] OTHER -> <<k>>

(* like_literal_prefix and prefix_successor.                               *)
LiteralPrefix(pat) ==
  LET wild == {i \in 1..Len(pat) : pat[i] \in {AnyText, AnyChar}}
  IN IF wild = {} THEN pat
     ELSE SubSeq(pat, 1, (CHOOSE i \in wild : \A j \in wild : i <= j) - 1)
PrefixSuccessor(s) ==
  LET can == {i \in 1..Len(s) : s[i] # MaxChar}
      i == CHOOSE j \in can : \A k \in can : k <= j
  IN IF can = {} THEN <<MaxChar>> ELSE Append(SubSeq(s, 1, i - 1), s[i] + 1)

LikePrefixBounds(l, r, name, ty) ==
  LET prefix == LiteralPrefix(r.val.v)
  IN IF /\ ty = "Str" /\ l.e = "col" /\ r.e = "lit" /\ r.val.t = "Str"
        /\ NamesMatch(l.name, name) /\ prefix # <<>>
     THEN <<ValueKey(Str(prefix)), ValueKey(Str(PrefixSuccessor(prefix)))>> ELSE <<>>

(* The tighter of two bounds; a parameter is taken as it stands.           *)
Tighter(a, b, wanted) ==
  CASE a.k = "par" -> a
    [] b.k = "par" -> b
    [] OTHER -> IF CompareDbKeys(a.val, b.val) = wanted THEN a ELSE b

RECURSIVE ExtractBounds(_, _, _)
(* extract_bounds_for_column.                                              *)
ExtractBounds(e, name, ty) ==
  LET lb == ExtractBounds(e.l, name, ty)
      rb == ExtractBounds(e.r, name, ty)
      key == ColumnComparison(e.l, e.r, name)
      low == IF e.op = ">" THEN After(key[1]) ELSE key
      high == IF e.op = "<" THEN Before(key[1]) ELSE key
  IN CASE e.e # "bin" -> <<>>
       [] e.op = "and" ->
            IF lb = <<>> THEN rb ELSE IF rb = <<>> THEN lb
            ELSE <<Tighter(lb[1], rb[1], "Greater"), Tighter(lb[2], rb[2], "Less")>>
       [] e.op = "like" -> LikePrefixBounds(e.l, e.r, name, ty)
       [] key = <<>> -> <<>>
       [] e.op = "=" -> <<key[1], key[1]>>
       [] e.op \in {">", ">="} -> IF low = <<>> THEN <<>> ELSE <<low[1], TypeMax(ty)>>
       [] e.op \in {"<", "<="} -> IF high = <<>> THEN <<>> ELSE <<TypeMin(ty), high[1]>>
       [] OTHER -> <<>>

-----------------------------------------------------------------------------
(* Scan paths.                                                             *)

RECURSIVE MatchOn(_, _)
(* has_match_predicate_for_col / extract_fulltext_query_str_for_col: the   *)
(* first MATCH on the column, through AND and NOT, as <<query>> or <<>>.   *)
MatchOn(e, name) ==
  CASE e.e = "match" /\ NamesMatch(e.name, name) -> <<e.query>>
    [] e.e = "bin" /\ e.op = "and" ->
         IF MatchOn(e.l, name) # <<>> THEN MatchOn(e.l, name) ELSE MatchOn(e.r, name)
    [] e.e = "not" -> MatchOn(e.l, name)
    [] OTHER -> <<>>

RECURSIVE LikeOn(_, _)
(* extract_like_pattern_for_col: through AND only.                         *)
LikeOn(e, name) ==
  CASE /\ e.e = "bin" /\ e.op = "like" /\ e.l.e = "col" /\ NamesMatch(e.l.name, name)
       /\ e.r.e = "lit" /\ e.r.val.t = "Str" -> <<e.r.val.v>>
    [] e.e = "bin" /\ e.op = "and" ->
         IF LikeOn(e.l, name) # <<>> THEN LikeOn(e.l, name) ELSE LikeOn(e.r, name)
    [] OTHER -> <<>>

(* TrigramTokenizer::plan_like: the grams of the literal runs of a pattern.*)
LikeGrams(pat) ==
  {SubSeq(pat, i, i + GramSize - 1) : i \in
     {i \in 1..(Len(pat) - GramSize + 1) :
        \A j \in i..(i + GramSize - 1) : pat[j] \notin {AnyText, AnyChar}}}

(* and_of_tokens.                                                          *)
AndOfTokens(tokens) ==
  LET s == AnySeq({[q |-> "tok", w |-> t] : t \in tokens})
      and(a, b) == [q |-> "and", l |-> a, r |-> b]
  IN FoldLeft(and, s[1], Tail(s))

PkColumn(schema) ==       \* Schema::primary_key_index: a key of one column
  IF Len(schema.pk) = 1 THEN <<schema.cols[schema.pk[1]]>> ELSE <<>>

(* The plans an index offers for a predicate.                              *)
IndexPaths(scan, index, pred) ==
  LET m == MatchingColumns(scan.schema, index.cols[1])
      col == scan.schema.cols[CHOOSE i \in m : \A j \in m : i <= j]
      query == MatchOn(pred, col.name)
      like == LikeOn(pred, col.name)
      grams == LikeGrams(like[1])
      bounds == ExtractBounds(pred, col.name, col.ty)
      Fts(q) == {FullTextScan(scan.tab, index.name, scan.schema, q)}
  IN CASE m = {} -> {}
       [] index.kind # "btree" /\ query # <<>> -> Fts(query[1])
       [] index.kind # "btree" /\ query = <<>> ->
            IF index.kind # "trigram" \/ like = <<>> THEN {}
            ELSE IF grams = {} THEN {} ELSE Fts(AndOfTokens(grams))
       [] OTHER -> IF query # <<>> \/ bounds = <<>> THEN {}
                   ELSE {IndexScan(scan.tab, index.name, scan.schema, bounds)}

(* select_best_scan_path: a full scan, a primary key range or an index.    *)
ScanPaths(scan, pred) ==
  LET pk == PkColumn(scan.schema)
      bounds == IF pk = <<>> THEN <<>> ELSE ExtractBounds(pred, pk[1].name, pk[1].ty)
  IN {Scan(scan.tab, scan.schema, <<>>)}
     \cup (IF bounds = <<>> THEN {} ELSE {Scan(scan.tab, scan.schema, bounds)})
     \cup UNION {IndexPaths(scan, scan.schema.idxs[i], pred) :
                   i \in 1..Len(scan.schema.idxs)}

-----------------------------------------------------------------------------
(* The passes.                                                             *)

(* A node rebuilt over new inputs: the schemas that depend on the inputs   *)
(* are computed again.                                                     *)
Rebuild(p, in) ==
  CASE p.p = "proj" -> NewProjection(in[1], p.exprs, p.names)
    [] p.p = "join" -> NewJoin(in[1], in[2], p.cond, p.jt)
    [] p.p = "agg" -> NewAggregate(in[1], p.group, p.aggs, p.names)
    [] OTHER -> WithInputs(p, in)

PushesRightAlways(jt) == TRUE
(* The joins that let a predicate on the right columns pass below them.    *)
PushesRight(jt) == jt \in {"inner", "cross"}

RECURSIVE PushDown(_, _)
(* push_down_predicate: the plans it may return for p under a sequence of  *)
(* conjuncts.                                                              *)
PushDown(p, conjuncts) ==
  LET ToLeft(c) == ExprColumns(c) # {} /\ ColumnsWithin(ExprColumns(c), SchemaOf(p.left))
      ToRight(c) == /\ ExprColumns(c) # {} /\ ~ToLeft(c)
                    /\ ColumnsWithin(ExprColumns(c), SchemaOf(p.right))
                    /\ PushesRight(p.jt)
      Stays(c) == ~ToLeft(c) /\ ~ToRight(c)
      Below(i) == PushDown(Inputs(p)[i], <<>>)
  IN CASE p.p = "filter" -> PushDown(p.src, conjuncts \o SplitConjuncts(p.pred))
       [] p.p = "join" ->
            {FilteredBy(Rebuild(p, <<l, r>>), SelectSeq(conjuncts, Stays)) :
               l \in PushDown(p.left, SelectSeq(conjuncts, ToLeft)),
               r \in PushDown(p.right, SelectSeq(conjuncts, ToRight))}
       [] p.p \in {"sort", "distinct"} ->
            {WithInputs(p, <<s>>) : s \in PushDown(p.src, conjuncts)}
       [] p.p \in {"proj", "agg", "limit"} ->
            {FilteredBy(Rebuild(p, <<s>>), conjuncts) : s \in Below(1)}
       [] p.p = "setop" ->
            {FilteredBy(WithInputs(p, <<l, r>>), conjuncts) : l \in Below(1), r \in Below(2)}
       [] p.p \in {"scan", "iscan", "fts"} ->
            IF conjuncts = <<>> THEN {p}
            ELSE LET pred == CombineConjuncts(conjuncts)
                 IN {Filter(s, pred) : s \in ScanPaths(p, pred)}

SwapCondition(c) ==
  IF c.e # "bin" THEN c
  ELSE Bin(CASE c.op = "<" -> ">" [] c.op = ">" -> "<" [] c.op = "<=" -> ">="
             [] c.op = ">=" -> "<=" [] OTHER -> c.op, c.r, c.l)

RECURSIVE JoinOrders(_)
(* optimize_join_order: an inner join is swapped when its left input is    *)
(* estimated smaller; a projection restores the order of the columns.      *)
JoinOrders(p) ==
  LET Swapped(l, r) ==
        LET cols == NewJoin(l, r, p.cond, p.jt).schema.cols
        IN NewProjection(NewJoin(r, l, SwapCondition(p.cond), p.jt),
             [i \in 1..Len(cols) |-> [e |-> "col", name |-> cols[i].name, at |-> <<>>]],
             [i \in 1..Len(cols) |-> cols[i].name])
  IN CASE p.p = "join" ->
            UNION {{Rebuild(p, <<l, r>>)}
                     \cup (IF p.jt = "inner" THEN {Swapped(l, r)} ELSE {}) :
                   l \in JoinOrders(p.left), r \in JoinOrders(p.right)}
       [] p.p = "setop" -> {WithInputs(p, <<l, r>>) : l \in JoinOrders(p.left),
                                                       r \in JoinOrders(p.right)}
       [] p.p \in {"scan", "iscan", "fts"} -> {p}
       [] OTHER -> {Rebuild(p, <<s>>) : s \in JoinOrders(p.src)}

RECURSIVE PushLimit(_)
(* push_limit_through_projection.                                          *)
PushLimit(p) ==
  LET in == [i \in 1..Len(Inputs(p)) |-> PushLimit(Inputs(p)[i])]
  IN IF p.p = "limit" /\ in[1].p = "proj"
     THEN [in[1] EXCEPT !.src = PushLimit(Limit(in[1].src, p.lim, p.off))]
     ELSE WithInputs(p, in)

RECURSIVE SortKeyOf(_)
(* get_plan_sort_key: the column a plan's rows are known to be ordered by. *)
SortKeyOf(p) ==
  CASE p.p = "scan" -> LET pk == PkColumn(p.schema)
                       IN IF pk = <<>> THEN <<>> ELSE <<pk[1].name>>
    [] p.p = "iscan" ->
         <<(CHOOSE x \in Range(p.schema.idxs) : x.name = p.index).cols[1]>>
    [] p.p \in {"filter", "limit", "distinct"} -> SortKeyOf(p.src)
    [] p.p = "proj" ->
         LET key == SortKeyOf(p.src)
             at == {i \in 1..Len(p.exprs) : p.exprs[i].e = "col" /\
                                            NamesMatch(p.exprs[i].name, key[1])}
         IN IF key = <<>> THEN <<>> ELSE IF at = {} THEN <<>>
            ELSE <<p.names[CHOOSE i \in at : \A j \in at : i <= j]>>
    [] OTHER -> <<>>

RECURSIVE PromoteToIndexScan(_, _)
(* try_promote_to_index_scan: <<plan>> whose full scan became a scan of    *)
(* the first index that starts with the column, or <<>>.                   *)
PromoteToIndexScan(p, name) ==
  LET Over(s) == IF s = <<>> THEN <<>> ELSE <<WithInputs(p, s)>>
  IN CASE p.p = "scan" ->
            LET m == {i \in 1..Len(p.schema.idxs) :
                        NamesMatch(p.schema.idxs[i].cols[1], name)}
            IN IF m = {} \/ p.range # <<>> THEN <<>>
               ELSE <<IndexScan(p.tab, p.schema.idxs[CHOOSE i \in m : \A j \in m : i <= j].name,
                                p.schema, <<>>)>>
       [] p.p \in {"filter", "limit", "distinct"} -> Over(PromoteToIndexScan(p.src, name))
       [] p.p = "proj" ->
            LET m == {i \in 1..Len(p.exprs) : p.names[i] = name /\ p.exprs[i].e = "col"}
            IN IF m = {} THEN <<>>
               ELSE Over(PromoteToIndexScan(p.src,
                      p.exprs[CHOOSE i \in m : \A j \in m : i <= j].name))
       [] OTHER -> <<>>

RECURSIVE EliminateSorts(_)
(* eliminate_sorts.                                                        *)
EliminateSorts(p) ==
  LET in == [i \in 1..Len(Inputs(p)) |-> EliminateSorts(Inputs(p)[i])]
      same == WithInputs(p, in)
      key == p.keys[1][1].name
      sorted == SortKeyOf(in[1])
      bySort == PromoteToIndexScan(in[1], key)
      byGroup == PromoteToIndexScan(in[1], p.group[1].name)
  IN CASE p.p = "sort" ->
            IF Len(p.keys) # 1 \/ ~p.keys[1][2] \/ p.keys[1][1].e # "col" THEN same
            ELSE IF sorted # <<>> /\ NamesMatch(sorted[1], key) THEN in[1]
            ELSE IF bySort # <<>> THEN bySort[1] ELSE same
       [] p.p = "agg" ->
            IF Len(p.group) # 1 \/ p.group[1].e # "col" \/ byGroup = <<>> THEN same
            ELSE WithInputs(p, byGroup)
       [] OTHER -> same
=============================================================================
