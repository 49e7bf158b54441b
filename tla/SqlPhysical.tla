----------------------------- MODULE SqlPhysical -----------------------------
(***************************************************************************)
(* The physical operators: compile_physical binds a logical plan to the    *)
(* columns of its inputs and picks the operators, Run drains them.         *)
(*                                                                         *)
(* Run's argument x is what SqlScan reads plus                             *)
(*   budget  how many rows (or groups) an operator buffers before it       *)
(*           writes them to a sorted run on disk,                          *)
(*   topn    the largest LIMIT + OFFSET served by a bounded heap,          *)
(*   desc    the order in which a hash table is iterated,                  *)
(*   last    which run, and which of two equal heap entries, goes first.   *)
(* The last two stand for orders the code does not define.  Float sums are *)
(* exact in this model: payloads are multiples of 1/Scale.                 *)
(***************************************************************************)
EXTENDS SqlScan

CONSTANT MaxFanin      \* the most runs merged in one pass
ASSUME FaninAssumption == MaxFanin \in Nat \ {0, 1}

-----------------------------------------------------------------------------
(* Sorting with spilled runs.  An entry is [key, val].                     *)

(* sort_entries: a stable sort by key.                                     *)
SortEntries(s, asc) ==
  LET then(c, d) == IF c = "Equal" THEN d ELSE c
      at(order) == [i \in 1..Len(s) |-> s[order[i]]]
  IN at(SortSeq([i \in 1..Len(s) |-> i],
                LAMBDA i, j : then(CompareKeys(s[i].key, s[j].key, asc), Cmp(i, j)) = "Less"))

(* The sorted runs written while the entries arrive, the rest last.        *)
SpilledRuns(s, asc, budget) ==
  LET n == (Len(s) + budget - 1) \div budget
      end(k) == IF k * budget > Len(s) THEN Len(s) ELSE k * budget
  IN [k \in 1..n |-> SortEntries(SubSeq(s, (k - 1) * budget + 1, end(k)), asc)]

(* The entries of a heap that no other one precedes.                       *)
LeastHeads(runs, asc) ==
  LET live == {i \in 1..Len(runs) : runs[i] # <<>>}
  IN {i \in live : \A j \in live :
        CompareKeys(runs[i][1].key, runs[j][1].key, asc) # "Greater"}
OneOf(tied, last) == IF last THEN Max(tied) ELSE Min(tied)

RECURSIVE MergeRuns(_, _, _)
(* KWayMerge::next until drained: the least head goes first.               *)
TakeHead(runs, next, asc, last) ==
  <<runs[next][1]>> \o MergeRuns([runs EXCEPT ![next] = Tail(@)], asc, last)
MergeRuns(runs, asc, last) ==
  IF \A i \in 1..Len(runs) : runs[i] = <<>> THEN <<>>
  ELSE TakeHead(runs, OneOf(LeastHeads(runs, asc), last), asc, last)

RECURSIVE KWayMerge(_, _, _)
(* KWayMerge::new: while there are too many runs, groups of them become    *)
(* one run each; a lone run is carried over.                               *)
KWayMerge(runs, asc, last) ==
  LET n == (Len(runs) + MaxFanin - 1) \div MaxFanin
      end(k) == IF k * MaxFanin > Len(runs) THEN Len(runs) ELSE k * MaxFanin
      group(k) == SubSeq(runs, (k - 1) * MaxFanin + 1, end(k))
  IN IF Len(runs) <= MaxFanin THEN MergeRuns(runs, asc, last)
     ELSE KWayMerge([k \in 1..n |-> MergeRuns(group(k), asc, last)], asc, last)

(* What every sorting operator does with the rows it drains.               *)
ExternalSort(s, asc, x) ==
  IF Len(s) < x.budget THEN SortEntries(s, asc)
  ELSE KWayMerge(SpilledRuns(s, asc, x.budget), asc, x.last)

Ascending(n) == [i \in 1..n |-> TRUE]

-----------------------------------------------------------------------------
(* Accumulators.  One record serves all: running totals int, flt and dec   *)
(* (each <<>> or <<total>>), a count, the best value, the distinct values. *)

NewAccumulator == [int |-> <<>>, flt |-> <<>>, dec |-> <<>>, n |-> 0,
                   best |-> <<>>, seen |-> {}, bad |-> FALSE]

OrZero(o) == IF o = <<>> THEN 0 ELSE o[1]

(* SUM stays an integer until a Float appears or the total leaves i64.     *)
UpdateSum(a, v) ==
  LET n == v.v[1]
      sum == OrZero(a.int) + n
  IN CASE v.t = "Dec" -> [a EXCEPT !.dec = <<(IF @ # <<>> THEN @[1]
                                              ELSE OrZero(a.int) * Scale) + n>>,
                                   !.int = IF a.dec # <<>> THEN @ ELSE <<>>]
       [] v.t = "Int" /\ a.dec # <<>> -> [a EXCEPT !.dec = <<@[1] + n * Scale>>]
       [] v.t = "Int" /\ a.dec = <<>> ->
            IF a.flt # <<>> THEN [a EXCEPT !.flt = <<@[1] + n * Scale>>]
            ELSE IF sum \in MinInt..MaxInt THEN [a EXCEPT !.int = <<sum>>]
            ELSE [a EXCEPT !.int = <<>>, !.flt = <<sum * Scale>>]
       [] v.t = "Float" -> [a EXCEPT !.flt = <<n + (IF a.dec # <<>> THEN a.dec[1]
                                                    ELSE OrZero(@) + OrZero(a.int) * Scale)>>,
                                     !.dec = <<>>,
                                     !.int = IF a.dec # <<>> THEN @ ELSE <<>>]
       [] OTHER -> [a EXCEPT !.bad = TRUE]

(* AVG keeps a Float total (flt) unless a Decimal appears.                 *)
UpdateAvg(a, v) ==
  LET m == Num(v)
      counted == [a EXCEPT !.n = @ + 1]
  IN CASE v.t \notin Numeric -> [a EXCEPT !.bad = TRUE]
       [] v.t = "Dec" -> [counted EXCEPT !.dec =
            <<m + (IF @ # <<>> THEN @[1] ELSE IF a.n > 0 THEN OrZero(a.flt) ELSE 0)>>]
       [] v.t = "Float" /\ a.dec # <<>> ->
            [counted EXCEPT !.flt = <<a.dec[1] + m>>, !.dec = <<>>]
       [] v.t = "Int" /\ a.dec # <<>> -> [counted EXCEPT !.dec = <<@[1] + m>>]
       [] OTHER -> [counted EXCEPT !.flt = <<OrZero(@) + m>>]

(* Accumulator::update of the aggregate call g with one input; NULL is     *)
(* ignored, DISTINCT inputs are only collected.                            *)
Update(g, a, v) ==
  LET c == CompareValues(v, a.best[1])
      wins == IF g.f = "min" THEN "Less" ELSE "Greater"
  IN CASE IsNull(v) -> a
       [] IsErr(v) -> [a EXCEPT !.bad = TRUE]
       [] g.dist /\ g.f \in {"count", "sum", "avg"} -> [a EXCEPT !.seen = @ \cup {v}]
       [] g.f = "count" -> [a EXCEPT !.n = @ + 1]
       [] g.f = "sum" -> UpdateSum(a, v)
       [] g.f = "avg" -> UpdateAvg(a, v)
       [] a.best = <<>> -> [a EXCEPT !.best = <<v>>]
       [] c = "Err" -> [a EXCEPT !.bad = TRUE]
       [] OTHER -> IF c = wins THEN [a EXCEPT !.best = <<v>>] ELSE a

(* Accumulator::merge of two partial results of one group.                 *)
Merge(g, a, b) ==
  LET ints == OrZero(a.int) + OrZero(b.int)
      c == CompareValues(b.best[1], a.best[1])
      wins == IF g.f = "min" THEN "Less" ELSE "Greater"
      sum == CASE a.dec # <<>> \/ b.dec # <<>> ->
                    [a EXCEPT !.dec = <<OrZero(@) + OrZero(b.dec) + ints * Scale>>,
                              !.int = <<>>]
               [] a.flt # <<>> \/ b.flt # <<>> ->
                    [a EXCEPT !.flt = <<OrZero(@) + OrZero(b.flt) + ints * Scale>>,
                              !.int = <<>>]
               [] a.int = <<>> /\ b.int = <<>> -> a
               [] ints \in MinInt..MaxInt -> [a EXCEPT !.int = <<ints>>]
               [] OTHER -> [a EXCEPT !.int = <<>>, !.flt = <<ints * Scale>>]
      avg == IF a.dec # <<>> \/ b.dec # <<>>
             THEN [a EXCEPT !.dec = <<OrZero(@) + OrZero(b.dec)>>, !.n = @ + b.n]
             ELSE [a EXCEPT !.flt = <<OrZero(@) + OrZero(b.flt)>>, !.n = @ + b.n]
      best == CASE b.best = <<>> -> a
                [] a.best = <<>> -> [a EXCEPT !.best = b.best]
                [] c = "Err" -> [a EXCEPT !.bad = TRUE]
                [] OTHER -> IF c = wins THEN [a EXCEPT !.best = b.best] ELSE a
      merged == CASE g.dist /\ g.f \in {"count", "sum", "avg"} ->
                       [a EXCEPT !.seen = @ \cup b.seen]
                  [] g.f = "count" -> [a EXCEPT !.n = @ + b.n]
                  [] g.f = "sum" -> sum
                  [] g.f = "avg" -> avg
                  [] OTHER -> best
  IN [merged EXCEPT !.bad = @ \/ b.bad]

(* Accumulator::finalize; the distinct values are replayed in the order of *)
(* the hash set.                                                           *)
FinalValue(g, r) ==
  IF r.bad THEN Err
  ELSE CASE g.f = "count" -> IntV(r.n)
         [] g.f = "sum" -> IF r.dec # <<>> THEN Dec(r.dec[1])
                           ELSE IF r.flt # <<>> THEN Flt(r.flt[1])
                           ELSE IF r.int # <<>> THEN IntV(r.int[1]) ELSE Null
         [] g.f = "avg" -> IF r.n = 0 THEN Null
                           ELSE IF r.dec # <<>> THEN Dec(Truncate(r.dec[1], r.n))
                           ELSE Flt(Truncate(OrZero(r.flt), r.n))
         [] OTHER -> IF r.best = <<>> THEN Null ELSE r.best[1]
Finalize(g, a, x) ==
  LET wins == IF x.desc THEN "Greater" ELSE "Less"
  IN FinalValue(g, FoldLeft(LAMBDA acc, v : Update([g EXCEPT !.dist = FALSE], acc, v), a,
                            SortSeq(AnySeq(a.seen), LAMBDA u, v : TotalCompare(u, v) = wins)))

-----------------------------------------------------------------------------
(* Compilation.                                                            *)

(* resolve_count_expr: <<n>>, or <<>> when it is not a count.              *)
AsCount(v) == IF v.t = "Int" /\ v.v[1] >= 0 THEN <<v.v[1]>> ELSE <<>>
CountOf(e) == AsCount(Eval(e, <<>>))
CountsOf(s) == IF s = <<>> THEN <<>> ELSE CountOf(s[1])

(* is_plan_sorted_by.                                                      *)
SortedByGroup(src, group) ==
  /\ Len(group) = 1 /\ group[1].e = "col"
  /\ SortKeyOf(src) # <<>> /\ NamesMatch(group[1].name, SortKeyOf(src)[1])

(* The two sides of an equality join, the left input's expression first.   *)
JoinSides(p) ==
  LET in(e, side) == ColumnsWithin(ExprColumns(e), SchemaOf(side))
      l == p.cond.l
      r == p.cond.r
  IN IF in(l, p.left) /\ in(r, p.right) THEN <<l, r>>
     ELSE IF in(r, p.left) /\ in(l, p.right) THEN <<r, l>> ELSE <<l, r>>

(* parent_cols_union.                                                      *)
WithColumns(columns, extra) ==
  IF columns = <<>> THEN <<>> ELSE <<columns[1] \cup extra>>

ColumnsOfAll(exprs) == UNION {ExprColumns(exprs[i]) : i \in 1..Len(exprs)}

RECURSIVE Compile(_, _, _)

(* A limit fuses with the sort below it when the rows it wants are few.    *)
CompileLimit(p, src, lim, off, topn) ==
  LET k == lim[1] + OrZero(off)
      fused == lim # <<>> /\ p.src.p = "sort" /\ k \in 1..topn
  IN [p EXCEPT !.src = IF fused THEN [src EXCEPT !.k = <<k>>] ELSE src]

(* A join other than a cross join is a merge join on one equality.         *)
JoinColumns(p, in, columns) ==
  IF columns = <<>> THEN <<>>
  ELSE <<{c \in columns[1] \cup ExprColumns(p.cond) : ContainsColumn(SchemaOf(in), c)}>>
JoinOn(p, l, r, lon, ron) ==
  IF ~(p.cond.e = "bin" /\ p.cond.op = "=") \/ lon = Lit(Err) \/ ron = Lit(Err) THEN PlanError
  ELSE [p EXCEPT !.left = l, !.right = r, !.cond = Bin("=", lon, ron)]
JoinOnSides(p, l, r, ons) ==
  JoinOn(p, l, r, BindColumns(ons[1], SchemaOf(p.left)), BindColumns(ons[2], SchemaOf(p.right)))
CompileJoin(p, l, r) ==
  IF IsBad(l) \/ IsBad(r) THEN PlanError
  ELSE IF p.jt = "cross" THEN [p EXCEPT !.left = l, !.right = r]
  ELSE JoinOnSides(p, l, r, JoinSides(p))

(* Rows that come in the order of the one grouping column are aggregated   *)
(* as they come.                                                           *)
CompileAggregate(p, src, bound) ==
  [WithExprs(p, bound) EXCEPT !.src = src] @@ [inOrder |-> SortedByGroup(p.src, p.group)]

CompileSort(p, src, bound) == [WithExprs(p, bound) EXCEPT !.src = src] @@ [k |-> <<>>]

CompileSetOp(p, l, r) ==
  IF IsBad(l) \/ IsBad(r) THEN PlanError ELSE [p EXCEPT !.left = l, !.right = r]

(* The columns a node needs of its input.                                  *)
NeededBelow(p, columns) ==
  CASE p.p \in {"proj", "agg"} -> <<ColumnsOfAll(ExprsOf(p))>>
    [] p.p \in {"filter", "sort"} -> WithColumns(columns, ColumnsOfAll(ExprsOf(p)))
    [] OTHER -> columns

(* compile_physical for the columns the parent needs: the plan with every  *)
(* expression bound to its input, the columns each scan loads, and the     *)
(* operators chosen.                                                       *)
BoundExprs(p) ==
  LET exprs == ExprsOf(p)
  IN [i \in 1..Len(exprs) |-> BindColumns(exprs[i], SchemaOf(p.src))]
CompileOver(p, src, bound) ==
  IF AnyBad(bound) THEN PlanError
  ELSE CASE p.p = "sort" -> CompileSort(p, src, bound)
         [] p.p = "agg" -> CompileAggregate(p, src, bound)
         [] OTHER -> [WithExprs(p, bound) EXCEPT !.src = src]
CompileUnary(p, src, topn) ==
  IF IsBad(src) THEN PlanError
  ELSE IF p.p = "limit" THEN CompileLimit(p, src, CountsOf(p.lim), CountsOf(p.off), topn)
  ELSE CompileOver(p, src, BoundExprs(p))
Compile(p, columns, topn) ==
  CASE p.p \in {"scan", "iscan", "fts"} -> p @@ [columns |-> columns]
    [] p.p = "join" -> CompileJoin(p, Compile(p.left, JoinColumns(p, p.left, columns), topn),
                                   Compile(p.right, JoinColumns(p, p.right, columns), topn))
    [] p.p = "setop" -> CompileSetOp(p, Compile(p.left, columns, topn),
                                     Compile(p.right, columns, topn))
    [] OTHER -> CompileUnary(p, Compile(p.src, NeededBelow(p, columns), topn), topn)

-----------------------------------------------------------------------------
(* Execution.                                                              *)

(* Row i of s yields the rows out[i]; the stream ends at the first bad row.*)
EmitUntil(s, out, bad) ==
  [rows |-> FlattenSeq(SubSeq(out, 1, IF bad = {} THEN Len(s.rows) ELSE Min(bad) - 1)),
   err |-> s.err \/ bad # {}]

AnyErr(vals) == \E i \in 1..Len(vals) : IsErr(vals[i])
EvalAll(exprs, row) == [i \in 1..Len(exprs) |-> Eval(exprs[i], row)]
KeyedRows(s, exprs) ==
  [i \in 1..Len(s.rows) |-> [key |-> EvalAll(exprs, s.rows[i]), val |-> s.rows[i]]]
Payloads(entries) == [i \in 1..Len(entries) |-> entries[i].val]

(* PhysicalTopN: a heap of k entries whose worst one is replaced only by a *)
(* strictly better one.                                                    *)
TopN(entries, asc, k, x) ==
  LET worst(h) == OneOf({i \in 1..k : \A j \in 1..k :
                           CompareKeys(h[i].key, h[j].key, asc) # "Less"}, x.last)
      replace(h, i, e) == IF CompareKeys(e.key, h[i].key, asc) = "Less"
                          THEN [h EXCEPT ![i] = e] ELSE h
      push(h, e) == IF Len(h) < k THEN Append(h, e) ELSE replace(h, worst(h), e)
      drained(h) == IF x.last THEN Reverse(h) ELSE h
  IN SortEntries(drained(FoldLeft(push, <<>>, entries)), asc)

(* PhysicalSortMergeJoin over two sorted inputs: NULL keys never join, an  *)
(* unmatched left row of a left join is padded.                            *)
MergeJoin(l, r, jt, width) ==
  LET matches(k) == SelectSeq(r, LAMBDA e : ~IsNull(k[1]) /\ CompareRows(k, e.key) = "Equal")
      out(row, m) == IF m # <<>> THEN [j \in 1..Len(m) |-> row \o m[j].val]
                     ELSE IF jt = "left" THEN <<row \o [j \in 1..width |-> Null]>> ELSE <<>>
  IN FlattenSeq([i \in 1..Len(l) |-> out(l[i].val, matches(l[i].key))])

(* set_op_emit_count.                                                      *)
EmitCount(op, all, l, r) ==
  CASE op = "union" -> IF all THEN l + r ELSE 1
    [] op = "intersect" -> IF all THEN IF l < r THEN l ELSE r
                           ELSE IF l > 0 /\ r > 0 THEN 1 ELSE 0
    [] op = "except" -> IF all THEN IF l > r THEN l - r ELSE 0
                        ELSE IF l > 0 /\ r = 0 THEN 1 ELSE 0

(* How many entries at the head of a sorted stream have the key k.         *)
HeadCount(s, k) ==
  Min({Len(s) + 1} \cup {i \in 1..Len(s) : CompareRows(s[i].key, k) # "Equal"}) - 1

RECURSIVE MergeSetOp(_, _, _, _)
(* SetOpIterator: the smaller head is the next key.                        *)
EmitKey(l, r, k, m, n, op, all) ==      \* m and n: how often the key leads l and r
  [i \in 1..EmitCount(op, all, m, n) |-> k]
    \o MergeSetOp(SubSeq(l, m + 1, Len(l)), SubSeq(r, n + 1, Len(r)), op, all)
NextKey(l, r) ==
  IF r = <<>> \/ (l # <<>> /\ CompareRows(l[1].key, r[1].key) # "Greater")
  THEN l[1].key ELSE r[1].key
CountKey(l, r, k, op, all) == EmitKey(l, r, k, HeadCount(l, k), HeadCount(r, k), op, all)
MergeSetOp(l, r, op, all) ==
  IF l = <<>> /\ r = <<>> THEN <<>> ELSE CountKey(l, r, NextKey(l, r), op, all)

(* PhysicalDistinct over a sorted stream: a look back at the last row.     *)
DropRepeats(s) ==
  LET keep(i) == i = 1 \/ CompareRows(s[i - 1].key, s[i].key) # "Equal"
  IN FlattenSeq([i \in 1..Len(s) |-> IF keep(i) THEN <<s[i].key>> ELSE <<>>])

-----------------------------------------------------------------------------
(* Aggregation.  A group is an entry whose val is its accumulators.        *)

NewGroup(key, aggs) == [key |-> key, val |-> [i \in 1..Len(aggs) |-> NewAccumulator]]

UpdateGroup(g, aggs, row) ==
  [g EXCEPT !.val = [i \in 1..Len(aggs) |-> Update(aggs[i], @[i], Eval(aggs[i].l, row))]]

(* finalize_group: one output row.                                         *)
GroupRow(g, aggs, x) ==
  g.key \o [i \in 1..Len(aggs) |-> Finalize(aggs[i], g.val[i], x)]

(* AggMerge: adjacent partial groups with equal keys are merged.           *)
CombinePartials(s, aggs) ==
  LET merge(acc, g) ==
        LET n == Len(acc)
        IN IF n > 0 /\ acc[n].key = g.key
           THEN [acc EXCEPT ![n].val = [i \in 1..Len(aggs) |-> Merge(aggs[i], @[i], g.val[i])]]
           ELSE Append(acc, g)
  IN FoldLeft(merge, <<>>, s)

(* spill_group_map: the groups in memory, if any, become a run.            *)
SpillGroups(st, asc) ==
  IF st.groups = <<>> THEN st
  ELSE [groups |-> <<>>, runs |-> Append(st.runs, SortEntries(st.groups, asc))]

(* The groups with one more row in them.                                   *)
AddToGroup(groups, aggs, e) ==
  LET known == {i \in 1..Len(groups) : groups[i].key = e.key}
      all == IF known = {} THEN Append(groups, NewGroup(e.key, aggs)) ELSE groups
      at == IF known = {} THEN Len(all) ELSE Min(known)
  IN [all EXCEPT ![at] = UpdateGroup(@, aggs, e.val)]

(* PhysicalHashAggregate: the groups in memory become a run when the       *)
(* budget is reached; without runs they come out in hash order.            *)
GroupsOut(done, aggs, asc, x) ==
  CASE done.runs # <<>> ->
         CombinePartials(KWayMerge(SpillGroups(done, asc).runs, asc, x.last), aggs)
    [] done = [groups |-> <<>>, runs |-> <<>>] /\ asc = <<>> -> <<NewGroup(<<>>, aggs)>>
    [] OTHER -> SortEntries(done.groups, [i \in 1..Len(asc) |-> ~x.desc])
SpillFull(st, asc, budget) ==
  IF Len(st.groups) >= budget /\ asc # <<>> THEN SpillGroups(st, asc) ELSE st
HashGroups(entries, aggs, asc, x) ==
  GroupsOut(FoldLeft(LAMBDA st, e : SpillFull([st EXCEPT !.groups = AddToGroup(@, aggs, e)],
                                              asc, x.budget),
                     [groups |-> <<>>, runs |-> <<>>], entries), aggs, asc, x)

(* PhysicalSortedAggregate: a group ends where the key changes.            *)
OpenGroup(groups, key, aggs) ==
  IF groups # <<>> /\ Last(groups).key = key THEN groups ELSE Append(groups, NewGroup(key, aggs))
IntoLast(groups, aggs, row) == [groups EXCEPT ![Len(groups)] = UpdateGroup(@, aggs, row)]
SortedGroups(entries, aggs) ==
  FoldLeft(LAMBDA groups, e : IntoLast(OpenGroup(groups, e.key, aggs), aggs, e.val), <<>>, entries)

(* The rows of an Aggregate.  A hash aggregate drains its input first; a   *)
(* sorted one streams, and loses its unfinished group to an error.         *)
EmitGroups(c, out, broken, x) ==      \* out: a row for every group
  LET wrong == {i \in 1..Len(out) : AnyErr(out[i])}
      inMemory == Len(out) < x.budget \/ c.group = <<>>
  IN IF ~c.inOrder /\ (broken \/ (wrong # {} /\ inMemory)) THEN Failed
     ELSE EmitUntil([rows |-> out, err |-> c.inOrder /\ broken],
                    [i \in 1..Len(out) |-> <<out[i]>>], wrong)
GroupRows(groups, aggs, x) == [i \in 1..Len(groups) |-> GroupRow(groups[i], aggs, x)]
Finished(groups, broken) == IF broken /\ groups # <<>> THEN Front(groups) ELSE groups
AggregateEntries(c, s, entries, bad, x) ==      \* bad: the entries whose key is an error
  LET broken == s.err \/ bad # {}
      good == IF bad = {} THEN entries ELSE SubSeq(entries, 1, Min(bad) - 1)
  IN EmitGroups(c, GroupRows(IF c.inOrder THEN Finished(SortedGroups(good, c.aggs), broken)
                             ELSE HashGroups(entries, c.aggs, Ascending(Len(c.group)), x),
                             c.aggs, x), broken, x)
KeyedAggregate(c, s, entries, x) ==
  AggregateEntries(c, s, entries, {i \in 1..Len(entries) : AnyErr(entries[i].key)}, x)
RunAggregate(c, s, x) == KeyedAggregate(c, s, KeyedRows(s, c.group), x)

(* The key range a scan resolves at execution (PlanKey::resolve): <<>>     *)
(* when a parameter has no key.                                            *)
ResolveRange(range, params) ==
  LET key(b) == IF b.k = "val" THEN b.val ELSE params[b.par]
      ok(b) == b.k = "par" => key(b).t \in {"Int", "Str", "Dec"}
  IN IF ok(range[1]) /\ ok(range[2]) THEN <<key(range[1]), key(range[2])>> ELSE <<>>

RunScan(c, x) ==
  LET schema == c.schema
      whole == IF c.p = "scan" THEN PkBounds(schema)
               ELSE LET first == IndexNamed(schema, c.index).cols[1]
                    IN KeyBounds(ColumnType(schema, first, "Str"))
      given == ResolveRange(c.range, x.params)
      rng == IF c.range = <<>> THEN whole
             ELSE IF c.p = "scan" THEN <<<<given[1]>>, <<given[2]>>>> ELSE given
  IN IF c.range # <<>> /\ given = <<>> THEN Failed
     ELSE IF c.p = "scan" THEN TableScan(x, c.tab, rng, c.columns)
     ELSE IndexRangeScan(x, c.tab, c.index, rng, c.columns)

LimitRows(c, s, lim, off) ==
  LET end == IF lim = <<>> THEN Len(s.rows) ELSE Min({Len(s.rows), off[1] + lim[1]})
  IN IF (c.lim # <<>> /\ lim = <<>>) \/ off = <<>> THEN Failed
     ELSE [rows |-> SubSeq(s.rows, off[1] + 1, end),
           err |-> s.err /\ (lim = <<>> \/ Len(s.rows) < off[1] + lim[1])]
RunLimit(c, s) ==
  LimitRows(c, s, CountsOf(c.lim), IF c.off = <<>> THEN <<0>> ELSE CountOf(c.off[1]))

(* PhysicalFilter and PhysicalProjection, row by row.                      *)
FilterRows(s, val) ==
  EmitUntil(s, [i \in 1..Len(val) |-> IF Truthy(val[i]) THEN <<s.rows[i]>> ELSE <<>>],
            {i \in 1..Len(val) : IsErr(val[i])})
RunFilter(c, s) == FilterRows(s, [i \in 1..Len(s.rows) |-> Eval(c.pred, s.rows[i])])

ProjectRows(s, vals) ==
  EmitUntil(s, [i \in 1..Len(vals) |-> <<vals[i]>>], {i \in 1..Len(vals) : AnyErr(vals[i])})
RunProjection(c, s) ==
  ProjectRows(s, [i \in 1..Len(s.rows) |-> EvalAll(c.exprs, s.rows[i])])

(* PhysicalSort, or PhysicalTopN when fused with a limit: the input is     *)
(* drained first.                                                          *)
AnyBadKey(entries) == \E i \in 1..Len(entries) : AnyErr(entries[i].key)
SortKeyed(c, s, keyed, asc, x) ==
  IF s.err \/ AnyBadKey(keyed) THEN Failed
  ELSE Rows(Payloads(IF c.k = <<>> THEN ExternalSort(keyed, asc, x)
                     ELSE TopN(keyed, asc, c.k[1], x)))
RunSort(c, s, x) ==
  SortKeyed(c, s, KeyedRows(s, ExprsOf(c)), [i \in 1..Len(c.keys) |-> c.keys[i][2]], x)

(* PhysicalCrossJoin: the right input is drained first, the left streams.  *)
RunCrossJoin(s, r) ==
  IF r.err THEN Failed
  ELSE IF r.rows = <<>> THEN Rows(<<>>)
  ELSE EmitUntil(s, [i \in 1..Len(s.rows) |->
                       [j \in 1..Len(r.rows) |-> s.rows[i] \o r.rows[j]]], {})

(* PhysicalSortMergeJoin: both inputs are drained and sorted.              *)
JoinKeyed(c, left, right, x) ==
  IF AnyBadKey(left) \/ AnyBadKey(right) THEN Failed
  ELSE Rows(MergeJoin(ExternalSort(left, <<TRUE>>, x), ExternalSort(right, <<TRUE>>, x),
                      c.jt, Len(SchemaOf(c.right).cols)))
RunMergeJoin(c, s, r, x) ==
  IF s.err \/ r.err THEN Failed
  ELSE JoinKeyed(c, KeyedRows(s, <<c.cond.l>>), KeyedRows(r, <<c.cond.r>>), x)

(* SortedRowStream: whole rows as keys.                                    *)
SortedRows(s, x) ==
  LET n == IF s.rows = <<>> THEN 0 ELSE Len(s.rows[1])
  IN ExternalSort([i \in 1..Len(s.rows) |-> [key |-> s.rows[i], val |-> s.rows[i]]],
                  Ascending(n), x)

RunSetOp(c, s, r, x) ==
  IF s.err \/ r.err THEN Failed
  ELSE Rows(MergeSetOp(SortedRows(s, x), SortedRows(r, x), c.op, c.all))

RunDistinct(s, x) == IF s.err THEN Failed ELSE Rows(DropRepeats(SortedRows(s, x)))

RECURSIVE Run(_, _)
(* PhysicalOperator::execute, drained, of a compiled plan; parameters are  *)
(* bound as it starts.                                                     *)
RunBound(c, x) ==
  LET s == Run(Inputs(c)[1], x)
      r == Run(Inputs(c)[2], x)
  IN CASE c.p \in {"scan", "iscan"} -> RunScan(c, x)
       [] c.p = "fts" -> TextScan(x, c.tab, c.index, c.query, c.columns)
       [] c.p = "filter" -> RunFilter(c, s)
       [] c.p = "proj" -> RunProjection(c, s)
       [] c.p = "limit" -> RunLimit(c, s)
       [] c.p = "sort" -> RunSort(c, s, x)
       [] c.p = "agg" -> RunAggregate(c, s, x)
       [] c.p = "join" /\ c.jt = "cross" -> RunCrossJoin(s, r)
       [] c.p = "join" /\ c.jt # "cross" -> RunMergeJoin(c, s, r, x)
       [] c.p = "setop" -> RunSetOp(c, s, r, x)
       [] c.p = "distinct" -> RunDistinct(s, x)
Run(compiled, x) ==
  LET ex == ExprsOf(compiled)
  IN RunBound(WithExprs(compiled, [i \in 1..Len(ex) |-> SubstituteExpr(ex[i], x.params)]), x)
=============================================================================
