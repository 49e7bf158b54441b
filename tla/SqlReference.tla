---------------------------- MODULE SqlReference ----------------------------
(***************************************************************************)
(* What a query means, and what an INSERT, DELETE or UPDATE does, computed *)
(* from the statement itself, with nested loops over complete rows, no     *)
(* plan, no index and no memory bound.                                     *)
(* Only the evaluation of an expression against one row (Eval) is shared   *)
(* with the model of the engine.                                           *)
(*                                                                         *)
(* A relation is [cols, rows, err]; an answer is [rows, err] whose rows    *)
(* are entries [key, val]: the value of the ORDER BY keys and the row.     *)
(***************************************************************************)
EXTENDS SqlDml

(* The rows of a table that a transaction sees.                            *)
VisibleRows(x, tab) ==
  LET schema == Tables[tab]
      buf == x.buf[tab]
      written == {buf[k][1] : k \in {k \in DOMAIN buf : buf[k] # <<>>}}
      before(r, s) == KeyBefore(PkOf(schema, r), PkOf(schema, s))
  IN SortSeq(AnySeq({r \in x.rows[tab] : PkOf(schema, r) \notin DOMAIN buf} \cup written), before)

(* An aggregate over the values of a group, by its definition: a sum is    *)
(* exact, and a Float when it leaves the range of integers.                *)
RefAggregate(f, vals) ==
  LET n == Len(vals)
      add(a, v) == a + Num(v)
      total == FoldLeft(add, 0, vals)
      has(ty) == \E i \in 1..n : vals[i].t = ty
      extreme == {i \in 1..n : \A j \in 1..n :
                    CompareValues(vals[i], vals[j]) \in
                      {"Equal", IF f = "min" THEN "Less" ELSE "Greater"}}
  IN CASE f = "count" -> IntV(n)
       [] n = 0 -> Null
       [] f \in {"sum", "avg"} /\ (has("Str") \/ has("Bool")) -> Err
       [] f = "sum" -> CASE has("Dec") -> Dec(total)
                         [] has("Float") -> Flt(total)
                         [] OTHER -> IF total \div Scale \in MinInt..MaxInt
                                     THEN IntV(total \div Scale) ELSE Flt(total)
       [] f = "avg" -> IF has("Dec") THEN Dec(Truncate(total, n)) ELSE Flt(Truncate(total, n))
       [] OTHER -> IF extreme = {} THEN Err ELSE vals[CHOOSE i \in extreme : TRUE]

(* How often a row that occurs l and r times in its inputs is in a set     *)
(* operation's result.                                                     *)
RefCount(op, all, l, r) ==
  CASE op = "union" -> IF all THEN l + r ELSE 1
    [] op = "intersect" -> LET least == IF l < r THEN l ELSE r
                           IN IF all \/ least = 0 THEN least ELSE 1
    [] op = "except" -> IF all THEN IF l > r THEN l - r ELSE 0
                        ELSE IF r = 0 THEN 1 ELSE 0

RECURSIVE RefSorted(_, _, _), RefBody(_, _, _, _), Ground(_, _, _, _, _)

(* A query as another query reads it.                                      *)
RefReturned(r) == [cols |-> r.cols, rows |-> SubSeq(r.rows, r.from, r.to), err |-> r.err]
RefQuery(q, env, x) == RefReturned(RefSorted(q, env, x))

(* e with its aggregates and subqueries replaced by their values, over the *)
(* rows of a group with the given columns.                                 *)
GroundAggregate(e, vals) ==
  IF AnyErr(vals) THEN Lit(Err)
  ELSE Lit(RefAggregate(e.f, IF e.dist THEN AnySeq(Range(vals)) ELSE vals))
GroundSubquery(e, inner, sub) ==
  LET n == Len(sub.rows)
      items == [i \in 1..n |-> Lit(sub.rows[i].val[1])]
  IN IF sub.err THEN Lit(Err)
     ELSE CASE e.e = "exists" -> Lit(BoolV((n > 0) # e.neg))
            [] e.e = "scalarq" -> IF n > 1 THEN Lit(Err) ELSE IF n = 0 THEN Lit(Null) ELSE items[1]
            [] e.e = "inq" -> IF e.neg THEN NotE(InList(inner[1], items))
                              ELSE InList(inner[1], items)
Known(vals) == SelectSeq(vals, LAMBDA v : ~IsNull(v))
EvalEach(e, group) == [i \in 1..Len(group) |-> Eval(e, group[i])]
GroundOver(e, inner, cols, group, env, x) ==
  CASE e.e = "agg" ->
         GroundAggregate(e, Known(EvalEach(BindColumns(e.l, Ephemeral(cols)), group)))
    [] e.e = "param" -> Lit(x.params[e.par])
    [] e.e \in SubqueryKinds -> GroundSubquery(e, inner, RefQuery(e.sub, env, x))
    [] e.e = "fn" /\ e.f = "between" ->
         Bin("and", Bin(">=", inner[1], inner[2]), Bin("<=", inner[1], inner[3]))
    [] e.e = "fn" /\ e.f = "neg" -> Bin("-", Lit(IntV(0)), inner[1])
    [] OTHER -> WithSubExprs(e, inner)
Ground(e, cols, group, env, x) ==
  GroundOver(e, [i \in 1..Len(SubExprs(e)) |-> Ground(SubExprs(e)[i], cols, group, env, x)],
             cols, group, env, x)

(* The value of e for a row, within a group.                               *)
RefEval(e, cols, row, group, env, x) ==
  Eval(BindColumns(Ground(e, cols, group, env, x), Ephemeral(cols)), row)

(* A FROM item as a relation whose columns are qualified by its alias.     *)
AsRelation(q) == [cols |-> q.cols, rows |-> Payloads(q.rows), err |-> q.err]
Requalified(rel, f) ==
  [rel EXCEPT !.cols = [i \in 1..Len(rel.cols) |->
     [name |-> <<f.alias, IF f.cols = <<>> THEN rel.cols[i].name[2] ELSE f.cols[i]>>]]]
RefFactor(f, env, x) ==
  LET visible == {i \in 1..Len(env) : env[i].name = f.tab}
  IN Requalified(IF f.f = "derived" THEN AsRelation(RefQuery(f.query, env, x))
                 ELSE IF visible # {} THEN env[Max(visible)].rel
                 ELSE [cols |-> Tables[f.tab].cols, rows |-> VisibleRows(x, f.tab), err |-> FALSE],
                 f)

RefProduct(l, jt, r, tests) ==      \* tests[i][k]: ON for rows i of l and k of r
  LET joined(a, test) == FlattenSeq([k \in 1..Len(r.rows) |->
                           IF Truthy(test[k]) THEN <<a \o r.rows[k]>> ELSE <<>>])
      padded(a, m) == IF m = <<>> /\ jt = "left" THEN <<a \o [i \in 1..Len(r.cols) |-> Null]>> ELSE m
  IN [cols |-> l.cols \o r.cols,
      rows |-> FlattenSeq([i \in 1..Len(l.rows) |->
                             padded(l.rows[i], joined(l.rows[i], tests[i]))]),
      err |-> l.err \/ r.err \/ \E i \in 1..Len(tests) : AnyErr(tests[i])]
RefJoinWith(l, j, r, env, x) ==
  RefProduct(l, j.jt, r,
             [i \in 1..Len(l.rows) |-> [k \in 1..Len(r.rows) |->
                IF j.jt = "cross" THEN True
                ELSE RefEval(j.on, l.cols \o r.cols, l.rows[i] \o r.rows[k], <<>>, env, x)]])
RefFrom(body, env, x) ==
  FoldLeft(LAMBDA l, j : RefJoinWith(l, j, RefFactor(j.factor, env, x), env, x),
           RefFactor(body.from, env, x), body.joins)

IsGrouped(body) == \/ body.group # <<>> \/ body.having # <<>>
                   \/ \E i \in 1..Len(body.items) : HasAggregate(body.items[i].expr)

(* The row a group is seen through: its first one, all NULL for no rows.   *)
RefRow(g, cols) == IF g = <<>> THEN [i \in 1..Len(cols) |-> Null] ELSE g[1]

(* The columns a SELECT produces.                                          *)
RefColumns(body, cols) ==
  IF body.items = <<>> THEN [i \in 1..Len(cols) |-> [name |-> cols[i].name]]
  ELSE [i \in 1..Len(body.items) |-> [name |-> OutputName(body.items[i], body.items[i].expr)]]

(* The entry of a group: ORDER BY refers to the output of an aggregation,  *)
(* otherwise to the columns of FROM.                                       *)
RefEntry(body, order, cols, row, vals, env, x) ==
  LET seen == IF IsGrouped(body) THEN RefColumns(body, cols) ELSE cols
  IN [key |-> [i \in 1..Len(order) |->
                 RefEval(order[i][1], seen, IF IsGrouped(body) THEN vals ELSE row, <<>>, env, x)],
      val |-> vals]
RefValues(body, cols, row, g, env, x) ==
  IF body.items = <<>> THEN row
  ELSE [i \in 1..Len(body.items) |-> RefEval(body.items[i].expr, cols, row, g, env, x)]

(* The entries of the groups that pass HAVING; tests: its values.          *)
RefHaving(body, cols, groups, env, x) ==
  [i \in 1..Len(groups) |-> IF body.having = <<>> THEN True
                            ELSE RefEval(body.having[1], cols, RefRow(groups[i], cols), groups[i], env, x)]
RefGroupEntry(body, order, cols, row, g, env, x) ==
  RefEntry(body, order, cols, row, RefValues(body, cols, row, g, env, x), env, x)
RefOutput(body, order, cols, groups, tests, env, x) ==
  [cols |-> RefColumns(body, cols),
   rows |-> FlattenSeq([i \in 1..Len(groups) |->
              IF Truthy(tests[i])
              THEN <<RefGroupEntry(body, order, cols, RefRow(groups[i], cols), groups[i], env, x)>>
              ELSE <<>>]),
   err |-> AnyErr(tests)]

(* The groups of the rows kept by WHERE; keys: the GROUP BY values of      *)
(* each.  Without aggregation every row is a group.                        *)
RefGroups(body, kept, keys) ==
  LET of(k) == FlattenSeq([i \in 1..Len(kept) |-> IF keys[i] = k THEN <<kept[i]>> ELSE <<>>])
      distinct == IF body.group = <<>> THEN <<<<>>>> ELSE AnySeq(Range(keys))
  IN IF IsGrouped(body) THEN [i \in 1..Len(distinct) |-> of(distinct[i])]
     ELSE [i \in 1..Len(kept) |-> <<kept[i]>>]
RefKeys(body, cols, kept, env, x) ==
  [i \in 1..Len(kept) |->
     [j \in 1..Len(body.group) |-> RefEval(body.group[j], cols, kept[i], <<>>, env, x)]]

(* A SELECT step by step: FROM, WHERE, GROUP BY, HAVING, the output.  An   *)
(* error in any step is an error of the whole.                             *)
WithError(rel, bad) ==
  [rel EXCEPT !.err = @ \/ bad \/ \E e \in Range(rel.rows) : AnyErr(e.key) \/ AnyErr(e.val)]
RefPicked(body, order, cols, groups, env, x) ==
  RefOutput(body, order, cols, groups, RefHaving(body, cols, groups, env, x), env, x)
RefGrouped(body, order, cols, kept, keys, env, x) ==
  WithError(RefPicked(body, order, cols, RefGroups(body, kept, keys), env, x),
            \E i \in 1..Len(keys) : AnyErr(keys[i]))
RefKept(body, order, cols, kept, env, x) ==
  RefGrouped(body, order, cols, kept, RefKeys(body, cols, kept, env, x), env, x)
RefWhere(body, order, from, tests, env, x) ==
  WithError(RefKept(body, order, from.cols,
                    FlattenSeq([i \in 1..Len(tests) |->
                                  IF Truthy(tests[i]) THEN <<from.rows[i]>> ELSE <<>>]), env, x),
            from.err \/ AnyErr(tests))
RefSelect(body, order, from, env, x) ==
  RefWhere(body, order, from,
           [i \in 1..Len(from.rows) |->
              IF body.where = <<>> THEN True
              ELSE RefEval(body.where[1], from.cols, from.rows[i], <<>>, env, x)], env, x)

(* The rows of a set operation, each as often as it is due.                *)
RefCombined(body, l, r) ==
  LET count(s, v) == Cardinality({i \in 1..Len(s.rows) : s.rows[i].val = v})
      vs == AnySeq({e.val : e \in Range(l.rows \o r.rows)})
  IN FlattenSeq([i \in 1..Len(vs) |->
       [j \in 1..RefCount(body.op, body.all, count(l, vs[i]), count(r, vs[i])) |-> vs[i]]])
RefEntries(vals, order, cols, env, x) ==
  [i \in 1..Len(vals) |->
     [key |-> [j \in 1..Len(order) |-> RefEval(order[j][1], cols, vals[i], <<>>, env, x)],
      val |-> vals[i]]]
RefSetOp(body, order, l, r, env, x) ==
  [cols |-> l.cols, err |-> l.err \/ r.err,
   rows |-> RefEntries(RefCombined(body, l, r), order, l.cols, env, x)]

(* The entries of a body under ORDER BY keys.                              *)
RefBody(body, order, env, x) ==
  IF body.b = "select" THEN RefSelect(body, order, RefFrom(body, env, x), env, x)
  ELSE RefSetOp(body, order, RefBody(body.left, <<>>, env, x),
                RefBody(body.right, <<>>, env, x), env, x)

(* The common table expressions in scope of a query.                       *)
RefNamed(cte, r) ==
  [name |-> cte.name,
   rel |-> [cols |-> [i \in 1..Len(r.cols) |->
                        [name |-> <<"", IF cte.cols = <<>> THEN r.cols[i].name[2] ELSE cte.cols[i]>>]],
            rows |-> Payloads(r.rows), err |-> r.err]]
RefScope(q, env, x) ==
  FoldLeft(LAMBDA acc, cte : Append(acc, RefNamed(cte, RefQuery(cte.query, acc, x))), env, q.with)

(* The whole query before LIMIT and OFFSET: its common table expressions   *)
(* in scope, DISTINCT applied, sorted with ties in any order; and the      *)
(* first and the last position of the window that is returned.             *)
RefWindow(body, sorted, off, lim) ==
  LET bad == lim = <<>> \/ off = <<>>
  IN [cols |-> body.cols, rows |-> sorted, err |-> body.err \/ bad,
      from |-> IF bad THEN 1 ELSE off[1] + 1,
      to |-> IF bad THEN 0 ELSE Min({Len(sorted), off[1] + lim[1]})]
RefUnique(q, rows) ==
  LET vs == AnySeq({e.val : e \in Range(rows)})
  IN IF q.body.b = "select" /\ q.body.distinct
     THEN [i \in 1..Len(vs) |-> CHOOSE e \in Range(rows) : e.val = vs[i]]
     ELSE rows
RefGiven(e, none, x) == IF e = <<>> THEN <<none>> ELSE CountOf(SubstituteExpr(e[1], x.params))
RefLimited(q, body, x) ==
  RefWindow(body, SortEntries(RefUnique(q, body.rows), [i \in 1..Len(q.order) |-> q.order[i][2]]),
            RefGiven(q.off, 0, x), RefGiven(q.lim, Len(body.rows), x))
RefSorted(q, env, x) == RefLimited(q, RefBody(q.body, q.order, RefScope(q, env, x), x), x)

(* Whether a stream of rows is an answer to q: the window of some order of *)
(* the rows that respects the ORDER BY keys.  Where the definition fails   *)
(* on some row the engine may fail or not.                                 *)
AnswersTo(out, r) ==
  LET size == IF r.to < r.from THEN 0 ELSE r.to - r.from + 1
      tied(i) == {j \in 1..Len(r.rows) : r.rows[j].key = r.rows[i].key}
      window(i) == {j \in 1..size : r.from + j - 1 \in tied(i)}
  IN \/ r.err
     \/ /\ ~out.err
        /\ Len(out.rows) = size
        /\ \A i \in 1..Len(r.rows) : \A j \in window(i) :
             Cardinality({k \in window(i) : out.rows[k] = out.rows[j]})
               <= Cardinality({k \in tied(i) : r.rows[k].val = out.rows[j]})
Answers(out, q, x) == AnswersTo(out, RefSorted(q, <<>>, x))
-----------------------------------------------------------------------------
(* What a statement does to the rows a transaction sees: x before it, y    *)
(* after it, and out its [n, err].                                         *)

Seen(x, tab) == Range(VisibleRows(x, tab))

(* The rows an INSERT is given: their values in the columns it names.      *)
GivenRows(st, x) ==
  IF st.s = "select" THEN AsRelation(RefQuery(st.q, <<>>, x))
  ELSE [err |-> FALSE,
        rows |-> [i \in 1..Len(st.rows) |-> [j \in 1..Len(st.rows[i]) |->
                    RefEval(st.rows[i][j], <<>>, <<>>, <<>>, <<>>, x)]]]

(* Row r is the given row g, numbered by the sequence where g has a NULL,  *)
(* with defaults in the columns that are not named.                        *)
Inserted(schema, cols, g, r) ==
  \A j \in 1..Len(schema.cols) :
    LET of == {i \in 1..Len(cols) : cols[i] = schema.cols[j].name}
        val == IF of = {} THEN schema.cols[j].def ELSE g[CHOOSE i \in of : TRUE]
    IN r[j] = val \/ (schema.cols[j].auto /\ IsNull(val))

(* The key a given row asks for; <<>> when the sequence is to number it.   *)
AskedKey(schema, cols, g) ==
  LET row == AlignedRow(schema, cols, g)
      drawn == \E j \in 1..Len(row) : schema.cols[j].auto /\ IsNull(row[j])
  IN IF row = <<>> \/ drawn THEN <<>> ELSE PkOf(schema, row)

(* Some row has no sequence value left below it: the next one drawn would  *)
(* be taken.                                                               *)
SequenceBehind(x, tab) ==
  \E r \in Seen(x, tab), j \in 1..Len(Tables[tab].cols) :
    Tables[tab].cols[j].auto /\ r[j].v[1] >= x.seq[tab]

(* An INSERT that may fail: a row that does not fit the table, a key that  *)
(* is taken or given twice, or given after another row was numbered.       *)
Misfit(schema, row) ==
  \/ row = <<>> \/ AnyErr(row)
  \/ \E j \in 1..Len(row) :
       IF IsNull(row[j])
       THEN ~schema.cols[j].nullable \/ (~schema.cols[j].auto /\ j \in Range(schema.pk))
       ELSE row[j].t # schema.cols[j].ty
InsertMayFail(st, given, asked, x) ==      \* asked: the keys the given rows ask for
  LET schema == Tables[st.tab]
      cols == TargetColumns(schema, st.cols)
      keys == {PkOf(schema, r) : r \in Seen(x, st.tab)}
  IN \/ \E i \in 1..Len(given) : \/ Len(given[i]) # Len(cols)
                                 \/ Misfit(schema, AlignedRow(schema, cols, given[i]))
                                 \/ asked[i] \in keys
     \/ \E i, j \in 1..Len(given) : i < j /\ asked[j] # <<>> /\ asked[i] \in {<<>>, asked[j]}
     \/ st.s = "select" /\ \E i, j \in 1..Len(given) : asked[i] = <<>> /\ asked[j] # <<>>

InsertOf(given, fails, cols, st, x, y, out) ==
  LET schema == Tables[st.tab]
      new == Seen(y, st.tab) \ Seen(x, st.tab)
  IN /\ Seen(x, st.tab) \subseteq Seen(y, st.tab)
     /\ IF out.err
        THEN \/ fails \/ SequenceBehind(x, st.tab)
             \/ InsertMayFail(st, given, [i \in 1..Len(given) |-> AskedKey(schema, cols, given[i])], x)
        ELSE /\ out.n = Len(given) /\ Cardinality(new) = Len(given)
             /\ \A i \in 1..Len(given) :
                  Cardinality({j \in 1..Len(given) : given[j] = given[i]})
                    <= Cardinality({r \in new : Inserted(schema, cols, given[i], r)})
InsertGiven(given, st, x, y, out) ==
  InsertOf(given.rows, given.err, TargetColumns(Tables[st.tab], st.cols), st, x, y, out)
InsertEffect(st, x, y, out) == InsertGiven(GivenRows(st, x), st, x, y, out)

(* The rows a DELETE or UPDATE is about, and whether finding them fails.   *)
Chosen(st, x, r) ==
  IF st.where = <<>> THEN True ELSE RefEval(st.where[1], Tables[st.tab].cols, r, <<>>, <<>>, x)
Verdicts(st, x) == {<<r, Chosen(st, x, r)>> : r \in Seen(x, st.tab)}
AffectedBy(verdicts) == {v[1] : v \in {w \in verdicts : Truthy(w[2])}}
Fails(verdicts) == \E v \in verdicts : IsErr(v[2])

DeleteOf(verdicts, st, x, y, out) ==
  IF out.err THEN Fails(verdicts) /\ Seen(y, st.tab) \subseteq Seen(x, st.tab)
  ELSE /\ Seen(y, st.tab) = Seen(x, st.tab) \ AffectedBy(verdicts)
       /\ out.n = Cardinality(AffectedBy(verdicts))
DeleteEffect(st, x, y, out) == DeleteOf(Verdicts(st, x), st, x, y, out)

Updated(st, x, r) ==
  LET schema == Tables[st.tab]
      of(j) == {i \in 1..Len(st.sets) : st.sets[i][1] = schema.cols[j].name}
  IN [j \in 1..Len(r) |->
        IF of(j) = {} THEN r[j]
        ELSE RefEval(st.sets[CHOOSE i \in of(j) : TRUE][2], schema.cols, r, <<>>, <<>>, x)]

(* An UPDATE that gives a row the key another row has, or had; pairs: the  *)
(* affected rows with what becomes of them.                                *)
KeysCollide(schema, seen, pairs) ==
  \E p \in pairs :
    \/ \E o \in seen \ {p[1]} : PkOf(schema, p[2]) = PkOf(schema, o)
    \/ \E q \in pairs \ {p} : PkOf(schema, p[2]) = PkOf(schema, q[2])

UpdateOf(pairs, verdicts, st, x, y, out) ==
  LET schema == Tables[st.tab]
      seen == Seen(x, st.tab)
      images == {p[2] : p \in pairs}
      misfit(r) == AnyErr(r) \/ ~KeyedRow(schema, r) \/ ~ValidRow(schema, r)
  IN \/ KeysCollide(schema, seen, pairs)
     \/ IF out.err
        THEN /\ Fails(verdicts) \/ \E r \in images : misfit(r)
             /\ seen \ AffectedBy(verdicts) \subseteq Seen(y, st.tab)
        ELSE /\ Seen(y, st.tab) = (seen \ AffectedBy(verdicts)) \cup images
             /\ out.n = Cardinality(AffectedBy(verdicts))
UpdateChosen(verdicts, st, x, y, out) ==
  UpdateOf({<<r, Updated(st, x, r)>> : r \in AffectedBy(verdicts)}, verdicts, st, x, y, out)
UpdateEffect(st, x, y, out) == UpdateChosen(Verdicts(st, x), st, x, y, out)

Effect(st, x, y, out) ==
  /\ \A tab \in DOMAIN x.buf \ {st.tab} : y.buf[tab] = x.buf[tab]
  /\ CASE st.s \in {"insert", "select"} -> InsertEffect(st, x, y, out)
       [] st.s = "delete" -> DeleteEffect(st, x, y, out)
       [] st.s = "update" -> UpdateEffect(st, x, y, out)
=============================================================================
