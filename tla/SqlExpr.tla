------------------------------- MODULE SqlExpr -------------------------------
(***************************************************************************)
(* SQL expressions: how they are evaluated against a row, bound to column  *)
(* positions and given parameters.                                         *)
(*                                                                         *)
(* An expression is a record whose field e is its kind:                    *)
(*   lit(val)  param(par)  col(name, at)  bin(op, l, r)  not(l)  isnull(l) *)
(*   in(l, list)  case(operand, whens, els)  fn(f, args)  cast(l, ty)      *)
(*   match(name, at, query)                                                *)
(*   scalarq(sub)  inq(l, sub, neg)  exists(sub, neg)    (subqueries)      *)
(*   agg(f, l, dist, text)    (only in a statement, never in a plan)       *)
(* A column name is <<qualifier, base>>, the qualifier "" when there is    *)
(* none; at is <<>> or <<position>>.  Optional parts are sequences of      *)
(* length 0 or 1.  A schema is [cols, pk, idxs]: columns [name, ty], the   *)
(* positions of the primary key, and indexes [name, cols, kind], the kind   *)
(* btree or the tokenizer of a full-text index.                            *)
(***************************************************************************)
EXTENDS SqlValue

CONSTANT GramSize      \* TrigramTokenizer::N
ASSUME GramAssumption == GramSize \in Nat \ {0}

Lit(x) == [e |-> "lit", val |-> x]
Param(p) == [e |-> "param", par |-> p]
Col(q, b) == [e |-> "col", name |-> <<q, b>>, at |-> <<>>]
Bin(op, l, r) == [e |-> "bin", op |-> op, l |-> l, r |-> r]
NotE(l) == [e |-> "not", l |-> l]
IsNullE(l) == [e |-> "isnull", l |-> l]
InList(l, list) == [e |-> "in", l |-> l, list |-> list]
CaseE(operand, whens, els) ==
  [e |-> "case", operand |-> operand, whens |-> whens, els |-> els]
Fn(f, args) == [e |-> "fn", f |-> f, args |-> args]
CastE(l, ty) == [e |-> "cast", l |-> l, ty |-> ty]
MatchE(q, b, query) ==
  [e |-> "match", name |-> <<q, b>>, at |-> <<>>, query |-> query]
ScalarSub(sub) == [e |-> "scalarq", sub |-> sub]
InSub(l, sub, neg) == [e |-> "inq", l |-> l, sub |-> sub, neg |-> neg]
ExistsSub(sub, neg) == [e |-> "exists", sub |-> sub, neg |-> neg]
Agg(f, l, dist, text) ==
  [e |-> "agg", f |-> f, l |-> l, dist |-> dist, text |-> text]

Comparisons == {"=", "<>", "<", ">", "<=", ">="}
SubqueryKinds == {"scalarq", "inq", "exists"}

(* column_names_match: equal, or one is the unqualified tail of the other. *)
NamesMatch(a, b) == a = b \/ (a[2] = b[2] /\ (a[1] = "" \/ b[1] = ""))

MatchingColumns(schema, name) ==
  {i \in 1..Len(schema.cols) : NamesMatch(schema.cols[i].name, name)}

(* Schema::matches_column.                                                 *)
ContainsColumn(schema, name) == MatchingColumns(schema, name) # {}

(* resolve_column: <<position>>, or <<>> when the name is not found or     *)
(* ambiguous.                                                              *)
ResolveColumn(schema, name) ==
  LET m == MatchingColumns(schema, name)
  IN IF Cardinality(m) = 1 THEN <<CHOOSE i \in m : TRUE>> ELSE <<>>

(* The expressions directly inside e (not the subqueries' plans).          *)
SubExprs(e) ==
  CASE e.e = "bin" -> <<e.l, e.r>>
    [] e.e \in {"not", "isnull", "cast", "inq", "agg"} -> <<e.l>>
    [] e.e = "in" -> <<e.l>> \o e.list
    [] e.e = "fn" -> e.args
    [] e.e = "case" -> e.operand \o [i \in 1..Len(e.whens) |-> e.whens[i][1]]
                       \o [i \in 1..Len(e.whens) |-> e.whens[i][2]] \o e.els
    [] OTHER -> <<>>

(* e with the expressions directly inside it replaced by those of s.       *)
WithSubExprs(e, s) ==
  CASE e.e = "bin" -> [e EXCEPT !.l = s[1], !.r = s[2]]
    [] e.e \in {"not", "isnull", "cast", "inq", "agg"} -> [e EXCEPT !.l = s[1]]
    [] e.e = "in" -> [e EXCEPT !.l = s[1], !.list = Tail(s)]
    [] e.e = "fn" -> [e EXCEPT !.args = s]
    [] e.e = "case" ->
         LET o == Len(e.operand)
             n == Len(e.whens)
         IN [e EXCEPT !.operand = SubSeq(s, 1, o),
                      !.whens = [i \in 1..n |-> <<s[o + i], s[o + n + i]>>],
                      !.els = SubSeq(s, o + 2 * n + 1, Len(s))]
    [] OTHER -> e

(* Whether some expression inside e, e included, is of one of the kinds.   *)
RECURSIVE HasKind(_, _)
HasKind(e, kinds) ==
  \/ e.e \in kinds
  \/ \E i \in 1..Len(SubExprs(e)) : HasKind(SubExprs(e)[i], kinds)

(* collect_local_columns: the names e refers to outside its subqueries.    *)
RECURSIVE LocalColumns(_)
LocalColumns(e) ==
  (IF e.e \in {"col", "match"} THEN {e.name} ELSE {})
    \cup UNION {LocalColumns(SubExprs(e)[i]) : i \in 1..Len(SubExprs(e))}

(* bind_columns: e with every unbound column bound, or Err's expression    *)
(* when one of them does not resolve.  A subquery is not bound.            *)
RECURSIVE BindColumns(_, _)
BindColumns(e, schema) ==
  IF e.e \in {"col", "match"}
  THEN IF e.at # <<>> THEN e
       ELSE LET at == ResolveColumn(schema, e.name)
            IN IF at = <<>> THEN Lit(Err) ELSE [e EXCEPT !.at = at]
  ELSE LET s == SubExprs(e)
           bound == [i \in 1..Len(s) |-> BindColumns(s[i], schema)]
       IN IF \E i \in 1..Len(s) : bound[i] = Lit(Err) THEN Lit(Err)
          ELSE WithSubExprs(e, bound)

-----------------------------------------------------------------------------
(* Text search and LIKE.                                                   *)

(* Tokenizer::tokenize.  A token is a sequence of code points; to the      *)
(* simple tokenizer every code point is a word, to the trigram tokenizer   *)
(* the tokens are the windows of GramSize code points.                     *)
Tokenize(tokenizer, text) ==
  IF tokenizer = "simple" THEN [i \in 1..Len(text) |-> <<text[i]>>]
  ELSE [i \in 1..(Len(text) - GramSize + 1) |-> SubSeq(text, i, i + GramSize - 1)]

RECURSIVE MatchQuery(_, _)
(* eval_match_query of a text's tokens; the empty phrase matches any text. *)
MatchQuery(q, tokens) ==
  CASE q.q = "tok" -> \E i \in 1..Len(tokens) : tokens[i] = q.w
    [] q.q = "and" -> MatchQuery(q.l, tokens) /\ MatchQuery(q.r, tokens)
    [] q.q = "or" -> MatchQuery(q.l, tokens) \/ MatchQuery(q.r, tokens)
    [] q.q = "phrase" ->
         \/ q.ws = <<>>
         \/ \E i \in 0..(Len(tokens) - Len(q.ws)) :
              SubSeq(tokens, i + 1, i + Len(q.ws)) = q.ws

AnyText == -1      \* '%' in a LIKE pattern
AnyChar == -2      \* '_'

RECURSIVE LikeMatch(_, _)
(* like_match: '%' is any text, '_' any one character, the rest itself.    *)
LikeMatch(text, pat) ==
  CASE pat = <<>> -> text = <<>>
    [] pat # <<>> /\ Head(pat) = AnyText ->
         \E i \in 0..Len(text) : LikeMatch(SubSeq(text, i + 1, Len(text)), Tail(pat))
    [] OTHER -> /\ text # <<>>
                /\ Head(pat) \in {AnyChar, Head(text)}
                /\ LikeMatch(Tail(text), Tail(pat))

-----------------------------------------------------------------------------
(* Evaluation.                                                             *)

(* AND and OR of two evaluated sides: the left one is looked at first and  *)
(* decides alone when it can; a side that is not a truth value is an error.*)
Decided(decides, l, r, lb, rb) ==     \* lb, rb: the sides as truth values
  CASE IsErr(l) -> Err
    [] ~IsNull(l) /\ IsErr(lb) -> Err
    [] ~IsNull(l) /\ lb = decides -> lb
    [] IsErr(r) \/ IsErr(rb) -> Err
    [] IsNull(r) -> Null
    [] IsNull(l) -> IF rb = decides THEN rb ELSE Null
    [] OTHER -> rb
EvalLogic(op, l, r) == Decided(BoolV(op = "or"), l, r, ToBool(l), ToBool(r))

(* What a comparison says of the order c of its sides.                     *)
Says(op, c) ==
  IF c = "Err" THEN Err
  ELSE BoolV(c \in CASE op = "=" -> {"Equal"} [] op = "<>" -> {"Less", "Greater"}
                     [] op = "<" -> {"Less"} [] op = "<=" -> {"Less", "Equal"}
                     [] op = ">" -> {"Greater"} [] op = ">=" -> {"Greater", "Equal"})

(* The other binary operators: NULL on either side gives NULL.             *)
EvalBinary(op, l, r) ==
  CASE IsErr(l) \/ IsErr(r) -> Err
    [] IsNull(l) \/ IsNull(r) -> Null
    [] op = "like" -> IF l.t = "Str" /\ r.t = "Str" THEN BoolV(LikeMatch(l.v, r.v)) ELSE Err
    [] op \in {"+", "-", "*", "/"} -> EvalArithmetic(op, l, r)
    [] op \in Comparisons -> Says(op, CompareValues(l, r))

(* x IN (items): a type mismatch is a non-match, not an error.             *)
InAfter(x, items, hits) ==      \* hits: the items equal to x; the first one ends it
  LET tried == 1..(IF hits = {} THEN Len(items) ELSE Min(hits))
  IN CASE IsErr(x) -> Err
       [] IsNull(x) -> Null
       [] \E i \in tried : IsErr(items[i]) -> Err
       [] hits # {} -> True
       [] \E i \in tried : IsNull(items[i]) -> Null
       [] OTHER -> False
EvalIn(x, items) ==
  InAfter(x, items, {i \in 1..Len(items) : ~IsNull(items[i]) /\
                                          CompareValues(x, items[i]) = "Equal"})

(* SUBSTR(s, start[, length]) with 1-based and negative starts.            *)
SubstrFrom(s, args, from) ==      \* from: the characters skipped; length saturates
  IF Len(args) = 1 THEN Str(SubSeq(s, Max({from, 0}) + 1, Len(s)))
  ELSE IF args[2].v[1] < 0 THEN Err
  ELSE IF args[2].v[1] = 0 THEN Str(<<>>)
  ELSE Str(SubSeq(s, Max({from, 0}) + 1,
                  Max({0, Min({from + args[2].v[1], MaxInt, Len(s)})})))
SubstrStart(n, start) ==
  IF start > 0 THEN start - 1 ELSE IF start = 0 THEN -1 ELSE n + start
Substr(s, args) ==
  IF \E i \in 1..Len(args) : args[i].t # "Int" THEN Err
  ELSE SubstrFrom(s, args, SubstrStart(Len(s), args[1].v[1]))

RECURSIVE Concat(_)
Concat(vals) == IF vals = <<>> THEN <<>> ELSE Head(vals).v \o Concat(Tail(vals))

(* The scalar functions, on text and numbers.                              *)
EvalFunction(f, a) ==
  LET firstNull == {i \in 1..Len(a) : IsNull(a[i])}
      firstKnown == {i \in 1..Len(a) : ~IsNull(a[i])}
  IN CASE f = "coalesce" ->
            IF firstKnown = {} THEN Null ELSE a[Min(firstKnown)]
       [] f = "concat" ->
            IF \E i \in 1..Len(a) : IsErr(a[i]) /\ \A j \in firstNull : i < j
            THEN Err
            ELSE IF firstNull # {} THEN Null ELSE Str(Concat(a))
       [] IsErr(a[1]) -> Err
       [] IsNull(a[1]) -> Null
       [] f = "length" -> IntV(Len(a[1].v))
       [] f = "substr" -> Substr(a[1].v, Tail(a))
       [] f \in {"abs", "round"} /\ a[1].t \notin {"Int", "Float"} -> Err
       [] f = "abs" -> [a[1] EXCEPT !.v[1] = IF @ < 0 THEN -@ ELSE @]
       [] f = "round" /\ a[1].t = "Int" -> a[1]
       [] f = "round" -> LET x == a[1].v[1] IN Flt(Scale *
            (IF x >= 0 THEN (2 * x + Scale) \div (2 * Scale)
             ELSE -((2 * (-x) + Scale) \div (2 * Scale))))

(* CASE: the branch taken is the first whose condition holds; with an      *)
(* operand, compare_values decides and its errors are non-matches.         *)
CaseAfter(e, vals, hits) ==      \* hits: the branches whose condition holds
  LET o == Len(e.operand)
      n == Len(e.whens)
      stop == IF hits = {} THEN n ELSE Min(hits)
  IN IF \/ o = 1 /\ IsErr(vals[1])
        \/ \E i \in 1..stop : IsErr(vals[o + i])
        \/ o = 0 /\ \E i \in 1..stop : IsErr(ToBool(vals[i]))
     THEN Err
     ELSE IF hits # {} THEN vals[o + n + stop]
     ELSE IF e.els # <<>> THEN vals[Len(vals)] ELSE Null
EvalCase(e, vals) ==
  CaseAfter(e, vals, {i \in 1..Len(e.whens) :
                        IF e.operand # <<>> THEN CompareValues(vals[1], vals[1 + i]) = "Equal"
                        ELSE Truthy(vals[i])})

(* Expr::eval of a bound expression against a row (a sequence of values).  *)
EvalAt(e, row, vals) ==      \* vals: the values of the expressions inside e
  CASE e.e = "lit" -> e.val
    [] e.e = "col" -> IF e.at # <<>> /\ e.at[1] <= Len(row)
                      THEN row[e.at[1]] ELSE Err
    [] e.e = "not" -> IF IsErr(vals[1]) \/ IsErr(ToBool(vals[1])) THEN Err
                      ELSE IF IsNull(vals[1]) THEN Null
                      ELSE BoolV(~Truthy(vals[1]))
    [] e.e = "isnull" -> IF IsErr(vals[1]) THEN Err ELSE BoolV(IsNull(vals[1]))
    [] e.e = "bin" /\ e.op \in {"and", "or"} -> EvalLogic(e.op, vals[1], vals[2])
    [] e.e = "bin" /\ e.op \notin {"and", "or"} -> EvalBinary(e.op, vals[1], vals[2])
    [] e.e = "in" -> EvalIn(vals[1], Tail(vals))
    [] e.e = "case" -> EvalCase(e, vals)
    [] e.e = "fn" -> EvalFunction(e.f, vals)
    [] e.e = "cast" -> IF IsErr(vals[1]) THEN Err ELSE CastValue(vals[1], e.ty)
    [] e.e = "match" -> LET x == row[e.at[1]]
                        IN BoolV(x.t = "Str" /\ MatchQuery(e.query, Tokenize("simple", x.v)))
    [] OTHER -> Err      \* an unbound parameter, an unfolded subquery
RECURSIVE Eval(_, _)
EvalOver(e, row, s) == EvalAt(e, row, [i \in 1..Len(s) |-> Eval(s[i], row)])
Eval(e, row) == EvalOver(e, row, SubExprs(e))
=============================================================================
