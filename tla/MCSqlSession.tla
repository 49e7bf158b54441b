---------------------------- MODULE MCSqlSession ----------------------------
(***************************************************************************)
(* Two small tables, a transaction with and without buffered writes, and   *)
(* families of queries over them.                                          *)
(***************************************************************************)
EXTENDS SqlSession

Column(name, ty, lg) ==
  [name |-> <<"", name>>, ty |-> ty, lg |-> lg, def |-> Null, auto |-> FALSE, nullable |-> TRUE]
Index(name, cols, kind) ==
  [name |-> name, cols |-> [i \in 1..Len(cols) |-> <<"", cols[i]>>], kind |-> kind]

(* t(id, x, s), with id numbered by a sequence and s in a locality group   *)
(* of its own; u(k, r, y, w), with a default for r and k not nullable.     *)
MCTables ==
  [t |-> [cols |-> <<[Column("id", "Int", "") EXCEPT !.auto = TRUE], Column("x", "Int", ""), Column("s", "Str", "g")>>,
          pk |-> <<1>>,
          idxs |-> <<Index("byx", <<"x">>, "btree"), Index("words", <<"s">>, "simple")>>],
   u |-> [cols |-> <<[Column("k", "Int", "") EXCEPT !.nullable = FALSE],
                    [Column("r", "Int", "") EXCEPT !.def = IntV(2)], Column("y", "Dec", ""),
                    Column("w", "Str", "")>>,
          pk |-> <<1>>, idxs |-> <<Index("grams", <<"w">>, "trigram"), Index("byw", <<"w">>, "btree")>>]]

MCMinInt == -8
I(n) == Lit(IntV(n))
A == 1
B == 2

TRow(id, x, s) == <<IntV(id), x, s>>
MCRows ==
  [t |-> {TRow(1, IntV(2), Str(<<A, B>>)), TRow(2, IntV(3), Str(<<B>>)),
          TRow(3, IntV(2), Str(<<B, A>>)), TRow(4, IntV(1), Str(<<A>>))},
   u |-> {<<IntV(1), IntV(2), Dec(15), Str(<<A, B, A>>)>>, <<IntV(2), IntV(3), Null, Str(<<B, A>>)>>,
          <<IntV(3), IntV(2), Dec(20), Str(<<A, A, B>>)>>}]

NoWrites == [t |-> <<>>, u |-> <<>>]
Writes == [t |-> (<<IntV(3)>> :> <<>>) @@ (<<IntV(5)>> :> <<TRow(5, IntV(1), Str(<<A, B>>))>>)
                   @@ (<<IntV(1)>> :> <<TRow(1, IntV(3), Str(<<B>>))>>),
           u |-> <<>>]

(* NULLs in an indexed, a joined and a text column.                        *)
NullRows ==
  [t |-> {TRow(1, IntV(2), Null), TRow(2, Null, Str(<<B>>)), TRow(3, IntV(2), Str(<<B, A>>)),
          TRow(4, Null, Str(<<A>>))},
   u |-> {<<IntV(1), Null, Dec(15), Str(<<A, B>>)>>, <<IntV(2), IntV(2), Null, Null>>}]

Sequences == [t |-> 6, u |-> 1]
MCDatabases == {[rows |-> MCRows, buf |-> NoWrites, seq |-> Sequences, warm |-> FALSE],
                [rows |-> MCRows, buf |-> Writes, seq |-> Sequences, warm |-> TRUE],
                [rows |-> NullRows, buf |-> NoWrites, seq |-> Sequences, warm |-> TRUE]}

MCExecs == {[budget |-> 100, topn |-> 4, desc |-> FALSE, last |-> FALSE, alt |-> FALSE, skew |-> {}],
            [budget |-> 1, topn |-> 1, desc |-> TRUE, last |-> TRUE, alt |-> TRUE, skew |-> {"x"}],
            [budget |-> 2, topn |-> 1, desc |-> TRUE, last |-> FALSE, alt |-> TRUE, skew |-> {}]}

-----------------------------------------------------------------------------
Table(tab, alias) == [f |-> "table", tab |-> tab, alias |-> alias, cols |-> <<>>]
Derived(q, alias) == [f |-> "derived", query |-> q, alias |-> alias, cols |-> <<>>]
Item(e) == [expr |-> e, alias |-> <<>>]
Named(e, name) == [expr |-> e, alias |-> <<name>>]

Select(from, items) ==
  [b |-> "select", from |-> from, joins |-> <<>>, where |-> <<>>, group |-> <<>>,
   having |-> <<>>, items |-> items, distinct |-> FALSE]
Query(body) == [with |-> <<>>, body |-> body, order |-> <<>>, lim |-> <<>>, off |-> <<>>]

id == Col("", "id")
x == Col("", "x")
s == Col("", "s")

Preds ==
  {Bin("=", id, I(2)), Bin(">", id, I(2)), Bin(">=", id, Lit(Dec(20))), Bin("<=", x, I(2)),
   Bin("and", Bin(">", x, I(1)), Bin("<", id, I(3))),
   Bin("or", Bin("=", x, I(1)), Bin("=", id, I(1))),
   NotE(Bin("=", x, I(2))), IsNullE(x), InList(x, <<I(1), I(3)>>),
   Bin("like", s, Lit(Str(<<A, AnyText>>))), MatchE("", "s", [q |-> "tok", w |-> <<A>>]),
   MatchE("", "s", [q |-> "phrase", ws |-> <<<<A>>, <<B>>>>]),
   NotE(MatchE("", "s", [q |-> "tok", w |-> <<A>>])), Bin("<", I(2), x),
   Bin("and", Bin(">", id, I(3)), Bin("<", id, I(2))),
   Fn("between", <<x, I(2), I(3)>>), Bin("=", Bin("/", I(4), Bin("-", id, I(1))), I(2)),
   CaseE(<<>>, <<<<IsNullE(x), Bin("=", id, I(2))>>>>, <<Bin("=", x, I(2))>>),
   Bin("=", Fn("coalesce", <<x, id>>), I(2)), Bin(">", Fn("length", <<s>>), I(1)),
   Bin("and", Bin("=", x, I(2)), Bin("like", s, Lit(Str(<<AnyChar, A>>))))}

Single ==
  {[Query([Select(Table("t", "t"), items) EXCEPT !.where = where]) EXCEPT
      !.order = order, !.lim = IF items = <<>> THEN <<>> ELSE <<I(2)>>,
      !.off = IF items # <<>> /\ Len(order) = 2 THEN <<I(1)>> ELSE <<>>] :
     items \in {<<>>, <<Item(s)>>},
     where \in {<<>>} \cup {<<p>> : p \in Preds},
     order \in {<<>>, <<<<x, TRUE>>>>, <<<<x, FALSE>>, <<s, TRUE>>>>}}

T(c) == Col("t", c)
U(c) == Col("u", c)
V(c) == Col("v", c)
Join(factor, jt, on) == [factor |-> factor, jt |-> jt, on |-> on]
From(joins, where, items) ==
  [Select(Table("t", "t"), items) EXCEPT !.joins = joins, !.where = where]
Ordered(body, order, lim) == [Query(body) EXCEPT !.order = order, !.lim = lim]

JoinPreds == {<<>>, <<Bin("and", Bin(">", T("id"), I(1)), Bin("<", U("k"), I(3)))>>,
              <<IsNullE(U("y"))>>, <<Bin("=", T("x"), I(2))>>, <<Bin(">", U("r"), T("id"))>>}
OnX == Bin("=", T("x"), U("r"))
Joined ==
  {Ordered(From(<<Join(Table("u", "u"), jt, OnX)>>, where, items), order, <<>>) :
     jt \in {"inner", "left", "cross"}, where \in JoinPreds,
     items \in {<<>>, <<Item(T("s")), Item(U("k"))>>},
     order \in {<<>>, <<<<U("k"), TRUE>>>>}}
  \cup {Ordered(From(<<Join(Table("u", "u"), jt, Bin("=", U("r"), T("x"))),
                      Join(Table("t", "v"), ju, Bin("=", V("id"), U("k")))>>,
                    <<Bin("<", T("id"), I(3))>>, <<Item(T("id")), Item(V("x"))>>),
               <<>>, <<>>) : jt \in {"inner", "left"}, ju \in {"inner", "left"}}

Calls == <<Agg("count", I(1), FALSE, "n"), Agg("sum", id, FALSE, "sum"), Agg("avg", id, FALSE, "avg"),
           Agg("min", s, FALSE, "min"), Agg("max", x, FALSE, "max"), Agg("count", s, TRUE, "d"),
           Agg("sum", x, TRUE, "ds")>>
Grouped ==
  {Ordered([From(<<>>, where, <<Item(x), Item(Calls[c])>>) EXCEPT !.group = <<x>>, !.having = having],
           order, <<>>) :
     where \in {<<>>, <<Bin(">", id, I(1))>>}, c \in DOMAIN Calls,
     having \in {<<>>, <<Bin(">", Calls[1], I(1))>>}, order \in {<<>>, <<<<x, FALSE>>>>}}
  \cup {Query(From(<<>>, where, <<Item(Calls[c]), Item(Bin("+", Calls[1], Calls[2]))>>)) :
          where \in {<<>>, <<Bin(">", id, I(7))>>}, c \in DOMAIN Calls}
  \cup {Query([From(<<Join(Table("u", "u"), "left", OnX)>>, <<>>, <<Item(T("x")), Item(Agg(f, U("y"), dist, "a"))>>)
                EXCEPT !.group = <<T("x")>>]) : f \in {"sum", "avg", "count", "min"}, dist \in BOOLEAN}

Arm(n) == CASE n = 1 -> From(<<>>, <<>>, <<Item(x)>>)
            [] n = 2 -> Select(Table("u", "u"), <<Item(U("r"))>>)
            [] n = 3 -> From(<<>>, <<Bin("<", id, I(4))>>, <<Item(id)>>)
Combine(op, all, l, r) == [b |-> "setop", op |-> op, all |-> all, left |-> l, right |-> r]
SetOps ==
  {Ordered(Combine(op, all, Arm(l), Arm(r)), order, lim) :
     op \in {"union", "intersect", "except"}, all \in BOOLEAN, l \in {1}, r \in {1, 2, 3},
     order \in {<<>>, <<<<x, FALSE>>>>}, lim \in {<<>>, <<I(2)>>}}
  \cup {Query(Combine(op, all, Combine("union", TRUE, Arm(1), Arm(3)), Arm(2))) :
          op \in {"union", "intersect", "except"}, all \in BOOLEAN}

Sub(where) == Query([Select(Table("u", "u"), <<Item(Col("", "r"))>>) EXCEPT !.where = where])
Top == Query(Select(Table("u", "u"), <<Item(Agg("max", Col("", "r"), FALSE, "m"))>>))
Subqueries ==
  {Query(From(<<>>, <<p>>, <<Item(id)>>)) :
     p \in {InSub(x, Sub(<<>>), neg) : neg \in BOOLEAN}
           \cup {InSub(x, Sub(<<IsNullE(Col("", "y"))>>), neg) : neg \in BOOLEAN}
           \cup {ExistsSub(Sub(<<Bin("=", Col("", "k"), I(k))>>), neg) : k \in {1, 7}, neg \in BOOLEAN}
           \cup {Bin("=", id, ScalarSub(Top)), Bin("<", x, ScalarSub(Top)), Bin("=", x, ScalarSub(Sub(<<>>)))}}
  \cup {Query(From(<<>>, <<>>, <<Item(id), Item(ScalarSub(Top))>>))}
Totals == Query([From(<<>>, <<>>, <<Item(x), Named(Calls[1], "n")>>) EXCEPT !.group = <<x>>])
Nested ==
  {Ordered([Select(Derived(Totals, "v"), <<>>) EXCEPT !.where = where], order, <<>>) :
     where \in {<<>>, <<Bin(">", V("n"), I(1))>>}, order \in {<<>>, <<<<V("x"), TRUE>>>>}}
  \cup {[Query([Select(Table("w", "v"), <<>>) EXCEPT
                  !.joins = <<Join(Table("u", "u"), jt, Bin("=", V("x"), U("r")))>>])
          EXCEPT !.with = <<[name |-> "w", cols |-> cols, query |-> Totals]>>] :
          jt \in {"inner", "left"}, cols \in {<<>>, <<"x", "c">>}}

FirstTwo == Ordered(From(<<>>, <<>>, <<Item(id), Item(x)>>), <<<<id, TRUE>>>>, <<I(2)>>)
Uniques == {Ordered(Select(Derived(FirstTwo, "v"), <<>>), order, <<>>) :
              order \in {<<>>, <<<<V("x"), TRUE>>>>}}
  \cup {Ordered([From(<<>>, <<>>, items) EXCEPT !.distinct = TRUE], order, lim) :
              order \in {<<>>, <<<<x, TRUE>>>>}, items \in {<<Item(x)>>, <<Item(x), Item(s)>>}, lim \in {<<>>, <<I(1)>>}}

Texts ==
  {Ordered([Select(Table("u", "u"), <<Item(U("k"))>>) EXCEPT !.where = <<p>>], order, <<>>) :
     p \in {Bin("like", U("w"), Lit(Str(pat))) :
              pat \in {<<A, AnyText>>, <<AnyText, A, B, AnyText>>, <<A, B, AnyChar>>, <<B, A>>,
                       <<A, AnyText, A, B>>, <<A, AnyChar, B>>}}
           \cup {Bin("and", Bin("like", U("w"), Lit(Str(<<A, B, AnyText>>))), Bin(">", U("k"), I(1))),
                 NotE(Bin("like", U("w"), Lit(Str(<<A, B, AnyText>>)))),
                 Bin(">=", U("w"), Lit(Str(<<A, B>>)))},
     order \in {<<>>, <<<<U("w"), TRUE>>>>}}

P == Param("p")
Prepared == {Ordered(From(<<>>, <<p>>, <<Item(id), Item(s)>>), order, lim) :
               p \in {Bin("=", id, P), Bin(">", id, P), Bin("<=", x, P), Bin("=", x, P), InList(x, <<P, I(3)>>),
                      Bin("and", Bin(">=", id, P), Bin("<", id, I(3)))},
               order \in {<<>>, <<<<x, TRUE>>>>}, lim \in {<<>>, <<P>>}}

Statement(q, params) == [s |-> "query", q |-> q, params |-> params]
Alone(st) == [stmts |-> <<st>>, ddl |-> <<>>]

Queries ==
  {Statement(q, <<>>) : q \in Single \cup Joined \cup Grouped \cup SetOps \cup Subqueries
                               \cup Nested \cup Uniques \cup Texts}
  \cup {Statement(q, [p |-> v]) : q \in Prepared, v \in {IntV(1), IntV(3), Null}}

-----------------------------------------------------------------------------
(* INSERT, UPDATE and DELETE: pairs of statements in one transaction.      *)

C(name) == <<"", name>>
NoParams == <<>>
Insert(tab, cols, rows) == [s |-> "insert", tab |-> tab, cols |-> cols, rows |-> rows, params |-> NoParams]
InsertSelect(tab, cols, q) == [s |-> "select", tab |-> tab, cols |-> cols, q |-> q, params |-> NoParams]
DeleteFrom(tab, where) == [s |-> "delete", tab |-> tab, where |-> where, params |-> NoParams]
UpdateSet(tab, sets, where) ==
  [s |-> "update", tab |-> tab, sets |-> sets, where |-> where, params |-> NoParams]

N == Lit(Null)
Ab == Lit(Str(<<A, B>>))
Inserts ==
  {Insert("t", <<>>, <<<<N, I(2), Ab>>>>), Insert("t", <<C("x")>>, <<<<I(1)>>, <<Bin("+", I(1), I(1))>>>>),
   Insert("t", <<C("id"), C("x")>>, <<<<I(7), I(1)>>, <<N, I(2)>>>>),
   Insert("t", <<C("id"), C("x")>>, <<<<N, I(1)>>, <<I(7), I(2)>>, <<I(2), I(3)>>>>),
   Insert("t", <<C("id")>>, <<<<I(3)>>>>), Insert("t", <<C("x")>>, <<<<I(3)>>, <<Ab>>>>),
   Insert("u", <<C("k"), C("w")>>, <<<<I(4), Ab>>, <<N, Ab>>>>),
   InsertSelect("t", <<C("x"), C("s")>>, Query(From(<<>>, <<Bin("<", id, I(3))>>, <<Item(x), Item(s)>>))),
   InsertSelect("t", <<C("id"), C("x")>>, Query(From(<<>>, <<>>, <<Item(Bin("+", id, I(1))), Item(x)>>))),
   InsertSelect("u", <<C("k"), C("r")>>, Query(From(<<>>, <<Bin(">", x, I(1))>>, <<Item(Bin("+", id, I(3))), Item(x)>>)))}
Changes ==
  {DeleteFrom("t", <<>>), DeleteFrom("t", <<Bin("=", x, I(2))>>), DeleteFrom("t", <<Bin(">=", id, I(5))>>),
   DeleteFrom("t", <<InSub(x, Query(Select(Table("t", "t"), <<Item(id)>>)), FALSE)>>),
   UpdateSet("t", <<<<C("x"), Bin("+", x, I(1))>>>>, <<Bin(">", x, I(1))>>),
   UpdateSet("t", <<<<C("x"), id>>, <<C("id"), Bin("+", id, I(7))>>>>, <<Bin("=", id, I(1))>>),
   UpdateSet("t", <<<<C("id"), Bin("+", id, I(1))>>>>, <<>>),
   UpdateSet("t", <<<<C("x"), s>>>>, <<Bin("=", id, I(2))>>),
   UpdateSet("u", <<<<C("k"), CaseE(<<>>, <<<<Bin("=", Col("", "k"), I(2)), N>>>>, <<Bin("-", I(0), Col("", "k"))>>)>>>>, <<>>)}
MCDml == {[stmts |-> <<st>>, ddl |-> <<>>] : st \in Inserts \cup Changes}
  \cup {[stmts |-> <<a, b>>, ddl |-> <<>>] : a \in Inserts \cup Changes, b \in Inserts \cup Changes}

-----------------------------------------------------------------------------
(* A statement executed twice while the catalog changes.                   *)

ByX(p) == Statement(Query(From(<<>>, <<Bin("=", x, p)>>, <<Item(id), Item(s)>>)), [p |-> IntV(2)])
AllOfU == Statement(Query([Select(Table("u", "u"), <<>>) EXCEPT !.where = <<Bin(">", Col("", "w"), Ab)>>]), NoParams)
DdlScripts ==
  {[stmts |-> <<st, st>>, ddl |-> ddl] :
     st \in {ByX(P), ByX(I(2)), AllOfU},
     ddl \in {<<[d |-> "drop_index", tab |-> "t", name |-> "byx"],
                [d |-> "create_index", tab |-> "t", index |-> Index("byx", <<"id">>, "btree")]>>,
              <<[d |-> "drop_column", tab |-> "u", column |-> C("y")],
                [d |-> "add_column", tab |-> "u", col |-> Column("z", "Int", "")]>>,
              <<[d |-> "drop_index", tab |-> "u", name |-> "byw"]>>}}

MCScripts == {Alone(st) : st \in Queries} \cup MCDml \cup DdlScripts
=============================================================================
