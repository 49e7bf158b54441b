------------------------------- MODULE SqlScan -------------------------------
(***************************************************************************)
(* How a transaction reads a table: primary key scans, index scans and     *)
(* full-text scans over the committed rows, with the transaction's own     *)
(* writes laid over them, loading only the locality groups that hold the   *)
(* columns asked for.                                                      *)
(*                                                                         *)
(* A column of a table also has lg, its locality group ("" by default),    *)
(* def, its default value, auto, whether it takes its values from the      *)
(* table's sequence, and nullable.  What is read is x, a record with       *)
(*   rows   the committed rows of each table (complete rows),              *)
(*   buf    the write buffer: table -> key -> <<row>> or <<>> (deleted),   *)
(*   warm   whether the scanned memtables hold any entry.                  *)
(* The index entries are those of the committed rows.  columns is <<>>     *)
(* (all) or <<set of names>>.  A scan returns a stream [rows, err]; err    *)
(* says that the rows are followed by an error.                            *)
(***************************************************************************)
EXTENDS SqlOptimizer

Rows(s) == [rows |-> s, err |-> FALSE]
Failed == [rows |-> <<>>, err |-> TRUE]

(* extract_primary_key of a complete row; a key is a sequence of parts.    *)
PkOf(schema, row) == [i \in 1..Len(schema.pk) |-> row[schema.pk[i]]]

(* The order of composite keys of the same shape.                          *)
CompareParts(a, b) ==
  FirstUnequal([i \in 1..Len(a) |-> CompareDbKeys(a[i], b[i])], [i \in 1..Len(a) |-> TRUE])
KeyBefore(a, b) == CompareParts(a, b) = "Less"
Within(k, rng) == ~KeyBefore(k, rng[1]) /\ ~KeyBefore(rng[2], k)

(* primary_key_bounds.                                                     *)
PkBounds(schema) ==
  LET end(j) == [i \in 1..Len(schema.pk) |-> KeyBounds(schema.cols[schema.pk[i]].ty)[j]]
  IN <<end(1), end(2)>>

(* The locality groups read for the columns asked for; when no column of   *)
(* the table is, the default group.                                        *)
NeededGroups(schema, columns) ==
  LET n == Len(schema.cols)
      wanted == {i \in 1..n : \E c \in columns[1] : NamesMatch(schema.cols[i].name, c)}
  IN IF columns = <<>> THEN {schema.cols[i].lg : i \in 1..n}
     ELSE IF wanted = {} THEN {""} ELSE {schema.cols[i].lg : i \in wanted}

(* merge_rows: the columns of the groups that were not read have their     *)
(* defaults.  A table scan also leaves out the columns of a group that     *)
(* were not asked for (from_bytes_projected); a point read does not.       *)
LoadedRow(schema, row, columns, projected) ==
  LET groups == NeededGroups(schema, columns)
  IN [i \in 1..Len(row) |->
        CASE schema.cols[i].lg \notin groups -> schema.cols[i].def
          [] projected /\ columns # <<>> /\
             \A c \in columns[1] : ~NamesMatch(schema.cols[i].name, c) -> Null
          [] OTHER -> row[i]]

(* The committed rows a read of these columns can find at all: a table     *)
(* has a storage engine for each locality group of its columns.            *)
StoredRows(x, tab, columns) ==
  LET schema == Tables[tab]
  IN IF NeededGroups(schema, columns) \cap {schema.cols[i].lg : i \in 1..Len(schema.cols)} = {}
     THEN {} ELSE x.rows[tab]

(* Transaction::scan_iter: the rows in key order, a buffered write taking  *)
(* the place of the stored row.  A range whose ends are inverted panics in *)
(* a memtable that is not empty.                                           *)
TableScan(x, tab, rng, columns) ==
  LET schema == Tables[tab]
      buf == x.buf[tab]
      stored == {<<PkOf(schema, r), LoadedRow(schema, r, columns, TRUE)>> :
                   r \in StoredRows(x, tab, columns)}
      written == {<<k, buf[k][1]>> : k \in {k \in DOMAIN buf : buf[k] # <<>>}}
      seen == {e \in stored : e[1] \notin DOMAIN buf} \cup written
      before(e, f) == KeyBefore(e[1], f[1])
      s == SortSeq(AnySeq({e \in seen : Within(e[1], rng)}), before)
  IN IF KeyBefore(rng[2], rng[1]) THEN [rows |-> <<>>, err |-> x.warm]
     ELSE Rows([i \in 1..Len(s) |-> s[i][2]])

(* multi_get_projected: the rows found, in the order of the keys.          *)
MultiGet(x, tab, keys, columns) ==
  LET schema == Tables[tab]
      buf == x.buf[tab]
      at(k) == {r \in StoredRows(x, tab, columns) : PkOf(schema, r) = k}
      one(k) == IF k \in DOMAIN buf THEN buf[k]
                ELSE IF at(k) = {} THEN <<>>
                ELSE <<LoadedRow(schema, CHOOSE r \in at(k) : TRUE, columns, FALSE)>>
  IN FlattenSeq([i \in 1..Len(keys) |-> one(keys[i])])

-----------------------------------------------------------------------------
(* Secondary indexes.                                                      *)

IndexNamed(schema, name) == CHOOSE i \in Range(schema.idxs) : i.name = name
HasIndex(schema, name) == \E i \in Range(schema.idxs) : i.name = name

ColumnPos(schema, name) == CHOOSE i \in 1..Len(schema.cols) : schema.cols[i].name = name

(* get_index_keys: no entry for a row with a NULL, or a value without a    *)
(* key, in an indexed column; one entry per distinct token of a text.      *)
IndexedValues(schema, index, row) ==
  [i \in 1..Len(index.cols) |-> row[ColumnPos(schema, index.cols[i])]]
IndexKeys(schema, index, row) ==
  LET vals == IndexedValues(schema, index, row)
  IN IF index.kind = "btree"
     THEN IF \A i \in 1..Len(vals) : HasKey(vals[i]) THEN {vals} ELSE {}
     ELSE IF vals[1].t = "Str"
          THEN {<<Str(t)>> : t \in Range(Tokenize(index.kind, vals[1].v))} ELSE {}

(* Index scans start from the entries of the stored rows in a key range.   *)
EntriesWithin(x, tab, index, full) ==
  LET pk(r) == PkOf(Tables[tab], r)
      before(e, f) == KeyBefore(e[1], f[1])
  IN SortSeq(AnySeq({e \in UNION {{<<k \o pk(r), pk(r)>> : k \in IndexKeys(Tables[tab], index, r)} :
                                 r \in x.rows[tab]} : Within(e[1], full)}), before)

(* The range lo..hi of the first indexed column, padded with the whole     *)
(* range of the other columns and of the primary key.                      *)
PaddedRange(schema, index, rng) ==
  LET end(j) == <<rng[j]>>
                \o [i \in 1..(Len(index.cols) - 1) |->
                      KeyBounds(schema.cols[ColumnPos(schema, index.cols[i + 1])].ty)[j]]
                \o PkBounds(schema)[j]
  IN <<end(1), end(2)>>

(* The buffered rows in the range that the index did not lead to.          *)
BufferedInRange(buf, schema, index, rng, pks) ==
  LET in(vals) == /\ \A i \in 1..Len(vals) : ~IsNull(vals[i])
                  /\ HasKey(vals[1]) /\ InRange(vals[1], rng)
      extra == SortSeq(AnySeq({k \in DOMAIN buf \ Range(pks) :
                 buf[k] # <<>> /\ in(IndexedValues(schema, index, buf[k][1]))}), KeyBefore)
  IN [i \in 1..Len(extra) |-> buf[extra[i]][1]]

(* The final sort, by the indexed columns as loaded and then by the key.   *)
ByIndexedColumns(rows, schema, index) ==
  LET part(v) == IF HasKey(v) THEN v ELSE IntV(0)
      sortKey(vals) == [i \in 1..Len(vals) |-> part(vals[i])]
      hasPk(row) == \A i \in 1..Len(schema.pk) : HasKey(row[schema.pk[i]])
      then(c, d) == IF c = "Equal" THEN d ELSE c
      compare(r, s) ==
        then(CompareParts(sortKey(IndexedValues(schema, index, r)),
                          sortKey(IndexedValues(schema, index, s))),
             IF hasPk(r) /\ hasPk(s) THEN CompareParts(PkOf(schema, r), PkOf(schema, s))
             ELSE "Equal")
      first(i, j) == then(compare(rows[i], rows[j]), Cmp(i, j)) = "Less"
      order == SortSeq([i \in 1..Len(rows) |-> i], first)
  IN [i \in 1..Len(rows) |-> rows[order[i]]]

(* Transaction::index_scan: rows found through the index, then buffered    *)
(* rows, sorted together.                                                  *)
IndexedRows(x, tab, index, rng, pks, columns) ==
  ByIndexedColumns(MultiGet(x, tab, pks, columns)
                     \o BufferedInRange(x.buf[tab], Tables[tab], index, rng, pks),
                   Tables[tab], index)
PksOf(entries) == [i \in 1..Len(entries) |-> entries[i][2]]
ScanPadded(x, tab, index, rng, full, columns) ==
  IF KeyBefore(full[2], full[1]) THEN [rows |-> <<>>, err |-> x.warm]
  ELSE Rows(IndexedRows(x, tab, index, rng, PksOf(EntriesWithin(x, tab, index, full)), columns))
IndexRangeScan(x, tab, name, rng, columns) ==
  IF ~HasIndex(Tables[tab], name) THEN Failed
  ELSE LET index == IndexNamed(Tables[tab], name)
       IN ScanPadded(x, tab, index, rng, PaddedRange(Tables[tab], index, rng), columns)

RECURSIVE MatchedPks(_, _, _, _)
(* eval_fulltext_query: the keys of the committed rows whose tokens match; *)
(* the empty phrase matches none here.                                     *)
MatchedPks(x, tab, index, q) ==
  LET schema == Tables[tab]
      col == ColumnPos(schema, index.cols[1])
      indexed == {r \in x.rows[tab] : r[col].t = "Str" /\ Within(PkOf(schema, r), PkBounds(schema))}
  IN CASE q.q = "and" -> MatchedPks(x, tab, index, q.l) \cap MatchedPks(x, tab, index, q.r)
       [] q.q = "or" -> MatchedPks(x, tab, index, q.l) \cup MatchedPks(x, tab, index, q.r)
       [] OTHER -> {PkOf(schema, r) : r \in {r \in indexed :
                      (q.q = "phrase" => q.ws # <<>>) /\
                      MatchQuery(q, Tokenize(index.kind, r[col].v))}}

(* fulltext_scan_with_query: the rows of the matched keys in key order,    *)
(* then the matching buffered rows.                                        *)
BufferedMatches(buf, index, col, q, pks) ==
  SortSeq(AnySeq({k \in DOMAIN buf \ Range(pks) :
                    /\ buf[k] # <<>> /\ buf[k][1][col].t = "Str"
                    /\ MatchQuery(q, Tokenize(index.kind, buf[k][1][col].v))}), KeyBefore)
TextRows(x, tab, pks, extra, columns) ==
  MultiGet(x, tab, pks, columns) \o [i \in 1..Len(extra) |-> x.buf[tab][extra[i]][1]]
TextMatches(x, tab, index, q, pks, columns) ==
  TextRows(x, tab, pks,
           BufferedMatches(x.buf[tab], index, ColumnPos(Tables[tab], index.cols[1]), q, pks), columns)
TextScan(x, tab, name, q, columns) ==
  LET index == IndexNamed(Tables[tab], name)
  IN IF ~HasIndex(Tables[tab], name) THEN Failed
     ELSE Rows(TextMatches(x, tab, index, q,
                           SortSeq(AnySeq(MatchedPks(x, tab, index, q)), KeyBefore), columns))
=============================================================================
