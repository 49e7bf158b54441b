------------------------------ MODULE SqlValue ------------------------------
(***************************************************************************)
(* The values SQL expressions compute with (DbValue), the keys tables and  *)
(* indexes are ordered by (DbKey), and the three orders the code compares  *)
(* them with: compare_values (the SQL operators), total_compare (sorting,  *)
(* grouping, joining) and the derived order of DbKey (scans).              *)
(*                                                                         *)
(* A value is a record [t |-> type, v |-> payload] whose payload is always *)
(* a sequence of integers: the number for Int and Bool (0 or 1), the       *)
(* number in units of 1/Scale for Float and Dec, the code points for Str,  *)
(* and <<>> for Null and for Err, the outcome of an evaluation that        *)
(* returns Err(..) in the code.  Integers are MinInt..MaxInt.              *)
(*                                                                         *)
(* Here and in the modules that extend this one, where the guards of a     *)
(* CASE overlap the first one that holds is meant, as TLC evaluates it.    *)
(***************************************************************************)
EXTENDS Integers, Sequences, FiniteSets, FiniteSetsExt

CONSTANTS MinInt, MaxInt    \* the range of i64
CONSTANT Scale              \* the unit of Float and Dec payloads is 1/Scale
ASSUME IntRange == MinInt \in Int /\ MaxInt \in Int /\ MinInt < 0 /\ 0 < MaxInt
ASSUME ScaleAssumption == Scale \in Nat \ {0}

Null == [t |-> "Null", v |-> <<>>]
Err == [t |-> "Err", v |-> <<>>]
IntV(n) == [t |-> "Int", v |-> <<n>>]
BoolV(b) == [t |-> "Bool", v |-> <<IF b THEN 1 ELSE 0>>]
Flt(n) == [t |-> "Float", v |-> <<n>>]
Dec(n) == [t |-> "Dec", v |-> <<n>>]
Str(s) == [t |-> "Str", v |-> s]

IsErr(x) == x.t = "Err"
IsNull(x) == x.t = "Null"
True == BoolV(TRUE)
False == BoolV(FALSE)

-----------------------------------------------------------------------------
(* Orders.                                                                 *)

Cmp(a, b) == IF a < b THEN "Less" ELSE IF a > b THEN "Greater" ELSE "Equal"

(* The lexicographic order of two integer sequences.                       *)
CmpAt(s, u, diff) ==      \* diff: the common positions where they differ
  IF diff = {} THEN Cmp(Len(s), Len(u)) ELSE Cmp(s[Min(diff)], u[Min(diff)])
CmpSeq(s, u) == CmpAt(s, u, {i \in 1..Min({Len(s), Len(u)}) : s[i] # u[i]})

Reversed(c) == CASE c = "Less" -> "Greater" [] c = "Greater" -> "Less"
                 [] OTHER -> c

Numeric == {"Int", "Float", "Dec"}

(* The magnitude of a number or a Bool, in units of 1/Scale.               *)
Num(x) == IF x.t \in {"Int", "Bool"} THEN x.v[1] * Scale ELSE x.v[1]

(* compare_values: NULL is least; numbers promote, Bool compares with Int; *)
(* any other pair of different types is an error.                          *)
CompareValues(l, r) ==
  CASE IsNull(l) /\ IsNull(r) -> "Equal"
    [] IsNull(l) /\ ~IsNull(r) -> "Less"
    [] ~IsNull(l) /\ IsNull(r) -> "Greater"
    [] l.t = r.t /\ ~IsNull(l) -> CmpSeq(l.v, r.v)
    [] l.t # r.t /\ ({l.t, r.t} \subseteq Numeric \/ {l.t, r.t} = {"Bool", "Int"})
         -> Cmp(Num(l), Num(r))
    [] OTHER -> "Err"

TypeRank(x) ==
  CASE x.t = "Null" -> 0 [] x.t = "Bool" -> 1 [] x.t = "Int" -> 2
    [] x.t = "Float" -> 3 [] x.t = "Str" -> 4 [] x.t = "Dec" -> 9

(* total_compare: values of different types are ordered by their type.     *)
TotalCompare(l, r) ==
  IF l.t = r.t THEN CmpSeq(l.v, r.v) ELSE Cmp(TypeRank(l), TypeRank(r))

(* compare_keys: the first column that differs decides, in its direction.  *)
FirstUnequal(cs, asc) ==
  LET diff == {i \in 1..Len(cs) : cs[i] # "Equal"}
      i == Min(diff)
  IN IF diff = {} THEN "Equal" ELSE IF asc[i] THEN cs[i] ELSE Reversed(cs[i])
CompareKeys(a, b, asc) ==
  FirstUnequal([i \in 1..Len(asc) |-> TotalCompare(a[i], b[i])], asc)

(* compare_rows: every column ascending.                                   *)
CompareRows(a, b) == CompareKeys(a, b, [i \in 1..Len(a) |-> TRUE])

-----------------------------------------------------------------------------
(* Conversions and arithmetic.                                             *)

(* to_bool: NULL counts as false; floats, decimals and strings are errors. *)
ToBool(x) ==
  CASE x.t = "Bool" -> x
    [] x.t = "Int" -> BoolV(x.v[1] # 0)
    [] x.t = "Null" -> False
    [] OTHER -> Err

(* The truth test of PhysicalFilter and execute_point_get.                 *)
Truthy(x) == x.t \in {"Bool", "Int"} /\ x.v[1] # 0

CheckedInt(n) == IF n \in MinInt..MaxInt THEN IntV(n) ELSE Err

Abs(n) == IF n < 0 THEN -n ELSE n
Truncate(a, b) ==      \* division towards zero, as in Rust
  (Abs(a) \div Abs(b)) * (IF (a < 0) = (b < 0) THEN 1 ELSE -1)

(* eval_arithmetic with checked operators: Int with Int stays Int, Dec     *)
(* with Int or Dec is Dec, anything with a Float is Float.                 *)
Calculate(op, a, b, unit) ==      \* a and b in units of 1/unit
  CASE op = "+" -> a + b
    [] op = "-" -> a - b
    [] op = "*" -> Truncate(a * b, unit)
    [] op = "/" -> Truncate(a * unit, b)
EvalArithmetic(op, l, r) ==
  IF ~({l.t, r.t} \subseteq Numeric) \/ (op = "/" /\ r.v[1] = 0) THEN Err
  ELSE IF {l.t, r.t} = {"Int"} THEN CheckedInt(Calculate(op, l.v[1], r.v[1], 1))
  ELSE [t |-> IF "Float" \in {l.t, r.t} THEN "Float" ELSE "Dec",
        v |-> <<Calculate(op, Num(l), Num(r), Scale)>>]

(* cast_value between the types the model keeps; text is only cast to text.*)
CastValue(x, ty) ==
  CASE IsNull(x) \/ ty = x.t -> x
    [] ty = "Int" /\ x.t \in {"Float", "Dec"} -> IntV(Truncate(x.v[1], Scale))
    [] ty = "Int" /\ x.t = "Bool" -> IntV(x.v[1])
    [] ty = "Float" /\ x.t \in {"Int", "Dec", "Bool"} -> Flt(Num(x))
    [] ty = "Dec" /\ x.t \in {"Int", "Float"} -> Dec(Num(x))
    [] ty = "Bool" -> ToBool(x)
    [] OTHER -> Err

-----------------------------------------------------------------------------
(* Keys.  A DbKey has the payload of its value; Float and NULL have none.  *)

KeyTypes == {"Int", "Dec", "Str", "Bool"}
HasKey(x) == x.t \in KeyTypes

(* The declaration order of the DbKey variants.                            *)
KeyRank(k) ==
  CASE k.t = "Int" -> 0 [] k.t = "Dec" -> 4 [] k.t = "Str" -> 5
    [] k.t = "Bool" -> 6

CompareDbKeys(a, b) ==
  IF a.t = b.t THEN CmpSeq(a.v, b.v) ELSE Cmp(KeyRank(a), KeyRank(b))

(* An inclusive key range <<low, high>>.                                   *)
InRange(k, rng) ==
  /\ CompareDbKeys(rng[1], k) \in {"Less", "Equal"}
  /\ CompareDbKeys(k, rng[2]) \in {"Less", "Equal"}

MaxChar == 9       \* stands for char::MAX, the sentinel of string ranges

(* DataType::key_bounds: the whole range of a type.                        *)
KeyBounds(ty) ==
  CASE ty = "Int" -> <<IntV(MinInt), IntV(MaxInt)>>
    [] ty = "Bool" -> <<False, True>>
    [] ty = "Dec" -> <<Dec(MinInt * Scale), Dec(MaxInt * Scale)>>
    [] OTHER -> <<Str(<<>>), Str(<<MaxChar>>)>>
=============================================================================
