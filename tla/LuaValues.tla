----------------------------- MODULE LuaValues -----------------------------
(***************************************************************************)
(* Lua values, their conversions, arithmetic and comparison: lobject.c and *)
(* the first half of lvm.c, shared by the compiler, which folds constants, *)
(* and by the virtual machine.                                             *)
(*                                                                         *)
(* A value is a tuple that begins with its variant.  Integers wrap at      *)
(* IntBits bits.  A float is an exact fraction <<"flt", n, d>> in lowest   *)
(* terms, with d = 0 for the infinities and NaN and <<0, -1>> for minus    *)
(* zero: rounding is left out.  A string is a TLA+ string.                 *)
(***************************************************************************)
EXTENDS Integers, Sequences, Bitwise, TLC

CONSTANTS
    IntBits,     \* width of lua_Integer, 64 in the code
    Numerals,    \* the strings that are numerals, with their values
    StringOrder  \* the strings that are ordered, as strcoll does

Nil == <<"nil">>
Bool(b) == <<"bool", b>>
Integer(i) == <<"int", i>>
Str(s) == <<"str", s>>
Err(what) == <<"error", what>>

IsInt(v) == v[1] = "int"
IsFlt(v) == v[1] = "flt"
IsNumber(v) == IsInt(v) \/ IsFlt(v)
IsStr(v) == v[1] = "str"
IsErr(v) == v[1] = "error"
IsTable(v) == v[1] = "table"
IsFunction(v) == v[1] \in {"closure", "cfunction"}
IsFalse(v) == v \in {Nil, Bool(FALSE)}
TypeOf(v) ==
    CASE IsNumber(v) -> "number"
      [] v[1] \in {"closure", "cfunction"} -> "function"
      [] v[1] = "str" -> "string"
      [] v[1] = "bool" -> "boolean"
      [] OTHER -> v[1]

MaxInt == 2 ^ (IntBits - 1) - 1
MinInt == -(2 ^ (IntBits - 1))
Unsigned(i) == i % 2 ^ IntBits
Signed(u) == LET w == Unsigned(u) IN IF w > MaxInt THEN w - 2 ^ IntBits ELSE w

AbsOf(i) == IF i < 0 THEN -i ELSE i
Sign(i) == CASE i > 0 -> 1 [] i < 0 -> -1 [] OTHER -> 0
RECURSIVE Gcd(_, _)
Gcd(a, b) == IF b = 0 THEN a ELSE Gcd(b, a % b)

--------------------------------------------------------------------------
\* Floats.

Flt(n, d) ==
    CASE d = 0 -> <<"flt", Sign(n), 0>>
      [] n = 0 /\ d # 0 -> <<"flt", 0, Sign(d)>>
      [] OTHER -> LET g == Gcd(AbsOf(n), AbsOf(d)) * Sign(d) IN <<"flt", n \div g, d \div g>>

NaN == <<"flt", 0, 0>>
IsInf(x) == x[3] = 0 /\ x # NaN
Den(x) == AbsOf(x[3])
Neg(x) == IF x[2] = 0 THEN <<"flt", 0, -x[3]>> ELSE <<"flt", -x[2], x[3]>>

NumAdd(x, y) ==
    CASE x = NaN \/ y = NaN \/ (IsInf(x) /\ y = Neg(x)) -> NaN
      [] IsInf(x) /\ y # NaN /\ y # Neg(x) -> x
      [] IsInf(y) /\ x # NaN /\ ~IsInf(x) -> y
      [] x[2] = 0 /\ x = y -> x
      [] OTHER -> Flt(x[2] * Den(y) + y[2] * Den(x), Den(x) * Den(y))
NumMul(x, y) ==
    IF x = NaN \/ y = NaN THEN NaN
    ELSE IF IsInf(x) \/ IsInf(y) THEN Flt(x[2] * y[2], 0)
    ELSE Flt(x[2] * y[2], x[3] * y[3])
NumDiv(x, y) ==
    IF x = NaN \/ y = NaN THEN NaN
    ELSE IF IsInf(y) THEN IF IsInf(x) THEN NaN ELSE Flt(0, y[2] * (IF x[2] = 0 THEN x[3] ELSE x[2]))
    ELSE IF IsInf(x) THEN Flt(x[2] * (IF y[2] = 0 THEN y[3] ELSE y[2]), 0)
    ELSE IF y[2] = 0 THEN Flt(x[2] * y[3], 0)
    ELSE Flt(x[2] * y[3], x[3] * y[2])
NumFloor(x) == IF x[3] = 0 \/ x[2] = 0 THEN x ELSE Flt(x[2] \div x[3], 1)

\* Only powers with an integral exponent of small size have a value here.
NumPow(x, y) ==
    CASE y[2] = 0 /\ y # NaN -> Flt(1, 1)
      [] y[3] = 1 /\ y[2] > 0 /\ x[3] # 0 -> Flt(x[2] ^ y[2], x[3] ^ y[2])
      [] y[3] = 1 /\ y[2] < 0 /\ x[3] # 0 -> NumDiv(Flt(1, 1), Flt(x[2] ^ (-y[2]), x[3] ^ (-y[2])))
      [] OTHER -> NaN

NumLt(x, y) == x # NaN /\ y # NaN /\ (IF IsInf(x) \/ IsInf(y) THEN (IF IsInf(x) THEN x[2] ELSE 0) < (IF IsInf(y) THEN y[2] ELSE 0)
                                      ELSE x[2] * Den(y) < y[2] * Den(x))
NumEq(x, y) == x # NaN /\ y # NaN /\ (x = y \/ (x[2] = 0 /\ y[2] = 0 /\ x[3] # 0 /\ y[3] # 0))
NumLe(x, y) == NumLt(x, y) \/ NumEq(x, y)

\* fmod, whose result has the sign of x, and luai_nummod, where it has y's.
FMod(x, y) ==
    CASE x = NaN \/ y = NaN \/ x[3] = 0 \/ y[2] = 0 -> IF y[2] = 0 \/ x[3] = 0 THEN NaN ELSE x
      [] y[3] = 0 /\ y # NaN /\ x[3] # 0 -> x
      [] OTHER -> LET r == (AbsOf(x[2]) * Den(y)) % (AbsOf(y[2]) * Den(x)) IN Flt(Sign(x[2]) * r, Den(x) * Den(y))
LuaVModf(x, y) ==
    LET m == FMod(x, y)
    IN IF m # NaN /\ (IF m[2] > 0 THEN y[2] < 0 ELSE m[2] < 0 /\ y[2] > 0) THEN NumAdd(m, y) ELSE m

--------------------------------------------------------------------------
\* Conversions.

CastNum(v) == IF IsInt(v) THEN Flt(v[2], 1) ELSE v

\* The number that a string stands for, if it does.
StrToN(v) == IF IsStr(v) /\ v[2] \in DOMAIN Numerals THEN Numerals[v[2]] ELSE v
LuaVToNumber(v) == IF IsNumber(StrToN(v)) THEN CastNum(StrToN(v)) ELSE Nil

\* luaV_flttointeger: Nil for a float that is no integer under the mode.
FltToInteger(x, mode) ==
    IF x[3] = 0 THEN Nil
    ELSE LET f == IF x[2] = 0 THEN 0 ELSE x[2] \div x[3]
             i == IF mode = "ceil" /\ f * x[3] # x[2] THEN f + 1 ELSE f
         IN IF (mode = "eq" /\ x[2] # 0 /\ x[3] # 1) \/ i < MinInt \/ i > MaxInt THEN Nil ELSE Integer(i)
LuaVToIntegerNs(v, mode) == IF IsFlt(v) THEN FltToInteger(v, mode) ELSE IF IsInt(v) THEN v ELSE Nil
LuaVToInteger(v, mode) == LuaVToIntegerNs(StrToN(v), mode)

Fraction(n, d) ==
    LET k == CHOOSE i \in 1 .. 9 : (10 ^ i) % d = 0 /\ \A j \in 1 .. (i - 1) : (10 ^ j) % d # 0
        f == ToString(((n % d) * 10 ^ k) \div d)
    IN SubSeq("000000000", 1, k - Len(f)) \o f
\* tostringbuff: a float that looks like an integer gets ".0" at its end.
NumberText(v) ==
    CASE IsInt(v) -> ToString(v[2])
      [] v = NaN -> "-nan"
      [] IsFlt(v) /\ IsInf(v) -> IF v[2] > 0 THEN "inf" ELSE "-inf"
      [] OTHER -> (IF v[2] < 0 \/ v[3] < 0 THEN "-" ELSE "") \o ToString(AbsOf(v[2]) \div Den(v)) \o "."
                  \o (IF v[3] \in {1, -1} THEN "0" ELSE Fraction(AbsOf(v[2]), v[3]))
IsText(v) == IsStr(v) \/ IsNumber(v)
Text(v) == IF IsStr(v) THEN v[2] ELSE NumberText(v)

--------------------------------------------------------------------------
\* Arithmetic.

\* C's division and remainder round towards zero.
CDiv(m, n) == Sign(m) * Sign(n) * (AbsOf(m) \div AbsOf(n))
CRem(m, n) == m - n * CDiv(m, n)
Negative(i) == i < 0

LuaVIdiv(m, n) ==
    IF Unsigned(n + 1) <= 1
    THEN IF n = 0 THEN Err("attempt to divide by zero") ELSE Integer(Signed(-m))
    ELSE LET q == CDiv(m, n) IN Integer(IF Negative(m) # Negative(n) /\ CRem(m, n) # 0 THEN q - 1 ELSE q)
LuaVMod(m, n) ==
    IF Unsigned(n + 1) <= 1
    THEN IF n = 0 THEN Err("attempt to perform 'n%0'") ELSE Integer(0)
    ELSE LET r == CRem(m, n) IN Integer(IF r # 0 /\ Negative(r) # Negative(n) THEN r + n ELSE r)
ShiftL(x, y) ==
    IF Negative(y)
    THEN IF y <= -IntBits THEN 0 ELSE Signed(Unsigned(x) \div 2 ^ (-y))
    ELSE IF y >= IntBits THEN 0 ELSE Signed(Unsigned(x) * 2 ^ y)

IntArith(op, m, n) ==
    CASE op = "add" -> Integer(Signed(m + n))
      [] op = "sub" -> Integer(Signed(m - n))
      [] op = "mul" -> Integer(Signed(m * n))
      [] op = "mod" -> LuaVMod(m, n)
      [] op = "idiv" -> LuaVIdiv(m, n)
      [] op = "band" -> Integer(Signed(Unsigned(m) & Unsigned(n)))
      [] op = "bor" -> Integer(Signed(Unsigned(m) | Unsigned(n)))
      [] op = "bxor" -> Integer(Signed(Unsigned(m) ^^ Unsigned(n)))
      [] op = "shl" -> Integer(ShiftL(m, n))
      [] op = "shr" -> Integer(ShiftL(m, Signed(-n)))
      [] op = "unm" -> Integer(Signed(-m))
      [] op = "bnot" -> Integer(Signed(Unsigned(-1) - Unsigned(m)))
NumArith(op, x, y) ==
    CASE op = "add" -> NumAdd(x, y)
      [] op = "sub" -> NumAdd(x, Neg(y))
      [] op = "mul" -> NumMul(x, y)
      [] op = "div" -> NumDiv(x, y)
      [] op = "pow" -> NumPow(x, y)
      [] op = "idiv" -> NumFloor(NumDiv(x, y))
      [] op = "unm" -> Neg(x)
      [] op = "mod" -> LuaVModf(x, y)

BitwiseOps == {"band", "bor", "bxor", "shl", "shr", "bnot"}
\* luaO_rawarith: Nil where the operands are not numbers fit for op.
RawArith(op, v, w) ==
    CASE op \in BitwiseOps ->
            LET m == LuaVToIntegerNs(v, "eq")
                n == LuaVToIntegerNs(w, "eq")
            IN IF Nil \in {m, n} THEN Nil ELSE IntArith(op, m[2], n[2])
      [] op \notin BitwiseOps /\ ~(IsNumber(v) /\ IsNumber(w)) -> Nil
      [] op \notin BitwiseOps \cup {"div", "pow"} /\ IsInt(v) /\ IsInt(w) -> IntArith(op, v[2], w[2])
      [] OTHER -> NumArith(op, CastNum(v), CastNum(w))

--------------------------------------------------------------------------
\* Comparison.

\* As no float is rounded here, an integer is compared with a float as one.
LtNum(v, w) == IF IsInt(v) /\ IsInt(w) THEN v[2] < w[2] ELSE NumLt(CastNum(v), CastNum(w))
LeNum(v, w) == IF IsInt(v) /\ IsInt(w) THEN v[2] <= w[2] ELSE NumLe(CastNum(v), CastNum(w))

Rank(s) == CHOOSE i \in DOMAIN StringOrder : StringOrder[i] = s
LtStr(s, t) == Rank(s) < Rank(t)
LeStr(s, t) == Rank(s) <= Rank(t)

\* luaV_rawequalobj.
RawEqual(v, w) ==
    CASE IsInt(v) /\ IsFlt(w) -> FltToInteger(w, "eq") = v
      [] IsFlt(v) /\ IsInt(w) -> FltToInteger(v, "eq") = w
      [] IsFlt(v) /\ IsFlt(w) -> NumEq(v, w)
      [] OTHER -> v = w

--------------------------------------------------------------------------
\* What a run shows: the calls of "out" and how it ended, without the
\* identity of objects and the wording of messages, which are the long strings.

Fault == Str("fault")
Shown(v) ==
    CASE v[1] \in {"table", "thread"} -> <<v[1]>>
      [] IsFunction(v) -> <<"function">>
      [] IsStr(v) /\ Len(v[2]) > 12 -> Fault
      [] OTHER -> v
ShownAll(vs) == [i \in DOMAIN vs |-> Shown(vs[i])]
Outcome(out, result) ==
    [out |-> [i \in DOMAIN out |-> ShownAll(out[i])], result |-> <<result[1]>> \o ShownAll(Tail(result))]

=============================================================================
