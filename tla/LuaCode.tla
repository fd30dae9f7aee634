------------------------------ MODULE LuaCode ------------------------------
(***************************************************************************)
(* The code generator of the Lua compiler, lcode.c, with the names of the  *)
(* source: from expressions to instructions, registers and jumps.          *)
(***************************************************************************)
EXTENDS LuaInstr

--------------------------------------------------------------------------
\* Discharging expressions.

luaK_setreturns(S, nresults) ==
    LET T == luaY_checklimit(S, nresults + 1, MaxArgC, "multiple results")
        i == [Code(S, S.e.info) EXCEPT !.c = nresults + 1]
    IN IF S.e.k = "VCALL" THEN SetCode(T, S.e.info, i)
       ELSE luaK_reserveregs(SetCode(LuaAssert(T, S.e.k = "VVARARG"), S.e.info, [i EXCEPT !.a = S.f.freereg]), 1)
luaK_setoneret(S) ==
    CASE S.e.k = "VCALL" ->
            [LuaAssert(S, Code(S, S.e.info).c = 2) EXCEPT !.e.k = "VNONRELOC", !.e.info = Code(S, S.e.info).a]
      [] S.e.k = "VVARARG" -> [S EXCEPT !.f.code[S.e.info + 1].c = 2, !.e.k = "VRELOC"]
      [] OTHER -> S

needvatab(S) == [S EXCEPT !.f.flags = @ \cup {"VATAB"}]
luaK_vapar2local(S) == [needvatab(S) EXCEPT !.e.k = "VLOCAL"]

Reloc(S, op, b, c) == [luaK_codeABC(S, op, 0, b, c) EXCEPT !.e.k = "VRELOC", !.e.info = Pc(S)]
GetOp == [VUPVAL |-> "GETUPVAL", VINDEXUP |-> "GETTABUP", VINDEXI |-> "GETI", VINDEXSTR |-> "GETFIELD",
          VINDEXED |-> "GETTABLE", VVARGIND |-> "GETVARG"]
\* The registers of the table and of the key are free when the value is read.
FreeIndexed(S) ==
    CASE S.e.k \in {"VINDEXI", "VINDEXSTR"} -> freereg(S, S.e.info)
      [] S.e.k \in {"VINDEXED", "VVARGIND"} -> freeregs(S, S.e.info, S.e.idx)
      [] OTHER -> S
luaK_dischargevars(S) ==
    CASE S.e.k = "VCONST" -> [S EXCEPT !.e = [const2exp(S.actvar[S.e.info + 1].val) EXCEPT !.t = S.e.t, !.f = S.e.f]]
      [] S.e.k = "VVARGVAR" -> [luaK_vapar2local(S) EXCEPT !.e.k = "VNONRELOC"]
      [] S.e.k = "VLOCAL" -> [S EXCEPT !.e.k = "VNONRELOC"]
      [] S.e.k \in DOMAIN GetOp -> Reloc(FreeIndexed(S), GetOp[S.e.k], S.e.info, IF S.e.k = "VUPVAL" THEN 0 ELSE S.e.idx)
      [] S.e.k \in {"VVARARG", "VCALL"} -> luaK_setoneret(S)
      [] OTHER -> S

\* discharge2reg behind its call of luaK_dischargevars.
PutInReg(S, reg) ==
    CASE S.e.k = "VNIL" -> luaK_nil(S, reg, 1)
      [] S.e.k = "VFALSE" -> luaK_codeABC(S, "LOADFALSE", reg, 0, 0)
      [] S.e.k = "VTRUE" -> luaK_codeABC(S, "LOADTRUE", reg, 0, 0)
      [] S.e.k = "VKSTR" -> LoadConst(S, reg, S.e.info)
      [] S.e.k = "VK" -> luaK_codek(S, reg, S.e.info)
      [] S.e.k = "VKFLT" -> luaK_float(S, reg, S.e.info)
      [] S.e.k = "VKINT" -> luaK_int(S, reg, S.e.info)
      [] S.e.k = "VRELOC" -> [S EXCEPT !.f.code[S.e.info + 1].a = reg]
      [] S.e.k = "VNONRELOC" -> IF reg # S.e.info THEN luaK_codeABC(S, "MOVE", reg, S.e.info, 0) ELSE S
      [] OTHER -> LuaAssert(S, S.e.k = "VJMP")
InRegister(S, reg) == [S EXCEPT !.e.k = "VNONRELOC", !.e.info = reg]
DischargedTo(S, reg) == IF S.e.k = "VJMP" THEN S ELSE InRegister(PutInReg(S, reg), reg)
discharge2reg(S, reg) == DischargedTo(luaK_dischargevars(S), reg)
Reserved1(S) == discharge2reg(S, S.f.freereg - 1)
discharge2anyreg(S) == IF S.e.k # "VNONRELOC" THEN Reserved1(luaK_reserveregs(S, 1)) ELSE S

code_loadbool(S, a, op) == luaK_codeABC(luaK_getlabel(S), op, a, 0, 0)

\* exp2reg step by step: the jump of a test joins the list of true exits, the
\* booleans are loaded where a jump brings none, the lists are patched.
JoinTest(S) ==
    IF S.e.k = "VJMP" THEN [luaK_concat(S, S.e.t, S.e.info) EXCEPT !.e.t = ConcatList(S.e.t, S.e.info)] ELSE S
LoadBools(S, reg) ==
    luaK_patchtohere(code_loadbool(code_loadbool(IF S.e.k = "VJMP" THEN S ELSE luaK_jump(S), reg, "LFALSESKIP"), reg, "LOADTRUE"),
                     IF S.e.k = "VJMP" THEN NoJump ELSE Pc(S))
PatchExits(S, reg, pf, pt) ==
    patchlistaux(patchlistaux(luaK_getlabel(S), S.e.f, Pc(S), reg, pf), S.e.t, Pc(S), reg, pt)
ValueNeeded(S) == \E list \in {S.e.t, S.e.f} : need_value(S, list)
PatchToBools(S, reg, needed) ==
    PatchExits(S, reg, IF needed THEN Pc(S) - 2 ELSE NoJump, IF needed THEN Pc(S) - 1 ELSE NoJump)
Resolved(S, reg, needed) == PatchToBools(IF needed THEN LoadBools(S, reg) ELSE S, reg, needed)
FinishExits(S, reg) == IF HasJumps(S.e) THEN Resolved(S, reg, ValueNeeded(S)) ELSE S
exp2reg(S, reg) == [FinishExits(JoinTest(discharge2reg(S, reg)), reg) EXCEPT !.e = Expr("VNONRELOC", reg)]

IntoNext(S) == exp2reg(S, S.f.freereg - 1)
DischargedToNext(S) == IntoNext(luaK_reserveregs(freeexp(S), 1))
luaK_exp2nextreg(S) == DischargedToNext(luaK_dischargevars(S))
\* A value with jumps stays in its register if that is no variable's.
InPlace(S) == S.e.k = "VNONRELOC" /\ HasJumps(S.e) /\ S.e.info >= luaY_nvarstack(S)
IntoPlace(S) == exp2reg(S, IF InPlace(S) THEN S.e.info ELSE S.f.freereg - 1)
DischargedToAny(S) ==
    IF S.e.k = "VNONRELOC" /\ ~HasJumps(S.e) THEN S
    ELSE IntoPlace(IF InPlace(S) THEN S ELSE luaK_reserveregs(freeexp(S), 1))
luaK_exp2anyreg(S) == DischargedToAny(luaK_dischargevars(S))
luaK_exp2anyregup(S) == IF S.e.k \notin {"VUPVAL", "VVARGVAR"} \/ HasJumps(S.e) THEN luaK_exp2anyreg(S) ELSE S
luaK_exp2val(S) == IF S.e.k = "VJMP" \/ HasJumps(S.e) THEN luaK_exp2anyreg(S) ELSE luaK_dischargevars(S)

\* luaK_exp2K succeeds where InK holds of its result.
InK(e) == e.k = "VK" /\ ~HasJumps(e) /\ e.info <= MaxArgC
ToK(S, v) ==
    IF KIndex(S, v) <= MaxArgC THEN [k2proto(S, v) EXCEPT !.e.k = "VK", !.e.info = KIndex(S, v)] ELSE k2proto(S, v)
luaK_exp2K(S) ==
    IF luaK_exp2const(S, S.e) # << >> /\ S.e.k # "VCONST" THEN ToK(S, luaK_exp2const(S, S.e)[1]) ELSE S
KOrAnyReg(S) == IF InK(S.e) THEN S ELSE luaK_exp2anyreg(S)
exp2RK(S) == KOrAnyReg(luaK_exp2K(S))

--------------------------------------------------------------------------
\* Assignment of S.e to the variable v.

CodeRK(S, op, a, b) == luaK_codeABCk(S, op, a, b, S.e.info, IF InK(S.e) THEN 1 ELSE 0)
codeABRK(S, op, a, b) == CodeRK(exp2RK(S), op, a, b)
SetUpval(S, u) == luaK_codeABC(S, "SETUPVAL", S.e.info, u, 0)
luaK_storevar(S, v) ==
    CASE v.k = "VLOCAL" -> exp2reg(freeexp(S), v.info)
      [] v.k = "VUPVAL" -> freeexp(SetUpval(luaK_exp2anyreg(S), v.info))
      [] OTHER ->
            freeexp(codeABRK(IF v.k = "VVARGIND" THEN needvatab(S) ELSE S,
                             CASE v.k = "VINDEXUP" -> "SETTABUP"
                               [] v.k = "VINDEXI" -> "SETI"
                               [] v.k = "VINDEXSTR" -> "SETFIELD"
                               [] v.k \in {"VINDEXED", "VVARGIND"} -> "SETTABLE", v.info, v.idx))

CheckNil(S, k) == freeexp(luaK_codeABx(S, "ERRNNIL", S.e.info, IF k >= MaxArgBx THEN 0 ELSE k + 1))
luaK_codecheckglobal(S, k) == CheckNil(luaK_exp2anyreg(S), k)

--------------------------------------------------------------------------
\* Conditions.

negatecondition(S) ==
    LET at == getjumpcontrol(S, S.e.info)
    IN [LuaAssert(S, Code(S, at).op \in TestOps \ {"TEST", "TESTSET"}) EXCEPT !.f.code[at + 1].k = 1 - @]

TestSet(S, cond) == condjump(freeexp(S), "TESTSET", NoReg, S.e.info, 0, cond)
\* The jump is the last instruction of the result.
jumponcond(S, cond) ==
    LET i == Code(S, S.e.info)
    IN IF S.e.k = "VRELOC" /\ i.op = "NOT"
       THEN condjump([S EXCEPT !.f.code = Front(@)], "TEST", i.b, 0, 0, 1 - cond)
       ELSE TestSet(discharge2anyreg(S), cond)

Truths == {"VK", "VKSTR", "VTRUE"} \cup Numerals0
Falsities == {"VNIL", "VFALSE"}
\* The jump pc joins the list of exits when false, or when true; the others go on.
ExitFalse(S, pc) ==
    [luaK_patchtohere(luaK_concat(S, S.e.f, pc), S.e.t) EXCEPT !.e.f = ConcatList(S.e.f, pc), !.e.t = NoJump]
ExitTrue(S, pc) ==
    [luaK_patchtohere(luaK_concat(S, S.e.t, pc), S.e.f) EXCEPT !.e.t = ConcatList(S.e.t, pc), !.e.f = NoJump]
GoIfTrue(S) ==
    CASE S.e.k = "VJMP" -> ExitFalse(negatecondition(S), S.e.info)
      [] S.e.k \in Truths -> ExitFalse(S, NoJump)
      [] OTHER -> LET J == jumponcond(S, 0) IN ExitFalse(J, Pc(J) - 1)
luaK_goiftrue(S) == GoIfTrue(luaK_dischargevars(S))
GoIfFalse(S) ==
    CASE S.e.k = "VJMP" -> ExitTrue(S, S.e.info)
      [] S.e.k \in Falsities -> ExitTrue(S, NoJump)
      [] OTHER -> LET J == jumponcond(S, 1) IN ExitTrue(J, Pc(J) - 1)
luaK_goiffalse(S) == GoIfFalse(luaK_dischargevars(S))

SwapExits(S) ==
    [removevalues(removevalues(S, S.e.t), S.e.f) EXCEPT !.e.t = S.e.f, !.e.f = S.e.t]
RelocNot(S) == Reloc(freeexp(S), "NOT", S.e.info, 0)
codenot(S) ==
    SwapExits(CASE S.e.k \in Falsities -> [S EXCEPT !.e.k = "VTRUE"]
                [] S.e.k \in Truths -> [S EXCEPT !.e.k = "VFALSE"]
                [] S.e.k = "VJMP" -> negatecondition(S)
                [] S.e.k \in {"VRELOC", "VNONRELOC"} -> RelocNot(discharge2anyreg(S))
                [] OTHER -> LuaAssert(S, FALSE))

--------------------------------------------------------------------------
\* Indexing.

Swap(S) == [S EXCEPT !.e = S.e2, !.e2 = S.e]

isKstr(S, e) == e.k = "VK" /\ ~HasJumps(e) /\ e.info <= MaxArgC /\ IsStr(S.f.k[e.info + 1])
isKint(e) == e.k = "VKINT" /\ ~HasJumps(e)
isCint(e) == isKint(e) /\ Unsigned(e.info[2]) <= MaxArgC
isSCint(e) == isKint(e) /\ fitsC(e.info[2])
\* The integer that an expression stands for as an immediate operand.
IntOf(e) == CASE e.k = "VKINT" -> e.info [] e.k = "VKFLT" -> FltToInteger(e.info, "eq") [] OTHER -> Nil
isSCnumber(e) == IntOf(e) # Nil /\ ~HasJumps(e) /\ fitsC(IntOf(e)[2])

\* S.e.name(S.e, where name is a string.
SelfByK(S, ereg, base) == freeexp(luaK_codeABC(S, "SELF", base, ereg, S.e.info))
SelfByReg(S, ereg, base) ==
    freeexp(luaK_codeABC(luaK_codeABC(S, "MOVE", base + 1, ereg, 0), "GETTABLE", base, ereg, S.e.info))
SelfKey(S, ereg, base) ==
    IF InK(S.e) THEN SelfByK(S, ereg, base) ELSE SelfByReg(luaK_exp2anyreg(S), ereg, base)
SelfBase(S, ereg, name) ==
    [SelfKey(luaK_exp2K([luaK_reserveregs(S, 2) EXCEPT !.e = Expr("VKSTR", name)]), ereg, S.f.freereg)
     EXCEPT !.e = Expr("VNONRELOC", S.f.freereg)]
SelfReceiver(S, name) == SelfBase(freeexp(S), S.e.info, name)
luaK_self(S, name) == SelfReceiver(luaK_exp2anyreg(S), name)

\* The table is S.e, the key S.e2; the result replaces S.e.
Indexed(S, k, t, idx) == [S EXCEPT !.e.k = k, !.e.info = t, !.e.idx = idx, !.e.ro = FALSE]
IndexedByReg(S, kind, t) == Indexed(Swap(S), kind, t, S.e.info)
KeyIsK(S) == [S EXCEPT !.e.keystr = IF S.e2.k = "VK" THEN S.e2.info ELSE -1]
IndexedKey(S) ==
    CASE S.e.k = "VUPVAL" -> Indexed(LuaAssert(S, isKstr(S, S.e2)), "VINDEXUP", S.e.info, S.e2.info)
      [] S.e.k = "VVARGVAR" ->
            IndexedByReg(luaK_exp2anyreg(Swap(LuaAssert(S, S.e.info = S.f.numparams))), "VVARGIND", S.e.info)
      [] S.e.k \notin {"VUPVAL", "VVARGVAR"} /\ isKstr(S, S.e2) -> Indexed(S, "VINDEXSTR", S.e.info, S.e2.info)
      [] S.e.k \notin {"VUPVAL", "VVARGVAR"} /\ isCint(S.e2) -> Indexed(S, "VINDEXI", S.e.info, Unsigned(S.e2.info[2]))
      [] OTHER -> IndexedByReg(luaK_exp2anyreg(Swap(S)), "VINDEXED", S.e.info)
IndexedTable(S) == IndexedKey(KeyIsK(IF S.e.k = "VUPVAL" /\ ~isKstr(S, S.e2) THEN luaK_exp2anyreg(S) ELSE S))
luaK_indexed(S) ==
    IndexedTable(IF S.e2.k = "VKSTR"
                 THEN Swap(str2K(Swap(LuaAssert(S, ~HasJumps(S.e)))))
                 ELSE LuaAssert(S, ~HasJumps(S.e) /\ S.e.k \in {"VLOCAL", "VVARGVAR", "VNONRELOC", "VUPVAL"}))

--------------------------------------------------------------------------
\* Operators.

ArithOf ==
    [o \in {"+", "-", "*", "%", "^", "/", "//", "&", "|", "~", "<<", ">>"} |->
        CASE o = "+" -> "add" [] o = "-" -> "sub" [] o = "*" -> "mul" [] o = "%" -> "mod" [] o = "^" -> "pow"
          [] o = "/" -> "div" [] o = "//" -> "idiv" [] o = "&" -> "band" [] o = "|" -> "bor" [] o = "~" -> "bxor"
          [] o = "<<" -> "shl" [] o = ">>" -> "shr"]
OpOf ==
    [o \in DOMAIN ArithOf |->
        CASE o = "+" -> "ADD" [] o = "-" -> "SUB" [] o = "*" -> "MUL" [] o = "%" -> "MOD" [] o = "^" -> "POW"
          [] o = "/" -> "DIV" [] o = "//" -> "IDIV" [] o = "&" -> "BAND" [] o = "|" -> "BOR" [] o = "~" -> "BXOR"
          [] o = "<<" -> "SHL" [] o = ">>" -> "SHR"]

validop(op, v, w) ==
    CASE op \in BitwiseOps -> LuaVToIntegerNs(v, "eq") # Nil /\ LuaVToIntegerNs(w, "eq") # Nil
      [] op \in {"div", "idiv", "mod"} -> w[2] # 0
      [] OTHER -> TRUE
\* constfolding: the value of the operation, or Nil where it must not be folded:
\* the operands are no numerals, it could fail, or it gives NaN or a float zero.
Foldable(r) == IF IsFlt(r) /\ r[2] = 0 THEN Nil ELSE r
constfolding(op, e1, e2) ==
    IF ~tonumeral(e1) \/ ~tonumeral(e2) \/ ~validop(op, e1.info, e2.info) THEN Nil
    ELSE Foldable(RawArith(op, e1.info, e2.info))
Fold(S, v) == [S EXCEPT !.e.k = IF IsInt(v) THEN "VKINT" ELSE "VKFLT", !.e.info = v]

CodeUnary(S, op) == Reloc(freeexp(S), op, S.e.info, 0)
codeunexpval(S, op) == CodeUnary(luaK_exp2anyreg(S), op)

\* S.e is in a register; v2 is the operand, the metamethod's event is told by mmop.
CodeBinary(S, op, v2, flip, mmop, event) ==
    luaK_codeABCk([freeexps(luaK_codeABC(S, op, 0, S.e.info, v2)) EXCEPT !.e.k = "VRELOC", !.e.info = Pc(S)],
                  mmop, S.e.info, v2, event, flip)
finishbinexpval(S, op, v2, flip, mmop, event) == CodeBinary(luaK_exp2anyreg(S), op, v2, flip, mmop, event)
BinaryRegs(S, opr) ==
    finishbinexpval(LuaAssert(S, S.e.k \in Truths \cup Falsities \cup {"VNONRELOC", "VRELOC"}),
                    OpOf[opr], S.e2.info, 0, "MMBIN", ArithOf[opr])
codebinexpval(S, opr) == BinaryRegs(Swap(luaK_exp2anyreg(Swap(S))), opr)
codebini(S, op, flip, event) == finishbinexpval(S, op, int2sC(S.e2.info[2]), flip, "MMBINI", event)
codebinK(S, opr, flip) == finishbinexpval(S, OpOf[opr] \o "K", S.e2.info, flip, "MMBINK", ArithOf[opr])

\* x - I is coded as x + -I and x << I as x >> -I where both fit.
CanNegate(e) == isSCint(e) /\ fitsC(Signed(-e.info[2]))
CorrectArg(S, i) == [S EXCEPT !.f.code[Pc(S)].b = int2sC(i)]
finishbinexpneg(S, op, event) ==
    CorrectArg(finishbinexpval(S, op, int2sC(-S.e2.info[2]), 0, "MMBINI", event), S.e2.info[2])

codebinNoK(S, opr, flip) == codebinexpval(IF flip = 1 THEN Swap(S) ELSE S, opr)
ByKOrRegs(S, opr, flip) == IF InK(S.e2) THEN codebinK(S, opr, flip) ELSE codebinNoK(S, opr, flip)
TryK(S) == Swap(luaK_exp2K(Swap(S)))
codearith(S, opr, flip) == ByKOrRegs(IF tonumeral(S.e2) THEN TryK(S) ELSE S, opr, flip)
ConstSecond(S, opr, flip) ==
    IF opr = "+" /\ isSCint(S.e2) THEN codebini(S, "ADDI", flip, "add") ELSE codearith(S, opr, flip)
SecondIf(S, isconst) == IF isconst THEN Swap(S) ELSE S
FlipIf(isconst) == IF isconst THEN 1 ELSE 0
codecommutative(S, opr) == ConstSecond(SecondIf(S, tonumeral(S.e)), opr, FlipIf(tonumeral(S.e)))
BitwiseSecond(S, opr, flip) == ByKOrRegs(IF S.e2.k = "VKINT" THEN TryK(S) ELSE S, opr, flip)
codebitwise(S, opr) == BitwiseSecond(SecondIf(S, S.e.k = "VKINT"), opr, FlipIf(S.e.k = "VKINT"))

\* A comparison of S.e with S.e2: r1 is a register, r2 a register, a constant or an
\* immediate; the result is a test with its jump.
Compare(S, op, r1, r2, isfloat, k) ==
    LET J == condjump(freeexps(S), op, r1, r2, isfloat, k)
    IN [J EXCEPT !.e.k = "VJMP", !.e.info = Pc(J) - 1]
\* The flag of a float operand is left set by a float that does not fit.
FloatFlag(es) == IF \E e \in es : e.k = "VKFLT" /\ IntOf(e) # Nil THEN 1 ELSE 0
Order(S, op, im, isfloat, k) == Compare(S, op, S.e.info, im, isfloat, k)
OrderFlipped(S, op, im, isfloat) == Compare(Swap(S), op, S.e.info, im, isfloat, 1)
BothInRegs(S, op, isfloat, k) == Compare(Swap(S), op, S.e2.info, S.e.info, isfloat, k)
codeorder(S, opr) ==
    CASE isSCnumber(S.e2) ->
            Order(luaK_exp2anyreg(S), IF opr = "<" THEN "LTI" ELSE "LEI", int2sC(IntOf(S.e2)[2]), FloatFlag({S.e2}), 1)
      [] ~isSCnumber(S.e2) /\ isSCnumber(S.e) ->
            OrderFlipped(luaK_exp2anyreg(Swap(S)), IF opr = "<" THEN "GTI" ELSE "GEI", int2sC(IntOf(S.e)[2]), FloatFlag({S.e, S.e2}))
      [] OTHER ->
            BothInRegs(luaK_exp2anyreg(Swap(luaK_exp2anyreg(S))), IF opr = "<" THEN "LT" ELSE "LE", FloatFlag({S.e, S.e2}), 1)

EqKOrReg(S, isfloat, k) ==
    IF InK(S.e) THEN BothInRegs(S, "EQK", isfloat, k) ELSE BothInRegs(luaK_exp2anyreg(S), "EQ", isfloat, k)
EqSecond(S, k) ==
    IF isSCnumber(S.e2) THEN Order(S, "EQI", int2sC(IntOf(S.e2)[2]), FloatFlag({S.e2}), k)
    ELSE EqKOrReg(exp2RK(Swap(S)), FloatFlag({S.e2}), k)
codeeq(S, opr) ==
    EqSecond(luaK_exp2anyreg(IF S.e.k # "VNONRELOC" THEN Swap(LuaAssert(S, S.e.k \in {"VK"} \cup Numerals0)) ELSE S),
             IF opr = "==" THEN 1 ELSE 0)

UnaryOf == [o \in {"-", "~", "#"} |-> CASE o = "-" -> "UNM" [] o = "~" -> "BNOT" [] o = "#" -> "LEN"]
FoldUnary(S, opr) ==
    IF opr = "#" THEN Nil ELSE constfolding(IF opr = "-" THEN "unm" ELSE "bnot", S.e, Expr("VKINT", Integer(0)))
FoldedOrUnary(S, opr, r) == IF r # Nil THEN Fold(S, r) ELSE codeunexpval(S, UnaryOf[opr])
Prefix(S, opr) == IF opr = "not" THEN codenot(S) ELSE FoldedOrUnary(S, opr, FoldUnary(S, opr))
luaK_prefix(S, opr) == Prefix(luaK_dischargevars(S), opr)

Infix(S, opr) ==
    CASE opr = "and" -> luaK_goiftrue(S)
      [] opr = "or" -> luaK_goiffalse(S)
      [] opr = ".." -> luaK_exp2nextreg(S)
      [] opr \in DOMAIN ArithOf -> IF tonumeral(S.e) THEN S ELSE luaK_exp2anyreg(S)
      [] opr \in {"==", "~="} -> IF tonumeral(S.e) THEN S ELSE exp2RK(S)
      [] opr \in {"<", "<=", ">", ">="} -> IF isSCnumber(S.e) THEN S ELSE luaK_exp2anyreg(S)
luaK_infix(S, opr) == Infix(luaK_dischargevars(S), opr)

\* a .. (b .. c) becomes one instruction; S.e is the second operand, e1 in the
\* register below.
ConcatCode(S, e1) ==
    LET p == previousinstruction(S)
    IN IF p.op = "CONCAT"
       THEN SetCode(freeexp(LuaAssert(S, e1.info + 1 = p.a)), Pc(S) - 1, [p EXCEPT !.a = e1.info, !.b = @ + 1])
       ELSE freeexp(luaK_codeABC(S, "CONCAT", e1.info, 2, 0))
codeconcat(S, e1) == [ConcatCode(S, e1) EXCEPT !.e = e1]

Postfix(S, opr) ==
    CASE opr = "and" ->
            [luaK_concat(LuaAssert(S, S.e.t = NoJump), S.e2.f, S.e.f) EXCEPT !.e = [S.e2 EXCEPT !.f = ConcatList(@, S.e.f)]]
      [] opr = "or" ->
            [luaK_concat(LuaAssert(S, S.e.f = NoJump), S.e2.t, S.e.t) EXCEPT !.e = [S.e2 EXCEPT !.t = ConcatList(@, S.e.t)]]
      [] opr = ".." -> codeconcat(luaK_exp2nextreg(Swap(S)), S.e)
      [] opr \in {"+", "*"} -> codecommutative(S, opr)
      [] opr = "-" /\ CanNegate(S.e2) -> finishbinexpneg(S, "ADDI", "sub")
      [] (opr = "-" /\ ~CanNegate(S.e2)) \/ opr \in {"/", "//", "%", "^"} -> codearith(S, opr, 0)
      [] opr \in {"&", "|", "~"} -> codebitwise(S, opr)
      [] opr = "<<" /\ isSCint(S.e) -> codebini(Swap(S), "SHLI", 1, "shl")
      [] opr = "<<" /\ ~isSCint(S.e) /\ CanNegate(S.e2) -> finishbinexpneg(S, "SHRI", "shl")
      [] opr = ">>" /\ isSCint(S.e2) -> codebini(S, "SHRI", 0, "shr")
      [] (opr = "<<" /\ ~isSCint(S.e) /\ ~CanNegate(S.e2)) \/ (opr = ">>" /\ ~isSCint(S.e2)) -> codebinexpval(S, opr)
      [] opr \in {"==", "~="} -> codeeq(S, opr)
      [] opr \in {"<", "<=", ">", ">="} ->
            codeorder(IF opr \in {">", ">="} THEN Swap(S) ELSE S, IF opr \in {">", "<"} THEN "<" ELSE "<=")
FoldedOrCode(S, opr, r) == IF r # Nil THEN Fold(S, r) ELSE Postfix(S, opr)
FoldOrCode(S, opr) == FoldedOrCode(S, opr, IF opr \in DOMAIN ArithOf THEN constfolding(ArithOf[opr], S.e, S.e2) ELSE Nil)
luaK_posfix(S, opr) == FoldOrCode(Swap(luaK_dischargevars(Swap(S))), opr)

--------------------------------------------------------------------------
\* Tables, and the last pass over a function.

CeilLog2(n) == CHOOSE i \in 0 .. n : 2 ^ i >= n /\ (i = 0 \/ 2 ^ (i - 1) < n)
luaK_settablesize(S, pc, ra, asize, hsize) ==
    LET extra == asize \div (MaxArgVC + 1)
    IN SetCode(SetCode(S, pc, Instr("NEWTABLE", ra, IF hsize # 0 THEN CeilLog2(hsize) + 1 ELSE 0, asize % (MaxArgVC + 1),
                                    IF extra > 0 THEN 1 ELSE 0)),
               pc + 1, Instr("EXTRAARG", 0, extra, 0, 0))
luaK_setlist(S, base, nelems, tostore) ==
    LET n == IF tostore = MultRet THEN 0 ELSE tostore
        C == LuaAssert(S, tostore # 0)
    IN [IF nelems <= MaxArgVC THEN luaK_codevABCk(C, "SETLIST", base, n, nelems, 0)
        ELSE codeextraarg(luaK_codevABCk(C, "SETLIST", base, n, nelems % (MaxArgVC + 1), 1), nelems \div (MaxArgVC + 1))
        EXCEPT !.f.freereg = base + 1]

RECURSIVE finaltarget(_, _, _)
finaltarget(code, i, count) ==
    IF count = 100 \/ code[i + 1].op # "JMP" THEN i ELSE finaltarget(code, i + code[i + 1].b + 1, count + 1)
FinishReturn(S, i) ==
    [i EXCEPT !.op = IF @ = "TAILCALL" THEN @ ELSE "RETURN", !.k = IF S.f.needclose THEN 1 ELSE @,
              !.c = IF "VAHID" \in S.f.flags THEN S.f.numparams + 1 ELSE @]
FinishInstr(S, i, pc) ==
    CASE i.op \in {"RETURN0", "RETURN1"} /\ ~S.f.needclose /\ "VAHID" \notin S.f.flags -> i
      [] (i.op \in {"RETURN0", "RETURN1"} /\ (S.f.needclose \/ "VAHID" \in S.f.flags)) \/ i.op \in {"RETURN", "TAILCALL"} ->
            FinishReturn(S, i)
      [] i.op = "GETVARG" /\ "VATAB" \in S.f.flags -> [i EXCEPT !.op = "GETTABLE"]
      [] i.op = "VARARG" /\ "VATAB" \in S.f.flags -> [i EXCEPT !.k = 1]
      [] i.op = "JMP" -> [i EXCEPT !.b = finaltarget(S.f.code, pc, 0) - (pc + 1)]
      [] OTHER -> i
Finish(S) ==
    [LuaAssert(S, \A pc \in 2 .. Pc(S) : luaP_isOT(S.f.code[pc - 1]) = luaP_isIT(S.f.code[pc])) EXCEPT
     !.f.code = [pc \in DOMAIN @ |-> FinishInstr(S, @[pc], pc - 1)]]
luaK_finish(S) == Finish(IF "VATAB" \in S.f.flags THEN [S EXCEPT !.f.flags = @ \ {"VAHID"}] ELSE S)

=============================================================================
