------------------------------ MODULE LuaInstr -----------------------------
(***************************************************************************)
(* What the code generator of the Lua compiler, lcode.c, is built from:    *)
(* expressions, instructions and their operands, lists of jumps, registers *)
(* and constants.  S is the state of a compilation: the function being     *)
(* compiled is S.f, the expression in hand S.e, a second operand S.e2.     *)
(*                                                                         *)
(* An instruction is a record of its operands; b stands for Bx, sBx, sJ    *)
(* and Ax too.  Operands in excess notation (sB, sC) are kept in it.       *)
(* lua_assert(p) is LuaAssert(S, p), which falsifies S.ok.  Line numbers   *)
(* and the limit of jump offsets are left out, and all strings are short.  *)
(***************************************************************************)
EXTENDS LuaValues, SequencesExt

CONSTANTS
    MaxArgC,    \* the greatest operand A, B or C and register, 255 in the code
    MaxArgBx,   \* 2^17 - 1 in the code
    MaxArgVB,   \* 63 in the code
    MaxArgVC    \* 1023 in the code

OffsetC == MaxArgC \div 2
OffsetBx == MaxArgBx \div 2
MaxFStack == MaxArgC
NoReg == MaxFStack
NoJump == -1
MultRet == -1

\* expdesc: info holds the register, the pc, the index or the constant, idx the
\* key of an indexed variable or the index of a local one.
Expr(k, info) == [k |-> k, info |-> info, idx |-> 0, ro |-> FALSE, keystr |-> -1, t |-> NoJump, f |-> NoJump]
HasJumps(e) == e.t # e.f

LuaAssert(S, p) == IF S.err = "" /\ ~p THEN [S EXCEPT !.ok = FALSE] ELSE S

\* luaX_syntaxerror and its like: the first error ends the compilation.
Fail(S, what) == IF S.err = "" THEN [S EXCEPT !.err = what, !.pos = Len(S.toks), !.e = Expr("VVOID", 0)] ELSE S
luaY_checklimit(S, v, l, what) == IF v > l THEN Fail(S, "too many " \o what) ELSE S

\* Variables that live in registers, by kind.
InReg(kind) == kind \in {"REG", "CONST", "VAVAR", "TOCLOSE"}
getlocalvardesc(S, vidx) == S.actvar[S.f.firstlocal + vidx + 1]
RECURSIVE reglevel(_, _)
reglevel(S, nvar) ==
    IF nvar = 0 THEN 0
    ELSE IF InReg(getlocalvardesc(S, nvar - 1).kind) THEN getlocalvardesc(S, nvar - 1).ridx + 1
    ELSE reglevel(S, nvar - 1)
luaY_nvarstack(S) == reglevel(S, S.f.nactvar)

--------------------------------------------------------------------------
\* Constants among expressions.

Numerals0 == {"VKINT", "VKFLT"}
tonumeral(e) == ~HasJumps(e) /\ e.k \in Numerals0
const2exp(v) ==
    CASE IsInt(v) -> Expr("VKINT", v)
      [] IsFlt(v) -> Expr("VKFLT", v)
      [] IsStr(v) -> Expr("VKSTR", v)
      [] v = Nil -> Expr("VNIL", v)
      [] v = Bool(TRUE) -> Expr("VTRUE", v)
      [] OTHER -> Expr("VFALSE", v)
\* <<v>> for a constant expression, << >> for another.
luaK_exp2const(S, e) ==
    IF HasJumps(e) THEN << >>
    ELSE CASE e.k = "VNIL" -> <<Nil>>
           [] e.k = "VTRUE" -> <<Bool(TRUE)>>
           [] e.k = "VFALSE" -> <<Bool(FALSE)>>
           [] e.k = "VCONST" -> <<S.actvar[e.info + 1].val>>
           [] e.k \in {"VKSTR"} \cup Numerals0 -> <<e.info>>
           [] OTHER -> << >>

--------------------------------------------------------------------------
\* Instructions.

Instr(op, a, b, c, k) == [op |-> op, a |-> a, b |-> b, c |-> c, k |-> k]
Pc(S) == Len(S.f.code)
Code(S, pc) == S.f.code[pc + 1]
SetCode(S, pc, i) == [S EXCEPT !.f.code[pc + 1] = i]

luaK_code(S, i) == [S EXCEPT !.f.code = Append(@, i)]
luaK_codeABCk(S, op, a, b, c, k) ==
    luaK_code(LuaAssert(S, a <= MaxArgC /\ b <= MaxArgC /\ (op \in {"MMBIN", "MMBINI", "MMBINK"} \/ c <= MaxArgC)), Instr(op, a, b, c, k))
luaK_codevABCk(S, op, a, b, c, k) ==
    luaK_code(LuaAssert(S, a <= MaxArgC /\ b <= MaxArgVB /\ c <= MaxArgVC), Instr(op, a, b, c, k))
luaK_codeABC(S, op, a, b, c) == luaK_codeABCk(S, op, a, b, c, 0)
luaK_codeABx(S, op, a, bx) == luaK_code(LuaAssert(S, a <= MaxArgC /\ bx <= MaxArgBx), Instr(op, a, bx, 0, 0))
codeAsBx(S, op, a, bx) == luaK_codeABx(LuaAssert(S, bx + OffsetBx <= MaxArgBx), op, a, bx)
codeextraarg(S, ax) == luaK_code(S, Instr("EXTRAARG", 0, ax, 0, 0))
luaK_codek(S, reg, k) ==
    IF k <= MaxArgBx THEN luaK_codeABx(S, "LOADK", reg, k)
    ELSE codeextraarg(luaK_codeABx(S, "LOADKX", reg, 0), k)

TestOps == {"EQ", "LT", "LE", "EQK", "EQI", "LTI", "LEI", "GTI", "GEI", "TEST", "TESTSET"}
\* luaP_isOT and luaP_isIT: an instruction leaves, or takes, an open list of
\* values up to the top of the stack.
luaP_isOT(i) == i.op = "TAILCALL" \/ (i.op \in {"CALL", "VARARG"} /\ i.c = 0)
luaP_isIT(i) == i.op \in {"CALL", "TAILCALL", "RETURN", "SETLIST"} /\ i.b = 0

\* The previous instruction, unless a jump may lead behind it.
Invalid == Instr("none", 0, 0, 0, 0)
previousinstruction(S) == IF Pc(S) > S.f.lasttarget THEN Code(S, Pc(S) - 1) ELSE Invalid

\* from .. l are set to nil; p is the previous instruction.
NilUpTo(S, p, from, l) ==
    LET a == Min({p.a, from})
    IN IF p.op = "LOADNIL" /\ ((p.a <= from /\ from <= p.a + p.b + 1) \/ (from <= p.a /\ p.a <= l + 1))
       THEN SetCode(S, Pc(S) - 1, [p EXCEPT !.a = a, !.b = Max({p.a + p.b, l}) - a])
       ELSE luaK_codeABC(S, "LOADNIL", from, l - from, 0)
luaK_nil(S, from, n) == NilUpTo(S, previousinstruction(S), from, from + n - 1)

--------------------------------------------------------------------------
\* Jumps.  Those of a list are linked by their offsets.

luaK_getlabel(S) == [S EXCEPT !.f.lasttarget = Pc(S)]
luaK_jump(S) == luaK_code(S, Instr("JMP", 0, NoJump, 0, 0))
condjump(S, op, a, b, c, k) == luaK_jump(luaK_codeABCk(S, op, a, b, c, k))

getjump(S, pc) == IF Code(S, pc).b = NoJump THEN NoJump ELSE pc + 1 + Code(S, pc).b
fixjump(S, pc, dest) ==
    [LuaAssert(S, dest # NoJump /\ Code(S, pc).op = "JMP") EXCEPT !.f.code[pc + 1].b = dest - (pc + 1)]

RECURSIVE JumpList(_, _)
JumpList(S, list) == IF list = NoJump THEN << >> ELSE <<list>> \o JumpList(S, getjump(S, list))

\* The list that luaK_concat makes of l1, and the code with its link.
ConcatList(l1, l2) == IF l1 = NoJump THEN l2 ELSE l1
luaK_concat(S, l1, l2) ==
    IF l1 = NoJump \/ l2 = NoJump THEN S ELSE fixjump(S, Last(JumpList(S, l1)), l2)

getjumpcontrol(S, pc) == IF pc >= 1 /\ Code(S, pc - 1).op \in TestOps THEN pc - 1 ELSE pc
IsTestSet(S, node) == Code(S, getjumpcontrol(S, node)).op = "TESTSET"
patchtestreg(S, node, reg) ==
    LET at == getjumpcontrol(S, node)
        i == Code(S, at)
    IN IF i.op # "TESTSET" THEN S
       ELSE SetCode(S, at, IF reg # NoReg /\ reg # i.b THEN [i EXCEPT !.a = reg] ELSE Instr("TEST", i.b, 0, 0, i.k))
RECURSIVE removevalues(_, _)
removevalues(S, list) ==
    IF list = NoJump THEN S ELSE removevalues(patchtestreg(S, list, NoReg), getjump(S, list))
PatchNode(S, node, vtarget, reg, dtarget) ==
    fixjump(patchtestreg(S, node, reg), node, IF IsTestSet(S, node) THEN vtarget ELSE dtarget)
RECURSIVE patchlistaux(_, _, _, _, _)
patchlistaux(S, list, vtarget, reg, dtarget) ==
    IF list = NoJump THEN S
    ELSE patchlistaux(PatchNode(S, list, vtarget, reg, dtarget), getjump(S, list), vtarget, reg, dtarget)
luaK_patchlist(S, list, target) == patchlistaux(LuaAssert(S, target <= Pc(S)), list, target, NoReg, target)
luaK_patchtohere(S, list) == luaK_patchlist(luaK_getlabel(S), list, Pc(S))
need_value(S, list) == \E i \in DOMAIN JumpList(S, list) : ~IsTestSet(S, JumpList(S, list)[i])

luaK_ret(S, first, nret) ==
    luaK_codeABC(luaY_checklimit(S, nret + 1, MaxArgC, "returns"),
                 CASE nret = 0 -> "RETURN0" [] nret = 1 -> "RETURN1" [] OTHER -> "RETURN", first, nret + 1, 0)

--------------------------------------------------------------------------
\* Registers.

luaK_checkstack(S, n) ==
    LET new == S.f.freereg + n
    IN IF new > S.f.maxstack
       THEN [luaY_checklimit(S, new, MaxFStack, "registers") EXCEPT !.f.maxstack = new]
       ELSE S
luaK_reserveregs(S, n) == [luaK_checkstack(S, n) EXCEPT !.f.freereg = @ + n]
freereg(S, reg) ==
    IF reg >= luaY_nvarstack(S) THEN LuaAssert([S EXCEPT !.f.freereg = @ - 1], reg = S.f.freereg - 1) ELSE S
freeregs(S, r1, r2) == freereg(freereg(S, Max({r1, r2})), Min({r1, r2}))
RegOf(e) == IF e.k = "VNONRELOC" THEN e.info ELSE -1
freeexp(S) == IF S.e.k = "VNONRELOC" THEN freereg(S, S.e.info) ELSE S
freeexps(S) == freeregs(S, RegOf(S.e), RegOf(S.e2))

--------------------------------------------------------------------------
\* Constants.

\* k2proto and addk: the index of v, which is added if it is not there yet.
KIndex(S, v) ==
    IF \E i \in DOMAIN S.f.k : S.f.k[i] = v THEN (CHOOSE i \in DOMAIN S.f.k : S.f.k[i] = v) - 1 ELSE Len(S.f.k)
k2proto(S, v) == IF KIndex(S, v) < Len(S.f.k) THEN S ELSE [S EXCEPT !.f.k = Append(@, v)]

int2sC(i) == i + OffsetC
fitsC(i) == Unsigned(i + OffsetC) <= MaxArgC
fitsBx(i) == -OffsetBx <= i /\ i <= MaxArgBx - OffsetBx
LoadConst(S, reg, v) == luaK_codek(k2proto(S, v), reg, KIndex(S, v))
luaK_int(S, reg, v) == IF fitsBx(v[2]) THEN codeAsBx(S, "LOADI", reg, v[2]) ELSE LoadConst(S, reg, v)
LoadF(S, reg, v, i) == IF i # Nil /\ fitsBx(i[2]) THEN codeAsBx(S, "LOADF", reg, i[2]) ELSE LoadConst(S, reg, v)
luaK_float(S, reg, v) == LoadF(S, reg, v, FltToInteger(v, "eq"))
str2K(S) == [k2proto(S, S.e.info) EXCEPT !.e.k = "VK", !.e.info = KIndex(S, S.e.info)]

=============================================================================
