------------------------------ MODULE LuaScope -----------------------------
(***************************************************************************)
(* Variables, blocks, labels and gotos in the parser of the Lua compiler,  *)
(* lparser.c, with the names of the source (LUA_COMPAT_GLOBAL set, as in   *)
(* luaconf.h).  S.f is ls->fs, S.outer the functions around it, the        *)
(* innermost last; S.actvar keeps the descriptions past S.nact, which      *)
(* solvegotos still reads.  A program is a sequence of tokens              *)
(* <<type, value>>, the last of which is <<"<eof>", "">>.                  *)
(***************************************************************************)
EXTENDS LuaCode

CONSTANT MaxVars    \* 200 in the code

NewFunc(S) ==
    [code |-> << >>, k |-> << >>, p |-> << >>, ups |-> << >>, bl |-> << >>, lasttarget |-> 0, freereg |-> 0, nactvar |-> 0,
     maxstack |-> 2, numparams |-> 0, flags |-> {}, needclose |-> FALSE, firstlocal |-> S.nact, firstlabel |-> Len(S.label)]

Void == Expr("VVOID", 0)
Tok(S) == S.toks[S.pos][1]
TokValue(S) == S.toks[S.pos][2]
luaX_next(S) == IF S.pos < Len(S.toks) THEN [S EXCEPT !.pos = @ + 1] ELSE S
luaX_lookahead(S) == Tok(luaX_next(S))
checknext(S, c) == IF Tok(S) = c THEN luaX_next(S) ELSE Fail(S, c \o " expected")
SkipIf(S, c) == IF Tok(S) = c THEN luaX_next(S) ELSE S
SkipName(S) == checknext(S, "<name>")
hasmultret(k) == k \in {"VCALL", "VVARARG"}
vkisindexed(k) == k \in {"VINDEXED", "VVARGIND", "VINDEXUP", "VINDEXI", "VINDEXSTR"}
vkisvar(k) == vkisindexed(k) \/ k \in {"VLOCAL", "VVARGVAR", "VGLOBAL", "VUPVAL", "VCONST"}
isvararg(f) == f.flags # {}

--------------------------------------------------------------------------
\* Variables.

new_varkind(S, name, kind) ==
    [S EXCEPT !.actvar = Append(SubSeq(@, 1, S.nact), [name |-> name, kind |-> kind, ridx |-> 0, val |-> Nil])
                         \o SubSeq(@, S.nact + 2, Len(@)),
              !.nact = @ + 1]
new_localvar(S, name) == new_varkind(S, name, "REG")
adjustlocalvars(S, nvars) ==
    LET reg == luaY_nvarstack(S)
        first == S.f.firstlocal + S.f.nactvar + 1
    IN [luaY_checklimit(S, reg + nvars, MaxVars, "local variables") EXCEPT
        !.actvar = [i \in DOMAIN @ |-> IF i \in first .. (first + nvars - 1) THEN [@[i] EXCEPT !.ridx = reg + i - first] ELSE @[i]],
        !.f.nactvar = @ + nvars]
removevars(S, tolevel) == [S EXCEPT !.nact = @ - (S.f.nactvar - tolevel), !.f.nactvar = tolevel]

varglobal(vd) == vd.kind \in {"GREG", "GCONST"}
VarsNamed(S, n) == {i \in 0 .. S.f.nactvar - 1 : getlocalvardesc(S, i).name = n}
VarExp(S, i) ==
    LET vd == getlocalvardesc(S, i)
    IN CASE varglobal(vd) -> Expr("VGLOBAL", S.f.firstlocal + i)
         [] vd.kind = "CTC" -> Expr("VCONST", S.f.firstlocal + i)
         [] InReg(vd.kind) -> [Expr(IF vd.kind = "VAVAR" THEN "VVARGVAR" ELSE "VLOCAL", vd.ridx) EXCEPT !.idx = i]
\* What searchvar notes in var->u.info of the declarations global *, whose name
\* is "", and global name in a function that does not declare the variable.
NoteGlobals(S) ==
    IF S.e.info < 0 /\ VarsNamed(S, "") # {} THEN [S EXCEPT !.e.info = S.f.firstlocal + Max(VarsNamed(S, ""))]
    ELSE IF S.e.info = -1 /\ \E i \in 0 .. S.f.nactvar - 1 : varglobal(getlocalvardesc(S, i)) THEN [S EXCEPT !.e.info = -2]
    ELSE S
searchvar(S, n) == IF VarsNamed(S, n) = {} THEN NoteGlobals(S) ELSE [S EXCEPT !.e = VarExp(S, Max(VarsNamed(S, n)))]
searchupvalue(f, n) == SelectInSeq(f.ups, LAMBDA u : u.name = n) - 1

newupvalue(S, prev, name) ==
    LET instack == S.e.k = "VLOCAL"
        kind == IF instack THEN S.actvar[prev.firstlocal + S.e.idx + 1].kind ELSE prev.ups[S.e.info + 1].kind
    IN [luaY_checklimit(S, Len(S.f.ups) + 1, MaxArgC, "upvalues") EXCEPT
        !.f.ups = Append(@, [name |-> name, instack |-> instack, idx |-> S.e.info, kind |-> kind]),
        !.e = Expr("VUPVAL", Len(S.f.ups))]
markupval(S, level) ==
    [S EXCEPT !.f.bl[Max({i \in DOMAIN S.f.bl : S.f.bl[i].nactvar <= level})].upval = TRUE, !.f.needclose = TRUE]
marktobeclosed(S) ==
    [S EXCEPT !.f.bl[Len(S.f.bl)] = [@ EXCEPT !.upval = TRUE, !.insidetbc = TRUE], !.f.needclose = TRUE]
\* The variable of an outer function becomes an upvalue of an inner one.
MarkUsed(S) == IF S.e.k = "VLOCAL" THEN markupval(S, S.e.idx) ELSE S
UsedFromInside(S) == MarkUsed(IF S.e.k = "VVARGVAR" THEN luaK_vapar2local(S) ELSE S)

BackIn(U, f) == [U EXCEPT !.f = f, !.outer = Append(@, U.f)]
NewIfVar(S, n) == IF S.e.k \in {"VLOCAL", "VUPVAL"} THEN newupvalue(S, Last(S.outer), n) ELSE S
RECURSIVE singlevaraux(_, _, _)
SearchOutside(S, n) ==
    CASE searchupvalue(S.f, n) >= 0 -> [S EXCEPT !.e = Expr("VUPVAL", searchupvalue(S.f, n))]
      [] searchupvalue(S.f, n) < 0 /\ S.outer = << >> -> S
      [] OTHER -> NewIfVar(BackIn(singlevaraux([S EXCEPT !.f = Last(S.outer), !.outer = Front(@)], n, FALSE), S.f), n)
singlevaraux(S, n, base) ==
    IF VarsNamed(S, n) = {} THEN SearchOutside(searchvar(S, n), n)
    ELSE IF base THEN searchvar(S, n) ELSE UsedFromInside(searchvar(S, n))

UnknownVar(S) == [S EXCEPT !.e = Expr("VGLOBAL", -1)]
Key(s) == Expr("VKSTR", Str(s))
FieldOf(S, name) == luaK_indexed([S EXCEPT !.e2 = Key(name)])
EnvField(S, name) ==
    IF S.e.k = "VGLOBAL" THEN Fail(S, "_ENV is global when accessing variable " \o name) ELSE FieldOf(luaK_exp2anyregup(S), name)
buildglobal(S, name) == EnvField(singlevaraux(UnknownVar(S), "_ENV", TRUE), name)
MarkReadOnly(S, info) ==
    IF info # -1 /\ S.actvar[info + 1].kind = "GCONST" THEN [S EXCEPT !.e.ro = TRUE]
    ELSE LuaAssert(S, info = -1 \/ S.actvar[info + 1].kind = "GREG")
GlobalVar(S, name, info) ==
    IF info = -2 THEN Fail(S, "variable not declared: " \o name) ELSE MarkReadOnly(buildglobal(S, name), info)
Resolve(S, name) == IF S.e.k = "VGLOBAL" THEN GlobalVar(S, name, S.e.info) ELSE S
buildvar(S, name) == Resolve(singlevaraux(UnknownVar(S), name, TRUE), name)
singlevar(S) == buildvar(SkipName(S), TokValue(S))

ReadOnly(S) ==
    CASE S.e.k = "VCONST" -> TRUE
      [] S.e.k \in {"VLOCAL", "VVARGVAR"} -> getlocalvardesc(S, S.e.idx).kind # "REG"
      [] S.e.k = "VUPVAL" -> S.f.ups[S.e.info + 1].kind # "REG"
      [] OTHER -> S.e.ro
MayBeReadOnly == {"VCONST", "VLOCAL", "VVARGVAR", "VUPVAL", "VVARGIND", "VINDEXUP", "VINDEXSTR", "VINDEXED"}
check_readonly(S) ==
    IF S.e.k \notin MayBeReadOnly THEN LuaAssert(S, S.e.k = "VINDEXI")
    ELSE IF ReadOnly(S) THEN Fail(S, "attempt to assign to const variable")
    ELSE IF S.e.k = "VVARGIND" THEN [needvatab(S) EXCEPT !.e.k = "VINDEXED"] ELSE S

\* The nexps expressions, the last in S.e, are adjusted to nvars values.
OnTop(S) == IF S.e.k = "VVOID" THEN S ELSE luaK_exp2nextreg(S)
FillNil(S, needed) == IF needed > 0 THEN luaK_nil(S, S.f.freereg, needed) ELSE S
Adjusted(S, needed) ==
    IF hasmultret(S.e.k) THEN luaK_setreturns(S, Max({needed + 1, 0})) ELSE FillNil(OnTop(S), needed)
GetValues(S, needed) == IF needed > 0 THEN luaK_reserveregs(S, needed) ELSE [S EXCEPT !.f.freereg = @ + needed]
adjust_assign(S, nvars, nexps) == GetValues(Adjusted(luaK_checkstack(S, nvars - nexps), nvars - nexps), nvars - nexps)

--------------------------------------------------------------------------
\* Blocks, labels and gotos.

enterblock(S, isloop) ==
    [LuaAssert(S, S.f.freereg = luaY_nvarstack(S)) EXCEPT
     !.f.bl = Append(@, [nactvar |-> S.f.nactvar, firstlabel |-> Len(S.label), firstgoto |-> Len(S.gt), upval |-> FALSE,
                         isloop |-> isloop, insidetbc |-> @ # << >> /\ Last(@).insidetbc])]

Entry(S, name, pc) == [name |-> name, pc |-> pc, nactvar |-> S.f.nactvar, close |-> FALSE]
\* The CLOSE behind the jump is dead; closegoto puts it before the jump if the
\* jump needs it.
newgotoentry(S, name) ==
    [luaK_codeABC(luaK_jump(S), "CLOSE", 0, 1, 0) EXCEPT !.gt = Append(@, Entry(S, name, Pc(S)))]
createlabel(S, name, last) ==
    [luaK_getlabel(S) EXCEPT
     !.label = Append(@, [Entry(S, name, Pc(S)) EXCEPT !.nactvar = IF last THEN Last(S.f.bl).nactvar ELSE @])]

CloseFirst(S, pc, level) == SetCode(SetCode(S, pc + 1, Code(S, pc)), pc, Instr("CLOSE", level, 0, 0, 0))
closegoto(S, gt, label, bup) ==
    IF gt.nactvar < label.nactvar THEN Fail(S, "goto " \o gt.name \o " jumps into the scope of a variable")
    ELSE IF gt.close \/ (label.nactvar < gt.nactvar /\ bup)
    THEN luaK_patchlist(CloseFirst(S, gt.pc, reglevel(S, label.nactvar)), gt.pc + 1, label.pc)
    ELSE luaK_patchlist(S, gt.pc, label.pc)
\* Index 0 where there is no such label.
findlabel(S, name, first) ==
    LET at == {i \in (first + 1) .. Len(S.label) : S.label[i].name = name} IN IF at = {} THEN 0 ELSE Min(at)
\* A goto meets its label, or is left to the outer block.
SolveGoto(S, gt, bl) ==
    LET l == findlabel(S, gt.name, bl.firstlabel)
        close == gt.close \/ (bl.upval /\ reglevel(S, gt.nactvar) > reglevel(S, bl.nactvar))
    IN IF l # 0 THEN closegoto(S, gt, S.label[l], bl.upval)
       ELSE [S EXCEPT !.gt = Append(@, [gt EXCEPT !.close = close, !.nactvar = bl.nactvar])]
solvegotos(S, bl) ==
    [FoldLeft(LAMBDA T, gt : SolveGoto(T, gt, bl), [S EXCEPT !.gt = SubSeq(@, 1, bl.firstgoto)],
              SubSeq(S.gt, bl.firstgoto + 1, Len(S.gt)))
     EXCEPT !.label = SubSeq(@, 1, bl.firstlabel)]

CloseBlock(S, bl) == IF Len(S.f.bl) > 1 /\ bl.upval THEN luaK_codeABC(S, "CLOSE", reglevel(S, bl.nactvar), 0, 0) ELSE S
LeaveScope(S, bl) == removevars([S EXCEPT !.f.freereg = reglevel(S, bl.nactvar)], bl.nactvar)
UndefGoto(S, bl) ==
    IF Len(S.f.bl) = 1 /\ Len(S.gt) > bl.firstgoto
    THEN Fail(LuaAssert(S, S.gt[bl.firstgoto + 1].name # "break"), "no visible label for goto") ELSE S
leaveblock(S) ==
    LET bl == Last(S.f.bl)
        T == LeaveScope(CloseBlock(S, bl), bl)
        B == IF bl.isloop = 2 THEN createlabel(T, "break", FALSE) ELSE T
    IN [UndefGoto(solvegotos(B, bl), bl) EXCEPT !.f.bl = Front(@)]

open_func(S) == enterblock([S EXCEPT !.f = NewFunc(S), !.outer = Append(@, S.f)], 0)
close_func(S) == luaK_finish(leaveblock(luaK_ret(S, luaY_nvarstack(S), 0)))

=============================================================================
