------------------------------ MODULE LuaParser -----------------------------
(***************************************************************************)
(* The grammar rules in the parser of the Lua compiler, lparser.c.         *)
(*                                                                         *)
(* A rule takes the state of the compilation to the state behind it, with  *)
(* the expression it has read in S.e.  The rules call each other through   *)
(* the one recursive operator Parse.  Debug information and the limit on C *)
(* levels are left out.                                                    *)
(***************************************************************************)
EXTENDS LuaScope

--------------------------------------------------------------------------
\* Expressions.

RECURSIVE Parse(_, _, _)
expr(S) == Parse("subexpr", S, 0)
statement(S) == Parse("statement", S, 0)
statlist(S) == Parse("statlist", S, 0)
body(S, ismethod) == Parse("body", S, ismethod)
suffixedexp(S) == Parse("suffixedexp", S, 0)
constructor(S) == Parse("constructor", S, 0)

\* The number of expressions is left in S.n.
moreexps(S, n) ==
    IF Tok(S) = "," THEN Parse("moreexps", expr(luaK_exp2nextreg(luaX_next(S))), n + 1) ELSE [S EXCEPT !.n = n]
explist(S) == Parse("moreexps", expr(S), 1)
MultRetOrOne(S) == IF hasmultret(S.e.k) THEN luaK_setreturns(S, MultRet) ELSE S

FieldNamed(S) == FieldOf(SkipName(S), TokValue(S))
fieldsel(S) == FieldNamed(luaX_next(luaK_exp2anyregup(S)))
yindex(S) == checknext(luaK_exp2val(expr(luaX_next(S))), "]")
IndexBy(S, t) == luaK_indexed([S EXCEPT !.e = t, !.e2 = S.e])
IndexIn(S) == IndexBy(yindex(S), S.e)

Args(S) ==
    CASE Tok(S) = "(" ->
            LET N == luaX_next(S)
            IN checknext(IF Tok(N) = ")" THEN [N EXCEPT !.e = Void] ELSE MultRetOrOne(explist(N)), ")")
      [] Tok(S) = "{" -> constructor(S)
      [] Tok(S) = "<string>" -> luaX_next([S EXCEPT !.e = Key(TokValue(S))])
      [] OTHER -> Fail(S, "function arguments expected")
CodeCall(S, base, open) ==
    [luaK_codeABC(S, "CALL", base, IF open THEN 0 ELSE S.f.freereg - base, 2) EXCEPT
     !.e = Expr("VCALL", Pc(S)), !.f.freereg = base + 1]
Call(S, base) == IF hasmultret(S.e.k) THEN CodeCall(S, base, TRUE) ELSE CodeCall(OnTop(S), base, FALSE)
funcargs(S) == Call(Args(LuaAssert(S, S.e.k = "VNONRELOC")), S.e.info)

primaryexp(S) ==
    CASE Tok(S) = "(" -> luaK_dischargevars(checknext(expr(luaX_next(S)), ")"))
      [] Tok(S) = "<name>" -> singlevar(S)
      [] OTHER -> Fail(S, "unexpected symbol")
Method(S) == LET N == luaX_next(S) IN funcargs(luaK_self(SkipName(N), Str(TokValue(N))))
suffixes(S) ==
    CASE Tok(S) = "." -> Parse("suffixes", fieldsel(S), 0)
      [] Tok(S) = "[" -> Parse("suffixes", IndexIn(luaK_exp2anyregup(S)), 0)
      [] Tok(S) = ":" -> Parse("suffixes", Method(S), 0)
      [] Tok(S) \in {"(", "<string>", "{"} -> Parse("suffixes", funcargs(luaK_exp2nextreg(S)), 0)
      [] OTHER -> S

Literal(S, e) == luaX_next([S EXCEPT !.e = e])
simpleexp(S) ==
    CASE Tok(S) = "<number>" -> Literal(S, Expr(IF IsInt(TokValue(S)) THEN "VKINT" ELSE "VKFLT", TokValue(S)))
      [] Tok(S) = "<string>" -> Literal(S, Key(TokValue(S)))
      [] Tok(S) = "nil" -> Literal(S, Expr("VNIL", 0))
      [] Tok(S) = "true" -> Literal(S, Expr("VTRUE", 0))
      [] Tok(S) = "false" -> Literal(S, Expr("VFALSE", 0))
      [] Tok(S) = "..." ->
            IF isvararg(S.f)
            THEN Literal(luaK_codeABC(S, "VARARG", 0, S.f.numparams, 1), Expr("VVARARG", Pc(S)))
            ELSE Fail(S, "cannot use '...' outside a vararg function")
      [] Tok(S) = "{" -> constructor(S)
      [] Tok(S) = "function" -> body(luaX_next(S), FALSE)
      [] OTHER -> suffixedexp(S)

\* Left and right priority of the binary operators.
Left ==
    [o \in {"or", "and", "<", ">", "<=", ">=", "~=", "==", "|", "~", "&", "<<", ">>", "..", "+", "-", "*", "/", "//", "%", "^"} |->
        CASE o = "or" -> 1 [] o = "and" -> 2 [] o \in {"<", ">", "<=", ">=", "~=", "=="} -> 3 [] o = "|" -> 4 [] o = "~" -> 5
          [] o = "&" -> 6 [] o \in {"<<", ">>"} -> 7 [] o = ".." -> 9 [] o \in {"+", "-"} -> 10
          [] o \in {"*", "/", "//", "%"} -> 11 [] o = "^" -> 14]
Right == [o \in DOMAIN Left |-> IF o \in {"..", "^"} THEN Left[o] - 1 ELSE Left[o]]
UnaryPriority == 12
UnaryOps == {"not", "-", "~", "#"}

Operand(S) ==
    IF Tok(S) \in UnaryOps THEN luaK_prefix(Parse("subexpr", luaX_next(S), UnaryPriority), Tok(S)) ELSE simpleexp(S)
Combine(S, e1, op) == IF S.err # "" THEN S ELSE luaK_posfix([S EXCEPT !.e = e1, !.e2 = S.e], op)
BinaryRest(S, op) == Combine(Parse("subexpr", S, Right[op]), S.e, op)
binops(S, limit) ==
    IF Tok(S) \in DOMAIN Left /\ Left[Tok(S)] > limit
    THEN Parse("binops", BinaryRest(luaK_infix(luaX_next(S), Tok(S)), Tok(S)), limit)
    ELSE S

--------------------------------------------------------------------------
\* Constructors.

Record(v, nh, na, tostore, max) == [v |-> v, nh |-> nh, na |-> na, tostore |-> tostore, max |-> max]
maxtostore(S) ==
    LET n == MaxFStack - S.f.freereg IN CASE n >= 160 -> n \div 5 [] n >= 80 /\ n < 160 -> 10 [] OTHER -> 1

Stored(S, tab, reg) == [luaK_storevar(expr(S), tab) EXCEPT !.f.freereg = reg]
StoreIn(S, reg) == Stored(S, S.e, reg)
recfield(S, t) ==
    LET key == IF Tok(S) = "<name>" THEN SkipName([S EXCEPT !.e = Key(TokValue(S))]) ELSE yindex(S)
    IN StoreIn(IndexBy(checknext(key, "="), Expr("VNONRELOC", t)), S.f.freereg)
IsRecord(S) == Tok(S) = "[" \/ (Tok(S) = "<name>" /\ luaX_lookahead(S) = "=")

Flushed(cc) == IF cc.tostore >= cc.max THEN Record(Void, cc.nh, cc.na + cc.tostore, 0, cc.max) ELSE [cc EXCEPT !.v = Void]
FlushList(S, t, cc) == IF cc.tostore >= cc.max THEN luaK_setlist(S, t, cc.na, cc.tostore) ELSE S
closelistfield(S, t, cc) ==
    FlushList(luaK_exp2nextreg([LuaAssert(S, cc.tostore > 0) EXCEPT !.e = cc.v]), t, cc)
lastlistfield(S, t, cc) ==
    CASE cc.tostore = 0 -> S
      [] cc.tostore # 0 /\ hasmultret(cc.v.k) -> luaK_setlist(luaK_setreturns([S EXCEPT !.e = cc.v], MultRet), t, cc.na, MultRet)
      [] OTHER -> luaK_setlist(OnTop([S EXCEPT !.e = cc.v]), t, cc.na, cc.tostore)
NumArray(cc) == cc.na + (IF cc.tostore # 0 /\ hasmultret(cc.v.k) THEN cc.tostore - 1 ELSE cc.tostore)

\* x is <<pc of NEWTABLE, register of the table, control record>>.
MoreFields(S, pc, t, cc) ==
    IF Tok(S) \in {",", ";"} THEN Parse("fields", luaX_next(S), <<pc, t, cc>>) ELSE Parse("endfields", S, <<pc, t, cc>>)
ListItem(S, pc, t, cc) == MoreFields(S, pc, t, [cc EXCEPT !.v = S.e, !.tostore = @ + 1])
field(S, pc, t, cc) ==
    IF IsRecord(S) THEN MoreFields(recfield(S, t), pc, t, [cc EXCEPT !.nh = @ + 1])
    ELSE ListItem(expr(S), pc, t, cc)
fields(S, pc, t, cc) ==
    IF Tok(S) = "}" THEN Parse("endfields", S, <<pc, t, cc>>)
    ELSE field(IF cc.v.k # "VVOID" THEN closelistfield(S, t, cc) ELSE S, pc, t, IF cc.v.k # "VVOID" THEN Flushed(cc) ELSE cc)
endfields(S, pc, t, cc) ==
    [luaK_settablesize(lastlistfield(checknext(S, "}"), t, cc), pc, t, NumArray(cc), cc.nh) EXCEPT !.e = Expr("VNONRELOC", t)]
NewTable(S) ==
    LET N == luaK_reserveregs(luaK_code(luaK_codevABCk(S, "NEWTABLE", 0, 0, 0, 0), Instr("MOVE", 0, 0, 0, 0)), 1)
    IN Parse("fields", checknext(N, "{"), <<Pc(S), S.f.freereg, Record(Void, 0, 0, 0, maxtostore(N))>>)

--------------------------------------------------------------------------
\* Functions.

setvararg(S) == luaK_codeABC([S EXCEPT !.f.flags = @ \cup {"VAHID"}], "VARARGPREP", 0, 0, 0)
\* x counts the parameters; S.x is <<their number, whether "..." ends the list>>.
params(S, x) ==
    CASE Tok(S) = "<name>" ->
            LET N == SkipName(new_localvar(S, TokValue(S)))
            IN IF Tok(N) = "," THEN Parse("params", luaX_next(N), x + 1) ELSE [N EXCEPT !.x = <<x + 1, FALSE>>]
      [] Tok(S) = "..." ->
            LET N == luaX_next(S)
            IN [IF Tok(N) = "<name>" THEN SkipName(new_varkind(N, TokValue(N), "VAVAR")) ELSE new_localvar(N, "(vararg table)")
                EXCEPT !.x = <<x, TRUE>>]
      [] OTHER -> [Fail(S, "<name> or '...' expected") EXCEPT !.x = <<x, FALSE>>]
TakeParams(S, nparams, vararg) ==
    LET A == adjustlocalvars(S, nparams)
        N == [A EXCEPT !.f.numparams = A.f.nactvar]
    IN luaK_reserveregs(IF vararg THEN adjustlocalvars(setvararg(N), 1) ELSE N, N.f.nactvar + (IF vararg THEN 1 ELSE 0))
Counted(S) == TakeParams(S, S.x[1], S.x[2])
parlist(S) == Counted(IF Tok(S) = ")" THEN [S EXCEPT !.x = <<0, FALSE>>] ELSE Parse("params", [S EXCEPT !.x = <<0, FALSE>>], 0))

Proto(f) == [code |-> f.code, k |-> f.k, p |-> f.p, ups |-> f.ups, flags |-> f.flags, numparams |-> f.numparams, maxstack |-> f.maxstack]
codeclosure(S) == luaK_exp2nextreg([luaK_codeABx(S, "CLOSURE", 0, Len(S.f.p) - 1) EXCEPT !.e = Expr("VRELOC", Pc(S))])
EndFunction(S) == codeclosure([S EXCEPT !.f = [Last(S.outer) EXCEPT !.p = Append(@, Proto(S.f))], !.outer = Front(@)])
SelfParam(S, ismethod) == IF ismethod THEN adjustlocalvars(new_localvar(S, "self"), 1) ELSE S
BodyEnd(S) == IF S.err # "" THEN S ELSE EndFunction(close_func(checknext(S, "end")))
FunctionHead(S, ismethod) == checknext(parlist(SelfParam(checknext(open_func(S), "("), ismethod)), ")")
FunctionBody(S, ismethod) == BodyEnd(statlist(FunctionHead(S, ismethod)))

--------------------------------------------------------------------------
\* Assignment.

\* A register or upvalue that indexes an earlier variable of the list is assigned
\* by v: the earlier one uses a copy in the register extra.
\* Mutant: no conflict is seen.
NoCopy(u, v, extra) == u
SafeCopy(u, v, extra) ==
    CASE u.k = "VINDEXUP" /\ v.k = "VUPVAL" /\ u.info = v.info -> [u EXCEPT !.k = "VINDEXSTR", !.info = extra]
      [] vkisindexed(u.k) /\ u.k # "VINDEXUP" /\ v.k = "VLOCAL" ->
            [u EXCEPT !.info = IF @ = v.info THEN extra ELSE @, !.idx = IF u.k = "VINDEXED" /\ @ = v.info THEN extra ELSE @]
      [] OTHER -> u
Copied(lhs, v, extra) == [i \in DOMAIN lhs |-> SafeCopy(lhs[i], v, extra)]
check_conflict(S, lhs) ==
    IF Copied(lhs, S.e, S.f.freereg) # lhs
    THEN luaK_reserveregs(luaK_codeABC(S, IF S.e.k = "VLOCAL" THEN "MOVE" ELSE "GETUPVAL", S.f.freereg, S.e.info, 0), 1)
    ELSE S

storevartop(S, var) == luaK_storevar([S EXCEPT !.e = Expr("VNONRELOC", S.f.freereg - 1)], var)
StoreTops(S, vars) == FoldRight(LAMBDA var, T : storevartop(T, var), vars, S)
Assign(S, vars) ==
    IF S.err # "" THEN S
    ELSE IF S.n = Len(vars) THEN StoreTops(luaK_storevar(luaK_setoneret(S), Last(vars)), Front(vars))
    ELSE StoreTops(adjust_assign(S, Len(vars), S.n), vars)
\* S.e is one more variable behind those of lhs.
NextVar(S, lhs) ==
    IF vkisindexed(S.e.k) THEN Parse("restassign", S, lhs)
    ELSE Parse("restassign", check_conflict(S, lhs), Copied(lhs, S.e, S.f.freereg))
AfterVar(S, lhs) ==
    IF Tok(S) = "," THEN NextVar(suffixedexp(luaX_next(S)), Append(lhs, S.e))
    ELSE Assign(explist(checknext(S, "=")), Append(lhs, S.e))
restassign(S, lhs) == AfterVar(IF vkisvar(S.e.k) THEN check_readonly(S) ELSE Fail(S, "syntax error"), lhs)

--------------------------------------------------------------------------
\* Statements.

block_follow(S, withuntil) == Tok(S) \in {"else", "elseif", "end", "<eof>"} \/ (Tok(S) = "until" /\ withuntil)
Statements(S) ==
    CASE block_follow(S, TRUE) -> S
      [] Tok(S) = "return" -> statement(S)
      [] OTHER -> statlist(statement(S))
BlockEnd(S) == IF S.err # "" THEN S ELSE leaveblock(S)
block(S) == BlockEnd(statlist(enterblock(S, 0)))

\* The list of the jumps out of a condition that fails is left in S.e.f.
GoOn(S) == IF S.err # "" THEN S ELSE luaK_goiftrue(IF S.e.k = "VNIL" THEN [S EXCEPT !.e.k = "VFALSE"] ELSE S)
cond(S) == GoOn(expr(S))
luaK_jumpto(S, t) == luaK_patchlist(luaK_jump(S), Pc(S), t)

WhileBody(S, init, condexit) ==
    luaK_patchtohere(leaveblock(checknext(luaK_jumpto(block(checknext(enterblock(S, 1), "do")), init), "end")), condexit)
WhileCond(S, init) == WhileBody(S, init, S.e.f)
whilestat(S) == WhileCond(cond(luaK_getlabel(luaX_next(S))), Pc(S))

\* Upvalues of the body are closed before it is repeated.
CloseAndRepeat(S, condexit, level) ==
    luaK_jump(luaK_codeABC(luaK_patchtohere(luaK_jump(S), condexit), "CLOSE", level, 0, 0))
RepeatIf(S, condexit, upval, level, init) ==
    IF upval
    THEN luaK_patchlist(luaK_patchtohere(CloseAndRepeat(S, condexit, level), Pc(S)), Pc(S) + 2, init)
    ELSE luaK_patchlist(S, condexit, init)
EndRepeat(S, init) ==
    leaveblock(RepeatIf(leaveblock(S), S.e.f, Last(S.f.bl).upval, reglevel(S, Last(S.f.bl).nactvar), init))
repeatstat(S) ==
    EndRepeat(cond(checknext(statlist(luaX_next(enterblock(enterblock(luaK_getlabel(S), 1), 0))), "until")), Pc(S))

exp1(S) == luaK_exp2nextreg(expr(S))
fixforjump(S, pc, offset) ==
    IF offset > MaxArgBx THEN Fail(S, "control structure too long") ELSE [S EXCEPT !.f.code[pc + 1].b = offset]
ForLoop(S, base, prep, isgen) ==
    fixforjump(luaK_codeABx(S, IF isgen THEN "TFORLOOP" ELSE "FORLOOP", base, 0), Pc(S), Pc(S) - prep)
ForCall(S, base, nvars, isgen) == IF isgen THEN luaK_codeABC(S, "TFORCALL", base, 0, nvars) ELSE S
ForEnd(S, base, prep, nvars, isgen) ==
    ForLoop(ForCall(fixforjump(luaK_getlabel(S), prep, Pc(S) - (prep + 1)), base, nvars, isgen), base, prep, isgen)
ForScope(S, nvars) == leaveblock(block(luaK_reserveregs(adjustlocalvars(enterblock(S, 0), nvars), nvars)))
ForPrep(S, base, isgen) ==
    [luaK_codeABx(S, IF isgen THEN "TFORPREP" ELSE "FORPREP", base, 0) EXCEPT !.f.freereg = @ - 1]
forbody(S, base, nvars, isgen) == ForEnd(ForScope(ForPrep(checknext(S, "do"), base, isgen), nvars), base, Pc(S), nvars, isgen)

ForStates(S, n) == IF n = 2 THEN new_localvar(new_localvar(S, "(for state)"), "(for state)")
                   ELSE new_localvar(new_localvar(new_localvar(S, "(for state)"), "(for state)"), "(for state)")
DefaultStep(S) == luaK_reserveregs(luaK_int(S, S.f.freereg, Integer(1)), 1)
ForStep(S) == IF Tok(S) = "," THEN exp1(luaX_next(S)) ELSE DefaultStep(S)
fornum(S, name) ==
    forbody(adjustlocalvars(ForStep(exp1(checknext(exp1(checknext(new_varkind(ForStates(S, 2), name, "CONST"), "=")), ","))), 2),
            S.f.freereg, 1, FALSE)
\* S.n counts the variables.
fornames(S, nvars) ==
    IF Tok(S) = "," THEN LET N == luaX_next(S) IN Parse("fornames", SkipName(new_localvar(N, TokValue(N))), nvars + 1)
    ELSE [S EXCEPT !.n = nvars]
ForValues(S, base, nvars) ==
    forbody(luaK_checkstack(marktobeclosed(adjustlocalvars(adjust_assign(S, 4, S.n), 3)), 2), base, nvars - 3, TRUE)
ForIn(S, base, nvars) == ForValues(explist(checknext(S, "in")), base, nvars)
ForNamed(S, base) == ForIn(S, base, S.n)
forlist(S, name) == ForNamed(Parse("fornames", new_varkind(ForStates(S, 3), name, "CONST"), 4), S.f.freereg)
forstat(S) ==
    LET B == luaX_next(enterblock(S, 1))
        N == SkipName(B)
    IN leaveblock(checknext(CASE Tok(N) = "=" -> fornum(N, TokValue(B))
                              [] Tok(N) \in {",", "in"} -> forlist(N, TokValue(B))
                              [] OTHER -> Fail(N, "'=' or 'in' expected"), "end"))

\* esc is the list of the jumps to the end of the whole statement.
SkipRest(S, esc) == luaK_concat(luaK_jump(S), esc, Pc(S))
AfterThen(S, condtrue, esc) ==
    IF Tok(S) \in {"else", "elseif"}
    THEN Parse("elses", luaK_patchtohere(SkipRest(S, esc), condtrue), ConcatList(esc, Pc(S)))
    ELSE Parse("elses", luaK_patchtohere(S, condtrue), esc)
ThenBlock(S, esc) == AfterThen(block(checknext(S, "then")), S.e.f, esc)
test_then_block(S, esc) == ThenBlock(cond(luaX_next(S)), esc)
elses(S, esc) ==
    IF Tok(S) = "elseif" THEN Parse("if", S, esc)
    ELSE luaK_patchtohere(checknext(IF Tok(S) = "else" THEN block(luaX_next(S)) ELSE S, "end"), esc)

localfunc(S) == body(adjustlocalvars(SkipName(new_localvar(S, TokValue(S))), 1), FALSE)

Attributes == [const |-> "CONST", close |-> "TOCLOSE"]
AttributeKind(S, df) ==
    IF Tok(S) # "<" THEN df
    ELSE IF TokValue(luaX_next(S)) \in DOMAIN Attributes THEN Attributes[TokValue(luaX_next(S))] ELSE "unknown"
SkipAttribute(S) ==
    IF Tok(S) # "<" THEN S
    ELSE IF AttributeKind(S, "") = "unknown" THEN Fail(S, "unknown attribute")
    ELSE checknext(SkipName(luaX_next(S)), ">")

\* x is <<default kind, number of variables, index of the one to be closed>>.
localnames(S, x) ==
    LET N == SkipName(S)
        kind == AttributeKind(N, x[1])
        V == new_varkind(SkipAttribute(N), TokValue(S), kind)
        y == <<x[1], x[2] + 1, IF kind = "TOCLOSE" THEN S.f.nactvar + x[2] ELSE x[3]>>
    IN CASE kind = "TOCLOSE" /\ x[3] # -1 -> Fail(S, "multiple to-be-closed variables in local list")
         [] (kind # "TOCLOSE" \/ x[3] = -1) /\ Tok(V) = "," -> Parse("localnames", luaX_next(V), y)
         [] OTHER -> [V EXCEPT !.x = y]
checktoclose(S, level) == IF level = -1 THEN S ELSE luaK_codeABC(marktobeclosed(S), "TBC", reglevel(S, level), 0, 0)
IsConstant(S, nvars) == nvars = S.n /\ S.actvar[S.nact].kind = "CONST" /\ luaK_exp2const(S, S.e) # << >>
CompileTime(S, v) == [S EXCEPT !.actvar[S.nact] = [@ EXCEPT !.kind = "CTC", !.val = v]]
Declared(S, nvars) ==
    IF IsConstant(S, nvars)
    THEN [adjustlocalvars(CompileTime(S, luaK_exp2const(S, S.e)[1]), nvars - 1) EXCEPT !.f.nactvar = @ + 1]
    ELSE adjustlocalvars(adjust_assign(S, nvars, S.n), nvars)
ValuesOrNone(S) == IF Tok(S) = "=" THEN explist(luaX_next(S)) ELSE [S EXCEPT !.e = Void, !.n = 0]
LocalValues(S, x) == IF S.err # "" THEN S ELSE checktoclose(Declared(ValuesOrNone(S), x[2]), x[3])
LocalNamed(S) == LocalValues(S, S.x)
localstat(S) == LocalNamed(Parse("localnames", SkipAttribute(S), <<AttributeKind(S, "REG"), 0, -1>>))

GlobalKind(S, df) == IF AttributeKind(S, df) = "CONST" THEN "GCONST" ELSE AttributeKind(S, df)
SkipGlobalAttribute(S) ==
    IF AttributeKind(S, "") = "TOCLOSE" THEN Fail(S, "global variables cannot be to-be-closed") ELSE SkipAttribute(S)
CheckBuilt(S) == luaK_codecheckglobal(S, S.e.keystr)
checkglobal(S, name) == IF S.err # "" THEN S ELSE CheckBuilt(buildglobal(S, name))
\* The variables are first .. first + nvars - 1; n of them have been built.
InitRest(S, name, nvars, first, n) ==
    storevartop(checkglobal(Parse("initglobal", S, <<nvars, first, n + 1>>), name), S.e)
GlobalValues(S, nvars) == adjust_assign(S, nvars, S.n)
initglobal(S, nvars, first, n) ==
    IF n = nvars THEN GlobalValues(explist(S), nvars)
    ELSE LET name == getlocalvardesc(S, first + n).name IN InitRest(buildglobal(S, name), name, nvars, first, n)
globalnames(S, defkind, nvars) ==
    LET N == SkipName(S)
        V == new_varkind(SkipGlobalAttribute(N), TokValue(S), GlobalKind(N, defkind))
    IN CASE Tok(V) = "," -> Parse("globalnames", luaX_next(V), <<defkind, nvars + 1>>)
         [] Tok(V) = "=" ->
                [Parse("initglobal", luaX_next(V), <<nvars + 1, V.nact - nvars - 1 - V.f.firstlocal, 0>>)
                 EXCEPT !.f.nactvar = @ + nvars + 1]
         [] OTHER -> [V EXCEPT !.f.nactvar = @ + nvars + 1]
globalstat(S) ==
    LET N == SkipGlobalAttribute(S)
        kind == GlobalKind(S, "GREG")
    IN IF Tok(N) = "*" THEN [new_varkind(luaX_next(N), "", kind) EXCEPT !.f.nactvar = @ + 1]
       ELSE Parse("globalnames", N, <<kind, 0>>)
GlobalFunction(S, name, var) == IF S.err # "" THEN S ELSE luaK_storevar([checkglobal(S, name) EXCEPT !.e = S.e], var)
GlobalBody(S, name) == GlobalFunction(body(S, FALSE), name, S.e)
Active(S) == [S EXCEPT !.f.nactvar = @ + 1]
globalfunc(S) == GlobalBody(buildglobal(SkipName(Active(new_varkind(S, TokValue(S), "GREG"))), TokValue(S)), TokValue(S))
globalstatfunc(S) == LET N == luaX_next(S) IN IF Tok(N) = "function" THEN globalfunc(luaX_next(N)) ELSE globalstat(N)

\* S.n is 1 for a method.
funcname(S) ==
    CASE Tok(S) = "." -> Parse("funcname", fieldsel(S), 0)
      [] Tok(S) = ":" -> [fieldsel(S) EXCEPT !.n = 1]
      [] OTHER -> [S EXCEPT !.n = 0]
StoreFunction(S, var) == IF S.err # "" THEN S ELSE luaK_storevar(S, var)
NamedFunction(S) == StoreFunction(body(S, S.n = 1), S.e)
funcstat(S) == NamedFunction(check_readonly(Parse("funcname", singlevar(luaX_next(S)), 0)))

CallStatement(S) == IF S.e.k = "VCALL" THEN [S EXCEPT !.f.code[S.e.info + 1].c = 1] ELSE Fail(S, "syntax error")
ExprOrAssign(S) == IF Tok(S) \in {"=", ","} THEN restassign(S, << >>) ELSE CallStatement(S)
exprstat(S) == ExprOrAssign(suffixedexp(S))

TailCall(S, n) ==
    IF S.e.k = "VCALL" /\ n = 1 /\ ~Last(S.f.bl).insidetbc
    THEN [LuaAssert(S, Code(S, S.e.info).a = luaY_nvarstack(S)) EXCEPT !.f.code[S.e.info + 1].op = "TAILCALL"]
    ELSE S
ReturnOne(S) == luaK_ret(S, S.e.info, 1)
ReturnTop(S, first, n) == luaK_ret(LuaAssert(S, n = S.f.freereg - first), first, n)
ReturnList(S, first) ==
    CASE hasmultret(S.e.k) -> luaK_ret(TailCall(luaK_setreturns(S, MultRet), S.n), first, MultRet)
      [] ~hasmultret(S.e.k) /\ S.n = 1 -> ReturnOne(luaK_exp2anyreg(S))
      [] OTHER -> ReturnTop(luaK_exp2nextreg(S), first, S.n)
retstat(S) ==
    SkipIf(IF block_follow(S, TRUE) \/ Tok(S) = ";" THEN luaK_ret(S, luaY_nvarstack(S), 0)
           ELSE ReturnList(explist(S), luaY_nvarstack(S)), ";")

Loops(S) == {i \in DOMAIN S.f.bl : S.f.bl[i].isloop # 0}
breakstat(S) ==
    IF Loops(S) = {} THEN Fail(S, "break outside loop")
    ELSE newgotoentry(luaX_next([S EXCEPT !.f.bl[Max(Loops(S))].isloop = 2]), "break")
gotostat(S) == newgotoentry(SkipName(S), TokValue(S))
checkrepeated(S, name) ==
    IF findlabel(S, name, S.f.firstlabel) # 0 THEN Fail(S, "label already defined: " \o name) ELSE S
noops(S) == IF Tok(S) \in {";", "::"} THEN Parse("noops", statement(S), 0) ELSE S
AddLabel(S, name) == createlabel(S, name, block_follow(S, FALSE))
labelstat(S) == AddLabel(checkrepeated(Parse("noops", checknext(SkipName(S), "::"), 0), TokValue(S)), TokValue(S))

StartsGlobal(S) == TokValue(S) = "global" /\ luaX_lookahead(S) \in {"<", "<name>", "*", "function"}
OneStatement(S) ==
    CASE Tok(S) = ";" -> luaX_next(S)
      [] Tok(S) = "if" -> Parse("if", S, NoJump)
      [] Tok(S) = "while" -> whilestat(S)
      [] Tok(S) = "do" -> checknext(block(luaX_next(S)), "end")
      [] Tok(S) = "for" -> forstat(S)
      [] Tok(S) = "repeat" -> repeatstat(S)
      [] Tok(S) = "function" -> funcstat(S)
      [] Tok(S) = "local" ->
            IF luaX_lookahead(S) = "function" THEN localfunc(luaX_next(luaX_next(S))) ELSE localstat(luaX_next(S))
      [] Tok(S) = "::" -> labelstat(luaX_next(S))
      [] Tok(S) = "return" -> retstat(luaX_next(S))
      [] Tok(S) = "break" -> breakstat(S)
      [] Tok(S) = "goto" -> gotostat(luaX_next(S))
      [] Tok(S) = "<name>" /\ StartsGlobal(S) -> globalstatfunc(S)
      [] OTHER -> exprstat(S)
\* Mutant: temporary registers are kept from one statement to the next.
KeepRegisters(S) == S
EndStatement(S) ==
    [LuaAssert(S, S.f.maxstack >= S.f.freereg /\ S.f.freereg >= luaY_nvarstack(S))
     EXCEPT !.f.freereg = luaY_nvarstack(S)]

NothingBehind(S, isreturn) == IF isreturn /\ Tok(S) # "<eof>" THEN Fail(S, "<eof> expected") ELSE S

Parse(rule, S, x) ==
    IF S.err # "" THEN [S EXCEPT !.e = Void]
    ELSE CASE rule = "mainstatement" -> NothingBehind(statement(S), Tok(S) = "return")
           [] rule = "statlist" -> Statements(S)
           [] rule = "statement" -> EndStatement(OneStatement(S))
           [] rule = "if" -> test_then_block(S, x)
           [] rule = "elses" -> elses(S, x)
           [] rule = "body" -> FunctionBody(S, x)
           [] rule = "params" -> params(S, x)
           [] rule = "restassign" -> restassign(S, x)
           [] rule = "localnames" -> localnames(S, x)
           [] rule = "globalnames" -> globalnames(S, x[1], x[2])
           [] rule = "initglobal" -> initglobal(S, x[1], x[2], x[3])
           [] rule = "fornames" -> fornames(S, x)
           [] rule = "funcname" -> funcname(S)
           [] rule = "noops" -> noops(S)
           [] rule = "subexpr" -> Parse("binops", Operand(S), x)
           [] rule = "binops" -> binops(S, x)
           [] rule = "moreexps" -> moreexps(S, x)
           [] rule = "suffixedexp" -> Parse("suffixes", primaryexp(S), 0)
           [] rule = "suffixes" -> suffixes(S)
           [] rule = "constructor" -> NewTable(S)
           [] rule = "fields" -> fields(S, x[1], x[2], x[3])
           [] rule = "endfields" -> endfields(S, x[1], x[2], x[3])

--------------------------------------------------------------------------
\* A whole program.

FuncState0 == [firstlocal |-> 0, firstlabel |-> 0]
State0(toks) ==
    [toks |-> toks, pos |-> 1, err |-> "", ok |-> TRUE, n |-> 0, x |-> << >>, e |-> Void, e2 |-> Void, f |-> FuncState0, outer |-> << >>,
     actvar |-> << >>, nact |-> 0, gt |-> << >>, label |-> << >>]
Main(S) == [enterblock([S EXCEPT !.f = NewFunc(S)], 0) EXCEPT !.f.ups = <<[name |-> "_ENV", instack |-> TRUE, idx |-> 0, kind |-> "REG"]>>]
\* luaY_parser in the steps of the main function: its head, the statements of
\* its statlist one by one, and its end.
mainfunc(toks) == setvararg(Main(State0(toks)))
mainstatement(S) == Parse("mainstatement", S, 0)
AtEnd(S) == S.err # "" \/ block_follow(S, TRUE)
close_main(S) == close_func(checknext(S, "<eof>"))
Ended(S) ==
    LuaAssert(S, S.outer = << >> /\ Len(S.f.ups) = 1 /\ S.nact = 0 /\ S.gt = << >> /\ S.label = << >>)
\* The main function's prototype, unless the program is refused.
Compiled(S) == [ok |-> S.ok, err |-> S.err, proto |-> IF S.err = "" THEN Proto(S.f) ELSE << >>]
luaY_parser(S) == IF S.err # "" THEN Compiled(S) ELSE Compiled(Ended(close_main(S)))

=============================================================================
