------------------------------- MODULE LuaVm -------------------------------
(***************************************************************************)
(* The Lua virtual machine: luaV_execute and its helpers in lvm.c, calls,  *)
(* results, errors and coroutines in ldo.c, upvalues and to-be-closed      *)
(* variables in lfunc.c, metamethods and varargs in ltm.c, with the few    *)
(* library functions that are about control.                               *)
(*                                                                         *)
(* G is the global state.  L(G) is the thread that runs, the last of       *)
(* G.run; the threads before it wait in a resume.  A stack keeps what was  *)
(* left in it above its top.  What luaD_call does in the C stack is kept   *)
(* in the frames: a frame called by C is fresh, and when it returns the    *)
(* frame below finishes what it had begun, as after a yield.  G.mode is    *)
(* "run" between two instructions, "call" at luaD_precall, "c" at the      *)
(* start of a C function, "finish" behind luaD_call, "throw" at luaD_throw.*)
(***************************************************************************)
EXTENDS LuaMatch

CONSTANTS
    MaxArgC, MaxArgBx, MaxArgVB, MaxArgVC, MaxVars,   \* of the compiler
    NumPrograms,   \* how many programs there are
    Program(_),    \* each: its tokens, whether it is refused or what it shows
                   \* when it runs, and whether a hook may stop it
    MaxStops,      \* how many times
    MaxStack,      \* LUAI_MAXSTACK
    StackErrSpace, \* STACKERRSPACE
    MinStack,      \* LUA_MINSTACK
    MaxTagLoop,    \* MAXTAGLOOP
    MaxCcmt        \* the greatest number of __call metamethods in a chain

Compiler == INSTANCE LuaParser
MultRet == -1
OffsetC == MaxArgC \div 2

VARIABLES program, ls, compiled, vm, stops
vars == <<program, ls, compiled, vm, stops>>

--------------------------------------------------------------------------
\* Threads, frames and stacks.

L(G) == G.th[Last(G.run)]
Put(G, T) == [G EXCEPT !.th[Last(G.run)] = T]
Ci(G) == Last(L(G).ci)
SetCi(G, c) == Put(G, [L(G) EXCEPT !.ci = Append(Front(@), c)])
Top(G) == L(G).top
SetTop(G, p) == Put(G, [L(G) EXCEPT !.top = p])
Stk(G, p) == IF p <= Len(L(G).stack) THEN L(G).stack[p] ELSE Nil
Values(G, from, n) == [i \in 1 .. n |-> Stk(G, from + i - 1)]
Store(G, p, vs) ==
    LET last == p + Len(vs) - 1
        len == Len(L(G).stack)
    IN Put(G, [L(G) EXCEPT !.stack =
                [q \in 1 .. (IF last > len THEN last ELSE len) |-> IF q \in p .. last THEN vs[q - p + 1] ELSE Stk(G, q)]])
Push(G, vs) == SetTop(Store(G, Top(G), vs), Top(G) + Len(vs))
lua_assert(G, p) == [G EXCEPT !.ok = @ /\ p]

Base(G) == Ci(G).func + 1
R(G, a) == Stk(G, Base(G) + a)
SetR(G, a, v) == Store(G, Base(G) + a, <<v>>)
Cl(G) == G.clo[Stk(G, Ci(G).func)[2]]
Const(G, k) == Cl(G).p.k[k + 1]
RK(G, i) == IF i.k = 1 THEN Const(G, i.c) ELSE R(G, i.c)
Ins(G, ahead) == Cl(G).p.code[Ci(G).pc + 1 + ahead]
Skip(G, n) == SetCi(G, [Ci(G) EXCEPT !.pc = @ + n])
\* savestate.
Protect(G) == SetTop(G, Ci(G).top)

\* A C function keeps in k what it will do when a function it called returns,
\* in x the coroutine it resumes or the level it protects, in st its status.
Frame(func, top, nres, fresh, ny) ==
    [func |-> func, top |-> top, lua |-> FALSE, pc |-> 0, nres |-> nres, fresh |-> fresh, ny |-> ny, extra |-> 0,
     nret |-> 0, k |-> "", x |-> 0, st |-> "ok"]
NewThread(v) ==
    [stack |-> <<Nil, v>>, top |-> 3, ci |-> <<[Frame(1, 3, MultRet, FALSE, FALSE) EXCEPT !.k = "thread"]>>, tbc |-> << >>,
     status |-> "ok", big |-> FALSE]

\* luaG_errormsg: the error is the value on the top of the stack.
Throw(G, v) == [Push(G, <<IF v = Nil THEN Str("<no error object>") ELSE v>>) EXCEPT !.mode = "throw"]
RunError(G, msg) == Throw(G, Str(msg))
TypeError(G, v, what) == RunError(G, "attempt to " \o what \o " a " \o TypeOf(v) \o " value")

--------------------------------------------------------------------------
\* Upvalues and to-be-closed variables (lfunc.c).

OpenUpvals(G, level) == {u \in DOMAIN G.upv : G.upv[u].th = Last(G.run) /\ G.upv[u].lev >= level}
UpGet(G, u) == IF G.upv[u].th = 0 THEN G.upv[u].v ELSE G.th[G.upv[u].th].stack[G.upv[u].lev]
UpSet(G, u, v) ==
    IF G.upv[u].th = 0 THEN [G EXCEPT !.upv[u].v = v] ELSE [G EXCEPT !.th[G.upv[u].th].stack[G.upv[u].lev] = v]

\* Mutant: an upvalue that is already open is not found.
FindsNone(G, level) == <<[G EXCEPT !.upv = Append(@, [th |-> Last(G.run), lev |-> level, v |-> Nil])], Len(G.upv) + 1>>
luaF_findupval(G, level) ==
    LET same == {u \in OpenUpvals(G, level) : G.upv[u].lev = level}
    IN IF same # {} THEN <<G, CHOOSE u \in same : TRUE>>
       ELSE <<[G EXCEPT !.upv = Append(@, [th |-> Last(G.run), lev |-> level, v |-> Nil])], Len(G.upv) + 1>>
luaF_closeupval(G, level) ==
    LET open == OpenUpvals(G, level)
    IN [lua_assert(G, \A u \in open : G.upv[u].lev < Top(G)) EXCEPT
            !.upv = [u \in DOMAIN @ |-> IF u \in open THEN [th |-> 0, lev |-> 0, v |-> UpGet(G, u)] ELSE @[u]]]
pushclosure(G, p) ==
    LET Upval(A, uv) ==
            LET f == luaF_findupval(A[1], Base(G) + uv.idx)
            IN IF uv.instack THEN <<f[1], Append(A[2], f[2])>> ELSE <<A[1], Append(A[2], Cl(G).ups[uv.idx + 1])>>
        F == FoldLeft(Upval, <<G, << >>>>, p.ups)
    IN [F[1] EXCEPT !.clo = Append(@, [p |-> p, ups |-> F[2]])]

Event(e) == Str("__" \o e)
StringArith == {"add", "sub", "mul", "mod", "pow", "div", "idiv", "unm"}
Metatable(G, v) == IF v[1] = "table" THEN G.tab[v[2]].meta ELSE 0
GetField(G, t, key) == IF key \in DOMAIN G.tab[t].map THEN G.tab[t].map[key] ELSE Nil
luaT_gettmbyobj(G, v, e) ==
    IF Metatable(G, v) # 0 THEN GetField(G, Metatable(G, v), Event(e))
    ELSE IF IsStr(v) /\ e \in StringArith THEN <<"cfunction", e>> ELSE Nil
\* fasttm: a metatable remembers the events it has no field for.
fasttm(G, m, e) == IF m = 0 \/ (m # 0 /\ e \in G.tab[m].flags) THEN Nil ELSE GetField(G, m, Event(e))
Flagged(G, m, e) == IF m # 0 /\ fasttm(G, m, e) = Nil THEN [G EXCEPT !.tab[m].flags = @ \cup {e}] ELSE G

luaF_newtbcupval(G, level) ==
    IF IsFalse(Stk(G, level)) THEN G
    ELSE IF luaT_gettmbyobj(G, Stk(G, level), "close") = Nil THEN RunError(G, "variable got a non-closable value")
    ELSE [Put(lua_assert(G, L(G).tbc = << >> \/ level > Last(L(G).tbc)), [L(G) EXCEPT !.tbc = Append(@, level)]) EXCEPT
            !.log = Append(@, <<"mark", Last(G.run), Stk(G, level)>>)]

\* luaD_call, whose function is at func.
Call(G, func, nres, fresh) ==
    [G EXCEPT !.mode = "call", !.call = [func |-> func, nres |-> nres, fresh |-> fresh, ny |-> FALSE, n |-> 0, tail |-> -1]]
\* luaT_callTM and luaT_callTMres.
CallTM(G, f, args, nres) == Call(Push(G, <<f>> \o args), Top(G), nres, TRUE)

\* luaF_close.  Where a variable is left the method is called, and the caller
\* comes back here behind it; the one in the list is then the next.
Pending(G, level) == L(G).tbc # << >> /\ Last(L(G).tbc) >= level
luaD_seterrorobj(G, p) ==
    SetTop(Store(lua_assert(G, Stk(G, Top(G) - 1) # Nil), p, <<Stk(G, Top(G) - 1)>>), p + 1)
prepcallclosemth(G, tbc, status) ==
    CASE status = "ok" -> SetTop(G, tbc + 1)
      [] status = "closektop" -> G
      [] status = "error" -> luaD_seterrorobj(G, tbc + 1)
\* Mutant: the variable stays in the list while its method runs.
CloseLater(G, status) ==
    LET tbc == Last(L(G).tbc)
        v == Stk(G, tbc)
        P == prepcallclosemth(G, tbc, status)
    IN CallTM([P EXCEPT !.log = Append(@, <<"close", Last(G.run), v>>)], luaT_gettmbyobj(G, v, "close"),
              IF status = "error" THEN <<v, Stk(P, tbc + 1)>> ELSE <<v>>, 0)
CloseOne(G, status) ==
    LET tbc == Last(L(G).tbc)
        v == Stk(G, tbc)
        P == prepcallclosemth(Put(G, [L(G) EXCEPT !.tbc = Front(@)]), tbc, status)
    IN CallTM([P EXCEPT !.log = Append(@, <<"close", Last(G.run), v>>)], luaT_gettmbyobj(G, v, "close"),
              IF status = "error" THEN <<v, Stk(P, tbc + 1)>> ELSE <<v>>, 0)

--------------------------------------------------------------------------
\* Calls and returns (ldo.c).

SizeLimit(G) == IF L(G).big THEN MaxStack + StackErrSpace ELSE MaxStack + 1
\* luaD_growstack where there is no room: the error has some space of its own,
\* and an error in it is another one.
StackOverflow(G) ==
    IF L(G).big THEN RunError(G, "error in error handling")
    ELSE RunError(Put(G, [L(G) EXCEPT !.big = TRUE]), "stack overflow")
Room(G, n) == Top(G) + n <= SizeLimit(G)

\* moveresults and luaD_poscall.
luaD_poscall(G, n) ==
    LET c == Ci(G)
        wanted == IF c.nres = MultRet THEN n ELSE c.nres
        vs == [i \in 1 .. wanted |-> IF i <= n THEN Stk(G, Top(G) - n + i - 1) ELSE Nil]
    IN [SetTop(Store(Put(G, [L(G) EXCEPT !.ci = Front(@)]), c.func, vs), c.func + wanted) EXCEPT
            !.mode = IF c.fresh THEN "finish" ELSE "run"]
CReturn(G, vs) == luaD_poscall(Push(G, vs), Len(vs))

PrepCallInfo(G, c) == Put(G, [L(G) EXCEPT !.ci = Append(@, c)])
IsLuaFunction(v) == v[1] = "closure"
IsCFunction(v) == v[1] = "cfunction"
Callee(G) == Stk(G, G.call.func)

\* The Lua function of luaD_precall, with nil for the parameters it is not given.
PrecallLua(G) ==
    LET p == G.clo[Callee(G)[2]].p
        c == G.call
        narg == Top(G) - c.func - 1
        nils == [i \in 1 .. p.numparams - narg |-> Nil]
        F == [Frame(c.func, c.func + 1 + p.maxstack, c.nres, c.fresh, c.ny) EXCEPT !.lua = TRUE]
    IN IF ~Room(G, p.maxstack) THEN StackOverflow(G)
       ELSE [Push(PrepCallInfo(G, F), nils) EXCEPT !.mode = "run"]
\* luaD_pretailcall: the new function takes the frame of the one that calls it.
PretailcallLua(G) ==
    LET p == G.clo[Callee(G)[2]].p
        narg1 == Top(G) - G.call.func
        func == Ci(G).func - G.call.tail
        vs == [i \in 1 .. (IF narg1 <= p.numparams THEN p.numparams + 1 ELSE narg1) |->
                IF i <= narg1 THEN Stk(G, G.call.func + i - 1) ELSE Nil]
    IN IF ~Room(G, p.maxstack - G.call.tail) THEN StackOverflow(G)
       ELSE [SetTop(SetCi(Store(G, func, vs), [Ci(G) EXCEPT !.func = func, !.top = func + 1 + p.maxstack, !.pc = 0]),
                    func + Len(vs)) EXCEPT !.mode = "run"]
\* precallC.  A C function in a tail call returns to the RETURN behind it.
PrecallC(G) ==
    LET c == G.call
    IN IF ~Room(G, MinStack) THEN StackOverflow(G)
       ELSE [PrepCallInfo(G, Frame(c.func, Top(G) + MinStack, c.nres, c.fresh, c.ny)) EXCEPT !.mode = "c"]
tryfuncTM(G) ==
    LET c == G.call
        tm == luaT_gettmbyobj(G, Callee(G), "call")
    IN IF ~Room(G, 1) THEN StackOverflow(G)
       ELSE IF tm = Nil THEN TypeError(G, Callee(G), "call")
       ELSE IF c.n = MaxCcmt THEN RunError(G, "'__call' chain too long")
       ELSE [SetTop(Store(G, c.func, <<tm>> \o Values(G, c.func, Top(G) - c.func)), Top(G) + 1) EXCEPT !.call.n = @ + 1]

Precall ==
    /\ vm.mode = "call" /\ IsLuaFunction(Callee(vm)) /\ vm.call.tail < 0
    /\ vm' = PrecallLua(vm)
Pretailcall ==
    /\ vm.mode = "call" /\ IsLuaFunction(Callee(vm)) /\ vm.call.tail >= 0
    /\ vm' = PretailcallLua(vm)
PrecallCFunction ==
    /\ vm.mode = "call" /\ IsCFunction(Callee(vm))
    /\ vm' = PrecallC(vm)
TryFuncTM ==
    /\ vm.mode = "call" /\ ~IsLuaFunction(Callee(vm)) /\ ~IsCFunction(Callee(vm))
    /\ vm' = tryfuncTM(vm)

--------------------------------------------------------------------------
\* Instructions (lvm.c).  G has already counted the instruction in its pc.

Fetch == Ins(vm, 0)
Fetched == Skip(lua_assert(vm, Base(vm) <= Top(vm) /\ Top(vm) <= SizeLimit(vm)), 1)
Run(ops) == vm.mode = "run" /\ Fetch.op \in ops

Load(G, i) ==
    CASE i.op = "MOVE" -> SetR(G, i.a, R(G, i.b))
      [] i.op = "LOADI" -> SetR(G, i.a, Integer(i.b))
      [] i.op = "LOADF" -> SetR(G, i.a, Flt(i.b, 1))
      [] i.op = "LOADK" -> SetR(G, i.a, Const(G, i.b))
      [] i.op = "LOADKX" -> Skip(SetR(G, i.a, Const(G, Ins(G, 0).b)), 1)
      [] i.op = "LOADFALSE" -> SetR(G, i.a, Bool(FALSE))
      [] i.op = "LFALSESKIP" -> Skip(SetR(G, i.a, Bool(FALSE)), 1)
      [] i.op = "LOADTRUE" -> SetR(G, i.a, Bool(TRUE))
      [] i.op = "LOADNIL" -> Store(G, Base(G) + i.a, [j \in 1 .. i.b + 1 |-> Nil])
      [] i.op = "NOT" -> SetR(G, i.a, Bool(IsFalse(R(G, i.b))))
LoadOps == {"MOVE", "LOADI", "LOADF", "LOADK", "LOADKX", "LOADFALSE", "LFALSESKIP", "LOADTRUE", "LOADNIL", "NOT"}
LoadStep == Run(LoadOps) /\ vm' = Load(Fetched, Fetch)

UpvalOp(G, i) ==
    IF i.op = "GETUPVAL" THEN SetR(G, i.a, UpGet(G, Cl(G).ups[i.b + 1])) ELSE UpSet(G, Cl(G).ups[i.b + 1], R(G, i.a))
UpvalStep == Run({"GETUPVAL", "SETUPVAL"}) /\ vm' = UpvalOp(Fetched, Fetch)

\* Tables are maps here.  A float key that is an integer is that integer.
NormKey(k) == IF IsFlt(k) /\ FltToInteger(k, "eq") # Nil THEN FltToInteger(k, "eq") ELSE k
Has(G, t, key) == IsTable(t) /\ NormKey(key) \in DOMAIN G.tab[t[2]].map
TagMethod(G, t, e) == IF IsTable(t) THEN fasttm(G, Metatable(G, t), e) ELSE luaT_gettmbyobj(G, t, e)

\* Where an access ends that starts at t: in a table with the key, or with no
\* metamethod, at a function, in an error.
RECURSIVE Chase(_, _, _, _, _)
Chase(G, t, key, e, loop) ==
    LET tm == TagMethod(G, t, e)
    IN CASE Has(G, t, key) -> <<"found", t, Nil>>
         [] ~Has(G, t, key) /\ loop = MaxTagLoop -> <<"loop", t, Nil>>
         [] ~Has(G, t, key) /\ loop # MaxTagLoop /\ tm = Nil -> <<IF IsTable(t) THEN "absent" ELSE "error", t, Nil>>
         [] ~Has(G, t, key) /\ loop # MaxTagLoop /\ tm # Nil /\ IsFunction(tm) -> <<"call", t, tm>>
         [] OTHER -> Chase(G, tm, key, e, loop + 1)
ChaseError(G, c, e) ==
    IF c[1] = "loop" THEN RunError(G, "'" \o "__" \o e \o "' chain too long; possible loop") ELSE TypeError(G, c[2], "index")

GetAt(G, c, key, a) ==
    CASE c[1] = "found" -> SetR(G, a, G.tab[c[2][2]].map[NormKey(key)])
      [] c[1] = "absent" -> SetR(Flagged(G, Metatable(G, c[2]), "index"), a, Nil)
      [] c[1] = "call" -> CallTM(Protect(G), c[3], <<c[2], key>>, 1)
      [] OTHER -> ChaseError(Protect(G), c, "index")
luaV_get(G, t, key, a) == GetAt(G, Chase(G, t, key, "index", 0), key, a)
\* A new key forgets what the table, as a metatable, had not.
RawSet(G, t, key, v) ==
    [G EXCEPT !.tab[t].map =
        IF v = Nil THEN [q \in DOMAIN @ \ {NormKey(key)} |-> @[q]]
        ELSE [q \in DOMAIN @ \cup {NormKey(key)} |-> IF q = NormKey(key) THEN v ELSE @[q]]]
luaH_finishset(G, t, key, v) ==
    CASE key = Nil -> RunError(G, "table index is nil")
      [] key = NaN -> RunError(G, "table index is NaN")
      [] OTHER -> [RawSet(G, t, key, v) EXCEPT !.tab[t].flags = {}]
SetAt(G, c, key, v) ==
    CASE c[1] = "found" -> RawSet(G, c[2][2], key, v)
      [] c[1] = "absent" -> luaH_finishset(Flagged(Protect(G), Metatable(G, c[2]), "newindex"), c[2][2], key, v)
      [] c[1] = "call" -> CallTM(Protect(G), c[3], <<c[2], key, v>>, 0)
      [] OTHER -> ChaseError(Protect(G), c, "newindex")
luaV_set(G, t, key, v) == SetAt(G, Chase(G, t, key, "newindex", 0), key, v)

\* The table and the key that the instruction names.
Get(G, i) ==
    luaV_get(IF i.op = "SELF" THEN SetR(G, i.a + 1, R(G, i.b)) ELSE G,
             IF i.op = "GETTABUP" THEN UpGet(G, Cl(G).ups[i.b + 1]) ELSE R(G, i.b),
             CASE i.op = "GETTABLE" -> R(G, i.c) [] i.op = "GETI" -> Integer(i.c) [] OTHER -> Const(G, i.c), i.a)
GetStep == Run({"GETTABUP", "GETTABLE", "GETI", "GETFIELD", "SELF"}) /\ vm' = Get(Fetched, Fetch)
SetOp(G, i) ==
    luaV_set(G, IF i.op = "SETTABUP" THEN UpGet(G, Cl(G).ups[i.a + 1]) ELSE R(G, i.a),
             CASE i.op = "SETTABLE" -> R(G, i.b) [] i.op = "SETI" -> Integer(i.b) [] OTHER -> Const(G, i.b), RK(G, i))
SetStep == Run({"SETTABUP", "SETTABLE", "SETI", "SETFIELD"}) /\ vm' = SetOp(Fetched, Fetch)

\* Of the array part only the size is kept that a constructor gives it.
NewTable == [map |-> [q \in {} |-> Nil], meta |-> 0, flags |-> {}, asize |-> 0]
Extra(G, i) == IF i.k = 1 THEN Ins(G, 0).b * (MaxArgVC + 1) ELSE 0
NewTableOp(G, i) ==
    LET T == [Skip(lua_assert(G, i.k = 0 \/ Ins(G, 0).b # 0), 1) EXCEPT
                !.tab = Append(@, [NewTable EXCEPT !.asize = i.c + Extra(G, i)])]
    IN SetTop(SetR(T, i.a, <<"table", Len(T.tab)>>), Base(G) + i.a + 1)
SetList(G, i) ==
    LET n == IF i.b = 0 THEN Top(G) - (Base(G) + i.a) - 1 ELSE i.b
        first == i.c + Extra(G, i)
        t == R(G, i.a)[2]
        A == lua_assert(G, first + n > G.tab[t].asize => i.b = 0)
        P == [IF i.b = 0 THEN A ELSE Protect(A) EXCEPT !.tab[t].asize = Max({@, first + n})]
    IN FoldLeft(LAMBDA H, j : RawSet(H, t, Integer(first + j), R(G, i.a + j)),
                IF i.k = 1 THEN Skip(P, 1) ELSE P, [j \in 1 .. n |-> j])
TableStep == \/ Run({"NEWTABLE"}) /\ vm' = NewTableOp(Fetched, Fetch)
             \/ Run({"SETLIST"}) /\ vm' = SetList(Fetched, Fetch)

--------------------------------------------------------------------------
\* Arithmetic.  Where it succeeds the MMBIN behind it is skipped.

ArithOf == [ADD |-> "add", SUB |-> "sub", MUL |-> "mul", MOD |-> "mod", POW |-> "pow", DIV |-> "div", IDIV |-> "idiv",
            BAND |-> "band", BOR |-> "bor", BXOR |-> "bxor", SHL |-> "shl", SHR |-> "shr"]
ArithKOf == [ADDK |-> "add", SUBK |-> "sub", MULK |-> "mul", MODK |-> "mod", POWK |-> "pow", DIVK |-> "div", IDIVK |-> "idiv",
             BANDK |-> "band", BORK |-> "bor", BXORK |-> "bxor"]
ArithIOf == [ADDI |-> "add", SHLI |-> "shl", SHRI |-> "shr"]
Immediate(c) == Integer(c - OffsetC)
ArithResult(G, i) ==
    LET v == R(G, i.b)
        w == CASE i.op \in DOMAIN ArithOf -> R(G, i.c) [] i.op \in DOMAIN ArithKOf -> Const(G, i.c) [] OTHER -> Immediate(i.c)
    IN RawArith((ArithOf @@ ArithKOf @@ ArithIOf)[i.op], IF i.op = "SHLI" THEN w ELSE v, IF i.op = "SHLI" THEN v ELSE w)
SetResult(G, i, r) ==
    CASE r = Nil -> G
      [] r # Nil /\ IsErr(r) -> RunError(Protect(G), r[2])
      [] OTHER -> Skip(SetR(G, i.a, r), 1)
Arith(G, i) == SetResult(G, i, ArithResult(G, i))
ArithStep == Run(DOMAIN ArithOf \cup DOMAIN ArithKOf \cup DOMAIN ArithIOf) /\ vm' = Arith(Fetched, Fetch)

BinTM(G, v, w, e) == IF luaT_gettmbyobj(G, v, e) = Nil THEN luaT_gettmbyobj(G, w, e) ELSE luaT_gettmbyobj(G, v, e)
luaT_trybinTM(G, v, w, e) ==
    LET culprit == IF IsNumber(v) THEN w ELSE v
    IN CASE BinTM(G, v, w, e) # Nil -> CallTM(G, BinTM(G, v, w, e), <<v, w>>, 1)
         [] BinTM(G, v, w, e) = Nil /\ e \in BitwiseOps /\ IsNumber(v) /\ IsNumber(w) ->
                RunError(G, "number has no integer representation")
         [] OTHER -> TypeError(G, culprit, IF e \in BitwiseOps THEN "perform bitwise operation on" ELSE "perform arithmetic on")
Flip(G, v, w, flip, e) == IF flip = 1 THEN luaT_trybinTM(G, w, v, e) ELSE luaT_trybinTM(G, v, w, e)
MmBin(G, i) ==
    Flip(Protect(lua_assert(G, Ins(G, -2).op \in DOMAIN ArithOf \cup DOMAIN ArithKOf \cup {"ADDI", "SHLI", "SHRI"})), R(G, i.a),
         CASE i.op = "MMBIN" -> R(G, i.b) [] i.op = "MMBINI" -> Immediate(i.b) [] i.op = "MMBINK" -> Const(G, i.b),
         IF i.op = "MMBIN" THEN 0 ELSE i.k, i.c)
MmBinStep == Run({"MMBIN", "MMBINI", "MMBINK"}) /\ vm' = MmBin(Fetched, Fetch)

\* luaH_getn: a border of the table, the only one of a sequence.
Border(G, t) ==
    CHOOSE n \in 0 .. Cardinality(DOMAIN G.tab[t].map) :
        /\ Integer(n + 1) \notin DOMAIN G.tab[t].map
        /\ n > 0 => Integer(n) \in DOMAIN G.tab[t].map
luaV_objlen(G, v, a) ==
    LET tm == TagMethod(G, v, "len")
    IN CASE tm = Nil /\ IsTable(v) -> SetR(Flagged(G, Metatable(G, v), "len"), a, Integer(Border(G, v[2])))
         [] IsStr(v) -> SetR(G, a, Integer(Len(v[2])))
         [] tm = Nil /\ ~IsTable(v) /\ ~IsStr(v) -> TypeError(G, v, "get length of")
         [] OTHER -> CallTM(G, tm, <<v, v>>, 1)
Unary(G, i) ==
    LET v == R(G, i.b)
        e == IF i.op = "UNM" THEN "unm" ELSE "bnot"
    IN IF i.op = "LEN" THEN luaV_objlen(Protect(G), v, i.a)
       ELSE IF RawArith(e, v, v) # Nil THEN SetR(G, i.a, RawArith(e, v, v)) ELSE luaT_trybinTM(Protect(G), v, v, e)
UnaryStep == Run({"UNM", "BNOT", "LEN"}) /\ vm' = Unary(Fetched, Fetch)

\* Of the operands on the top of the stack the last two are first.
RECURSIVE luaV_concat(_, _)
luaV_concat(G, total) ==
    LET v == Stk(G, Top(G) - 2)
        w == Stk(G, Top(G) - 1)
        tm == BinTM(G, v, w, "concat")
    IN IF total = 1 THEN G
       ELSE IF IsText(v) /\ IsText(w)
            THEN luaV_concat(SetTop(Store(G, Top(G) - 2, <<Str(Text(v) \o Text(w))>>), Top(G) - 1), total - 1)
            ELSE IF tm # Nil THEN CallTM(G, tm, <<v, w>>, 1) ELSE TypeError(G, IF IsText(v) THEN w ELSE v, "concatenate")
Concat(G, i) == luaV_concat(SetTop(G, Base(G) + i.a + i.b), i.b)
ConcatStep == Run({"CONCAT"}) /\ vm' = Concat(Fetched, Fetch)

--------------------------------------------------------------------------
\* Comparison, tests and jumps.

Jump(G, i, e) == Skip(G, i.b + e)
\* docondjump: the jump behind a test is taken with it.
CondJump(G, cond, k) == IF cond # (k = 1) THEN Skip(G, 1) ELSE Jump(lua_assert(G, Ins(G, 0).op = "JMP"), Ins(G, 0), 1)

EqTM(G, v, w) ==
    IF fasttm(G, Metatable(G, v), "eq") # Nil THEN fasttm(G, Metatable(G, v), "eq") ELSE fasttm(G, Metatable(G, w), "eq")
luaV_equalobj(G, v, w, k) ==
    IF RawEqual(v, w) \/ ~(IsTable(v) /\ IsTable(w)) \/ EqTM(G, v, w) = Nil
    THEN CondJump(Flagged(Flagged(G, Metatable(G, v), "eq"), Metatable(G, w), "eq"), RawEqual(v, w), k)
    ELSE CallTM(G, EqTM(G, v, w), <<v, w>>, 1)
luaT_callorderTM(G, v, w, e) ==
    IF BinTM(G, v, w, e) # Nil THEN CallTM(G, BinTM(G, v, w, e), <<v, w>>, 1)
    ELSE RunError(G, IF TypeOf(v) = TypeOf(w) THEN "attempt to compare two " \o TypeOf(v) \o " values"
                     ELSE "attempt to compare " \o TypeOf(v) \o " with " \o TypeOf(w))
Order(G, v, w, e, k) ==
    CASE IsNumber(v) /\ IsNumber(w) -> CondJump(G, IF e = "lt" THEN LtNum(v, w) ELSE LeNum(v, w), k)
      [] IsStr(v) /\ IsStr(w) -> CondJump(G, IF e = "lt" THEN LtStr(v[2], w[2]) ELSE LeStr(v[2], w[2]), k)
      [] OTHER -> luaT_callorderTM(Protect(G), v, w, e)
\* op_orderI: the immediate was a float in the source where C says so, which
\* only a metamethod sees.
OrderI(G, i) ==
    LET im == IF i.c = 1 THEN CastNum(Immediate(i.b)) ELSE Immediate(i.b)
        e == IF i.op \in {"LTI", "GTI"} THEN "lt" ELSE "le"
    IN IF i.op \in {"GTI", "GEI"} THEN Order(G, im, R(G, i.a), e, i.k) ELSE Order(G, R(G, i.a), im, e, i.k)
Compare(G, i) ==
    CASE i.op = "EQ" -> luaV_equalobj(Protect(G), R(G, i.a), R(G, i.b), i.k)
      [] i.op = "LT" -> Order(G, R(G, i.a), R(G, i.b), "lt", i.k)
      [] i.op = "LE" -> Order(G, R(G, i.a), R(G, i.b), "le", i.k)
      [] i.op = "EQK" -> CondJump(G, RawEqual(R(G, i.a), Const(G, i.b)), i.k)
      [] i.op = "EQI" -> CondJump(G, IsNumber(R(G, i.a)) /\ RawEqual(R(G, i.a), Immediate(i.b)), i.k)
      [] i.op \in {"LTI", "LEI", "GTI", "GEI"} -> OrderI(G, i)
CompareStep == Run({"EQ", "LT", "LE", "EQK", "EQI", "LTI", "LEI", "GTI", "GEI"}) /\ vm' = Compare(Fetched, Fetch)

Test(G, i) ==
    CASE i.op = "JMP" -> Jump(G, i, 0)
      [] i.op = "TEST" -> CondJump(G, ~IsFalse(R(G, i.a)), i.k)
      [] i.op = "TESTSET" ->
            IF IsFalse(R(G, i.b)) = (i.k = 1) THEN Skip(G, 1) ELSE Jump(SetR(G, i.a, R(G, i.b)), Ins(G, 0), 1)
TestStep == Run({"JMP", "TEST", "TESTSET"}) /\ vm' = Test(Fetched, Fetch)

--------------------------------------------------------------------------
\* Loops.

\* forlimit: << >> where the loop does not run, Nil for a limit that is no number.
ForLimit(limit, init, step) ==
    LET i == LuaVToInteger(limit, IF step < 0 THEN "ceil" ELSE "floor")
        f == LuaVToNumber(limit)
        up == NumLt(Flt(0, 1), f)
        clipped == IF i # Nil THEN i ELSE Integer(IF up THEN MaxInt ELSE MinInt)
    IN CASE i = Nil /\ f = Nil -> Nil
         [] i = Nil /\ f # Nil /\ up = (step < 0) -> << >>
         [] OTHER -> IF (step > 0 /\ init > clipped[2]) \/ (step < 0 /\ init < clipped[2]) THEN << >> ELSE clipped
ForCount(init, limit, step) ==
    IF step > 0 THEN Unsigned(limit - init) \div step ELSE Unsigned(init - limit) \div (Unsigned(-(step + 1)) + 1)
ForError(G, what, v) == RunError(G, "bad 'for' " \o what \o " (number expected, got " \o TypeOf(v) \o ")")
ForInteger(G, i, init, limit, step) ==
    LET l == ForLimit(limit, init, step)
    IN CASE step = 0 -> RunError(G, "'for' step is zero")
         [] step # 0 /\ l = Nil -> ForError(G, "limit", limit)
         [] step # 0 /\ l = << >> -> Skip(G, i.b + 1)
         [] OTHER -> Store(G, Base(G) + i.a, <<Integer(Signed(ForCount(init, l[2], step))), Integer(step), Integer(init)>>)
ForFloat(G, i, init, limit, step) ==
    LET zero == Flt(0, 1)
        n == LuaVToNumber(init)
        l == LuaVToNumber(limit)
        s == LuaVToNumber(step)
    IN CASE l = Nil -> ForError(G, "limit", limit)
         [] l # Nil /\ s = Nil -> ForError(G, "step", step)
         [] l # Nil /\ s # Nil /\ n = Nil -> ForError(G, "initial value", init)
         [] l # Nil /\ n # Nil /\ s # Nil /\ NumEq(s, zero) -> RunError(G, "'for' step is zero")
         [] OTHER -> IF (IF NumLt(zero, s) THEN NumLt(l, n) ELSE NumLt(n, l)) THEN Skip(G, i.b + 1)
                     ELSE Store(G, Base(G) + i.a, <<l, s, n>>)
ForPrep(G, i) ==
    LET v == Values(G, Base(G) + i.a, 3)
    IN IF IsInt(v[1]) /\ IsInt(v[3]) THEN ForInteger(Protect(G), i, v[1][2], v[2], v[3][2])
       ELSE ForFloat(Protect(G), i, v[1], v[2], v[3])
ForLoop(G, i) ==
    LET v == Values(G, Base(G) + i.a, 3)
        x == NumAdd(v[3], v[2])
        int == IsInt(v[2])
        again == IF int THEN v[1] # Integer(0) ELSE IF NumLt(Flt(0, 1), v[2]) THEN NumLe(x, v[1]) ELSE NumLe(v[1], x)
    IN IF ~again THEN G
       ELSE Skip(IF int THEN Store(G, Base(G) + i.a, <<Integer(Signed(v[1][2] - 1)), v[2], Integer(Signed(v[3][2] + v[2][2]))>>)
                 ELSE SetR(G, i.a + 2, x), -i.b)
TForPrep(G, i) ==
    LET ra == Base(G) + i.a
    IN luaF_newtbcupval(Protect(Skip(Store(G, ra + 2, <<Stk(G, ra + 3), Stk(G, ra + 2)>>), i.b)), ra + 2)
TForCall(G, i) ==
    LET ra == Base(G) + i.a
    IN Call(SetTop(Store(G, ra + 3, <<Stk(G, ra), Stk(G, ra + 1), Stk(G, ra + 3)>>), ra + 6), ra + 3, i.c, TRUE)
TForLoop(G, i) == IF R(G, i.a + 3) # Nil THEN Skip(G, -i.b) ELSE G
For(G, i) ==
    CASE i.op = "FORPREP" -> ForPrep(G, i)
      [] i.op = "FORLOOP" -> ForLoop(G, i)
      [] i.op = "TFORPREP" -> TForPrep(lua_assert(G, Ins(G, i.b).op = "TFORCALL" /\ Ins(G, i.b).a = i.a), i)
      [] i.op = "TFORCALL" -> TForCall(lua_assert(G, Ins(G, 0).op = "TFORLOOP" /\ Ins(G, 0).a = i.a), i)
      [] i.op = "TFORLOOP" -> TForLoop(G, i)
ForStep == Run({"FORPREP", "FORLOOP", "TFORPREP", "TFORCALL", "TFORLOOP"}) /\ vm' = For(Fetched, Fetch)

--------------------------------------------------------------------------
\* Functions.

Closure(G, i) ==
    LET P == pushclosure(Protect(G), Cl(G).p.p[i.b + 1]) IN SetR(P, i.a, <<"closure", Len(P.clo)>>)
ClosureStep == Run({"CLOSURE"}) /\ vm' = Closure(Fetched, Fetch)

OpenTop(G, i) == IF i.b # 0 THEN SetTop(G, Base(G) + i.a + i.b) ELSE G
CallOp(G, i) == Call(OpenTop(G, i), Base(G) + i.a, i.c - 1, FALSE)
Hidden(G, i) == IF i.c = 0 THEN 0 ELSE Ci(G).extra + i.c
TailCall(G, i) ==
    LET C == IF i.k = 1 THEN luaF_closeupval(OpenTop(G, i), Base(G)) ELSE OpenTop(G, i)
        A == lua_assert(C, i.k = 1 => ~Pending(C, Base(G)))
    IN [Call(A, Base(G) + i.a, MultRet, FALSE) EXCEPT !.call.tail = Hidden(G, i)]
CallStep == \/ Run({"CALL"}) /\ vm' = CallOp(Fetched, Fetch)
            \/ Run({"TAILCALL"}) /\ vm' = TailCall(Fetched, Fetch)

\* A return that has variables to close is executed again behind each of them.
Return(G, i) ==
    LET n == IF i.b = 0 THEN Top(G) - (Base(G) + i.a) ELSE i.b - 1
        N == IF i.k = 1 THEN SetCi(G, [Ci(G) EXCEPT !.nret = n]) ELSE G
        C == luaF_closeupval(IF Top(N) < Ci(N).top THEN Protect(N) ELSE N, Base(G))
        F == SetCi(N, [Ci(N) EXCEPT !.func = @ - Hidden(G, i)])
        D == SetCi(C, [Ci(C) EXCEPT !.func = @ - Hidden(G, i)])
        Done(A) == luaD_poscall(SetTop(A, Base(G) + i.a + n), n)
    IN IF i.k = 1 THEN IF Pending(C, Base(G)) THEN CloseOne(C, "closektop") ELSE Done(D) ELSE Done(F)
ReturnShort(G, i) ==
    LET n == IF i.op = "RETURN1" THEN 1 ELSE 0 IN luaD_poscall(SetTop(G, Base(G) + i.a + n), n)
ReturnStep == \/ Run({"RETURN"}) /\ vm' = Return(Fetched, Fetch)
              \/ Run({"RETURN0", "RETURN1"}) /\ vm' = ReturnShort(Fetched, Fetch)

Close(G, i) ==
    LET C == luaF_closeupval(Protect(lua_assert(G, i.b = 0)), Base(G) + i.a)
    IN IF Pending(C, Base(G) + i.a) THEN CloseOne(C, "ok") ELSE C
Tbc(G, i) == luaF_newtbcupval(Protect(G), Base(G) + i.a)
CloseStep == \/ Run({"CLOSE"}) /\ vm' = Close(Fetched, Fetch)
             \/ Run({"TBC"}) /\ vm' = Tbc(Fetched, Fetch)

\* luaT_adjustvarargs: the arguments go into a table, or are hidden below the
\* function, which is copied above them.
VarargPrep(G, i) ==
    LET c == Ci(G)
        p == Cl(G).p
        total == Top(G) - c.func - 1
        extra == total - p.numparams
        args == Values(G, c.func + 1 + p.numparams, extra)
        map == [q \in {Str("n")} \cup {Integer(j) : j \in {h \in 1 .. extra : args[h] # Nil}} |->
                    IF q = Str("n") THEN Integer(extra) ELSE args[q[2]]]
        T == [G EXCEPT !.tab = Append(@, [NewTable EXCEPT !.map = map])]
        func == c.func + total + 1
        fixed == Values(G, c.func + 1, p.numparams)
        H == Store(Store(G, func, <<Stk(G, c.func)>> \o fixed \o <<Nil>>), c.func + 1, [j \in 1 .. p.numparams |-> Nil])
    IN IF "VATAB" \in p.flags THEN Store(T, c.func + p.numparams + 1, <<<<"table", Len(T.tab)>>>>)
       ELSE IF ~Room(G, p.maxstack + 1) THEN StackOverflow(G)
       ELSE SetTop(SetCi(lua_assert(H, "VAHID" \in p.flags), [c EXCEPT !.func = func, !.top = @ + total + 1, !.extra = extra]),
                   func + p.numparams + 1)
luaT_getvararg(G, i) ==
    LET key == R(G, i.c)
        n == LuaVToIntegerNs(key, "eq")
        extra == Ci(G).extra
    IN SetR(G, i.a, CASE n # Nil /\ n[2] \in 1 .. extra -> Stk(G, Ci(G).func - extra + n[2] - 1)
                      [] key = Str("n") -> Integer(extra)
                      [] OTHER -> Nil)
VarargTable(G, i) == R(G, i.b)[2]
NumArgs(G, i) == IF i.k = 0 THEN Integer(Ci(G).extra) ELSE GetField(G, VarargTable(G, i), Str("n"))
luaT_getvarargs(G, i) ==
    LET n == NumArgs(G, i)
        where == Base(G) + i.a
        wanted == IF i.c = 0 THEN n[2] ELSE i.c - 1
        Arg(j) == CASE j > n[2] -> Nil
                    [] j <= n[2] /\ i.k = 0 -> Stk(G, Ci(G).func - n[2] + j - 1)
                    [] OTHER -> GetField(G, VarargTable(G, i), Integer(j))
        S == Store(G, where, [j \in 1 .. wanted |-> Arg(j)])
    IN CASE ~IsInt(n) \/ (IsInt(n) /\ n[2] < 0) -> RunError(G, "vararg table has no proper 'n'")
         [] IsInt(n) /\ n[2] >= 0 /\ i.c = 0 /\ ~Room(G, n[2]) -> StackOverflow(G)
         [] OTHER -> IF i.c = 0 THEN SetTop(S, where + n[2]) ELSE S
Vararg(G, i) ==
    CASE i.op = "VARARGPREP" -> VarargPrep(G, i)
      [] i.op = "GETVARG" -> luaT_getvararg(G, i)
      [] i.op = "VARARG" -> luaT_getvarargs(Protect(G), i)
VarargStep == Run({"VARARGPREP", "GETVARG", "VARARG"}) /\ vm' = Vararg(Fetched, Fetch)

ErrNnil(G, i) == IF R(G, i.a) = Nil THEN G ELSE RunError(Protect(G), "global '" \o Const(G, i.b - 1)[2] \o "' already defined")
ErrNnilStep == Run({"ERRNNIL"}) /\ vm' = ErrNnil(Fetched, Fetch)

--------------------------------------------------------------------------
\* Behind a call made by C: luaV_finishOp.

Popped(G) == SetTop(G, Top(G) - 1)
FinishOp(G, i) ==
    LET v == Stk(G, Top(G) - 1)
    IN CASE i.op \in {"MMBIN", "MMBINI", "MMBINK"} -> SetR(Popped(G), Ins(G, -2).a, v)
         [] i.op \in {"UNM", "BNOT", "LEN", "GETTABUP", "GETTABLE", "GETI", "GETFIELD", "SELF"} -> SetR(Popped(G), i.a, v)
         [] i.op \in {"LT", "LE", "LTI", "LEI", "GTI", "GEI", "EQ"} -> CondJump(Popped(G), ~IsFalse(v), i.k)
         [] i.op = "CONCAT" ->
                luaV_concat(SetTop(Store(G, Top(G) - 3, <<v>>), Top(G) - 2), Top(G) - 2 - (Base(G) + i.a))
         [] i.op = "CLOSE" -> Skip(G, -1)
         [] i.op = "RETURN" -> Skip(SetTop(G, Base(G) + i.a + Ci(G).nret), -1)
         [] OTHER -> lua_assert(G, i.op \in {"TFORCALL", "CALL", "TAILCALL", "SETTABUP", "SETTABLE", "SETI", "SETFIELD"})
FinishLua ==
    /\ vm.mode = "finish" /\ Ci(vm).lua
    /\ vm' = FinishOp([vm EXCEPT !.mode = "run"], Ins(vm, -1))

--------------------------------------------------------------------------
\* C functions.

Args(G) == Values(G, Ci(G).func + 1, Top(G) - Ci(G).func - 1)
Arg(G, n) == IF n <= Len(Args(G)) THEN Args(G)[n] ELSE Nil
SetK(G, k, x) == SetCi(G, [Ci(G) EXCEPT !.k = k, !.x = x])
ArgError(G, what) == RunError(G, "bad argument (" \o what \o " expected)")

\* The metamethods of strings for arithmetic (lstrlib.c).
arith(G, op) ==
    LET v == StrToN(Arg(G, 1))
        w == StrToN(Arg(G, 2))
        r == RawArith(op, v, w)
        tm == luaT_gettmbyobj(G, Arg(G, 2), op)
    IN CASE IsNumber(v) /\ IsNumber(w) -> IF IsErr(r) THEN RunError(G, r[2]) ELSE CReturn(G, <<r>>)
         [] ~(IsNumber(v) /\ IsNumber(w)) /\ (IsStr(Arg(G, 2)) \/ tm = Nil) ->
                RunError(G, "attempt to " \o op \o " a '" \o TypeOf(Arg(G, 1)) \o "' with a '" \o TypeOf(Arg(G, 2)) \o "'")
         [] OTHER -> [CallTM(SetK(G, "arith", 0), tm, <<Arg(G, 1), Arg(G, 2)>>, 1) EXCEPT !.call.ny = TRUE]
luaB_pcall(G) ==
    LET func == Ci(G).func + 2
    IN IF Args(G) = << >> THEN ArgError(G, "value")
       ELSE Call(SetK(Push(SetTop(G, func - 1), <<Bool(TRUE)>> \o Args(G)), "pcall", func), func, MultRet, TRUE)
luaB_setmetatable(G) ==
    LET t == Arg(G, 1)
        m == Arg(G, 2)
    IN CASE ~IsTable(t) -> ArgError(G, "table")
         [] IsTable(t) /\ ~IsTable(m) /\ m # Nil -> ArgError(G, "nil or table")
         [] IsTable(t) /\ (IsTable(m) \/ m = Nil) /\ Metatable(G, t) # 0 /\ GetField(G, Metatable(G, t), Str("__metatable")) # Nil ->
                RunError(G, "cannot change a protected metatable")
         [] OTHER -> CReturn([G EXCEPT !.tab[t[2]].meta = IF m = Nil THEN 0 ELSE m[2]], <<t>>)

IsThread(v) == v[1] = "thread"
auxstatus(G, co) ==
    LET T == G.th[co]
    IN CASE co = Last(G.run) -> "running"
         [] co # Last(G.run) /\ T.status = "yield" -> "suspended"
         [] co # Last(G.run) /\ T.status = "ok" /\ Len(T.ci) > 1 -> "normal"
         [] co # Last(G.run) /\ T.status = "ok" /\ Len(T.ci) = 1 -> IF T.top = 2 THEN "dead" ELSE "suspended"
         [] OTHER -> "dead"
\* lua_resume: the thread starts its function, or returns from its yield.
lua_resume(G, co, args) ==
    LET T == Push([G EXCEPT !.run = Append(@, co)], args)
    IN IF G.th[co].status = "ok" THEN Call(T, G.th[co].top - 1, MultRet, TRUE)
       ELSE [luaD_poscall(Put(T, [L(T) EXCEPT !.status = "ok"]), Len(args)) EXCEPT !.mode = "finish"]
ResumeError(G, co) ==
    IF auxstatus(G, co) \in {"running", "normal"} THEN "cannot resume non-suspended coroutine" ELSE "cannot resume dead coroutine"
auxresume(G, k, co, args) ==
    IF auxstatus(G, co) = "suspended" THEN lua_resume(SetK(G, k, co), co, args)
    ELSE IF k = "resume" THEN CReturn(G, <<Bool(FALSE), Str(ResumeError(G, co))>>) ELSE RunError(G, ResumeError(G, co))
luaB_cocreate(G, wrap) ==
    LET N == [G EXCEPT !.th = Append(@, NewThread(Arg(G, 1)))]
    IN IF ~IsFunction(Arg(G, 1)) THEN ArgError(G, "function")
       ELSE CReturn(N, <<IF wrap THEN <<"cfunction", "auxwrap", Len(N.th)>> ELSE <<"thread", Len(N.th)>>>>)
yieldable(G) == Len(G.run) > 1 /\ \A j \in DOMAIN L(G).ci : ~L(G).ci[j].ny

\* What a coroutine gives to the function that resumed or closed it.
Deliver(G, ok, vs) ==
    LET B == [G EXCEPT !.run = Front(@)]
        k == Ci(B).k
    IN IF k = "auxwrap" THEN IF ok THEN CReturn(B, vs) ELSE Throw(B, vs[1])
       ELSE CReturn(B, <<Bool(ok)>> \o vs)
lua_yield(G) ==
    IF ~yieldable(G)
    THEN RunError(G, IF Len(G.run) > 1 THEN "attempt to yield across a C-call boundary" ELSE "attempt to yield from outside a coroutine")
    ELSE Deliver(Put(G, [L(G) EXCEPT !.status = "yield", !.top = Ci(G).func + 1]), TRUE, Args(G))
\* luaE_resetthread: what is left to close is closed by the base of the thread.
lua_closethread(G, co) ==
    LET T == G.th[co]
        self == co = Last(G.run)
        st == IF T.status = "error" THEN "error" ELSE "ok"
    IN [G EXCEPT !.run = IF self THEN @ ELSE Append(@, co),
                 !.th[co] = [T EXCEPT !.ci = <<[Head(T.ci) EXCEPT !.k = IF self THEN "closeself" ELSE "close", !.st = st]>>, !.status = "ok"],
                 !.mode = "finish"]
luaB_close(G) ==
    LET co == IF Args(G) = << >> THEN Last(G.run) ELSE Arg(G, 1)[2]
        s == auxstatus(G, co)
    IN CASE s = "normal" -> RunError(G, "cannot close a normal coroutine")
         [] s = "running" /\ co = 1 -> RunError(G, "cannot close main thread")
         [] OTHER -> lua_closethread(SetK(G, "closing", co), co)

\* What f does when it is called.
CFunction(G, f) ==
    LET co == Arg(G, 1)
        rest == Tail(Args(G))
    IN CASE f[2] \in StringArith -> arith(G, f[2])
         [] f[2] = "out" -> CReturn([G EXCEPT !.out = Append(@, Args(G))], << >>)
         [] f[2] = "error" -> Throw(G, Arg(G, 1))
         [] f[2] = "pcall" -> luaB_pcall(G)
         [] f[2] = "setmetatable" -> luaB_setmetatable(G)
         [] f[2] = "create" -> luaB_cocreate(G, FALSE)
         [] f[2] = "wrap" -> luaB_cocreate(G, TRUE)
         [] f[2] = "yield" -> lua_yield(G)
         [] f[2] = "auxwrap" -> auxresume(G, "auxwrap", f[3], Args(G))
         [] f[2] = "close" /\ (Args(G) = << >> \/ IsThread(co)) -> luaB_close(G)
         [] f[2] = "resume" /\ IsThread(co) -> auxresume(G, "resume", co[2], rest)
         [] f[2] = "status" /\ IsThread(co) -> CReturn(G, <<Str(auxstatus(G, co[2]))>>)
         [] OTHER -> ArgError(G, "thread")
CStep ==
    /\ vm.mode = "c"
    /\ LET f == Stk(vm, Ci(vm).func)
       IN IF f[2] \notin StringFunctions THEN vm' = CFunction(vm, f)
          ELSE \E r \in {StringFunction(f[2], Args(vm))} :
                 vm' = IF r.err # "" THEN RunError(vm, r.err) ELSE CReturn(lua_assert(vm, r.ok), r.vs)

--------------------------------------------------------------------------
\* Errors: luaD_throw, luaD_pcall, luaD_closeprotected and lua_resume.

\* The frames that an error stops at.
Protecting(c) == ~c.lua /\ c.k \in {"pcall", "main", "close", "closeself"}
HandlersOf(T) == {j \in DOMAIN T.ci : Protecting(T.ci[j])}
luaD_throw(G) ==
    LET T == L(G)
        j == Max(HandlersOf(T))
    IN IF HandlersOf(T) # {}
       THEN [Put(G, [T EXCEPT !.ci = Append(SubSeq(@, 1, j - 1), [@[j] EXCEPT !.st = "error"])]) EXCEPT !.mode = "finish"]
       ELSE LET E == Put(G, [T EXCEPT !.status = "error"])
                v == Stk(G, Top(G) - 1)
                W == G.th[G.run[Len(G.run) - 1]]
            IN IF Last(W.ci).k = "auxwrap" THEN lua_closethread([E EXCEPT !.run = Front(@)], Last(G.run))
               ELSE Deliver(E, FALSE, <<v>>)
Unwind ==
    /\ vm.mode = "throw"
    /\ vm' = luaD_throw(vm)

\* The level that luaF_close closes down to before the frame goes on.
Level(c) == IF c.k = "pcall" THEN c.x ELSE 2
Closing(c) == c.st = "error" \/ c.k \in {"close", "closeself"}
CloseDown(G) ==
    LET C == luaF_closeupval(G, Level(Ci(G)))
    IN [CloseOne(C, Ci(G).st) EXCEPT !.call.ny = Ci(G).k # "pcall"]
CloseVariable ==
    /\ vm.mode = "finish" /\ ~Ci(vm).lua /\ Closing(Ci(vm)) /\ Pending(vm, Level(Ci(vm)))
    /\ vm' = CloseDown(vm)

\* luaD_seterrorobj behind the last variable, and the end of the function.
FinishC(G) ==
    LET c == Ci(G)
        v == Stk(G, Top(G) - 1)
        C == luaF_closeupval(G, Level(c))
        S == Put(lua_assert(C, c.st = "error" => v # Nil), [L(C) EXCEPT !.big = FALSE, !.top = Level(c)])
        results == Values(G, c.func + 1, Top(G) - c.func - 1)
    IN CASE c.k = "arith" -> CReturn(G, <<v>>)
         [] c.k = "pcall" /\ c.st = "ok" -> luaD_poscall(G, Top(G) - c.func - 1)
         [] c.k = "pcall" /\ c.st = "error" -> CReturn(S, <<Bool(FALSE), v>>)
         [] c.k = "main" -> [(IF c.st = "ok" THEN G ELSE S) EXCEPT !.mode = "done", !.result = IF c.st = "ok" THEN <<"ok">> ELSE <<"error", v>>]
         [] c.k = "thread" -> Deliver(Put(G, [L(G) EXCEPT !.top = c.func + 1]), TRUE, results)
         [] c.k = "close" -> Deliver(SetK(S, "thread", 0), c.st = "ok", IF c.st = "ok" THEN << >> ELSE <<v>>)
         [] c.k = "closeself" /\ c.st = "ok" -> Deliver(SetK(S, "thread", 0), TRUE, << >>)
         [] c.k = "closeself" /\ c.st = "error" -> Deliver(Put(SetK(S, "thread", 0), [L(S) EXCEPT !.status = "error"]), FALSE, <<v>>)
FinishCall ==
    /\ vm.mode = "finish" /\ ~Ci(vm).lua /\ ~(Closing(Ci(vm)) /\ Pending(vm, Level(Ci(vm))))
    /\ vm' = FinishC(vm)

\* The count hook of the manager raises an error between two instructions, if the
\* stack has room for it.  It may do so in the middle of a TFORPREP, TFORCALL,
\* TFORLOOP too, where the code has no hook: the model has more stops than the code.
StopHook ==
    /\ vm.mode = "run" /\ program.stoppable /\ stops < MaxStops
    /\ LET G == IF Top(vm) < Ci(vm).top THEN Protect(vm) ELSE vm
       IN vm' = IF Room(G, MinStack) THEN RunError(G, "stopped") ELSE StackOverflow(G)
    /\ stops' = stops + 1

--------------------------------------------------------------------------
\* A program is compiled and called by the host, in a protected call.

Builtins == {"out", "error", "pcall", "setmetatable", "create", "wrap", "yield", "close", "resume", "status"} \cup StringFunctions
Globals == [NewTable EXCEPT !.map = [q \in {Str(b) : b \in Builtins} |-> <<"cfunction", q[2]>>]]
Loaded(p) ==
    Call([th |-> <<[NewThread(<<"closure", 1>>) EXCEPT !.ci = <<[@[1] EXCEPT !.k = "main"]>>]>>, run |-> <<1>>, tab |-> <<Globals>>,
          clo |-> <<[p |-> p, ups |-> <<1>>]>>, upv |-> <<[th |-> 0, lev |-> 0, v |-> <<"table", 1>>]>>, out |-> << >>, log |-> << >>,
          mode |-> "call", call |-> << >>, ok |-> TRUE, result |-> << >>], 2, MultRet, TRUE)

NoVm == [mode |-> "none"]
Init ==
    /\ \E n \in 1 .. NumPrograms : program = Program(n)
    /\ ls = Compiler!mainfunc(program.tokens)
    /\ compiled = << >> /\ vm = NoVm /\ stops = 0
CompileStatement ==
    /\ ls # << >> /\ ~Compiler!AtEnd(ls)
    /\ ls' = Compiler!mainstatement(ls)
    /\ UNCHANGED <<program, compiled, vm, stops>>
CloseMain ==
    /\ ls # << >> /\ Compiler!AtEnd(ls)
    /\ ls' = << >> /\ compiled' = Compiler!luaY_parser(ls)
    /\ program' = [program EXCEPT !.tokens = << >>]
    /\ UNCHANGED <<vm, stops>>
Start ==
    /\ compiled # << >> /\ compiled.err = "" /\ vm = NoVm
    /\ vm' = Loaded(compiled.proto)
    /\ UNCHANGED <<program, ls, compiled, stops>>
Step ==
    /\ \/ LoadStep \/ UpvalStep \/ GetStep \/ SetStep \/ TableStep \/ ArithStep \/ MmBinStep \/ UnaryStep \/ ConcatStep
       \/ CompareStep \/ TestStep \/ ForStep \/ ClosureStep \/ CallStep \/ ReturnStep \/ CloseStep \/ VarargStep \/ ErrNnilStep
       \/ Precall \/ Pretailcall \/ PrecallCFunction \/ TryFuncTM \/ CStep \/ FinishLua \/ FinishCall \/ CloseVariable \/ Unwind
    /\ UNCHANGED <<program, ls, compiled, stops>>
Stop == StopHook /\ UNCHANGED <<program, ls, compiled>>
Next == CompileStatement \/ CloseMain \/ Start \/ Step \/ Stop
Spec == Init /\ [][Next]_vars

--------------------------------------------------------------------------
\* Properties.

\* A program that nobody stops is refused if it breaks a rule of the language,
\* and otherwise does what it says: whatever registers, constants, jumps and
\* instructions the compiler chose for it, it calls "out" with the same values
\* and ends in the same way.
RunsAsWritten ==
    /\ compiled # << >> => (compiled.err # "") = program.refused
    /\ vm.mode = "done" /\ stops = 0 => Outcome(vm.out, vm.result) = program.outcome

\* The asserts of the compiler and of the virtual machine on what is modelled
\* hold: free registers, jump lists and operands in their range, kinds of
\* expressions, tables as large as their constructors need, the top within the
\* stack, upvalues below it, no nil as an error, a jump behind each test.
\* Those on what the modules leave out (flags of a frame, resizing of the stack,
\* line information, names of variables) are not among them.
AssertsHold == /\ compiled # << >> => compiled.ok
               /\ vm # NoVm => vm.ok

\* The variables to close of a thread that are not closed yet, by its log.
StillOpen(th) ==
    FoldLeft(LAMBDA open, e : IF e[2] # th THEN open ELSE IF e[1] = "mark" THEN Append(open, e[3]) ELSE Front(open), << >>, vm.log)
\* A variable to close is closed once, in the opposite order of the
\* declarations, whether its block ends, is left by a break, a goto, a return
\* or an error, is stopped, or its coroutine is closed; when the program is at
\* its end none is left in the main thread.
ClosedOnce ==
    vm # NoVm =>
    /\ \A i \in DOMAIN vm.log :
          vm.log[i][1] = "close" =>
          LET before == FoldLeft(LAMBDA open, e : IF e[2] # vm.log[i][2] THEN open
                                                  ELSE IF e[1] = "mark" THEN Append(open, e[3]) ELSE Front(open), << >>, SubSeq(vm.log, 1, i - 1))
          IN before # << >> /\ Last(before) = vm.log[i][3]
    /\ \A t \in DOMAIN vm.th : [i \in DOMAIN vm.th[t].tbc |-> vm.th[t].stack[vm.th[t].tbc[i]]] = StillOpen(t)
    /\ vm.mode = "done" => vm.th[1].tbc = << >>

\* An open upvalue lies in a frame that is still there, and no two of them are
\* the same variable: a function that returned, failed, was stopped or called
\* another one in its place leaves none behind.
UpvaluesAlive ==
    vm # NoVm /\ vm.mode \in {"run", "c", "done"} =>
    /\ \A u \in DOMAIN vm.upv :
          vm.upv[u].th # 0 => \E j \in DOMAIN vm.th[vm.upv[u].th].ci :
                                LET c == vm.th[vm.upv[u].th].ci[j] IN c.lua /\ vm.upv[u].lev > c.func /\ vm.upv[u].lev < c.top
    /\ \A u, w \in DOMAIN vm.upv : u # w /\ vm.upv[u].th # 0 => vm.upv[u].th # vm.upv[w].th \/ vm.upv[u].lev # vm.upv[w].lev

=============================================================================
