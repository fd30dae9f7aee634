--------------------------- MODULE MCLuaPrograms ---------------------------
(***************************************************************************)
(* The programs that MCLuaVm compiles and runs, as syntax trees, with what *)
(* they mean.                                                              *)
(***************************************************************************)
EXTENDS LuaMeaning

N(i) == Lit(Integer(i))
F(n, d) == Lit(Flt(n, d))
S(s) == Lit(Str(s))
True == Lit(Bool(TRUE))
False == Lit(Bool(FALSE))
V(x) == Name(x)
Call(f, args) == CallNode(Name(f), args)
Out(args) == Call("out", args)
Let(x, e) == Local(<<x>>, <<"">>, <<e>>)
Lets(xs, es) == Local(xs, [i \in DOMAIN xs |-> ""], es)
Set1(x, e) == Assign(<<Name(x)>>, <<e>>)
Dot(x, k) == Idx(Name(x), S(k))
Def(x, params, body) == LocalFn(x, Fn(params, "", body))
Lambda(params, e) == Fn(params, "", <<Return(<<e>>)>>)
Field(k, e) == <<S(k), e>>
Meta(e, items) == Call("setmetatable", <<e, TableNode(items)>>)
Pcall(body, args) == Call("pcall", <<Fn(<< >>, "...", body)>> \o args)
Increment(x) == Set1(x, Bin("+", V(x), N(1)))
NoElse == << >>
\* A program as it is listed: "given" is empty if its meaning says what it shows.
Chunk(body) == [body |-> body, given |-> {}, refused |-> FALSE, stoppable |-> FALSE]
Stoppable(p) == [p EXCEPT !.stoppable = TRUE]

--------------------------------------------------------------------------
\* Every operator on every pair of kinds of operands: registers, immediate
\* operands, constants, and an object with a handler.

Operators == <<"+", "-", "*", "/", "//", "%", "&", "|", "~", "<<", ">>", "..", "<", "<=", ">", ">=", "==", "~=">>
Operands == <<V("x"), V("s"), V("o"), N(2), N(100), F(1, 2), F(2, 1), S("a"), Lit(Nil), True>>
HandlerNames == <<"add", "sub", "mul", "div", "idiv", "mod", "band", "bor", "bxor", "shl", "shr", "concat", "lt", "le", "lt", "le", "eq", "eq">>
HandlerOf(op, f) == TableNode(<<Field("__" \o HandlerNames[CHOOSE i \in DOMAIN Operators : Operators[i] = op], f)>>)
OperatorProgram(op, e) ==
    Chunk(<<Lets(<<"x", "s">>, <<N(3), S("10")>>),
            Def("h", <<"a", "b">>, <<Return(<<Bin("and", Bin("==", V("a"), V("x")), S("b"))>>)>>),
            Let("o", Call("setmetatable", <<TableNode(<< >>), HandlerOf(op, V("h"))>>))>>
          \o [i \in DOMAIN Operands |-> Out(<<Pcall(<<Return(<<Bin(op, e, Operands[i])>>)>>, << >>)>>)])
OperatorAt(i) == OperatorProgram(Operators[((i - 1) % 18) + 1], Operands[((i - 1) \div 18) + 1])
NumOperator == 18 * 7

\* The edges of arithmetic, of constant folding and of the immediate operands.
Minus(i) == Un("-", N(i))
MinInteger == Bin("-", Minus(127), N(1))
Edges == <<N(0), Minus(1), MinInteger, N(127), N(8), Minus(8), F(0, 1), Un("-", F(1, 2))>>
EdgeOperators == <<"+", "-", "*", "//", "%", "<<", ">>", "~", "<", "==">>
EdgeProgram(op, e) ==
    Chunk([i \in DOMAIN Edges |->
            Out(<<Pcall(<<Return(<<Bin(op, e, Edges[i])>>)>>, << >>),
                  Pcall(<<Let("a", e), Return(<<Bin(op, V("a"), Edges[i])>>)>>, << >>),
                  Pcall(<<Let("b", Edges[i]), Return(<<Bin(op, e, V("b"))>>)>>, << >>)>>)])
EdgeAt(i) == EdgeProgram(EdgeOperators[((i - 1) % 10) + 1], Edges[((i - 1) \div 10) + 1])
NumEdge == 80

--------------------------------------------------------------------------
\* Conditions, as values and as tests.

Atoms == <<Lit(Nil), V("f"), Bin("<", V("x"), N(5)), Call("id", <<V("x")>>), True, Un("not", V("x"))>>
LogicProgram(e(_)) ==
    Chunk(<<Lets(<<"x", "f">>, <<N(3), False>>), Def("id", <<"v">>, <<Return(<<V("v")>>)>>)>>
          \o FlattenSeq([i \in 1 .. 4 |-> <<Out(<<e(Atoms[i]), Un("not", e(Atoms[i]))>>), If(e(Atoms[i]), <<Out(<<N(1)>>)>>, <<Out(<<N(2)>>)>>)>>]))
\* first op1 second op2 third, in both orders.
LogicAt(i) ==
    LET op(bit) == IF ((i - 1) \div bit) % 2 = 0 THEN "and" ELSE "or"
        first == Atoms[((i - 1) \div 32) + 1]
        second == Atoms[(((i - 1) \div 8) % 4) + 1]
    IN LogicProgram(LAMBDA third : IF (i % 2) = 0 THEN Bin(op(4), Bin(op(2), first, second), third)
                                   ELSE Bin(op(2), first, Bin(op(4), second, third)))
NumLogic == 6 * 32

--------------------------------------------------------------------------
\* Variables to close, and closures over them, in every kind of block and
\* with every way out of it.

Mk(raises) ==
    Def("mk", <<"n">>,
        <<Return(<<Meta(TableNode(<< >>), <<Field("__close", Fn(<<"o", "e">>, "",
            <<Out(<<S("close"), V("n"), V("e")>>)>> \o (IF raises THEN <<Call("error", <<V("n")>>)>> ELSE << >>)))>>)>>)>>)
Closing(x, n) == Local(<<x>>, <<"close">>, <<Call("mk", <<N(n)>>)>>)
WaysOut ==
    <<<<Out(<< >>)>>, <<Goto("done")>>, <<If(Bin("<", V("n"), N(2)), <<Goto("again")>>, NoElse)>>, <<Return(<<V("i"), V("n")>>)>>,
      <<Return(<<Call("g", << >>)>>)>>, <<Call("error", <<S("e")>>)>>, <<Break>>>>
ClosingBody(exit) ==
    <<Label("again"), Increment("n"), Let("c", V("n")), Closing("a", 1), Set1("g", Lambda(<< >>, V("c"))), Closing("b", 2),
      If(Bin("==", V("i"), N(1)), exit, NoElse), Out(<<S("end"), V("i")>>)>>
BlockKinds(body) ==
    <<<<Let("i", N(1)), Block(body)>>,
      <<Let("i", N(0)), While(Bin("<", V("i"), N(2)), <<Increment("i"), Block(body)>>)>>,
      <<Let("i", N(0)), Repeat(<<Increment("i")>> \o <<Block(body)>>, Bin(">", V("i"), N(1)))>>,
      <<For("i", <<N(1), N(2)>>, body)>>,
      <<ForIn(<<"i">>, <<V("it"), N(2), N(0), Call("mk", <<N(3)>>)>>, body)>>>>
IterateTo == Def("it", <<"s", "i">>, <<If(Bin("<", V("i"), V("s")), <<Return(<<Bin("+", V("i"), N(1))>>)>>, NoElse)>>)
ClosingProgram(kind, exit, raises) ==
    Chunk(<<Mk(raises), IterateTo, Local(<<"g">>, <<"">>, << >>),
            Def("main", << >>, <<Let("n", N(0))>> \o BlockKinds(ClosingBody(WaysOut[exit]))[kind] \o <<Label("done"), Out(<<V("n")>>)>>),
            Out(<<Call("pcall", <<V("main")>>)>>), Out(<<Call("g", << >>)>>)>>)
\* A break needs a loop around it.
ClosingAt(i) ==
    LET kind == ((i - 1) % 5) + 1
        exit == (((i - 1) \div 5) % 7) + 1
        p == ClosingProgram(kind, IF kind = 1 /\ exit = 7 THEN 1 ELSE exit, i > 35)
    IN [p EXCEPT !.stoppable = i % 9 = 0]
NumClosing == 70

--------------------------------------------------------------------------
\* Statements, one feature after the other.

Counter(x) == Fn(<< >>, "", <<Increment(x), Return(<<V(x)>>)>>)
Many(n, e(_)) == [i \in 1 .. n |-> e(i)]
AllEvents == <<"index", "newindex", "unm", "len", "bnot", "eq", "lt", "le", "concat", "call">>
Witness == TableNode([i \in DOMAIN AllEvents |-> Field("__" \o AllEvents[i], Fn(<<"p", "q", "r">>, "", <<Out(<<S(AllEvents[i]), V("q"), V("r")>>), Return(<<N(i)>>)>>))])
Statements == <<
    \* assignments: all is evaluated before the first one
    <<Lets(<<"i", "t">>, <<N(1), TableNode(<< >>)>>), Assign(<<V("i"), Idx(V("t"), V("i"))>>, <<Bin("+", V("i"), N(1)), N(20)>>),
            Assign(<<Idx(V("t"), V("i")), V("i")>>, <<N(5), N(3)>>), Out(<<V("i"), Idx(V("t"), N(1)), Idx(V("t"), N(2))>>), Lets(<<"a", "b", "c">>, <<N(1), N(2)>>),
            Assign(<<V("a"), V("b"), V("c")>>, <<V("b"), V("a")>>), Out(<<V("a"), V("b"), V("c")>>),
            Assign(<<Dot("t", "x"), V("t")>>, <<N(2), N(1)>>), Out(<<V("t")>>)>>,
    <<Lets(<<"s", "x">>, <<S("10"), N(3)>>), Out(<<Un("-", V("s")), Bin("^", V("x"), N(2)), Bin("^", N(2), V("x")), Bin("^", V("s"), V("x")), Bin("^", N(2), N(5))>>),
            Let("o", Meta(TableNode(<< >>), <<Field("__index", Lambda(<<"o", "k">>, Fn(<<"self", "n">>, "", <<Return(<<V("k"), V("n")>>)>>)))>>)), Out(<<Method(V("o"), "z", <<N(1)>>)>>)>>,
    \* what an upvalue is indexed by may be assigned too
    <<Lets(<<"k", "t">>, <<S("a"), TableNode(<<Field("a", N(1))>>)>>),
            Def("f", << >>, <<Assign(<<Dot("t", "a"), V("t"), Idx(V("t"), V("k"))>>, <<N(5), N(6), N(7)>>), Return(<<V("t")>>)>>),
            Let("old", V("t")), Out(<<Call("f", << >>), Dot("old", "a")>>)>>,
    \* closures share a variable, and each turn of a loop has its own
    <<Local(<<"f">>, <<"">>, <<TableNode(<< >>)>>),
            For("i", <<N(1), N(3)>>, <<Let("j", Bin("*", V("i"), N(10))), Assign(<<Idx(V("f"), V("i"))>>, <<Counter("j")>>)>>),
            Out(<<CallNode(Idx(V("f"), N(1)), << >>), CallNode(Idx(V("f"), N(1)), << >>), CallNode(Idx(V("f"), N(2)), << >>)>>),
            Let("n", N(0)), Lets(<<"up", "get">>, <<Counter("n"), Lambda(<< >>, V("n"))>>), Call("up", << >>), Set1("n", N(5)),
            Out(<<Call("up", << >>), Call("get", << >>), V("n")>>)>>,
    \* functions in functions in functions
    <<Def("a", <<"x">>, <<Return(<<Fn(<<"y">>, "", <<Return(<<Fn(<<"z">>, "", <<Set1("x", Bin("+", V("x"), V("z"))), Return(<<V("x"), V("y"), V("z")>>)>>)>>)>>)>>)>>),
            Let("b", CallNode(Call("a", <<N(1)>>), <<N(2)>>)), Out(<<Call("b", <<N(3)>>)>>), Out(<<Call("b", <<N(4)>>)>>)>>,
    \* until sees the variables of its block, which a closure keeps
    <<Lets(<<"i", "g">>, <<N(0)>>),
            Repeat(<<Increment("i"), Let("z", V("i")), Set1("g", Fn(<< >>, "", <<Increment("z"), Return(<<V("z")>>)>>)),
                     If(Bin("==", V("i"), N(5)), <<Break>>, NoElse)>>, Bin(">", Call("g", << >>), N(3))),
            Out(<<V("i"), Call("g", << >>)>>)>>,
    \* goto forth and back, and out of nested loops
    <<Let("n", N(0)), Label("top"), Increment("n"), Let("v", V("n")), If(Bin("<", V("n"), N(3)), <<Goto("top")>>, NoElse),
            For("i", <<N(1), N(3)>>, <<For("j", <<N(1), N(3)>>,
                <<If(Bin("==", V("j"), N(2)), <<Goto("next")>>, NoElse), If(Bin("==", V("i"), N(3)), <<Goto("out_")>>, NoElse),
                  Let("c", V("j")), Out(<<V("i"), V("c")>>), Label("next")>>)>>),
            Label("out_"), Out(<<V("v")>>)>>,
    \* variable arguments, with and without a name
    <<LocalFn("f", Fn(<<"p">>, "...", <<Lets(<<"a", "b">>, <<VarArgs>>), Out(<<V("p"), V("a"), V("b"), VarArgs>>),
                                         Return(<<VarArgs, Paren(VarArgs), VarArgs>>)>>)),
            Out(<<Call("f", <<N(1), N(2), N(3)>>)>>), Out(<<Call("f", << >>), Paren(Call("f", <<N(1), N(2), N(3)>>))>>),
            Out(<<TableNode(<<<<Call("f", <<N(1), N(2)>>)>>, Field("x", N(0)), <<Call("f", <<N(1), N(2)>>)>>>>)>>)>>,
    <<LocalFn("f", Fn(<<"p">>, "v", <<Let("i", N(2)), Out(<<Dot("v", "n"), Idx(V("v"), N(1)), Idx(V("v"), V("i")), Dot("v", "x"),
                                                       Idx(V("v"), N(0)), Idx(V("v"), F(1, 1)), VarArgs>>)>>)),
            LocalFn("g", Fn(<<"p">>, "v", <<Set1("p", V("v")), Assign(<<Dot("p", "n")>>, <<N(1)>>), Return(<<VarArgs>>)>>)),
            LocalFn("h", Fn(<< >>, "v", <<Assign(<<Dot("v", "n")>>, <<S("x")>>), Return(<<VarArgs>>)>>)),
            LocalFn("k", Fn(<< >>, "v", <<Return(<<Fn(<< >>, "", <<Return(<<Idx(V("v"), N(2))>>)>>)>>)>>)),
            Call("f", <<N(1), N(2), N(3)>>), Call("f", << >>), Out(<<Call("g", <<N(1), N(2), N(3)>>)>>),
            Out(<<Paren(Call("pcall", <<V("g")>>)), CallNode(Call("k", <<N(7), N(8)>>), << >>)>>)>>,
    \* tail calls take no stack, and leave no open variable behind
    <<LocalFn("f", Fn(<<"n">>, "...", <<Let("m", V("n")), Let("g", Lambda(<< >>, V("m"))),
                                         If(Bin("==", V("n"), N(0)), <<Return(<<Call("g", << >>), VarArgs>>)>>, NoElse),
                                         Return(<<Call("f", <<Bin("-", V("n"), N(1)), Call("g", << >>), VarArgs>>)>>)>>)),
            Def("s", <<"n">>, <<If(Bin("==", V("n"), N(0)), <<Return(<<S("done")>>)>>, NoElse), Return(<<Call("s", <<Bin("-", V("n"), N(1))>>)>>)>>),
            Out(<<Call("f", <<N(3)>>)>>), Out(<<Call("s", <<N(30)>>)>>), Def("t", << >>, <<Return(<<Call("out", <<N(1)>>)>>)>>), Out(<<Call("t", << >>)>>)>>,
    \* tables
    <<Def("f", << >>, <<Return(<<N(8), N(9)>>)>>),
            Let("t", TableNode(<<<<N(1)>>, Field("x", N(2)), <<N(3)>>, <<Bin("..", S("a"), S("b")), N(4)>>, <<N(5)>>, <<N(6)>>, <<Call("f", << >>)>>>>)),
            Out(<<Un("#", V("t")), Dot("t", "x"), Dot("t", "ab"), Idx(V("t"), N(2)), Idx(V("t"), N(5)), Idx(V("t"), F(6, 1))>>),
            Assign(<<Idx(V("t"), F(7, 1))>>, <<N(1)>>), Assign(<<Idx(V("t"), N(6))>>, <<Lit(Nil)>>), Out(<<Idx(V("t"), N(7)), Idx(V("t"), N(6))>>),
            Out(<<Pcall(<<Assign(<<Idx(V("t"), Lit(Nil))>>, <<N(1)>>)>>, << >>), Pcall(<<Assign(<<Idx(V("t"), Bin("/", N(0), N(0)))>>, <<N(1)>>)>>, << >>),
                  Idx(V("t"), Lit(Nil))>>)>>,
    \* more constants than an operand can name, long constructors and long jumps
    <<Let("t", TableNode(Many(36, LAMBDA i : <<F((2 * i) + 1, 2)>>))), Out(<<Idx(V("t"), N(1)), Idx(V("t"), N(36)), Un("#", V("t"))>>),
            Out(<<Bin("+", V("t"), F(73, 2))>>)>>,
    <<Let("x", TableNode(Many(36, LAMBDA i : <<F((2 * i) + 1, 2)>>))), GlobalDecl("y", <<N(1)>>), GlobalDecl("out", << >>), Set1("y", N(2)), Out(<<F(1, 4), Bin("*", V("y"), F(3, 4))>>)>>,
    \* numeric loops at the ends of the range
    <<For("i", <<N(125), N(127)>>, <<Out(<<V("i")>>)>>), For("i", <<Minus(126), MinInteger, Minus(1)>>, <<Out(<<V("i")>>)>>),
            For("i", <<N(126), F(1, 0), N(5)>>, <<Out(<<V("i")>>)>>), For("i", <<N(1), F(5, 2)>>, <<Out(<<V("i")>>)>>),
            For("i", <<F(1, 1), N(2), F(1, 2)>>, <<Out(<<V("i")>>)>>), For("i", <<N(2), N(1)>>, <<Out(<<V("i")>>)>>),
            For("i", <<N(100), Minus(100), Minus(100)>>, <<Out(<<V("i")>>)>>), For("i", <<N(1), Un("-", F(1, 0))>>, <<Out(<<V("i")>>)>>)>>,
    <<Out(<<Pcall(<<For("i", <<N(1), N(2), N(0)>>, << >>)>>, << >>), Pcall(<<For("i", <<V("x"), N(2)>>, << >>)>>, << >>)>>),
            Out(<<Pcall(<<For("i", <<N(1), V("x")>>, << >>)>>, << >>), Pcall(<<For("i", <<N(1), F(2, 1), V("x")>>, << >>)>>, << >>),
                  Pcall(<<For("i", <<F(1, 1), N(2), F(0, 1)>>, << >>)>>, << >>)>>)>>,
    \* handlers
    <<Let("m", Witness), Let("o", Call("setmetatable", <<TableNode(<<Field("k", N(0))>>), V("m")>>)),
            Out(<<Dot("o", "k"), Dot("o", "z"), Idx(V("o"), N(1)), Un("-", V("o")), Un("#", V("o")), Un("~", V("o"))>>),
            Assign(<<Dot("o", "k")>>, <<N(1)>>), Assign(<<Dot("o", "z")>>, <<N(2)>>), Assign(<<Idx(V("o"), N(1))>>, <<N(3)>>),
            Out(<<Dot("o", "k"), Call("o", <<N(4)>>), Bin("..", S("a"), Bin("..", V("o"), S("b"))), Bin("<", V("o"), F(2, 1)), Bin(">=", N(1), V("o"))>>)>>,
    <<Let("m", Witness), Let("o", Call("setmetatable", <<TableNode(<< >>), V("m")>>)), Let("p", Meta(TableNode(<< >>), << >>)),
            If(Bin("==", V("p"), V("o")), <<Out(<<N(1)>>)>>, <<Out(<<N(2)>>)>>), If(Bin("<", V("o"), V("p")), <<Out(<<N(1)>>)>>, <<Out(<<N(2)>>)>>),
            Out(<<Bin("~=", V("o"), V("p")), Bin("==", V("o"), V("o")), Un("not", Bin("<=", V("p"), V("o"))), Un("not", V("o"))>>),
            Return(<<Call("o", <<N(1), N(2)>>)>>)>>,
    \* a handler that is a table, and one that comes later than the first miss
    <<Lets(<<"b", "m">>, <<TableNode(<<Field("y", N(1))>>), TableNode(<< >>)>>), Let("o", Call("setmetatable", <<TableNode(<< >>), V("m")>>)),
            Out(<<Dot("o", "y"), Un("#", V("o")), Bin("==", V("o"), V("b"))>>), Assign(<<Dot("m", "__index")>>, <<V("b")>>),
            Assign(<<Dot("m", "__newindex")>>, <<V("b")>>), Assign(<<Dot("m", "__len")>>, <<Lambda(<< >>, N(9))>>),
            Assign(<<Dot("m", "__eq")>>, <<Lambda(<< >>, True)>>), Assign(<<Dot("o", "z")>>, <<N(2)>>),
            Out(<<Dot("o", "y"), Dot("b", "z"), Un("#", V("o")), Bin("==", V("o"), V("b"))>>)>>,
    \* a call of an object whose handler is an object, a method, and a loop of handlers
    <<Let("c", Meta(TableNode(<< >>), <<Field("__call", Meta(TableNode(<< >>), <<Field("__call", Fn(<<"p", "q", "r">>, "", <<Return(<<V("r"), S("r")>>)>>))>>))>>)),
            Out(<<Call("c", <<N(5)>>)>>), Def("t", << >>, <<Return(<<Call("c", <<N(6)>>)>>)>>), Out(<<Call("t", << >>)>>),
            Out(<<Call("pcall", <<N(5)>>), Pcall(<<Call("x", << >>)>>, << >>)>>),
            Let("o", TableNode(<<Field("v", N(1)), Field("m", Fn(<<"self", "a">>, "", <<Return(<<Dot("self", "v"), V("a")>>)>>))>>)),
            Out(<<Method(V("o"), "m", <<N(2)>>)>>), Out(<<Pcall(<<Return(<<Method(V("o"), "x", << >>)>>)>>, << >>)>>)>>,
    \* errors of any value go through any number of functions
    <<Def("f", <<"e">>, <<Call("error", <<V("e")>>)>>), Def("g", <<"e">>, <<Let("x", Call("f", <<V("e")>>)), Return(<<V("x")>>)>>),
            Out(<<Call("pcall", <<V("g"), N(1)>>)>>), Out(<<Call("pcall", <<V("pcall"), V("g"), S("e")>>)>>), Out(<<Call("pcall", <<V("g")>>)>>),
            Out(<<Call("pcall", <<V("g"), TableNode(<< >>)>>)>>), Call("g", <<S("last")>>), Out(<<N(1)>>)>>,
    \* what is no closable value, and what is none but may be
    <<Out(<<Pcall(<<Local(<<"a">>, <<"close">>, <<N(1)>>)>>, << >>)>>), Block(<<Local(<<"a">>, <<"close">>, <<False>>), Local(<<"b">>, <<"close">>, <<Lit(Nil)>>), Out(<<V("a")>>)>>),
            Mk(FALSE), Out(<<Pcall(<<Closing("a", 1), Local(<<"b">>, <<"close">>, <<TableNode(<< >>)>>)>>, << >>)>>),
            Local(<<"k">>, <<"const">>, <<N(7)>>), Local(<<"j">>, <<"const">>, <<V("k")>>), Out(<<Bin("+", V("k"), V("j")), Bin("*", V("j"), F(1, 2))>>)>>,
    \* globals
    <<Set1("u", N(1)), Out(<<V("u"), V("w")>>), GlobalDecl("w", <<N(2)>>), GlobalDecl("out", << >>), Out(<<V("w")>>),
            GlobalDecl("w", <<N(3)>>), Out(<<N(1)>>)>>>>
StatementAt(i) == Chunk(Statements[i])

--------------------------------------------------------------------------
\* Programs about the stack and about coroutines, with what they are to show.

Given(body, out, result) == [Chunk(body) EXCEPT !.given = {[out |-> out, result |-> result]}]
Failed == <<Bool(FALSE), Fault>>
Done(vs) == <<Bool(TRUE)>> \o vs
I(i) == Integer(i)
T(s) == Str(s)
Resume(args) == Out(<<Call("resume", args)>>)
Status(x) == Call("status", <<V(x)>>)
Coroutine(x, params, body) == Let(x, Call("create", <<Fn(params, "...", body)>>))
YieldsIn(event) == Field("__" \o event, Lambda(<<"p", "q">>, Call("yield", <<S(event)>>)))
GivenPrograms == <<
    \* recursion runs out of stack, and there is room again behind it
    Given(<<Def("r", << >>, <<Return(<<Bin("+", Call("r", << >>), N(1))>>)>>), Out(<<Call("pcall", <<V("r")>>)>>),
            Out(<<Call("pcall", <<V("r")>>)>>)>>, <<Failed, Failed>>, <<"ok">>),
    \* values go in and out of a coroutine, which fails in the end
    Given(<<Coroutine("co", <<"a">>, <<Let("b", Call("yield", <<Bin("+", V("a"), N(1))>>)), Out(<<V("b")>>), Call("error", <<S("e")>>)>>),
            Resume(<<V("co"), N(1)>>), Out(<<Status("co")>>), Resume(<<V("co"), N(5)>>), Out(<<Status("co")>>), Resume(<<V("co")>>)>>,
          <<Done(<<I(2)>>), <<T("suspended")>>, <<I(5)>>, <<Bool(FALSE), T("e")>>, <<T("dead")>>, Failed>>, <<"ok">>),
    \* a generator, and one resumed by a coroutine
    Given(<<LocalFn("gen", Fn(<<"n">>, "", <<Return(<<Call("wrap", <<Fn(<< >>, "", <<For("i", <<N(1), V("n")>>, <<Call("yield", <<V("i")>>)>>)>>)>>)>>)>>)),
            ForIn(<<"x">>, <<Call("gen", <<N(2)>>)>>, <<Let("w", Call("gen", <<V("x")>>)), Out(<<V("x"), Call("w", << >>), Call("w", << >>)>>)>>),
            Let("w", Call("gen", <<N(0)>>)), Call("w", << >>), Out(<<Call("pcall", <<V("w")>>)>>), Out(<<Call("pcall", <<V("yield"), N(1)>>)>>)>>,
          <<<<I(1), I(1)>>, <<I(2), I(1), I(2)>>, Failed, Failed>>, <<"ok">>),
    \* a yield in a protected call and in a variable that is closed
    Stoppable(Given(<<Let("co", Call("wrap", <<Fn(<< >>, "", <<
                Lets(<<"ok", "e">>, <<Pcall(<<Local(<<"x">>, <<"close">>, <<Meta(TableNode(<< >>), <<Field("__close",
                     Fn(<<"o", "e">>, "", <<Call("yield", <<S("c")>>), Out(<<V("e")>>)>>))>>)>>), Call("yield", <<N(1)>>), Call("error", <<S("e")>>)>>, << >>)>>),
                Out(<<V("ok"), V("e")>>), Return(<<N(9)>>)>>)>>)),
            Out(<<Call("co", << >>), Call("co", << >>), Call("co", << >>)>>)>>,
          <<<<T("e")>>, <<Bool(FALSE), T("e")>>, <<I(1), T("c"), I(9)>>>>, <<"ok">>)),
    \* a suspended coroutine is closed, with a variable that fails
    Stoppable(Given(<<Mk(TRUE), Coroutine("co", << >>, <<Closing("a", 1), Closing("b", 2), Let("u", N(7)), Set1("g", Lambda(<< >>, V("u"))), Call("yield", << >>)>>),
            Resume(<<V("co")>>), Out(<<Call("close", <<V("co")>>)>>), Out(<<Status("co"), Call("g", << >>)>>), Out(<<Call("close", <<V("co")>>)>>)>>,
          <<Done(<< >>), <<T("close"), I(2), Nil>>, <<T("close"), I(1), I(2)>>, <<Bool(FALSE), I(1)>>, <<T("dead"), I(7)>>, Done(<< >>)>>, <<"ok">>)),
    \* a failed coroutine keeps its variables until it is closed
    Given(<<Mk(FALSE), Coroutine("co", << >>, <<Closing("a", 1), Call("error", <<S("e")>>)>>), Resume(<<V("co")>>), Out(<<Status("co")>>),
            Out(<<Call("close", <<V("co")>>)>>), Out(<<Call("close", <<V("co")>>)>>),
            Let("w", Call("wrap", <<Fn(<< >>, "", <<Closing("a", 2), Call("error", <<S("f")>>)>>)>>)), Out(<<Call("pcall", <<V("w")>>)>>), Out(<<Call("pcall", <<V("w")>>)>>)>>,
          <<<<Bool(FALSE), T("e")>>, <<T("dead")>>, <<T("close"), I(1), T("e")>>, <<Bool(FALSE), T("e")>>, Done(<< >>),
            <<T("close"), I(2), T("f")>>, <<Bool(FALSE), T("f")>>, Failed>>, <<"ok">>),
    \* a coroutine that resumes and closes itself, and one that resumes its own resumer
    Stoppable(Given(<<Mk(FALSE), Lets(<<"co", "d">>, << >>), Set1("d", Call("create", <<Fn(<< >>, "", <<Out(<<Status("co")>>), Resume(<<V("co")>>), Out(<<Call("pcall", <<V("close"), V("co")>>)>>)>>)>>)),
            Set1("co", Call("create", <<Fn(<< >>, "", <<Closing("a", 1), Out(<<Status("co"), Call("resume", <<V("co")>>)>>), Resume(<<V("d")>>), Call("close", << >>), Out(<<N(1)>>)>>)>>)),
            Resume(<<V("co")>>), Out(<<Status("co"), Status("d")>>), Out(<<Call("pcall", <<V("close")>>)>>)>>,
          <<<<T("running")>> \o Failed, <<T("normal")>>, Failed, Failed, Done(<< >>), <<T("close"), I(1), Nil>>, Done(<< >>),
            <<T("dead"), T("dead")>>, Failed>>, <<"ok">>)),
    \* a yield out of every handler
    Given(<<Let("o", Meta(TableNode(<< >>), <<YieldsIn("index"), YieldsIn("newindex"), YieldsIn("add"), YieldsIn("lt"), YieldsIn("concat"), YieldsIn("len"), YieldsIn("eq")>>)),
            Coroutine("co", << >>, <<Out(<<Bin("+", V("o"), N(1)), Bin("+", N(100), V("o")), Dot("o", "z"), Un("#", V("o"))>>), Out(<<Bin("..", S("a"), Bin("..", V("o"), S("b")))>>),
                If(Bin("<", V("o"), N(1)), <<Out(<<N(1)>>)>>, <<Out(<<N(2)>>)>>), Out(<<Bin("==", V("o"), Call("setmetatable", <<TableNode(<< >>)>> \o <<TableNode(<< >>)>>))>>),
                Assign(<<Dot("o", "y")>>, <<N(3)>>), ForIn(<<"i">>, <<V("yield"), S("it")>>, <<Out(<<V("i")>>)>>), Return(<<S("z")>>)>>),
            For("i", <<N(1), N(9)>>, <<Out(<<Call("resume", <<V("co"), V("i")>>)>>)>>), Resume(<<V("co")>>)>>,
          <<Done(<<T("add")>>), Done(<<T("add")>>), Done(<<T("index")>>), Done(<<T("len")>>), <<I(2), I(3), I(4), I(5)>>, Done(<<T("concat")>>),
            <<T("a6")>>, Done(<<T("lt")>>), <<I(1)>>, Done(<<T("eq")>>), <<Bool(TRUE)>>, Done(<<T("newindex")>>),
            Done(<<T("it"), Nil>>), Done(<<T("z")>>)>>, <<"ok">>)>>

--------------------------------------------------------------------------
\* Programs about the string library: malformed patterns, arguments and results.

BadPatterns == <<"a%", "[a", "[", "[^", "[%", "[]", "[a%]", "%b", "%ba", "%f", "%fa", "%f[a", "(a", "a)", "(()", "%1", "(%1)", "()%2", "%0",
                 "()()()()()", "(()a)(b)(.-)">>
ProtectedCall(f, args) == Out(<<Call("pcall", <<V(f)>> \o args)>>)
BadProgram == Given([i \in DOMAIN BadPatterns |-> ProtectedCall("str_match", <<S("ab)"), S(BadPatterns[i])>>)], [i \in DOMAIN BadPatterns |-> Failed], <<"ok">>)
OutCall(f, args) == Out(<<Call(f, args)>>)
StringPrograms == <<
    BadProgram,
    \* the greatest depth and number of captures, and places to begin
    Given(<<OutCall("str_match", <<S("ab)"), S("(()a)(b)(%))")>>),
            OutCall("str_find", <<S("abab"), S("b"), N(3)>>), OutCall("str_find", <<S("abab"), S("b"), Minus(2)>>), OutCall("str_find", <<S("abab"), S(""), N(5)>>),
            OutCall("str_find", <<S("abab"), S(""), N(6)>>), OutCall("str_find", <<S("a.b"), S("."), Minus(9), True>>), OutCall("str_find", <<S("a.b"), S("%."), N(0)>>),
            OutCall("str_match", <<S("abab"), S("^b"), N(2)>>), OutCall("str_match", <<S("x^b"), S("^b")>>), OutCall("str_match", <<N(12), N(2)>>), OutCall("str_find", <<S("ab"), S("abc")>>)>>,
          <<<<T("a"), I(1), T("b"), T(")")>>, <<I(4), I(4)>>, <<I(4), I(4)>>, <<I(5), I(4)>>, <<Nil>>, <<I(2), I(2)>>, <<I(2), I(2)>>,
            <<T("b")>>, <<Nil>>, <<T("2")>>, <<Nil>>>>, <<"ok">>),
    \* replacements
    Given(<<OutCall("str_gsub", <<S("abab"), S("(a)()"), S("%2%%%0")>>), OutCall("str_gsub", <<S("abab"), S("b"), N(1), N(1)>>), OutCall("str_gsub", <<S("abab"), S("a"), S(""), N(0)>>),
            OutCall("str_gsub", <<S("ab"), S("^"), S("x")>>), OutCall("str_gsub", <<S("ab"), S("b*"), S("-")>>),
            ProtectedCall("str_gsub", <<S("ab"), S("a"), S("%2")>>), ProtectedCall("str_gsub", <<S("ab"), S("a"), S("%")>>), ProtectedCall("str_gsub", <<S("ab"), S("(a"), S("%1")>>),
            ProtectedCall("str_gsub", <<S("ab"), S("c"), S("%2")>>), ProtectedCall("str_gsub", <<S("ab"), S("a")>>), ProtectedCall("str_find", <<S("ab"), S("a"), S("x")>>)>>,
          <<<<T("2%ab4%ab"), I(2)>>, <<T("a1ab"), I(1)>>, <<T("abab"), I(0)>>, <<T("xab"), I(1)>>, <<T("-a-"), I(2)>>, Failed, Failed, Failed,
            Done(<<T("ab"), I(0)>>), Failed, Failed>>, <<"ok">>),
    \* the plain functions
    Given(<<OutCall("str_sub", <<S("abc"), N(2)>>), OutCall("str_sub", <<S("abc"), Minus(2), Minus(2)>>), OutCall("str_sub", <<S("abc"), N(0), N(9)>>), OutCall("str_sub", <<S("abc"), Minus(9), Minus(9)>>),
            OutCall("str_sub", <<S("abc"), N(3), N(2)>>), OutCall("str_sub", <<S("abc"), N(7)>>), OutCall("str_reverse", <<S("abc")>>), OutCall("str_upper", <<S("a1-Z")>>), OutCall("str_lower", <<S("a1-Z")>>),
            OutCall("str_rep", <<S("ab"), N(3), S("-")>>), OutCall("str_rep", <<S("ab"), N(0)>>), OutCall("str_rep", <<S(""), N(100)>>), OutCall("str_rep", <<S(""), N(3), S("-")>>), OutCall("str_rep", <<N(7), N(2)>>),
            ProtectedCall("str_rep", <<S("ab"), N(7)>>), ProtectedCall("str_rep", <<S("ab"), N(4), S("-")>>), ProtectedCall("str_rep", <<S("ab"), N(5), S("-")>>),
            ProtectedCall("str_rep", <<S("ab")>>), ProtectedCall("str_sub", <<S("ab"), F(1, 2)>>), ProtectedCall("str_upper", << >>)>>,
          <<<<T("bc")>>, <<T("b")>>, <<T("abc")>>, <<T("")>>, <<T("")>>, <<T("")>>, <<T("cba")>>, <<T("A1-Z")>>, <<T("a1-z")>>, <<T("ab-ab-ab")>>, <<T("")>>, <<T("")>>, <<T("--")>>, <<T("77")>>,
            Failed, Done(<<T("ab-ab-ab-ab")>>), Failed, Failed, Failed, Failed>>, <<"ok">>)>>

--------------------------------------------------------------------------
\* Programs that the compiler refuses.

NoOutcome == [out |-> << >>, result |-> << >>]
RefusedBodies == <<
    <<Break>>, <<Goto("x")>>, <<Label("x"), Label("x")>>,
    <<Goto("x"), Let("a", N(1)), Label("x"), Out(<<V("a")>>)>>, <<Local(<<"a">>, <<"const">>, <<N(1)>>), Set1("a", N(2))>>,
    <<Closing("a", 1), Def("f", << >>, <<Set1("a", N(2))>>)>>, <<Local(<<"a", "b">>, <<"close", "close">>, << >>)>>,
    <<Def("f", << >>, <<Return(<<VarArgs>>)>>)>>, <<GlobalDecl("a", << >>), Set1("b", N(1))>>,
    <<Lets(Many(12, LAMBDA i : "a"), << >>)>>, <<Label("t"), Repeat(<<Goto("u"), Let("a", N(1)), Label("u")>>, V("a"))>>>>
RefusedAt(i) == [Chunk(RefusedBodies[i]) EXCEPT !.given = {NoOutcome}, !.refused = TRUE]

--------------------------------------------------------------------------
\* All of them, by number.

ProgramCount == NumOperator + NumEdge + NumLogic + NumClosing + Len(Statements) + Len(GivenPrograms) + Len(RefusedBodies)
                + Len(StringPrograms)
Listed(n) ==
    LET edge == n - NumOperator
        logic == edge - NumEdge
        closing == logic - NumLogic
        statement == closing - NumClosing
        given == statement - Len(Statements)
        refused == given - Len(GivenPrograms)
        string == refused - Len(RefusedBodies)
    IN CASE edge <= 0 -> OperatorAt(n)
         [] edge > 0 /\ logic <= 0 -> EdgeAt(edge)
         [] logic > 0 /\ closing <= 0 -> LogicAt(logic)
         [] closing > 0 /\ statement <= 0 -> ClosingAt(closing)
         [] statement > 0 /\ given <= 0 -> StatementAt(statement)
         [] given > 0 /\ refused <= 0 -> GivenPrograms[given]
         [] refused > 0 /\ string <= 0 -> RefusedAt(refused)
         [] string > 0 -> StringPrograms[string]
Complete(p) ==
    [tokens |-> Source(p.body), outcome |-> CHOOSE o \in (IF p.given = {} THEN {Meaning(p.body)} ELSE p.given) : TRUE,
     refused |-> p.refused, stoppable |-> p.stoppable]
ProgramAt(n) == CHOOSE q \in {Complete(p) : p \in {Listed(n)}} : TRUE
=============================================================================
