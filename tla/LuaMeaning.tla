----------------------------- MODULE LuaMeaning -----------------------------
(***************************************************************************)
(* What a Lua program means, from its syntax tree, as the language is      *)
(* described and not as src/lua executes it: variables are cells, blocks   *)
(* nest, and there are no registers, jumps or frames.  LuaVm is to give    *)
(* the same calls of "out" and the same result.                            *)
(*                                                                         *)
(* A node is a tuple that begins with its kind.  S.e is the scope: the     *)
(* cells of the variables, the values to close, the innermost last, and    *)
(* the variable arguments.  S.sig is "" while the program goes on in       *)
(* sequence, S.val what an error, a goto or a return carries, S.v the      *)
(* values of the expression that was evaluated last.                       *)
(***************************************************************************)
EXTENDS LuaValues, SequencesExt

\* Nodes.
Lit(v) == <<"lit", v>>
Name(x) == <<"name", x>>
VarArgs == <<"...">>
Paren(e) == <<"paren", e>>
Idx(e, k) == <<"index", e, k>>
CallNode(f, args) == <<"call", f, args>>
Method(o, x, args) == <<"method", o, x, args>>
Fn(params, va, body) == <<"function", params, va, body>>
Bin(op, e, f) == <<"bin", op, e, f>>
Un(op, e) == <<"un", op, e>>
TableNode(items) == <<"table", items>>     \* an item is <<e>> or <<key, e>>
Local(names, attribs, exps) == <<"local", names, attribs, exps>>
LocalFn(x, f) == <<"localfunction", x, f>>
GlobalDecl(x, exps) == <<"global", x, exps>>
Assign(targets, exps) == <<"assign", targets, exps>>
Block(body) == <<"do", body>>
While(e, body) == <<"while", e, body>>
Repeat(body, e) == <<"repeat", body, e>>
If(e, body, else) == <<"if", e, body, else>>
For(x, exps, body) == <<"for", x, exps, body>>
ForIn(names, exps, body) == <<"in", names, exps, body>>
Return(exps) == <<"return", exps>>
Break == <<"break">>
Goto(x) == <<"goto", x>>
Label(x) == <<"label", x>>

--------------------------------------------------------------------------
\* The tokens of a node, with the parentheses that it needs and no others.

Priority ==
    [or |-> 1, and |-> 2] @@
    [o \in {"<", ">", "<=", ">=", "~=", "=="} |-> 3] @@ ("|" :> 4) @@ ("~" :> 5) @@ ("&" :> 6) @@ [o \in {"<<", ">>"} |-> 7] @@
    (".." :> 8) @@ [o \in {"+", "-"} |-> 9] @@ [o \in {"*", "/", "//", "%"} |-> 10] @@ ("^" :> 12)
Unary == 11
RightAssociative == {"..", "^"}
Sym(s) == <<<<s, "">>>>
Ident(x) == <<<<"<name>", x>>>>
Constant(v) ==
    CASE v = Nil -> Sym("nil")
      [] v = Bool(TRUE) -> Sym("true")
      [] v = Bool(FALSE) -> Sym("false")
      [] IsStr(v) -> <<<<"<string>", v[2]>>>>
      [] IsNumber(v) -> <<<<"<number>", v>>>>
Binding(n) == IF n[1] = "bin" THEN Priority[n[2]] ELSE IF n[1] = "un" THEN Unary ELSE 13
Commas(list) == FlattenSeq([i \in DOMAIN list |-> IF i = 1 THEN list[i] ELSE Sym(",") \o list[i]])
Assigned(list) == IF list = << >> THEN << >> ELSE Sym("=") \o Commas(list)

RECURSIVE Tokens(_)
Tokens(n) ==
    LET All(list) == [i \in DOMAIN list |-> Tokens(list[i])]
        Body(list) == FlattenSeq([i \in DOMAIN list |-> Tokens(list[i]) \o Sym(";")])
        Within(e, least) == IF Binding(e) < least THEN Sym("(") \o Tokens(e) \o Sym(")") ELSE Tokens(e)
        Args(list) == Sym("(") \o Commas(All(list)) \o Sym(")")
        Params(f) == [i \in DOMAIN f[2] |-> Ident(f[2][i])]
                     \o (CASE f[3] = "" -> << >> [] f[3] = "..." -> <<Sym("...")>> [] OTHER -> <<Sym("...") \o Ident(f[3])>>)
        FnBody(f) == Sym("(") \o Commas(Params(f)) \o Sym(")") \o Body(f[4]) \o Sym("end")
        Literal(k) == k[1] = "lit" /\ IsStr(k[2])
        Key(k) == IF Literal(k) THEN Ident(k[2][2]) ELSE Sym("[") \o Tokens(k) \o Sym("]")
        Field(i) == IF Len(i) = 1 THEN Tokens(i[1]) ELSE Key(i[1]) \o Sym("=") \o Tokens(i[2])
        Attrib(a) == IF a = "" THEN << >> ELSE Sym("<") \o Ident(a) \o Sym(">")
    IN CASE n[1] = "lit" -> Constant(n[2])
         [] n[1] = "name" -> Ident(n[2])
         [] n[1] = "..." -> Sym("...")
         [] n[1] = "paren" -> Sym("(") \o Tokens(n[2]) \o Sym(")")
         [] n[1] = "index" ->
                Tokens(n[2]) \o (IF Literal(n[3]) THEN Sym(".") ELSE << >>) \o Key(n[3])
         [] n[1] = "call" -> (IF n[2][1] = "function" THEN Sym("(") \o Tokens(n[2]) \o Sym(")") ELSE Tokens(n[2])) \o Args(n[3])
         [] n[1] = "method" -> Tokens(n[2]) \o Sym(":") \o Ident(n[3]) \o Args(n[4])
         [] n[1] = "function" -> Sym("function") \o FnBody(n)
         [] n[1] = "bin" ->
                LET p == Priority[n[2]]
                    right == n[2] \in RightAssociative
                IN Within(n[3], IF right THEN p + 1 ELSE p) \o Sym(n[2])
                   \o (IF n[4][1] = "un" THEN Tokens(n[4]) ELSE Within(n[4], IF right THEN p ELSE p + 1))
         [] n[1] = "un" -> Sym(n[2]) \o Within(n[3], Unary)
         [] n[1] = "table" -> Sym("{") \o Commas([i \in DOMAIN n[2] |-> Field(n[2][i])]) \o Sym("}")
         [] n[1] = "local" ->
                Sym("local") \o Commas([i \in DOMAIN n[2] |-> Ident(n[2][i]) \o Attrib(n[3][i])]) \o Assigned(All(n[4]))
         [] n[1] = "localfunction" -> Sym("local") \o Sym("function") \o Ident(n[2]) \o FnBody(n[3])
         [] n[1] = "global" -> Ident("global") \o Ident(n[2]) \o Assigned(All(n[3]))
         [] n[1] = "assign" -> Commas(All(n[2])) \o Assigned(All(n[3]))
         [] n[1] = "do" -> Sym("do") \o Body(n[2]) \o Sym("end")
         [] n[1] = "while" -> Sym("while") \o Tokens(n[2]) \o Sym("do") \o Body(n[3]) \o Sym("end")
         [] n[1] = "repeat" -> Sym("repeat") \o Body(n[2]) \o Sym("until") \o Tokens(n[3])
         [] n[1] = "if" ->
                Sym("if") \o Tokens(n[2]) \o Sym("then") \o Body(n[3])
                \o (IF n[4] = << >> THEN << >> ELSE Sym("else") \o Body(n[4])) \o Sym("end")
         [] n[1] = "for" ->
                Sym("for") \o Ident(n[2]) \o Assigned(All(n[3])) \o Sym("do") \o Body(n[4]) \o Sym("end")
         [] n[1] = "in" ->
                Sym("for") \o Commas([i \in DOMAIN n[2] |-> Ident(n[2][i])]) \o Sym("in") \o Commas(All(n[3]))
                \o Sym("do") \o Body(n[4]) \o Sym("end")
         [] n[1] = "return" -> Sym("return") \o Commas(All(n[2]))
         [] n[1] = "break" -> Sym("break")
         [] n[1] = "goto" -> Sym("goto") \o Ident(n[2])
         [] n[1] = "label" -> Sym("::") \o Ident(n[2]) \o Sym("::")
Source(body) == FlattenSeq([i \in DOMAIN body |-> Tokens(body[i]) \o Sym(";")]) \o Sym("<eof>")

--------------------------------------------------------------------------
\* The state of a run.

Then(S, F(_)) == IF S.sig = "" THEN F(S) ELSE S
Give(S, vs) == [S EXCEPT !.v = vs]
First(S) == IF S.v = << >> THEN Nil ELSE S.v[1]
Item(vs, i) == IF i <= Len(vs) THEN vs[i] ELSE Nil
Raise(S, v) == [S EXCEPT !.sig = "error", !.val = v]

NormKey(k) == IF IsFlt(k) /\ FltToInteger(k, "eq") # Nil THEN FltToInteger(k, "eq") ELSE k
RawGet(S, t, k) == LET map == S.tab[t].map IN IF NormKey(k) \in DOMAIN map THEN map[NormKey(k)] ELSE Nil
RawSet(S, t, k, v) == [S EXCEPT !.tab[t].map = (NormKey(k) :> v) @@ @]
Handler(S, v, e) == IF IsTable(v) /\ S.tab[v[2]].meta # 0 THEN RawGet(S, S.tab[v[2]].meta, Str("__" \o e)) ELSE Nil
HandlerOf2(S, v, w, e) == IF Handler(S, v, e) # Nil THEN Handler(S, v, e) ELSE Handler(S, w, e)
NewTable(S, map) == Give([S EXCEPT !.tab = Append(@, [map |-> map, meta |-> 0])], <<<<"table", Len(S.tab) + 1>>>>)
EmptyMap == [k \in {} |-> Nil]

\* The scope with new variables, each in a cell of its own.
Declare(S, names, vs) ==
    [S EXCEPT !.cell = @ \o [i \in DOMAIN names |-> Item(vs, i)],
              !.e.var = FoldLeft(LAMBDA m, i : (names[i] :> Len(S.cell) + i) @@ m, @, [i \in DOMAIN names |-> i])]
Lookup(S, x) == IF x \in DOMAIN S.e.var THEN S.cell[S.e.var[x]] ELSE RawGet(S, 1, Str(x))
SetName(S, x, v) == IF x \in DOMAIN S.e.var THEN [S EXCEPT !.cell[S.e.var[x]] = v] ELSE RawSet(S, 1, Str(x), v)
Remember(S, v) == IF IsFalse(v) THEN S ELSE IF Handler(S, v, "close") = Nil THEN Raise(S, Fault) ELSE [S EXCEPT !.e.close = Append(@, v)]

ArithEvent ==
    ("+" :> "add") @@ ("-" :> "sub") @@ ("*" :> "mul") @@ ("%" :> "mod") @@ ("^" :> "pow") @@ ("/" :> "div") @@ ("//" :> "idiv") @@
    ("&" :> "band") @@ ("|" :> "bor") @@ ("~" :> "bxor") @@ ("<<" :> "shl") @@ (">>" :> "shr")
\* Arithmetic takes a numeral for its number, bitwise operators do not.
Operand(e, v) == IF e \in {"band", "bor", "bxor", "shl", "shr", "bnot"} THEN v ELSE StrToN(v)
Border(S, t) == CHOOSE n \in 0 .. Cardinality(DOMAIN S.tab[t].map) : RawGet(S, t, Integer(n + 1)) = Nil /\ (n > 0 => RawGet(S, t, Integer(n)) # Nil)
Text2(v, w) == IsText(v) /\ IsText(w)
LabelAt(body, x) == {i \in DOMAIN body : body[i] = Label(x)}

--------------------------------------------------------------------------
\* Do(S, "exp", e): the values of e.  Do(S, "list", es): those of a list.
\* Do(S, "call", f, args).  Do(S, "get", t, k) and Do(S, "set", <<t, k>>, v).
\* Do(S, "un", op, v) and Do(S, "bin", op, <<v, w>>).  Do(S, "stat", n): a
\* statement.  Do(S, "run", body, <<i, scopes>>): the statements of a block
\* from the i-th on, with the scopes in front of the first i.
\* Do(S, "close", n): closes all but the first n values.
\* Do(S, "block", body): a block with a scope of its own.

RECURSIVE Do(_, _, _, _)
Exp(S, e) == Do(S, "exp", e, 0)
List(S, es) == Do(S, "list", es, 0)
InBlock(S, body) == Do(S, "block", body, 0)
\* What is left when a scope ends.
Leave(S, e) == [Do(S, "close", Len(e.close), 0) EXCEPT !.e = e]
Call1(S, f, args) == LET T == Do(S, "call", f, args) IN IF T.sig = "" THEN Give(T, <<First(T)>>) ELSE T
Truth(S, f, args) == LET T == Do(S, "call", f, args) IN IF T.sig = "" THEN Give(T, <<Bool(~IsFalse(First(T)))>>) ELSE T

EvalList(S, es) ==
    FoldLeft(LAMBDA T, i : Then(T, LAMBDA U : LET W == Exp(U, es[i])
                                              IN [W EXCEPT !.v = U.v \o IF i = Len(es) THEN W.v ELSE <<First(W)>>]),
             Give(S, << >>), [i \in DOMAIN es |-> i])
Get(S, t, k) ==
    LET h == Handler(S, t, "index")
    IN CASE IsTable(t) /\ (RawGet(S, t[2], k) # Nil \/ h = Nil) -> Give(S, <<RawGet(S, t[2], k)>>)
         [] ~IsTable(t) -> Raise(S, Fault)
         [] OTHER -> IF IsFunction(h) THEN Call1(S, h, <<t, k>>) ELSE Do(S, "get", h, k)
Set(S, t, k, v) ==
    LET h == Handler(S, t, "newindex")
    IN CASE IsTable(t) /\ (RawGet(S, t[2], k) # Nil \/ h = Nil) -> IF k \in {Nil, NaN} THEN Raise(S, Fault) ELSE RawSet(S, t[2], k, v)
         [] ~IsTable(t) -> Raise(S, Fault)
         [] OTHER -> IF IsFunction(h) THEN Do(S, "call", h, <<t, k, v>>) ELSE Do(S, "set", <<h, k>>, v)
UnOp(S, op, v) ==
    LET e == CASE op = "-" -> "unm" [] op = "~" -> "bnot" [] op = "#" -> "len" [] OTHER -> ""
        r == RawArith(e, Operand(e, v), Operand(e, v))
    IN CASE op = "not" -> Give(S, <<Bool(IsFalse(v))>>)
         [] op = "#" /\ IsStr(v) -> Give(S, <<Integer(Len(v[2]))>>)
         [] op = "#" /\ IsTable(v) /\ Handler(S, v, e) = Nil -> Give(S, <<Integer(Border(S, v[2]))>>)
         [] op \in {"-", "~"} /\ r # Nil -> Give(S, <<r>>)
         [] OTHER -> IF Handler(S, v, e) = Nil THEN Raise(S, Fault) ELSE Call1(S, Handler(S, v, e), <<v, v>>)
Less(S, v, w, orEqual) ==
    LET e == IF orEqual THEN "le" ELSE "lt"
    IN CASE IsNumber(v) /\ IsNumber(w) -> Give(S, <<Bool(IF orEqual THEN LeNum(v, w) ELSE LtNum(v, w))>>)
         [] IsStr(v) /\ IsStr(w) -> Give(S, <<Bool(IF orEqual THEN LeStr(v[2], w[2]) ELSE LtStr(v[2], w[2]))>>)
         [] OTHER -> IF HandlerOf2(S, v, w, e) = Nil THEN Raise(S, Fault) ELSE Truth(S, HandlerOf2(S, v, w, e), <<v, w>>)
Equal(S, v, w) ==
    IF RawEqual(v, w) \/ ~(IsTable(v) /\ IsTable(w)) \/ HandlerOf2(S, v, w, "eq") = Nil THEN Give(S, <<Bool(RawEqual(v, w))>>)
    ELSE Truth(S, HandlerOf2(S, v, w, "eq"), <<v, w>>)
BinOp(S, op, v, w) ==
    LET e == IF op = ".." THEN "concat" ELSE ArithEvent[op]
        r == RawArith(e, Operand(e, v), Operand(e, w))
        h == HandlerOf2(S, v, w, e)
    IN CASE op \in {"<", "<="} -> Less(S, v, w, op = "<=")
         [] op \in {">", ">="} -> Less(S, w, v, op = ">=")
         [] op = "==" -> Equal(S, v, w)
         [] op = "~=" -> Then(Equal(S, v, w), LAMBDA T : Give(T, <<Bool(IsFalse(First(T)))>>))
         [] op = ".." /\ Text2(v, w) -> Give(S, <<Str(Text(v) \o Text(w))>>)
         [] op \in DOMAIN ArithEvent /\ r # Nil -> IF IsErr(r) THEN Raise(S, Fault) ELSE Give(S, <<r>>)
         [] OTHER -> IF h = Nil THEN Raise(S, Fault) ELSE Call1(S, h, <<v, w>>)
Logical(S, op, e, f) ==
    Then(Exp(S, e), LAMBDA T : IF IsFalse(First(T)) = (op = "and") THEN Give(T, <<First(T)>>)
                               ELSE Then(Exp(T, f), LAMBDA U : Give(U, <<First(U)>>)))
\* The items that have no key are stored behind the others.
Construct(S, items) ==
    LET positional == SelectSeq([i \in DOMAIN items |-> i], LAMBDA i : Len(items[i]) = 1)
        Store(A, i) ==
            IF Len(items[i]) = 2
            THEN LET K == Exp(A[1], items[i][1])
                     V == Then(K, LAMBDA T : Exp(T, items[i][2]))
                 IN <<Then(V, LAMBDA T : IF First(K) \in {Nil, NaN} THEN Raise(T, Fault)
                                         ELSE [T EXCEPT !.tab[A[2]].map = (NormKey(First(K)) :> First(V)) @@ @]), A[2], A[3]>>
            ELSE LET V == Exp(A[1], items[i][1])
                 IN <<V, A[2], A[3] \o IF i = Len(items) THEN V.v ELSE <<First(V)>>>>
        N == NewTable(S, EmptyMap)
        R == FoldLeft(LAMBDA A, i : IF A[1].sig = "" THEN Store(A, i) ELSE A, <<N, Len(N.tab), << >>>>, [i \in DOMAIN items |-> i])
    IN Then(R[1], LAMBDA T : Give([T EXCEPT !.tab[R[2]].map = [j \in {Integer(q) : q \in DOMAIN R[3]} |-> R[3][j[2]]] @@ @],
                                  <<<<"table", R[2]>>>>))
\* The arguments behind the parameters, which live in a table if it has a name.
Extra(S) ==
    IF S.e.args[1] = "list" THEN S.e.args[2]
    ELSE [i \in 1 .. RawGet(S, S.e.args[2], Str("n"))[2] |-> RawGet(S, S.e.args[2], Integer(i))]
Eval(S, e) ==
    CASE e[1] = "lit" -> Give(S, <<e[2]>>)
      [] e[1] = "name" -> Give(S, <<Lookup(S, e[2])>>)
      [] e[1] = "..." -> Give(S, Extra(S))
      [] e[1] = "paren" -> Then(Exp(S, e[2]), LAMBDA T : Give(T, <<First(T)>>))
      [] e[1] = "index" -> Then(Exp(S, e[2]), LAMBDA T : Then(Exp(T, e[3]), LAMBDA U : Do(U, "get", First(T), First(U))))
      [] e[1] = "call" -> Then(Exp(S, e[2]), LAMBDA T : Then(List(T, e[3]), LAMBDA U : Do(U, "call", First(T), U.v)))
      [] e[1] = "method" ->
            Then(Exp(S, e[2]), LAMBDA T : Then(Do(T, "get", First(T), Str(e[3])), LAMBDA U :
                Then(List(U, e[4]), LAMBDA W : Do(W, "call", First(U), <<First(T)>> \o W.v))))
      [] e[1] = "function" -> Give([S EXCEPT !.fun = Append(@, [f |-> e, var |-> S.e.var])], <<<<"closure", Len(S.fun) + 1>>>>)
      [] e[1] = "bin" /\ e[2] \in {"and", "or"} -> Logical(S, e[2], e[3], e[4])
      [] e[1] = "bin" /\ e[2] \notin {"and", "or"} ->
            Then(Exp(S, e[3]), LAMBDA T : Then(Exp(T, e[4]), LAMBDA U : Do(U, "bin", e[2], <<First(T), First(U)>>)))
      [] e[1] = "un" -> Then(Exp(S, e[3]), LAMBDA T : Do(T, "un", e[2], First(T)))
      [] e[1] = "table" -> Construct(S, e[2])

--------------------------------------------------------------------------
\* Functions.

Enter(S, f, args) ==
    LET n == Len(f.f[2])
        extra == SubSeq(args, n + 1, Len(args))
        T == Declare([S EXCEPT !.e = [var |-> f.var, close |-> << >>, args |-> <<"list", extra>>]], f.f[2], args)
        N == NewTable(T, (Str("n") :> Integer(Len(extra))) @@ [k \in {Integer(i) : i \in DOMAIN extra} |-> extra[k[2]]])
    IN IF f.f[3] \in {"", "..."} THEN T ELSE [Declare(N, <<f.f[3]>>, N.v) EXCEPT !.e.args = <<"table", Len(N.tab)>>]
CallClosure(S, f, args) ==
    LET R == Do(Enter(S, f, args), "run", f.f[4], <<1, << >>>>)
        C == [Do(R, "close", 0, 0) EXCEPT !.e = S.e]
    IN CASE C.sig = "return" -> [Give(C, C.val) EXCEPT !.sig = ""]
         [] C.sig = "" -> Give(C, << >>)
         [] OTHER -> C
CallBuiltin(S, f, args) ==
    CASE f = "out" -> Give([S EXCEPT !.out = Append(@, args)], << >>)
      [] f = "error" -> Raise(S, IF Item(args, 1) = Nil THEN Fault ELSE args[1])
      [] f = "setmetatable" -> Give([S EXCEPT !.tab[args[1][2]].meta = IF IsTable(args[2]) THEN args[2][2] ELSE 0], <<args[1]>>)
      [] f = "pcall" ->
            LET T == Do(S, "call", Item(args, 1), Tail(args))
            IN IF T.sig = "error" THEN [Give(T, <<Bool(FALSE), T.val>>) EXCEPT !.sig = ""] ELSE Give(T, <<Bool(TRUE)>> \o T.v)
CallAny(S, f, args) ==
    CASE f[1] = "closure" -> CallClosure(S, S.fun[f[2]], args)
      [] f[1] = "cfunction" -> CallBuiltin(S, f[2], args)
      [] OTHER -> IF Handler(S, f, "call") = Nil THEN Raise(S, Fault) ELSE Do(S, "call", Handler(S, f, "call"), <<f>> \o args)

CloseAll(S, n) ==
    LET v == Last(S.e.close)
        failed == S.sig = "error"
        T == Do([S EXCEPT !.sig = "", !.e.close = Front(@)], "call", Handler(S, v, "close"), IF failed THEN <<v, S.val>> ELSE <<v>>)
    IN IF Len(S.e.close) <= n THEN S
       ELSE Do(IF T.sig = "error" THEN T ELSE [T EXCEPT !.sig = S.sig, !.val = S.val], "close", n, 0)

--------------------------------------------------------------------------
\* Statements.

RunFrom(S, body, i, scopes) ==
    LET T == Do(S, "stat", body[i], 0)
        seen == Append(scopes, S.e)
        j == CHOOSE p \in LabelAt(body, T.val) : TRUE
        there == IF j <= Len(seen) THEN seen[j] ELSE S.e
        C == Leave([T EXCEPT !.sig = ""], there)
    IN IF i > Len(body) THEN S
       ELSE IF T.sig = "" THEN Do(T, "run", body, <<i + 1, seen>>)
       ELSE IF T.sig = "goto" /\ LabelAt(body, T.val) # {}
            THEN Then(C, LAMBDA U : Do(U, "run", body, <<j, [p \in 1 .. j - 1 |-> IF p <= Len(seen) THEN seen[p] ELSE S.e]>>))
            ELSE T
\* A loop that a break leaves goes on behind it.
After(S, Again(_)) == IF S.sig = "break" THEN [S EXCEPT !.sig = ""] ELSE Then(S, Again)

RepeatOnce(S, n) ==
    LET R == Do(S, "run", n[2], <<1, << >>>>)
        C == Then(R, LAMBDA T : Exp(T, n[3]))
    IN After(Leave(C, S.e), LAMBDA T : IF IsFalse(First(C)) THEN Do(T, "stat", n, 0) ELSE T)
Loop(S, x, i, limit, step, body) ==
    LET up == LtNum(Integer(0), step)
        next == RawArith("add", i, step)
        last == LtNum(next, i) = up
        B == Leave(Do(Declare(S, <<x>>, <<i>>), "run", body, <<1, << >>>>), S.e)
    IN IF IF up THEN LtNum(limit, i) ELSE LtNum(i, limit) THEN S
       ELSE After(B, LAMBDA T : IF last THEN T ELSE Do(T, "stat", <<"loop", x, next, limit, step, body>>, 0))
NumericFor(S, n) ==
    Then(List(S, n[3]), LAMBDA T :
        LET step == IF Len(T.v) < 3 THEN Integer(1) ELSE T.v[3]
            int == IsInt(T.v[1]) /\ IsInt(step)
            start == IF int THEN T.v[1] ELSE CastNum(T.v[1])
        IN IF ~(IsNumber(T.v[1]) /\ IsNumber(Item(T.v, 2)) /\ IsNumber(step)) \/ RawEqual(step, Integer(0)) THEN Raise(T, Fault)
           ELSE Do(T, "stat", <<"loop", n[2], start, T.v[2], IF int THEN step ELSE CastNum(step), n[4]>>, 0))
Iterate(S, n, f, s, control) ==
    Then(Do(S, "call", f, <<s, control>>), LAMBDA T :
        IF First(T) = Nil THEN T
        ELSE LET B == Leave(Do(Declare(T, n[2], T.v), "run", n[4], <<1, << >>>>), S.e)
             IN After(B, LAMBDA U : Do(U, "stat", <<"iterate", n, f, s, First(T)>>, 0)))
GenericFor(S, n) ==
    Then(List(S, n[3]), LAMBDA T :
        Leave(Then(Remember(T, Item(T.v, 4)), LAMBDA U : Do(U, "stat", <<"iterate", n, Item(T.v, 1), Item(T.v, 2), Item(T.v, 3)>>, 0)), S.e))
\* The targets are evaluated first, then the values, then they are assigned.
AssignTo(S, targets, vs, places) ==
    FoldRight(LAMBDA i, T : Then(T, LAMBDA U : IF targets[i][1] = "name" THEN SetName(U, targets[i][2], Item(vs, i))
                                               ELSE Do(U, "set", places[i], Item(vs, i))),
              [i \in DOMAIN targets |-> i], S)
Places(S, targets) ==
    FoldLeft(LAMBDA A, t : IF t[1] = "name" \/ A[1].sig # "" THEN <<A[1], Append(A[2], << >>)>>
                           ELSE LET T == Exp(A[1], t[2])
                                    K == Then(T, LAMBDA U : Exp(U, t[3]))
                                IN <<K, Append(A[2], <<First(T), First(K)>>)>>,
             <<S, << >>>>, targets)
Exec(S, n) ==
    CASE n[1] = "local" ->
            Then(List(S, n[4]), LAMBDA T :
                LET D == Declare(T, n[2], T.v)
                    closed == {i \in DOMAIN n[2] : n[3][i] = "close"}
                IN IF closed = {} THEN D ELSE Remember(D, Item(T.v, CHOOSE i \in closed : TRUE)))
      [] n[1] = "localfunction" ->
            LET D == Declare(S, <<n[2]>>, << >>) IN LET F == Exp(D, n[3]) IN SetName(F, n[2], First(F))
      [] n[1] = "global" ->
            Then(List(S, n[3]), LAMBDA T : IF n[3] = << >> THEN T
                                           ELSE IF Lookup(T, n[2]) # Nil THEN Raise(T, Fault) ELSE SetName(T, n[2], First(T)))
      [] n[1] = "assign" ->
            LET P == Places(S, n[2]) IN Then(P[1], LAMBDA T : Then(List(T, n[3]), LAMBDA U : AssignTo(U, n[2], U.v, P[2])))
      [] n[1] \in {"call", "method"} -> Exp(S, n)
      [] n[1] = "do" -> InBlock(S, n[2])
      [] n[1] = "while" ->
            Then(Exp(S, n[2]), LAMBDA T : IF IsFalse(First(T)) THEN T ELSE After(InBlock(T, n[3]), LAMBDA U : Do(U, "stat", n, 0)))
      [] n[1] = "repeat" -> RepeatOnce(S, n)
      [] n[1] = "if" -> Then(Exp(S, n[2]), LAMBDA T : InBlock(T, IF IsFalse(First(T)) THEN n[4] ELSE n[3]))
      [] n[1] = "for" -> NumericFor(S, n)
      [] n[1] = "loop" -> Loop(S, n[2], n[3], n[4], n[5], n[6])
      [] n[1] = "in" -> GenericFor(S, n)
      [] n[1] = "iterate" -> Iterate(S, n[2], n[3], n[4], n[5])
      [] n[1] = "return" -> Then(List(S, n[2]), LAMBDA T : [T EXCEPT !.sig = "return", !.val = T.v])
      [] n[1] = "break" -> [S EXCEPT !.sig = "break"]
      [] n[1] = "goto" -> [S EXCEPT !.sig = "goto", !.val = n[2]]
      [] n[1] = "label" -> S

Do(S, what, x, y) ==
    CASE what = "exp" -> Eval(S, x)
      [] what = "list" -> EvalList(S, x)
      [] what = "call" -> CallAny(S, x, y)
      [] what = "get" -> Get(S, x, y)
      [] what = "set" -> Set(S, x[1], x[2], y)
      [] what = "un" -> UnOp(S, x, y)
      [] what = "bin" -> BinOp(S, x, y[1], y[2])
      [] what = "stat" -> Exec(S, x)
      [] what = "run" -> RunFrom(S, x, y[1], y[2])
      [] what = "block" -> Leave(Do(S, "run", x, <<1, << >>>>), S.e)
      [] what = "close" -> CloseAll(S, x)

\* What a program means.
Shows(S) == Outcome(S.out, IF S.sig = "error" THEN <<"error", S.val>> ELSE <<"ok">>)
Meaning(body) ==
    LET globals == [k \in {Str(f) : f \in {"out", "error", "pcall", "setmetatable"}} |-> <<"cfunction", k[2]>>]
    IN Shows(Do([cell |-> << >>, tab |-> <<[map |-> globals, meta |-> 0]>>, fun |-> <<[f |-> Fn(<< >>, "...", body), var |-> [x \in {} |-> 0]]>>,
                        out |-> << >>, sig |-> "", val |-> Nil, v |-> << >>,
                        e |-> [var |-> [x \in {} |-> 0], close |-> << >>, args |-> <<"list", << >>>>]], "call", <<"closure", 1>>, << >>))

=============================================================================
