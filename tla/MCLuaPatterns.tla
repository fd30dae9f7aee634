---------------------------- MODULE MCLuaPatterns ----------------------------
(***************************************************************************)
(* The string library's pattern matching against the meaning of patterns,  *)
(* for a list of patterns and of subjects.                                 *)
(***************************************************************************)
EXTENDS LuaMatch

Pattern == INSTANCE PatternMeaning

\* Pairs of items, the first of them captured, and every other kind of item.
Chars(text, set) == [suffix \in {"", "*", "+", "?", "-"} |-> Pattern!One(text, set, suffix)]
SetA == Chars("a", {"a"})
SetB == Chars("b", {"b"})
Dot == Chars(".", Pattern!Alphabet)
AorB == Chars("[a-b]", {"a", "b"})
NotA == Chars("[^a]", (Pattern!Alphabet \ {"a"}) \cup {Pattern!Outside})
Letter == Chars("%a", {"a", "b", "c"})
NoLetter == Chars("%A", {"1", "-", "(", ")", " "})
PatternItems == <<SetA["*"], SetA["-"], SetA["?"], SetB["+"], Dot["-"], NotA["*"], AorB[""], NoLetter["?"]>>
PairAt(i) == <<Pattern!Group(<<PatternItems[((i - 1) % 8) + 1]>>), PatternItems[((i - 1) \div 8) + 1]>>
OtherPatterns == <<
    << >>, <<Pattern!End>>, <<SetA["*"], Pattern!End>>, <<Dot["-"], SetB[""], Pattern!End>>, <<Pattern!Here, SetA["*"], Pattern!Here>>,
    <<Pattern!Group(<<Pattern!Group(<<SetA["-"]>>), Pattern!Here, AorB["*"]>>), SetB[""]>>, <<Pattern!Group(<<Dot[""]>>), Pattern!Back(1)>>,
    <<Pattern!Group(<<Dot["+"]>>), Pattern!Back(1)>>, <<Pattern!Group(<<SetA["*"], Pattern!Group(<<SetB["?"]>>)>>), Pattern!Back(2), Pattern!Back(1), Dot[""]>>,
    <<Pattern!Here, Dot["-"], Pattern!Back(1)>>, <<Pattern!Balanced("(", ")")>>, <<Dot[""], Pattern!Balanced("a", "b"), NotA["?"]>>,
    <<Pattern!Border("[%a]", {"a", "b", "c"}), Letter["+"]>>, <<Pattern!Border("[^a]", NotA[""].set), Dot["?"]>>,
    <<Pattern!Border("[^%a]", NoLetter[""].set \cup {Pattern!Outside})>>,
    <<Pattern!One("[]%-1]", {"-", "1"}, "+")>>, <<Pattern!One("[a-]", {"a", "-"}, "+")>>, <<Pattern!One("%(", {"("}, ""), Pattern!Group(<<Dot["-"]>>), Pattern!One("%)", {")"}, "")>>,
    <<Pattern!One("[^%s%w]", {"-", "(", ")"}, "+")>>, <<Pattern!One("%d", {"1"}, "?"), Pattern!One("%p", {"-", "(", ")"}, "*"), Letter["-"], Pattern!One("-", {"-"}, "")>>>>
Patterns == [i \in 1 .. 64 |-> PairAt(i)] \o OtherPatterns
Subjects == <<"", "aab", "abab", "b(a)1", "-(a(b))1">>

Anchors == [i \in DOMAIN Patterns |-> i <= 64 /\ i % 3 = 0]
Gives(name, args, vs) == StringFunction(name, args) = [err |-> "", vs |-> vs, ok |-> TRUE]
\* find, match and gsub take the first way in which a pattern matches at the first
\* place where it matches: the backtracking of match tries the ways in their order
\* and leaves no capture, and no depth, of a way that failed.
ASSUME PatternsMatchAsMeant ==
    \A i \in DOMAIN Patterns, j \in DOMAIN Subjects :
        LET s == Subjects[j]
            args == <<Str(s), Str((IF Anchors[i] THEN "^" ELSE "") \o Pattern!TextOf(Patterns[i]))>>
        IN /\ Gives("str_find", args, Pattern!FindMeans(s, Patterns[i], Anchors[i]))
           /\ Gives("str_match", args, Pattern!MatchMeans(s, Patterns[i], Anchors[i]))
           /\ Gives("str_gsub", Append(args, Str("<%1>")), Pattern!GsubMeans(s, Patterns[i], Anchors[i]))
=============================================================================
