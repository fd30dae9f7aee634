------------------------------ MODULE LuaMatch ------------------------------
(***************************************************************************)
(* The string library's pattern matching and its plain functions,          *)
(* lstrlib.c, with the names of the source.                                *)
(*                                                                         *)
(* Positions count from 1; the one behind the last character is the        *)
(* source's src_end or p_end.  A match state M keeps in M.at the position  *)
(* that the last function returned, 0 for NULL; an error in M.err ends     *)
(* the match, and M.ok is whether the assertion of reprepstate held.       *)
(***************************************************************************)
EXTENDS LuaValues, SequencesExt

CONSTANTS
    MaxCcalls,    \* MAXCCALLS: 200 in the code
    MaxCaptures,  \* LUA_MAXCAPTURES: 32
    MaxSize       \* MAX_SIZE, the greatest length of a string

Char(s, i) == SubSeq(s, i, i)
\* What is read behind the last character.
End == "\\0"
At(s, i) == IF i \in 1 .. Len(s) THEN Char(s, i) ELSE End

CharsOf(s) == {Char(s, i) : i \in 1 .. Len(s)}
\* The characters in their order, but for backslash and the two quotes that a
\* TLA+ string cannot name.
Printable ==
    " !#$%&'()*+,-./0123456789:;<=>?@ABCDEFGHIJKLMNOPQRSTUVWXYZ[]^_abcdefghijklmnopqrstuvwxyz{|}~"
Ord(c) == CHOOSE i \in 1 .. Len(Printable) : Char(Printable, i) = c
LowerCase == "abcdefghijklmnopqrstuvwxyz"
UpperCase == "ABCDEFGHIJKLMNOPQRSTUVWXYZ"
Lower == CharsOf(LowerCase)
Upper == CharsOf(UpperCase)
Digit == CharsOf("0123456789")
Alnum == Lower \cup Upper \cup Digit
Visible == CharsOf(Printable) \ {" "}
Spaces == {" ", "\n", "\t"}
Class ==
    [a |-> Lower \cup Upper, c |-> {"\n", "\t", End}, d |-> Digit, g |-> Visible, l |-> Lower, p |-> Visible \ Alnum,
     s |-> Spaces, u |-> Upper, w |-> Alnum, x |-> Digit \cup CharsOf("abcdefABCDEF"), z |-> {End}]
tolower(c) == IF c \in Upper THEN Char(LowerCase, Ord(c) - Ord("A") + 1) ELSE c
toupper(c) == IF c \in Lower THEN Char(UpperCase, Ord(c) - Ord("a") + 1) ELSE c
match_class(c, cl) ==
    CASE tolower(cl) \notin DOMAIN Class -> cl = c
      [] cl \in DOMAIN Class -> c \in Class[cl]
      [] OTHER -> c \notin Class[tolower(cl)]

--------------------------------------------------------------------------
\* One item of the pattern; 0 for the end of one that is malformed.

RECURSIVE BracketEnd(_, _)
BracketEnd(pat, p) ==
    LET q == IF At(pat, p) = "%" /\ p < Len(pat) THEN p + 2 ELSE p + 1
    IN IF p > Len(pat) THEN 0 ELSE IF At(pat, q) = "]" THEN q + 1 ELSE BracketEnd(pat, q)
classend(pat, p) ==
    CASE At(pat, p) = "%" -> IF p = Len(pat) THEN 0 ELSE p + 2
      [] At(pat, p) = "[" -> BracketEnd(pat, IF At(pat, p + 1) = "^" THEN p + 2 ELSE p + 1)
      [] OTHER -> p + 1

\* The items of a set from p, up to its bracket ec.
RECURSIVE InSet(_, _, _, _)
InSet(c, pat, p, ec) ==
    CASE p >= ec -> FALSE
      [] p < ec /\ At(pat, p) = "%" -> match_class(c, At(pat, p + 1)) \/ InSet(c, pat, p + 2, ec)
      [] p < ec /\ At(pat, p) # "%" /\ At(pat, p + 1) = "-" /\ p + 2 < ec ->
            (c # End /\ Ord(At(pat, p)) <= Ord(c) /\ Ord(c) <= Ord(At(pat, p + 2))) \/ InSet(c, pat, p + 3, ec)
      [] OTHER -> At(pat, p) = c \/ InSet(c, pat, p + 1, ec)
matchbracketclass(c, pat, p, ec) ==
    IF At(pat, p + 1) = "^" THEN ~InSet(c, pat, p + 2, ec) ELSE InSet(c, pat, p + 1, ec)

singlematch(M, s, p, ep) ==
    /\ s <= Len(M.src)
    /\ CASE At(M.pat, p) = "." -> TRUE
         [] At(M.pat, p) = "%" -> match_class(At(M.src, s), At(M.pat, p + 1))
         [] At(M.pat, p) = "[" -> matchbracketclass(At(M.src, s), M.pat, p, ep - 1)
         [] OTHER -> At(M.pat, p) = At(M.src, s)

--------------------------------------------------------------------------
\* The matcher.

MatchState(src, pat) == [src |-> src, pat |-> pat, cap |-> << >>, depth |-> MaxCcalls, at |-> 0, err |-> "", ok |-> TRUE]
reprepstate(M) == [M EXCEPT !.cap = << >>, !.ok = @ /\ M.depth = MaxCcalls]
CapUnfinished == -1
CapPosition == -2
MatchError(M, what) == [M EXCEPT !.err = what]
Returns(M, s) == [M EXCEPT !.at = s]
NoMatch(M) == M.err = "" /\ M.at = 0

RECURSIVE match(_, _, _)
RECURSIVE Balance(_, _, _, _, _)
Balance(src, s, b, e, cont) ==
    CASE s > Len(src) -> 0
      [] s <= Len(src) /\ At(src, s) = e -> IF cont = 1 THEN s + 1 ELSE Balance(src, s + 1, b, e, cont - 1)
      [] OTHER -> Balance(src, s + 1, b, e, IF At(src, s) = b THEN cont + 1 ELSE cont)
matchbalance(M, s, p) ==
    IF p >= Len(M.pat) THEN MatchError(M, "malformed pattern (missing arguments to '%b')")
    ELSE IF At(M.src, s) # At(M.pat, p) THEN Returns(M, 0)
    ELSE Returns(M, Balance(M.src, s + 1, At(M.pat, p), At(M.pat, p + 1), 1))

RECURSIVE Longest(_, _, _, _)
Longest(M, s, p, ep) == IF singlematch(M, s, p, ep) THEN Longest(M, s + 1, p, ep) ELSE s
\* The rest is matched behind each of the positions from s down to first, until
\* it succeeds.
RECURSIVE TryDown(_, _, _, _)
OrShorter(R, s, first, ep) == IF NoMatch(R) THEN TryDown(R, s - 1, first, ep) ELSE R
TryDown(M, s, first, ep) == IF s < first THEN Returns(M, 0) ELSE OrShorter(match(M, s, ep + 1), s, first, ep)
max_expand(M, s, p, ep) == TryDown(M, Longest(M, s, p, ep), s, ep)
RECURSIVE min_expand(_, _, _, _)
OrLonger(R, s, p, ep) ==
    IF ~NoMatch(R) THEN R ELSE IF singlematch(R, s, p, ep) THEN min_expand(R, s + 1, p, ep) ELSE R
min_expand(M, s, p, ep) == OrLonger(match(M, s, ep + 1), s, p, ep)

UndoStart(R) == IF NoMatch(R) THEN [R EXCEPT !.cap = Front(@)] ELSE R
start_capture(M, s, p, what) ==
    IF Len(M.cap) >= MaxCaptures THEN MatchError(M, "too many captures")
    ELSE UndoStart(match([M EXCEPT !.cap = Append(@, [init |-> s, len |-> what])], s, p))
capture_to_close(M) == SelectLastInSeq(M.cap, LAMBDA c : c.len = CapUnfinished)
UndoEnd(R, l) == IF NoMatch(R) THEN [R EXCEPT !.cap[l].len = CapUnfinished] ELSE R
CloseCapture(M, s, p, l) ==
    IF l = 0 THEN MatchError(M, "invalid pattern capture")
    ELSE UndoEnd(match([M EXCEPT !.cap[l].len = s - M.cap[l].init], s, p), l)
end_capture(M, s, p) == CloseCapture(M, s, p, capture_to_close(M))

DigitOf(c) == Ord(c) - Ord("0")
\* A position stands for the greatest length as a size_t, which no rest has.
SameText(M, s, c) ==
    /\ c.len # CapPosition /\ Len(M.src) + 1 - s >= c.len
    /\ SubSeq(M.src, c.init, c.init + c.len - 1) = SubSeq(M.src, s, s + c.len - 1)
match_capture(M, s, l) ==
    IF l \notin DOMAIN M.cap \/ (l \in DOMAIN M.cap /\ M.cap[l].len = CapUnfinished) THEN MatchError(M, "invalid capture index")
    ELSE Returns(M, IF SameText(M, s, M.cap[l]) THEN s + M.cap[l].len ELSE 0)

\* The loop of match behind its label init; the pattern goes on at p.
RECURSIVE Items(_, _, _)
GoOnIf(R, p) == IF R.err # "" \/ R.at = 0 THEN R ELSE Items(R, R.at, p)
Frontier(M, s, p, ep) ==
    CASE ep = 0 -> MatchError(M, "malformed pattern (missing ']')")
      [] ep # 0 /\ ~matchbracketclass(At(M.src, s - 1), M.pat, p, ep - 1) /\ matchbracketclass(At(M.src, s), M.pat, p, ep - 1) ->
            Items(M, s, ep)
      [] OTHER -> Returns(M, 0)
OrWithout(R, s, ep) == IF NoMatch(R) THEN Items(R, s, ep + 1) ELSE R
\* A character class and its suffix, which is at ep.
Default(M, s, p, ep) ==
    LET suffix == At(M.pat, ep)
        once == singlematch(M, s, p, ep)
    IN CASE ep = 0 -> MatchError(M, "malformed pattern")
         [] ep # 0 /\ ~once -> IF suffix \in {"*", "?", "-"} THEN Items(M, s, ep + 1) ELSE Returns(M, 0)
         [] ep # 0 /\ once /\ suffix = "?" -> OrWithout(match(M, s + 1, ep + 1), s, ep)
         [] ep # 0 /\ once /\ suffix = "+" -> max_expand(M, s + 1, p, ep)
         [] ep # 0 /\ once /\ suffix = "*" -> max_expand(M, s, p, ep)
         [] ep # 0 /\ once /\ suffix = "-" -> min_expand(M, s, p, ep)
         [] OTHER -> Items(M, s + 1, ep)
Escape(M, s, p) ==
    LET c == At(M.pat, p + 1)
    IN CASE c = "b" -> GoOnIf(matchbalance(M, s, p + 2), p + 4)
         [] c = "f" -> IF At(M.pat, p + 2) # "[" THEN MatchError(M, "missing '[' after '%f' in pattern")
                       ELSE Frontier(M, s, p + 2, classend(M.pat, p + 2))
         [] c \in Digit -> GoOnIf(match_capture(M, s, DigitOf(c)), p + 2)
         [] OTHER -> Default(M, s, p, classend(M.pat, p))
Items(M, s, p) ==
    LET c == At(M.pat, p)
    IN CASE p > Len(M.pat) -> Returns(M, s)
         [] c = "(" -> IF At(M.pat, p + 1) = ")" THEN start_capture(M, s, p + 2, CapPosition) ELSE start_capture(M, s, p + 1, CapUnfinished)
         [] c = ")" -> end_capture(M, s, p + 1)
         [] c = "$" /\ p = Len(M.pat) -> Returns(M, IF s > Len(M.src) THEN s ELSE 0)
         [] c = "%" -> Escape(M, s, p)
         [] OTHER -> Default(M, s, p, classend(M.pat, p))
Leave(R) == IF R.err # "" THEN R ELSE [R EXCEPT !.depth = @ + 1]
match(M, s, p) ==
    IF M.depth = 0 THEN MatchError(M, "pattern too complex") ELSE Leave(Items([M EXCEPT !.depth = @ - 1], s, p))

--------------------------------------------------------------------------
\* Captures as values.

\* The i-th capture of a match of s .. e - 1.
OneCapture(M, i, s, e) ==
    CASE i > Len(M.cap) -> IF i = 1 THEN Str(SubSeq(M.src, s, e - 1)) ELSE Err("invalid capture index")
      [] i <= Len(M.cap) /\ M.cap[i].len = CapUnfinished -> Err("unfinished capture")
      [] i <= Len(M.cap) /\ M.cap[i].len = CapPosition -> Integer(M.cap[i].init)
      [] OTHER -> Str(SubSeq(M.src, M.cap[i].init, M.cap[i].init + M.cap[i].len - 1))
\* whole is whether a match without captures stands for itself.
Captures(M, whole, s, e) ==
    [i \in 1 .. (IF M.cap = << >> /\ whole THEN 1 ELSE Len(M.cap)) |-> OneCapture(M, i, s, e)]

\* What a function returns: values or an error, and whether the assertion held.
Raises(what) == [err |-> what, vs |-> << >>, ok |-> TRUE]
Returned(vs, ok) ==
    LET bad == SelectSeq(vs, IsErr)
    IN IF bad = << >> THEN [err |-> "", vs |-> vs, ok |-> ok] ELSE Raises(bad[1][2])

--------------------------------------------------------------------------
\* Arguments.

ArgAt(args, i) == IF i \in DOMAIN args THEN args[i] ELSE Nil
OptInteger(args, i, default) == IF ArgAt(args, i) = Nil THEN Integer(default) ELSE LuaVToInteger(args[i], "eq")
IntegerAt(args, i, default) == OptInteger(args, i, default)[2]
TextsAt(args, is) == \A i \in is : IsText(ArgAt(args, i))
IntegersAt(args, is) == \A i \in is : OptInteger(args, i, 1) # Nil
posrelatI(pos, len) == CASE pos > 0 -> pos [] pos = 0 \/ pos < -len -> 1 [] OTHER -> len + pos + 1
getendpos(pos, len) == CASE pos > len -> len [] pos \in 0 .. len -> pos [] pos < -len -> 0 [] OTHER -> len + pos + 1
BadArgument == Raises("bad argument to string function")

--------------------------------------------------------------------------
\* string.find and string.match.

Specials == {"^", "$", "*", "+", "?", ".", "(", "[", "%", "-"}
nospecials(p) == CharsOf(p) \cap Specials = {}
\* The first place of p in s from init on, 0 for none.
lmemfind(s, p, init) ==
    LET found == {i \in init .. (Len(s) + 1 - Len(p)) : SubSeq(s, i, i + Len(p) - 1) = p}
    IN IF found = {} THEN 0 ELSE CHOOSE i \in found : \A j \in found : i <= j
PlainFind(s, p, at) == Returned(IF at = 0 THEN <<Nil>> ELSE <<Integer(at), Integer(at + Len(p) - 1)>>, TRUE)

Anchored(p) == At(p, 1) = "^"
Unanchored(p) == IF Anchored(p) THEN SubSeq(p, 2, Len(p)) ELSE p
Found(M, find, s1) ==
    Returned(IF find THEN <<Integer(s1), Integer(M.at - 1)>> \o Captures(M, FALSE, s1, M.at) ELSE Captures(M, TRUE, s1, M.at), M.ok)
RECURSIVE SearchFrom(_, _, _, _)
Searched(M, find, anchor, s1) ==
    CASE M.err # "" -> Raises(M.err)
      [] M.err = "" /\ M.at # 0 -> Found(M, find, s1)
      [] NoMatch(M) /\ (anchor \/ s1 > Len(M.src)) -> Returned(<<Nil>>, M.ok)
      [] OTHER -> SearchFrom(M, find, anchor, s1 + 1)
SearchFrom(M, find, anchor, s1) == Searched(match(reprepstate(M), s1, 1), find, anchor, s1)
StrFind(s, p, init, find, plain) ==
    CASE init > Len(s) + 1 -> Returned(<<Nil>>, TRUE)
      [] init <= Len(s) + 1 /\ find /\ (plain \/ nospecials(p)) -> PlainFind(s, p, lmemfind(s, p, init))
      [] OTHER -> SearchFrom(MatchState(s, Unanchored(p)), find, Anchored(p), init)
str_find_aux(args, find) ==
    IF ~TextsAt(args, {1, 2}) \/ ~IntegersAt(args, {3}) THEN BadArgument
    ELSE LET s == Text(args[1])
         IN StrFind(s, Text(args[2]), posrelatI(IntegerAt(args, 3, 1), Len(s)), find, ~IsFalse(ArgAt(args, 4)))

--------------------------------------------------------------------------
\* string.gsub with a string in place of each match; a function or a table in
\* place of the string is left out.

Then(v, rest) == IF IsErr(v) THEN v ELSE IF IsErr(rest) THEN rest ELSE Str(Text(v) \o rest[2])
\* add_s: the text for a match of s .. e - 1, or an error.
RECURSIVE add_s(_, _, _, _, _)
add_s(M, s, e, news, i) ==
    LET c == At(news, i)
        n == At(news, i + 1)
        rest == add_s(M, s, e, news, i + 2)
    IN CASE i > Len(news) -> Str("")
         [] i <= Len(news) /\ c # "%" -> Then(Str(c), add_s(M, s, e, news, i + 1))
         [] c = "%" /\ n = "%" -> Then(Str("%"), rest)
         [] c = "%" /\ n = "0" -> Then(Str(SubSeq(M.src, s, e - 1)), rest)
         [] c = "%" /\ n \in Digit \ {"0"} -> Then(OneCapture(M, DigitOf(n), s, e), rest)
         [] OTHER -> Err("invalid use of '%' in replacement string")

\* b is the text so far, n counts the replacements up to max, last is the end of
\* the last one.
RECURSIVE Substitute(_, _, _, _, _, _, _, _)
Finished(M, src, b, n) == Returned(<<Str(b \o SubSeq(M.src, src, Len(M.src))), Integer(n)>>, M.ok)
Replaced(M, news, anchor, b, n, max, v) ==
    CASE IsErr(v) -> Raises(v[2])
      [] ~IsErr(v) /\ anchor -> Finished(M, M.at, b \o v[2], n + 1)
      [] OTHER -> Substitute(M, M.at, M.at, news, b \o v[2], n + 1, max, anchor)
Substituted(M, src, last, news, b, n, max, anchor) ==
    CASE M.err # "" -> Raises(M.err)
      [] M.err = "" /\ M.at \notin {0, last} -> Replaced(M, news, anchor, b, n, max, add_s(M, src, M.at, news, 1))
      [] M.err = "" /\ M.at \in {0, last} /\ src <= Len(M.src) /\ ~anchor ->
            Substitute(M, src + 1, last, news, b \o At(M.src, src), n, max, anchor)
      [] OTHER -> Finished(M, src, b, n)
Substitute(M, src, last, news, b, n, max, anchor) ==
    IF n >= max THEN Finished(M, src, b, n)
    ELSE Substituted(match(reprepstate(M), src, 1), src, last, news, b, n, max, anchor)
str_gsub(args) ==
    IF ~TextsAt(args, {1, 2, 3}) \/ ~IntegersAt(args, {4}) THEN BadArgument
    ELSE LET s == Text(args[1])
             p == Text(args[2])
         IN Substitute(MatchState(s, Unanchored(p)), 1, 0, Text(args[3]), "", 0, IntegerAt(args, 4, Len(s) + 1), Anchored(p))

--------------------------------------------------------------------------
\* The plain functions.

Joined(chars) == FoldLeft(LAMBDA s, c : s \o c, "", chars)
str_sub(s, i, j) == SubSeq(s, posrelatI(i, Len(s)), getendpos(j, Len(s)))
str_reverse(s) == Joined([i \in 1 .. Len(s) |-> Char(s, Len(s) + 1 - i)])
str_lower(s) == Joined([i \in 1 .. Len(s) |-> tolower(Char(s, i))])
str_upper(s) == Joined([i \in 1 .. Len(s) |-> toupper(Char(s, i))])
str_rep(s, n, sep) ==
    CASE n <= 0 \/ s \o sep = "" -> Str("")
      [] n > 0 /\ s \o sep # "" /\ (Len(s) > MaxSize - Len(sep) \/ Len(s) + Len(sep) > MaxSize \div n) -> Err("resulting string too large")
      [] OTHER -> Str(Joined([i \in 1 .. (n - 1) |-> s \o sep]) \o s)
OneText(args, v) == IF TextsAt(args, {1}) THEN Returned(<<v>>, TRUE) ELSE BadArgument

\* The functions have the names of their C functions.
StringFunctions == {"str_find", "str_match", "str_gsub", "str_sub", "str_reverse", "str_lower", "str_upper", "str_rep"}
StringFunction(name, args) ==
    LET s == Text(args[1])
        sep == ArgAt(args, 3)
    IN CASE name \in {"str_find", "str_match"} -> str_find_aux(args, name = "str_find")
         [] name = "str_gsub" -> str_gsub(args)
         [] name = "str_reverse" -> OneText(args, Str(str_reverse(s)))
         [] name = "str_lower" -> OneText(args, Str(str_lower(s)))
         [] name = "str_upper" -> OneText(args, Str(str_upper(s)))
         [] ArgAt(args, 2) = Nil \/ ~IntegersAt(args, {2}) -> BadArgument
         [] name = "str_sub" /\ IntegersAt(args, {2, 3}) -> OneText(args, Str(str_sub(s, IntegerAt(args, 2, 1), IntegerAt(args, 3, -1))))
         [] name = "str_rep" /\ IntegersAt(args, {2}) /\ (sep = Nil \/ IsText(sep)) ->
                OneText(args, str_rep(s, IntegerAt(args, 2, 1), IF sep = Nil THEN "" ELSE Text(sep)))
         [] OTHER -> BadArgument

=============================================================================
