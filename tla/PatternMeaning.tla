--------------------------- MODULE PatternMeaning ---------------------------
(***************************************************************************)
(* What a pattern of the string library means, from its syntax tree: the   *)
(* list of all the ways in which it matches from a position, in the order  *)
(* of preference, a way being where it ends and what it captured.  There   *)
(* is no backtracking here and no capture that is taken back.              *)
(***************************************************************************)
EXTENDS LuaValues, SequencesExt

Alphabet == {"a", "b", "c", "1", "-", "(", ")", " "}
Outside == "outside"
CharAt(s, i) == IF i \in 1 .. Len(s) THEN SubSeq(s, i, i) ELSE Outside

\* The items of a pattern; a set of characters comes with its text.
One(text, set, suffix) == [kind |-> "one", text |-> text, set |-> set, suffix |-> suffix]
Group(items) == [kind |-> "group", items |-> items]
Here == [kind |-> "here"]
Back(n) == [kind |-> "back", n |-> n]
Balanced(x, y) == [kind |-> "balanced", open |-> x, close |-> y]
Border(text, set) == [kind |-> "border", text |-> text, set |-> set]
End == [kind |-> "end"]

RECURSIVE TextOf(_)
ItemText(i) ==
    CASE i.kind = "one" -> i.text \o i.suffix
      [] i.kind = "group" -> "(" \o TextOf(i.items) \o ")"
      [] i.kind = "here" -> "()"
      [] i.kind = "back" -> "%" \o ToString(i.n)
      [] i.kind = "balanced" -> "%b" \o i.open \o i.close
      [] i.kind = "border" -> "%f" \o i.text
      [] i.kind = "end" -> "$"
TextOf(items) == IF items = << >> THEN "" ELSE ItemText(Head(items)) \o TextOf(Tail(items))

--------------------------------------------------------------------------

\* How often a set of characters may be taken, where it could be taken most times.
Counts(suffix, most) ==
    CASE suffix = "" -> IF most > 0 THEN <<1>> ELSE << >>
      [] suffix = "?" -> IF most > 0 THEN <<1, 0>> ELSE <<0>>
      [] suffix = "*" -> [i \in 1 .. (most + 1) |-> most + 1 - i]
      [] suffix = "+" -> [i \in 1 .. most |-> most + 1 - i]
      [] suffix = "-" -> [i \in 1 .. (most + 1) |-> i - 1]
Most(s, set, at) == Cardinality({j \in at .. Len(s) : \A i \in at .. j : CharAt(s, i) \in set})
Number(s, c, from, to) == Cardinality({i \in from .. to : CharAt(s, i) = c})
Closings(s, x, y, at) ==
    {j \in (at + 1) .. Len(s) : CharAt(s, at) = x /\ CharAt(s, j) = y /\ Number(s, y, at + 1, j) = 1 + Number(s, x, at + 1, j)}

RECURSIVE Ways(_, _, _, _)
ItemWays(s, i, at, caps) ==
    CASE i.kind = "one" -> LET n == Counts(i.suffix, Most(s, i.set, at)) IN [k \in DOMAIN n |-> <<at + n[k], caps>>]
      [] i.kind = "group" ->
            LET inner == Ways(s, i.items, at, Append(caps, Nil))
            IN [k \in DOMAIN inner |-> <<inner[k][1], [inner[k][2] EXCEPT ![Len(caps) + 1] = Str(SubSeq(s, at, inner[k][1] - 1))]>>]
      [] i.kind = "here" -> <<<<at, Append(caps, Integer(at))>>>>
      [] i.kind = "back" ->
            LET c == caps[i.n]
            IN IF IsStr(c) /\ \A k \in 1 .. Len(c[2]) : CharAt(s, at + k - 1) = CharAt(c[2], k) THEN <<<<at + Len(c[2]), caps>>>> ELSE << >>
      [] i.kind = "balanced" ->
            LET js == Closings(s, i.open, i.close, at)
            IN IF js = {} THEN << >> ELSE <<<<1 + (CHOOSE j \in js : \A k \in js : j <= k), caps>>>>
      [] i.kind = "border" -> IF CharAt(s, at - 1) \notin i.set /\ CharAt(s, at) \in i.set THEN <<<<at, caps>>>> ELSE << >>
      [] i.kind = "end" -> IF at = Len(s) + 1 THEN <<<<at, caps>>>> ELSE << >>
Ways(s, items, at, caps) ==
    IF items = << >> THEN <<<<at, caps>>>>
    ELSE LET first == ItemWays(s, Head(items), at, caps)
         IN FlattenSeq([k \in DOMAIN first |-> Ways(s, Tail(items), first[k][1], first[k][2])])
WaysFrom(s, items, at) == Ways(s, items, at, << >>)

--------------------------------------------------------------------------
\* What the functions return.

Starts(s, items, anchored) == {at \in 1 .. (IF anchored THEN 1 ELSE Len(s) + 1) : WaysFrom(s, items, at) # << >>}
FirstStart(s, items, anchored) == CHOOSE at \in Starts(s, items, anchored) : \A k \in Starts(s, items, anchored) : at <= k
Captured(s, at, way) == IF way[2] = << >> THEN <<Str(SubSeq(s, at, way[1] - 1))>> ELSE way[2]
FindMeans(s, items, anchored) ==
    IF Starts(s, items, anchored) = {} THEN <<Nil>>
    ELSE LET at == FirstStart(s, items, anchored)
             way == WaysFrom(s, items, at)[1]
         IN <<Integer(at), Integer(way[1] - 1)>> \o way[2]
MatchMeans(s, items, anchored) ==
    IF Starts(s, items, anchored) = {} THEN <<Nil>>
    ELSE LET at == FirstStart(s, items, anchored) IN Captured(s, at, WaysFrom(s, items, at)[1])

\* The matches that are replaced, as <<start, way>>, from at on, where the one
\* before ended at last.
RECURSIVE Matches(_, _, _, _)
Matches(s, items, at, last) ==
    LET ways == WaysFrom(s, items, at)
    IN IF at > Len(s) + 1 THEN << >>
       ELSE IF ways # << >> /\ ways[1][1] # last THEN <<<<at, ways[1]>>>> \o Matches(s, items, ways[1][1], ways[1][1])
       ELSE Matches(s, items, at + 1, last)
AllMatches(s, items, anchored) ==
    IF ~anchored THEN Matches(s, items, 1, 0)
    ELSE IF WaysFrom(s, items, 1) = << >> THEN << >> ELSE <<<<1, WaysFrom(s, items, 1)[1]>>>>
\* Each is replaced by its first capture in angle brackets.
RECURSIVE Rewritten(_, _, _)
Rewritten(s, ms, from) ==
    IF ms = << >> THEN SubSeq(s, from, Len(s))
    ELSE SubSeq(s, from, ms[1][1] - 1) \o "<" \o Text(Captured(s, ms[1][1], ms[1][2])[1]) \o ">" \o Rewritten(s, Tail(ms), ms[1][2][1])
GsubMeans(s, items, anchored) ==
    LET ms == AllMatches(s, items, anchored) IN <<Str(Rewritten(s, ms, 1)), Integer(Len(ms))>>
=============================================================================
