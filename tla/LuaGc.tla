------------------------------- MODULE LuaGc -------------------------------
(***************************************************************************)
(* The garbage collector of the Lua interpreter (lgc.c with the upvalues   *)
(* of lfunc.c): incremental, generational and full collections, weak and   *)
(* ephemeron tables, finalizers, open upvalues and coroutines, and a       *)
(* program that may do something to its objects between any two steps of   *)
(* the collector.                                                          *)
(*                                                                         *)
(* A table has one entry.  Collections by bytes (when a step runs, when    *)
(* minor collections turn into a major one) are free choices.  The gray    *)
(* lists are sets, since their order decides nothing but the order of the  *)
(* work; the lists that are swept are sequences.  lua_assert(p) is kept as *)
(* LuaAssert(g, p), which falsifies g.ok.                                  *)
(***************************************************************************)
EXTENDS Integers, FiniteSets, Sequences, SequencesExt

CONSTANTS
    Main,        \* the main thread, number of an object
    Objects,     \* objects, by number
    Scenarios,   \* kinds of the objects, a heap to begin with, whether the program
                 \* may switch to generational mode, and a bound on its operations
    StackMax,    \* bound on the stack of a thread
    SweepMax     \* GCSWEEPMAX, 20 in the code

Nil == 0
Head0 == -1  \* the header of the list being swept, as a position in it

VARIABLES
    scene, \* the scenario
    g,     \* global_State and the objects
    run,   \* the running thread
    ops    \* what the program has done, counted

vars == <<scene, g, run, ops>>

\* The type of each object; of tables the mode, and whether the program may
\* give them a metatable with a finalizer.
kind == scene.kind

Tables == {"table", "fintable", "weakvalue", "ephemeron", "allweak"}

\* Ages, in the order of lgc.h.
New == 0
Survival == 1
Old0 == 2
Old1 == 3
Old == 4
Touched1 == 5
Touched2 == 6

--------------------------------------------------------------------------
\* Colours, lists and assertions.

LuaAssert(h, p) == [h EXCEPT !.ok = @ /\ p]

\* Objects of the other white are dead; atomic swaps the two whites.
Whites == {"white", "dead"}
IsWhite(h, o) == h.col[o] \in Whites
IsDead(h, o) == h.col[o] = "dead"
FlipWhite(h) ==
    [LuaAssert(h, h.gray = {}) EXCEPT !.col = [o \in Objects |-> CASE @[o] = "white" -> "dead" [] @[o] = "dead" -> "white"
                                           [] OTHER -> @[o]]]
IsGray(h, o) == h.col[o] = "gray"
IsBlack(h, o) == h.col[o] = "black"
IsOld(h, o) == h.age[o] > Survival
SetAge(h, o, a) == [h EXCEPT !.age[o] = a]
MakeWhite(h, o) == [h EXCEPT !.col[o] = "white"]
Blacken(h, o) == [h EXCEPT !.col[o] = "black"]

KeepInvariant(h) == h.state \in {"propagate", "enteratomic", "atomic"}
IsSweepPhase(h) == h.state \in {"swpallgc", "swpfinobj", "swptobefnz", "swpend"}
GrayLists(h) == h.gray \cup h.grayagain \cup h.weak \cup h.ephemeron \cup h.allweak

LinkGcList(h, o, list) ==
    [LuaAssert(h, ~IsGray(h, o)) EXCEPT ![list] = @ \cup {o}, !.col[o] = "gray"]

IsOpen(h, u) == h.home[u] # Nil
\* The value of an upvalue: a slot of its thread's stack while it is open.
UpValue(h, u) == IF IsOpen(h, u) THEN h.stk[h.home[u]][h.slot[u]] ELSE h.val[u]
OpenUpvals(h, t) == {u \in Objects : h.home[u] = t}
OnStack(h, t) == ToSet(h.stk[t])

--------------------------------------------------------------------------
\* Marking.

\* Values that are marked are not dead; marking makes none dead.
CheckLiveness(h, S) ==
    IF \E v \in S \ {Nil} : IsDead(h, v) THEN [h EXCEPT !.ok = FALSE] ELSE h

RECURSIVE ReallyMarkObject(_, _)
ReallyMarkObject(h, o) ==
    CASE kind[o] = "string" -> Blacken(h, o)
      [] kind[o] = "upvalue" ->
            LET c == [h EXCEPT !.col[o] = IF IsOpen(h, o) THEN "gray" ELSE "black"]
                v == UpValue(h, o)
            IN IF v # Nil /\ IsWhite(c, v) THEN ReallyMarkObject(c, v) ELSE CheckLiveness(c, {v})
      [] OTHER -> LinkGcList(h, o, "gray")

MarkObject(h, o) == IF o # Nil /\ IsWhite(h, o) THEN ReallyMarkObject(h, o) ELSE h
MarkAll(h, S) == FoldSet(LAMBDA o, x : MarkObject(x, o), h, S)
MarkValues(h, S) == CheckLiveness(MarkAll(h, S), S)
MarkValue(h, v) == MarkValues(h, {v})

\* Whether a weak table must give up a reference; strings are values.
IsCleared(h, o) == o # Nil /\ kind[o] # "string" /\ IsWhite(h, o)
MarkString(h, o) == IF o # Nil /\ kind[o] = "string" THEN MarkObject(h, o) ELSE h

ClearKey(h, t) == [h EXCEPT !.key[t] = Nil]
SetEmpty(h, t) == ClearKey([h EXCEPT !.val[t] = Nil], t)

GenLink(h, o) ==
    CASE h.age[o] = Touched1 -> LinkGcList(LuaAssert(h, IsBlack(h, o)), o, "grayagain")
      [] h.age[o] = Touched2 -> SetAge(LuaAssert(h, IsBlack(h, o)), o, Old)
      [] OTHER -> LuaAssert(h, IsBlack(h, o))

TraverseStrongTable(h, t) ==
    GenLink(IF h.val[t] = Nil THEN ClearKey(h, t)
            ELSE MarkValue(MarkObject(h, h.key[t]), h.val[t]), t)

MarkEntryWeak(h, t) ==
    IF h.val[t] = Nil THEN ClearKey(h, t) ELSE MarkString(MarkObject(h, h.key[t]), h.val[t])

LinkWeakValue(h, t) ==
    CASE h.state = "propagate" -> LinkGcList(h, t, "grayagain")
      [] h.state # "propagate" /\ IsCleared(h, h.val[t]) -> LinkGcList(h, t, "weak")
      [] OTHER -> GenLink(h, t)

TraverseWeakValue(h, t) == LinkWeakValue(MarkEntryWeak(h, t), t)

\* (mutant of Propagates: a weak key does not matter)
PropagatesAlways(h, t) == h.val[t] # Nil /\ IsWhite(h, h.val[t])

\* An entry propagates from a marked key to its value.
Propagates(h, t) ==
    /\ h.val[t] # Nil /\ IsWhite(h, h.val[t])
    /\ ~IsCleared(h, h.key[t])

PropagateEntry(h, t) == IF Propagates(h, t) THEN ReallyMarkObject(h, h.val[t]) ELSE h

LinkEphemeron(h, t) ==
    LET whiteKey == h.val[t] # Nil /\ IsCleared(h, h.key[t])
    IN CASE h.state = "propagate" -> LinkGcList(h, t, "grayagain")
         [] h.state # "propagate" /\ whiteKey /\ IsWhite(h, h.val[t]) -> LinkGcList(h, t, "ephemeron")
         [] h.state # "propagate" /\ whiteKey /\ ~IsWhite(h, h.val[t]) -> LinkGcList(h, t, "allweak")
         [] OTHER -> GenLink(h, t)

TraverseEphemeron(h, t) ==
    LinkEphemeron(PropagateEntry(MarkString(IF h.val[t] = Nil THEN ClearKey(h, t) ELSE h,
                                            h.key[t]), t), t)

TraverseAllWeak(h, t) ==
    LinkGcList(h, t, IF h.state = "propagate" THEN "grayagain" ELSE "allweak")

TraverseTable(h, t) ==
    CASE kind[t] \in {"table", "fintable"} -> TraverseStrongTable(h, t)
      [] kind[t] = "weakvalue" -> TraverseWeakValue(h, t)
      [] kind[t] = "ephemeron" -> TraverseEphemeron(h, t)
      [] kind[t] = "allweak" -> TraverseAllWeak(h, t)

\* The final traversal links the thread back: RemarkUpvals may have removed it.
RelinkThread(h, t) ==
    IF h.state = "atomic" /\ OpenUpvals(h, t) # {} THEN [h EXCEPT !.twups = @ \cup {t}] ELSE h

TraverseThread(h, t) ==
    LET fine == h.state = "atomic" \/ OpenUpvals(h, t) = {} \/ t \in h.twups
    IN RelinkThread(
         MarkAll(MarkValues(IF IsOld(h, t) \/ h.state = "propagate"
                            THEN LinkGcList(LuaAssert(h, fine), t, "grayagain") ELSE LuaAssert(h, fine),
                            OnStack(h, t)),
                 OpenUpvals(h, t)), t)

Traverse(h, o) ==
    CASE kind[o] \in Tables -> TraverseTable(h, o)
      [] kind[o] = "closure" -> MarkObject(h, h.val[o])
      [] kind[o] = "thread" -> TraverseThread(h, o)

PropagateMark(h, o) == Traverse(Blacken([h EXCEPT !.gray = @ \ {o}], o), o)

RECURSIVE PropagateAll(_)
PropagateAll(h) ==
    IF h.gray = {} THEN h ELSE PropagateAll(PropagateMark(h, CHOOSE o \in h.gray : TRUE))

\* (mutant of MarkOld: what became old is not aged further)
MarkOldOnly(h, S) ==
    FoldSet(LAMBDA o, x : IF x.age[o] = Old1 /\ IsBlack(x, o) THEN ReallyMarkObject(x, o) ELSE x,
            h, S)

MarkOld(h, S) ==
    FoldSet(LAMBDA o, x :
                IF x.age[o] # Old1 THEN x
                ELSE LET y == SetAge(LuaAssert(x, ~IsWhite(x, o)), o, Old)
                     IN IF IsBlack(y, o) THEN ReallyMarkObject(y, o) ELSE y,
            h, S)

\* The open upvalues of threads that were not marked.
RemarkUpvals(h) ==
    LET kept == {t \in h.twups : ~IsWhite(h, t) /\ OpenUpvals(h, t) # {}}
        gone == h.twups \ kept
        visited == {u \in UNION {OpenUpvals(h, t) : t \in gone} : ~IsWhite(h, u)}
        fine == /\ \A t \in gone : IsOld(h, t) => OpenUpvals(h, t) = {}
                /\ \A t \in gone : \A u \in OpenUpvals(h, t) : h.age[u] <= h.age[t]
                /\ \A u \in visited : IsGray(h, u)
    IN MarkValues([LuaAssert(h, fine) EXCEPT !.twups = kept], {UpValue(h, u) : u \in visited})

Changed(h, marked) == IF marked THEN [PropagateAll(h) EXCEPT !.changed = TRUE] ELSE h

RECURSIVE VisitEphemerons(_, _)
VisitEphemerons(h, S) ==
    IF S = {} THEN h
    ELSE LET t == CHOOSE x \in S : TRUE
         IN VisitEphemerons(Changed(TraverseEphemeron(Blacken(h, t), t), Propagates(h, t)), S \ {t})

\* (mutant of ConvergeEphemerons: the tables are not visited again)
VisitNone(h) == h

RECURSIVE ConvergeEphemerons(_)
ConvergeEphemerons(h) ==
    LET h1 == VisitEphemerons([h EXCEPT !.ephemeron = {}, !.changed = FALSE], h.ephemeron)
    IN IF h1.changed THEN ConvergeEphemerons([h1 EXCEPT !.changed = FALSE]) ELSE h1

ClearEntry(h, t, o) == IF h.val[t] = Nil \/ IsCleared(h, o) THEN SetEmpty(h, t) ELSE h
ClearByKeys(h, S) ==
    FoldSet(LAMBDA t, x : ClearEntry(MarkString(x, x.key[t]), t, x.key[t]), h, S)
ClearByValues(h, S) ==
    FoldSet(LAMBDA t, x : ClearEntry(MarkString(x, x.val[t]), t, x.val[t]), h, S)

--------------------------------------------------------------------------
\* Sweeping.

LuaCBarrier(h, o, v) ==
    IF v = Nil \/ ~IsBlack(h, o) \/ ~IsWhite(h, v) THEN h
    ELSE LET h1 == LuaAssert(h, ~IsDead(h, v))
         IN CASE KeepInvariant(h) /\ IsOld(h, o) ->
                    SetAge(LuaAssert(ReallyMarkObject(h1, v), ~IsOld(h, v)), v, Old0)
              [] KeepInvariant(h) /\ ~IsOld(h, o) -> ReallyMarkObject(h1, v)
              [] ~KeepInvariant(h) /\ h.gckind # "genminor" ->
                    MakeWhite(LuaAssert(h1, IsSweepPhase(h)), o)
              [] OTHER -> LuaAssert(h1, IsSweepPhase(h))

\* (mutant of CloseUpval: an upvalue is closed without a barrier)
CloseUnmarked(h, u) ==
    LET h1 == [h EXCEPT !.val[u] = UpValue(h, u), !.home[u] = Nil, !.slot[u] = 0]
    IN IF IsWhite(h, u) THEN h1 ELSE Blacken(h1, u)

\* luaF_closeupval for one upvalue: it takes its value along.
CloseUpval(h, u) ==
    LET h1 == [h EXCEPT !.val[u] = UpValue(h, u), !.home[u] = Nil, !.slot[u] = 0]
    IN IF IsWhite(h, u) THEN h1 ELSE LuaCBarrier(Blacken(h1, u), u, h1.val[u])

CloseUpvals(h, t, level) ==
    FoldSet(LAMBDA u, x : CloseUpval(x, u), h, {u \in OpenUpvals(h, t) : h.slot[u] >= level})

\* (A freed thread closes its upvalues, a freed open upvalue leaves its thread.)
FreeObj(h, o) ==
    LET h1 == IF kind[o] = "thread" THEN CloseUpvals(h, o, 1) ELSE h
    IN [h1 EXCEPT !.col[o] = "free", !.age[o] = New, !.key[o] = Nil, !.val[o] = Nil,
                  !.stk[o] = <<>>, !.home[o] = Nil, !.slot[o] = 0,
                  !.doomed = @ \ {o}]

\* The element a position in a list refers to, and a list without it.
Position(s, p) == IF p = Head0 THEN 0 ELSE SelectInSeq(s, LAMBDA x : x = p)
At(s, p) == LET i == Position(s, p) + 1 IN IF i > Len(s) THEN Nil ELSE s[i]
Drop(h, list, o) == [h EXCEPT ![list] = SelectSeq(@, LAMBDA x : x # o)]
After(s, o) == At(s, o)

SweptList(h) ==
    CASE h.state = "swpallgc" -> "allgc" [] h.state = "swpfinobj" -> "finobj"
      [] h.state = "swptobefnz" -> "tobefnz"

\* sweeplist: from g.sweepgc, at most n elements (all, if n is negative).
RECURSIVE SweepList(_, _)
SweepList(h, n) ==
    LET list == SweptList(h)
        curr == At(h[list], h.sweepgc)
    IN CASE curr = Nil -> [h EXCEPT !.sweepgc = Nil]
         [] curr # Nil /\ n = 0 -> h
         [] curr # Nil /\ n # 0 /\ IsDead(h, curr) ->
                SweepList(FreeObj(Drop(h, list, curr), curr), n - 1)
         [] OTHER ->
                SweepList([MakeWhite(h, curr) EXCEPT !.age[curr] = New, !.sweepgc = curr], n - 1)

RECURSIVE SweepToLive(_)
SweepToLive(h) ==
    LET h1 == SweepList(h, 1) IN IF h1.sweepgc = h.sweepgc THEN SweepToLive(h1) ELSE h1

EnterSweep(h) ==
    SweepToLive([LuaAssert(h, h.sweepgc = Nil) EXCEPT !.state = "swpallgc", !.sweepgc = Head0])

SweepStep(h, next, start, fast) ==
    IF h.sweepgc # Nil THEN SweepList(h, IF fast THEN -1 ELSE SweepMax)
    ELSE [h EXCEPT !.state = next, !.sweepgc = start]

--------------------------------------------------------------------------
\* Finalizers.

\* separatetobefnz: white (or all) objects up to finobjold1 are to be finalized.
SeparateToBeFnz(h, all) ==
    LET s == h.finobj
        young == IF h.finobjold1 = Nil THEN Len(s) ELSE Position(s, h.finobjold1) - 1
        Goes(o) == Position(s, o) <= young /\ (all \/ IsWhite(h, o))
        stays == SelectSeq(s, LAMBDA o : ~Goes(o))
        sur == IF h.finobjsur = Nil THEN <<>>
               ELSE SelectSeq(SubSeq(s, Position(s, h.finobjsur), Len(s)), LAMBDA o : ~Goes(o))
    IN [LuaAssert(h, ToSet(s) \subseteq h.fin)
            EXCEPT !.finobj = stays, !.tobefnz = @ \o SelectSeq(s, Goes),
                   !.finobjsur = IF sur = <<>> THEN Nil ELSE Head(sur)]

\* (mutant of UData2Finalize: the object stays marked for finalization)
FinalizeOnce(h) ==
    LET o == Head(h.tobefnz)
        h1 == [LuaAssert(h, o \in h.fin) EXCEPT !.tobefnz = Tail(@), !.allgc = <<o>> \o @]
    IN IF IsSweepPhase(h) THEN MakeWhite(h1, o) ELSE h1

UData2Finalize(h) ==
    LET o == Head(h.tobefnz)
        h1 == [LuaAssert(h, o \in h.fin)
                  EXCEPT !.tobefnz = Tail(@), !.allgc = <<o>> \o @, !.fin = @ \ {o}]
    IN CASE IsSweepPhase(h) -> MakeWhite(h1, o)
         [] ~IsSweepPhase(h) /\ h.age[o] = Old1 -> [h1 EXCEPT !.firstold1 = o]
         [] OTHER -> h1

\* GCTM begins the finalizer: its argument is on the stack of the running thread.
GCTM(h) ==
    [UData2Finalize(LuaAssert(h, ~h.emergency))
        EXCEPT !.base = Len(h.stk[run]) + 1, !.stk[run] = Append(@, Head(h.tobefnz)),
               !.armed = @ \ {Head(h.tobefnz)}]

InFinalizer == g.base > 0

CheckPointer(h, p, o) == IF h[p] = o THEN [h EXCEPT ![p] = After(h.allgc, o)] ELSE h
CorrectPointers(h, o) ==
    CheckPointer(CheckPointer(CheckPointer(CheckPointer(h, "survival", o), "old1", o),
                              "reallyold", o), "firstold1", o)

\* luaC_checkfinalizer, for a metatable with a finalizer.
CheckFinalizer(h, o) ==
    IF o \in h.fin \/ h.closing THEN h
    ELSE LET h1 == IF ~IsSweepPhase(h) THEN CorrectPointers(h, o)
                   ELSE LET w == MakeWhite(h, o)
                        IN IF h.sweepgc = o THEN SweepToLive(w) ELSE w
         IN [Drop(h1, "allgc", o) EXCEPT !.finobj = <<o>> \o @, !.fin = @ \cup {o}]

--------------------------------------------------------------------------
\* What garbage is (a reference definition, used for the history g.doomed).

Succ(h, S, o) ==
    CASE kind[o] \in {"table", "fintable"} -> IF h.val[o] = Nil THEN {} ELSE {h.key[o], h.val[o]}
      [] kind[o] = "weakvalue" ->
            IF h.val[o] = Nil THEN {}
            ELSE {h.key[o]} \cup {v \in {h.val[o]} : kind[v] = "string"}
      [] kind[o] = "ephemeron" ->
            IF h.val[o] # Nil /\ (h.key[o] \in S \cup {Nil} \/ kind[h.key[o]] = "string")
            THEN {h.key[o], h.val[o]} ELSE {}
      [] kind[o] = "closure" -> {h.val[o]}
      [] kind[o] = "upvalue" -> {UpValue(h, o)}
      [] kind[o] = "thread" -> OnStack(h, o) \cup OpenUpvals(h, o)
      [] OTHER -> {}

RECURSIVE Closure(_, _)
Closure(h, S) ==
    LET T == (S \cup UNION {Succ(h, S, o) : o \in S}) \ {Nil}
    IN IF T = S THEN S ELSE Closure(h, T)

Finalizable(h) == ToSet(h.finobj) \cup ToSet(h.tobefnz)
Roots(h) == {Main, run}
Reachable(h) == Closure(h, Roots(h) \cup Finalizable(h))

\* With weak references, which the program can still follow.
RECURSIVE Accessible(_, _)
Accessible(h, S) ==
    LET weak == {o \in S : kind[o] \in Tables /\ h.val[o] # Nil}
        T == Closure(h, S \cup UNION {{h.key[o], h.val[o]} \ {Nil} : o \in weak})
    IN IF T = S THEN S ELSE Accessible(h, T)

Allocated(h) == {o \in Objects : h.col[o] # "free"}
Lasting(h) == {o \in Objects : kind[o] = "string"}
Doom(h, S) == [h EXCEPT !.doomed = Allocated(h) \ (S \cup Lasting(h))]

--------------------------------------------------------------------------
\* Cycles.

ClearGrayLists(h) ==
    [h EXCEPT !.gray = {}, !.grayagain = {}, !.weak = {}, !.ephemeron = {}, !.allweak = {}]

MarkBeingFnz(h) == MarkAll(h, ToSet(h.tobefnz))
RestartCollection(h) == MarkBeingFnz(MarkObject(ClearGrayLists(h), Main))

\* Before finalizers are separated, all that is strongly accessible is marked;
\* after it also what they resurrect.
MarkAgain(h, again) ==
    ConvergeEphemerons(PropagateAll([PropagateAll(RemarkUpvals(PropagateAll(h))) EXCEPT !.gray = again]))
ClearValues(h) == ClearByValues(ClearByValues(h, h.weak), h.allweak)
Resurrect(h) == ConvergeEphemerons(PropagateAll(MarkBeingFnz(SeparateToBeFnz(h, FALSE))))
ClearKeys(h) == ClearByKeys(ClearByKeys(h, h.ephemeron), h.allweak)
ClearResurrected(h, origweak, origall) ==
    ClearByValues(ClearByValues(h, h.weak \ origweak), h.allweak \ origall)
ClearDead(h) == ClearResurrected(ClearKeys(Resurrect(h)), h.weak, h.allweak)

Atomic(h) ==
    LET fine == h.ephemeron = {} /\ h.weak = {} /\ ~IsWhite(h, Main)
        begun == [LuaAssert(h, fine) EXCEPT !.grayagain = {}, !.state = "atomic"]
    IN FlipWhite(ClearDead(ClearValues(MarkAgain(MarkObject(begun, run), h.grayagain))))

\* What is left to do when finalizers interrupt the collector: states to run
\* to, "all" pending finalizers to call, entering generational mode, ending a
\* full collection.
Then(h, steps) == [h EXCEPT !.todo = steps \o @]

NoSublists(h) ==
    [h EXCEPT !.survival = Nil, !.old1 = Nil, !.reallyold = Nil,
              !.finobjsur = Nil, !.finobjold1 = Nil, !.finobjrold = Nil]

Minor2Inc(h, k) == EnterSweep([NoSublists(h) EXCEPT !.gckind = k])

Correct(h, live, touched, threads) ==
    LET rest == live \ (touched \cup threads)
        fine == (\A o \in touched \cup threads : IsGray(h, o)) /\ (\A o \in rest : IsOld(h, o))
    IN [ClearGrayLists(LuaAssert(h, fine)) EXCEPT
            !.grayagain = touched \cup threads,
            !.col = [o \in Objects |-> IF o \in live \ threads THEN "black" ELSE @[o]],
            !.age = [o \in Objects |-> IF o \in touched THEN Touched2
                                       ELSE IF o \in rest /\ @[o] = Touched2 THEN Old ELSE @[o]]]

\* White objects leave the gray lists, touched ones and threads stay.
CorrectGrayLists(h) ==
    LET live == {o \in GrayLists(h) : ~IsWhite(h, o)}
    IN Correct(h, live, {o \in live : h.age[o] = Touched1},
               {o \in live : kind[o] = "thread" /\ h.age[o] # Touched1})

CallPending(h) == IF h.tobefnz # <<>> /\ ~h.emergency THEN Then(h, <<"all">>) ELSE h
FinishGenCycle(h) == CallPending([CorrectGrayLists(h) EXCEPT !.state = "propagate"])

NextAge(a) ==
    CASE a \in {Survival, Old0} -> Old1 [] a = Old1 -> Old [] OTHER -> a

From(h) == [h EXCEPT !.sweepgc = Head0]

\* sweepgen, with g.sweepgc in the place of p.
RECURSIVE SweepGen(_, _, _)
SweepGen(h, list, limit) ==
    LET curr == At(h[list], h.sweepgc)
    IN IF curr = limit THEN h
       ELSE IF IsWhite(h, curr)
            THEN SweepGen(FreeObj(Drop(LuaAssert(h, ~IsOld(h, curr) /\ IsDead(h, curr)), list, curr),
                                  curr), list, limit)
       ELSE LET a == h.age[curr]
                h1 == [h EXCEPT !.sweepgc = curr]
                h2 == SetAge(LuaAssert(h1, a # Old1), curr, NextAge(a))
            IN CASE a = New -> SweepGen(MakeWhite(SetAge(h1, curr, Survival), curr), list, limit)
                 [] /\ a # New /\ NextAge(a) = Old1
                    /\ list = "allgc" /\ h.firstold1 = Nil ->
                        SweepGen([h2 EXCEPT !.firstold1 = curr], list, limit)
                 [] OTHER -> SweepGen(h2, list, limit)

\* Both young parts of a list; the survivors of the second become old.
MovePointers(h, p, list, sur, old1, rold) ==
    [h EXCEPT ![rold] = h[old1], ![old1] = At(h[list], p), ![sur] = At(h[list], Head0),
              !.sweepgc = Nil]
SweepSurvival(h, list, sur, old1, rold) ==
    MovePointers(SweepGen(h, list, h[old1]), h.sweepgc, list, sur, old1, rold)
SweepYoung(h, list, sur, old1, rold) ==
    SweepSurvival(SweepGen(From(h), list, h[sur]), list, sur, old1, rold)

Elements(s, from, to) ==
    IF from = Nil THEN {}
    ELSE ToSet(SubSeq(s, Position(s, from), IF to = Nil THEN Len(s) ELSE Position(s, to) - 1))

MarkOldAllgc(h) ==
    [MarkOld(LuaAssert(h, h.state = "propagate"), Elements(h.allgc, h.firstold1, h.reallyold))
        EXCEPT !.firstold1 = Nil]
MarkOldFin(h) == MarkOld(h, Elements(h.finobj, At(h.finobj, Head0), h.finobjrold))
MarkOldToBeFnz(h) == MarkOld(h, ToSet(h.tobefnz))
SweepAllgc(h) == SweepYoung([h EXCEPT !.state = "swpallgc"], "allgc", "survival", "old1", "reallyold")
SweepFin(h) == SweepYoung(h, "finobj", "finobjsur", "finobjold1", "finobjrold")
SweepToBeFnz(h) == [SweepGen(From(h), "tobefnz", Nil) EXCEPT !.sweepgc = Nil]
DoomYoung(h) ==
    Doom(h, Closure(h, Roots(h) \cup Finalizable(h) \cup {o \in Objects : IsOld(h, o)}))
EndYoung(h, shift) == IF shift THEN Minor2Inc(h, "genmajor") ELSE FinishGenCycle(h)

YoungCollection(h, shift) ==
    EndYoung(SweepToBeFnz(SweepFin(SweepAllgc(Atomic(
        MarkOldToBeFnz(MarkOldFin(MarkOldAllgc(DoomYoung(h)))))))), shift)

RECURSIVE Sweep2Old(_, _)
Sweep2Old(h, list) ==
    LET curr == At(h[list], h.sweepgc)
        h1 == SetAge([h EXCEPT !.sweepgc = curr], curr, Old)
    IN CASE curr = Nil -> [h EXCEPT !.sweepgc = Nil]
         [] curr # Nil /\ IsWhite(h, curr) ->
                Sweep2Old(FreeObj(Drop(LuaAssert(h, IsDead(h, curr)), list, curr), curr), list)
         [] curr # Nil /\ ~IsWhite(h, curr) /\ kind[curr] = "thread" ->
                Sweep2Old(LinkGcList(h1, curr, "grayagain"), list)
         [] curr # Nil /\ ~IsWhite(h, curr) /\ IsOpen(h, curr) ->
                Sweep2Old([h1 EXCEPT !.col[curr] = "gray"], list)
         [] OTHER -> Sweep2Old(Blacken(h1, curr), list)

AllOld(h, all, fin) ==
    [h EXCEPT !.survival = all, !.old1 = all, !.reallyold = all, !.firstold1 = Nil,
              !.finobjsur = fin, !.finobjold1 = fin, !.finobjrold = fin, !.gckind = "genminor"]
EnterMinor(h) == FinishGenCycle(AllOld(h, At(h.allgc, Head0), At(h.finobj, Head0)))

Atomic2Gen(h) ==
    EnterMinor(Sweep2Old(From(Sweep2Old(From(
        Sweep2Old(From([ClearGrayLists(h) EXCEPT !.state = "swpallgc"]), "allgc")), "finobj")), "tobefnz"))

\* singlestep: o is the gray object to traverse, shift the outcome of checkmajorminor.
SingleStep(h, fast, shift, o) ==
    CASE h.state = "pause" ->
            [Doom(RestartCollection(h),
                  IF fast THEN Reachable(h) ELSE Accessible(h, Reachable(h)))
                EXCEPT !.state = "propagate"]
      [] h.state = "propagate" /\ (fast \/ h.gray = {}) -> [h EXCEPT !.state = "enteratomic"]
      [] h.state = "propagate" /\ ~fast /\ h.gray # {} -> PropagateMark(h, o)
      [] h.state = "enteratomic" ->
            IF h.gckind = "genmajor" /\ shift THEN Atomic2Gen(Atomic(h)) ELSE EnterSweep(Atomic(h))
      [] h.state = "swpallgc" -> SweepStep(h, "swpfinobj", Head0, fast)
      [] h.state = "swpfinobj" -> SweepStep(h, "swptobefnz", Head0, fast)
      [] h.state = "swptobefnz" -> SweepStep(h, "swpend", Nil, fast)
      [] h.state = "swpend" -> [h EXCEPT !.state = "callfin"]
      [] h.state = "callfin" ->
            IF h.tobefnz # <<>> /\ ~h.emergency THEN GCTM(h) ELSE [h EXCEPT !.state = "pause"]

FreeAllObjects(h) ==
    [FoldSet(LAMBDA o, x : FreeObj(Drop(x, "allgc", o), o),
             LuaAssert(h, h.finobj = <<>>), ToSet(h.allgc) \ {Main})
        EXCEPT !.state = "closed", !.doomed = {}]

\* Go on with what is to be done until a finalizer runs.
RECURSIVE Proceed(_)
Proceed(h) ==
    IF h.base > 0 \/ h.todo = <<>> THEN h
    ELSE LET step == Head(h.todo)
             done == [h EXCEPT !.todo = Tail(@)]
         IN CASE step = "all" -> Proceed(IF h.tobefnz = <<>> THEN done ELSE GCTM(h))
              [] step = "enter" -> Proceed(Atomic2Gen(Atomic(done)))
              [] step = "major" -> Proceed([done EXCEPT !.gckind = "genmajor"])
              [] step = "end" -> FreeAllObjects(done)
              [] step = "calm" -> Proceed([done EXCEPT !.emergency = FALSE])
              [] OTHER ->  \* luaC_runtilstate
                    IF h.state = step THEN Proceed(done)
                    ELSE Proceed(SingleStep(LuaAssert(h, h.gckind = "inc"), TRUE, FALSE, Nil))

EnterGen == <<"pause", "propagate", "enter">>

FullInc(h) ==
    Then(IF KeepInvariant(h) THEN EnterSweep([h EXCEPT !.doomed = {}]) ELSE h,
         <<"pause", "callfin", "pause">>)

\* luaC_fullgc.
FullGc(h, emergency) ==
    LET h1 == Then([LuaAssert(h, ~h.emergency) EXCEPT !.emergency = emergency], <<"calm">>)
    IN CASE h.gckind = "genminor" -> Then(Minor2Inc(h1, "inc"), EnterGen)
         [] h.gckind = "inc" -> FullInc(h1)
         [] h.gckind = "genmajor" -> FullInc(Then([h1 EXCEPT !.gckind = "inc"], <<"major">>))

\* luaC_changemode.
ChangeMode(h, mode) ==
    LET h1 == IF h.gckind = "genmajor" THEN [h EXCEPT !.gckind = "inc"] ELSE h
    IN CASE mode = h1.gckind -> h1
         [] mode = "inc" /\ h1.gckind # "inc" -> Minor2Inc(h1, "inc")
         [] OTHER -> Then(h1, EnterGen)

--------------------------------------------------------------------------
\* The collector's actions.

Idle == ~InFinalizer /\ ~g.closing

\* luaC_step (and collectgarbage "step").
StepIncremental ==
    /\ Idle /\ g.gckind \in {"inc", "genmajor"}
    /\ \E o \in IF g.gray = {} THEN {Nil} ELSE g.gray, shift \in {FALSE, g.gckind = "genmajor"} :
          g' = Proceed(SingleStep(g, FALSE, shift, o))
    /\ UNCHANGED <<scene, run, ops>>

StepYoung ==
    /\ Idle /\ g.gckind = "genminor"
    /\ \E shift \in BOOLEAN : g' = Proceed(YoungCollection(g, shift))
    /\ UNCHANGED <<scene, run, ops>>

Collect ==
    /\ Idle
    /\ g' = Proceed(FullGc(g, FALSE))
    /\ UNCHANGED <<scene, run, ops>>

SwitchMode ==
    /\ Idle /\ scene.gen
    /\ \E mode \in {"inc", "genminor"} :
          mode # g.gckind /\ g' = Proceed(ChangeMode(g, mode))
    /\ UNCHANGED <<scene, run, ops>>

\* An allocation fails, in a finalizer too.
Emergency ==
    /\ ~g.closing
    /\ LET h == Proceed(FullGc([g EXCEPT !.base = 0, !.todo = <<>>], TRUE))
       IN g' = [h EXCEPT !.base = g.base, !.todo = g.todo]
    /\ UNCHANGED <<scene, run, ops>>

Return(h) ==
    [CloseUpvals(h, run, h.base) EXCEPT !.stk[run] = SubSeq(@, 1, h.base - 1), !.base = 0]

\* The finalizer returns: its frame is gone, the collector goes on.
EndFinalizer ==
    /\ InFinalizer
    /\ g' = Proceed(Return(g))
    /\ UNCHANGED <<scene, run, ops>>

\* close_state: the main thread loses its stack; luaC_freeallobjects: no
\* collector from here, all finalizers run.
Close ==
    /\ Idle /\ run = Main
    /\ LET h0 == [CloseUpvals(g, Main, 1) EXCEPT !.stk[Main] = <<>>, !.closing = TRUE]
           h == ChangeMode(Then(h0, <<"all", "end">>), "inc")
       IN g' = Proceed(SeparateToBeFnz(h, TRUE))
    /\ UNCHANGED <<scene, run, ops>>

--------------------------------------------------------------------------
\* The program.

Stack == g.stk[run]
Height == Len(Stack)
MayPush == Height < StackMax
Push(h, o) == [h EXCEPT !.stk[run] = Append(@, o)]
Running ==
    /\ g.state # "closed"
    /\ ops < scene.ops /\ ops' = ops + 1

NewObject(h, o) ==
    [h EXCEPT !.allgc = <<o>> \o @, !.col[o] = "white", !.age[o] = New]

Unused(k) == {o \in Objects : kind[o] = k /\ g.col[o] = "free"}

\* A new table, string, closure (its upvalue still missing) or coroutine.
Create(o) ==
    /\ Running /\ MayPush
    /\ kind[o] \notin {"upvalue", "none"} /\ Unused(kind[o]) # {} /\ o = Min(Unused(kind[o]))
    /\ g' = Push(NewObject(g, o), o)
    /\ UNCHANGED <<scene, run>>

\* luaF_findupval for the closure on the top of the stack, with its barrier.
Capture(level) ==
    /\ Running /\ Height > level
    /\ LET c == Stack[Height]
           there == {u \in OpenUpvals(g, run) : g.slot[u] = level}
       IN /\ kind[c] = "closure" /\ g.val[c] = Nil
          /\ \E u \in IF there # {} THEN there ELSE Unused("upvalue") :
                LET h == IF there # {} THEN LuaAssert(g, ~IsDead(g, u))
                         ELSE [NewObject(g, u) EXCEPT !.home[u] = run, !.slot[u] = level,
                                                      !.twups = @ \cup {run}]
                IN g' = LuaCBarrier([h EXCEPT !.val[c] = u], c, u)
    /\ UNCHANGED <<scene, run>>

Pop ==
    /\ Running /\ Height >= IF InFinalizer THEN g.base ELSE 1
    /\ LET h == CloseUpvals(g, run, Height)
       IN g' = [h EXCEPT !.stk[run] = SubSeq(@, 1, Height - 1)]
    /\ UNCHANGED <<scene, run>>

\* Reads of table entries and of upvalues.
Loads(o) ==
    CASE kind[o] \in Tables -> IF g.val[o] = Nil THEN {} ELSE {g.key[o], g.val[o]}
      [] kind[o] = "closure" -> IF g.val[o] = Nil THEN {} ELSE {UpValue(g, g.val[o])}
      [] OTHER -> {}

Load ==
    /\ Running /\ MayPush
    /\ \E o \in OnStack(g, run) : \E v \in Loads(o) \ {Nil} : g' = Push(g, v)
    /\ UNCHANGED <<scene, run>>

\* (mutants of LuaCBarrierBack: there is none; a touched object is not remembered as touched)
BarrierNone(h, t, v) == h
BarrierUntouched(h, t, v) ==
    IF v = Nil \/ ~IsBlack(h, t) \/ ~IsWhite(h, v) THEN h ELSE LinkGcList(h, t, "grayagain")

LuaCBarrierBack(h, t, v) ==
    IF v = Nil \/ ~IsBlack(h, t) \/ ~IsWhite(h, v) THEN h
    ELSE LET fine == /\ ~IsDead(h, t)
                     /\ h.gckind = "genminor" => IsOld(h, t) /\ h.age[t] # Touched1
             h1 == LuaAssert(h, fine)
             h2 == IF h.age[t] = Touched2 THEN [h1 EXCEPT !.col[t] = "gray"]
                   ELSE LinkGcList(h1, t, "grayagain")
         IN IF IsOld(h, t) THEN SetAge(h2, t, Touched1) ELSE h2

\* luaH_newkey and its barrier, when the node does not have the key yet.
NewKey(h, t, k) == IF h.key[t] = k THEN h ELSE LuaCBarrierBack([h EXCEPT !.key[t] = k], t, k)

\* t[k] = v, in a node that is free or has this key; k may be no object.
Store(t, k, v) ==
    /\ Running /\ kind[t] \in Tables /\ {t, v} \cup ({k} \ {Nil}) \subseteq OnStack(g, run)
    /\ g.val[t] = Nil \/ g.key[t] = k
    /\ g' = LuaCBarrierBack([NewKey(g, t, k) EXCEPT !.val[t] = v], t, v)
    /\ UNCHANGED <<scene, run>>

\* t[k] = nil: the key stays in the node.
Erase(t) ==
    /\ Running /\ t \in OnStack(g, run) /\ kind[t] \in Tables /\ g.val[t] # Nil
    /\ g' = [g EXCEPT !.val[t] = Nil]
    /\ UNCHANGED <<scene, run>>

SetUpval(c, v) ==
    /\ Running /\ {c, v} \subseteq OnStack(g, run) /\ kind[c] = "closure" /\ g.val[c] # Nil
    /\ LET u == g.val[c]
           h == IF IsOpen(g, u) THEN [g EXCEPT !.stk[g.home[u]][g.slot[u]] = v]
                ELSE [g EXCEPT !.val[u] = v]
       IN g' = LuaCBarrier(h, u, v)
    /\ UNCHANGED <<scene, run>>

SetFinalizer(t) ==
    /\ Running /\ t \in OnStack(g, run) /\ kind[t] = "fintable"
    /\ g' = [CheckFinalizer(g, t) EXCEPT !.armed = IF g.closing THEN @ ELSE @ \cup {t}]
    /\ UNCHANGED <<scene, run>>

\* coroutine.resume with the top of the stack as argument (or none); yield back.
Resume(t) ==
    /\ Running /\ run = Main /\ ~InFinalizer /\ t # Main
    /\ t \in OnStack(g, Main) /\ kind[t] = "thread"
    /\ run' = t
    /\ \/ UNCHANGED g
       \/ /\ Len(g.stk[t]) < StackMax /\ Stack[Height] # t
          /\ g' = [CloseUpvals(g, Main, Height) EXCEPT
                      !.stk = [@ EXCEPT ![Main] = SubSeq(@, 1, Height - 1),
                                        ![t] = Append(@, Stack[Height])]]
    /\ UNCHANGED scene

Yield ==
    /\ Running /\ run # Main /\ ~InFinalizer
    /\ run' = Main
    /\ \/ UNCHANGED g
       \/ /\ Height > 0 /\ Len(g.stk[Main]) < StackMax
          /\ g' = [CloseUpvals(g, run, Height) EXCEPT
                      !.stk = [@ EXCEPT ![run] = SubSeq(@, 1, Height - 1),
                                        ![Main] = Append(@, Stack[Height])]]
    /\ UNCHANGED scene

\* A local variable takes the value of another.
Move(i, j) ==
    /\ Running /\ {i, j} \subseteq 1 .. Height /\ Stack[i] # Stack[j]
    /\ g' = [g EXCEPT !.stk[run][i] = Stack[j]]
    /\ UNCHANGED <<scene, run>>

\* The heap of the scenario, made before the collector's first step (lua_newstate
\* sets the fields of the collector).
Init ==
    /\ scene \in Scenarios
    /\ run = Main /\ ops = 0
    /\ g = [col |-> [o \in Objects |-> IF o \in scene.live THEN "white" ELSE "free"],
            age |-> [o \in Objects |-> New],
            key |-> [o \in Objects |-> IF o \in DOMAIN scene.entry THEN scene.entry[o][1] ELSE Nil],
            val |-> [o \in Objects |-> IF o \in DOMAIN scene.entry THEN scene.entry[o][2] ELSE Nil],
            stk |-> [o \in Objects |-> IF o \in DOMAIN scene.stack THEN scene.stack[o] ELSE <<>>],
            home |-> [o \in Objects |-> IF o \in DOMAIN scene.open THEN scene.open[o] ELSE Nil],
            slot |-> [o \in Objects |-> IF o \in DOMAIN scene.open THEN 1 ELSE 0],
            fin |-> scene.fin, armed |-> scene.fin, tobefnz |-> <<>>,
            allgc |-> SetToSortSeq(scene.live \ scene.fin, >), finobj |-> SetToSortSeq(scene.fin, >),
            gray |-> {}, grayagain |-> {}, weak |-> {}, ephemeron |-> {}, allweak |-> {},
            twups |-> Range(scene.open), changed |-> FALSE,
            state |-> "pause", gckind |-> "inc", sweepgc |-> Nil,
            survival |-> Nil, old1 |-> Nil, reallyold |-> Nil, firstold1 |-> Nil,
            finobjsur |-> Nil, finobjold1 |-> Nil, finobjrold |-> Nil,
            emergency |-> FALSE, closing |-> FALSE, base |-> 0, todo |-> <<>>,
            ok |-> TRUE, doomed |-> {}]

Program ==
    \/ Pop \/ Load \/ Yield
    \/ \E o \in Objects : Create(o) \/ Erase(o) \/ SetFinalizer(o) \/ Resume(o)
    \/ \E i \in 1 .. StackMax : Capture(i) \/ \E j \in 1 .. StackMax : Move(i, j)
    \/ \E t, v \in Objects : SetUpval(t, v) \/ \E k \in Objects \cup {Nil} : Store(t, k, v)

Collector == StepIncremental \/ StepYoung \/ Collect \/ SwitchMode \/ Emergency \/ EndFinalizer \/ Close

Next == Program \/ Collector

Spec == Init /\ [][Next]_vars

--------------------------------------------------------------------------
\* What every object is, and that no step falsified an assertion of the code.
TypeOK ==
    /\ g.col \in [Objects -> Whites \cup {"free", "gray", "black"}]
    /\ g.age \in [Objects -> New .. Touched2]
    /\ ToSet(g.allgc) \cup Finalizable(g) = Allocated(g)

(***************************************************************************)
(* Every lua_assert of the collector holds: list discipline, ages, phases  *)
(* and liveness of what barriers see.                                      *)
(***************************************************************************)
AssertsHold == g.ok

(***************************************************************************)
(* What the program can get at is never freed, and never due to be freed:  *)
(* the reachable objects, the entries of reachable tables, weak ones too,  *)
(* and what finalizers that have not run will see.  The key that an erased *)
(* entry keeps is no freed object either (luaH_next compares it).          *)
(***************************************************************************)
NothingLost ==
    \A o \in Reachable(g) :
        /\ \A x \in {o} \cup (IF kind[o] \in Tables /\ g.val[o] # Nil
                              THEN {g.key[o], g.val[o]} \ {Nil} ELSE {}) :
              g.col[x] # "free" /\ ~IsDead(g, x)
        /\ kind[o] \in Tables /\ g.key[o] # Nil => g.col[g.key[o]] # "free"

(***************************************************************************)
(* The invariants the barriers keep.  While an incremental cycle marks, no *)
(* black object refers to a white one.  Between minor collections, a black *)
(* object that is really old refers to old objects only, one that became   *)
(* old (or was touched) in the last collection to none that is new since;   *)
(* threads, which have no barriers, are visited in every collection.       *)
(* A gray object is listed to be visited again, or an open upvalue.        *)
(***************************************************************************)
Refers(o, x) ==
    IF g.gckind # "genminor" THEN IsBlack(g, o) => ~IsWhite(g, x)
    ELSE kind[o] # "thread" =>
         /\ g.age[o] = Old /\ IsBlack(g, o) => IsOld(g, x)
         /\ g.age[o] \in {Old1, Touched2} /\ IsBlack(g, o) => g.age[x] # New

Tricolour ==
    KeepInvariant(g) =>
        \A o \in Allocated(g) :
            /\ \A x \in Succ(g, Objects, o) \ {Nil} : Refers(o, x)
            /\ IsGray(g, o) => o \in GrayLists(g) \/ IsOpen(g, o)

(***************************************************************************)
(* What was garbage when a cycle began is gone when its sweeps are over;   *)
(* in a minor collection, the young garbage that nothing old refers to.    *)
(***************************************************************************)
GarbageGoes == g.state \in {"callfin", "pause"} \/ g.gckind = "genminor" => g.doomed = {}

(***************************************************************************)
(* An object is put up for its finalizer only when nothing can reach it    *)
(* any more, or the state closes.                                          *)
(***************************************************************************)
FinalizedWhenUnreachable ==
    [][LET h == IF InFinalizer THEN Return(g) ELSE g
       IN ~g'.closing =>
            \A o \in ToSet(g.finobj) \ ToSet(g'.finobj) : o \notin Closure(h, Roots(h))]_vars

(***************************************************************************)
(* The objects with a finalizer to run (g.armed: set, not yet run) are     *)
(* those on the two lists; none is left when the state has been closed.    *)
(***************************************************************************)
FinalizersRun ==
    /\ g.armed = Finalizable(g)
    /\ g.state = "closed" => g.armed = {}
=============================================================================
