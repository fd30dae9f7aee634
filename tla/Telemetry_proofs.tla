--------------------------- MODULE Telemetry_proofs ---------------------------
(***************************************************************************)
(* The telemetry, updated and read field by field under a mutex, implements*)
(* counters that are updated and read in one piece: for any threads,       *)
(* wherever counters wrap, and scripts that leave a call by longjmp.       *)
(***************************************************************************)
EXTENDS Telemetry, TLAPS

USE ThreadAssumption, FreeAssumption, WrapAssumption, DepthAssumption, ErrorsAssumption

-----------------------------------------------------------------------------
(* The fields a call has still to touch. *)

Distinct(s) == \A i, j \in 1 .. Len(s) : s[i] = s[j] => i = j

\* Touching the first field leaves the others to be touched.
LEMMA NextField ==
    ASSUME NEW s \in Seq(Fields), s # << >>, Distinct(s)
    PROVE  /\ Head(s) \in Fields /\ Tail(s) \in Seq(Fields) /\ Len(Tail(s)) = Len(s) - 1
           /\ Distinct(Tail(s)) /\ Head(s) \in Range(s) /\ Range(Tail(s)) = Range(s) \ {Head(s)}
<1>1. /\ Head(s) = s[1] /\ Head(s) \in Fields /\ Tail(s) \in Seq(Fields) /\ Len(s) \in Nat \ {0}
      /\ Len(Tail(s)) = Len(s) - 1 /\ \A i \in 1 .. Len(s) - 1 : Tail(s)[i] = s[i + 1]
  OBVIOUS
<1>2. \A i \in 1 .. Len(s) - 1 : i + 1 \in 1 .. Len(s) /\ i + 1 # 1
  BY <1>1
<1>3. Distinct(Tail(s))
  <2> SUFFICES ASSUME NEW i \in 1 .. Len(s) - 1, NEW j \in 1 .. Len(s) - 1, Tail(s)[i] = Tail(s)[j]
               PROVE  i = j
    BY <1>1 DEF Distinct
  <2>1. s[i + 1] = s[j + 1] /\ i + 1 \in 1 .. Len(s) /\ j + 1 \in 1 .. Len(s)
    BY <1>1, <1>2
  <2>2. i + 1 = j + 1
    BY <2>1 DEF Distinct
  <2> QED BY <2>2
<1>4. Head(s) \in Range(s)
  BY <1>1 DEF Range
<1>5. Range(Tail(s)) \subseteq Range(s) \ {Head(s)}
  <2> SUFFICES ASSUME NEW i \in 1 .. Len(s) - 1 PROVE Tail(s)[i] \in Range(s) \ {Head(s)}
    BY <1>1 DEF Range
  <2> QED BY <1>1, <1>2 DEF Range, Distinct
<1>6. Range(s) \ {Head(s)} \subseteq Range(Tail(s))
  <2> SUFFICES ASSUME NEW i \in 1 .. Len(s), i # 1 PROVE s[i] \in Range(Tail(s))
    BY <1>1 DEF Range
  <2>1. i - 1 \in 1 .. Len(s) - 1 /\ i - 1 + 1 = i
    BY <1>1
  <2>2. Tail(s)[i - 1] = s[i] /\ i - 1 \in 1 .. Len(Tail(s))
    BY <1>1, <2>1
  <2> QED BY <2>2 DEF Range
<1> QED BY <1>1, <1>3, <1>4, <1>5, <1>6

\* Short sequences of fields.
LEMMA ShortSeq ==
    /\ Distinct(<< >>) /\ Range(<< >>) = {}
    /\ \A f : Distinct(<<f>>) /\ Range(<<f>>) = {f}
    /\ \A f, g \in Fields : f # g => /\ Append(<<f>>, g) \in Seq(Fields) /\ Len(Append(<<f>>, g)) = 2
                                    /\ Distinct(Append(<<f>>, g)) /\ Range(Append(<<f>>, g)) = {f, g}
    /\ LET all == <<"total", "passed", "failed", "status">>
       IN Distinct(all) /\ Range(all) = Fields /\ Len(all) = 4 /\ all \in Seq(Fields)
<1>1. Distinct(<< >>) /\ Range(<< >>) = {}
  BY DEF Distinct, Range
<1>2. ASSUME NEW f PROVE Distinct(<<f>>) /\ Range(<<f>>) = {f}
  <2>1. Len(<<f>>) = 1 /\ <<f>>[1] = f /\ \A i \in 1 .. 1 : i = 1
    OBVIOUS
  <2> QED BY <2>1 DEF Distinct, Range
<1>3. ASSUME NEW f \in Fields, NEW g \in Fields, f # g
      PROVE  /\ Append(<<f>>, g) \in Seq(Fields) /\ Len(Append(<<f>>, g)) = 2
             /\ Distinct(Append(<<f>>, g)) /\ Range(Append(<<f>>, g)) = {f, g}
  <2> DEFINE s == Append(<<f>>, g)
  <2>1. <<f>> \in Seq(Fields) /\ Len(<<f>>) = 1 /\ <<f>>[1] = f
    OBVIOUS
  <2>2. s \in Seq(Fields) /\ Len(s) = 2 /\ s[1] = f /\ s[2] = g /\ \A i \in 1 .. 2 : i = 1 \/ i = 2
    BY <2>1
  <2> HIDE DEF s
  <2>3. Distinct(s)
    BY <1>3, <2>2 DEF Distinct
  <2>4. Range(s) = {f, g}
    BY <2>2 DEF Range
  <2> QED BY <2>2, <2>3, <2>4 DEF s
<1>4. LET all == <<"total", "passed", "failed", "status">>
      IN Distinct(all) /\ Range(all) = Fields /\ Len(all) = 4 /\ all \in Seq(Fields)
  <2> DEFINE all == <<"total", "passed", "failed", "status">>
  <2>1. /\ Len(all) = 4 /\ all[1] = "total" /\ all[2] = "passed" /\ all[3] = "failed" /\ all[4] = "status"
        /\ \A i \in 1 .. 4 : i = 1 \/ i = 2 \/ i = 3 \/ i = 4
    OBVIOUS
  <2>2. all \in Seq(Fields)
    BY DEF Fields
  <2> HIDE DEF all
  <2>3. Distinct(all)
    BY <2>1 DEF Distinct
  <2>4. Range(all) = Fields
    BY <2>1 DEF Range, Fields
  <2> QED BY <2>1, <2>2, <2>3, <2>4 DEF all
<1> QED BY <1>1, <1>2, <1>3, <1>4

\* What a call touches.
LEMMA TouchedFields ==
    ASSUME NEW o \in Ops \cup {NoOp}
    PROVE  /\ Touched(o) \in Seq(Fields) /\ Len(Touched(o)) <= 4 /\ Distinct(Touched(o))
           /\ Range(Touched(o)) \subseteq Fields
           /\ o.act \in {"set", "get"} => \A f, g \in Range(Touched(o)) : f = g
<1>1. \A a, k : Named(a, k) = << >> \/ \E f \in Fields : Named(a, k) = <<f>>
  BY DEF Named, Fields
<1>2. Named("inc", "pass") = <<"passed">> /\ Named("inc", "fail") = <<"failed">>
  BY DEF Named
<1>4. CASE o.act \in {"copy", "reset"}
  BY <1>4, ShortSeq DEF Touched
<1>5. CASE o.act = "inc" /\ o.key \in {"pass", "fail"}
  <2>1. PICK f \in Fields, g \in Fields : Touched(o) = Append(<<f>>, g) /\ f # g
    BY <1>2, <1>5 DEF Touched, Fields
  <2> QED BY <1>5, <2>1, ShortSeq
<1>6. CASE o.act \notin {"copy", "reset"} /\ ~(o.act = "inc" /\ o.key \in {"pass", "fail"})
  <2>1. Touched(o) = << >> \/ \E f \in Fields : Touched(o) = <<f>>
    <3>1. Touched(o) = <<"status">> \/ \E a, k : Touched(o) = Named(a, k)
      BY <1>6 DEF Touched
    <3> QED BY <1>1, <3>1 DEF Fields
  <2>2. CASE Touched(o) = << >>
    BY <2>2, ShortSeq
  <2>3. ASSUME NEW f \in Fields, Touched(o) = <<f>>
        PROVE  /\ Touched(o) \in Seq(Fields) /\ Len(Touched(o)) <= 4 /\ Distinct(Touched(o))
               /\ Range(Touched(o)) = {f}
    <3>1. <<f>> \in Seq(Fields) /\ Len(<<f>>) = 1
      OBVIOUS
    <3> QED BY <2>3, <3>1, ShortSeq
  <2> QED BY <2>1, <2>2, <2>3
<1> QED BY <1>4, <1>5, <1>6

\* What a call writes fits the field.
LEMMA WrittenTyped ==
    ASSUME NEW o \in Ops, ~IsRead(o), NEW s \in Structs, NEW f \in Range(Touched(o))
    PROVE  [s EXCEPT ![f] = Written(o, f, @)] \in Structs
<1>1. f \in Fields
  BY TouchedFields
<1>2. CASE o.act = "inc"
  <2>1. o.val \in Counts
    BY <1>2 DEF Ops, ScriptOps, Script, Plain
  <2>2. f # "status"
    <3>1. \A k : Named("inc", k) \in {<<"passed">>, <<"failed">>, <<"total">>, << >>}
      BY DEF Named
    <3>2. CASE o.key \in {"pass", "fail"}
      <4>1. PICK g \in Fields : Touched(o) = Append(<<g>>, "total") /\ g \in {"passed", "failed"}
        BY <1>2, <3>2 DEF Touched, Named, Fields
      <4> QED BY <4>1, ShortSeq DEF Fields
    <3>3. CASE o.key \notin {"pass", "fail"}
      BY <1>2, <3>1, <3>3, ShortSeq DEF Touched
    <3> QED BY <3>2, <3>3
  <2>3. s[f] \in Counts
    BY <1>1, <2>2 DEF Structs, Fields
  <2>4. Written(o, f, s[f]) \in Counts
    BY <1>2, <2>1, <2>3 DEF Written, Counts
  <2> QED BY <1>1, <2>2, <2>4 DEF Structs, Fields
<1>3. CASE o.act = "set"
  <2>1. o.val \in Counts
    BY <1>3 DEF Ops, ScriptOps, Script, Plain
  <2> QED BY <1>1, <1>3, <2>1 DEF Written, Structs, Statuses, Fields
<1>4. CASE o.act = "reset"
  <2>1. 0 \in Counts
    BY DEF Counts
  <2> QED BY <1>1, <1>4, <2>1 DEF Written, Structs, Statuses, Fields
<1>5. CASE o.act = "report"
  <2>1. f = "status"
    BY <1>5, ShortSeq DEF Touched
  <2> QED BY <1>5, <2>1 DEF Written, Structs, Statuses
<1> QED BY <1>2, <1>3, <1>4, <1>5 DEF Ops, ScriptOps, Script, Plain, IsRead

\* Structs with the same fields are the same.
LEMMA SameStruct ==
    ASSUME NEW r \in Structs, NEW s \in Structs, \A f \in Fields : r[f] = s[f] PROVE r = s
BY DEF Structs, Fields

-----------------------------------------------------------------------------
(* The inductive invariant. *)

Inside(t) == pc[t] = "inside"
Updating(t) == Inside(t) /\ ~IsRead(op[t])
Touching(t) == Range(Touched(op[t]))
Past(t) == Touching(t) \ Range(todo[t])

\* Who is inside holds the mutex; a leak keeps one lock for good.
MutexHeld ==
    /\ \A t \in Threads : Inside(t) => owner = t
    /\ leaked => depth > 0 /\ (Inside(Worker) => depth > 1)

\* A call goes through its fields one by one.
CallsProceed ==
    \A t \in Threads :
        /\ pc[t] \in {"locking", "inside"} => op[t] \in Ops
        /\ Inside(t) => Distinct(todo[t]) /\ Range(todo[t]) \subseteq Touching(t)

\* The fields that an update has passed have its result; without one the struct is
\* as completed calls have left it.
StructHalfway ==
    /\ (\A t \in Threads : ~Updating(t)) => telemetry = done
    /\ \A t \in Threads : Updating(t) =>
         \A f \in Fields :
           telemetry[f] = IF f \in Past(t) THEN Written(op[t], f, done[f]) ELSE done[f]

\* The fields that a reader has passed are in its copy.
CopiesTrue ==
    \A t \in Threads :
        /\ Inside(t) /\ IsRead(op[t]) => copy[t] = [f \in Past(t) |-> done[f]]
        /\ pc[t] \in {"idle", "locking"} \/ Updating(t) => copy[t] = Nothing

IInv == TypeOK /\ MutexHeld /\ CallsProceed /\ StructHalfway /\ CopiesTrue

-----------------------------------------------------------------------------

LEMMA Initially == Init => IInv
<1> SUFFICES ASSUME Init PROVE IInv
  OBVIOUS
<1>1. Fresh \in Structs
  BY DEF Fresh, Structs, Counts, Statuses
<1>2. << >> \in Seq(Fields) /\ Len(<< >>) = 0
  OBVIOUS
<1>3. TypeOK
  <2>1. \A u \in Threads : todo[u] \in Seq(Fields) /\ Len(todo[u]) <= 4 /\ DOMAIN copy[u] \subseteq Fields
    BY <1>2 DEF Init, Nothing
  <2>2. todo \in [Threads -> Seq(Fields)] /\ DOMAIN copy = Threads
    BY <1>2 DEF Init
  <2>3. owner = Free /\ depth = 0 /\ depth \in 0 .. MaxDepth
    BY DEF Init
  <2> QED BY <1>1, <2>1, <2>2, <2>3 DEF Init, TypeOK
<1> QED BY <1>3 DEF Init, IInv, MutexHeld, CallsProceed, StructHalfway, CopiesTrue, Inside, Updating

\* One thread at most is inside.
LEMMA OneInside ==
    ASSUME IInv, NEW t \in Threads, Inside(t), NEW u \in Threads \ {t} PROVE ~Inside(u)
BY DEF IInv, MutexHeld

LEMMA CallKeeps ==
    ASSUME IInv, NEW t \in Threads, NEW o \in Ops, Call(t, o) PROVE IInv'
<1>1. \A u \in Threads \ {t} : pc'[u] = pc[u] /\ op'[u] = op[u]
  BY DEF Call, IInv, TypeOK
<1>2. /\ pc[t] = "idle" /\ pc'[t] = "locking" /\ op'[t] = o
      /\ UNCHANGED <<telemetry, owner, depth, todo, copy, done, leaked>>
  BY DEF Call, IInv, TypeOK, history
<1>3. TypeOK'
  BY DEF Call, IInv, TypeOK, history
<1>4. \A u \in Threads : (Inside(u)' <=> Inside(u)) /\ (Updating(u)' <=> Updating(u))
  BY <1>1, <1>2 DEF Inside, Updating
<1>5. \A u \in Threads : Inside(u) => op'[u] = op[u] /\ Past(u)' = Past(u) /\ Touching(u)' = Touching(u)
  BY <1>1, <1>2 DEF Inside, Past, Touching
<1>6. MutexHeld'
  BY <1>2, <1>4 DEF IInv, MutexHeld, Threads
<1>7. CallsProceed'
  BY <1>1, <1>2, <1>4, <1>5 DEF IInv, CallsProceed
<1>8. StructHalfway'
  BY <1>2, <1>4, <1>5 DEF IInv, StructHalfway, Updating
<1>9. CopiesTrue'
  <2> SUFFICES ASSUME NEW u \in Threads
               PROVE  /\ Inside(u)' /\ IsRead(op'[u]) => copy'[u] = [f \in Past(u)' |-> done'[f]]
                      /\ pc'[u] \in {"idle", "locking"} \/ Updating(u)' => copy'[u] = Nothing
    BY DEF CopiesTrue
  <2>1. Inside(u) /\ IsRead(op[u]) => copy[u] = [f \in Past(u) |-> done[f]]
    BY DEF IInv, CopiesTrue
  <2>2. pc[u] \in {"idle", "locking"} \/ Updating(u) => copy[u] = Nothing
    BY DEF IInv, CopiesTrue
  <2>3. pc'[u] \in {"idle", "locking"} => pc[u] \in {"idle", "locking"}
    BY <1>1, <1>2
  <2> QED BY <1>2, <1>4, <1>5, <2>1, <2>2, <2>3
<1> QED BY <1>3, <1>6, <1>7, <1>8, <1>9 DEF IInv

LEMMA LockKeeps ==
    ASSUME IInv, NEW t \in Threads, Lock(t) PROVE IInv'
<1>1. \A u \in Threads \ {t} : pc'[u] = pc[u] /\ op'[u] = op[u] /\ todo'[u] = todo[u] /\ ~Inside(u)
  BY DEF Lock, IInv, TypeOK, MutexHeld, Inside
<1>2. /\ pc[t] = "locking" /\ pc'[t] = "inside" /\ todo'[t] = Touched(op[t]) /\ op' = op /\ op[t] \in Ops
      /\ owner' = t /\ depth' = depth + 1 /\ depth < MaxDepth /\ depth \in 0 .. MaxDepth
      /\ UNCHANGED <<telemetry, copy, done, leaked>> /\ copy[t] = Nothing
  BY DEF Lock, IInv, TypeOK, CallsProceed, CopiesTrue, history
<1>3. Touched(op[t]) \in Seq(Fields) /\ Len(Touched(op[t])) <= 4 /\ Distinct(Touched(op[t]))
  BY <1>2, TouchedFields
<1>4. \A u \in Threads : ~Updating(u)
  BY <1>1, <1>2 DEF Updating, Inside
<1>5. Past(t)' = {} /\ Touching(t)' = Touching(t)
  BY <1>2 DEF Past, Touching
<1>6. TypeOK'
  <2>1. depth' \in 0 .. MaxDepth /\ depth' # 0
    BY <1>2
  <2>2. leaked' => (Careless \/ ShortOfMemory) /\ owner' = Worker
    BY DEF Lock, IInv, TypeOK, history, Threads
  <2> QED BY <1>2, <1>3, <2>1, <2>2 DEF Lock, IInv, TypeOK
<1>7. MutexHeld'
  BY <1>1, <1>2 DEF IInv, MutexHeld, Inside
<1>8. CallsProceed'
  BY <1>1, <1>2, <1>3, <1>5 DEF IInv, CallsProceed, Inside, Touching
<1>9. telemetry = done
  BY <1>4 DEF IInv, StructHalfway
<1>10. StructHalfway'
  BY <1>1, <1>2, <1>5, <1>9 DEF StructHalfway, Updating, Inside
<1>11. CopiesTrue'
  <2>1. [f \in {} |-> done[f]] = Nothing
    BY DEF Nothing
  <2> QED BY <1>1, <1>2, <1>5, <2>1 DEF IInv, CopiesTrue, Inside, Updating
<1> QED BY <1>6, <1>7, <1>8, <1>10, <1>11 DEF IInv

LEMMA TouchKeeps ==
    ASSUME IInv, NEW t \in Threads, Touch(t) PROVE IInv'
<1> DEFINE f == Head(todo[t])
           o == op[t]
<1>1. \A u \in Threads \ {t} : todo'[u] = todo[u] /\ copy'[u] = copy[u] /\ ~Inside(u)
  BY DEF Touch, IInv, TypeOK, MutexHeld, Inside
<1>2. /\ Inside(t) /\ todo[t] # << >> /\ todo[t] \in Seq(Fields) /\ Distinct(todo[t]) /\ o \in Ops
      /\ Range(todo[t]) \subseteq Touching(t) /\ todo'[t] = Tail(todo[t]) /\ Len(todo[t]) <= 4
      /\ todo' = [todo EXCEPT ![t] = Tail(@)]
      /\ UNCHANGED <<owner, depth, pc, op, done, leaked>>
  BY DEF Touch, IInv, TypeOK, CallsProceed, Inside, history
<1>3. /\ f \in Fields /\ f \in Range(todo[t]) /\ Tail(todo[t]) \in Seq(Fields) /\ Distinct(Tail(todo[t]))
      /\ Range(Tail(todo[t])) = Range(todo[t]) \ {f} /\ Len(Tail(todo[t])) = Len(todo[t]) - 1
  BY <1>2, NextField
<1>4. Past(t)' = Past(t) \cup {f} /\ f \notin Past(t) /\ Touching(t)' = Touching(t) /\ f \in Touching(t)
  BY <1>2, <1>3 DEF Past, Touching
<1>5. \A u \in Threads : (Inside(u)' <=> Inside(u)) /\ (Updating(u)' <=> Updating(u))
  BY <1>2 DEF Inside, Updating
<1>6. todo' \in [Threads -> Seq(Fields)] /\ \A u \in Threads : Len(todo'[u]) <= 4
  BY <1>1, <1>2, <1>3 DEF IInv, TypeOK
<1>7. MutexHeld'
  BY <1>2, <1>5 DEF IInv, MutexHeld, Threads
<1>8. CallsProceed'
  BY <1>1, <1>2, <1>3, <1>4, <1>5 DEF IInv, CallsProceed, Inside
<1>9. CASE IsRead(o)
  <2>1. telemetry' = telemetry
        /\ copy' = [copy EXCEPT ![t] = [g \in DOMAIN @ \cup {f} |-> IF g = f THEN telemetry[f] ELSE @[g]]]
    BY <1>9 DEF Touch
  <2>2. \A u \in Threads : ~Updating(u)
    BY <1>1, <1>9 DEF Updating
  <2>3. telemetry = done
    BY <2>2 DEF IInv, StructHalfway
  <2>4. copy[t] = [g \in Past(t) |-> done[g]]
    BY <1>2, <1>9 DEF IInv, CopiesTrue
  <2>5. copy'[t] = [g \in Past(t)' |-> done'[g]]
    BY <1>2, <1>4, <2>1, <2>3, <2>4 DEF IInv, TypeOK
  <2>6. DOMAIN copy'[t] \subseteq Fields /\ DOMAIN copy' = Threads
    BY <1>3, <1>4, <2>1, <2>4, <2>5 DEF IInv, TypeOK
  <2>7. TypeOK'
    BY <1>1, <1>2, <1>6, <2>1, <2>6 DEF IInv, TypeOK
  <2>8. StructHalfway'
    BY <1>2, <1>5, <2>1, <2>2, <2>3 DEF StructHalfway
  <2>9. CopiesTrue'
    BY <1>1, <1>2, <1>5, <1>9, <2>2, <2>5 DEF IInv, CopiesTrue, Inside
  <2> QED BY <1>7, <1>8, <2>7, <2>8, <2>9 DEF IInv
<1>10. CASE ~IsRead(o)
  <2>1. copy' = copy /\ telemetry' = [telemetry EXCEPT ![f] = Written(o, f, @)]
    BY <1>10 DEF Touch
  <2>2. telemetry \in Structs /\ telemetry' \in Structs
    BY <1>2, <1>3, <1>10, <2>1, WrittenTyped DEF IInv, TypeOK, Touching
  <2>3. Updating(t)
    BY <1>2, <1>10 DEF Updating
  <2>4. \A g \in Fields : telemetry[g] = IF g \in Past(t) THEN Written(o, g, done[g]) ELSE done[g]
    BY <2>3 DEF IInv, StructHalfway
  <2>5. \A g \in Fields : telemetry'[g] = IF g = f THEN Written(o, f, telemetry[f]) ELSE telemetry[g]
    BY <2>1, <2>2 DEF Structs, Fields
  <2>6. \A g \in Fields : telemetry'[g] = IF g \in Past(t)' THEN Written(op'[t], g, done'[g]) ELSE done'[g]
    BY <1>2, <1>3, <1>4, <2>4, <2>5
  <2>7. StructHalfway'
    BY <1>1, <1>5, <2>3, <2>6 DEF StructHalfway, Updating
  <2>8. TypeOK'
    BY <1>2, <1>6, <2>1, <2>2 DEF IInv, TypeOK
  <2>9. CopiesTrue'
    BY <1>1, <1>2, <1>5, <1>10, <2>1 DEF IInv, CopiesTrue, Inside
  <2> QED BY <1>7, <1>8, <2>7, <2>8, <2>9 DEF IInv
<1> QED BY <1>9, <1>10

\* A call that raises an error has written and handed over nothing, but keeps its lock.
LEMMA RaisesErrorKeeps ==
    ASSUME IInv, RaisesError PROVE IInv' /\ done' = done /\ copy' = copy /\ ~Inside(Worker)' /\ pc[Worker] = "inside"
<1>1. \A u \in Threads \ {Worker} : pc'[u] = pc[u] /\ op'[u] = op[u] /\ todo'[u] = todo[u] /\ ~Inside(u)
  BY DEF RaisesError, IInv, TypeOK, MutexHeld, Inside, Threads
<1>2. /\ Careless \/ ShortOfMemory
      /\ Worker \in Threads /\ pc[Worker] = "inside" /\ pc'[Worker] = "idle" /\ leaked'
      /\ op[Worker].act \in {"set", "get"} /\ op[Worker] \in Ops /\ op'[Worker] = NoOp /\ todo'[Worker] = << >>
      /\ todo[Worker] # << >> /\ todo[Worker] \in Seq(Fields)
      /\ owner = Worker /\ depth > 0
      /\ UNCHANGED <<telemetry, owner, depth, copy, done>>
  BY DEF RaisesError, MayRaise, IInv, TypeOK, MutexHeld, CallsProceed, Inside, Threads
<1>3. Updating(Worker) <=> ~IsRead(op[Worker])
  BY <1>2 DEF Updating, Inside
<1>4. Past(Worker) = {}
  <2>1. todo[Worker][1] \in Range(todo[Worker])
    BY <1>2 DEF Range
  <2>2. Range(todo[Worker]) \subseteq Touching(Worker)
    BY <1>2 DEF IInv, CallsProceed, Inside
  <2>3. \A f, g \in Touching(Worker) : f = g
    BY <1>2, TouchedFields DEF Touching
  <2> QED BY <2>1, <2>2, <2>3 DEF Past
<1>5. telemetry = done
  <2>1. CASE Updating(Worker)
    <3>1. \A f \in Fields : telemetry[f] = done[f]
      BY <1>2, <1>4, <2>1 DEF IInv, StructHalfway
    <3> QED BY <3>1, SameStruct DEF IInv, TypeOK
  <2>2. CASE ~Updating(Worker)
    BY <1>1, <2>2 DEF IInv, StructHalfway, Updating
  <2> QED BY <2>1, <2>2
<1>6. \A u \in Threads : ~Inside(u)' /\ ~Updating(u)'
  BY <1>1, <1>2 DEF Inside, Updating
<1>7. TypeOK'
  <2>1. << >> \in Seq(Fields) /\ Len(<< >>) = 0
    OBVIOUS
  <2>2. todo' \in [Threads -> Seq(Fields)] /\ \A u \in Threads : Len(todo'[u]) <= 4
    BY <1>1, <1>2, <2>1 DEF RaisesError, IInv, TypeOK
  <2>3. pc' \in [Threads -> {"idle", "locking", "inside", "holding"}] /\ op' \in [Threads -> Ops \cup {NoOp}]
    BY DEF RaisesError, IInv, TypeOK
  <2> QED BY <1>2, <2>2, <2>3 DEF IInv, TypeOK
<1>8. MutexHeld' /\ CallsProceed'
  BY <1>1, <1>2, <1>6 DEF IInv, MutexHeld, CallsProceed, Threads
<1>9. StructHalfway'
  BY <1>2, <1>5, <1>6 DEF StructHalfway
<1>10. CopiesTrue'
  <2>1. copy[Worker] = Nothing
    <3>1. [f \in {} |-> done[f]] = Nothing
      BY DEF Nothing
    <3> QED BY <1>2, <1>3, <1>4, <3>1 DEF IInv, CopiesTrue, Inside
  <2> QED BY <1>1, <1>2, <1>6, <2>1 DEF IInv, CopiesTrue
<1> QED BY <1>2, <1>6, <1>7, <1>8, <1>9, <1>10 DEF IInv

LEMMA UnlockKeeps ==
    ASSUME IInv, NEW t \in Threads, Unlock(t)
    PROVE  IInv'
<1>1. \A u \in Threads \ {t} : pc'[u] = pc[u] /\ op'[u] = op[u] /\ ~Inside(u)
  BY DEF Unlock, IInv, TypeOK, MutexHeld, Inside
<1>2. /\ Inside(t) /\ pc'[t] = (IF IsRead(op[t]) THEN "holding" ELSE "idle")
      /\ owner = t /\ depth \in 0 .. MaxDepth /\ depth # 0
      /\ depth' = depth - 1 /\ owner' = (IF depth = 1 THEN Free ELSE owner)
      /\ done' = telemetry /\ UNCHANGED <<telemetry, todo, copy, leaked>>
  BY DEF Unlock, IInv, TypeOK, MutexHeld, Inside
<1>3. \A u \in Threads : ~Inside(u)' /\ ~Updating(u)'
  BY <1>1, <1>2 DEF Inside, Updating
<1>4. depth' \in 0 .. MaxDepth /\ (owner' = Free <=> depth' = 0)
  BY <1>2
<1>5. MutexHeld'
  BY <1>2, <1>3 DEF IInv, TypeOK, MutexHeld, Threads
<1>6. TypeOK'
  <2>1. leaked => owner' = Worker
    BY <1>2 DEF IInv, TypeOK, MutexHeld, Threads
  <2>2. pc' \in [Threads -> {"idle", "locking", "inside", "holding"}] /\ op' \in [Threads -> Ops \cup {NoOp}]
    BY DEF Unlock, IInv, TypeOK
  <2> QED BY <1>2, <1>4, <2>1, <2>2 DEF IInv, TypeOK
<1>7. CallsProceed'
  BY <1>1, <1>2, <1>3 DEF IInv, CallsProceed
<1>8. StructHalfway'
  BY <1>2, <1>3 DEF StructHalfway
<1>9. CopiesTrue'
  BY <1>1, <1>2, <1>3 DEF IInv, CopiesTrue, Updating, Inside
<1> QED BY <1>5, <1>6, <1>7, <1>8, <1>9 DEF IInv

LEMMA LetGoKeeps ==
    ASSUME IInv, NEW t \in Threads, LetGo(t) PROVE IInv'
<1>1. \A u \in Threads \ {t} : pc'[u] = pc[u] /\ copy'[u] = copy[u]
  BY DEF LetGo, IInv, TypeOK
<1>2. /\ pc[t] = "holding" /\ pc'[t] = "idle" /\ copy'[t] = Nothing /\ DOMAIN Nothing = {}
      /\ UNCHANGED <<telemetry, owner, depth, op, todo, done, leaked>>
  BY DEF LetGo, IInv, TypeOK, history, Nothing
<1>3. TypeOK'
  <2>1. DOMAIN copy' = Threads /\ pc' \in [Threads -> {"idle", "locking", "inside", "holding"}]
    BY DEF LetGo, IInv, TypeOK
  <2> QED BY <1>1, <1>2, <2>1 DEF IInv, TypeOK
<1>4. \A u \in Threads : /\ (Inside(u)' <=> Inside(u)) /\ (Updating(u)' <=> Updating(u))
                          /\ Past(u)' = Past(u) /\ Touching(u)' = Touching(u)
  BY <1>1, <1>2 DEF Inside, Updating, Past, Touching
<1>5. MutexHeld'
  BY <1>2, <1>4 DEF IInv, MutexHeld, Threads
<1>6. CallsProceed' /\ StructHalfway'
  BY <1>1, <1>2, <1>4 DEF IInv, CallsProceed, StructHalfway
<1>7. CopiesTrue'
  BY <1>1, <1>2, <1>4 DEF IInv, CopiesTrue, Inside
<1> QED BY <1>3, <1>5, <1>6, <1>7 DEF IInv

LEMMA Preserved == IInv /\ [Next]_vars => IInv'
<1> SUFFICES ASSUME IInv, [Next]_vars PROVE IInv'
  OBVIOUS
<1>1. CASE UNCHANGED vars
  <2>1. UNCHANGED <<telemetry, owner, depth, pc, op, todo, copy, done, leaked>>
    BY <1>1 DEF vars, history
  <2>2. \A u : (Inside(u)' <=> Inside(u)) /\ (Updating(u)' <=> Updating(u)) /\ Touching(u)' = Touching(u)
               /\ Past(u)' = Past(u)
    BY <2>1 DEF Inside, Updating, Touching, Past
  <2>3. TypeOK' /\ MutexHeld' /\ CallsProceed'
    BY <2>1, <2>2 DEF IInv, TypeOK, MutexHeld, CallsProceed
  <2>4. StructHalfway' /\ CopiesTrue'
    BY <2>1, <2>2 DEF IInv, StructHalfway, CopiesTrue
  <2> QED BY <2>3, <2>4 DEF IInv
<1>2. CASE ScriptCall
  BY <1>2, CallKeeps DEF ScriptCall, Ops, Threads
<1>3. CASE RaisesError
  BY <1>3, RaisesErrorKeeps
<1>4. ASSUME NEW t \in Others, OtherCall(t) PROVE IInv'
  BY <1>4, CallKeeps DEF OtherCall, Ops, Threads
<1>5. ASSUME NEW t \in Threads, Lock(t) \/ Go(t) PROVE IInv'
  BY <1>5, LockKeeps, TouchKeeps, UnlockKeeps, LetGoKeeps DEF Go
<1> QED BY <1>1, <1>2, <1>3, <1>4, <1>5 DEF Next

\* The inductive invariant, of every behaviour of the telemetry.
THEOREM Inductive == Spec => []IInv
BY Initially, Preserved, PTL DEF Spec

\* The struct, the mutex and the calls are well typed: counters wrap, they never overflow.
THEOREM TypeCorrect == Spec => []TypeOK
<1>1. IInv => TypeOK
  BY DEF IInv
<1> QED BY <1>1, Inductive, PTL

-----------------------------------------------------------------------------
(* The telemetry implements counters that work in one piece. *)

Seen == [t \in Threads |-> IF pc[t] = "holding" THEN copy[t] ELSE Nothing]

\* What an update has made when it is through is its whole effect.
LEMMA UpdateDone ==
    ASSUME IInv, NEW t \in Threads, Updating(t), todo[t] = << >>
    PROVE  telemetry = Effect(op[t], done)
<1>1. op[t] \in Ops /\ Past(t) = Range(Touched(op[t]))
  BY ShortSeq DEF IInv, CallsProceed, Updating, Inside, Past, Touching
<1>2. \A f \in Fields : telemetry[f] = Effect(op[t], done)[f]
  BY <1>1 DEF IInv, StructHalfway, Effect
<1>3. DOMAIN telemetry = Fields /\ telemetry = [f \in Fields |-> telemetry[f]]
  BY DEF IInv, TypeOK, Structs, Fields
<1> QED BY <1>2, <1>3 DEF Effect

\* Only an unlock changes the struct of the completed calls, and only a reader's
\* unlock, and its caller, change what the reader sees.
LEMMA StepImplements == IInv /\ IInv' /\ [Next]_vars => [Atomic!Next]_(Atomic!vars)
<1> SUFFICES ASSUME IInv, IInv', [Next]_vars PROVE Atomic!Next \/ (done' = done /\ Seen' = Seen)
  BY DEF Atomic!vars, Seen, Nothing, Atomic!Nothing
<1>1. \A u \in Threads : Seen[u] = IF pc[u] = "holding" THEN copy[u] ELSE Nothing
  BY DEF Seen
<1>2. \A u \in Threads : Seen'[u] = IF pc'[u] = "holding" THEN copy'[u] ELSE Nothing
  BY DEF Seen
<1>3. ASSUME \A u \in Threads : Seen'[u] = Seen[u] PROVE Seen' = Seen
  BY <1>3 DEF Seen
<1>4. CASE UNCHANGED vars
  BY <1>4 DEF vars, history, Seen
<1>5. ASSUME NEW t \in Threads, NEW o, Call(t, o) PROVE done' = done /\ Seen' = Seen
  <2>1. \A u \in Threads : (pc'[u] = "holding" <=> pc[u] = "holding") /\ copy' = copy /\ done' = done
    BY <1>5 DEF Call, IInv, TypeOK, history
  <2> QED BY <1>1, <1>2, <1>3, <1>5, <2>1 DEF Call, history
<1>6. CASE RaisesError
  <2>1. \A u \in Threads : (pc'[u] = "holding" <=> pc[u] = "holding") /\ copy' = copy
    BY <1>6 DEF RaisesError, IInv, TypeOK
  <2> QED BY <1>1, <1>2, <1>3, <1>6, <2>1 DEF RaisesError
<1>7. ASSUME NEW t \in Threads, Lock(t) PROVE done' = done /\ Seen' = Seen
  <2>1. \A u \in Threads : (pc'[u] = "holding" <=> pc[u] = "holding") /\ copy' = copy
    BY <1>7 DEF Lock, IInv, TypeOK
  <2> QED BY <1>1, <1>2, <1>3, <1>7, <2>1 DEF Lock, history
<1>8. ASSUME NEW t \in Threads, Touch(t) PROVE done' = done /\ Seen' = Seen
  <2>1. pc' = pc /\ done' = done /\ pc[t] = "inside" /\ \A u \in Threads \ {t} : copy'[u] = copy[u]
    BY <1>8 DEF Touch, IInv, TypeOK, history
  <2> QED BY <1>1, <1>2, <1>3, <2>1
<1>9. ASSUME NEW t \in Threads, LetGo(t) PROVE Atomic!Next
  <2>1. \A u \in Threads \ {t} : pc'[u] = pc[u] /\ copy'[u] = copy[u]
    BY <1>9 DEF LetGo, IInv, TypeOK
  <2>2. done' = done /\ pc'[t] = "idle"
    BY <1>9 DEF LetGo, IInv, TypeOK, history
  <2>3. Seen' = [Seen EXCEPT ![t] = Nothing]
    BY <1>1, <1>2, <2>1, <2>2 DEF Seen
  <2>4. Atomic!LetGo(t)
    BY <2>2, <2>3 DEF Atomic!LetGo, Seen, Nothing, Atomic!Nothing
  <2> QED BY <2>4 DEF Atomic!Next
<1>10. ASSUME NEW t \in Threads, Unlock(t) PROVE Atomic!Next
  <2>1. /\ Inside(t) /\ todo[t] = << >> /\ done' = telemetry /\ copy' = copy /\ op[t] \in Ops
        /\ pc'[t] = (IF IsRead(op[t]) THEN "holding" ELSE "idle")
        /\ \A u \in Threads \ {t} : pc'[u] = pc[u]
    BY <1>10 DEF Unlock, IInv, TypeOK, CallsProceed, Inside
  <2>2. CASE IsRead(op[t])
    <3>1. \A u \in Threads : ~Updating(u)
      BY <2>1, <2>2, OneInside DEF Updating
    <3>2. done' = done
      BY <2>1, <3>1 DEF IInv, StructHalfway
    <3> DEFINE S == Range(Touched(op[t]))
    <3>3. copy[t] = [f \in S |-> done[f]]
      <4>1. Past(t) = S
        BY <2>1, ShortSeq DEF Past, Touching
      <4>2. copy[t] = [f \in Past(t) |-> done[f]]
        BY <2>1, <2>2 DEF IInv, CopiesTrue
      <4> QED BY <4>1, <4>2
    <3>4. Seen' = [Seen EXCEPT ![t] = [f \in S |-> done[f]]]
      BY <1>1, <1>2, <2>1, <2>2, <3>3 DEF Seen
    <3>5. S \in {Range(Touched(o)) : o \in {p \in Ops : IsRead(p)}}
      BY <2>1, <2>2
    <3>6. Atomic!Read(t)
      BY <3>2, <3>4, <3>5 DEF Atomic!Read, Seen, Nothing
    <3> QED BY <3>6 DEF Atomic!Next
  <2>3. CASE ~IsRead(op[t])
    <3>1. done' = Effect(op[t], done)
      BY <2>1, <2>3, UpdateDone DEF Updating
    <3>2. Seen' = Seen
      BY <1>1, <1>2, <1>3, <2>1, <2>3 DEF Inside
    <3>3. Atomic!Update
      BY <2>1, <2>3, <3>1, <3>2 DEF Atomic!Update, Seen, Nothing
    <3> QED BY <3>3 DEF Atomic!Next
  <2> QED BY <2>2, <2>3
<1> QED BY <1>4, <1>5, <1>6, <1>7, <1>8, <1>9, <1>10
        DEF Next, ScriptCall, OtherCall, Go, Threads

\* Every call takes effect in one piece: the struct is as some order of whole calls
\* makes it, and what a reader is given is of one moment, also after a script has
\* left a call without the unlock.
THEOREM TelemetryImplementsCounters == Spec => ImplementsCounters
<1>1. Init => Atomic!Init
  BY DEF Init, Atomic!Init, Nothing, Atomic!Nothing
<1> QED BY <1>1, Inductive, StepImplements, PTL DEF Spec, Atomic!Spec, ImplementsCounters

=============================================================================
