------------------------------- MODULE Telemetry -------------------------------
(***************************************************************************)
(* The telemetry struct and its mutex (src/src/lua_manager.c).  Scripts    *)
(* update it field by field through telemetry.set and telemetry.inc, the   *)
(* web server and the shell copy it or reset it, all under                 *)
(* s_telemetry_mutex, which is a recursive Zephyr mutex: it counts how     *)
(* often its owner has taken it.                                           *)
(*                                                                         *)
(* luaL_check* and lua_pushstring raise Lua errors by longjmp.  Where that *)
(* happens under the mutex, the call is left without the unlock.  The      *)
(* finalizers that an allocation under the mutex may run are left out:     *)
(* they are taken to end.                                                  *)
(***************************************************************************)
EXTENDS Naturals, Sequences

CONSTANTS
    Worker,    \* the thread that runs scripts
    Others,    \* the threads that read it: web server, shell
    Resetters, \* those of them that also reset it: web server
    Wrap,      \* where a counter wraps: at 2^32 in the source
    MaxDepth,  \* bound on the depth of the mutex
    Careless,  \* scripts may pass telemetry.set a missing or ill-typed value
    ShortOfMemory  \* the VM may find no memory for a string

ASSUME ThreadAssumption == Worker \notin Others /\ Resetters \subseteq Others
ASSUME WrapAssumption == Wrap \in Nat \ {0}
ASSUME DepthAssumption == MaxDepth \in Nat \ {0}
ASSUME ErrorsAssumption == Careless \in BOOLEAN /\ ShortOfMemory \in BOOLEAN

Threads == {Worker} \cup Others
Free == "free"
ASSUME FreeAssumption == Free \notin Threads

VARIABLES
    telemetry,  \* s_telemetry
    owner,      \* holder of s_telemetry_mutex, or Free
    depth,      \* its lock count
    pc,         \* where each thread is: idle, locking, inside or holding a result
    op,         \* the call each thread makes
    todo,       \* fields it has still to touch, in this order
    copy,       \* what it has copied out so far
    done,       \* (history) the struct as completed calls have left it
    leaked      \* (history) a script's call was left without the unlock

history == <<done, leaked>>
vars == <<telemetry, owner, depth, pc, op, todo, copy, history>>

Counts == 0 .. Wrap - 1
Statuses == {"INITIAL", "IDLE", "TESTING", "INTERRUPTED"}
Fields == {"total", "passed", "failed", "status"}

\* "passed" and "failed" are no keys of the source: they stand for all others.
Keys == {"status", "total", "cycles", "pass", "fail", "passed"}

Script(act, vals) == [act : {act}, key : Keys, val : vals]
ScriptOps == Script("inc", Counts) \cup Script("set", Counts) \cup Script("get", {0})
Plain(act) == [act |-> act, key |-> "total", val |-> 0]
Ops == ScriptOps \cup {Plain("copy"), Plain("reset"), Plain("report")}
NoOp == Plain("none")

\* The field that a key names, if there is one.
Named(a, key) ==
    CASE key = "pass" -> <<"passed">>
      [] key = "fail" -> <<"failed">>
      [] key = "total" -> <<"total">>
      [] key = "cycles" /\ a # "set" -> <<"total">>
      [] key = "status" /\ a # "inc" -> <<"status">>
      [] OTHER -> <<>>

\* The fields that a call touches, in the order of the source.
Touched(o) ==
    CASE o.act \in {"copy", "reset"} -> <<"total", "passed", "failed", "status">>
      [] o.act = "report" -> <<"status">>
      [] o.act = "inc" /\ o.key \in {"pass", "fail"} -> Append(Named("inc", o.key), "total")
      [] OTHER -> Named(o.act, o.key)

\* (mutant of Written: a counter wider than its type)
WrittenNoWrap(o, f, v) ==
    CASE o.act = "inc" -> v + o.val
      [] o.act = "set" -> IF f = "status" THEN "TESTING" ELSE o.val
      [] o.act = "reset" -> IF f = "status" THEN "IDLE" ELSE 0
      [] o.act = "report" -> "INTERRUPTED"
      [] OTHER -> v

\* What a call writes into field f, whose value is v.
Written(o, f, v) ==
    CASE o.act = "inc" -> (v + o.val) % Wrap
      [] o.act = "set" -> IF f = "status" THEN "TESTING" ELSE o.val
      [] o.act = "reset" -> IF f = "status" THEN "IDLE" ELSE 0
      [] o.act = "report" -> "INTERRUPTED"
      [] OTHER -> v

IsRead(o) == o.act \in {"copy", "get"}
Nothing == [f \in {} |-> 0]
Fresh == [total |-> 0, passed |-> 0, failed |-> 0, status |-> "INITIAL"]

Structs == [total : Counts, passed : Counts, failed : Counts, status : Statuses]

TypeOK ==
    /\ telemetry \in Structs /\ done \in Structs
    /\ owner \in Threads \cup {Free} /\ depth \in 0 .. MaxDepth
    /\ (owner = Free) = (depth = 0)
    /\ pc \in [Threads -> {"idle", "locking", "inside", "holding"}]
    /\ op \in [Threads -> Ops \cup {NoOp}]
    /\ todo \in [Threads -> Seq(Fields)] /\ \A t \in Threads : Len(todo[t]) <= 4
    /\ DOMAIN copy = Threads /\ \A t \in Threads : DOMAIN copy[t] \subseteq Fields
    /\ leaked \in BOOLEAN /\ (leaked => (Careless \/ ShortOfMemory) /\ owner = Worker)

Init ==
    /\ telemetry = Fresh /\ done = Fresh /\ leaked = FALSE
    /\ owner = Free /\ depth = 0
    /\ pc = [t \in Threads |-> "idle"]
    /\ op = [t \in Threads |-> NoOp]
    /\ todo = [t \in Threads |-> <<>>]
    /\ copy = [t \in Threads |-> Nothing]

-----------------------------------------------------------------------------

Call(t, o) ==
    /\ pc[t] = "idle"
    /\ pc' = [pc EXCEPT ![t] = "locking"]
    /\ op' = [op EXCEPT ![t] = o]
    /\ UNCHANGED <<telemetry, owner, depth, todo, copy, history>>

\* telemetry.set, .inc, .get, and the report of an interrupted script
ScriptCall == \E o \in ScriptOps \cup {Plain("report")} : Call(Worker, o)
\* espirate_telemetry_get, espirate_telemetry_reset
OtherCall(t) == \/ Call(t, Plain("copy"))
                \/ t \in Resetters /\ Call(t, Plain("reset"))

Lock(t) ==
    /\ pc[t] = "locking"
    /\ owner \in {Free, t} /\ depth < MaxDepth
    /\ owner' = t /\ depth' = depth + 1
    /\ pc' = [pc EXCEPT ![t] = "inside"]
    /\ todo' = [todo EXCEPT ![t] = Touched(op[t])]
    /\ UNCHANGED <<telemetry, op, copy, history>>

\* The next field is read or written.
Touch(t) ==
    /\ pc[t] = "inside" /\ todo[t] # <<>>
    /\ LET f == Head(todo[t]) IN
          IF IsRead(op[t])
          THEN /\ copy' = [copy EXCEPT ![t] = [g \in DOMAIN @ \cup {f} |->
                                IF g = f THEN telemetry[f] ELSE @[g]]]
               /\ UNCHANGED telemetry
          ELSE /\ telemetry' = [telemetry EXCEPT ![f] = Written(op[t], f, @)]
               /\ UNCHANGED copy
    /\ todo' = [todo EXCEPT ![t] = Tail(@)]
    /\ UNCHANGED <<owner, depth, pc, op, history>>

\* luaL_checkstring and luaL_checkinteger of telemetry.set refuse a value.  Making
\* a string takes memory: lua_pushstring of telemetry.get("status"), and
\* luaL_checkstring when the new status is a number.
MayRaise(o) ==
    \/ Careless /\ o.act = "set"
    \/ ShortOfMemory /\ o.act \in {"set", "get"} /\ o.key = "status"

\* The call is left by longjmp; the script ends or catches the error.
RaisesError ==
    /\ pc[Worker] = "inside" /\ todo[Worker] # <<>> /\ MayRaise(op[Worker])
    /\ pc' = [pc EXCEPT ![Worker] = "idle"]
    /\ op' = [op EXCEPT ![Worker] = NoOp]
    /\ todo' = [todo EXCEPT ![Worker] = <<>>]
    /\ leaked' = TRUE
    /\ UNCHANGED <<telemetry, owner, depth, copy, done>>

\* (mutant of Unlock: the mutex is given up between two fields)
UnlockEarly(t) ==
    /\ pc[t] = "inside"
    /\ depth' = depth - 1
    /\ owner' = IF depth = 1 THEN Free ELSE owner
    /\ pc' = [pc EXCEPT ![t] = IF IsRead(op[t]) THEN "holding" ELSE "idle"]
    /\ op' = [op EXCEPT ![t] = NoOp]
    /\ done' = telemetry
    /\ UNCHANGED <<telemetry, todo, copy, leaked>>

\* (mutant of Unlock: a read returns without it)
UnlockNotAfterRead(t) ==
    /\ pc[t] = "inside" /\ todo[t] = <<>>
    /\ IF IsRead(op[t]) THEN UNCHANGED <<depth, owner>>
       ELSE depth' = depth - 1 /\ owner' = IF depth = 1 THEN Free ELSE owner
    /\ pc' = [pc EXCEPT ![t] = IF IsRead(op[t]) THEN "holding" ELSE "idle"]
    /\ op' = [op EXCEPT ![t] = NoOp]
    /\ done' = telemetry
    /\ UNCHANGED <<telemetry, todo, copy, leaked>>

Unlock(t) ==
    /\ pc[t] = "inside" /\ todo[t] = <<>>
    /\ depth' = depth - 1
    /\ owner' = IF depth = 1 THEN Free ELSE owner
    /\ pc' = [pc EXCEPT ![t] = IF IsRead(op[t]) THEN "holding" ELSE "idle"]
    /\ op' = [op EXCEPT ![t] = NoOp]
    /\ done' = telemetry
    /\ UNCHANGED <<telemetry, todo, copy, leaked>>

\* The caller has used its copy.
LetGo(t) ==
    /\ pc[t] = "holding"
    /\ pc' = [pc EXCEPT ![t] = "idle"]
    /\ copy' = [copy EXCEPT ![t] = Nothing]
    /\ UNCHANGED <<telemetry, owner, depth, op, todo, history>>

Go(t) == Touch(t) \/ Unlock(t) \/ LetGo(t)

Next ==
    \/ ScriptCall \/ RaisesError
    \/ \E t \in Others : OtherCall(t)
    \/ \E t \in Threads : Lock(t) \/ Go(t)

\* A thread inside the mutex gets on, and k_mutex_unlock hands the mutex to a
\* thread that waits for it.
Fairness == \A t \in Threads : SF_vars(Lock(t)) /\ WF_vars(Go(t))

Spec == Init /\ [][Next]_vars
FairSpec == Spec /\ Fairness

-----------------------------------------------------------------------------
(* Properties. *)

Range(s) == {s[i] : i \in 1 .. Len(s)}

\* What call o does, all at once.
Effect(o, struct) ==
    [f \in Fields |-> IF f \in Range(Touched(o)) THEN Written(o, f, struct[f])
                                                  ELSE struct[f]]

\* Every call takes effect in one piece: no reader sees a struct in which
\* "passed" is counted and "total" is not, and no reset is half undone by an
\* increment.
Atomic == INSTANCE Counters
    WITH Updates <- {o \in Ops : ~IsRead(o)}, Initial <- Fresh,
         Readable <- {Range(Touched(o)) : o \in {p \in Ops : IsRead(p)}},
         struct <- done,
         seen <- [t \in Threads |-> IF pc[t] = "holding" THEN copy[t] ELSE Nothing]
ImplementsCounters == Atomic!Spec

\* Only a script's call that raises an error inside the mutex can keep the web
\* server or the shell from the telemetry: a telemetry.set with a bad value, or a
\* set or get of the status for which there is no memory.  No other call, in whatever
\* order calls come, leaves the mutex taken.
ServedUnlessLeaked ==
    \A t \in Others : (pc[t] = "locking") ~> (pc[t] # "locking" \/ leaked)

=============================================================================
