------------------------------- MODULE Counters -------------------------------
(***************************************************************************)
(* What the telemetry promises (doc/overview.md, lua_manager.h): a struct  *)
(* of counters and a status, updated and read in one piece.                *)
(***************************************************************************)
CONSTANTS
    Threads,
    Updates,       \* the updates that may be made
    Initial,       \* the struct at first
    Effect(_, _),  \* what an update makes of the struct
    Readable       \* sets of fields that can be read in one call

VARIABLES
    struct,  \* the counters and the status
    seen     \* what the last read of each thread showed, till it lets go of it

vars == <<struct, seen>>

Nothing == [f \in {} |-> 0]

Init == struct = Initial /\ seen = [t \in Threads |-> Nothing]

Update == \E u \in Updates : struct' = Effect(u, struct) /\ UNCHANGED seen

Read(t) ==
    \E S \in Readable :
        /\ seen' = [seen EXCEPT ![t] = [f \in S |-> struct[f]]]
        /\ UNCHANGED struct

LetGo(t) == seen' = [seen EXCEPT ![t] = Nothing] /\ UNCHANGED struct

Next == Update \/ \E t \in Threads : Read(t) \/ LetGo(t)

Spec == Init /\ [][Next]_vars

=============================================================================
