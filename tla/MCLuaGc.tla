------------------------------ MODULE MCLuaGc ------------------------------
EXTENDS LuaGc

MCObjects == 1 .. 5

Empty == <<>>

\* An empty heap.
Fresh(kinds, gen, max) ==
    [kind |-> kinds, live |-> {Main}, entry |-> Empty, stack |-> Empty, open |-> Empty,
     fin |-> {}, gen |-> gen, ops |-> max]

\* All objects exist: entries of tables (key and value), upvalues of closures,
\* stacks, open upvalues of first stack slots, objects with a finalizer.
Heap(kinds, entry, stack, open, fin, gen, max) ==
    [kind |-> kinds, live |-> MCObjects, entry |-> entry, stack |-> stack, open |-> open,
     fin |-> fin, gen |-> gen, ops |-> max]

\* An ephemeron entry whose key hangs on a table, and a value with a finalizer.
EphemeronChain(gen, max) ==
    Heap(<<"thread", "ephemeron", "table", "table", "fintable">>,
         2 :> <<4, 5>> @@ 3 :> <<Nil, 4>>, 1 :> <<2, 3>>, Empty, {5}, gen, max)

\* A closure that refers to a local variable of a coroutine.
Coroutine(gen, max) ==
    Heap(<<"thread", "thread", "closure", "upvalue", "table">>,
         3 :> <<Nil, 4>>, 1 :> <<2, 3>> @@ 2 :> <<5>>, 4 :> 2, {}, gen, max)

\* Weak tables with strings and with a value that has a finalizer.
WeakTables(gen, max) ==
    Heap(<<"thread", "allweak", "weakvalue", "string", "fintable">>,
         2 :> <<5, 4>> @@ 3 :> <<4, 5>>, 1 :> <<2, 3>>, Empty, {5}, gen, max)

MCScenarios ==
    {Fresh(<<"thread", "fintable", "table", "none", "none">>, TRUE, 4),
     EphemeronChain(TRUE, 2), WeakTables(TRUE, 2), Coroutine(TRUE, 3), Coroutine(FALSE, 4)}
=============================================================================
