------------------------------ MODULE MCLuaTable ------------------------------
(***************************************************************************)
(* Small tables: lists that grow and shrink, keys that collide in all ways *)
(* and integers at the ends of their range.                                *)
(***************************************************************************)
EXTENDS LuaTable

Ints(S) == {<<"int", i>> : i \in S}
Str(n) == <<"str", n>>
Obj(n) == <<"obj", n>>
MCHashOf(key) == IF key[1] = "nan" THEN 0 ELSE key[2]

Lists == {[keys |-> Ints(1 .. 6), na |-> n, nh |-> 0] : n \in {0, 3}}
Sparse == {[keys |-> Ints({1, 2, 3, 5, 7, 9}), na |-> 0, nh |-> 2]}
Ends == {[keys |-> Ints({-1, 1, 2, 30, 31}) \cup {<<"flt", 2>>, <<"flt", 3>>}, na |-> 0, nh |-> 0]}
Chains == {[keys |-> {Str(0), Str(4), Obj(0), Obj(3)}, na |-> 0, nh |-> n] : n \in {0, 4}}
Chains8 == {[keys |-> Ints({9, 12, 18}) \cup {Str(0), <<"flt", 3>>, <<"flt", 9>>}, na |-> 0, nh |-> 3]}
Mixed == {[keys |-> Ints({1, 2}) \cup {Str(1), Obj(1), <<"bool", TRUE>>, Nil, <<"nan">>}, na |-> 1, nh |-> 1]}
MCPrograms == Lists \cup Sparse \cup Ends \cup Chains \cup Chains8 \cup Mixed
===============================================================================
