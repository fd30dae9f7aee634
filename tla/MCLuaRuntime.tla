---------------------------- MODULE MCLuaRuntime ----------------------------
(* The small instances of LuaRuntime that TLC explores. *)
EXTENDS LuaRuntime

=============================================================================
