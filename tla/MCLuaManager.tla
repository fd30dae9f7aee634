---------------------------- MODULE MCLuaManager ----------------------------
(* The small instances of LuaManager that TLC explores. *)
EXTENDS LuaManager

=============================================================================
