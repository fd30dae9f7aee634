----------------------------- MODULE MCLuaWorker -----------------------------
(* The small instances of LuaWorker that TLC explores. *)
EXTENDS LuaWorker

=============================================================================
