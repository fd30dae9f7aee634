------------------------------- MODULE MCPins -------------------------------
(* The small instance of Pins that TLC explores. *)
EXTENDS Pins, TLC

Sym == Permutations(Pins)

=============================================================================
