---------------------------- MODULE MCWifiManager ----------------------------
(* The small instances of WifiManager that TLC explores. *)
EXTENDS WifiManager

=============================================================================
