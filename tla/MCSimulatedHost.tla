-------------------------- MODULE MCSimulatedHost --------------------------
(* Small instances of SimulatedHost for TLC. *)
EXTENDS SimulatedHost, TLC
=============================================================================
