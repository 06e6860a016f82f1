-------------------------- MODULE MCExitCoordination --------------------------
(* Small instances of ExitCoordination for TLC. *)
EXTENDS ExitCoordination

===============================================================================
