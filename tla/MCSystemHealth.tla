--------------------------- MODULE MCSystemHealth ---------------------------
(* Instance of SystemHealth: a tick is shorter than the shortest cooldown, the windows keep their order. *)
EXTENDS SystemHealth

\* The defaults, a restriction with a hold, and a halt with a recovery mode that is not one.
MCControls == {
  OperatorDefaults,
  [manual_mode |-> "ON", trading_override |-> "RESTRICT", recovery_override |-> "HOLD_DEGRADED"],
  [manual_mode |-> "ON", trading_override |-> "HALT_NEW_TRADES", recovery_override |-> "hold"]}
=============================================================================
