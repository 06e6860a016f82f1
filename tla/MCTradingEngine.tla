---------------------------- MODULE MCTradingEngine ----------------------------
(* Small instances of TradingEngine for TLC. *)
EXTENDS TradingEngine

===============================================================================
