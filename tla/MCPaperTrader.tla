---------------------------- MODULE MCPaperTrader ----------------------------
(* Small instances of PaperTrader for TLC. *)
EXTENDS PaperTrader

MCLegacy ==
  {[id |-> 0, asset |-> a, exch |-> x, dir |-> "long", entry |-> 0,
    opened |-> 0, peak |-> 0, hours |-> 0, upto |-> NoTime,
    reason |-> "none", pnl |-> 0] :
      a \in {CHOOSE b \in Assets : TRUE}, x \in {CHOOSE y \in Exchanges : TRUE}}

=============================================================================
