---------------------------- MODULE MCPhase1Agency ----------------------------
(* Instance of Phase1Agency: a tick is longer than the gap between trades.     *)
EXTENDS Phase1Agency

CONSTANTS a, b, c
MCPast == {[id |-> 1, asset |-> a, sig |-> 1, at |-> 0], [id |-> 2, asset |-> b, sig |-> 2, at |-> 0]}
MCPastOne == {[id |-> 1, asset |-> a, sig |-> 1, at |-> 0]}
MCLossWindows == {[span |-> 1, most |-> 2]}
=============================================================================
