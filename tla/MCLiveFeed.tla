------------------------------ MODULE MCLiveFeed ------------------------------
(* Small instances of LiveFeed for TLC. *)
EXTENDS LiveFeed

CONSTANTS a, b

\* One market per regime; in the one at 90 % HIGH_FUNDING is not yet left.
MCMarkets ==
  {[apy |-> 0, share |-> 0, top |-> NoAsset], [apy |-> 90, share |-> 0, top |-> a],
   [apy |-> 900, share |-> 4, top |-> b],
   [apy |-> 900, share |-> 20, top |-> a]}

===============================================================================
