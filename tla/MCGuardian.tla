------------------------------ MODULE MCGuardian ------------------------------
(* Instances of Guardian: the cycle or the watchdog alone, and both at once.   *)
EXTENDS Guardian

CONSTANTS k, g
MCOneScheduler == {{k}, {g}}
MCTwoSchedulers == {{k, g}}
MCRoe == {-2, -1, 1, 2}
MCStopLoss == -2
=============================================================================
