---------------------------- MODULE RegimeDetector ----------------------------
(***************************************************************************)
(* Classification of the market by its funding rates, and the hysteresis   *)
(* that delays a downgrade (scripts/regime_detector.py).  A regime is its  *)
(* index in REGIME_ORDER.  A market is what compute_regime_metrics keeps   *)
(* of it: the highest annual funding rate, the share of the assets above   *)
(* 100 % a year (both in percent) and the asset with the highest rate.     *)
(***************************************************************************)
EXTENDS Integers

CONSTANTS
  ExtremeShare,                        \* EXTREME_PCT_ABOVE_100
  HighApy, ModerateApy,                \* ..._MIN_MAX_APY
  ExtremeExit, HighExit, ModerateExit  \* REGIME_EXIT_THRESHOLDS

\* As in config/regime_thresholds.py: every exit lies below its entry, and a
\* market with assets above 100 % is not below the exit of HIGH_FUNDING.
ASSUME ThresholdsAssumption ==
  /\ ExtremeShare \in Nat \ {0} /\ HighApy \in Nat /\ ModerateApy \in Nat
  /\ ExtremeExit \in Nat /\ HighExit \in Nat /\ ModerateExit \in Nat
  /\ ExtremeExit <= ExtremeShare
  /\ HighExit <= HighApy /\ HighExit <= 100
  /\ ModerateExit <= ModerateApy /\ ModerateExit <= HighExit
  /\ ModerateApy <= HighApy

LOW_FUNDING == 0
MODERATE == 1
HIGH_FUNDING == 2
EXTREME == 3
Regimes == 0..3

\* An asset above 100 % makes the highest rate at least that.
Consistent(m) ==
  m.apy \in Nat /\ m.share \in Nat /\ (m.share > 0 => m.apy >= 100)

ClassifyRegime(m) ==
  IF m.share >= ExtremeShare THEN EXTREME
  ELSE IF m.apy >= HighApy THEN HIGH_FUNDING
  ELSE IF m.apy >= ModerateApy THEN MODERATE
  ELSE LOW_FUNDING

\* The exit test of one level; the loop does not come to LOW_FUNDING.
ShouldExit(level, m) ==
  \/ level = EXTREME /\ m.share < ExtremeExit
  \/ level = HIGH_FUNDING /\ m.apy < HighExit
  \/ level = MODERATE /\ m.apy < ModerateExit

\* Mutant: a downgrade goes to LOW_FUNDING at once.
DowngradeToLow(prev, m) == IF ShouldExit(prev, m) THEN LOW_FUNDING ELSE prev
\* The loop from prev down stops at the first level that is not left.
Downgrade(prev, m) ==
  CHOOSE l \in 0..prev :
    ~ShouldExit(l, m) /\ \A k \in (l + 1)..prev : ShouldExit(k, m)

\* apply_hysteresis: up at once, down level by level.
ApplyHysteresis(prev, m) ==
  IF ClassifyRegime(m) >= prev THEN ClassifyRegime(m) ELSE Downgrade(prev, m)

===============================================================================
