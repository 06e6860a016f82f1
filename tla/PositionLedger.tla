---------------------------- MODULE PositionLedger ----------------------------
(***************************************************************************)
(* What the paper trader promises about the life of its positions: each is *)
(* opened once and closed once, no more than MaxOpen are open, and what a  *)
(* running process believes is what happened, also after a restart.        *)
(***************************************************************************)
EXTENDS Integers, FiniteSets

CONSTANTS Ids, MaxOpen

VARIABLES
  life,      \* what happened to each position
  running,   \* a process runs
  belief     \* what that process believes happened

vars == <<life, running, belief>>

Stages == {"fresh", "open", "closed"}
Nothing == [i \in Ids |-> "fresh"]
OpenIds == {i \in Ids : life[i] = "open"}

Closing(S) == [i \in Ids |-> IF i \in S THEN "closed" ELSE life[i]]

Init ==
  /\ life \in [Ids -> {"fresh", "open"}]
  /\ running = FALSE /\ belief = Nothing

Open(i) ==
  /\ running
  /\ life[i] = "fresh" /\ Cardinality(OpenIds) < MaxOpen
  /\ life' = [life EXCEPT ![i] = "open"]
  /\ belief' = life' /\ UNCHANGED running

CloseAll(S) ==
  /\ running /\ S # {}
  /\ life' = Closing(S)
  /\ belief' = life' /\ UNCHANGED running

Stop ==
  /\ running /\ running' = FALSE
  /\ belief' = Nothing /\ UNCHANGED life

\* A new process knows what happened; it may close positions it cannot watch.
Resume(S) ==
  /\ ~running /\ running' = TRUE
  /\ life' = Closing(S)
  /\ belief' = life'

Next ==
  \/ \E i \in Ids : Open(i)
  \/ \E S \in SUBSET OpenIds : CloseAll(S)
  \/ Stop
  \/ \E S \in SUBSET OpenIds : Resume(S)

Spec == Init /\ [][Next]_vars

=============================================================================
