------------------------------ MODULE MCAccount ------------------------------
(***************************************************************************)
(* What the engine knows of its account and what it does about it.  A      *)
(* behaviour moves one part: the ledgers, or the sync-driven reconciler.   *)
(***************************************************************************)
EXTENDS AccountTruth, SyncReconciler

VARIABLE part

MCInit == part \in {"account", "reconciler"} /\ TruthInit /\ ReconcilerInit

MCNext ==
  /\ \/ part = "account" /\ TruthNext /\ UNCHANGED reconcilerVars
     \/ part = "reconciler" /\ ReconcilerNext /\ UNCHANGED truthVars
  /\ UNCHANGED part

\* Events are delivered or lost, and a sync that finds no cached answer comes again and again.
TruthFairness ==
  /\ WF_truthVars(part = "account" /\ HearEvent)
  /\ SF_truthVars(part = "account" /\ SyncFresh)

ReconcilerFairness ==
  /\ WF_reconcilerVars(part = "reconciler" /\ (Tick \/ \E i \in OrderIds : InferredFill(i)))
  /\ SF_reconcilerVars(part = "reconciler" /\ ReconcileFresh)

MCVars == <<part, truthVars, reconcilerVars>>

MCSpec == MCInit /\ [][MCNext]_MCVars /\ TruthFairness /\ ReconcilerFairness

\* When fills, recenters and failing requests stop, the reconciler restores the grid
\* and leaves it so.
GridConverges == <>[](part = "reconciler" => GridRestored)
=============================================================================
