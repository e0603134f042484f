------------------------------ MODULE MCControl ------------------------------
(***************************************************************************)
(* What stands between a decision and the exchange: the lifecycle with its *)
(* gates, and the reduce-only exits with their budget.  A behaviour moves  *)
(* one of them.                                                            *)
(***************************************************************************)
EXTENDS SafetyControl, ReduceOnlyExits

VARIABLE part

MCInit ==
  /\ part \in {"lifecycle", "exits"}
  /\ ControlInit /\ ExitsInit

MCNext ==
  /\ \/ part = "lifecycle" /\ ControlNext /\ UNCHANGED exitVars
     \/ part = "exits" /\ ExitsNext /\ UNCHANGED controlVars
  /\ UNCHANGED part

\* Snapshots keep coming, and the account sync is due and answered again and again;
\* an exit at a price the market crosses fills, and the stream reports it.
LifecycleFairness ==
  /\ WF_controlVars(part = "lifecycle" /\ ProcessSnapshot)
  /\ WF_controlVars(part = "lifecycle" /\ ExitFills)
  /\ WF_controlVars(part = "lifecycle" /\ HearExit)
  /\ SF_controlVars(part = "lifecycle" /\ ProcessSnapshot /\ sync'.age = 0)

\* Events are delivered, syncs come and go to their end, the step cooldown elapses,
\* and an unload order, sent at the touch, fills.
ExitsFairness ==
  /\ WF_exitVars(part = "exits" /\ Hear)
  /\ WF_exitVars(part = "exits" /\ Fetch)
  /\ WF_exitVars(part = "exits" /\ SyncStep)
  /\ WF_exitVars(part = "exits" /\ StepCooldownEnds)
  /\ WF_exitVars(part = "exits" /\ \E o \in resting : o[1] = 0 /\ OrderFills(o))

MCVars == <<part, controlVars, exitVars>>

MCSpec == MCInit /\ [][MCNext]_MCVars /\ LifecycleFairness /\ ExitsFairness

\* One part alone, for the run that shows where a promise is not kept.
OnlyExits == part = "exits" /\ MCSpec
=============================================================================
