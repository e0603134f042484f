------------------------------ MODULE MCResearch ------------------------------
(***************************************************************************)
(* What can be checked step by step, without fairness: the paper engine    *)
(* that trades a fixture, the way of a model from its dataset to the       *)
(* policy, the fill-probability gate, and the submission of an order.  A   *)
(* behaviour moves one of them.                                            *)
(***************************************************************************)
EXTENDS PaperTrading, ModelPromotion, FillGate, OrderSubmission, TLC

VARIABLE part

MCInit ==
  /\ part \in {"paper", "models", "fills", "orders"}
  /\ PaperInit /\ PromotionInit /\ GateInit /\ SubmissionInit
  /\ part # "paper" => setting.fills = "instant"
  /\ part # "models" => \A d \in Datasets : datasets[d] = "none"
  /\ part # "models" => \A stage \in Stages : registry.stages[stage] = None
  /\ part # "fills" => modelDir.content = Train(CHOOSE rows \in Outcomes : TRUE)
  /\ part # "orders" => seedsAwaited = {}

MCNext ==
  /\ \/ part = "paper" /\ PaperNext /\ UNCHANGED <<promotionVars, fillVars, submissionVars>>
     \/ part = "models" /\ PromotionNext /\ UNCHANGED <<paperVars, fillVars, submissionVars>>
     \/ part = "fills" /\ GateNext /\ UNCHANGED <<paperVars, promotionVars, submissionVars>>
     \/ part = "orders" /\ SubmissionNext /\ UNCHANGED <<paperVars, promotionVars, fillVars>>
  /\ UNCHANGED part

MCVars == <<part, paperVars, promotionVars, fillVars, submissionVars>>

MCSpec == MCInit /\ [][MCNext]_MCVars

MCSnapshots == (0 :> 3) @@ (1 :> 4)

MCSizes == <<1, 2>>

MCRow(won, lost) == [wins |-> won, others |-> lost]

\* One set of rows whose second bin is worth blocking, one whose threshold blocks less.
MCOutcomes == {("b1" :> MCRow(2, 0)) @@ ("b2" :> MCRow(1, 2)), ("b1" :> MCRow(1, 0)) @@ ("b2" :> MCRow(0, 1))}

MCPromoters == Permutations(Promoters)
=============================================================================
