--------------------------- MODULE MCCoordination ---------------------------
(***************************************************************************)
(* LeaderElection and Reconcile side by side.  Reconcile lets the role     *)
(* change at any time, which is all it knows of the election; the two have *)
(* no other state in common, so a behaviour moves one of them.             *)
(***************************************************************************)
EXTENDS LeaderElection, Reconcile

VARIABLE part

MCSymbolOf == [o \in Orders |-> CHOOSE s \in Symbols : TRUE]

MCInit ==
  /\ part \in {"election", "reconcile"}
  /\ ElectionInit /\ ReconcileInit
  /\ part = "election" => mode = "detect_only"

MCNext ==
  /\ \/ part = "election" /\ ElectionNext /\ UNCHANGED reconcileVars
     \/ part = "reconcile" /\ ReconcileNext /\ UNCHANGED electionVars
  /\ UNCHANGED part

\* The clock runs, the thread runs, and stop() runs to its end.
ElectionFairness ==
  /\ WF_electionVars(part = "election" /\ Tick)
  /\ \A i \in Instances :
       /\ WF_electionVars(part = "election" /\ Progress(i))
       /\ WF_electionVars(part = "election" /\ StopStep(i))

\* The loop and its timers run, snapshots succeed now and then, and the exchange
\* does not refuse the same request for ever.
ReconcileFairness ==
  /\ WF_reconcileVars(part = "reconcile" /\ RunStep)
  /\ WF_reconcileVars(part = "reconcile" /\ CooldownEnds)
  /\ SF_reconcileVars(part = "reconcile" /\ BeginRun(Symbols, Symbols))
  /\ \A o \in Orders : SF_reconcileVars(part = "reconcile" /\ HandleCancel(o) /\ book' # book)
  /\ \A s \in Symbols :
       SF_reconcileVars(part = "reconcile" /\ HandleFlatten(s) /\ position' # position)

MCSpec ==
  /\ MCInit /\ [][MCNext]_<<part, electionVars, reconcileVars>>
  /\ ElectionFairness /\ ReconcileFairness
=============================================================================
