----------------------------- MODULE LotLedger -----------------------------
(***************************************************************************)
(* What the grid promises about inventory, whatever it does with prices,   *)
(* windows and orders.  A lot is opened once and closed once; while it is  *)
(* open it is protected, and a lot that is not open is not; lots that are  *)
(* open together are on one side; all of them may be written off at once.  *)
(***************************************************************************)
EXTENDS FiniteSets

CONSTANTS Ids, LotSides

VARIABLES
  held,       \* open lot -> its side
  settled,    \* lots that were closed
  protected   \* lots with an exit order at work

vars == <<held, settled, protected>>

Init == held \in [{} -> LotSides] /\ settled = {} /\ protected = {}

Open(lot, side) ==
  /\ lot \notin DOMAIN held \cup settled
  /\ \A other \in DOMAIN held : held[other] = side
  /\ held' = [l \in DOMAIN held \cup {lot} |-> IF l = lot THEN side ELSE held[l]]
  /\ protected' = protected \cup {lot}
  /\ UNCHANGED settled

Close(lots) ==
  /\ lots \subseteq DOMAIN held
  /\ held' = [l \in DOMAIN held \ lots |-> held[l]]
  /\ settled' = settled \cup lots
  /\ protected' = protected \ lots

Next ==
  \/ \E lot \in Ids, side \in LotSides : Open(lot, side)
  \/ \E lot \in Ids : Close({lot})
  \/ Close(DOMAIN held)

Spec == Init /\ [][Next]_vars
=============================================================================
