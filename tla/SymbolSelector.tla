--------------------------- MODULE SymbolSelector ---------------------------
(***************************************************************************)
(* The active symbol selector of the trading script                        *)
(* (selection/active_selector.py over shadow_selector.py and topk_v1.py),  *)
(* ticked by LiveEngineV0 after the dispatch of every snapshot.  A cycle   *)
(* ranks the symbols by the features cached for them and moves the active  *)
(* set towards the best ones, in bounded steps; a symbol whose grid_v2     *)
(* branch holds inventory is wound down first.                             *)
(*                                                                         *)
(* Symbols are numbered in name order.  A symbol without features, or with *)
(* features that a gate refuses, is not scorable and scores 0.  Cycles are *)
(* as far apart as cycle_s wants; a cycle that raises changes nothing.     *)
(***************************************************************************)
EXTENDS Integers, FiniteSets

CONSTANTS
  Operated,      \* the operator's symbols, 1..n
  Gridded,       \* the one that grid_v2 trades, or none of them
  Chosen,        \* k
  MinHoldCycles, MaxChanges, EnterAt, ExitAt,
  Scores,        \* what select_topk_v1 can make of a symbol's features
  Adjusts,       \* what the regime model may add to a score; {0} without a model
  MaxForced      \* bound: requests of the adverse-level checks (two in the code)

ASSUME SelectorAssumption ==
  /\ Operated \subseteq Nat /\ IsFiniteSet(Operated) /\ Gridded \subseteq Operated
  /\ Chosen \in Nat /\ MinHoldCycles \in Nat /\ MaxChanges \in Nat /\ MaxForced \in Nat
  /\ EnterAt \in Int /\ ExitAt \in Int
  /\ Scores \subseteq Int /\ Adjusts \subseteq Int

VARIABLES
  scorable, score,  \* what the cached features amount to
  activeSet,        \* ActiveSelector._active_set
  winding,          \* ActiveSelector._graceful_exit_only
  holdCycles,       \* ActiveSelector._hold_cycles, 0 for a symbol not in it
  nonFlat,          \* symbols whose branch is not FLAT: _get_non_flat_symbols()
  forced            \* force_graceful_exit() calls so far

selectorVars == <<scorable, score, activeSet, winding, holdCycles, nonFlat, forced>>

\* Every symbol of the operator is active until the first cycles have run.
SelectorInit ==
  /\ scorable = {} /\ score = [s \in Operated |-> 0]
  /\ activeSet = Operated /\ winding = {} /\ holdCycles = [s \in Operated |-> 0]
  /\ nonFlat = {} /\ forced = 0

-----------------------------------------------------------------------------
\* update_features(): NATR, trend, spread, depth and warm-up are good enough for a score, or not.
Refuse(s) == scorable' = scorable \ {s} /\ score' = [score EXCEPT ![s] = 0]

Rate(s) ==
  /\ scorable' = scorable \cup {s}
  /\ \E value \in Scores : score' = [score EXCEPT ![s] = value]

Observe(s) ==
  /\ Refuse(s) \/ Rate(s)
  /\ UNCHANGED <<activeSet, winding, holdCycles, nonFlat, forced>>

\* The branch of the grid symbol opens and closes; its own entries pass the selector gate.
BranchChanges(s) ==
  /\ nonFlat' \in {nonFlat \cup {s}, nonFlat \ {s}}
  /\ UNCHANGED <<scorable, score, activeSet, winding, holdCycles, forced>>

\* force_graceful_exit(), called once at each of two adverse price levels of an open branch.
ForceGracefulExit(s) ==
  /\ s \in nonFlat /\ forced < MaxForced
  /\ winding' = winding \cup {s} /\ forced' = forced + 1
  /\ UNCHANGED <<scorable, score, activeSet, holdCycles, nonFlat>>

-----------------------------------------------------------------------------
\* One cycle.

\* What the provider answers; nothing for any symbol when it fails or there is no model.
Adjustments == [Operated -> Adjusts]

\* The score of a symbol as the thresholds see it: adjusted if it was scorable.
Score(s, adjust) == IF s \in scorable THEN score[s] + adjust[s] ELSE 0

Precedes(s, t, adjust) ==
  \/ Score(s, adjust) > Score(t, adjust)
  \/ Score(s, adjust) = Score(t, adjust) /\ s < t

\* The k best by (-score, symbol).
Target(adjust) ==
  {s \in scorable : Cardinality({t \in scorable : Precedes(t, s, adjust)}) < Chosen}

Foremost(n, S) == {s \in S : Cardinality({t \in S : t <= s}) <= n}

Entrants(target, adjust) ==
  {s \in target \ activeSet : EnterAt > 0 => Score(s, adjust) >= EnterAt}

\* Symbols to leave, once they were held long enough.
Unwanted(target, adjust) ==
  {s \in activeSet \ target :
     /\ ExitAt > 0 => Score(s, adjust) < ExitAt
     /\ holdCycles[s] >= MinHoldCycles}

DroppedAnyway(unwanted) == Foremost(MaxChanges, unwanted)

\* A symbol with inventory is put into graceful_exit_only instead.
Dropped(unwanted) == Foremost(MaxChanges, unwanted \ nonFlat)
Deferred(unwanted) == unwanted \cap nonFlat

\* What is left of the budget goes to additions: they are not limited by k.
TakenOn(entrants, removed) == Foremost(MaxChanges - Cardinality(removed), entrants)

\* A symbol found flat is no longer wound down, and leaves outside the budget if it is not
\* in the target.
Flattened == winding \ nonFlat

Cycle ==
  \E adjust \in Adjustments :
    \E target \in {Target(adjust)} :
      \E unwanted \in {Unwanted(target, adjust)} :
        \E removed \in {Dropped(unwanted)} :
          \E added \in {TakenOn(Entrants(target, adjust), removed)} :
            /\ activeSet' = ((activeSet \ removed) \cup added) \ (Flattened \ target)
            /\ winding' = (winding \cup Deferred(unwanted)) \cap nonFlat
            /\ holdCycles' = [s \in Operated |->
                 IF s \notin activeSet' THEN 0
                 ELSE IF s \in added THEN 1
                 ELSE IF holdCycles[s] < MinHoldCycles THEN holdCycles[s] + 1
                 ELSE holdCycles[s]]
            /\ UNCHANGED <<scorable, score, nonFlat, forced>>

SelectorNext ==
  \/ Cycle
  \/ \E s \in Operated : Observe(s)
  \/ \E s \in Gridded : BranchChanges(s) \/ ForceGracefulExit(s)

SelectorSpec == SelectorInit /\ [][SelectorNext]_selectorVars

-----------------------------------------------------------------------------
SelectorTypeOK ==
  /\ scorable \subseteq Operated /\ score \in [Operated -> Int]
  /\ activeSet \subseteq Operated /\ winding \subseteq Gridded
  /\ holdCycles \in [Operated -> Nat] /\ nonFlat \subseteq Gridded /\ forced \in 0 .. MaxForced

\* is_dispatch_allowed(): asked for every new entry that is not grid_v2's own.  With an
\* empty active set everything is allowed.
DispatchAllowed(s) == s \notin winding /\ (activeSet = {} \/ s \in activeSet)

\* Eligibility never orphans inventory and never churns (docs/36, 3.1 and 5.4): a symbol
\* leaves the active set only when its branch is flat, and only after min_hold_cycles or
\* by way of graceful_exit_only; apart from those that way lets go, a cycle makes at most
\* max_changes_per_cycle changes; and a symbol once wound down takes no entry again before
\* a cycle has seen it flat.
RotationIsOrderly ==
  [][/\ \A s \in activeSet \ activeSet' :
          s \notin nonFlat /\ (holdCycles[s] >= MinHoldCycles \/ s \in winding)
     /\ Cardinality((activeSet' \ activeSet) \cup ((activeSet \ activeSet') \ winding)) <= MaxChanges
     /\ \A s \in winding : DispatchAllowed(s)' => s \notin nonFlat]_selectorVars
=============================================================================
