---------------------------- MODULE GridV2State ----------------------------
(***************************************************************************)
(* The pure state machine of the two-sided rolling-window grid             *)
(* (src/grinder/grid_v2/state.py): GridV2Snapshot is the state, each event *)
(* of GridV2StateMachine.apply an action, and the ActionIntents of the     *)
(* TransitionResult are kept in `intents' until the next event.            *)
(*                                                                         *)
(* Prices are integers, in ticks.  The tuples of window prices are sorted  *)
(* outwards from the reference and duplicate-free in every snapshot the    *)
(* code builds, so a window side is a set: buy_entry_prices[0] is its      *)
(* nearest and [-1] its farthest price.  `lot-<id>' and `exit-<id>' are    *)
(* both named by the order id they are derived from.                       *)
(***************************************************************************)
EXTENDS Integers, FiniteSets, FiniteSetsExt

CONSTANTS
  Ids,             \* client order ids whose fills the machine may be told of
  GridCids,        \* those that parse as grid_v2 CIDs (strategy_id "g")
  LevelsPerSide,   \* entry_levels_per_side
  MaxLevels,       \* max_inventory_levels
  MaxNotional,     \* max_inventory_notional_usd, in price ticks
  StepNum, StepDen,\* grid_step_pct = StepNum / StepDen
  ReseedOnFlat,    \* reseed_on_flat
  ReseedOnSkew,    \* reseed_on_flat_only_on_skew
  CooldownMs,      \* reseed_cooldown_ms
  NetoffEnabled,   \* netoff_enabled
  References,      \* reference prices: the initial one and those of recenters
  FillPrices,      \* prices at which an entry may fill
  Quantities,      \* quantities a fill event may carry
  Timestamps       \* event timestamps

\* GridV2Config.__post_init__, and the values the runtime feeds in.
ASSUME ConfigAssumption ==
  /\ LevelsPerSide \in Nat \ {0} /\ MaxLevels \in Nat \ {0}
  /\ MaxNotional \in Nat \ {0}
  /\ StepNum \in Nat \ {0} /\ StepDen \in Nat \ {0}
  /\ CooldownMs \in Nat
  /\ {ReseedOnFlat, ReseedOnSkew, NetoffEnabled} \subseteq BOOLEAN

ASSUME InputAssumption ==
  /\ GridCids \subseteq Ids
  /\ References \subseteq Nat /\ FillPrices \subseteq Nat
  /\ Quantities \subseteq Nat /\ Timestamps \subseteq Nat

VARIABLES
  mode,              \* BranchMode
  ref,               \* entry_window.reference_price
  window,            \* side -> its entry prices
  openLots,          \* open_lots: order id -> lot, defined on the open ones
  closedLots,        \* order ids of closed_lots
  exits,             \* exit_orders: order id -> exit order
  emergencyStopped,
  lastRecenterTs,    \* last_recenter_ts, Never while None
  intents            \* the ActionIntents of the last transition

vars == <<mode, ref, window, openLots, closedLots, exits, emergencyStopped,
          lastRecenterTs, intents>>
snapshot == <<mode, ref, window, openLots, closedLots, exits,
              emergencyStopped, lastRecenterTs>>

Never == -1

OrderSide  == {"BUY", "SELL"}
LotSide    == {"LONG", "SHORT"}
BranchMode == {"FLAT", "LONG", "SHORT"}
Lot        == [side : LotSide, price : Int, qty : Nat]
ExitOrder  == [status : {"OPEN", "FILLED", "CANCELED"}, price : Int]
Entry      == OrderSide \X Int
Intents    == [cancelEntry : SUBSET Entry, placeEntry : SUBSET Entry,
               placeExit : SUBSET Ids, cancelExit : SUBSET Ids]

Opposite(side) == IF side = "BUY" THEN "SELL" ELSE "BUY"
LotSideOfExit(side) == IF side = "SELL" THEN "LONG" ELSE "SHORT"
LotSideOf(side) == IF side = "BUY" THEN "LONG" ELSE "SHORT"

\* The direction in which a side's ladder runs away from the reference.
Outward(side) == IF side = "BUY" THEN -1 ELSE 1

Farthest(side, S) == IF side = "BUY" THEN Min(S) ELSE Max(S)
Nearest(side, S)  == IF side = "BUY" THEN Max(S) ELSE Min(S)

Abs(n) == IF n < 0 THEN -n ELSE n
Smaller(a, b) == IF a < b THEN a ELSE b
Larger(a, b)  == IF a > b THEN a ELSE b

\* price * grid_step_pct, rounded up to whole ticks.
StepCeil(price) == (price * StepNum + StepDen - 1) \div StepDen

\* _grid_step_price: the ladder's step, at least one tick.
GridStep(reference) == Larger(1, StepCeil(reference))

\* The paired exit of an entry filled at price: one step beyond it, a SELL
\* exit rounded up and a BUY exit rounded down to the tick.
ExitPrice(side, price) == price - Outward(side) * StepCeil(price)

\* _build_entry_window
BuildWindow(reference) ==
  [side \in OrderSide |->
     {reference + Outward(side) * GridStep(reference) * i : i \in 1..LevelsPerSide}]

\* The lot or exit map without one id, and the map with one entry added.
Without(f, id) == [i \in DOMAIN f \ {id} |-> f[i]]
With(f, id, v) == [i \in DOMAIN f \cup {id} |-> IF i = id THEN v ELSE f[i]]

OpenIds   == DOMAIN openLots
OpenCount == Cardinality(OpenIds)

\* Prices of the OPEN exits of an exit map.
OpenExitPrices(ex) == {ex[id].price : id \in {i \in DOMAIN ex : ex[i].status = "OPEN"}}

\* _occupied_prices
OccupiedPrices == OpenExitPrices(exits) \cup window["BUY"] \cup window["SELL"]

EntriesAt(side, S) == {side} \X S
AllEntries(w) == UNION {EntriesAt(side, w[side]) : side \in OrderSide}

NoIntents == [cancelEntry |-> {}, placeEntry |-> {}, placeExit |-> {}, cancelExit |-> {}]

-----------------------------------------------------------------------------
\* create_initial
Init ==
  /\ mode = "FLAT"
  /\ ref \in References
  /\ window = BuildWindow(ref)
  /\ openLots = <<>> /\ closedLots = {} /\ exits = <<>>
  /\ emergencyStopped = FALSE
  /\ lastRecenterTs = Never
  /\ intents = NoIntents

\* A rejected or idempotent event: same snapshot, no actions.
NoTransition ==
  /\ UNCHANGED snapshot
  /\ intents' = NoIntents

-----------------------------------------------------------------------------
\* EntryFilled

\* The source id of every lot ever opened is remembered (DUPLICATE_ENTRY_FILL).
SeenEntryUnchecked(id) == FALSE
SeenEntryOpenOnly(id) == id \in OpenIds
SeenEntry(id) == id \in OpenIds \cup closedLots

OpenNotional == MapThenSumSet(LAMBDA i : openLots[i].qty * openLots[i].price, OpenIds)

\* _entry_fill_reject_reason, up to the branch check.  A grid_v2 CID is
\* exempt from the window, the level cap and the notional cap.
EntryAdmissible(id, side, price, qty) ==
  /\ ~emergencyStopped
  /\ qty > 0
  /\ ~SeenEntry(id)
  /\ id \notin GridCids =>
       /\ price \in window[side]
       /\ OpenCount < MaxLevels
       /\ OpenNotional + qty * price <= MaxNotional

BranchCompatible(side) == mode \in {"FLAT", LotSideOf(side)}

\* The `[: entry_levels_per_side]' that bounds a rolled side.
HasRoomForOneMore(levels) == Cardinality(levels) <= LevelsPerSide
HasRoom(levels) == Cardinality(levels) < LevelsPerSide

\* ADR-177/178: no replacement order when the branch is close to the cap.
BurstSuppressed ==
  OpenCount + 1 >= Smaller(MaxLevels, Larger(LevelsPerSide, MaxLevels - LevelsPerSide))

\* _update_window_after_fill: the fill side loses the filled price and gains
\* one farther level unless that level is occupied or too far out; the
\* opposite side loses its farthest level.  The level is kept in the window
\* but not placed under burst suppression; it is placed but not kept when the
\* side already has LevelsPerSide levels.
Roll(side, price) ==
  LET remaining == window[side] \ {price}
      opposite  == window[Opposite(side)]
      step      == GridStep(ref)
      level     == (IF remaining = {} THEN price ELSE Farthest(side, remaining))
                     + Outward(side) * step
      refused   == \/ level \in OccupiedPrices \ {price}
                   \/ Abs(ref - level) > 2 * LevelsPerSide * step
  IN [same    |-> IF refused \/ ~HasRoom(remaining)
                    THEN remaining ELSE remaining \cup {level},
      trimmed |-> IF opposite = {} THEN {} ELSE {Farthest(Opposite(side), opposite)},
      placed  |-> IF refused \/ BurstSuppressed THEN {} ELSE {level}]

\* A branch entry leaves only the fill side's levels in the window.
WindowAfterEntryKeepingOpposite(side, roll) ==
  [window EXCEPT ![side] = roll.same, ![Opposite(side)] = @ \ roll.trimmed]
WindowAfterEntry(side, roll) ==
  [window EXCEPT ![side] = roll.same, ![Opposite(side)] = {}]

\* _execute_entry: open the lot and its exit, roll the fill side, and cancel
\* every entry of the opposite side.
ExecuteEntry(id, side, price, qty) ==
  LET roll == Roll(side, price)
  IN /\ EntryAdmissible(id, side, price, qty)
     /\ BranchCompatible(side)
     /\ mode' = LotSideOf(side)
     /\ openLots' = With(openLots, id, [side |-> LotSideOf(side), price |-> price, qty |-> qty])
     /\ exits' = With(exits, id, [status |-> "OPEN", price |-> ExitPrice(side, price)])
     /\ window' = WindowAfterEntry(side, roll)
     /\ intents' = [NoIntents EXCEPT
          !.placeExit = {id},
          !.placeEntry = EntriesAt(side, roll.placed),
          !.cancelEntry = EntriesAt(Opposite(side), window[Opposite(side)])]
     /\ UNCHANGED <<ref, closedLots, emergencyStopped, lastRecenterTs>>

\* An exit order that left the book.  Only the price of an OPEN exit is ever
\* read again, so the price is dropped.
Settled(status) == [status |-> status, price |-> 0]

\* The mode once a lot is closed.
ModeAfterClosingUnchanged(lot) == mode
ModeAfterClosing(lot) == IF OpenIds = {lot} THEN "FLAT" ELSE mode

\* The open lots nearest to a price.  On a tie the code takes the one opened
\* first; the model, which keeps no order among lots, takes any.
ClosestLots(price) ==
  {id \in OpenIds : \A other \in OpenIds :
      Abs(openLots[id].price - price) <= Abs(openLots[other].price - price)}

\* _execute_netoff: an opposite-side fill closes the closest lot.
ExecuteNetoff(id, side, price, qty) ==
  LET roll == Roll(side, price)
  IN /\ EntryAdmissible(id, side, price, qty)
     /\ ~BranchCompatible(side)
     /\ NetoffEnabled
     /\ \E lot \in ClosestLots(price) :
          LET paired == {i \in {lot} \cap DOMAIN exits : exits[i].status = "OPEN"}
          IN /\ openLots' = Without(openLots, lot)
             /\ closedLots' = closedLots \cup {lot}
             /\ exits' = [i \in DOMAIN exits |->
                            IF i \in paired THEN Settled("CANCELED") ELSE exits[i]]
             /\ mode' = ModeAfterClosing(lot)
             /\ window' = [window EXCEPT ![side] = roll.same,
                                         ![Opposite(side)] = @ \ roll.trimmed]
             /\ intents' = [NoIntents EXCEPT
                  !.cancelExit = paired,
                  !.placeEntry = EntriesAt(side, roll.placed),
                  !.cancelEntry = EntriesAt(Opposite(side), roll.trimmed)]
     /\ UNCHANGED <<ref, emergencyStopped, lastRecenterTs>>

RejectEntry(id, side, price, qty) ==
  /\ \/ ~EntryAdmissible(id, side, price, qty)
     \/ ~BranchCompatible(side) /\ (~NetoffEnabled \/ OpenIds = {})
  /\ NoTransition

EntryFilled(id, side, price, qty) ==
  \/ ExecuteEntry(id, side, price, qty)
  \/ ExecuteNetoff(id, side, price, qty)
  \/ RejectEntry(id, side, price, qty)

-----------------------------------------------------------------------------
\* ExitFilled

\* _find_open_lot, _find_exit_order, _validate_exit_pair.  An exit order
\* carries its lot's id, so the pair matches when the two ids agree.
ExitAcceptable(exitId, lotId, qty) ==
  /\ qty > 0
  /\ lotId \in OpenIds
  /\ exitId \in DOMAIN exits
  /\ exitId = lotId
  /\ exits[exitId].status # "FILLED"

ReturnsToFlat(lotId) == OpenIds = {lotId} /\ mode # "FLAT"

LadderSkewed == \E side \in OrderSide : window[side] = {}

ReseedWanted(lotId) ==
  /\ ReturnsToFlat(lotId)
  /\ \/ ReseedOnFlat
     \/ ReseedOnSkew /\ LadderSkewed

CoolingDown(ts) == lastRecenterTs # Never /\ ts - lastRecenterTs < CooldownMs

ReplaceWindow(new) ==
  /\ window' = new
  /\ intents' = [NoIntents EXCEPT !.cancelEntry = AllEntries(window),
                                  !.placeEntry = AllEntries(new)]

\* The unwind to FLAT rebuilds the window around the reference.
FlatReseed(lotId, ts) ==
  /\ ReseedWanted(lotId) /\ ~CoolingDown(ts)
  /\ ReplaceWindow(BuildWindow(ref))
  /\ lastRecenterTs' = ts

\* Within the cooldown only the difference is ordered, and the cooldown
\* keeps counting from the last genuine recenter.
Resymmetrize(lotId, ts) ==
  /\ ReseedWanted(lotId) /\ CoolingDown(ts)
  /\ window' = BuildWindow(ref)
  /\ intents' = [NoIntents EXCEPT
       !.cancelEntry = AllEntries(window) \ AllEntries(BuildWindow(ref)),
       !.placeEntry = AllEntries(BuildWindow(ref)) \ AllEntries(window)]
  /\ UNCHANGED lastRecenterTs

\* EXIT_RESTORE on a side with too few levels: the slot one step nearer to
\* the market, or the first free one outward from it.
RestoredLevel(side, occupied) ==
  LET own   == window[side]
      step  == GridStep(ref)
      first == IF own = {} THEN ref + Outward(side) * step
                           ELSE Nearest(side, own) - Outward(side) * step
      slots == {first + Outward(side) * step * k : k \in 0..(MaxLevels + 2)} \ occupied
  IN IF slots = {} THEN {} ELSE {Nearest(side, slots)}

\* EXIT_RESTORE_SHIFT on a full side: the ladder moves one step back towards
\* the reference, if that slot is free and on the near side of it.
ShiftedLevel(side, occupied) ==
  LET level == Nearest(side, window[side]) - Outward(side) * GridStep(ref)
  IN {p \in {level} : p \notin occupied /\ Outward(side) * (p - ref) > 0}

\* The branch side's window after the exit of lotId, exits being exitsAfter.
RestoreEntry(lotId, ts, exitsAfter) ==
  LET side     == IF mode = "LONG" THEN "BUY" ELSE "SELL"
      own      == window[side]
      occupied == OpenExitPrices(exitsAfter) \cup window["BUY"] \cup window["SELL"]
      headroom == Larger(0, MaxLevels - Cardinality(OpenIds \ {lotId}))
      short    == Cardinality(own) < Smaller(LevelsPerSide, headroom)
      placed   == IF headroom = 0 THEN {}
                  ELSE IF short THEN RestoredLevel(side, occupied)
                  ELSE IF own # {} THEN ShiftedLevel(side, occupied) ELSE {}
      dropped  == IF short \/ placed = {} THEN {} ELSE {Farthest(side, own)}
  IN /\ ~ReseedWanted(lotId)
     /\ window' = [window EXCEPT ![side] = (@ \ dropped) \cup placed]
     /\ intents' = [NoIntents EXCEPT !.cancelEntry = EntriesAt(side, dropped),
                                     !.placeEntry = EntriesAt(side, placed)]
     /\ UNCHANGED lastRecenterTs

\* _apply_exit_filled.  The branch of the code that leaves the window alone
\* is for an open lot in FLAT, which no snapshot has.
ExecuteExit(exitId, lotId, qty, ts) ==
  LET exitsAfter == [exits EXCEPT ![exitId] = Settled("FILLED")]
  IN /\ ExitAcceptable(exitId, lotId, qty)
     /\ openLots' = Without(openLots, lotId)
     /\ closedLots' = closedLots \cup {lotId}
     /\ exits' = exitsAfter
     /\ mode' = ModeAfterClosing(lotId)
     /\ \/ FlatReseed(lotId, ts)
        \/ Resymmetrize(lotId, ts)
        \/ RestoreEntry(lotId, ts, exitsAfter)
     /\ UNCHANGED <<ref, emergencyStopped>>

RejectExit(exitId, lotId, qty) ==
  /\ ~ExitAcceptable(exitId, lotId, qty)
  /\ NoTransition

ExitFilled(exitId, lotId, qty, ts) ==
  \/ ExecuteExit(exitId, lotId, qty, ts)
  \/ RejectExit(exitId, lotId, qty)

-----------------------------------------------------------------------------
\* The other events

HasOpenExit == \E id \in DOMAIN exits : exits[id].status = "OPEN"

CanRecenter == ~emergencyStopped /\ mode = "FLAT" /\ OpenIds = {} /\ ~HasOpenExit

\* _apply_recenter
RecenterRequested(newRef, ts) ==
  \/ /\ CanRecenter
     /\ ReplaceWindow(BuildWindow(newRef))
     /\ ref' = newRef
     /\ lastRecenterTs' = ts
     /\ UNCHANGED <<mode, openLots, closedLots, exits, emergencyStopped>>
  \/ ~CanRecenter /\ NoTransition

EmptyWindow == [side \in OrderSide |-> {}]

\* _apply_emergency_stop: the second stop is idempotent.
EmergencyStopTriggered ==
  \/ /\ ~emergencyStopped
     /\ emergencyStopped' = TRUE
     /\ ReplaceWindow(EmptyWindow)
     /\ UNCHANGED <<mode, ref, openLots, closedLots, exits, lastRecenterTs>>
  \/ emergencyStopped /\ NoTransition

AlreadyClean ==
  /\ mode = "FLAT" /\ OpenIds = {} /\ ~HasOpenExit
  /\ window = EmptyWindow /\ ~emergencyStopped

\* _apply_operator_cleanup
OperatorCleanup ==
  \/ /\ ~AlreadyClean
     /\ mode' = "FLAT"
     /\ window' = EmptyWindow
     /\ openLots' = <<>>
     /\ closedLots' = closedLots \cup OpenIds
     /\ exits' = [id \in DOMAIN exits |-> IF exits[id].status = "OPEN"
                    THEN Settled("CANCELED") ELSE exits[id]]
     /\ emergencyStopped' = FALSE
     /\ intents' = [NoIntents EXCEPT
          !.cancelEntry = AllEntries(window),
          !.cancelExit = {id \in DOMAIN exits : exits[id].status = "OPEN"}]
     /\ UNCHANGED <<ref, lastRecenterTs>>
  \/ AlreadyClean /\ NoTransition

Next ==
  \/ \E id \in Ids, side \in OrderSide, price \in FillPrices, qty \in Quantities :
        EntryFilled(id, side, price, qty)
  \/ \E exitId, lotId \in Ids, qty \in Quantities, ts \in Timestamps :
        ExitFilled(exitId, lotId, qty, ts)
  \/ \E newRef \in References, ts \in Timestamps : RecenterRequested(newRef, ts)
  \/ EmergencyStopTriggered
  \/ OperatorCleanup

Spec == Init /\ [][Next]_vars

-----------------------------------------------------------------------------
\* What the machine promises.

\* The type invariant of the snapshot and of the intents.
TypeOK ==
  /\ mode \in BranchMode
  /\ ref \in Nat
  /\ window \in [OrderSide -> SUBSET Int]
  /\ \A side \in OrderSide : IsFiniteSet(window[side])
  /\ OpenIds \subseteq Ids /\ openLots \in [OpenIds -> Lot]
  /\ closedLots \subseteq Ids
  /\ DOMAIN exits \subseteq Ids /\ exits \in [DOMAIN exits -> ExitOrder]
  /\ emergencyStopped \in BOOLEAN
  /\ lastRecenterTs \in Nat \cup {Never}
  /\ intents \in Intents

\* I1, I3 and I4 of the specification document, which _check_invariants
\* asserts on every committed snapshot.
BoundedWindow == \A side \in OrderSide : Cardinality(window[side]) <= LevelsPerSide
PairedExits   == \A id \in OpenIds : id \in DOMAIN exits /\ exits[id].status = "OPEN"
BranchConsistent == \A id \in OpenIds : openLots[id].side = mode

\* No event sequence makes _commit raise GridV2InvariantError, whatever the
\* order in which fills, recenters, stops and cleanups arrive.
NoInvariantError == BoundedWindow /\ PairedExits /\ BranchConsistent

\* Both, for the run that checks them as one.
SnapshotIsValid == TypeOK /\ NoInvariantError

\* An OPEN exit order always protects an open lot, so a flat book never has
\* an orphan exit that would block every later recenter (RECENTER_EXITS_OPEN).
NoOrphanExit ==
  \A id \in DOMAIN exits : exits[id].status = "OPEN" => id \in OpenIds

\* A branch holds inventory: the mode never stays LONG or SHORT with no lot
\* whose exit could bring it back to FLAT.
BranchHoldsInventory == mode # "FLAT" => OpenIds # {}

\* The machine keeps the books of LotLedger: a lot is opened once, although
\* its entry fill may be replayed (DUPLICATE_ENTRY_FILL), has its exit OPEN from
\* then until it is closed, and lots of two sides are never open together.
Protected == {id \in DOMAIN exits : exits[id].status = "OPEN"}
Ledger == INSTANCE LotLedger WITH
            LotSides <- LotSide, held <- [id \in OpenIds |-> openLots[id].side],
            settled <- closedLots, protected <- Protected
KeepsLedger == Ledger!Spec

\* Without net-off a branch keeps no entry on the opposite side ("Opposite
\* side stays empty until FLAT reseed").
OneSidedBranch ==
  /\ mode = "LONG" => window["SELL"] = {}
  /\ mode = "SHORT" => window["BUY"] = {}

=============================================================================
