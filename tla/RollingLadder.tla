---------------------------- MODULE RollingLadder ----------------------------
(***************************************************************************)
(* The live engine's rolling ladder for a symbol grid_v2 does not own:     *)
(* LiveGridPlannerV1 (live/grid_planner.py) diffs a ladder of levels       *)
(* against the last account snapshot, LiveCycleLayerV1                     *)
(* (live/cycle_layer.py) answers every fill with a take-profit order, and  *)
(* LiveEngineV0 (live/engine.py) detects fills, guards convergence and     *)
(* dispatches.  Fills are never reported: an order that has left the       *)
(* snapshot is a fill unless the engine believes it cancelled it itself.   *)
(*                                                                         *)
(* A price is an integer number of ladder steps and every order has the    *)
(* ladder's size, so a take-profit is exactly one step from its fill and   *)
(* no level has the wrong quantity.  Time is coarse: ticks follow each     *)
(* other quickly, or after a pause longer than every time-out of the code  *)
(* (cancel registration and in-flight latch 30 s, take-profit TTL).  The   *)
(* port has no order limit, and the run begins with the first account sync *)
(* of a flat account without orders.                                       *)
(***************************************************************************)
EXTENDS Integers, FiniteSets, Sequences, SequencesExt

CONSTANTS
  Levels,        \* config.levels, per side
  Mids,          \* prices a ladder may be anchored at
  MaxAge,        \* _max_reservation_age (50 in the code)
  MaxTpRetries,  \* _TP_CLOSE_MAX_RETRIES (3 in the code)
  MaxRenewals,   \* config.tp_renew_max_attempts
  MaxOrders,     \* bound: orders ever generated
  MaxOdd         \* bound: pauses, refused writes, orders the exchange expires

ASSUME RLAssumption == Levels \in Nat /\ Mids \subseteq Int

VARIABLES
  rollBook,     \* every order generated, in order; its "st" is the exchange's truth
  net,      \* the account's position, in orders
  view,     \* _last_account_snapshot: visible orders and position
  ladder,   \* the planner's _rolling_state and _tp_slot_reservations
  watch,    \* the engine's view of what it has in flight
  cycle,    \* the cycle layer
  todo,     \* actions of this tick not yet dispatched
  retries,  \* _tp_close_retries: order -> attempts so far
  odd,      \* mishaps so far
  shifted,  \* ghost: every order whose disappearance moved the ladder
  hidden,   \* ghost: every order that vanished behind a cancel of ours
  astray    \* ghost: a pause outlived the time-outs, the exchange dropped an
            \* order, or a sync came between planning placements and sending them

rlVars == <<rollBook, net, view, ladder, watch, cycle, todo, retries, odd,
            shifted, hidden, astray>>

RungIds == 1..Len(rollBook)
Other(side) == IF side = "BUY" THEN "SELL" ELSE "BUY"
Away(side, n) == IF side = "BUY" THEN -n ELSE n
Resting == {o \in RungIds : rollBook[o].st = "resting"}
Grid(S) == {o \in S : ~rollBook[o].tp}
LadderOrder(side, price, tp) == [side |-> side, price |-> price, tp |-> tp, st |-> "unsent"]
Place(o, why) == [do |-> "place", id |-> o, why |-> why, with |-> o]
Cancel(o, why, with) == [do |-> "cancel", id |-> o, why |-> why, with |-> with]

\* The members of S up to a number, in ascending order.
InOrder(S, last) ==
  LET upTo[n \in 0..last] ==
        IF n = 0 THEN <<>> ELSE IF n \in S THEN Append(upTo[n - 1], n) ELSE upTo[n - 1]
  IN upTo[last]
Cancels(acts) == {a.id : a \in {b \in ToSet(acts) : b.do = "cancel"}}

NoLadder == [on |-> FALSE, anchor |-> 0, offset |-> 0, buy |-> 0, sell |-> 0, age |-> 0]

\* A cycle layer that has seen nothing yet.
NoCycle == [prev |-> {}, cancels |-> {}, young |-> {}, old |-> {}, renewals |-> 0]

RLInit ==
  /\ rollBook = <<>> /\ net = 0 /\ odd = 0 /\ shifted = {} /\ hidden = {} /\ astray = FALSE
  /\ view = [orders |-> {}, pos |-> 0]
  /\ ladder = NoLadder
  /\ watch = [prev |-> {}, cancels |-> {}, sent |-> {}, unsynced |-> {},
              latch |-> "none", failed |-> {}, dispatched |-> {}]
  /\ cycle = NoCycle
  /\ todo = [acts |-> <<>>, dead |-> {}]
  /\ retries = <<>>

-----------------------------------------------------------------------------
(* One call of process_snapshot up to the dispatch.                        *)

\* _detect_grid_fills_for_rolling: orders sent before the last sync are now
\* either listed or filled; listed grid orders that vanish are filled unless
\* a cancel of theirs is registered.
Vanished == watch.prev \ view.orders
GridFillsListed == Vanished \ watch.cancels
GridFills == (watch.sent \ view.orders) \cup (Vanished \ watch.cancels)

Detected(w) == [w EXCEPT !.sent = {}, !.cancels = @ \ Vanished,
                         !.prev = Grid(view.orders)]

\* apply_fill_offset for every fill; the slot of its take-profit is reserved.
Shifted(l, fills) ==
  LET buys  == {o \in fills : rollBook[o].side = "BUY"}
      sells == fills \ buys
  IN IF ~l.on \/ fills = {} THEN l
     ELSE [l EXCEPT !.offset = @ - Cardinality(buys) + Cardinality(sells),
                    !.sell = @ + Cardinality(buys), !.buy = @ + Cardinality(sells),
                    !.age = 0]

\* ANCHOR_RESET (INV-10): nothing listed, flat, nothing in flight or pending.
Empty(l, w) ==
  /\ l.on /\ view.orders = {} /\ view.pos = 0
  /\ w.latch # "unsynced" /\ w.cancels = {}

\* Auto-init on the first plan, then _clear_reservation_if_ready.
Planned(l, mid) ==
  LET m == IF l.on THEN l ELSE [NoLadder EXCEPT !.on = TRUE, !.anchor = mid]
  IN IF m.buy + m.sell = 0 THEN m
     ELSE IF m.age + 1 > MaxAge THEN [m EXCEPT !.buy = 0, !.sell = 0, !.age = 0]
     ELSE [m EXCEPT !.age = @ + 1]

\* _build_rolling_grid: innermost levels are left to reserved take-profits.
Desired(l) ==
  LET center == l.anchor + l.offset
  IN {<<"BUY", center - i>> : i \in (l.buy + 1)..Levels}
       \cup {<<"SELL", center + i>> : i \in (l.sell + 1)..Levels}

\* _match_orders_by_price: one listed order per level, the first one listed.
At(level) == {o \in view.orders : rollBook[o].side = level[1] /\ rollBook[o].price = level[2]}
Extra(l) == {o \in view.orders :
               ~\E level \in Desired(l) :
                  o \in At(level) /\ \A other \in At(level) : o <= other}
Missing(l) == {level \in Desired(l) : At(level) = {}}

\* _apply_convergence_guards: the in-flight latch, cancels before placements,
\* and the cap on placements no sync has confirmed.
GuardedUnlatched(w, l, active, paused) ==
  [places |-> IF active THEN Missing(l) ELSE {}, cancels |-> Grid(Extra(l)), latch |-> "none"]
Guarded(w, l, active, paused) ==
  LET trims   == Grid(Extra(l))
      wanted  == IF active THEN Missing(l) ELSE {}
      lapsed  == paused /\ w.latch # "none"
      waiting == w.latch = "unsynced" /\ ~lapsed
      cleared == lapsed \/ (w.latch = "synced" /\ trims = {})
      latch   == IF cleared THEN "none" ELSE w.latch
      capped(level) ==
        Cardinality({o \in w.unsynced : rollBook[o].side = level[1]}) >= 2 * Levels
  IN IF wanted = {} /\ trims = {}
       THEN [places |-> {}, cancels |-> {},
             latch |-> IF w.latch = "synced" THEN "none" ELSE w.latch]
     ELSE IF waiting THEN [places |-> {}, cancels |-> {}, latch |-> w.latch]
     ELSE IF trims # {} THEN [places |-> {}, cancels |-> trims, latch |-> latch]
     ELSE [places |-> {level \in wanted : ~capped(level)}, cancels |-> {},
           latch |-> "unsynced"]

\* LiveCycleLayerV1.on_snapshot, its first phase: a take-profit for every
\* grid order gone without a cancel of ours, and the farthest listed grid
\* order of the take-profit's side given up for it.
TakeProfit(acc, o) ==
  LET side  == Other(rollBook[o].side)
      rival == {g \in Grid(view.orders) \ acc.claimed : rollBook[g].side = side}
      far   == CHOOSE g \in rival : \A h \in rival :
                 Away(side, rollBook[g].price - rollBook[h].price) >= 0
                   /\ (rollBook[g].price = rollBook[h].price => g <= h)
      tp    == acc.next
      new   == LadderOrder(side, rollBook[o].price + Away(side, 1), TRUE)
  IN [next |-> tp + 1, orders |-> Append(acc.orders, new),
      claimed |-> IF rival = {} THEN acc.claimed ELSE acc.claimed \cup {far},
      acts |-> acc.acts \o <<Place(tp, "TP_CLOSE")>>
               \o (IF rival = {} THEN <<>> ELSE <<Cancel(far, "TP_SLOT_TAKEOVER", tp)>>)]

\* The first phase: one after the other.
Closing(fresh, gone) ==
  LET after[n \in 0..Len(gone)] == IF n = 0 THEN fresh ELSE TakeProfit(after[n - 1], gone[n])
  IN after[Len(gone)]

\* _handle_tp_expiry and _try_renew_tp for one expired take-profit: at most
\* one renewal in a cool-down; the budget counts every renewal ever made.
\* With another take-profit resting and the position covered, cancel first.
Renew(acc, o) ==
  LET tps    == {t \in view.orders : rollBook[t].tp}
      size   == IF view.pos < 0 THEN -view.pos ELSE view.pos
      first  == Cardinality(tps) + 1 > size /\ Cardinality(tps) > 1
      tp     == acc.next
      place  == Place(tp, "TP_RENEW")
      cancel == Cancel(o, "TP_RENEW", tp)
  IN IF view.pos = 0 \/ (acc.cool /\ acc.renewals >= MaxRenewals)
       THEN [acc EXCEPT !.acts = Append(@, Cancel(o, "TP_EXPIRED", o)), !.done = @ \cup {o}]
     ELSE IF ~acc.cool THEN acc
     ELSE [acc EXCEPT !.acts = @ \o (IF first THEN <<cancel, place>> ELSE <<place, cancel>>),
                      !.done = @ \cup {o}, !.cool = FALSE, !.renewals = @ + 1,
                      !.next = tp + 1,
                      !.orders = Append(@, LadderOrder(rollBook[o].side, rollBook[o].price, TRUE))]

\* The second phase.
Renewing(ripe, expired) ==
  LET after[n \in 0..Len(expired)] == IF n = 0 THEN ripe ELSE Renew(after[n - 1], expired[n])
  IN after[Len(expired)]

\* The rolling part of a tick: fills detected, the ladder moved or anchored
\* anew, and the grid planned from the old snapshot.
PlanOf(mid, active, paused) ==
  LET w0    == Detected(IF paused THEN [watch EXCEPT !.cancels = {}] ELSE watch)
      fills == IF paused THEN (watch.sent \ view.orders) \cup Vanished ELSE GridFills
      l0    == Shifted(ladder, fills)
      anew  == Empty(l0, w0)
      w1    == IF anew THEN [w0 EXCEPT !.prev = {}, !.unsynced = {}] ELSE w0
      l1    == Planned(IF anew THEN NoLadder ELSE l0, mid)
      guard == Guarded(w1, l1, active, paused)
      center == l1.anchor + l1.offset
      levels == [i \in 1..(2 * Levels) |->
                   IF i % 2 = 1 THEN <<"BUY", center - (i + 1) \div 2>>
                                ELSE <<"SELL", center + i \div 2>>]
      chosen == InOrder({i \in DOMAIN levels : levels[i] \in guard.places}, 2 * Levels)
  IN [watch |-> [w1 EXCEPT !.latch = guard.latch], ladder |-> l1, fills |-> fills,
      trims |-> guard.cancels, places |-> [i \in DOMAIN chosen |-> levels[chosen[i]]]]

\* The cycle layer's own record of cancels forgets them after a while, too.
RegisteredCancels(paused) == IF paused THEN {} ELSE cycle.cancels

\* The cycle layer's part: the planner's cancels registered, vanished orders
\* answered, expired take-profits cancelled or renewed.
CycleOf(plan, paused, cool) ==
  LET first   == Len(rollBook) + Len(plan.places) + 1
      gone    == cycle.prev \ view.orders
      ours    == RegisteredCancels(paused) \cup plan.trims
      fresh   == [next |-> first, orders |-> <<>>, claimed |-> {}, acts |-> <<>>]
      closing == Closing(fresh, InOrder(Grid(gone \ ours), Len(rollBook)))
      tracked == (cycle.young \cup cycle.old) \ gone
      expired == (IF paused THEN tracked ELSE cycle.old) \cap view.orders
      ripe    == [next |-> closing.next, orders |-> closing.orders, acts |-> closing.acts,
                  done |-> {}, cool |-> cool, renewals |-> cycle.renewals]
      renewed == Renewing(ripe, InOrder(expired, Len(rollBook)))
  IN [orders |-> renewed.orders, acts |-> renewed.acts, prev |-> view.orders,
      cancels |-> (ours \ gone) \cup closing.claimed, renewals |-> renewed.renewals,
      old |-> (IF paused THEN expired ELSE cycle.old \ gone) \ renewed.done,
      young |-> ((IF paused THEN {} ELSE cycle.young \ gone) \ renewed.done)
                  \cup first..(renewed.next - 1)]

\* _filter_tp_grid_overlap: no grid order where a take-profit is placed.
\* The rest is dispatched in order, placements before trims.
Actions(plan, new) ==
  LET free(i) == \A j \in DOMAIN new.orders :
                   <<new.orders[j].side, new.orders[j].price>> # plan.places[i]
      grid    == InOrder({i \in DOMAIN plan.places : free(i)}, Len(plan.places))
      trims   == InOrder(plan.trims, Len(rollBook))
  IN [i \in DOMAIN grid |-> Place(Len(rollBook) + grid[i], "GRID_FILL")]
       \o [i \in DOMAIN trims |-> Cancel(trims[i], "GRID_TRIM", trims[i])]
       \o new.acts

\* _process_tp_close_retries: spent ones are dropped, the others sent again
\* before anything else once their cool-down has passed.
Again == {o \in DOMAIN retries : retries[o] < MaxTpRetries}

\* A tick; only after planning, when one is due, is the account synced.
Tick(plan, new, acts, cool, due) ==
  LET again == InOrder(IF cool THEN Again ELSE {}, Len(rollBook))
      w     == [plan.watch EXCEPT !.cancels = @ \cup Cancels(acts)]
  IN /\ Len(rollBook) + Len(plan.places) + Len(new.orders) <= MaxOrders
     /\ rollBook' = rollBook \o [i \in DOMAIN plan.places |->
                           LadderOrder(plan.places[i][1], plan.places[i][2], FALSE)] \o new.orders
     /\ ladder' = plan.ladder
     /\ view' = IF due THEN [orders |-> Resting, pos |-> net] ELSE view
     /\ watch' = IF due
                   THEN [w EXCEPT !.sent = @ \cup w.unsynced, !.unsynced = {},
                                  !.latch = IF @ = "unsynced" THEN "synced" ELSE @,
                                  !.failed = @ \cap Resting, !.dispatched = {}]
                   ELSE w
     /\ cycle' = [prev |-> new.prev, cancels |-> new.cancels, young |-> new.young,
                  old |-> new.old, renewals |-> new.renewals]
     /\ retries' = [o \in Again |-> retries[o]]
     /\ todo' = [dead |-> {},
                 acts |-> [i \in DOMAIN again |->
                             [Place(again[i], "TP_CLOSE") EXCEPT !.do = "retry"]] \o acts]
     /\ shifted' = IF ladder.on THEN shifted \cup plan.fills ELSE shifted
     /\ hidden' = hidden \cup (Vanished \ plan.fills)
     /\ UNCHANGED net

TickOn ==
  /\ todo.acts = <<>>
  /\ \E mid \in Mids, active, paused, cool, due \in BOOLEAN :
       /\ ~active \/ paused => odd < MaxOdd
       /\ odd' = IF ~active \/ paused THEN odd + 1 ELSE odd
       /\ \E plan \in {PlanOf(mid, active, paused)} :
            \E new \in {CycleOf(plan, paused, cool)} :
              /\ Tick(plan, new, Actions(plan, new), cool, due)
              /\ astray' = (astray \/ paused \/ (due /\ plan.places # <<>>))
-----------------------------------------------------------------------------
(* Dispatch, one action at a time; the exchange moves in between.          *)

Head1 == todo.acts[1]
Rest(dead) == [acts |-> Tail(todo.acts), dead |-> todo.dead \cup dead]
Sent(o) == [watch EXCEPT !.unsynced = @ \cup {o}]
Turned(o, st) == [rollBook EXCEPT ![o].st = st]

\* External: the exchange takes a reduce-only order only if the position
\* covers it together with those already resting.
Covered(o) ==
  LET same == {t \in Resting : rollBook[t].tp /\ rollBook[t].side = rollBook[o].side}
      size == IF rollBook[o].side = "SELL" THEN net ELSE -net
  IN ~rollBook[o].tp \/ Cardinality(same) + 1 <= size

\* _process_action and _apply_submit_outcome of a PLACE the exchange takes.
PlaceTaken ==
  /\ todo.acts # <<>> /\ Head1.do \in {"place", "retry"} /\ Covered(Head1.id)
  /\ rollBook' = Turned(Head1.id, "resting")
  /\ watch' = Sent(Head1.id)
  /\ todo' = Rest({})
  /\ retries' = [o \in DOMAIN retries \ {Head1.id} |-> retries[o]]
  /\ UNCHANGED <<net, view, ladder, cycle, odd, shifted, hidden, astray>>

\* A PLACE refused by the exchange or blocked by a gate.  Only a reduce-only
\* refusal of a TP_CLOSE (-4118) is queued for another attempt.
PlaceRefused ==
  /\ todo.acts # <<>> /\ Head1.do \in {"place", "retry"}
  /\ Covered(Head1.id) => odd < MaxOdd
  /\ odd' = IF Covered(Head1.id) THEN odd + 1 ELSE odd
  /\ todo' = Rest(IF Head1.do = "place" THEN {Head1.id} ELSE {})
  /\ \/ /\ Head1.do = "retry"
        /\ retries' = [retries EXCEPT ![Head1.id] = @ + 1]
     \/ /\ Head1.why = "TP_CLOSE" /\ Head1.do = "place"
        /\ retries' = [o \in DOMAIN retries \cup {Head1.id} |->
                         IF o = Head1.id THEN 0 ELSE retries[o]]
     \/ Head1.do = "place" /\ retries' = retries
  /\ UNCHANGED <<rollBook, net, view, ladder, watch, cycle, shifted, hidden, astray>>

\* A takeover or a renewal whose take-profit failed is not carried out; the
\* cycle layer forgets the takeover's cancel, the rolling detection does not.
CancelDropped ==
  /\ todo.acts # <<>> /\ Head1.do = "cancel"
  /\ \/ Head1.why \in {"TP_SLOT_TAKEOVER", "TP_RENEW"} /\ Head1.with \in todo.dead
     \/ Head1.id \in watch.failed \cup watch.dispatched
     \/ Head1.why = "GRID_TRIM" /\ Head1.id \notin view.orders
  /\ todo' = Rest({})
  /\ cycle' = IF Head1.why = "TP_SLOT_TAKEOVER" /\ Head1.with \in todo.dead
                THEN [cycle EXCEPT !.cancels = @ \ {Head1.id}] ELSE cycle
  /\ UNCHANGED <<rollBook, net, view, ladder, watch, retries, odd, shifted, hidden, astray>>

\* A cancel fails when its order no longer rests (-2011), or in transit.
CancelSent ==
  /\ todo.acts # <<>> /\ Head1.do = "cancel"
  /\ ~(Head1.why \in {"TP_SLOT_TAKEOVER", "TP_RENEW"} /\ Head1.with \in todo.dead)
  /\ Head1.id \notin watch.failed \cup watch.dispatched
  /\ Head1.why = "GRID_TRIM" => Head1.id \in view.orders
  /\ \/ /\ rollBook[Head1.id].st = "resting"
        /\ rollBook' = Turned(Head1.id, "cancelled")
        /\ watch' = [watch EXCEPT !.dispatched = @ \cup {Head1.id}]
        /\ odd' = odd
     \/ /\ rollBook[Head1.id].st = "resting" => odd < MaxOdd
        /\ odd' = IF rollBook[Head1.id].st = "resting" THEN odd + 1 ELSE odd
        /\ rollBook' = rollBook
        /\ watch' = [watch EXCEPT !.dispatched = @ \cup {Head1.id},
                                  !.failed = @ \cup {Head1.id}]
  /\ todo' = Rest({})
  /\ UNCHANGED <<net, view, ladder, cycle, retries, shifted, hidden, astray>>

\* External: the exchange fills the best price first; a reduce-only order
\* with nothing left to reduce expires instead.
Fills(o) ==
  /\ o \in Resting
  /\ \A other \in Resting : rollBook[other].side = rollBook[o].side =>
       Away(rollBook[o].side, rollBook[other].price - rollBook[o].price) >= 0
  /\ IF rollBook[o].tp /\ (IF rollBook[o].side = "SELL" THEN net <= 0 ELSE net >= 0)
       THEN rollBook' = Turned(o, "cancelled") /\ net' = net
       ELSE rollBook' = Turned(o, "filled") /\ net' = net + (IF rollBook[o].side = "BUY" THEN 1 ELSE -1)
  /\ UNCHANGED <<view, ladder, watch, cycle, todo, retries, odd, shifted, hidden, astray>>

\* External: the exchange drops an order on its own.
Drops(o) ==
  /\ o \in Resting /\ odd < MaxOdd
  /\ rollBook' = Turned(o, "cancelled") /\ odd' = odd + 1 /\ astray' = TRUE
  /\ UNCHANGED <<net, view, ladder, watch, cycle, todo, retries, shifted, hidden>>

RLNext ==
  \/ TickOn \/ PlaceTaken \/ PlaceRefused \/ CancelDropped \/ CancelSent
  \/ \E o \in RungIds : Fills(o) \/ Drops(o)

RLSpec == RLInit /\ [][RLNext]_rlVars

-----------------------------------------------------------------------------

\* The ladder moves once for every fill and for nothing else: as long as
\* nothing odd happened, a grid order that moved it has filled, and a filled
\* one the engine no longer waits for has moved it, unless the engine was
\* cancelling it when it vanished.
LadderFollowsFills ==
  ~astray =>
    LET awaited == watch.prev \cup watch.sent \cup watch.unsynced
        filled  == {o \in RungIds : rollBook[o].st = "filled"}
    IN /\ Grid(shifted) \subseteq filled
       /\ Grid(filled) \subseteq shifted \cup awaited \cup hidden

\* No level is ever bought or sold twice: two grid orders of one side never
\* rest at one price, whatever snapshot the planner worked from.
OneOrderPerLevel ==
  ~astray =>
    \A o, other \in Grid(Resting) :
      rollBook[o].side = rollBook[other].side /\ rollBook[o].price = rollBook[other].price => o = other

\* What the ladder of a symbol promises: it moves for fills alone, one order a level.
LadderIsSound == LadderFollowsFills /\ OneOrderPerLevel
=============================================================================
