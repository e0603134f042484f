----------------------------- MODULE AccountTruth -----------------------------
(***************************************************************************)
(* What the engine believes of its account: the event ledger and the       *)
(* position ledger fed by the user-data stream (account/), the REST        *)
(* snapshot of every sync that corrects them and decides whether they are  *)
(* trusted, and the readers in live/engine.py that choose a source: the    *)
(* fill detection by absence, the release of placements in flight and the  *)
(* cleaning of the registry.                                               *)
(*                                                                         *)
(* Events may be lost and two of them may carry one timestamp; a REST      *)
(* answer may be the view of the sync before (a cached answer).            *)
(***************************************************************************)
EXTENDS Integers, FiniteSets, Sequences, FiniteSetsExt

CONSTANTS
  Cids,         \* client order ids, of entries, each used once
  Buys,         \* those that buy
  LotSize,      \* quantity of an order
  GraceGens,    \* _GRID_V2_PENDING_PLACE_STALE_GENS
  MaxStream,    \* events on their way when the account changes again
  MaxMishaps    \* events lost, changes within one millisecond, health losses

ASSUME TruthAssumption ==
  /\ IsFiniteSet(Cids) /\ Buys \subseteq Cids /\ LotSize \in Nat \ {0}
  /\ {GraceGens, MaxStream, MaxMishaps} \subseteq Nat

VARIABLES
  orderAt, stock,     \* the exchange: its orders, and the position, each with a time
  clock,              \* its time
  cached,             \* what it answered last, or may answer once more
  stream, mishaps,    \* events on their way; what went wrong so far
  ledger, missing,    \* EventLedger._orders, _curr_missing_in_snapshot
  trust,              \* the flags of both ledgers' trust
  stockLedger,        \* PositionLedger, the engine's symbol
  lastView,           \* _last_account_snapshot
  recent,             \* an order event, a position event came within five seconds
  healthy,            \* health mode HEALTHY
  tracked,            \* the bridge's registry
  inFlight,           \* _grid_v2_pending_place_cids, with their age in syncs
  credible,           \* _grid_v2_fill_eligible_cids
  beheld, absent      \* _grid_v2_seen_on_exchange, _prev_absent_registry_cids

exchangeSide == <<orderAt, stock, clock>>
readerSide == <<tracked, inFlight, credible, beheld, absent>>
truthVars == <<exchangeSide, cached, stream, mishaps, ledger, missing, trust, stockLedger, lastView,
               recent, healthy, readerSide>>

Unknown == [open |-> FALSE, filled |-> 0, ts |-> -1]
Unplaced == [state |-> "none", filled |-> 0, ts |-> 0]
EmptyView == [orders |-> [c \in {} |-> 0], amount |-> 0, since |-> 0, ts |-> 0]

TruthInit ==
  /\ orderAt = [c \in Cids |-> Unplaced] /\ stock = [amount |-> 0, ts |-> 0] /\ clock = 0
  /\ cached = EmptyView /\ stream = <<>> /\ mishaps = 0
  /\ ledger = [c \in Cids |-> Unknown] /\ missing = {}
  /\ trust = [orders |-> [boot |-> FALSE, ok |-> FALSE, revoked |-> FALSE],
              stock |-> [boot |-> FALSE, ok |-> FALSE, revoked |-> FALSE]]
  /\ stockLedger = [amount |-> 0, ts |-> -1]
  /\ lastView = EmptyView
  /\ recent = [orders |-> FALSE, stock |-> FALSE] /\ healthy = TRUE
  /\ tracked = {} /\ inFlight = [c \in {} |-> 0] /\ credible = {} /\ beheld = {} /\ absent = {}

-----------------------------------------------------------------------------
\* The exchange, and the engine's placements.

Resting == {c \in Cids : orderAt[c].state = "open"}

\* snapshot.ts is the newest update among what it shows.
TrueView ==
  LET since == IF stock.amount = 0 THEN 0 ELSE stock.ts
  IN  [orders |-> [c \in Resting |-> orderAt[c].filled],
       amount |-> stock.amount, since |-> since,
       ts |-> Max({orderAt[c].ts : c \in Resting} \cup {since})]

OrderEvent(c, state, filled, t) == [kind |-> "order", cid |-> c, state |-> state, filled |-> filled, ts |-> t]
StockEvent(amount, t) == [kind |-> "stock", amount |-> amount, ts |-> t]

Mishap == mishaps < MaxMishaps /\ mishaps' = mishaps + 1

\* Two changes may fall into one millisecond.
Elapses ==
  /\ Len(stream) < MaxStream
  /\ \/ clock' = clock + 1 /\ UNCHANGED mishaps
     \/ clock' = clock /\ Mishap

Forget(c) ==
  /\ tracked' = tracked \ {c} /\ credible' = credible \ {c}
  /\ inFlight' = [k \in DOMAIN inFlight \ {c} |-> inFlight[k]]

\* An accepted placement is registered, in flight and credible at once.
PlaceEntry(c) ==
  /\ orderAt[c] = Unplaced /\ Elapses
  /\ orderAt' = [orderAt EXCEPT ![c] = [state |-> "open", filled |-> 0, ts |-> clock']]
  /\ stream' = Append(stream, OrderEvent(c, "open", 0, clock'))
  /\ tracked' = tracked \cup {c} /\ credible' = credible \cup {c}
  /\ inFlight' = [k \in DOMAIN inFlight \cup {c} |-> IF k = c THEN 0 ELSE inFlight[k]]
  /\ UNCHANGED <<stock, cached, ledger, missing, trust, stockLedger, lastView, recent, healthy, beheld, absent>>

Trades(c) ==
  /\ orderAt[c].state = "open" /\ Elapses
  /\ LET filled == orderAt[c].filled + 1
         state == IF filled = LotSize THEN "filled" ELSE "open"
     IN  /\ orderAt' = [orderAt EXCEPT ![c] = [state |-> state, filled |-> filled, ts |-> clock']]
         /\ stock' = [amount |-> stock.amount + (IF c \in Buys THEN 1 ELSE -1), ts |-> clock']
         /\ stream' = stream \o <<OrderEvent(c, state, filled, clock'), StockEvent(stock'.amount, clock')>>
  /\ UNCHANGED <<cached, ledger, missing, trust, stockLedger, lastView, recent, healthy,
                 readerSide>>

Withdrawn(c) ==
  /\ orderAt[c].state = "open" /\ Elapses
  /\ orderAt' = [orderAt EXCEPT ![c].state = "canceled", ![c].ts = clock']
  /\ stream' = Append(stream, OrderEvent(c, "canceled", orderAt[c].filled, clock'))
  /\ UNCHANGED <<stock, cached, ledger, missing, trust, stockLedger, lastView, recent, healthy, readerSide>>

LoseEvent ==
  /\ stream # <<>> /\ Mishap /\ stream' = Tail(stream)
  /\ UNCHANGED <<exchangeSide, cached, ledger, missing, trust, stockLedger, lastView, recent, healthy, readerSide>>

-----------------------------------------------------------------------------
\* process_user_data_event.

\* EventLedger.apply_order_event: not newer is a duplicate.
AppliedOrder(l, e) ==
  IF e.ts <= l.ts THEN l ELSE [open |-> e.state = "open", filled |-> e.filled, ts |-> e.ts]

\* PositionLedger.apply_position_event
AppliedStock(l, e) == IF e.ts <= l.ts THEN l ELSE [amount |-> e.amount, ts |-> e.ts]

\* A fill is booked and a cancel acknowledged whatever the ledger made of the event; a
\* cancel leaves the placement in flight until a sync releases it.
HearOrderEvent(e) ==
  /\ ledger' = [ledger EXCEPT ![e.cid] = AppliedOrder(@, e)]
  /\ trust' = [trust EXCEPT !.orders.boot = @ \/ ledger'[e.cid].open]
  /\ recent' = [recent EXCEPT !.orders = TRUE]
  /\ CASE e.state = "open" -> UNCHANGED <<tracked, credible, inFlight>>
       [] e.state = "filled" -> Forget(e.cid)
       [] e.state = "canceled" -> tracked' = tracked \ {e.cid} /\ UNCHANGED <<credible, inFlight>>
  /\ UNCHANGED stockLedger

HearStockEvent(e) ==
  /\ stockLedger' = AppliedStock(stockLedger, e)
  /\ trust' = [trust EXCEPT !.stock.boot = @ \/ stockLedger'.amount # 0]
  /\ recent' = [recent EXCEPT !.stock = TRUE]
  /\ UNCHANGED <<ledger, tracked, credible, inFlight>>

HearEvent ==
  /\ stream # <<>> /\ stream' = Tail(stream)
  /\ IF Head(stream).kind = "order" THEN HearOrderEvent(Head(stream)) ELSE HearStockEvent(Head(stream))
  /\ UNCHANGED <<exchangeSide, cached, mishaps, missing, lastView, healthy, beheld, absent>>

\* Five seconds without an event of a kind.
FallsSilent(kind) ==
  /\ recent[kind] /\ recent' = [recent EXCEPT ![kind] = FALSE]
  /\ UNCHANGED <<exchangeSide, cached, stream, mishaps, ledger, missing, trust, stockLedger, lastView,
                 healthy, readerSide>>

\* Every change to another mode than HEALTHY revokes the trust in the orders.
HealthChanges ==
  /\ IF healthy THEN Mishap ELSE UNCHANGED mishaps
  /\ healthy' = ~healthy /\ trust' = [trust EXCEPT !.orders.revoked = @ \/ healthy]
  /\ UNCHANGED <<exchangeSide, cached, stream, ledger, missing, stockLedger, lastView, recent, readerSide>>

-----------------------------------------------------------------------------
\* The readers.

IsTrusted(t) == t.boot /\ t.ok /\ ~t.revoked
LedgerOpen(l) == {c \in Cids : l[c].open}

\* _grid_v2_exchange_cids: the ledger when it is trusted and fresh, else the snapshot.
Visible ==
  IF IsTrusted(trust.orders) /\ recent.orders THEN LedgerOpen(ledger) ELSE DOMAIN lastView.orders

\* get_effective_signed_position_qty
EffectiveStock ==
  IF IsTrusted(trust.stock) /\ recent.stock THEN stockLedger.amount ELSE lastView.amount

\* _grid_v2_process_fills: what is registered, credible, not in flight and not seen any
\* more is taken for filled.
TakenForFilled == ((tracked \cap credible) \ DOMAIN inFlight) \ Visible

DetectFills ==
  /\ TakenForFilled # {}
  /\ tracked' = tracked \ TakenForFilled
  /\ UNCHANGED <<exchangeSide, cached, stream, mishaps, ledger, missing, trust, stockLedger, lastView,
                 recent, healthy, inFlight, credible, beheld, absent>>

-----------------------------------------------------------------------------
\* _tick_account_sync.

\* EventLedger.hydrate_from_snapshot: only what it does not know yet.
HydratedOrders(l, v) ==
  [c \in Cids |-> IF l[c].ts = -1 /\ c \in DOMAIN v.orders
                  THEN [open |-> TRUE, filled |-> v.orders[c], ts |-> v.ts] ELSE l[c]]

\* compare_with_snapshot
MissingInView(l, v) == LedgerOpen(l) \ DOMAIN v.orders
Diverging(l, v) ==
  {c \in DOMAIN v.orders : ~l[c].open \/ l[c].filled # v.orders[c]} \cup MissingInView(l, v)

\* reconcile_with_snapshot: absent twice in a row is closed.
RecoverableAfresh(before, now) == {}
Recoverable(before, now) == before \cap now
RecoveredOrders(l, S) == [c \in Cids |-> IF c \in S THEN [l[c] EXCEPT !.open = FALSE] ELSE l[c]]

\* PositionLedger.hydrate_from_snapshot: a flat snapshot says nothing.
HydratedStock(l, v) ==
  IF v.amount # 0 /\ l.ts < v.since THEN [amount |-> v.amount, ts |-> v.since] ELSE l

StockAgreesIfHeld(l, v) == l.amount = v.amount \/ v.amount = 0
StockAgrees(l, v) == l.amount = v.amount

\* restore_trust_after_recovery needs HEALTHY; record_comparison_result does not.
OrderTrust(t, known, converged) ==
  LET boot == t.boot \/ known
  IN  [boot |-> boot, ok |-> converged, revoked |-> t.revoked /\ ~(converged /\ healthy /\ boot)]
StockTrust(t, held, converged) ==
  LET boot == t.boot \/ held
  IN  [boot |-> boot, ok |-> converged, revoked |-> IF converged THEN t.revoked /\ ~boot ELSE TRUE]

\* A placement is no longer in flight when it is seen or GraceGens syncs old.
StillInFlight(seen) ==
  LET kept == {c \in DOMAIN inFlight : c \notin seen /\ inFlight[c] + 1 < GraceGens}
  IN  [c \in kept |-> inFlight[c] + 1]
SeenUntrusted(l, t, v) == LedgerOpen(l)
SeenNow(l, t, v) == IF IsTrusted(t) THEN LedgerOpen(l) ELSE DOMAIN v.orders

\* What compare and reconcile make of the orders: the entries, and what stays missing.
Reconciled(l, v, before) ==
  LET lost == MissingInView(l, v)
      closed == IF Diverging(l, v) = {} THEN {} ELSE Recoverable(before, lost)
  IN  [orders |-> RecoveredOrders(l, closed), missing |-> lost \ closed]

\* Gone is what is registered, not in flight, seen before and not seen now; gone twice
\* in a row is cleaned.
Gone(seen) == {c \in tracked \ (seen \cup DOMAIN inFlight') : c \in beheld}

SettleReaders(seen) ==
  /\ inFlight' = StillInFlight(seen)
  /\ absent' = Gone(seen)
  /\ tracked' = tracked \ (absent' \cap absent)
  /\ beheld' = (beheld \cup seen) \cap tracked'
  /\ UNCHANGED credible

Sync(v) ==
  /\ cached' = TrueView /\ lastView' = v
  /\ \E r \in {Reconciled(HydratedOrders(ledger, v), v, missing)} :
       ledger' = r.orders /\ missing' = r.missing
  /\ stockLedger' = HydratedStock(stockLedger, v)
  /\ trust' = [orders |-> OrderTrust(trust.orders, \E c \in Cids : ledger'[c].ts # -1, Diverging(ledger', v) = {}),
               stock |-> StockTrust(trust.stock, stockLedger' # stockLedger, StockAgrees(stockLedger', v))]
  /\ SettleReaders(SeenNow(ledger', trust'.orders, v))
  /\ UNCHANGED <<exchangeSide, stream, mishaps, recent, healthy>>

SyncFresh == Sync(TrueView)
SyncCached == cached # TrueView /\ Sync(cached)

TruthNext ==
  \/ \E c \in Cids : PlaceEntry(c) \/ Trades(c) \/ Withdrawn(c)
  \/ LoseEvent \/ HearEvent \/ HealthChanges \/ DetectFills \/ SyncFresh \/ SyncCached
  \/ \E kind \in {"orders", "stock"} : FallsSilent(kind)

TruthSpec == TruthInit /\ [][TruthNext]_truthVars

-----------------------------------------------------------------------------
\* An order that rests on the exchange is never given up: neither taken for filled nor
\* cleaned from the registry, whichever source is read, whatever the stream lost and
\* however the reader switches between a ledger and an older snapshot.
RestingIsTracked == Resting \subseteq tracked

\* What the engine reads comes to agree with the exchange, orders and position, again
\* and again; and a ledger that knows an order is then trusted once more, unless the mode
\* is not HEALTHY or an order rests whose entry is wrong.  An event that was lost or
\* taken for a duplicate hides the difference, and costs the trust, only for a while.
AccountSettles ==
  []<>(/\ Visible = Resting /\ EffectiveStock = stock.amount
       /\ \/ IsTrusted(trust.orders) \/ ~trust.orders.boot \/ ~healthy
          \/ \E c \in Resting : ~ledger[c].open \/ ledger[c].filled # orderAt[c].filled)
=============================================================================
