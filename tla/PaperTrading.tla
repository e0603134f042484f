---------------------------- MODULE PaperTrading ----------------------------
(***************************************************************************)
(* The paper engine: a snapshot goes through the kill switch, the filter,  *)
(* the controller, the gates and the drawdown guard, the plan is turned    *)
(* into orders, the orders into fills and the fills into profit and loss.  *)
(* The grid's levels are equally spaced, sizes are whole, a spread, a      *)
(* toxic move and a thin book are inputs, and no constraint rounds a size; *)
(* the policies emit no plan but those of Plans.  The intents of the cycle *)
(* engine are only reported: no code places them.                          *)
(***************************************************************************)
EXTENDS Integers, FiniteSets, FiniteSetsExt, SequencesExt

CONSTANTS
  Markets,        \* the symbols of the fixture
  Mids,           \* the mid prices a snapshot may have
  Spacing,        \* the distance of two levels
  Sizes,          \* size_schedule: the quantity of each level
  Capital,        \* initial_capital
  DropPct,        \* max_drawdown_pct
  LimitPct,       \* portfolio_dd_limit of DrawdownGuardV1, in per cent
  LossBudget,     \* the drawdown guard's budget of a symbol
  MaxPerMinute,   \* max_orders_per_minute
  MarketCap,      \* max_notional_per_symbol
  TotalCap,       \* max_notional_total
  MaxSnapshots    \* bound: snapshots, by the delay of a fill

ASSUME PaperAssumption ==
  /\ Markets # {} /\ IsFiniteSet(Mids) /\ Mids \subseteq Nat \ {0}
  /\ Sizes \in Seq(Nat \ {0}) /\ Sizes # <<>>
  /\ {Spacing, Capital, MaxPerMinute} \subseteq Nat \ {0}
  /\ {DropPct, LimitPct, LossBudget, MarketCap, TotalCap} \subseteq Nat
  /\ MaxSnapshots \in [0 .. 1 -> Nat]
  /\ \A m \in Mids : Spacing * Len(Sizes) < m

GridLevels == Len(Sizes)

VARIABLES
  setting,   \* how fills are simulated: the mode and fill_after_ticks
  rests,     \* per symbol its OPEN orders
  ticks,     \* per symbol the plans evaluated
  book,      \* the ledger: positions and total realized profit
  marks,     \* _last_prices; 0 before the first
  throttle,  \* the rate limiter: orders of the window, and of the cooldown
  exposure,  \* the risk gate's notional per symbol
  halts,     \* high-water mark, kill switch, latch of DrawdownGuardV1
  cash,      \* history: what the fills of a symbol paid and received
  seen       \* bound: snapshots so far

paperVars == <<setting, rests, ticks, book, marks, throttle, exposure, halts, cash, seen>>

Total(f) == MapThenSumSet(LAMBDA s : f[s], Markets)

\* Elements of S, at most one of each rank, by rank.
ByRank(S, rank) == [i \in 1 .. Cardinality(S) |->
  CHOOSE x \in S : Cardinality({y \in S : rank[y] < rank[x]}) = i - 1]

(***************************************************************************)
(* Plans and orders.                                                       *)
(***************************************************************************)
\* The policy's grid, one whose thin side the book's gate left out, and the pause plan.
Plans == [up : {0, GridLevels}, down : {0, GridLevels}, reset : {"NONE"}]
           \cup [up : {0}, down : {0}, reset : {"HARD"}]

Levels(plan, mid) ==
  {[side |-> "SELL", level |-> i, price |-> mid + i * Spacing, qty |-> Sizes[i]] : i \in 1 .. plan.up} \cup
  {[side |-> "BUY", level |-> i, price |-> mid - i * Spacing, qty |-> Sizes[i]] : i \in 1 .. plan.down}

Matches(level, order) == level.side = order.side /\ level.level = order.level

Cancelled(plan, levels, orders) ==
  IF plan.reset = "HARD" THEN orders
  ELSE {o \in orders : ~ \E l \in levels : Matches(l, o)}

Placed(plan, levels, orders) ==
  IF plan.reset = "HARD" THEN levels
  ELSE {l \in levels : ~ \E o \in orders : Matches(l, o)}

\* Orders after the actions: a side whose book is thin is skipped.
Applied(orders, cancelled, placed, market, tick) ==
  (orders \ cancelled) \cup
  {[side |-> l.side, level |-> l.level, price |-> l.price, qty |-> l.qty, tick |-> tick]
     : l \in {p \in placed : <<p.side, market>> \notin {<<"BUY", "thinBuy">>, <<"SELL", "thinSell">>}}}

(***************************************************************************)
(* Fills and the ledger.                                                   *)
(***************************************************************************)
Crosses(o, mid) == IF o.side = "BUY" THEN mid <= o.price ELSE mid >= o.price

\* Without a delay an order fills when it is placed, skipped or not.
FillsAtOnce(placed, mid) ==
  LET F == {o \in placed : setting.fills = "crossing" => Crosses(o, mid)}
      rank == [o \in F |-> o.level + IF o.side = "SELL" THEN 0 ELSE GridLevels]
  IN ByRank(F, rank)

\* With one it rests that many plans and fills when the price reaches it, in the order
\* of the ids: by time, level and side.
FillsLater(orders, mid, tick) ==
  LET F == {o \in orders : tick - o.tick >= setting.after /\ Crosses(o, mid)}
      rank == [o \in F |-> 2 * (o.tick * (GridLevels + 1) + o.level)
                             + IF o.side = "SELL" THEN 1 ELSE 0]
  IN ByRank(F, rank)

Magnitude(x) == IF x < 0 THEN -x ELSE x

Signed(fill) == IF fill.side = "BUY" THEN fill.qty ELSE - fill.qty

Flips(old, new) == old * new < 0

\* A flipped position keeps the average price of the side it left.
AppliedFillKeeping(p, q, price) ==
  [qty |-> p.qty + q,
   avg |-> IF p.qty * q > 0 THEN (p.avg * Magnitude(p.qty) + price * Magnitude(q)) \div Magnitude(p.qty + q)
           ELSE IF p.qty = 0 THEN price ELSE IF p.qty + q = 0 THEN 0 ELSE p.avg,
   realized |-> p.realized + IF p.qty * q >= 0 THEN 0
                ELSE (price - p.avg) * Min({Magnitude(p.qty), Magnitude(q)}) * (IF p.qty > 0 THEN 1 ELSE -1)]

AppliedFill(p, q, price) ==
  LET new == p.qty + q
      closed == Min({Magnitude(p.qty), Magnitude(q)})
      gain == (price - p.avg) * closed * (IF p.qty > 0 THEN 1 ELSE -1)
  IN CASE p.qty = 0 -> [p EXCEPT !.qty = new, !.avg = price]
       [] p.qty * q > 0 -> [p EXCEPT !.qty = new,
                              !.avg = (p.avg * Magnitude(p.qty) + price * Magnitude(q)) \div Magnitude(new)]
       [] OTHER -> [qty |-> new, realized |-> p.realized + gain,
                    avg |-> IF new = 0 THEN 0 ELSE IF Flips(p.qty, new) THEN price ELSE p.avg]

Booked(b, s, q, price) ==
  LET p == AppliedFill(b.pos[s], q, price)
  IN [pos |-> [b.pos EXCEPT ![s] = p], total |-> b.total + p.realized - b.pos[s].realized]

BookedAll(b, s, fills) ==
  FoldLeft(LAMBDA acc, f : Booked(acc, s, Signed(f), f.price), b, fills)

Unrealized(b, prices, s) == (prices[s] - b.pos[s].avg) * b.pos[s].qty

Equity(b, prices) ==
  Capital + b.total + MapThenSumSet(LAMBDA s : Unrealized(b, prices, s), {s \in Markets : prices[s] # 0})

(***************************************************************************)
(* Gates.                                                                  *)
(***************************************************************************)
\* The limiter after the time that passed since the last snapshot.
Waited(t, elapsed) ==
  CASE elapsed = "minute" -> [count |-> 0, cooling |-> FALSE]
    [] elapsed = "cooldown" -> [t EXCEPT !.cooling = FALSE]
    [] OTHER -> t

\* One order's notional stands for the whole plan.
GatesOpen(s, t, mid, market) ==
  /\ market # "toxic"
  /\ ~ t.cooling /\ t.count < MaxPerMinute
  /\ exposure[s] + mid * Sizes[1] <= MarketCap
  /\ Total(exposure) + mid * Sizes[1] <= TotalCap

Latches(prices) ==
  \/ (Capital - Equity(book, prices)) * 100 >= LimitPct * Capital
  \/ \E s \in Markets : LET lost == - book.pos[s].realized - Unrealized(book, prices, s)
                        IN prices[s] # 0 /\ lost > 0 /\ lost >= LossBudget

(***************************************************************************)
(* Actions.                                                                *)
(***************************************************************************)
\* How the engine is configured to fill: at once, or as the price crosses, a tick later or not.
Settings == {[fills |-> "instant", after |-> 0], [fills |-> "crossing", after |-> 0],
             [fills |-> "crossing", after |-> 1]}

PaperInit ==
  /\ setting \in Settings
  /\ rests = [s \in Markets |-> {}] /\ ticks = [s \in Markets |-> 0]
  /\ book = [pos |-> [s \in Markets |-> [qty |-> 0, avg |-> 0, realized |-> 0]], total |-> 0]
  /\ marks = [s \in Markets |-> 0]
  /\ throttle = [count |-> 0, cooling |-> FALSE]
  /\ exposure = [s \in Markets |-> 0]
  /\ halts = [high |-> Capital, killed |-> FALSE, latched |-> FALSE]
  /\ cash = [s \in Markets |-> 0]
  /\ seen = 0

\* The plan is carried out: orders, what the gates remember, fills, the ledger, and the
\* drawdown check, which may trip the kill switch.
Execute(s, mid, plan, latched, market, t) ==
  \E levels \in {Levels(plan, mid)} :
  \E placed \in {Placed(plan, levels, rests[s])} :
  \E open \in {Applied(rests[s], Cancelled(plan, levels, rests[s]), placed, market, ticks[s] + 1)} :
  \E fills \in {IF setting.after = 0 THEN FillsAtOnce(placed, mid)
                ELSE FillsLater(open, mid, ticks[s] + 1)} :
    /\ ticks' = [ticks EXCEPT ![s] = @ + 1]
    /\ rests' = [rests EXCEPT ![s] = IF setting.after = 0 THEN open ELSE open \ ToSet(fills)]
    /\ throttle' = [count |-> t.count + Cardinality(placed), cooling |-> t.cooling \/ placed # {}]
    /\ exposure' = [exposure EXCEPT ![s] = @ + MapThenSumSet(LAMBDA l : l.price * l.qty, placed)]
    /\ book' = BookedAll(book, s, fills)
    /\ cash' = [cash EXCEPT ![s] = @ - FoldLeft(LAMBDA c, f : c + Signed(f) * f.price, 0, fills)]
    /\ \E high \in {Max({halts.high, Equity(book', marks')})} :
         halts' = [high |-> high, latched |-> latched,
                   killed |-> (high - Equity(book', marks')) * 100 >= DropPct * high]

PaperSnapshot(s, mid, market, elapsed) ==
  \E prices \in {[marks EXCEPT ![s] = mid]} : \E t \in {Waited(throttle, elapsed)} :
    LET stopped == halts.killed \/ market = "wide" \/ market = "paused"
                     \/ ~ GatesOpen(s, t, mid, market)
        latched == halts.latched \/ Latches(prices)
    IN /\ seen < MaxSnapshots[setting.after]
       /\ seen' = seen + 1
       /\ marks' = prices
       /\ UNCHANGED setting
       /\ \/ /\ stopped
             /\ throttle' = t
             /\ UNCHANGED <<rests, ticks, book, exposure, halts, cash>>
          \/ /\ ~ stopped /\ latched
             /\ \E plan \in Plans : plan.up + plan.down > 0
             /\ throttle' = t /\ halts' = [halts EXCEPT !.latched = TRUE]
             /\ UNCHANGED <<rests, ticks, book, exposure, cash>>
          \/ /\ ~ stopped
             /\ \E plan \in Plans : /\ ~ (latched /\ plan.up + plan.down > 0)
                                   /\ Execute(s, mid, plan, latched, market, t)

\* flatten_position: one fill at the given price, whatever is halted; orders stay.
Flatten(s, mid) ==
  LET q == - book.pos[s].qty
  IN /\ q # 0
     /\ book' = Booked(book, s, q, mid)
     /\ cash' = [cash EXCEPT ![s] = @ - q * mid]
     /\ marks' = [marks EXCEPT ![s] = mid]
     /\ UNCHANGED <<setting, rests, ticks, throttle, exposure, halts, seen>>

\* reset_dd_guard_v1, at a new session.
ResetGuard ==
  /\ halts.latched
  /\ halts' = [halts EXCEPT !.latched = FALSE]
  /\ UNCHANGED <<setting, rests, ticks, book, marks, throttle, exposure, cash, seen>>

PaperNext ==
  \/ \E s \in Markets, mid \in Mids,
        market \in {"calm", "wide", "paused", "toxic", "thinBuy", "thinSell"},
        elapsed \in {"at once", "cooldown", "minute"} :
       PaperSnapshot(s, mid, market, elapsed)
  \/ \E s \in Markets, mid \in Mids : Flatten(s, mid)
  \/ ResetGuard

PaperSpec == PaperInit /\ [][PaperNext]_paperVars

\* A position opened, added to, reduced, flipped or closed by fills in any order: what is
\* realized plus the value at any price is what the fills paid and received, and the total
\* is the sum over the symbols, so the equity the kill switch watches is the real one.  The
\* average price is rounded: the two may differ, by less than one step of the grid.
PaperBooksBalance ==
  /\ \A s \in Markets :
       Magnitude(book.pos[s].realized - book.pos[s].avg * book.pos[s].qty - cash[s]) < Spacing
  /\ book.total = Total([s \in Markets |-> book.pos[s].realized])
=============================================================================
