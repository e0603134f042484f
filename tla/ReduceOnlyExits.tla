--------------------------- MODULE ReduceOnlyExits ---------------------------
(***************************************************************************)
(* The reduce-only side of one symbol, branch LONG: the exits of the lots, *)
(* the budget that keeps their sum within the position, the latch an       *)
(* exchange rejection (-2022) sets, the two repairs of every account sync, *)
(* and force-reduce, which cancels the exits and unloads the position in   *)
(* steps.  live/engine.py, live/reduce_only_budget.py,                     *)
(* grid_v2/exit_repair.py, risk/symbol_unload.py.                          *)
(*                                                                         *)
(* Every lot has quantity one, the exchange's step size, so an exit does   *)
(* too, and an unload step takes no more.  An order is a pair:             *)
(* <<lot, n>> for an exit, <<0, n>> for an unload step; n tells the client *)
(* order ids of one lot apart.  All of them are reduce-only SELLs.  The    *)
(* exchange goes on between any two requests of a sync.                    *)
(***************************************************************************)
EXTENDS Integers, FiniteSets, Sequences, SequencesExt

CONSTANTS
  MaxLots,        \* lots the grid opens in a behaviour
  StepPct,        \* GRINDER_SYMBOL_UNLOAD_STEP_PCT, in per cent
  MinStep,        \* GRINDER_SYMBOL_UNLOAD_MIN_STEP_QTY
  MaxReductions,  \* reductions of the position from outside (manual close, ADL)
  StaleGens,      \* _GRID_V2_PENDING_PLACE_STALE_GENS
  NoOrder

ASSUME ExitAssumption ==
  /\ MaxLots \in Nat /\ {StepPct, MinStep, MaxReductions, StaleGens} \subseteq Nat

Lots == 1..MaxLots

VARIABLES
  held, resting,    \* the exchange: quantity held, open reduce-only orders
  news,             \* user-data events on their way to the engine
  opened, reduced,  \* lots opened and outside reductions so far
  lots,             \* lots whose exit is OPEN in the state machine
  registry,         \* client order id of each lot's exit, or NoOrder
  seen,             \* _last_account_snapshot
  fetched,          \* the REST answer of the sync in progress
  phase, work,      \* how far the sync is, the requests it still has to send
  gate,             \* what the gates keep: reservations, latch, force-reduce
  pending,          \* placements in flight, each with its age in syncs
  unload            \* SymbolUnloadController, this symbol

exchange == <<held, resting>>
exitVars == <<exchange, news, opened, reduced, lots, registry, seen, fetched, phase, work,
              gate, pending, unload>>

AccountView == [held |-> held, resting |-> resting]

\* The staged unloading has not begun.
UnloadInit == unload = [status |-> "INACTIVE", failures |-> 0, hot |-> FALSE]

ExitsInit ==
  /\ held = 0 /\ resting = {} /\ news = <<>> /\ opened = 0 /\ reduced = 0 /\ lots = {}
  /\ registry = [l \in Lots |-> NoOrder]
  /\ seen = AccountView /\ fetched = AccountView /\ phase = "idle" /\ work = <<>>
  /\ gate = [reserved |-> 0, added |-> 0, latched |-> FALSE, force |-> FALSE, cleared |-> FALSE]
  /\ pending = {}
  /\ UnloadInit

-----------------------------------------------------------------------------
\* A client order id of lot l that is nowhere in use.
NewId(l) ==
  LET used == resting \cup seen.resting \cup fetched.resting \cup {registry[k] : k \in Lots}
                \cup {e.order : e \in ToSet(news)} \cup {p[1] : p \in pending}
      free == {n \in 0..Cardinality(used) : <<l, n>> \notin used}
  IN  <<l, CHOOSE n \in free : \A m \in free : n <= m>>

\* The closeable quantity: the snapshot's position and the lots of this batch.
Closeable(g) == seen.held + g.added

OverBudget(g) == Closeable(g) > 0 /\ Cardinality(seen.resting) + g.reserved + 1 > Closeable(g)

SuppressedNever(order) == FALSE

\* Under force-reduce no exit is placed, only the steps of the unload.
Suppressed(order) == gate.force /\ order[1] # 0

\* _process_action of a reduce-only PLACE: force-reduce suppression, the latch, the
\* budget (skipped when nothing is known to be closeable), then the exchange.
Verdict(g, order) ==
  IF Suppressed(order) \/ g.latched \/ OverBudget(g) THEN "BLOCKED"
  ELSE IF Cardinality(resting) + 1 > held THEN "FAILED" ELSE "EXECUTED"

\* What the gates remember of it.  A rejection sets the latch.
Remember(g, order) ==
  IF Verdict(g, order) = "BLOCKED" THEN g
  ELSE [g EXCEPT !.reserved = IF Closeable(g) > 0 THEN @ + 1 ELSE @,
                 !.latched = Verdict(g, order) = "FAILED"]

Placed(g, order) == IF Verdict(g, order) = "EXECUTED" THEN resting \cup {order} ELSE resting

InOrder(S) == SetToSortSeq(S, LAMBDA a, b : a[1] < b[1] \/ (a[1] = b[1] /\ a[2] < b[2]))
ToDo(op, orders) == [i \in DOMAIN orders |-> [op |-> op, order |-> orders[i]]]

-----------------------------------------------------------------------------
\* The exchange.

EntryFills ==
  /\ opened < MaxLots
  /\ opened' = opened + 1 /\ held' = held + 1
  /\ news' = Append(news, [kind |-> "entry", order |-> <<opened + 1, 0>>])
  /\ UNCHANGED <<resting, reduced, lots, registry, seen, fetched, phase, work, gate, pending, unload>>

\* A reduce-only order expires when there is nothing left to reduce.
OrderFills(o) ==
  /\ o \in resting /\ resting' = resting \ {o}
  /\ \/ held > 0 /\ held' = held - 1 /\ news' = Append(news, [kind |-> "filled", order |-> o])
     \/ held = 0 /\ UNCHANGED held /\ news' = Append(news, [kind |-> "gone", order |-> o])
  /\ UNCHANGED <<opened, reduced, lots, registry, seen, fetched, phase, work, gate, pending, unload>>

ReducedOutside ==
  /\ reduced < MaxReductions /\ held > 0
  /\ reduced' = reduced + 1 /\ held' = held - 1
  /\ UNCHANGED <<resting, news, opened, lots, registry, seen, fetched, phase, work, gate, pending, unload>>

-----------------------------------------------------------------------------
\* User-data events, between ticks (process_user_data_event).

\* An entry opens a lot, the lot counts as closeable at once, and its exit is sent;
\* a refused exit is forgotten (_grid_v2_clean_failed_place).
HearEntry(l) ==
  LET batch == [gate EXCEPT !.added = @ + 1]
      cid == NewId(l)
      sent == Verdict(batch, cid) = "EXECUTED"
  IN  /\ lots' = lots \cup {l}
      /\ resting' = Placed(batch, cid) /\ gate' = Remember(batch, cid)
      /\ registry' = IF sent THEN [registry EXCEPT ![l] = cid] ELSE registry
      /\ pending' = IF sent THEN pending \cup {<<cid, 0>>} ELSE pending

\* A filled exit closes its lot; a filled or cancelled one leaves the registry.
HearOrder(e) ==
  /\ lots' = {l \in lots : e.kind = "filled" => registry[l] # e.order}
  /\ registry' = [l \in Lots |-> IF registry[l] = e.order THEN NoOrder ELSE registry[l]]
  /\ pending' = {p \in pending : e.kind = "filled" => p[1] # e.order}
  /\ UNCHANGED <<resting, gate>>

Hear ==
  /\ phase = "idle" /\ news # <<>>
  /\ IF Head(news).kind = "entry" THEN HearEntry(Head(news).order[1]) ELSE HearOrder(Head(news))
  /\ news' = Tail(news)
  /\ UNCHANGED <<held, opened, reduced, seen, fetched, phase, work, unload>>

-----------------------------------------------------------------------------
\* A tick clears the batch; one that is due for a sync fetches the account.

FreshBatch(g) == [g EXCEPT !.reserved = 0, !.added = 0]

StartTick ==
  /\ phase = "idle" /\ gate' = FreshBatch(gate)
  /\ UNCHANGED <<exchange, news, opened, reduced, lots, registry, seen, fetched, phase, work, pending, unload>>

\* _count_grid_exits: the registered client order ids, not the machine's exit ids.
GridExits == {o \in fetched.resting : \E l \in Lots : registry[l] = o}

\* max(step_pct of the position, min_step_qty), at most all of it, rounded down to
\* the exchange's step size; a step of nothing is skipped.
StepQty(p) ==
  LET pct == (p * StepPct) \div 100
      want == IF pct < MinStep THEN MinStep ELSE pct
  IN  IF want > p THEN p ELSE want

Fetch ==
  /\ phase = "idle" /\ gate' = FreshBatch(gate)
  /\ fetched' = AccountView /\ phase' = "risk"
  /\ UNCHANGED <<exchange, news, opened, reduced, lots, registry, seen, work, pending, unload>>

\* _evaluate_symbol_risk under force-reduce: cancel the grid's exits until a
\* snapshot shows none, activate the unload, and take a step of it unless the last
\* one is too recent.  The step's budget is still the previous snapshot's.
EvaluateRisk ==
  /\ phase = "risk" /\ work = <<>>
  /\ LET waiting == fetched.held > 0 /\ ~gate.cleared /\ GridExits # {}
         ready == gate.force /\ fetched.held > 0 /\ ~waiting
         status == IF ready /\ unload.status = "INACTIVE" THEN "ACTIVE" ELSE unload.status
         steps == gate.force /\ status = "ACTIVE" /\ fetched.held > 0 /\ ~unload.hot
     IN  /\ gate' = [gate EXCEPT !.cleared = @ \/ ready]
         /\ work' = IF gate.force /\ waiting THEN ToDo("cancel", InOrder(GridExits))
                    ELSE IF steps /\ StepQty(fetched.held) > 0 THEN ToDo("unload", <<NewId(0)>>)
                    ELSE <<>>
         /\ unload' = [unload EXCEPT
              !.status = IF gate.force /\ status = "ACTIVE" /\ fetched.held = 0 THEN "COMPLETE" ELSE status,
              !.hot = @ \/ steps]
  /\ phase' = "account"
  /\ UNCHANGED <<exchange, news, opened, reduced, lots, registry, seen, fetched, pending>>

\* The snapshot is replaced, placements that are visible or two syncs old are no
\* longer in flight, and what exceeds the position is cancelled.
Surplus ==
  SubSeq(InOrder(fetched.resting), 1, Cardinality(fetched.resting) - fetched.held)

ReplaceSnapshot ==
  /\ phase = "account" /\ work = <<>>
  /\ seen' = fetched
  /\ pending' = {<<p[1], p[2] + 1>> : p \in {q \in pending : q[1] \notin fetched.resting /\ q[2] + 1 < StaleGens}}
  /\ work' = ToDo("trim", Surplus) /\ phase' = "trim"
  /\ UNCHANGED <<exchange, news, opened, reduced, lots, registry, fetched, gate, unload>>

\* compute_desired_exits: the open exits that fit into the position, those on the
\* exchange first.
Desired ==
  LET visible == {l \in lots : registry[l] \in fetched.resting}
      ordered == SetToSortSeq(visible, <) \o SetToSortSeq(lots \ visible, <)
  IN  SubSeq(ordered, 1, IF Len(ordered) < fetched.held THEN Len(ordered) ELSE fetched.held)

\* _side_converged: an empty list is not taken for agreement.
SideConverged ==
  Desired # <<>> /\ \A i \in DOMAIN Desired : registry[Desired[i]] \in fetched.resting

\* compute_exit_topology_repair: exits nobody wants, and wanted ones that are missing.
Extra == {o \in fetched.resting : o[1] # 0 /\ \A l \in ToSet(Desired) : registry[l] # o}
Missing == {l \in ToSet(Desired) : registry[l] \notin fetched.resting}

\* A missing exit that is registered is sent again under its client order id, unless
\* its placement is still in flight.
Resent ==
  LET idle == {l \in Missing : registry[l] # NoOrder /\ \A p \in pending : p[1] # registry[l]}
  IN  [i \in 1..Cardinality(idle) |-> registry[SetToSortSeq(idle, <)[i]]]

\* One that is not gets a new client order id, which stays registered even when the
\* placement is refused.
LostDeferred == <<>>
Lost == SetToSortSeq({l \in Missing : registry[l] = NoOrder}, <)
Reregistered == [i \in DOMAIN Lost |-> NewId(Lost[i])]

\* _exit_topology_repair_on_sync: the latch opens when nothing is left to repair;
\* cancels go first, then what is registered, then what is not.
TopologyRepair ==
  /\ phase = "trim" /\ work = <<>>
  /\ gate' = [gate EXCEPT !.latched = @ /\ ~(Surplus = <<>> /\ SideConverged)]
  /\ registry' = [l \in Lots |-> IF l \in ToSet(Lost) THEN NewId(l) ELSE registry[l]]
  /\ work' = ToDo("cancel", InOrder(Extra)) \o ToDo("place", Resent) \o ToDo("place", Reregistered)
  /\ phase' = "topology"
  /\ UNCHANGED <<exchange, news, opened, reduced, lots, seen, fetched, pending, unload>>

EndSync ==
  /\ phase = "topology" /\ work = <<>> /\ phase' = "idle"
  /\ UNCHANGED <<exchange, news, opened, reduced, lots, registry, seen, fetched, work, gate, pending, unload>>

-----------------------------------------------------------------------------
\* The requests of a sync, one at a time.

\* A cancel fails with -2011 when the order is gone; a failed trim sets the latch.
SendCancel ==
  /\ work # <<>> /\ Head(work).op \in {"cancel", "trim"}
  /\ LET o == Head(work).order
     IN  /\ resting' = resting \ {o}
         /\ news' = IF o \in resting THEN Append(news, [kind |-> "gone", order |-> o]) ELSE news
         /\ gate' = [gate EXCEPT !.latched = @ \/ (Head(work).op = "trim" /\ o \notin resting)]
  /\ work' = Tail(work)
  /\ UNCHANGED <<held, opened, reduced, lots, registry, seen, fetched, phase, pending, unload>>

\* SymbolUnloadController: three failures in a row pause it; a blocked step is neither.
StepOutcome(u, verdict) ==
  CASE verdict = "EXECUTED" -> [u EXCEPT !.failures = 0]
    [] verdict = "FAILED" -> [u EXCEPT !.failures = @ + 1,
                                       !.status = IF u.failures + 1 >= 3 THEN "PAUSED" ELSE @]
    [] OTHER -> u

SendPlace ==
  /\ work # <<>> /\ Head(work).op \in {"place", "unload"}
  /\ LET o == Head(work).order
     IN  /\ resting' = Placed(gate, o) /\ gate' = Remember(gate, o)
         /\ unload' = IF Head(work).op = "unload" THEN StepOutcome(unload, Verdict(gate, o)) ELSE unload
  /\ work' = Tail(work)
  /\ UNCHANGED <<held, news, opened, reduced, lots, registry, seen, fetched, phase, pending>>

\* request_force_reduce, from the portfolio supervisor
RequestForceReduce ==
  /\ phase = "idle" /\ ~gate.force /\ gate' = [gate EXCEPT !.force = TRUE]
  /\ UNCHANGED <<exchange, news, opened, reduced, lots, registry, seen, fetched, phase, work, pending, unload>>

StepCooldownEnds ==
  /\ unload.hot /\ unload' = [unload EXCEPT !.hot = FALSE]
  /\ UNCHANGED <<exchange, news, opened, reduced, lots, registry, seen, fetched, phase, work, gate, pending>>

SyncStep == EvaluateRisk \/ ReplaceSnapshot \/ TopologyRepair \/ EndSync \/ SendCancel \/ SendPlace

ExitsNext ==
  \/ EntryFills \/ ReducedOutside \/ Hear \/ StartTick \/ Fetch \/ SyncStep
  \/ RequestForceReduce \/ StepCooldownEnds
  \/ \E o \in resting : OrderFills(o)

-----------------------------------------------------------------------------
\* A position is not left without any exit: after an outside reduction the two repairs
\* of one sync may cancel more than the surplus between them, the one the lowest exits
\* and the other those it does not find among the first that fit, and whatever fills,
\* expires or is refused meanwhile, the next syncs bring an exit back.
ProtectionReturns ==
  (held > 0 /\ lots # {} /\ resting = {})
    ~> (resting # {} \/ held = 0 \/ lots = {} \/ gate.latched \/ gate.force)

\* Force-reduce clears the exits away and brings the position down, once, to a rest
\* so small that a step of it rounds to nothing, unless a rejection latched the side
\* or three failures paused the unload.
ForceReduceUnloads ==
  (gate.force /\ held > 0)
    ~> (StepQty(held) = 0 \/ gate.latched \/ unload.status \in {"PAUSED", "COMPLETE"})

\* The same down to nothing.  symbol_unload.py:39 has "0 = derive from constraints" for
\* the minimum step, which would make every step tradable; nothing derives it, and
\* with the minimum at its default the rest stays.
ForceReduceFlattens ==
  (gate.force /\ held > 0)
    ~> (held = 0 \/ gate.latched \/ unload.status \in {"PAUSED", "COMPLETE"})

\* docs/DECISIONS.md (ADR-104): a rejection blocks further exits of the direction
\* "until sync repairs topology"; so while a position is left, the repair must come.
RejectedSideReopens ==
  (gate.latched /\ held > 0 /\ ~gate.force) ~> (~gate.latched \/ held = 0 \/ gate.force)
=============================================================================
