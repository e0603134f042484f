---------------------------- MODULE SyncReconciler ----------------------------
(***************************************************************************)
(* The sync-driven reconciler (grid_v2/sync_reconciler.py) and what        *)
(* live/engine.py does with it: every account sync compares the open       *)
(* orders with what the machine wants under the caps, stages a bounded     *)
(* number of cancels and placements, and the next tick sends those that    *)
(* are still right.                                                        *)
(*                                                                         *)
(* The machine is reduced to its branch, its reference price and its lots, *)
(* and what it asks for itself is lost, so that the reconciler has         *)
(* everything to do.  A fill is booked the moment it happens; how it is    *)
(* detected is the subject of GridV2Live and AccountTruth.  Only an entry  *)
(* that the exchange never got is detected here, because its client order  *)
(* id stands in the reconciler's way until it is.  Prices are ticks.       *)
(***************************************************************************)
EXTENDS Integers, Sequences, FiniteSets, SequencesExt, FiniteSetsExt

CONSTANTS
  Step, Slack,     \* grid step; what step // 2 gives (0 when the step is below 2)
  Levels,          \* entry_levels_per_side
  MaxLots,         \* max_inventory_levels
  RiskLots,        \* lots the risk caps allow, open ones included
  MaxActions,      \* max_actions_per_sync
  CancelGens, PlaceGens,  \* _GRID_V2_PENDING_CANCEL_STALE_GENS, _GRID_V2_PENDING_PLACE_STALE_GENS
  Shifts,          \* by how much a recenter moves the reference price
  OrderIds,        \* client order ids in use at a time
  MaxTroubles       \* recenters, entry fills and requests that fail

Tolerance == 1

ASSUME ReconcilerAssumption ==
  /\ {Step, Slack, Levels, MaxLots, RiskLots, MaxActions, CancelGens, PlaceGens} \subseteq Nat
  /\ MaxTroubles \in Nat /\ OrderIds \subseteq Nat /\ IsFiniteSet(OrderIds) /\ Shifts \subseteq Int
  /\ Step > 2 * Tolerance /\ Slack <= Step
  /\ PlaceGens > 1    \* a placement outlives an answer that is repeated; the code has 4

VARIABLES
  machine,                        \* branch, reference price, lots, and the exits it wants
  book,                           \* the exchange: orders, entries with their slot
  shown,                          \* the last answer of the exchange
  repeated,                       \* shown was served from its cache; bound: once
  registered,                     \* the adapter's registry: id -> slot
  pendingPlaces, pendingCancels,  \* ids on their way, with their age in syncs
  refused, sentThisSync,          \* _cancel_failed_ids, _cancel_dispatched_pending_sync
  staged,                         \* _sync_reconciler_pending_actions
  fillAhead,                      \* a fill is younger than shown: no, yes, or until an order is placed
  suppressed,                     \* _burst_suppression_fired
  troubles

reconcilerVars == <<machine, book, shown, repeated, registered, pendingPlaces, pendingCancels, refused, sentThisSync,
                    staged, fillAhead, suppressed, troubles>>

Buy == 1
Sell == 2
Flat == 0

\* A slot is <<side, price>>; every other order on the book is an exit.
Exit == <<0, 0>>
NothingStaged == [cancels |-> {}, places |-> << >>, mode |-> Flat, filled |-> FALSE]
NoIds == [i \in {} |-> 0]

\* The members of S in the order Before.
Ranked(S, Before(_, _)) == [i \in 1..Cardinality(S) |-> CHOOSE x \in S : Cardinality({y \in S : Before(y, x)}) = i - 1]

Without(f, ids) == [i \in DOMAIN f \ ids |-> f[i]]
Entries(b) == {i \in DOMAIN b : b[i] # Exit}
Exits(b) == DOMAIN b \ Entries(b)
Distance(p, q) == IF p < q THEN q - p ELSE p - q

FreeIds == OrderIds \ UNION {DOMAIN book, DOMAIN shown, DOMAIN registered, DOMAIN pendingCancels, machine.exits}
NewIds(n) == SubSeq(Ranked(FreeIds, <), 1, n)

\* Bound: what needs new ids waits until there are some.
HasIds(n) == n <= Cardinality(FreeIds)

-----------------------------------------------------------------------------
\* What the machine wants, and what of it the caps allow.

Ladder(side, ref) == {<<side, IF side = Buy THEN ref - Step * i ELSE ref + Step * i>> : i \in 1..Levels}

\* The n slots closest to the reference price.
Closer(k, l, ref) ==
  \/ Distance(k[2], ref) < Distance(l[2], ref)
  \/ Distance(k[2], ref) = Distance(l[2], ref) /\ k[1] < l[1]
Nearest(S, n, ref) == {k \in S : Cardinality({l \in S : Closer(l, k, ref)}) < n}

Theoretical(m) ==
  IF m.mode = Flat THEN Ladder(Buy, m.ref) \cup Ladder(Sell, m.ref)
  ELSE IF m.lots >= MaxLots THEN {}
  ELSE Nearest(Ladder(m.mode, m.ref), MaxLots - m.lots, m.ref)

\* A hole between two resting neighbours is wanted too.  Exits have no price here: the
\* code leaves out a hole where an exit rests.
Gaps(slots) ==
  LET Beyond(k, l) == IF k[1] = Buy THEN l[2] < k[2] ELSE l[2] > k[2]
      Next(k) == {l \in slots : l[1] = k[1] /\ Beyond(k, l)}
  IN  {<<k[1], IF k[1] = Buy THEN k[2] - Step ELSE k[2] + Step>> :
         k \in {k \in slots : Next(k) # {} /\ \A l \in Next(k) : Distance(k[2], l[2]) > Step + Slack}}

RiskCapacity(m) == Max({0, RiskLots - m.lots})

Effective(m, slots) == Nearest(Theoretical(m) \cup Gaps(slots), RiskCapacity(m), m.ref)

-----------------------------------------------------------------------------
\* match_entries_with_tolerance.  Step > 2 * Tolerance: a slot is near one expected slot at most.

Near(k, l) == k[1] = l[1] /\ Distance(k[2], l[2]) <= Tolerance

\* The resting slot that stands for an expected one.
Closest(k, slots) == CHOOSE l \in slots : Near(k, l) /\ \A o \in slots : Near(k, o) => Distance(k[2], l[2]) <= Distance(k[2], o[2])

Compare(wanted, slots) ==
  LET matched == {k \in wanted : \E l \in slots : Near(k, l)}
  IN  [missing |-> wanted \ matched, extra |-> slots \ {Closest(k, slots) : k \in matched}]

InOrder(S) == Ranked(S, LAMBDA k, l : k[1] < l[1] \/ (k[1] = l[1] /\ k[2] < l[2]))

\* An extra order is paired with the nearest missing slot of its side: it is off the grid.
Mispriced(diff) ==
  LET Candidates(x, pairs) == {k \in diff.missing : k[1] = x[1] /\ ~\E p \in pairs : p[2] = k}
      Pick(x, S) == CHOOSE k \in S : \A l \in S : Distance(x[2], k[2]) <= Distance(x[2], l[2])
      Pair(pairs, x) == IF Candidates(x, pairs) = {} THEN pairs
                        ELSE pairs \cup {<<x, Pick(x, Candidates(x, pairs))>>}
  IN  FoldLeft(Pair, {}, InOrder(diff.extra))

-----------------------------------------------------------------------------
\* reconcile_grid_state: exits first, then the cleanup of entries, then their restoration.

\* The generation is counted twice here: the sync after the request already sees 2.
\* Cancels are also given up after 15 s, which a slow sync may find over.
Fresh(ids, gens) == {i \in DOMAIN ids : ids[i] + 1 < gens}
SlotsOf(ids) == {registered[i] : i \in ids \cap DOMAIN registered}

\* A dictionary from slots to orders: of two orders in one slot it holds one.
OrderAt(b, k) == CHOOSE i \in Entries(b) : b[i] = k

MayPlace(k) == k \notin {registered[i] : i \in DOMAIN registered}

Take(n, seq) == SubSeq(seq, 1, Min({n, Len(seq)}))

\* Orders in the order of their slots.
OrdersAt(b, slots) == [j \in 1..Cardinality(slots) |-> OrderAt(b, InOrder(slots)[j])]

Cancels(b, diff, pairs, strayExits, placing) ==
  LET offGrid == {p[1] : p \in pairs}
      replaced == {x \in diff.extra : \E p \in pairs : p[1] = x /\ p[2] \notin SlotsOf(placing)}
  IN  Take(MaxActions, Ranked(strayExits, <) \o OrdersAt(b, diff.extra \ offGrid) \o OrdersAt(b, replaced))

Places(diff, pairs, placing, room) ==
  LET paired == {p[2] : p \in pairs}
      open == {k \in diff.missing \ SlotsOf(placing) : MayPlace(k)}
  IN  Take(room, InOrder(open \ paired) \o InOrder(open \cap paired))

-----------------------------------------------------------------------------
\* _tick_account_sync, as far as it concerns the reconciler.

\* _grid_v2_materialize_reconciler_actions: every placement gets an id and is registered.
Materialized(slots) == LET ids == NewIds(Len(slots)) IN [j \in 1..Len(slots) |-> <<ids[j], slots[j]>>]
RegisteringNone(places) == registered
Registering(places) ==
  [i \in DOMAIN registered \cup {places[j][1] : j \in DOMAIN places} |->
     IF i \in DOMAIN registered THEN registered[i] ELSE places[CHOOSE j \in DOMAIN places : places[j][1] = i][2]]

\* One cycle after a fill whose trace the answer lacks stages no placement.
SuppressesWhileBehind == fillAhead' # "no"
Suppresses == fillAhead' # "no" /\ ~suppressed

Stage(cancels, places) ==
  /\ staged' = [cancels |-> cancels, places |-> places, mode |-> machine.mode, filled |-> FALSE]
  /\ registered' = Registering(places)
  /\ suppressed' = (Suppresses \/ (suppressed /\ fillAhead' # "no"))

\* An answer that shows what is wanted changes nothing.
NothingToDo(cancels, places) == cancels = << >> /\ places = << >>

ReconcileGrid(b) ==
  LET placing == Fresh(pendingPlaces', PlaceGens)
      slots == {b[i] : i \in Entries(b)}
  IN  \E cancelling \in {Fresh(pendingCancels', CancelGens), {}} :
      \E diff \in {Compare(Effective(machine, slots), slots \ SlotsOf(cancelling))} :
      \E pairs \in {Mispriced(diff)} :
      \E cancels \in {Cancels(b, diff, pairs, (Exits(b) \ cancelling) \ machine.exits, placing)} :
      \E places \in {Places(diff, pairs, placing, MaxActions - Len(cancels))} :
        IF NothingToDo(cancels, places) THEN UNCHANGED <<staged, registered, suppressed>>
        ELSE \E due \in {IF Suppresses THEN << >> ELSE places} :
               HasIds(Len(due)) /\ Stage(ToSet(cancels), Materialized(due))

\* Entries older than the time to live go, unless their slot is wanted; one that is
\* cancelled here is in flight for the comparison that follows.
Retired(b, aged, cancelling) ==
  IF aged = {} THEN {}
  ELSE UNION {{i \in aged : b[i] \notin kept /\ i \notin DOMAIN cancelling} :
                kept \in {Effective(machine, {b[i] : i \in Entries(b)})}}

ReconcileSync(answer, aged, behind) ==
  /\ staged = NothingStaged
  /\ shown' = answer /\ fillAhead' = behind
  /\ refused' = refused \cap DOMAIN answer /\ sentThisSync' = {}
  /\ pendingPlaces' = [i \in {i \in DOMAIN pendingPlaces \ DOMAIN answer : pendingPlaces[i] + 1 < PlaceGens} |-> pendingPlaces[i] + 1]
  /\ \E older \in {[i \in DOMAIN pendingCancels |-> Min({pendingCancels[i] + 1, CancelGens})]} :
     \E retired \in {Retired(answer, aged, older)} :
       /\ book' = Without(book, retired)
       /\ pendingCancels' = [i \in DOMAIN older \cup retired |-> IF i \in retired THEN 0 ELSE older[i]]
  /\ ReconcileGrid(answer)
  /\ UNCHANGED <<machine, troubles>>

\* The answer's time is that of the newest order or position in it: when everything is
\* closed it lags behind the last fill until there is a new order.
ReconcileAnswer(aged) ==
  repeated' = FALSE /\ ReconcileSync(book, aged, IF fillAhead = "until placed" THEN fillAhead ELSE "no")
ReconcileCached == shown # book /\ ~repeated /\ repeated' = TRUE /\ ReconcileSync(shown, {}, fillAhead)

-----------------------------------------------------------------------------
\* process_snapshot: cancels that show are acknowledged, and what was staged is sent.

Acknowledged == {i \in DOMAIN pendingCancels : i \notin DOMAIN shown}

\* Registered, on no answer and no longer on its way: taken for filled
\* (_grid_v2_process_fills, which runs before what was staged is sent).
Vanished ==
  DOMAIN registered \
    (DOMAIN shown \cup DOMAIN pendingPlaces \cup DOMAIN pendingCancels \cup {p[1] : p \in ToSet(staged.places)})

StillRight == staged.mode = machine.mode /\ ~staged.filled

\* failing: requests that do not go through.  A placement fails with a definite answer,
\* or before it is sent, and its id is forgotten; or without one, and it is kept as one
\* that may rest.  Here it does not (lost); when it does, it is like an answered one.
Drain(failing, lost) ==
  LET cancels == staged.cancels \ (refused \cup sentThisSync)
      kept == IF StillRight THEN ToSet(staged.places) ELSE {}
      unknown == cancels \ DOMAIN book
      placed == {p \in kept : p[1] \notin failing}
      sent == {p[1] : p \in placed} \cup lost
      rejected == {p[1] : p \in ToSet(staged.places)} \ sent
  IN  /\ failing \subseteq (cancels \cap DOMAIN book) \cup {p[1] : p \in kept}
      /\ lost \subseteq failing \ cancels
      /\ troubles' = troubles + Cardinality(failing) /\ troubles' <= MaxTroubles
      /\ book' = [i \in (DOMAIN book \ (cancels \ failing)) \cup {p[1] : p \in placed} |->
                   IF i \in DOMAIN book THEN book[i] ELSE (CHOOSE p \in placed : p[1] = i)[2]]
      /\ registered' = Without(registered, Acknowledged \cup unknown \cup rejected)
      /\ pendingPlaces' = [i \in DOMAIN pendingPlaces \cup sent |-> IF i \in sent THEN 0 ELSE pendingPlaces[i]]
      /\ pendingCancels' = [i \in ((DOMAIN pendingCancels \ Acknowledged) \cup staged.cancels) \ unknown |->
                             IF i \in staged.cancels THEN 0 ELSE pendingCancels[i]]
      /\ fillAhead' = IF placed # {} /\ fillAhead = "until placed" THEN "yes" ELSE fillAhead
      /\ refused' = refused \cup (cancels \cap failing)
      /\ sentThisSync' = sentThisSync \cup cancels
      /\ staged' = NothingStaged
      /\ UNCHANGED <<machine, shown, repeated, suppressed>>

Tick ==
  /\ Vanished = {} /\ (staged # NothingStaged \/ Acknowledged # {})
  /\ \E failing \in SUBSET (staged.cancels \cup {p[1] : p \in ToSet(staged.places)}) :
       \E lost \in SUBSET failing : Drain(failing, lost)

-----------------------------------------------------------------------------
\* The market, and what the machine makes of it.

Recenter(d) ==
  /\ machine.mode = Flat /\ troubles < MaxTroubles /\ troubles' = troubles + 1
  /\ machine' = [machine EXCEPT !.ref = @ + d]
  /\ UNCHANGED <<book, shown, repeated, registered, pendingPlaces, pendingCancels, refused, sentThisSync, staged,
                 fillAhead, suppressed>>

Booked(i) ==
  /\ registered' = Without(registered, {i})
  /\ pendingPlaces' = Without(pendingPlaces, {i})
  /\ suppressed' = FALSE
  /\ fillAhead' \in {"yes"} \cup IF machine'.lots = 0 THEN {"until placed"} ELSE {}
  /\ staged' = IF staged = NothingStaged THEN staged ELSE [staged EXCEPT !.filled = TRUE]
  /\ UNCHANGED <<shown, repeated, pendingCancels, refused, sentThisSync>>

\* A lot more, or one less: which one is netted off is left open, and its exit stays
\* behind.  A lot that was taken for filled has no exit.
Opens(slot, exits) ==
  /\ machine.mode \in {Flat, slot[1]}
  /\ machine' = [mode |-> slot[1], ref |-> slot[2], lots |-> machine.lots + 1, exits |-> machine.exits \cup exits]
NetsOff(slot) ==
  /\ machine.mode \notin {Flat, slot[1]}
  /\ \E closed \in {{x} : x \in machine.exits} \cup (IF machine.lots > Cardinality(machine.exits) THEN {{}} ELSE {}) :
       machine' = [machine EXCEPT !.lots = @ - 1, !.exits = @ \ closed, !.mode = IF machine.lots = 1 THEN Flat ELSE @]

EntryFills(i) ==
  /\ i \in Entries(book) /\ troubles < MaxTroubles /\ troubles' = troubles + 1
  /\ \/ /\ HasIds(1) /\ Opens(book[i], {NewIds(1)[1]})
        /\ book' = [j \in (DOMAIN book \ {i}) \cup {NewIds(1)[1]} |-> IF j = NewIds(1)[1] THEN Exit ELSE book[j]]
     \/ NetsOff(book[i]) /\ book' = Without(book, {i})
  /\ Booked(i)

\* An entry the exchange never got becomes a lot all the same; its reduce-only exit
\* finds nothing to reduce.
InferredFill(i) ==
  /\ i \in Vanished
  /\ Opens(registered[i], {}) \/ NetsOff(registered[i])
  /\ Booked(i) /\ UNCHANGED <<book, troubles>>

ExitFills(i) ==
  /\ i \in Exits(book) \cap machine.exits
  /\ machine' = [machine EXCEPT !.lots = @ - 1, !.exits = @ \ {i}, !.mode = IF machine.lots = 1 THEN Flat ELSE @]
  /\ book' = Without(book, {i})
  /\ Booked(i) /\ UNCHANGED troubles

ReconcilerInit ==
  /\ machine = [mode |-> Flat, ref |-> 0, lots |-> 0, exits |-> {}]
  /\ book = NoIds /\ shown = NoIds /\ registered = NoIds /\ pendingPlaces = NoIds /\ pendingCancels = NoIds
  /\ refused = {} /\ sentThisSync = {} /\ staged = NothingStaged
  /\ repeated = FALSE /\ fillAhead = "no" /\ suppressed = FALSE /\ troubles = 0

ReconcileFresh == \E aged \in {{}, Entries(book)} : ReconcileAnswer(aged)

ReconcilerNext ==
  \/ ReconcileFresh \/ ReconcileCached \/ Tick
  \/ \E d \in Shifts : Recenter(d)
  \/ \E i \in OrderIds : EntryFills(i) \/ ExitFills(i) \/ InferredFill(i)

ReconcilerSpec == ReconcilerInit /\ [][ReconcilerNext]_reconcilerVars

-----------------------------------------------------------------------------
\* No two entries rest in one slot, whatever was cached, staged, cancelled or filled in
\* between: the comparison keeps one order per slot and would never see the second.
OneOrderPerSlot == \A i, j \in Entries(book) : book[i] = book[j] => i = j

Restored ==
  LET slots == {book[i] : i \in Entries(book)}
  IN  Compare(Effective(machine, slots), slots) = [missing |-> {}, extra |-> {}]

\* The book is what the caps allow of what the machine wants, with no exit left over.  A
\* cancel that failed is not sent again as long as its order rests: such an order upsets
\* its neighbours for good.
GridRestored == refused = {} => Restored /\ Exits(book) \subseteq machine.exits
=============================================================================
