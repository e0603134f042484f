----------------------------- MODULE GridWatchdog -----------------------------
(***************************************************************************)
(* The default upkeep of a grid_v2 ladder in live/engine.py: what every    *)
(* market tick does to keep the resting orders what the machine wants      *)
(* (_grid_v2_integrity_repair), how a change of the order size reseeds the *)
(* ladder, and what an account sync clears, expires or rebuilds.           *)
(*                                                                         *)
(* The machine is reduced to its branch, its reference price, its entry    *)
(* window and its exits, and of what it asks for after a fill only the     *)
(* exits reach the exchange, so that the watchdog has everything to do.    *)
(* Orders are seen through the REST snapshot, fills are heard through the  *)
(* user-data stream.  Prices are grid steps.  One order per side fits the  *)
(* budget of placements of a repair; the distance guard is left out.       *)
(***************************************************************************)
EXTENDS Integers, Sequences, FiniteSets, FiniteSetsExt

CONSTANTS
  WatchMids,                \* mid prices of a recenter, a resize, a rebuild
  WatchLevels, WatchLots,   \* entry_levels_per_side, max_inventory_levels
  MaxDefers, MismatchStreak,\* bounds of the repair
  ExpiryChecks,             \* _GRID_V2_AWAITING_SYNC_EXPIRY_GENS
  StaleCancelGens, StalePlaceGens,
  CooldownGens,             \* _GRID_V2_DRIFT_RECONSTRUCT_COOLDOWN_GENS
  WatchIds,                 \* client order ids in use at a time
  MaxMishaps                \* fills, requests that fail, cached answers, resizes and waits of fifteen seconds

ASSUME WatchdogAssumption ==
  /\ WatchMids \subseteq Int /\ WatchLevels \in Nat \ {0} /\ WatchLots \in Nat \ {0} /\ MaxMishaps \in Nat
  /\ WatchIds \subseteq Nat /\ IsFiniteSet(WatchIds) /\ 1..2 * WatchLevels \subseteq WatchIds
  /\ {MaxDefers, MismatchStreak, ExpiryChecks, StaleCancelGens, StalePlaceGens, CooldownGens} \subseteq Nat

VARIABLES
  venue,      \* the exchange: id -> slot of the resting orders
  holding,    \* the exchange: the position
  unheard,    \* fills the stream has yet to deliver, in order: <<id, slot>>
  answer,     \* the last account snapshot, and whether it was served twice
  grid,       \* the machine: branch, reference price, window, exits (id -> signed quantity)
  slotOf,     \* the adapter's registry of entries: id -> slot
  released,   \* its stale cache: cancelled, the slot is free again
  placing, canceling,      \* ids on their way, with their age in syncs
  seeding,    \* the latch of a seed batch: awaiting, the ids it waits for, checks so far; exits left to send
  work,       \* what this tick is about to send; NoWork between ticks
  blocked,    \* _cancel_failed_ids and _cancel_dispatched_pending_sync
  deferred, mismatched,    \* counters of the repair
  flatFor,    \* syncs since the machine turned flat
  raised,     \* an exception has left process_snapshot
  stuck,      \* orders nobody looks after: a cancel has failed, or a rebuild has forgotten them
  mishaps

watchVars == <<venue, holding, unheard, answer, grid, slotOf, released, placing, canceling, seeding, work, blocked,
               deferred, mismatched, flatFor, raised, stuck, mishaps>>

BuySide == 1
SellSide == 2
NoBranch == 0

None == [i \in {} |-> 0]
Less(f, ids) == [i \in DOMAIN f \ ids |-> f[i]]
Joined(f, g) == [i \in DOMAIN f \cup DOMAIN g |-> IF i \in DOMAIN g THEN g[i] ELSE f[i]]
Older(f, cap) == [i \in DOMAIN f |-> Min({f[i] + 1, cap})]
Magnitude(n) == IF n < 0 THEN -n ELSE n
Sign(n) == IF n > 0 THEN 1 ELSE IF n < 0 THEN -1 ELSE 0

\* An entry is <<side, price>>; an exit is <<0, quantity>>, negative when it sells.
IsRung(k) == k[1] # 0
EntryIds(orders) == {i \in DOMAIN orders : IsRung(orders[i])}
ExitIds(orders) == DOMAIN orders \ EntryIds(orders)

Rung(side, ref) == {<<side, IF side = BuySide THEN ref - i ELSE ref + i>> : i \in 1..WatchLevels}
Window(ref) == Rung(BuySide, ref) \cup Rung(SellSide, ref)

\* The least id that is not used.
NewId(used) == {i \in WatchIds \ used : \A j \in WatchIds \ used : i <= j}
InUse == UNION {DOMAIN venue, {unheard[n][1] : n \in DOMAIN unheard}, DOMAIN answer.orders, DOMAIN slotOf, DOMAIN released, DOMAIN grid.exits,
                DOMAIN placing, DOMAIN canceling, seeding.ids, blocked.failed, blocked.sent, stuck}

\* Bound: a tick or a fill waits until there are ids for what it may place.
EnoughIds == Cardinality(WatchIds \ InUse) > 2 * WatchLevels

\* Fresh ids for a set of slots, in their order.
Numbered(slots) ==
  LET ids == WatchIds \ InUse
      Rank(k) == Cardinality({l \in slots : l[1] < k[1] \/ (l[1] = k[1] /\ l[2] < k[2])})
      IdAt(n) == CHOOSE i \in ids : Cardinality({j \in ids : j < i}) = n
  IN  [i \in {IdAt(Rank(k)) : k \in slots} |-> CHOOSE k \in slots : IdAt(Rank(k)) = i]

NoWork == [busy |-> FALSE, synced |-> FALSE, seedCancels |-> {}, seeds |-> None, cancels |-> {}, places |-> None]
NoSeeds == [awaiting |-> FALSE, ids |-> {}, checks |-> 0, left |-> None]

-----------------------------------------------------------------------------
\* The machine and the registry.

Fresh(ref) == [mode |-> NoBranch, ref |-> ref, window |-> Window(ref), exits |-> None]

\* cid_for_entry; at most one, register_entry refuses an occupied slot.
Registered(k) == {i \in DOMAIN slotOf : slotOf[i] = k}
Registrable(orders, registry) == {i \in DOMAIN orders : \A j \in DOMAIN registry : registry[j] # orders[i]}
Registering(orders, registry) == [i \in Registrable(orders, registry) |-> orders[i]]

\* bridge.on_cancel_ack and confirm_cancel_entry.
Forgets(ids) == slotOf' = Less(slotOf, ids) /\ released' = Less(released, ids)

-----------------------------------------------------------------------------
\* _grid_v2_apply_size_reseed: a new bridge, and one batch that cancels all there was.

\* The ids are read from order_id, which a placement of the bridge leaves empty.
SeedIds(seeds) == {}

\* The position is the one of the last answer.
MayResize == ~seeding.awaiting /\ answer.pos = 0 /\ DOMAIN grid.exits = {} /\ mishaps < MaxMishaps

Resize ==
  /\ MayResize
  /\ \E ref \in WatchMids : \E seeds \in {Numbered(Window(ref))} :
       /\ grid' = Fresh(ref) /\ slotOf' = seeds /\ released' = None
       /\ seeding' = [NoSeeds EXCEPT !.awaiting = TRUE, !.ids = SeedIds(seeds)]
       /\ work' = [NoWork EXCEPT !.busy = TRUE, !.seedCancels = DOMAIN slotOf, !.seeds = seeds]
  /\ placing' = None /\ canceling' = None
  /\ mishaps' = mishaps + 1
  /\ UNCHANGED <<deferred, mismatched, flatFor, raised>>

-----------------------------------------------------------------------------
\* _grid_v2_process_cancel_acks, and _grid_v2_resolve_stale_pending_cancels when the repair
\* has waited too long; a placement as old was already dropped by the sync.

Gone == DOMAIN canceling \ DOMAIN answer.orders
Escalates == deferred + 1 >= MaxDefers
Stale == {i \in DOMAIN canceling : canceling[i] >= StaleCancelGens}
StillCanceling == Less(canceling, Gone \cup IF DOMAIN placing \cup (DOMAIN canceling \ Gone) # {} /\ Escalates THEN Stale ELSE {})

\* Fifteen seconds pass over a pending cancel: it is as stale as one of two syncs ago.
Overdue(i) ==
  /\ ~work.busy /\ i \in DOMAIN canceling /\ canceling[i] < StaleCancelGens /\ mishaps < MaxMishaps
  /\ canceling' = [canceling EXCEPT ![i] = StaleCancelGens]
  /\ mishaps' = mishaps + 1
  /\ UNCHANGED <<venue, holding, unheard, answer, grid, slotOf, released, placing, seeding, work, blocked,
                 deferred, mismatched, flatFor, raised, stuck>>

Converging == DOMAIN placing \cup (DOMAIN canceling \ Gone) # {}
StillConverging == DOMAIN placing \cup DOMAIN StillCanceling # {}

Acknowledge ==
  /\ canceling' = StillCanceling
  /\ deferred' = IF Converging /\ (~Escalates \/ StillConverging) THEN Min({deferred + 1, MaxDefers}) ELSE 0
  /\ flatFor' = IF grid.mode # NoBranch THEN -1 ELSE Max({flatFor, 0})
  /\ UNCHANGED <<placing, seeding, mishaps>>

\* Of two orders in one slot the code sees one.
Seen == {answer.orders[i] : i \in EntryIds(answer.orders)}
AtSlot(k) == CHOOSE i \in EntryIds(answer.orders) : answer.orders[i] = k

\* The window, less what the inventory has no room for.
FromRef(k) == IF k[2] < grid.ref THEN grid.ref - k[2] ELSE k[2] - grid.ref
Wanted ==
  LET headroom == WatchLots - Cardinality(DOMAIN grid.exits)
  IN  IF grid.mode = NoBranch THEN grid.window
      ELSE {k \in grid.window : Cardinality({l \in grid.window : FromRef(l) < FromRef(k)}) < headroom}

Mismatch ==
  IF grid.mode = NoBranch
  THEN \/ Cardinality(EntryIds(answer.orders)) # Cardinality(grid.window)
       \/ ExitIds(answer.orders) # {}
  ELSE Seen # Wanted \/ ~(DOMAIN grid.exits \subseteq DOMAIN answer.orders)

\* The window of thirty seconds may have passed since the last mismatch.
Streak == {mismatched + 1} \cup IF StillConverging THEN {} ELSE {1}

-----------------------------------------------------------------------------
\* What a repair does.

OnSide(slots, side) == Cardinality({k \in slots : k[1] = side})
Lopsided == \/ \E side \in {BuySide, SellSide} : OnSide(Seen, side) # OnSide(grid.window, side)
          \/ OnSide(Seen, BuySide) # OnSide(Seen, SellSide)

Sends(cancels, places) == work' = [NoWork EXCEPT !.busy = TRUE, !.cancels = cancels, !.places = places]

Recentered(ref) == Fresh(ref)

\* bridge.recenter_flat: the machine commits the new window before resolve_actions looks
\* the old orders up; one that is not registered raises.
RepairByRecentering ==
  /\ grid.mode = NoBranch /\ Lopsided
  /\ \E ref \in WatchMids :
       /\ grid' = Recentered(ref)
       /\ IF \A k \in grid.window : Registered(k) \ Gone # {}
          THEN \E old \in {{i \in DOMAIN slotOf \ Gone : slotOf[i] \in grid.window}} :
               \E kept \in {Less(slotOf, old \cup Gone)} :
               \E places \in {Registering(Numbered(Window(ref)), kept)} :
                 /\ slotOf' = Joined(kept, places)
                 /\ released' = Less(Joined(released, [i \in old |-> slotOf[i]]), Gone)
                 /\ Sends(old, places)
                 /\ UNCHANGED raised
          ELSE raised' = TRUE /\ Forgets(Gone) /\ UNCHANGED work

\* The ladder is not skewed: only what should not be there goes.
RepairByPreserving ==
  /\ grid.mode = NoBranch /\ ~Lopsided
  /\ Sends({AtSlot(k) : k \in Seen \ grid.window} \cup ExitIds(answer.orders), None)
  /\ Forgets(Gone)
  /\ UNCHANGED <<grid, raised>>

SlotsOnTheWay == {slotOf[i] : i \in DOMAIN placing \cap DOMAIN slotOf}

\* A slot with a placement on its way is left alone; a registered order that does not show
\* gives its slot up.
RepairBranchAnyway ==
  /\ grid.mode # NoBranch
  /\ \E missing \in {Wanted \ Seen} :
     \E dropped \in {Gone \cup {i \in DOMAIN slotOf \ DOMAIN answer.orders : slotOf[i] \in missing}} :
     \E places \in {Registering(Numbered(missing), Less(slotOf, dropped))} :
       /\ slotOf' = Joined(Less(slotOf, dropped), places)
       /\ released' = Less(released, dropped)
       /\ Sends({AtSlot(k) : k \in Seen \ Wanted}, places)
  /\ UNCHANGED <<grid, raised>>
RepairBranch ==
  /\ grid.mode # NoBranch
  /\ \E missing \in {(Wanted \ Seen) \ SlotsOnTheWay} :
     \E dropped \in {Gone \cup {i \in DOMAIN slotOf \ DOMAIN answer.orders : slotOf[i] \in missing}} :
     \E kept \in {Less(slotOf, dropped)} :
     \E places \in {Registering(Numbered(missing), kept)} :
       /\ slotOf' = Joined(kept, places)
       /\ released' = Less(released, dropped)
       /\ Sends({AtSlot(k) : k \in Seen \ Wanted}, places)
  /\ UNCHANGED <<grid, raised>>

Rests == Forgets(Gone) /\ Sends({}, None) /\ UNCHANGED <<grid, raised>>

\* The cooldown of five seconds may hold the repair back.
Watch ==
  /\ ~seeding.awaiting
  /\ Acknowledge
  /\ \/ Rests /\ UNCHANGED mismatched
     \/ (Converging => Escalates) /\ ~Mismatch /\ Rests /\ mismatched' = 0
     \/ /\ (Converging => Escalates) /\ Mismatch
        /\ \E n \in Streak :
             \/ n < MismatchStreak /\ Rests /\ mismatched' = n
             \/ /\ n >= MismatchStreak /\ mismatched' = 0
                /\ RepairByRecentering \/ RepairByPreserving \/ RepairBranch

\* process_snapshot up to the sync: while a seed batch is awaited nothing is watched, and
\* seeds a rebuild has left are sent.
Waits ==
  /\ seeding.awaiting
  /\ work' = [NoWork EXCEPT !.busy = TRUE, !.seeds = seeding.left]
  /\ seeding' = [seeding EXCEPT !.left = None]
  /\ UNCHANGED <<grid, slotOf, released, placing, canceling, deferred, mismatched, flatFor, raised, mishaps>>

Ticks ==
  /\ ~work.busy /\ ~raised /\ EnoughIds
  /\ Resize \/ Watch \/ Waits
  /\ UNCHANGED <<venue, holding, unheard, answer, blocked, stuck>>

-----------------------------------------------------------------------------
\* _tick_account_sync, in the middle of a tick.

SeedsVisible == seeding.ids \subseteq DOMAIN answer'.orders
Latch ==
  IF ~seeding.awaiting \/ seeding.ids = {} THEN seeding
  ELSE IF SeedsVisible \/ seeding.checks + 1 >= ExpiryChecks THEN [NoSeeds EXCEPT !.left = seeding.left]
  ELSE [seeding EXCEPT !.checks = @ + 1]

\* _grid_v2_sync_reconstruct_on_position_drift: the machine is flat, the position is not,
\* and no order of the grid is left.
DriftSeen ==
  /\ grid.mode = NoBranch /\ ~Latch.awaiting /\ answer'.pos # 0 /\ DOMAIN answer'.orders = {}
  /\ (flatFor >= 0 => flatFor + 1 >= CooldownGens)

\* adapter.reconstruct_snapshot without orders: a lot for the position and its exit.  What
\* this tick has yet to place is sent all the same, and no longer registered.
Rebuilt(pos, ref, x) ==
  [mode |-> IF pos > 0 THEN BuySide ELSE SellSide, ref |-> ref, window |-> {}, exits |-> [i \in {x} |-> -pos]]

Rebuild ==
  /\ \E ref \in WatchMids : \E x \in NewId(InUse \cup DOMAIN work.seeds \cup DOMAIN work.places) :
       /\ grid' = Rebuilt(answer'.pos, ref, x)
       /\ seeding' = [awaiting |-> TRUE, ids |-> {x}, checks |-> 0, left |-> [i \in {x} |-> <<0, -answer'.pos>>]]
  /\ slotOf' = None /\ released' = None /\ placing' = None /\ canceling' = None
  /\ stuck' = stuck \cup DOMAIN slotOf

\* The exchange may serve an answer from its cache, not twice in a row.
Answer == [orders |-> venue, pos |-> holding, again |-> FALSE]

Sync(fresh) ==
  /\ work.busy /\ ~work.synced
  /\ answer' = IF fresh THEN Answer ELSE [answer EXCEPT !.again = TRUE]
  /\ mishaps' = IF fresh THEN mishaps ELSE mishaps + 1
  /\ fresh \/ (~answer.again /\ answer # Answer /\ mishaps < MaxMishaps)
  /\ work' = [work EXCEPT !.synced = TRUE]
  /\ blocked' = [failed |-> blocked.failed \cap DOMAIN answer'.orders, sent |-> {}]
  /\ IF DriftSeen THEN Rebuild
     ELSE /\ seeding' = Latch
          /\ placing' = [i \in {i \in DOMAIN placing \ DOMAIN answer'.orders : placing[i] + 1 < StalePlaceGens} |-> placing[i] + 1]
          /\ canceling' = Older(canceling, StaleCancelGens)
          /\ UNCHANGED <<grid, slotOf, released, stuck>>
  /\ flatFor' = IF flatFor < 0 THEN flatFor ELSE Min({flatFor + 1, CooldownGens})
  /\ UNCHANGED <<venue, holding, unheard, deferred, mismatched, raised>>

-----------------------------------------------------------------------------
\* The second half of the tick sends.

\* A cancel is left out that failed, or that was sent since the last sync.
DueCancels == work.seedCancels \cup (work.cancels \ (blocked.failed \cup blocked.sent))
DuePlaces == Joined(work.seeds, work.places)

\* _grid_v2_handle_failed_cancel: what the exchange has no order for counts as acknowledged.
Unknown == (DueCancels \cap work.cancels) \ DOMAIN venue

\* A refused seed is not awaited; with none left the latch opens.
LatchWithout(cleaned) ==
  IF seeding.ids \cap cleaned = {} THEN seeding
  ELSE IF seeding.ids \subseteq cleaned THEN NoSeeds
  ELSE [seeding EXCEPT !.ids = @ \ cleaned]

\* The cancels of the watchdog are awaited from the moment they are planned.
CancelsOnTheWay == Joined(canceling, [i \in work.cancels |-> IF work.synced THEN 1 ELSE 0])

\* Definitely refused requests, and ones no answer of which arrives and that did nothing.  A
\* failed cancel of the watchdog is remembered, one of a seed batch is not.
Dispatch(refused, lost) ==
  LET failed == (refused \cup lost) \cap DueCancels
      placed == Less(DuePlaces, refused \cup lost)
      cleaned == refused \cap DOMAIN DuePlaces
  IN  /\ failed \subseteq DOMAIN venue
      /\ mishaps' = mishaps + Cardinality(refused \cup lost) /\ mishaps' <= MaxMishaps
      /\ venue' = Joined(Less(venue, DueCancels \ failed), placed)
      /\ Forgets(Unknown \cup cleaned)
      /\ placing' = Joined(placing, [i \in DOMAIN DuePlaces \ cleaned |-> 0])
      /\ canceling' = Less(CancelsOnTheWay, Unknown)
      /\ seeding' = LatchWithout(cleaned)
      /\ blocked' = [failed |-> blocked.failed \cup (failed \cap work.cancels), sent |-> blocked.sent \cup (DueCancels \cap work.cancels)]
      /\ stuck' = stuck \cup failed
      /\ work' = NoWork
      /\ UNCHANGED <<holding, unheard, answer, grid, deferred, mismatched, flatFor, raised>>

Send ==
  /\ work.busy /\ ~raised
  /\ \E refused \in SUBSET (DueCancels \cup DOMAIN DuePlaces) :
     \E lost \in SUBSET ((DueCancels \cup DOMAIN DuePlaces) \ refused) : Dispatch(refused, lost)

-----------------------------------------------------------------------------
\* The market, and the user-data stream.

\* Reduce-only: an exit fills up to the position that is left.
Filled(i) ==
  /\ i \in DOMAIN venue /\ mishaps < MaxMishaps
  /\ IF IsRung(venue[i])
     THEN holding' = IF venue[i][1] = BuySide THEN holding + 1 ELSE holding - 1
     ELSE /\ Sign(venue[i][2]) = -Sign(holding) /\ holding # 0
          /\ holding' = IF Magnitude(venue[i][2]) >= Magnitude(holding) THEN 0 ELSE holding + venue[i][2]
  /\ venue' = Less(venue, {i})
  /\ unheard' = Append(unheard, <<i, venue[i]>>)
  /\ mishaps' = mishaps + 1
  /\ UNCHANGED <<answer, grid, slotOf, released, placing, canceling, seeding, work, blocked, deferred, mismatched,
                 flatFor, raised, stuck>>

\* An entry nobody knows is taken as well (allow_stale); one of the wrong side is refused.
KnownRegistered(i) == i \in DOMAIN slotOf \cup DOMAIN released
Known(i) == TRUE
HearsEntry(i, k) ==
  IF grid.mode \in {NoBranch, k[1]} /\ Known(i)
  THEN \E x \in NewId(InUse) :
         \E exit \in {IF k[1] = BuySide THEN -1 ELSE 1} :
           /\ grid' = [grid EXCEPT !.mode = k[1], !.window = Rung(k[1], k[2]), !.exits = Joined(@, [j \in {x} |-> exit])]
           /\ venue' = Joined(venue, [j \in {x} |-> <<0, exit>>])
  ELSE UNCHANGED <<grid, venue>>

\* The last exit makes the machine flat again: the window is rebuilt around its old price.
Flattened == Fresh(grid.ref)
HearsExit(i) ==
  /\ IF i \notin DOMAIN grid.exits THEN UNCHANGED grid
     ELSE grid' = IF DOMAIN grid.exits = {i} THEN Flattened
                  ELSE [grid EXCEPT !.exits = Less(@, {i})]
  /\ UNCHANGED venue

Hear ==
  /\ unheard # << >> /\ ~work.busy /\ ~raised /\ EnoughIds
  /\ \E fill \in {Head(unheard)} :
       /\ IF IsRung(fill[2]) THEN HearsEntry(fill[1], fill[2]) ELSE HearsExit(fill[1])
       /\ Forgets({fill[1]})
       /\ placing' = Less(placing, {fill[1]}) /\ canceling' = Less(canceling, {fill[1]})
  /\ unheard' = Tail(unheard)
  /\ UNCHANGED <<holding, answer, seeding, work, blocked, deferred, mismatched, flatFor, raised, stuck, mishaps>>

\* After a fresh start whose seeds rest and have been seen.
Seeded == [i \in 1..2 * WatchLevels |-> IF i <= WatchLevels THEN <<BuySide, -i>> ELSE <<SellSide, i - WatchLevels>>]
WatchInit ==
  /\ venue = Seeded
  /\ holding = 0 /\ unheard = << >> /\ answer = [orders |-> venue, pos |-> 0, again |-> FALSE]
  /\ grid = Fresh(0) /\ slotOf = venue /\ released = None
  /\ placing = None /\ canceling = None /\ seeding = NoSeeds /\ work = NoWork
  /\ blocked = [failed |-> {}, sent |-> {}]
  /\ deferred = 0 /\ mismatched = 0 /\ flatFor = 0 /\ raised = FALSE /\ stuck = {} /\ mishaps = 0

Synced == \E fresh \in BOOLEAN : Sync(fresh)
WatchNext == Ticks \/ Synced \/ Send \/ Hear \/ \E i \in WatchIds : Filled(i) \/ Overdue(i)
WatchSpec == WatchInit /\ [][WatchNext]_watchVars

-----------------------------------------------------------------------------
\* No two entries rest in one slot, whatever was repaired, resized, delayed or refused in
\* between, unless a cancel of one of them has failed, or a rebuild in the middle of a tick
\* has forgotten it: the repair looks at slots and would never see the second.
OneEntryPerRung == \A i, j \in EntryIds(venue) \ stuck : venue[i] = venue[j] => i = j

\* With every fill heard, a position never stands behind a machine that believes it is
\* flat: whatever order filled, of this ladder or of one a resize has replaced.
MachineKnowsPosition == holding # 0 /\ unheard = << >> => grid.mode # NoBranch

\* A seed batch that has been sent is awaited by its ids: the latch opens when they show
\* or when it expires.
SeedLatchOpens == seeding.awaiting /\ ~work.busy => seeding.ids # {}

\* A repair never ends the trading loop.
RepairGoesOn == ~raised
=============================================================================
