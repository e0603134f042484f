----------------------------- MODULE GridV2Live -----------------------------
(***************************************************************************)
(* The live engine's grid_v2 path (src/grinder/live/engine.py) around the  *)
(* bridge, and the exchange it trades on.  process_snapshot (a tick) and   *)
(* process_user_data_event run on one event loop and never overlap; their  *)
(* HTTP calls are where the exchange can move.  A tick detects fills by    *)
(* comparing the registry with the last account snapshot, may refresh that *)
(* snapshot, and dispatches the resulting orders one by one.               *)
(*                                                                         *)
(* The sync reconciler, the integrity repair and the risk gates are off,   *)
(* and the EventLedger is not fresh: the account snapshot is the view.     *)
(***************************************************************************)
EXTENDS GridV2Bridge, Sequences

CONSTANTS
  UserData,          \* TRUE: the user-data stream is connected
  PlaceOutcomes,     \* subset of {"executed", "rejected", "timeout_placed", "timeout_lost"}
  CancelOutcomes,    \* subset of {"executed", "timeout_canceled", "timeout_lost"}
  PlaceStaleGens,    \* _GRID_V2_PENDING_PLACE_STALE_GENS
  AwaitExpiryGens,   \* _GRID_V2_AWAITING_SYNC_EXPIRY_GENS
  DriftCooldownGens, \* _GRID_V2_DRIFT_RECONSTRUCT_COOLDOWN_GENS
  MaxLag,            \* ticks that may begin before a delivered event is handled
  MaxFailures,       \* requests whose outcome is not "executed"
  MaxExpiries,       \* orders that the exchange or the operator may cancel
  MaxFills, MaxCrashes, MaxRedeliveries   \* bounds of the model

ASSUME LiveAssumption ==
  /\ UserData \in BOOLEAN
  /\ PlaceOutcomes # {} /\ CancelOutcomes # {}
  /\ {PlaceStaleGens, AwaitExpiryGens, DriftCooldownGens} \subseteq Nat \ {0}
  /\ {MaxLag, MaxFailures, MaxExpiries, MaxFills, MaxCrashes, MaxRedeliveries} \subseteq Nat

VARIABLES
  \* the exchange
  book,              \* CID -> order, every order it ever accepted, and those lost on the way to it
  stream,            \* the CIDs of the terminal events not yet delivered
  lag,               \* ticks begun since the last event was handled
  crashes, redeliveries, failures,
  \* the engine
  phase,             \* what the event loop is doing
  acct,              \* _last_account_snapshot: open CIDs and position
  posRead,           \* the position of the sync in progress
  started,           \* _grid_v2_started
  pendingPlaces,     \* _grid_v2_pending_place_cids: CID -> syncs since dispatch
  eligible,          \* _grid_v2_fill_eligible_cids
  awaiting,          \* _grid_v2_awaiting_sync
  pendingSeeds,      \* _grid_v2_pending_seed_cids
  checks,            \* _grid_v2_awaiting_sync_checks
  seeds,             \* _grid_v2_seed_actions
  flatAge,           \* syncs since _grid_v2_flat_since_gen, NotFlat while -1
  userSeen,          \* _grid_v2_user_fill_seen
  queue,             \* the fill candidates of this tick still to handle
  outbox,            \* the actions still to dispatch, each with its wave
  \* history
  bookings,          \* CID -> how many times its fill moved the state machine
  refused            \* CIDs whose fill was never booked but rejected

exchangeVars == <<book, stream, lag, crashes, redeliveries, failures>>
trackVars == <<pendingPlaces, eligible, awaiting, pendingSeeds, checks>>
loopVars == <<phase, queue, outbox>>
engineVars == <<loopVars, acct, posRead, started, trackVars, seeds, flatAge, userSeen>>
history == <<bookings, refused>>
liveVars == <<vars, bridgeVars, exchangeVars, engineVars, history>>

NoAcct == [open |-> {<<"none", 0>>}, pos |-> 0]
NotFlat == -1
Phases == {"down", "idle", "boot", "fills", "sync", "read", "dispatch"}

Cids(status) == {c \in DOMAIN book : book[c].status = status}
Signed(o) == IF o.side = "BUY" THEN o.qty ELSE -o.qty
PositionOf(b) == MapThenSumSet(LAMBDA c : Signed(b[c]), {c \in DOMAIN b : b[c].status = "filled"})
Position == PositionOf(book)

\* _is_grid_v2_active
ActiveOnceSeeded == started /\ reconOk /\ ~awaiting
Active == started /\ reconOk

-----------------------------------------------------------------------------
\* The exchange.

\* A reduce-only order must oppose the position and not exceed it.
Reduces(side, qty) == IF side = "SELL" THEN Position >= qty ELSE Position <= -qty

\* Orders of one side fill best price first.
BestPriced(cid) ==
  \A c \in Cids("open") : book[c].side = book[cid].side
    => Outward(book[cid].side) * (book[cid].price - book[c].price) <= 0

\* A terminal event reaches the process only while it listens.
Notify(cid) == stream' = IF UserData /\ phase # "down" THEN Append(stream, cid) ELSE stream

\* While the engine starts up or loops over its fills it neither reads nor
\* writes the exchange, so the exchange need not step then.
ExchangeMoves == phase \notin {"boot", "fills"}

ExchangeFill(cid) ==
  /\ ExchangeMoves
  /\ cid \in Cids("open") /\ BestPriced(cid)
  /\ IsExit(cid) => Reduces(book[cid].side, book[cid].qty)
  /\ Cardinality(Cids("filled")) < MaxFills
  /\ book' = [book EXCEPT ![cid].status = "filled"]
  /\ Notify(cid)
  /\ UNCHANGED <<vars, bridgeVars, engineVars, history, lag, crashes, redeliveries,
                 failures>>

OutsideCancel(cid) ==
  /\ ExchangeMoves
  /\ cid \in Cids("open")
  /\ Cardinality(Cids("expired")) < MaxExpiries
  /\ book' = [book EXCEPT ![cid].status = "expired"]
  /\ Notify(cid)
  /\ UNCHANGED <<vars, bridgeVars, engineVars, history, lag, crashes, redeliveries,
                 failures>>

\* The stream may deliver a fill twice.
Redeliver(cid) ==
  /\ ExchangeMoves /\ UserData /\ phase # "down"
  /\ cid \in Cids("filled")
  /\ redeliveries < MaxRedeliveries
  /\ redeliveries' = redeliveries + 1
  /\ Notify(cid)
  /\ UNCHANGED <<vars, bridgeVars, engineVars, history, book, lag, crashes, failures>>

\* The stream lags, but not for ever.
InTime == stream # <<>> => lag < MaxLag

-----------------------------------------------------------------------------
\* Startup: _grid_v2_try_startup, as the first tick with an account snapshot
\* begins.

Order(cid) == [cid |-> cid, side |-> book[cid].side, price |-> book[cid].price, qty |-> book[cid].qty]
FoundOrders == {Order(c) : c \in acct.open}

\* The seeds are held back until the next dispatch; fills are not looked for
\* until the placed ones are seen on the exchange.
AwaitSeeds(requests) ==
  /\ seeds' = requests
  /\ awaiting' = (requests # {})
  /\ pendingSeeds' = {r.cid : r \in {x \in requests : x.op # "cancel"}}
  /\ checks' = 0

\* _grid_v2_seed_fill_eligible_from_registry, before any reseed.
SeedEligible(orders) == {o.cid : o \in orders}

Skewed(orders) == \E side \in OrderSide : Cardinality(EntriesOf(orders, side)) # LevelsPerSide
Reseeded(orders) == ReseedOnFlat \/ (ReseedOnSkew /\ Skewed(orders))

BootFlat(reference) ==
  /\ acct.pos = 0
  /\ \A o \in FoundOrders : IsEntry(o.cid)
  /\ FoundOrders # {} => Reseeded(FoundOrders)
  /\ StartupFlat(FoundOrders, reference, 0)
  /\ AwaitSeeds(SeedRequests(FoundOrders))
  /\ eligible' = SeedEligible(FoundOrders)

BootRestored(reference) ==
  /\ FoundOrders # {} \/ acct.pos # 0
  /\ acct.pos = 0 => ~Reseeded(FoundOrders)
  /\ Startup(FoundOrders, acct.pos, reference)
  /\ AwaitSeeds(ProtectiveRequests)
  /\ eligible' = SeedEligible(FoundOrders)

BootFailed ==
  /\ StartupFailed(FoundOrders, acct.pos)
  /\ UNCHANGED <<seeds, awaiting, pendingSeeds, checks, eligible>>

Boot ==
  /\ phase = "idle" /\ ~started /\ acct # NoAcct /\ InTime
  /\ started' = TRUE /\ phase' = "boot"
  /\ \/ \E reference \in References : BootFlat(reference) \/ BootRestored(reference)
     \/ BootFailed
  /\ UNCHANGED <<exchangeVars, queue, outbox, acct, posRead, pendingPlaces, flatAge, userSeen,
                 history>>

-----------------------------------------------------------------------------
\* Fill handling.

\* The order in which actions are dispatched.  After a polled fill: the
\* concurrent cancel wave, the reseed batch, then the protective exits and
\* the entries.  After a user-data fill, and for seeds: as the bridge lists
\* them, the exit first.
Wave(path, op) ==
  CASE path = "poll" -> CASE op = "cancel" -> 1 [] op = "reseed" -> 2 [] op = "exit" -> 3 [] OTHER -> 4
    [] path = "user" -> IF op = "exit" THEN 0 ELSE 1
    [] OTHER -> 0
Waved(path, requests) == {[path |-> path, wave |-> Wave(path, r.op), req |-> r] : r \in requests}

Count(cid) == bookings' = [c \in DOMAIN bookings \cup {cid} |->
                             IF c # cid THEN bookings[c]
                             ELSE IF c \in DOMAIN bookings THEN bookings[c] + 1 ELSE 1]

\* bridge.on_fill and what its two callers do with the result.
AcceptFill(cid, o, path) ==
  /\ \/ /\ IsEntry(cid)
        /\ AcceptEntryFill(cid, o.side, o.price, o.qty)
        /\ outbox' = outbox \cup Waved(path, EntryFillRequests(cid))
     \/ /\ IsExit(cid)
        /\ AcceptExitFill(cid, o.qty, 0)
        /\ outbox' = outbox \cup Waved(path, ExitFillRequests(cid))
  /\ Count(cid)
  /\ UNCHANGED refused

RefuseFill(cid, o) ==
  /\ \/ IsEntry(cid) /\ RejectEntryFill(cid, o.side, o.price, o.qty)
     \/ IsExit(cid) /\ RejectExitFill(cid, o.qty)
  /\ refused' = refused \cup ({cid} \ DOMAIN bookings)
  /\ UNCHANGED <<bookings, outbox>>

IgnoreFill(cid) ==
  /\ IsExit(cid) /\ SuppressedExit(cid)
  /\ UNCHANGED <<vars, bridgeVars, outbox, history>>

\* _grid_v2_process_fills: a registered order that is not on the exchange,
\* and was credibly there, has filled.
DisappearedUnguarded == (ActiveCids \ acct.open) \cap eligible
Disappeared == ((ActiveCids \ acct.open) \cap eligible) \ DOMAIN pendingPlaces

Detecting == Active /\ seeds = {} /\ ~awaiting

\* A tick starts: fills are detected and the seed batch is taken.
BeginTick ==
  /\ \/ phase = "boot"
     \/ phase = "idle" /\ (started \/ acct = NoAcct) /\ InTime
  /\ queue' = IF Detecting /\ acct # NoAcct THEN Disappeared ELSE {}
  /\ outbox' = IF Active THEN Waved("seed", seeds) ELSE {}
  /\ seeds' = IF Active THEN {} ELSE seeds
  /\ phase' = "fills"
  /\ lag' = IF stream = <<>> THEN 0 ELSE lag + 1
  /\ UNCHANGED <<vars, bridgeVars, book, stream, crashes, redeliveries, failures, acct, posRead, started, trackVars, flatAge,
                 userSeen, history>>

\* An inferred fill is at the registered side and price, of order_size (1).
InferredFill(cid) ==
  IF IsEntry(cid) THEN [side |-> entryReg[cid][1], price |-> entryReg[cid][2], qty |-> 1]
  ELSE [qty |-> 1]

\* Exits are handled before entries.  A candidate that an earlier fill of the
\* batch has cancelled is skipped.
NextFills == IF \E c \in queue : IsExit(c) THEN {c \in queue : IsExit(c)} ELSE queue

HandleFill(cid) ==
  /\ phase = "fills" /\ cid \in NextFills
  /\ queue' = queue \ {cid}
  /\ \/ /\ cid \in ActiveCids
        /\ \/ AcceptFill(cid, InferredFill(cid), "poll")
           \/ RefuseFill(cid, InferredFill(cid))
           \/ IgnoreFill(cid)
     \/ cid \notin ActiveCids /\ UNCHANGED <<vars, bridgeVars, outbox, history>>
  /\ UNCHANGED <<exchangeVars, phase, acct, posRead, started, trackVars, seeds, flatAge, userSeen>>

\* _grid_v2_track_flat_transition, when detection ran.
EndFills ==
  /\ phase = "fills" /\ queue = {}
  /\ phase' = "sync"
  /\ flatAge' = IF ~Active \/ awaiting THEN flatAge
                ELSE IF mode # "FLAT" THEN NotFlat
                ELSE IF flatAge = NotFlat THEN 0 ELSE flatAge
  /\ UNCHANGED <<vars, bridgeVars, exchangeVars, queue, outbox, acct, posRead, started, trackVars,
                 seeds, userSeen, history>>

\* process_user_data_event.
StopTracking(cid) ==
  /\ userSeen' = userSeen \cup {cid}
  /\ pendingPlaces' = Without(pendingPlaces, cid)
  /\ eligible' = eligible \ {cid}
  /\ UNCHANGED <<awaiting, pendingSeeds, checks>>

UserFill(cid) ==
  /\ Active /\ book[cid].status = "filled" /\ cid \notin userSeen
  /\ AcceptFill(cid, book[cid], "user") \/ RefuseFill(cid, book[cid]) \/ IgnoreFill(cid)
  /\ StopTracking(cid)

UserCancel(cid) ==
  /\ Active /\ book[cid].status \in {"canceled", "expired"}
  /\ DropCid(cid)
  /\ UNCHANGED <<vars, recentExits, reconOk, outbox, history, userSeen, trackVars>>

UserIgnored(cid) ==
  /\ Active => book[cid].status = "filled" /\ cid \in userSeen
  /\ UNCHANGED <<vars, bridgeVars, outbox, history, userSeen, trackVars>>

UserDataEvent ==
  /\ phase = "idle" /\ stream # <<>>
  /\ LET cid == Head(stream) IN UserFill(cid) \/ UserCancel(cid) \/ UserIgnored(cid)
  /\ stream' = Tail(stream) /\ lag' = 0
  /\ phase' = "dispatch"
  /\ UNCHANGED <<book, crashes, redeliveries, failures, queue, acct, posRead, started, seeds, flatAge>>

-----------------------------------------------------------------------------
\* Account sync, throttled: positions and open orders are two requests.

SkipSync ==
  /\ phase = "sync" /\ phase' = "dispatch"
  /\ UNCHANGED <<vars, bridgeVars, exchangeVars, queue, outbox, acct, posRead, started, trackVars,
                 seeds, flatAge, userSeen, history>>

ReadPositions ==
  /\ phase = "sync" /\ phase' = "read"
  /\ posRead' = Position
  /\ UNCHANGED <<vars, bridgeVars, exchangeVars, queue, outbox, acct, started, trackVars, seeds,
                 flatAge, userSeen, history>>

AgedPlaces == [c \in DOMAIN pendingPlaces |-> pendingPlaces[c] + 1]
Expired(visible) == {c \in DOMAIN pendingPlaces : c \in visible \/ AgedPlaces[c] >= PlaceStaleGens}

\* The awaiting-sync latch clears when every seed is visible, or expires.
SeedsSettled(visible) == pendingSeeds \subseteq visible \/ checks + 1 >= AwaitExpiryGens
LatchForgotten == UNCHANGED awaiting /\ pendingSeeds' = {} /\ checks' = 0
LatchCleared == awaiting' = FALSE /\ pendingSeeds' = {} /\ checks' = 0
RefreshLatch(visible) ==
  IF awaiting /\ pendingSeeds # {}
    THEN IF SeedsSettled(visible)
           THEN LatchCleared
           ELSE checks' = checks + 1 /\ UNCHANGED <<awaiting, pendingSeeds>>
    ELSE UNCHANGED <<awaiting, pendingSeeds, checks>>

AgedFlat == IF flatAge = NotFlat \/ flatAge = DriftCooldownGens THEN flatAge ELSE flatAge + 1

\* _grid_v2_sync_reconstruct_on_position_drift: a position while the machine
\* is FLAT and no grid order is on the exchange.
Drifted(open) ==
  /\ Active /\ mode = "FLAT" /\ posRead # 0 /\ open = {}
  /\ ~(awaiting /\ (pendingSeeds = {} \/ ~SeedsSettled(open)))
  /\ flatAge # NotFlat => AgedFlat >= DriftCooldownGens

ReadOrders ==
  /\ phase = "read" /\ phase' = "dispatch"
  /\ LET open == Cids("open")
     IN /\ acct' = [open |-> open, pos |-> posRead]
        /\ \/ /\ ~Drifted(open)
              /\ RefreshLatch(open)
              /\ pendingPlaces' = Minus(AgedPlaces, Expired(open))
              /\ UNCHANGED <<vars, bridgeVars, eligible, seeds>>
           \/ /\ Drifted(open)
              /\ \E reference \in References : Startup({}, posRead, reference)
              /\ AwaitSeeds(ProtectiveRequests)
              /\ pendingPlaces' = <<>>
              /\ eligible' = {}
  /\ posRead' = 0
  /\ flatAge' = AgedFlat
  /\ UNCHANGED <<exchangeVars, queue, outbox, started, userSeen, history>>

-----------------------------------------------------------------------------
\* Dispatch, one action at a time, wave by wave.

Dispatchable(item) == phase = "dispatch" /\ item \in outbox
                      /\ \A other \in outbox : item.wave <= other.wave

Posted(r, status) ==
  book' = Merged(book, [c \in {r.cid} |->
                          [side |-> r.side, price |-> r.price, qty |-> r.qty, status |-> status]])

\* _grid_v2_register_pending_place
RegisterPendingPlace(cid) ==
  /\ pendingPlaces' = With(pendingPlaces, cid, 0)
  /\ eligible' = eligible \cup {cid}
  /\ UNCHANGED <<registry, awaiting, pendingSeeds, checks>>

\* _grid_v2_clean_failed_place, and the latch that waits for a failed seed.
CleanFailedPlace(cid) ==
  /\ DropCid(cid)
  /\ pendingPlaces' = Without(pendingPlaces, cid)
  /\ eligible' = eligible \ {cid}
  /\ pendingSeeds' = pendingSeeds \ {cid}
  /\ LET released == cid \in pendingSeeds /\ pendingSeeds = {cid}
     IN /\ awaiting' = (awaiting /\ ~released)
        /\ checks' = IF released THEN 0 ELSE checks

\* The exchange refuses a reduce-only exit that would not reduce (-2022).
Refused(r) == r.op = "exit" /\ ~Reduces(r.side, r.qty)

Happens(outcome, outcomes) ==
  /\ outcome \in outcomes
  /\ failures' = IF outcome = "executed" THEN failures ELSE failures + 1
  /\ failures' <= MaxFailures

DispatchPlace(item) ==
  LET r == item.req
  IN /\ Dispatchable(item) /\ r.op # "cancel"
     /\ outbox' = outbox \ {item}
     /\ \/ /\ ~Refused(r)
           /\ Happens("executed", PlaceOutcomes) \/ Happens("timeout_placed", PlaceOutcomes)
           /\ Posted(r, "open")
           /\ RegisterPendingPlace(r.cid)
        \/ /\ ~Refused(r) /\ Happens("timeout_lost", PlaceOutcomes)
           /\ Posted(r, "lost")
           /\ RegisterPendingPlace(r.cid)
        \/ /\ \/ Refused(r) /\ UNCHANGED failures
              \/ ~Refused(r) /\ Happens("rejected", PlaceOutcomes)
           /\ UNCHANGED book
           /\ CleanFailedPlace(r.cid)
     /\ UNCHANGED <<vars, recentExits, reconOk, stream, lag, crashes, redeliveries, phase, queue, acct,
                    posRead, started, seeds, flatAge, userSeen, history>>

CancelOrder(cid) ==
  /\ book' = [book EXCEPT ![cid].status = "canceled"]
  /\ Notify(cid)

\* A cancel of an order that is no longer open fails with -2011 "Unknown
\* order".  The polled paths take that for a cancel ack; the user-data and
\* seed paths do nothing.
DispatchCancel(item) ==
  LET cid == item.req.cid
  IN /\ Dispatchable(item) /\ item.req.op = "cancel"
     /\ outbox' = outbox \ {item}
     /\ \/ /\ cid \in Cids("open")
           /\ \/ /\ Happens("executed", CancelOutcomes) \/ Happens("timeout_canceled", CancelOutcomes)
                 /\ CancelOrder(cid)
              \/ Happens("timeout_lost", CancelOutcomes) /\ UNCHANGED <<book, stream>>
           /\ UNCHANGED registry
        \/ /\ cid \notin Cids("open")
           /\ IF item.path = "poll" THEN DropCid(cid) ELSE UNCHANGED registry
           /\ UNCHANGED <<book, stream, failures>>
     /\ UNCHANGED <<vars, recentExits, reconOk, lag, crashes, redeliveries, phase, queue, acct, posRead,
                    started, trackVars, seeds, flatAge, userSeen, history>>

EndTick ==
  /\ phase = "dispatch" /\ outbox = {} /\ phase' = "idle"
  /\ UNCHANGED <<vars, bridgeVars, exchangeVars, queue, outbox, acct, posRead, started, trackVars,
                 seeds, flatAge, userSeen, history>>

-----------------------------------------------------------------------------
\* The process dies between two steps and comes back with nothing but the
\* exchange.

Forgotten ==
  /\ SetSnapshot("FLAT", CHOOSE r \in References : TRUE, EmptyWindow, <<>>, <<>>, Never)
  /\ intents' = NoIntents
  /\ entryReg' = <<>> /\ staleEntries' = <<>> /\ exitReg' = <<>> /\ staleExits' = <<>>
  /\ recentExits' = {} /\ reconOk' = FALSE
  /\ acct' = NoAcct /\ posRead' = 0 /\ started' = FALSE
  /\ pendingPlaces' = <<>> /\ eligible' = {}
  /\ awaiting' = FALSE /\ pendingSeeds' = {} /\ checks' = 0
  /\ seeds' = {} /\ flatAge' = NotFlat /\ userSeen' = {}
  /\ queue' = {} /\ outbox' = {}

Crash ==
  /\ phase # "down" /\ crashes < MaxCrashes
  /\ phase' = "down" /\ crashes' = crashes + 1
  /\ Forgotten
  /\ stream' = <<>> /\ lag' = 0
  /\ bookings' = <<>> /\ refused' = {}
  /\ UNCHANGED <<book, redeliveries, failures, entrySeq, exitSeq>>

Restart ==
  /\ phase = "down" /\ phase' = "idle"
  /\ UNCHANGED <<vars, bridgeVars, exchangeVars, queue, outbox, acct, posRead, started, trackVars,
                 seeds, flatAge, userSeen, history>>

-----------------------------------------------------------------------------
LiveInit ==
  /\ mode = "FLAT" /\ ref = CHOOSE r \in References : TRUE
  /\ window = EmptyWindow /\ openLots = <<>> /\ closedLots = {} /\ exits = <<>>
  /\ emergencyStopped = FALSE /\ lastRecenterTs = Never /\ intents = NoIntents
  /\ entryReg = <<>> /\ staleEntries = <<>> /\ exitReg = <<>> /\ staleExits = <<>>
  /\ entrySeq = 0 /\ exitSeq = 0 /\ recentExits = {} /\ reconOk = FALSE
  /\ book = <<>> /\ stream = <<>> /\ lag = 0 /\ crashes = 0 /\ redeliveries = 0 /\ failures = 0
  /\ phase = "idle" /\ acct = NoAcct /\ posRead = 0 /\ started = FALSE
  /\ pendingPlaces = <<>> /\ eligible = {} /\ awaiting = FALSE /\ pendingSeeds = {} /\ checks = 0
  /\ seeds = {} /\ flatAge = NotFlat /\ userSeen = {} /\ queue = {} /\ outbox = {}
  /\ bookings = <<>> /\ refused = {}

Engine ==
  \/ Boot \/ BeginTick \/ EndFills \/ UserDataEvent
  \/ SkipSync \/ ReadPositions \/ ReadOrders \/ EndTick
  \/ \E cid \in queue : HandleFill(cid)
  \/ \E item \in outbox : DispatchPlace(item) \/ DispatchCancel(item)

Exchange ==
  \E cid \in DOMAIN book : ExchangeFill(cid) \/ OutsideCancel(cid) \/ Redeliver(cid)

LiveNext == Engine \/ Exchange \/ Crash \/ Restart

LiveSpec == LiveInit /\ [][LiveNext]_liveVars

\* A process that lives on.
OneLifeSpec == LiveInit /\ [][Engine \/ Exchange]_liveVars

\* The loop keeps ticking, events are delivered and the throttled sync comes
\* due again and again.
FairLiveSpec ==
  /\ OneLifeSpec
  /\ WF_liveVars(Engine)
  /\ SF_liveVars(UserDataEvent) /\ SF_liveVars(ReadPositions)
  /\ SF_liveVars(BeginTick)

-----------------------------------------------------------------------------
\* What the path promises.

\* Type invariant.
LiveTypeOK ==
  /\ phase \in Phases
  /\ \A c \in DOMAIN book : book[c].status \in {"open", "filled", "canceled", "expired", "lost"}
  /\ ActiveCids \cap StaleCids = {}
  /\ {entryReg[c] : c \in DOMAIN entryReg} \subseteq Entry
  /\ \A c \in DOMAIN pendingPlaces : pendingPlaces[c] \in 0..(PlaceStaleGens - 1)
  /\ checks \in 0..(AwaitExpiryGens - 1)
  /\ awaiting => pendingSeeds # {}
  /\ flatAge \in NotFlat..DriftCooldownGens
  /\ queue \cup eligible \subseteq {EntryCid(n) : n \in 0..entrySeq} \cup {ExitCid(n) : n \in 0..exitSeq}

\* "never assume fill without evidence" (docs/27, 17.4): a booked fill is one the
\* exchange made.
NoPhantomFill == DOMAIN bookings \subseteq Cids("filled")

\* I8: the machine invents no fill, reported or inferred.  What it books has filled,
\* or is an absence that its view cannot tell from a fill: of an order that somebody
\* else cancelled, or of a placement that timed out and never arrived (NoPhantomFill
\* fails there).  Never an order that rests, was refused, was not sent yet, or that the
\* grid cancelled itself.
NoFillInvented ==
  DOMAIN bookings \subseteq Cids("filled") \cup Cids("expired") \cup Cids("lost")

\* I8: the fill that polling inferred, the stream reported and the stream
\* reported again moves the machine once.
EachFillBookedOnce == \A c \in DOMAIN bookings : bookings[c] = 1

\* Every open order of ours is in the registry, active or stale, so its fill
\* can be told from a stranger's, whenever it comes.
OwnOrdersKnown == Active => Cids("open") \subseteq ActiveCids \cup StaleCids

\* Nothing is in flight between the exchange and the machine.
Quiescent == phase = "idle" /\ Active /\ stream = <<>> /\ seeds = {}

\* I3, 17.5: a lot has its one exit order on the exchange.
LotsProtected ==
  Quiescent /\ refused = {} => \A id \in OpenIds :
    Cardinality({c \in DOMAIN KnownExits : KnownExits[c] = id /\ c \in Cids("open")}) = 1

LotQty(id) == IF openLots[id].side = "LONG" THEN openLots[id].qty ELSE -openLots[id].qty

\* I6: the lots of the machine add up to the position of the exchange.
BooksBalance ==
  Quiescent /\ refused = {} => MapThenSumSet(LotQty, OpenIds) = Position

\* 17.6: no phantom lot.  The lots of the machine are covered by entries that
\* filled on their side, each counted once, across restarts and
\* reconstructions too.
LotsWereFilled ==
  \A side \in OrderSide :
    MapThenSumSet(LAMBDA id : openLots[id].qty, {id \in OpenIds : openLots[id].side = LotSideOf(side)})
      <= MapThenSumSet(LAMBDA c : book[c].qty,
           {c \in Cids("filled") : IsEntry(c) /\ book[c].side = side})

\* 17.4: every fill is accounted for, booked or refused, sooner or later.
FillsSettle == []<>(Cids("filled") \subseteq DOMAIN bookings \cup refused)

\* Fill detection is blind while the seed latch is set: it always opens again.
DetectionResumes == []<>(~awaiting)

=============================================================================
