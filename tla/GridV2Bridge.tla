---------------------------- MODULE GridV2Bridge ----------------------------
(***************************************************************************)
(* GridV2Bridge and GridV2Adapter (src/grinder/grid_v2/bridge.py and       *)
(* adapter.py): the registry that ties the client order ids (CIDs) of the  *)
(* orders on the exchange to the entries and lots of the state machine.    *)
(* Each operator below is one method, as an action on the registry and on  *)
(* the machine of GridV2State; GridV2Live calls them as the engine does.   *)
(*                                                                         *)
(* An entry CID is <<"e", n>>, an exit CID <<"x", n>>.  A CID also carries *)
(* the second it was generated in, so the counters, which a restart        *)
(* recovers from the open orders only, are taken never to repeat a CID.    *)
(***************************************************************************)
EXTENDS GridV2State, Functions

VARIABLES
  entryReg,          \* _entries: entry CID -> <<side, price>>
  staleEntries,      \* _stale_entries: those whose cancel was resolved
  exitReg,           \* _exits: exit CID -> the lot it closes
  staleExits,        \* _stale_exits
  entrySeq, exitSeq, \* _entry_seq, _exit_seq
  recentExits,       \* _recent_exit_fills
  reconOk            \* _reconstruction_ok

registry == <<entryReg, staleEntries, exitReg, staleExits, entrySeq, exitSeq>>
bridgeVars == <<registry, recentExits, reconOk>>

EntryCid(n) == <<"e", n>>
ExitCid(n)  == <<"x", n>>
IsEntry(cid) == cid[1] = "e"
IsExit(cid)  == cid[1] = "x"

\* The lot id that reconstruction gives to a position without exit orders.
F2Lot == <<"f2", 0>>

Only(f, S)  == Restrict(f, DOMAIN f \cap S)
Minus(f, S) == Restrict(f, DOMAIN f \ S)
Merged(f, g) == [x \in DOMAIN f \cup DOMAIN g |-> IF x \in DOMAIN f THEN f[x] ELSE g[x]]

ActiveCids == DOMAIN entryReg \cup DOMAIN exitReg
StaleCids  == DOMAIN staleEntries \cup DOMAIN staleExits

KnownEntries == Merged(entryReg, staleEntries)
KnownExits   == Merged(exitReg, staleExits)

-----------------------------------------------------------------------------
\* Resolution of the intents that the machine has just emitted.

\* CIDs are drawn in the order the intents are listed: bids before asks,
\* nearest first.
Listed(entry, among) ==
  Cardinality({other \in among \ {entry} :
    \/ other[1] = "BUY" /\ entry[1] = "SELL"
    \/ other[1] = entry[1] /\ Outward(entry[1]) * (entry[2] - other[2]) > 0})
NewCid(entry, among) == EntryCid(entrySeq + Listed(entry, among))

CancelledEntries(reg) == {c \in DOMAIN reg : reg[c] \in intents'.cancelEntry}
CancelledExits == {c \in DOMAIN exitReg : exitReg[c] \in intents'.cancelExit}

\* register_entry skips a placement whose slot another CID holds.
Vacant(entry, reg) == \A c \in DOMAIN reg : reg[c] # entry

\* The placements of an intent set that find their slot vacant, as registrations.
Registrations(reg, among) ==
  LET placed == {e \in among : Vacant(e, reg)}
  IN [c \in {NewCid(e, among) : e \in placed} |->
        CHOOSE e \in placed : NewCid(e, among) = c]

CancelRequest(cid) == [op |-> "cancel", cid |-> cid]
EntryRequest(cid, entry, kind) ==
  [op |-> kind, cid |-> cid, side |-> entry[1], price |-> entry[2], qty |-> 1]
ExitRequestSameSide(cid, lot, exit) ==
  [op |-> "exit", cid |-> cid, price |-> exit.price, qty |-> lot.qty,
   side |-> IF lot.side = "LONG" THEN "BUY" ELSE "SELL"]
ExitRequest(cid, lot, exit) ==
  [op |-> "exit", cid |-> cid, price |-> exit.price, qty |-> lot.qty,
   side |-> IF lot.side = "LONG" THEN "SELL" ELSE "BUY"]

\* The registry keeps the CID of a cancelled order, as stale, so that a late
\* fill still translates.
KeptStale(reg, cids) == Only(reg, cids)

\* resolve_actions_partial, and resolve_actions: cancels of entries that are
\* registered become stale, placements are registered.  `entries', `exs' are
\* the active registrations once the fill is confirmed; the result is the
\* set of ExecutionActions.  A reseed's placements are tagged RECENTER.
PlacementKind == IF intents'.placeEntry = AllEntries(BuildWindow(ref')) THEN "reseed" ELSE "entry"
Requests(entries, exs) ==
  LET goneEntries == CancelledEntries(entries)
      new == Registrations(Minus(entries, goneEntries), intents'.placeEntry)
  IN {CancelRequest(c) : c \in goneEntries \cup (CancelledExits \cap DOMAIN exs)}
       \cup {EntryRequest(c, new[c], PlacementKind) : c \in DOMAIN new}
       \cup {ExitRequest(ExitCid(exitSeq), openLots'[id], exits'[id]) : id \in intents'.placeExit}

Resolve(entries, exs, staleE, staleX) ==
  LET goneEntries == CancelledEntries(entries)
      goneExits   == CancelledExits \cap DOMAIN exs
      left        == Minus(entries, goneEntries)
  IN /\ entryReg' = Merged(left, Registrations(left, intents'.placeEntry))
     /\ staleEntries' = Merged(staleE, KeptStale(entries, goneEntries))
     /\ exitReg' = Merged(Minus(exs, goneExits),
                          [c \in {ExitCid(exitSeq) : id \in intents'.placeExit} |->
                             CHOOSE id \in intents'.placeExit : TRUE])
     /\ staleExits' = Merged(staleX, KeptStale(exs, goneExits))
     /\ entrySeq' = entrySeq + Cardinality(intents'.placeEntry)
     /\ exitSeq' = exitSeq + Cardinality(intents'.placeExit)

-----------------------------------------------------------------------------
\* on_fill

\* remove_entry and remove_exit, called by on_cancel_ack, by the cleanup of
\* rejected fills and of failed placements: the active registration goes,
\* else the stale one.
DropCid(cid) ==
  /\ entryReg' = Without(entryReg, cid) /\ exitReg' = Without(exitReg, cid)
  /\ staleEntries' = Without(staleEntries, cid)
  /\ staleExits' = Without(staleExits, cid)
  /\ UNCHANGED <<entrySeq, exitSeq>>

\* translate_fill prefers the registered price, of an active or stale entry;
\* for an unregistered CID the event's own price makes the entry.
EntryPrice(cid, price) ==
  IF cid \in DOMAIN KnownEntries THEN KnownEntries[cid][2] ELSE price

AcceptEntryFill(cid, side, price, qty) ==
  /\ \/ ExecuteEntry(cid, side, EntryPrice(cid, price), qty)
     \/ ExecuteNetoff(cid, side, EntryPrice(cid, price), qty)
  /\ Resolve(Without(entryReg, cid), exitReg, Without(staleEntries, cid), staleExits)
  /\ UNCHANGED <<recentExits, reconOk>>
EntryFillRequests(cid) == Requests(Without(entryReg, cid), exitReg)

\* Both callers drop the CID of a rejected fill.
RejectEntryFill(cid, side, price, qty) ==
  /\ RejectEntry(cid, side, EntryPrice(cid, price), qty)
  /\ DropCid(cid)
  /\ UNCHANGED <<recentExits, reconOk>>

SuppressedExit(cid) == cid \in recentExits

AcceptExitFill(cid, qty, ts) ==
  /\ ~SuppressedExit(cid)
  /\ cid \in DOMAIN KnownExits
  /\ ExecuteExit(KnownExits[cid], KnownExits[cid], qty, ts)
  /\ Resolve(entryReg, Without(exitReg, cid), staleEntries, Without(staleExits, cid))
  /\ recentExits' = recentExits \cup {cid}
  /\ UNCHANGED reconOk
ExitFillRequests(cid) == Requests(entryReg, Without(exitReg, cid))

\* An unregistered exit CID is never a lot's exit_order_id: EXIT_LOT_NOT_FOUND.
RejectExitFill(cid, qty) ==
  /\ ~SuppressedExit(cid)
  /\ IF cid \in DOMAIN KnownExits
       THEN RejectExit(KnownExits[cid], KnownExits[cid], qty)
       ELSE NoTransition
  /\ DropCid(cid)
  /\ UNCHANGED <<recentExits, reconOk>>

-----------------------------------------------------------------------------
\* startup, startup_fresh and recenter_flat.  An order is
\* [cid, side, price, qty].

SetSnapshot(newMode, newRef, newWindow, lots, exitOrders, ts) ==
  /\ mode' = newMode /\ ref' = newRef /\ window' = newWindow
  /\ openLots' = lots /\ closedLots' = {} /\ exits' = exitOrders
  /\ emergencyStopped' = FALSE
  /\ lastRecenterTs' = ts

InferredLot(o) ==
  IF o.side = "SELL"
    THEN [side |-> "LONG", qty |-> o.qty, price |-> (o.price * StepDen) \div (StepDen + StepNum)]
    ELSE [side |-> "SHORT", qty |-> o.qty, price |-> (o.price * StepDen) \div (StepDen - StepNum)]

F2Side(pos) == IF pos > 0 THEN "BUY" ELSE "SELL"

\* The lots and exits that reconstruct_snapshot infers: one per exit order,
\* named after it, or the protective one of a position without exits.
InferredLots(orders, pos, reference) ==
  LET exitOrders == {o \in orders : IsExit(o.cid)}
  IN IF exitOrders = {} /\ pos # 0
       THEN [id \in {F2Lot} |-> [side |-> LotSideOf(F2Side(pos)), price |-> reference, qty |-> Abs(pos)]]
       ELSE [id \in {o.cid : o \in exitOrders} |->
               InferredLot(CHOOSE o \in exitOrders : o.cid = id)]

InferredExits(orders, pos, reference) ==
  LET exitOrders == {o \in orders : IsExit(o.cid)}
  IN IF exitOrders = {} /\ pos # 0
       THEN [id \in {F2Lot} |-> [status |-> "OPEN", price |-> ExitPrice(F2Side(pos), reference)]]
       ELSE [id \in {o.cid : o \in exitOrders} |->
               [status |-> "OPEN", price |-> (CHOOSE o \in exitOrders : o.cid = id).price]]

EntriesOf(orders, side) == {o \in orders : IsEntry(o.cid) /\ o.side = side}

\* The fail-closed checks F1, F3, F4, F6 and F7.
Consistent(orders, pos) ==
  LET exitSides == {o.side : o \in {x \in orders : IsExit(x.cid)}}
  IN /\ \A a, b \in EntriesOf(orders, "BUY") \cup EntriesOf(orders, "SELL") :
          a.side = b.side /\ a.price = b.price => a = b
     /\ \A side \in OrderSide : Cardinality(EntriesOf(orders, side)) <= LevelsPerSide
     /\ exitSides # {} => pos # 0
     /\ Cardinality(exitSides) <= 1
     /\ "SELL" \in exitSides => pos > 0
     /\ "BUY" \in exitSides => pos < 0

WindowOf(orders) == [side \in OrderSide |-> {o.price : o \in EntriesOf(orders, side)}]

ModeOf(lots) == IF DOMAIN lots = {} THEN "FLAT" ELSE lots[CHOOSE id \in DOMAIN lots : TRUE].side

\* startup: a bridge rebuilt around a reference price.  The registry is
\* cleared and holds the orders found.
Startup(orders, pos, reference) ==
  /\ Consistent(orders, pos)
  /\ SetSnapshot(ModeOf(InferredLots(orders, pos, reference)), reference, WindowOf(orders),
                 InferredLots(orders, pos, reference), InferredExits(orders, pos, reference), Never)
  /\ intents' = NoIntents
  /\ entryReg' = [c \in {o.cid : o \in {x \in orders : IsEntry(x.cid)}} |->
                    LET o == CHOOSE x \in orders : x.cid = c IN <<o.side, o.price>>]
  /\ staleEntries' = <<>> /\ staleExits' = <<>>
  /\ recentExits' = {}
  /\ reconOk' = TRUE
  /\ UNCHANGED entrySeq
  \* get_f2_protective_exit_actions registers the exit of the F2 lot.
  /\ IF F2Lot \in DOMAIN openLots'
       THEN exitReg' = [c \in {ExitCid(exitSeq)} |-> F2Lot] /\ exitSeq' = exitSeq + 1
       ELSE exitReg' = [c \in {o.cid : o \in {x \in orders : IsExit(x.cid)}} |-> c]
            /\ UNCHANGED exitSeq

ProtectiveRequests ==
  {ExitRequest(ExitCid(exitSeq), openLots'[id], exits'[id]) : id \in DOMAIN openLots' \cap {F2Lot}}

\* startup fails closed: the bridge refuses every later call.
StartupFailed(orders, pos) ==
  /\ ~Consistent(orders, pos)
  /\ reconOk' = FALSE
  /\ UNCHANGED <<vars, registry, recentExits>>

\* startup_fresh, when `orders' is empty, and startup followed by
\* recenter_flat: the window is built around the reference, its levels are
\* registered, the orders found are cancelled.
StartupFlat(orders, reference, ts) ==
  /\ Consistent(orders, 0)
  /\ SetSnapshot("FLAT", reference, BuildWindow(reference), <<>>, <<>>,
                 IF orders = {} THEN Never ELSE ts)
  /\ intents' = [NoIntents EXCEPT !.placeEntry = AllEntries(window'),
                                  !.cancelEntry = AllEntries(WindowOf(orders))]
  /\ entryReg' = Registrations(<<>>, AllEntries(window'))
  /\ staleEntries' = [c \in {o.cid : o \in orders} |->
                        LET o == CHOOSE x \in orders : x.cid = c IN <<o.side, o.price>>]
  /\ entrySeq' = entrySeq + Cardinality(AllEntries(window'))
  /\ exitReg' = <<>> /\ staleExits' = <<>>
  /\ recentExits' = {}
  /\ reconOk' = TRUE
  /\ UNCHANGED exitSeq
SeedRequests(orders) ==
  {CancelRequest(o.cid) : o \in orders}
    \cup {EntryRequest(c, entryReg'[c], "reseed") : c \in DOMAIN entryReg'}

=============================================================================
