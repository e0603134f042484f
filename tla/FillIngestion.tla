---------------------------- MODULE FillIngestion ----------------------------
(***************************************************************************)
(* Fill ingestion in scripts/run_live_reconcile.py: each poll fetches the  *)
(* account's trades after a persisted cursor (execution/fill_cursor.py),   *)
(* counts them (fill_ingest.py, fill_tracker.py) and feeds them to the     *)
(* consecutive-loss guard (risk/consecutive_loss_wiring.py), which pairs   *)
(* them into round trips (ml/fill_dataset.py) and saves its own state.     *)
(* The process may die between any two of its steps.                       *)
(*                                                                         *)
(* Every trade has one unit and no fee, and every trade parses.  Trade     *)
(* numbers are those of the exchange: each symbol has its own.             *)
(***************************************************************************)
EXTENDS Integers, Sequences, FiniteSets, SequencesExt

CONSTANTS
  Traded,      \* the symbol whitelist, in order
  Prices,      \* trade prices
  Threshold,   \* GRINDER_CONSEC_LOSS_THRESHOLD
  Page,        \* trades returned by one fetch (500 in the code)
  MaxTrades,   \* bound: trades of one symbol
  MaxIngestFailures  \* bound: failed fetches, and deaths of the process

ASSUME FIAssumption == Page \in Nat /\ MaxIngestFailures \in Nat

VARIABLES
  tape,      \* the exchange: every symbol's trades; a trade's number is its index
  ingestPhase,     \* the poll's progress, "down" when the process is dead
  batch,     \* all_trades of this poll, those not yet processed
  mark,      \* fill_cursor.last_trade_id in memory
  service,   \* ConsecutiveLossService in memory
  override,  \* GRINDER_OPERATOR_OVERRIDE = PAUSE in this process
  files,     \* the cursor file, the state file and its checksum
  ingestFailures,  \* failures so far
  forgot     \* ghost: a restart could not use the state file

fiVars == <<tape, ingestPhase, batch, mark, service, override, files, ingestFailures, forgot>>

Symbols == ToSet(Traded)
Trades == [side : {"BUY", "SELL"}, price : Prices]
NoPosition == [dir |-> "none", qty |-> 0, cost |-> 0, out |-> 0, got |-> 0]
Account == [position |-> NoPosition, count |-> 0, tripped |-> FALSE]
NewService == [of |-> [s \in Symbols |-> Account], last |-> 0, trips |-> 0, dirty |-> FALSE]

FIInit ==
  /\ tape = [s \in Symbols |-> <<>>]
  /\ ingestPhase = "idle" /\ batch = {} /\ mark = 0 /\ override = FALSE
  /\ service = NewService
  /\ files = [cursor |-> 0, torn |-> FALSE, state |-> NewService, seal |-> "none"]
  /\ ingestFailures = 0 /\ forgot = FALSE

-----------------------------------------------------------------------------

\* RoundtripTracker.record: a trade against the open position closes part of
\* it, any other opens or adds; the trip ends when as much came out as went in.
Opposes(pos, t) == pos.dir = (IF t.side = "BUY" THEN "short" ELSE "long")
Traded1(pos, t) ==
  IF Opposes(pos, t) THEN [pos EXCEPT !.out = @ + 1, !.got = @ + t.price]
  ELSE [pos EXCEPT !.dir = IF t.side = "BUY" THEN "long" ELSE "short",
                   !.qty = @ + 1, !.cost = @ + t.price]
Ended(pos) == pos.dir # "none" /\ pos.out >= pos.qty
Lost(pos) ==
  LET gain == pos.got * pos.qty - pos.cost * pos.out
  IN IF pos.dir = "long" THEN gain < 0 ELSE gain > 0

\* ConsecutiveLossGuard.update after a completed round trip.
Booked(account, t) ==
  LET pos == Traded1(account.position, t)
      n   == account.count + 1
  IN IF ~Ended(pos) THEN [account EXCEPT !.position = pos]
     ELSE IF Lost(pos) THEN [position |-> NoPosition, count |-> n, tripped |-> n >= Threshold]
     ELSE Account

\* The tape's record of a trade that was fetched.
Raw(t) == tape[t.sym][t.id]

\* The service after a trade: one not above the last number seen is skipped,
\* whatever its symbol.
ProcessedAgain(svc, t) ==
  IF t.id < svc.last THEN svc
  ELSE [of |-> [svc.of EXCEPT ![t.sym] = Booked(@, Raw(t))], last |-> t.id, dirty |-> TRUE, trips |-> svc.trips]
Processed(svc, t) ==
  IF t.id <= svc.last THEN svc
  ELSE LET new   == Booked(svc.of[t.sym], Raw(t))
           trips == new.tripped /\ ~svc.of[t.sym].tripped
       IN [of |-> [svc.of EXCEPT ![t.sym] = new], last |-> t.id, dirty |-> TRUE,
           trips |-> IF trips THEN svc.trips + 1 ELSE svc.trips]

-----------------------------------------------------------------------------

\* External: a trade on the account.
Trade(s, t) ==
  /\ Len(tape[s]) < MaxTrades
  /\ tape' = [tape EXCEPT ![s] = Append(@, t)]
  /\ UNCHANGED <<ingestPhase, batch, mark, service, override, files, ingestFailures, forgot>>

\* fetch_user_trades_raw: a page of one symbol's trades after the mark.
Fetched(s) ==
  {[sym |-> s, id |-> n] : n \in {m \in DOMAIN tape[s] : m > mark /\ m <= mark + Page}}

\* _fetch_and_ingest_fills: a symbol whose fetch fails is left out, the rest is
\* counted, and the mark is the highest number fetched.
Poll ==
  \E failed \in SUBSET Symbols :
    /\ ingestPhase = "idle"
    /\ ingestFailures + Cardinality(failed) <= MaxIngestFailures
    /\ ingestFailures' = ingestFailures + Cardinality(failed)
    /\ batch' = UNION {Fetched(s) : s \in Symbols \ failed}
    /\ mark' = Max({mark} \cup {t.id : t \in batch'})
    /\ ingestPhase' = "fetched"
    /\ UNCHANGED <<tape, service, override, files, forgot>>

\* process_trades sorts by the number; the sort keeps the symbols of one number
\* in the order they were fetched.
FetchedAt(s) == CHOOSE i \in DOMAIN Traded : Traded[i] = s
Before(t, other) ==
  t.id < other.id \/ (t.id = other.id /\ FetchedAt(t.sym) < FetchedAt(other.sym))

\* One round of process_trades; a loss streak that reaches the threshold pauses
\* the operator.
Process(t) ==
  /\ ingestPhase = "fetched"
  /\ t \in batch /\ \A other \in batch \ {t} : Before(t, other)
  /\ batch' = batch \ {t}
  /\ service' = Processed(service, t)
  /\ override' = (override \/ service'.trips > service.trips)
  /\ UNCHANGED <<tape, ingestPhase, mark, files, ingestFailures, forgot>>

\* save_state_if_dirty
EndProcess ==
  /\ ingestPhase = "fetched" /\ batch = {}
  /\ ingestPhase' = IF service.dirty THEN "save state" ELSE "save cursor"
  /\ UNCHANGED <<tape, batch, mark, service, override, files, ingestFailures, forgot>>

\* save_consec_loss_state: only a later state replaces the file, by an atomic
\* rename; the checksum follows in a second file.
SaveState ==
  /\ ingestPhase = "save state"
  /\ service' = [service EXCEPT !.dirty = FALSE]
  /\ IF files.seal # "none" /\ service.last <= files.state.last
       THEN files' = files /\ ingestPhase' = "save cursor"
       ELSE /\ files' = [files EXCEPT !.state = service',
                                      !.seal = IF @ = "none" THEN "missing" ELSE "stale"]
            /\ ingestPhase' = "seal state"
  /\ UNCHANGED <<tape, batch, mark, override, ingestFailures, forgot>>

SealState ==
  /\ ingestPhase = "seal state"
  /\ files' = [files EXCEPT !.seal = "good"]
  /\ ingestPhase' = "save cursor"
  /\ UNCHANGED <<tape, batch, mark, service, override, ingestFailures, forgot>>

\* save_fill_cursor: never backwards, unless the file cannot be read; the
\* file is truncated before it is written.
SaveCursor ==
  /\ ingestPhase = "save cursor"
  /\ files' = IF ~files.torn /\ mark < files.cursor THEN files
              ELSE [files EXCEPT !.cursor = mark, !.torn = FALSE]
  /\ ingestPhase' = "idle"
  /\ UNCHANGED <<tape, batch, mark, service, override, ingestFailures, forgot>>

\* The process dies, in the middle of a write of the cursor perhaps.
Die ==
  /\ ingestPhase # "down" /\ ingestFailures < MaxIngestFailures
  /\ ingestFailures' = ingestFailures + 1
  /\ ingestPhase' = "down" /\ batch' = {} /\ mark' = 0
  /\ service' = NewService /\ override' = FALSE
  /\ files' \in {files} \cup (IF ingestPhase = "save cursor" /\ (files.torn \/ mark >= files.cursor)
                                THEN {[files EXCEPT !.torn = TRUE]} ELSE {})
  /\ UNCHANGED <<tape, forgot>>

\* main: load_fill_cursor and ConsecutiveLossService.__init__; an unreadable
\* cursor starts from nothing, and so does a state its checksum contradicts.
Start ==
  /\ ingestPhase = "down"
  /\ mark' = IF files.torn THEN 0 ELSE files.cursor
  /\ service' = IF files.seal = "stale" THEN NewService ELSE files.state
  /\ forgot' = (forgot \/ files.seal = "stale")
  /\ ingestPhase' = "idle"
  /\ UNCHANGED <<tape, batch, override, files, ingestFailures>>

FINext ==
  \/ \E s \in Symbols, t \in Trades : Trade(s, t)
  \/ \E t \in batch : Process(t)
  \/ Poll \/ EndProcess \/ SaveState \/ SealState \/ SaveCursor \/ Die \/ Start

FISpec == FIInit /\ [][FINext]_fiVars

-----------------------------------------------------------------------------

\* What the guard is to hold after each number of a symbol's trades.
StreakOf(trades) ==
  LET streak[n \in 0..Len(trades)] ==
        IF n = 0 THEN Account ELSE Booked(streak[n - 1], trades[n])
  IN streak

\* However often the process dies and whatever is fetched twice, the guard
\* counts each round trip once: its streak and its open position are those of
\* the trades up to the last one it has seen, and none of these is skipped.
\* (Not when the state file was torn from its checksum, nor with two symbols,
\* whose numbers share one mark.)
StreakSurvivesRestarts ==
  ingestPhase # "down" /\ ~forgot =>
    \A s \in Symbols : Symbols = {s} =>
      /\ service.last <= Len(tape[s])
      /\ service.of[s] = StreakOf(tape[s])[service.last]
=============================================================================
