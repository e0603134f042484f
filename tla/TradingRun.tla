----------------------------- MODULE TradingRun -----------------------------
(***************************************************************************)
(* scripts/run_trading.py from main() to sys.exit(), with the operator     *)
(* tool scripts/exchange_state.py it calls and the market feed under its   *)
(* loop.  A run passes the startup gates, lets the launch guard inspect    *)
(* (and perhaps clean) the exchange, trades until the loop stops or        *)
(* raises, and cleans the exchange on the way out.  Every exchange read    *)
(* and write is a step of its own: orders fill in between, the process may *)
(* be killed and started again, and under HA another instance trades.      *)
(***************************************************************************)
EXTENDS Integers, FiniteSets

CONSTANTS
  Traded,      \* the symbols of the run
  Slots,       \* orders that may rest on one symbol
  MaxHeld,     \* bound on the size of a position
  Settings,    \* the command lines and environments a run may be started with
  UserTries,   \* run_user_data_loop(max_retries)
  MaxRuns      \* bound on the number of runs

Options == [live : BOOLEAN, futures : BOOLEAN, armed : BOOLEAN, mainnet : BOOLEAN,
            fixture : BOOLEAN, ha : BOOLEAN, skip_guard : BOOLEAN, pre_cleanup : BOOLEAN,
            cleanup_on_exit : BOOLEAN]

ASSUME TradingRunAssumption ==
  /\ Settings \subseteq Options /\ Traded # {}
  /\ IsFiniteSet(Slots)
  /\ {MaxHeld, UserTries} \subseteq Nat /\ MaxRuns \in Nat \ {0}

VARIABLES
  resting,   \* exchange: the orders open on each symbol
  holding,   \* exchange: the size of each position
  options,
  at,        \* where main() is
  todo, sym, \* the symbols of the current pass not yet done with, and the one in hand
  half,      \* which of its two reads cmd_verify_programmatic makes next
  found,      \* what the reads in progress have returned
  prior,     \* the first of the two snapshots compared
  recovered, \* symbols the guard found holding a position, and left alone
  exiting,   \* main() is in its finally block
  swept,     \* symbols cleanup-on-exit has turned to
  failed,    \* failures of cleanup-on-exit: whether there were any
  reason,    \* loop_stop_reason
  code,      \* exit_code
  began,     \* connector.connect() returned and the loop was entered
  feed,      \* the market stream: up, down (transport closed), silent (a read timed out or failed)
  userTask,  \* attempts left to the user-data task; 0 once it is over
  shutdown,  \* the event set by SIGINT and SIGTERM
  leads,     \* get_ha_state().role is ACTIVE
  runs

exchange == <<resting, holding>>
passVars == <<todo, sym, half, found, prior, recovered>>
exitVars == <<exiting, swept, failed, reason, code>>
runVars == <<began, feed, userTask, shutdown>>
tradingRunVars == <<exchange, passVars, exitVars, runVars, options, at, leads, runs>>

Killed == 137
Nothing == [orders |-> 0, held |-> 0]
Clean(s) == resting[s] = {} /\ holding[s] = 0

\* futures, mainnet, armed and no fixture: what the launch guard, and cleanup too, ask for.
LiveMainnet == options.futures /\ options.mainnet /\ options.armed /\ ~options.fixture
Real == options.futures /\ ~options.fixture

Fresh(o) ==
  /\ options' = o /\ at' = "env"
  /\ todo' = {} /\ sym' = sym /\ half' = "orders" /\ found' = Nothing /\ prior' = Nothing
  /\ recovered' = {} /\ exiting' = FALSE /\ swept' = {} /\ failed' = FALSE
  /\ reason' = "not_started" /\ code' = 0
  /\ began' = FALSE /\ feed' = "down" /\ userTask' = 0 /\ shutdown' = FALSE /\ leads' = FALSE

TradingRunInit ==
  /\ resting = [s \in Traded |-> {}] /\ holding = [s \in Traded |-> 0]
  /\ options \in Settings /\ at = "env"
  /\ todo = {} /\ sym = (CHOOSE s \in Traded : TRUE) /\ half = "orders" /\ found = Nothing /\ prior = Nothing
  /\ recovered = {} /\ exiting = FALSE /\ swept = {} /\ failed = FALSE
  /\ reason = "not_started" /\ code = 0
  /\ began = FALSE /\ feed = "down" /\ userTask = 0 /\ shutdown = FALSE /\ leads = FALSE
  /\ runs = 1

----------------------------------------------------------------------------
(* StartupGates: each gate passes or exits. *)

Goes(place) == at' = place
Quits(with) == at' = "exited" /\ code' = with /\ UNCHANGED <<exiting, swept, failed, reason>>

StartupGates == {"env", "elector", "port", "preflight", "server", "engine", "checks"}
After == [env |-> "elector", elector |-> "port", port |-> "preflight", preflight |-> "server",
          server |-> "engine", engine |-> "checks", checks |-> "guard"]

\* What a gate asks of the options alone; the rest (keys, acknowledgements, the network,
\* exchangeInfo, the port number) the environment decides.
Admits(gate) ==
  /\ gate = "port" /\ options.futures => options.live /\ options.armed
  /\ gate = "preflight" /\ options.armed /\ options.mainnet => options.live

PassGate ==
  /\ at \in StartupGates /\ Admits(at)
  /\ Goes(After[at])
  /\ UNCHANGED <<exchange, passVars, exitVars, runVars, options, leads, runs>>

\* start_ha_elector() never exits: it returns None.
FailGate ==
  /\ at \in StartupGates \ {"elector"}
  /\ Quits(IF at = "preflight" THEN 2 ELSE 1)
  /\ UNCHANGED <<exchange, passVars, runVars, options, leads, runs>>

----------------------------------------------------------------------------
(* The two passes over the symbols: the launch guard's, and cleanup-on-exit's. *)

\* Takes up the next symbol of the pass, or ends the pass.
Turns(left, start, end) ==
  /\ todo' = left
  /\ \/ left = {} /\ Goes(end) /\ UNCHANGED <<sym, swept>>
     \/ /\ sym' \in left /\ Goes(start)
        /\ swept' = IF exiting THEN swept \cup {sym'} ELSE swept

GuardGoesOn == Turns(todo \ {sym}, "check", "contract") /\ UNCHANGED <<exiting, failed, reason, code>>

SweepGoesOnUncounted(ok) ==
  /\ Turns(todo \ {sym}, "sweep", "counted")
  /\ failed' = failed
  /\ UNCHANGED <<exiting, reason, code>>

\* The end of one symbol of _run_cleanup_on_exit, its failure counted.
SweepGoesOn(ok) ==
  /\ Turns(todo \ {sym}, "sweep", "counted")
  /\ failed' = (failed \/ ~ok)
  /\ UNCHANGED <<exiting, reason, code>>

BeginGuard ==
  /\ at = "guard"
  /\ IF options.skip_guard \/ ~LiveMainnet
     THEN Goes("contract") /\ UNCHANGED <<todo, sym>>
     ELSE todo' = Traded /\ sym' \in Traded /\ Goes("check")
  /\ UNCHANGED <<exchange, half, found, prior, recovered, exitVars, runVars, options, leads, runs>>

\* cmd_verify_programmatic(): the orders first ...
Verifying == {"check", "first", "second", "inner", "recheck"}

CountOrders ==
  /\ at \in Verifying /\ half = "orders"
  /\ half' = "positions"
  /\ found' = [Nothing EXCEPT !.orders = Cardinality(resting[sym])]
  /\ UNCHANGED <<exchange, todo, sym, prior, recovered, exitVars, runVars, options, at, leads, runs>>

\* ... then the position; what it returns is judged by the caller at once.
Reads(place) ==
  /\ at = place /\ half = "positions"
  /\ half' = "orders"
  /\ found' = [found EXCEPT !.held = holding[sym]]
  /\ UNCHANGED <<exchange, runVars, options, leads, runs>>

Flat == holding[sym] = 0

AllGoneFlat == Flat

AllGone == found.orders = 0 /\ Flat

\* A symbol is clean, or holds a position and is left for reconstruction, or has only
\* orders and is cleaned if the operator allows it.
GuardChecks ==
  /\ Reads("check")
  /\ \/ AllGone /\ GuardGoesOn /\ UNCHANGED recovered
     \/ ~Flat /\ recovered' = recovered \cup {sym} /\ GuardGoesOn
     \/ /\ Flat /\ ~AllGone
        /\ IF options.pre_cleanup THEN Goes("first") /\ UNCHANGED exitVars ELSE Quits(1)
        /\ UNCHANGED <<todo, sym, recovered>>
  /\ UNCHANGED prior

\* _snapshot_is_stable(): two readings a second apart.
FirstSnapshot ==
  /\ Reads("first")
  /\ prior' = [found EXCEPT !.held = holding[sym]] /\ Goes("second")
  /\ UNCHANGED <<todo, sym, recovered, exitVars>>

SecondSnapshot ==
  /\ Reads("second")
  /\ IF prior = [found EXCEPT !.held = holding[sym]]
     THEN Goes("sweep") /\ UNCHANGED exitVars
     ELSE Quits(1)
  /\ UNCHANGED <<todo, sym, prior, recovered>>

\* cmd_cleanup(), of the guard or in the child process of cleanup-on-exit.
Sweeping == <<half, prior, recovered, todo, sym, exitVars, runVars, options, leads, runs>>

FetchOrders ==
  /\ at = "sweep"
  /\ Goes(IF resting[sym] = {} THEN "position" ELSE "cancel")
  /\ UNCHANGED <<exchange, found, Sweeping>>

CancelAll ==
  /\ at = "cancel"
  /\ resting' = [resting EXCEPT ![sym] = {}]
  /\ Goes("position")
  /\ UNCHANGED <<holding, found, Sweeping>>

FetchPosition ==
  /\ at = "position"
  /\ Goes(IF Flat THEN "inner" ELSE "close")
  /\ UNCHANGED <<exchange, found, Sweeping>>

\* close_position() reads the position again, and sends a reduce-only market order for it.
SizeToClose ==
  /\ at = "close"
  /\ found' = [Nothing EXCEPT !.held = holding[sym]]
  /\ Goes("reduce")
  /\ UNCHANGED <<exchange, Sweeping>>

ClosePosition ==
  /\ at = "reduce"
  /\ holding' = [holding EXCEPT ![sym] = IF @ > found.held THEN @ - found.held ELSE 0]
  /\ Goes("inner")
  /\ UNCHANGED <<resting, found, Sweeping>>

\* cmd_verify() exits with 1 when dirty: the guard catches Exception only, so main() ends.
VerifyInside ==
  /\ Reads("inner")
  /\ \/ AllGone /\ Goes("recheck") /\ UNCHANGED <<todo, sym, exitVars>>
     \/ ~AllGone /\ exiting /\ SweepGoesOn(FALSE)
     \/ ~AllGone /\ ~exiting /\ Quits(1) /\ UNCHANGED <<todo, sym>>
  /\ UNCHANGED <<prior, recovered>>

VerifyAgain ==
  /\ Reads("recheck")
  /\ \/ exiting /\ SweepGoesOn(AllGone)
     \/ ~exiting /\ AllGone /\ GuardGoesOn
     \/ ~exiting /\ ~AllGone /\ Quits(1) /\ UNCHANGED <<todo, sym>>
  /\ UNCHANGED <<prior, recovered>>

\* A request is refused or times out, or the child process overruns its 60 s.
ExchangeCallFails ==
  /\ at \in Verifying \cup {"sweep", "cancel", "position", "close", "reduce"}
  /\ half' = "orders"
  /\ \/ exiting /\ SweepGoesOn(FALSE)
     \/ ~exiting /\ Quits(1) /\ UNCHANGED <<todo, sym>>
  /\ UNCHANGED <<exchange, found, prior, recovered, runVars, options, leads, runs>>

----------------------------------------------------------------------------
(* The trading loop. *)

SignContract ==
  /\ at = "contract"
  /\ \/ Goes("connect") /\ UNCHANGED exitVars
     \/ Quits(2)
  /\ UNCHANGED <<exchange, passVars, runVars, options, leads, runs>>

Raises ==
  /\ Goes("finally") /\ exiting' = TRUE /\ code' = 2 /\ userTask' = 0
  /\ UNCHANGED <<swept, failed, reason>>

Stops(why) ==
  /\ Goes("finally") /\ exiting' = TRUE /\ reason' = why /\ userTask' = 0
  /\ UNCHANGED <<swept, failed, code>>

Connect ==
  /\ at = "connect"
  /\ \/ /\ Goes("loop") /\ began' = TRUE /\ feed' = "up"
        /\ userTask' \in (IF Real /\ options.live THEN {0, UserTries} ELSE {0})
        /\ UNCHANGED exitVars
     \/ Raises /\ UNCHANGED <<began, feed>>
  /\ UNCHANGED <<exchange, passVars, shutdown, options, leads, runs>>

\* What the engine may do in one call: place and cancel orders of a symbol.
EngineActs ==
  IF Real THEN \E s \in Traded, orders \in SUBSET Slots :
                 resting' = [resting EXCEPT ![s] = orders]
          ELSE UNCHANGED resting

SnapshotArrives ==
  /\ at = "loop" /\ feed = "up"
  /\ \/ shutdown /\ Stops("shutdown_requested") /\ UNCHANGED resting
     \/ ~shutdown /\ Stops("duration_reached") /\ UNCHANGED resting
     \/ ~shutdown /\ options.ha /\ ~leads /\ UNCHANGED <<resting, at, exitVars, userTask>>
     \/ /\ ~shutdown
        /\ options.ha => leads
        /\ EngineActs
        /\ \/ UNCHANGED <<at, exitVars, userTask>>
           \/ Raises
  /\ UNCHANGED <<holding, passVars, began, feed, shutdown, options, leads, runs>>

FeedBreaks(how) ==
  /\ at = "loop" /\ feed = "up" /\ feed' = how
  /\ UNCHANGED <<exchange, passVars, exitVars, began, userTask, shutdown, options, at, leads, runs>>

Reconnects ==
  /\ at = "loop" /\ feed # "up" /\ feed' = "up"
  /\ UNCHANGED <<exchange, passVars, exitVars, began, userTask, shutdown, options, at, leads, runs>>

\* The retries run out: a transport found closed ends the stream, but after a failed read
\* reconnect() raises out of the handler, through stream_ticks() and the loop.
GivesUpReconnecting ==
  /\ at = "loop"
  /\ \/ feed = "down" /\ Stops("stream_ended")
     \/ feed = "silent" /\ Raises
  /\ UNCHANGED <<exchange, passVars, began, feed, shutdown, options, leads, runs>>

\* process_user_data_event() is called whatever the role.
UserDataArrives ==
  /\ at = "loop" /\ userTask > 0
  /\ \/ shutdown /\ userTask' = 0 /\ UNCHANGED resting
     \/ ~shutdown /\ EngineActs /\ userTask' \in {userTask, userTask - 1}
  /\ UNCHANGED <<holding, passVars, exitVars, began, feed, shutdown, options, at, leads, runs>>

UserDataFails ==
  /\ at = "loop" /\ userTask > 0
  /\ userTask' = IF shutdown THEN 0 ELSE userTask - 1
  /\ UNCHANGED <<exchange, passVars, exitVars, began, feed, shutdown, options, at, leads, runs>>

----------------------------------------------------------------------------
(* The finally block. *)

CleanupPlaces == {"sweep", "cancel", "position", "close", "reduce", "inner", "recheck"}

CleanupEnabled ==
  options.cleanup_on_exit /\ options.live /\ LiveMainnet /\ reason # "not_started"

BeginCleanup ==
  /\ at = "finally"
  /\ IF CleanupEnabled
     THEN /\ todo' = Traded /\ sym' \in Traded /\ swept' = {sym'} /\ Goes("sweep")
     ELSE Goes("release") /\ UNCHANGED <<todo, sym, swept>>
  /\ UNCHANGED <<exchange, half, found, prior, recovered, exiting, failed, reason, code, runVars,
                 options, leads, runs>>

CountFailures ==
  /\ at = "counted" /\ Goes("release")
  /\ code' = IF failed /\ code = 0 THEN 3 ELSE code
  /\ UNCHANGED <<exchange, passVars, exiting, swept, failed, reason, runVars, options, leads, runs>>

\* Only TimeoutExpired is caught per symbol: a child process that cannot start, or a second
\* signal, whose handler finds the loop closed, ends the whole cleanup.
CleanupRaises ==
  /\ at \in CleanupPlaces /\ exiting /\ Goes("release") /\ half' = "orders"
  /\ code' = IF code = 0 THEN 3 ELSE code
  /\ UNCHANGED <<exchange, todo, sym, found, prior, recovered, exiting, swept, failed, reason,
                 runVars, options, leads, runs>>

\* elector.stop(), server.shutdown(), sys.exit(exit_code).
Leave ==
  /\ at = "release" /\ Goes("exited") /\ leads' = FALSE
  /\ UNCHANGED <<exchange, passVars, exitVars, runVars, options, runs>>

----------------------------------------------------------------------------
(* The exchange, signals, the elector, other instances, crashes. *)

Fill(s, o) ==
  /\ o \in resting[s]
  /\ resting' = [resting EXCEPT ![s] = @ \ {o}]
  /\ \E held \in {holding[s] - 1, holding[s] + 1} \cap (0 .. MaxHeld) :
       holding' = [holding EXCEPT ![s] = held]
  /\ UNCHANGED <<passVars, exitVars, runVars, options, at, leads, runs>>

\* The handlers are installed just before the loop.
Signal ==
  /\ at \in {"connect", "loop"} /\ ~shutdown /\ shutdown' = TRUE
  /\ UNCHANGED <<exchange, passVars, exitVars, began, feed, userTask, options, at, leads, runs>>

LeadershipMoves ==
  /\ options.ha /\ at \notin {"env", "elector", "exited"} /\ leads' = ~leads
  /\ UNCHANGED <<exchange, passVars, exitVars, runVars, options, at, runs>>

OtherInstanceActs ==
  /\ options.ha /\ ~leads
  /\ \E s \in Traded, orders \in SUBSET Slots : resting' = [resting EXCEPT ![s] = orders]
  /\ UNCHANGED <<holding, passVars, exitVars, runVars, options, at, leads, runs>>

IsKilled ==
  /\ at # "exited" /\ Quits(Killed) /\ leads' = FALSE
  /\ UNCHANGED <<exchange, passVars, runVars, options, runs>>

StartAgain ==
  /\ at = "exited" /\ runs < MaxRuns /\ runs' = runs + 1
  /\ \E o \in Settings : Fresh(o)
  /\ UNCHANGED exchange

----------------------------------------------------------------------------
RunsOn ==
  \/ PassGate \/ FailGate \/ BeginGuard \/ CountOrders \/ GuardChecks \/ FirstSnapshot
  \/ SecondSnapshot \/ FetchOrders \/ CancelAll \/ FetchPosition \/ SizeToClose \/ ClosePosition
  \/ VerifyInside \/ VerifyAgain \/ ExchangeCallFails \/ SignContract \/ Connect
  \/ SnapshotArrives \/ Reconnects \/ GivesUpReconnecting \/ UserDataArrives \/ UserDataFails
  \/ BeginCleanup \/ CountFailures
  \/ CleanupRaises \/ Leave

TradingRunNext ==
  \/ RunsOn
  \/ \E how \in {"down", "silent"} : FeedBreaks(how)
  \/ \E s \in Traded, o \in Slots : Fill(s, o)
  \/ Signal \/ LeadershipMoves \/ OtherInstanceActs \/ IsKilled \/ StartAgain

TradingRunSpec == TradingRunInit /\ [][TradingRunNext]_tradingRunVars

----------------------------------------------------------------------------
Places == StartupGates \cup Verifying \cup
  {"guard", "sweep", "cancel", "position", "close", "reduce", "contract", "connect", "loop",
   "finally", "counted", "release", "exited"}

TradingRunTypeOK ==
  /\ resting \in [Traded -> SUBSET Slots] /\ holding \in [Traded -> Nat]
  /\ options \in Settings /\ at \in Places
  /\ todo \subseteq Traded /\ sym \in Traded /\ half \in {"orders", "positions"}
  /\ found \in [orders : Nat, held : Nat] /\ prior \in [orders : Nat, held : Nat]
  /\ recovered \subseteq Traded /\ swept \subseteq Traded
  /\ exiting \in BOOLEAN /\ failed \in BOOLEAN
  /\ reason \in {"not_started", "stream_ended", "shutdown_requested", "duration_reached"}
  /\ code \in {0, 1, 2, 3, Killed}
  /\ began \in BOOLEAN /\ feed \in {"up", "down", "silent"} /\ userTask \in 0 .. UserTries
  /\ shutdown \in BOOLEAN /\ leads \in BOOLEAN /\ runs \in 1 .. MaxRuns

\* Without other instances, a run the launch guard let through starts on symbols that have
\* neither orders nor a position, except those the guard found holding one: the orders are
\* read before the position, so a fill between the two reads cannot hide (run_trading.py
\* evaluate_launch_guard, exchange_state.py cmd_verify_programmatic).
StartsOnKnownState ==
  at \in {"contract", "connect"} /\ LiveMainnet /\ ~options.skip_guard /\ ~options.ha =>
    \A s \in Traded \ recovered : Clean(s)

\* Exit code 0 of a live run with cleanup-on-exit means nothing of it is left on the
\* exchange, whatever filled while it was being cleaned (run_trading.py finalize_and_cleanup,
\* _run_cleanup_on_exit).  With HA another instance may have placed orders since.
ExitZeroIsClean ==
  at = "exited" /\ code = 0 /\ options.cleanup_on_exit /\ options.live /\ LiveMainnet
      /\ ~options.ha =>
    \A s \in Traded : Clean(s)

\* "Exchange cleanup now runs on ANY post-start exit" (ADR-121): a live run that entered the
\* loop and was not killed has turned to every symbol by the time it exits.
CleanedAfterTrading ==
  at = "exited" /\ code # Killed /\ began /\ options.cleanup_on_exit /\ options.live
      /\ LiveMainnet =>
    swept = Traded
=============================================================================
