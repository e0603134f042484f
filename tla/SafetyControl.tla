---------------------------- MODULE SafetyControl ----------------------------
(***************************************************************************)
(* What may be sent, and what is taken away: the lifecycle FSM of          *)
(* live/fsm_orchestrator.py, the health gate of live/health_gate.py, the   *)
(* gate order of _process_action, the account sync that feeds them, the    *)
(* emergency exit and the forced flat of live/engine.py, for one symbol    *)
(* with a grid branch.  A tick is one call of process_snapshot; the time   *)
(* since the previous one is the feed gap.                                 *)
(***************************************************************************)
EXTENDS Integers, FiniteSets

CONSTANTS
  Cool,            \* cooldown of the FSM, in units of time
  StaleGap,        \* a longer gap between snapshots is a stale feed
  HardAge,         \* an older account sync is STALE_TRUTH
  HardFails,       \* as many failed syncs in a row are PAUSED_UNSAFE
  Cap,             \* notional cap of the symbol, in lots
  MaxChanges,      \* changes of the outside signals in a behaviour
  MaxGrid,         \* lots and entries of the grid at the same time
  MaxNews,         \* exit fills on their way at the same time
  Unmeasured

ASSUME ControlAssumption ==
  /\ {Cool, StaleGap, HardAge, HardFails, Cap} \subseteq Nat \ {0} /\ {MaxChanges, MaxGrid, MaxNews} \subseteq Nat
  /\ Unmeasured \notin Nat

VARIABLES
  fsm, age,        \* SystemState, time in it (up to Cool)
  signals,         \* kill switch, operator override, spread, price impact, adverse
                   \* level, and whether snapshots come late
  changes,         \* changes of the signals so far
  quiet,           \* time since a tick saw an emergency trigger (history, up to Cool)
  ticked,          \* a snapshot has been processed: the next one has a gap
  inventory, orders, \* the exchange: lots held, entry orders open
  exitNews,        \* exit fills the user-data stream has not delivered yet
  branch,          \* the state machine is in a branch
  sync,            \* measured notional, age and failures of the account sync
  exited,          \* _emergency_exit_executed
  flat             \* forced flat: no, requested, done

controlVars == <<fsm, age, signals, changes, quiet, ticked, inventory, orders, exitNews, branch, sync, exited, flat>>

Capped(n, k) == IF n > k THEN k ELSE n

SystemStates == {"INIT", "READY", "ACTIVE", "THROTTLED", "PAUSED", "DEGRADED", "EMERGENCY"}
Levels == {"none", "force_reduce", "forced_flat"}

ControlInit ==
  /\ fsm = "INIT" /\ age = 0 /\ quiet = Cool /\ ticked = FALSE /\ changes = 0
  /\ signals = [kill |-> FALSE, override |-> "NONE", wide |-> FALSE, impact |-> FALSE,
                level |-> "none", late |-> FALSE]
  /\ inventory = 0 /\ orders = 1 /\ exitNews = 0 /\ branch = FALSE
  /\ sync = [ever |-> FALSE, measured |-> Unmeasured, age |-> 0, fails |-> 0]
  /\ exited = FALSE /\ flat = "no"

-----------------------------------------------------------------------------
\* The FSM: OrchestratorFSM._evaluate.  gap is zero at the first tick.

Stale(gap) == gap > StaleGap
ToxLow == ~signals.wide /\ ~signals.impact
CooldownElapsed(gap) == age + gap >= Cool

\* The drawdown input is constantly zero: no caller updates the guard it is read from.
Triggered == signals.kill \/ signals.override = "EMERGENCY"

\* Emergency is left once the position is known to be small and the kill switch is
\* off; the operator's override is not asked.
Confirmed == sync.measured = 0 /\ ~signals.kill

NextStateNoCooldown(gap) ==
  IF fsm \notin {"INIT", "EMERGENCY"} /\ Triggered THEN "EMERGENCY"
  ELSE IF fsm = "INIT" THEN (IF ~signals.kill /\ ~Stale(gap) THEN "READY" ELSE "INIT")
  ELSE IF fsm = "EMERGENCY" THEN (IF Confirmed THEN "PAUSED" ELSE "EMERGENCY")
  ELSE IF Stale(gap) THEN "DEGRADED"
  ELSE IF fsm = "DEGRADED" THEN "READY"
  ELSE IF signals.override = "PAUSE" THEN "PAUSED"
  ELSE IF ToxLow THEN "ACTIVE"
  ELSE fsm

NextState(gap) ==
  IF fsm \notin {"INIT", "EMERGENCY"} /\ Triggered THEN "EMERGENCY"
  ELSE IF fsm = "INIT" THEN (IF ~signals.kill /\ ~Stale(gap) THEN "READY" ELSE "INIT")
  ELSE IF fsm = "EMERGENCY" THEN (IF Confirmed THEN "PAUSED" ELSE "EMERGENCY")
  ELSE IF Stale(gap) THEN "DEGRADED"
  ELSE IF fsm = "DEGRADED" THEN (IF CooldownElapsed(gap) THEN "READY" ELSE "DEGRADED")
  ELSE IF signals.override = "PAUSE" THEN "PAUSED"
  ELSE IF fsm = "READY" THEN (IF ToxLow THEN "ACTIVE" ELSE "READY")
  ELSE IF fsm \in {"ACTIVE", "THROTTLED"} /\ signals.impact THEN "PAUSED"
  ELSE IF fsm = "ACTIVE" THEN (IF signals.wide THEN "THROTTLED" ELSE "ACTIVE")
  ELSE IF ~CooldownElapsed(gap) THEN fsm
  ELSE IF ToxLow THEN "ACTIVE"
  ELSE IF fsm = "PAUSED" /\ signals.wide THEN "THROTTLED"
  ELSE fsm

\* FsmDriver.step.  age restarts with every change of state.
TickFsm(gap) ==
  /\ fsm' = NextState(gap)
  /\ age' = IF fsm' = fsm THEN Capped(age + gap, Cool) ELSE 0
  /\ quiet' = IF fsm # "INIT" /\ Triggered THEN 0 ELSE Capped(quiet + gap, Cool)

-----------------------------------------------------------------------------
\* The gates, in the order of _process_action.

Intents ==
  CASE fsm = "INIT" -> {}
    [] fsm = "READY" -> {"CANCEL"}
    [] fsm = "ACTIVE" -> {"INCREASE", "REDUCE", "CANCEL"}
    [] OTHER -> {"REDUCE", "CANCEL"}

\* evaluate_health: before the first sync everything counts as healthy.
Health ==
  IF ~sync.ever THEN "HEALTHY"
  ELSE IF sync.fails >= HardFails THEN "PAUSED_UNSAFE"
  ELSE IF sync.age > HardAge THEN "STALE_TRUTH"
  ELSE "HEALTHY"

\* evaluate_risk_gate: no measurement is no permission, and neither is a full cap.
RiskGate == sync.measured # Unmeasured /\ sync.measured < Cap

\* A reduce-only order passes the FSM in every state, the kill switch in none.
Passes(intent) ==
  /\ intent = "CANCEL" \/ Health = "HEALTHY" \/ (intent = "REDUCE" /\ Health = "STALE_TRUTH")
  /\ signals.kill => intent = "CANCEL"
  /\ intent = "INCREASE" => RiskGate
  /\ intent = "REDUCE" \/ intent \in Intents

-----------------------------------------------------------------------------
\* Outside: signals, the exchange, the stream.

SignalsChange ==
  /\ changes < MaxChanges /\ changes' = changes + 1
  /\ \/ \E b \in {"kill", "wide", "impact", "late"} : signals' = [signals EXCEPT ![b] = ~@]
     \/ \E o \in {"NONE", "PAUSE", "EMERGENCY"} \ {signals.override} :
          signals' = [signals EXCEPT !.override = o]
     \/ \E l \in Levels \ {signals.level} : signals' = [signals EXCEPT !.level = l]
  /\ UNCHANGED <<fsm, age, quiet, ticked, inventory, orders, exitNews, branch, sync, exited, flat>>

InventoryGrows ==
  /\ orders > 0 /\ orders' = orders - 1 /\ inventory' = inventory + 1 /\ branch' = TRUE
  /\ UNCHANGED <<fsm, age, signals, changes, quiet, ticked, exitNews, sync, exited, flat>>

ExitFills ==
  /\ inventory > 0 /\ exitNews < MaxNews /\ inventory' = inventory - 1 /\ exitNews' = exitNews + 1
  /\ UNCHANGED <<fsm, age, signals, changes, quiet, ticked, orders, branch, sync, exited, flat>>

\* process_user_data_event: a filled exit restores an entry, through the gates and
\* whatever the forced flat has done.
HearExit ==
  /\ exitNews > 0 /\ exitNews' = exitNews - 1
  /\ orders' = IF Passes("INCREASE") THEN orders + 1 ELSE orders
  /\ branch' = (inventory > 0)
  /\ UNCHANGED <<fsm, age, signals, changes, quiet, ticked, inventory, sync, exited, flat>>

-----------------------------------------------------------------------------
\* _tick_account_sync succeeds, fails, or is not due.

SyncAged(gap) == [sync EXCEPT !.age = Capped(@ + gap, HardAge + 1)]
Synced(held) == [ever |-> TRUE, measured |-> Capped(held, Cap), age |-> 0, fails |-> 0]

AccountSync(gap, held) ==
  \/ sync' = SyncAged(gap)
  \/ sync' = [SyncAged(gap) EXCEPT !.fails = Capped(@ + 1, HardFails)]
  \/ sync' = Synced(held)

\* EmergencyExitExecutor.execute: cancel everything, close with market orders,
\* verify; each part may fail, and the next one is tried all the same.
Flatten ==
  /\ orders' \in {0, orders}
  /\ inventory' \in {0, inventory}

\* _check_adverse_level_trigger; level 20 asks for the forced flat.
ForcedFlatWanted == flat # "no" \/ (branch /\ signals.level = "forced_flat")

\* A tick after a forced flat was asked for does nothing but flatten and sync.  The
\* flag is set when the verification finds nothing left, and may miss a success.
TickForcedFlat(gap) ==
  /\ ForcedFlatWanted
  /\ \/ flat = "done" /\ flat' = "done" /\ UNCHANGED <<inventory, orders>>
     \/ flat # "done" /\ Flatten /\ flat' \in (IF inventory' = 0 THEN {"done", "requested"} ELSE {"requested"})
  /\ AccountSync(gap, inventory')
  /\ ticked' = TRUE
  /\ UNCHANGED <<fsm, age, signals, changes, quiet, exitNews, branch, exited>>

\* INIT and READY tick the FSM and return: nothing is sent and nothing is synced.
DefersUnlessActive == fsm \notin {"ACTIVE", "THROTTLED"}
Defers == fsm \in {"INIT", "READY"}

TickDeferred(gap) ==
  /\ ~ForcedFlatWanted /\ Defers
  /\ TickFsm(gap) /\ sync' = SyncAged(gap) /\ ticked' = TRUE
  /\ UNCHANGED <<signals, changes, inventory, orders, exitNews, branch, exited, flat>>

\* A full tick: FSM, emergency exit (once in the life of the process), sync, and
\* then what the grid wants, here a restored or recentred entry.
TickFull(gap) ==
  /\ ~ForcedFlatWanted /\ ~Defers
  /\ TickFsm(gap) /\ ticked' = TRUE
  /\ UNCHANGED <<signals, changes, exitNews, branch, flat>>
  /\ exited' = (exited \/ fsm' = "EMERGENCY")
  /\ \/ exited' # exited /\ Flatten /\ AccountSync(gap, inventory')
     \/ /\ exited' = exited /\ inventory' = inventory
        /\ AccountSync(gap, inventory)
        /\ \/ orders' = orders
           \/ orders > 0 /\ orders' = orders - 1
           \/ orders = 0 /\ inventory + exitNews < MaxGrid /\ Passes("INCREASE")' /\ orders' = 1

SnapshotTick(gap) == TickForcedFlat(gap) \/ TickDeferred(gap) \/ TickFull(gap)

\* The first snapshot has no predecessor and a gap of zero.
Gap == IF ~ticked THEN 0 ELSE IF signals.late THEN StaleGap + 1 ELSE 1
ProcessSnapshot == SnapshotTick(Gap)

ControlNext == SignalsChange \/ InventoryGrows \/ ExitFills \/ HearExit \/ ProcessSnapshot

ControlSpec == ControlInit /\ [][ControlNext]_controlVars
-----------------------------------------------------------------------------
ControlTypeOK ==
  /\ fsm \in SystemStates /\ age \in 0..Cool /\ quiet \in 0..Cool /\ changes \in 0..MaxChanges
  /\ signals \in [kill : BOOLEAN, override : {"NONE", "PAUSE", "EMERGENCY"}, wide : BOOLEAN,
                  impact : BOOLEAN, level : Levels, late : BOOLEAN]
  /\ ticked \in BOOLEAN /\ branch \in BOOLEAN /\ exited \in BOOLEAN
  /\ {inventory, orders} \subseteq Nat /\ exitNews \in 0..MaxNews
  /\ sync \in [ever : BOOLEAN, measured : 0..Cap \cup {Unmeasured}, age : 0..HardAge + 1, fails : 0..HardFails]
  /\ flat \in {"no", "requested", "done"}

\* After the last tick that saw an emergency trigger the machine is not ACTIVE
\* before a whole cooldown has passed, whatever states it goes through and although
\* EMERGENCY may be left while the operator's override stands.
QuietBeforeRisk == fsm = "ACTIVE" => quiet = Cool

Calm == ~signals.kill /\ signals.override = "NONE" /\ ToxLow /\ ~signals.late

\* When snapshots come, kill switch, override, toxicity and feed stay quiet and the
\* account can be read, the machine is ACTIVE again and again: no order of the states
\* it can be in, and no measurement the sync missed, keeps it out, unless a forced
\* flat ended the grid.
ResumesWhenCalm == <>[](Calm /\ ticked) => []<>(fsm = "ACTIVE" \/ flat # "no")
=============================================================================
