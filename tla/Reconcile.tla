------------------------------ MODULE Reconcile ------------------------------
(***************************************************************************)
(* scripts/run_live_reconcile.py and reconcile/*.py: before each run the   *)
(* loop takes a REST snapshot; the engine lists unexpected orders and      *)
(* positions; the runner hands them, orders first, to the executor, whose  *)
(* gates and budgets decide whether the exchange is called.  The script    *)
(* records no expected order and expects every position to be zero.  The   *)
(* exchange, the clock, the role and crashes move between the steps.       *)
(***************************************************************************)
EXTENDS Integers, FiniteSets, FiniteSetsExt

CONSTANTS
  Orders,       \* orders of an allowed strategy
  Symbols,
  SymbolOf,     \* the symbol of each order
  Elected,      \* whether the process runs a LeaderElector
  CallsPerRun, CallsPerDay, SpendPerCall, SpendPerRun, SpendPerDay,
  MaxPosition, MaxFaults, MaxDays

ASSUME ReconcileAssumption ==
  /\ SymbolOf \in [Orders -> Symbols] /\ Elected \in BOOLEAN
  /\ {CallsPerRun, CallsPerDay, SpendPerCall, SpendPerRun, SpendPerDay} \subseteq Nat
  /\ {MaxPosition, MaxFaults} \subseteq Nat /\ MaxDays \in Nat \ {0}

VARIABLES
  mode,      \* REMEDIATION_MODE
  book,      \* exchange: orders resting
  gone,      \* exchange: orders that have left the book
  position,  \* exchange: size held of each symbol
  seenOpen,  \* ObservedStateStore._orders: seen open once, and never removed
  seenHeld,  \* ObservedStateStore._positions
  haRole,    \* get_ha_state().role
  run,       \* what the runner has left to do, and its lock on one kind of action
  budget,    \* BudgetState, with the day it counts for
  disk,      \* the persisted part of the budget
  today,     \* the date
  cooled,    \* cooldown_seconds have passed since _last_action_ts
  made,      \* history: what took effect today, and how much of it the budget cannot
             \* know of; calls recorded since the cooldown
  faults     \* crashes, lost answers and failed saves so far

reconcileVars == <<mode, book, gone, position, seenOpen, seenHeld, haRole, run, budget, disk,
                   today, cooled, made, faults>>

Modes == {"detect_only", "plan_only", "blocked", "execute_cancel_all", "execute_flatten"}
NoRun == [phase |-> "idle", cancels |-> {}, flattens |-> {}, lock |-> "none", spend |-> 0]
NoBudget == [day |-> 0, calls |-> 0, spent |-> 0]
NothingMade == [calls |-> 0, spent |-> 0, lostCalls |-> 0, lostSpent |-> 0,
                unsavedCalls |-> 0, unsavedSpent |-> 0, hot |-> 0]

ReconcileInit ==
  /\ mode \in Modes
  /\ book = {} /\ gone = {} /\ position = [s \in Symbols |-> 0]
  /\ seenOpen = {} /\ seenHeld = [s \in Symbols |-> 0]
  /\ haRole = "unknown"
  /\ run = NoRun
  /\ budget = [day |-> 1, calls |-> 0, spent |-> 0, runCalls |-> 0, runSpent |-> 0]
  /\ disk = NoBudget
  /\ today = 1
  /\ cooled = TRUE
  /\ made = NothingMade
  /\ faults = 0

exchangeVars == <<book, gone, position>>
observedVars == <<seenOpen, seenHeld>>
executorVars == <<run, budget, disk, cooled, made>>

\* An order the bot left behind, or another process placed.
Appears(o) ==
  /\ o \notin book \cup gone
  /\ book' = book \cup {o}
  /\ UNCHANGED <<mode, gone, position, observedVars, haRole, executorVars, today, faults>>

Leaves(o, filled) ==
  /\ o \in book
  /\ book' = book \ {o} /\ gone' = gone \cup {o}
  /\ IF filled /\ position[SymbolOf[o]] < MaxPosition
     THEN position' = [position EXCEPT ![SymbolOf[o]] = @ + 1]
     ELSE UNCHANGED position
  /\ UNCHANGED <<mode, observedVars, haRole, executorVars, today, faults>>

\* Nothing in run_live_reconcile.py starts a LeaderElector.
RoleChanges ==
  /\ Elected
  /\ haRole' \in {"standby", "active"} \ {haRole}
  /\ UNCHANGED <<mode, exchangeVars, observedVars, executorVars, today, faults>>

CooldownEnds ==
  /\ ~cooled
  /\ cooled' = TRUE
  /\ made' = [made EXCEPT !.hot = 0]
  /\ UNCHANGED <<mode, exchangeVars, observedVars, haRole, run, budget, disk, today, faults>>

Midnight ==
  /\ today < MaxDays
  /\ today' = today + 1
  /\ made' = [NothingMade EXCEPT !.hot = made.hot]
  /\ UNCHANGED <<mode, exchangeVars, observedVars, haRole, run, budget, disk, cooled, faults>>

\* _check_date_reset: a budget of another day starts over.
ForToday(b) ==
  IF b.day = today THEN b ELSE [b EXCEPT !.day = today, !.calls = 0, !.spent = 0]

Saved(b) == [day |-> b.day, calls |-> b.calls, spent |-> b.spent]

FreshDayOnly(b) == ForToday(b)

\* reset_run_counters, which saves when the date changed
FreshRun(b) == [ForToday(b) EXCEPT !.runCalls = 0, !.runSpent = 0]

\* The snapshot adds and updates; an order that is no longer listed stays as it was.
OrdersSeen(ok) == seenOpen \cup {o \in book : SymbolOf[o] \in ok}
PositionsSeen(ok) == [s \in Symbols |-> IF s \in ok THEN position[s] ELSE seenHeld[s]]

\* Each of the two requests may fail for a symbol.
Snapshot(okOrders, okPositions) ==
  seenOpen' = OrdersSeen(okOrders) /\ seenHeld' = PositionsSeen(okPositions)

\* With nothing expected, every open order and every position is a mismatch.
UnexpectedOrders(open) == open
UnexpectedPositions(held) == {s \in Symbols : held[s] # 0}

\* One pass of the loop: snapshot, counters, detection.
BeginRun(okOrders, okPositions) ==
  /\ run.phase = "idle"
  /\ Snapshot(okOrders, okPositions)
  /\ budget' = FreshRun(budget)
  /\ disk' = IF budget.day = today THEN disk ELSE Saved(FreshRun(budget))
  /\ run' = [phase |-> "acting", cancels |-> UnexpectedOrders(seenOpen'),
             flattens |-> UnexpectedPositions(seenHeld'), lock |-> "none", spend |-> 0]
  /\ UNCHANGED <<mode, exchangeVars, haRole, today, cooled, made, faults>>

\* BudgetTracker.can_execute, on a budget brought up to date
WithinBudget(spend) ==
  LET b == ForToday(budget) IN
    /\ b.runCalls < CallsPerRun /\ b.runSpent + spend <= SpendPerRun
    /\ b.calls < CallsPerDay /\ b.spent + spend <= SpendPerDay

\* Each of the two execution modes allows one kind of call; the others only plan.
ModeAllows(kind) == mode = IF kind = "cancel" THEN "execute_cancel_all" ELSE "execute_flatten"

\* RemediationExecutor.can_execute; the gates that never change in a process are open.
Permitted(kind, spend) ==
  /\ haRole = "active"
  /\ ModeAllows(kind)
  /\ WithinBudget(spend)
  /\ cooled
  /\ kind = "flatten" => spend <= SpendPerCall

\* can_execute brings the budget to today's date, and saves that.
Touch ==
  /\ budget' = ForToday(budget)
  /\ disk' = IF budget.day = today THEN disk ELSE Saved(ForToday(budget))

Effect(spend, answered) ==
  made' = [made EXCEPT !.calls = @ + 1, !.spent = @ + spend,
                       !.lostCalls = IF answered THEN @ ELSE @ + 1,
                       !.lostSpent = IF answered THEN @ ELSE @ + spend]

\* The port call: it takes effect and says so, or is refused, or its answer is lost.
Cancelled(o, answered) ==
  /\ o \in book
  /\ book' = book \ {o} /\ gone' = gone \cup {o}
  /\ UNCHANGED position
  /\ Effect(0, answered)

Flattened(s, answered) ==
  /\ position[s] # 0
  /\ position' = [position EXCEPT ![s] = 0]
  /\ UNCHANGED <<book, gone>>
  /\ Effect(seenHeld[s], answered)

Takes(kind, target, answered) ==
  IF kind = "cancel" THEN Cancelled(target, answered) ELSE Flattened(target, answered)

Act(kind, target, left, spend) ==
  /\ \/ /\ ~Permitted(kind, spend)
        /\ run' = left
        /\ UNCHANGED <<exchangeVars, made, faults>>
     \/ /\ Permitted(kind, spend)
        /\ Takes(kind, target, TRUE)
        /\ run' = [left EXCEPT !.phase = "recording", !.spend = spend]
        /\ UNCHANGED faults
     \/ /\ Permitted(kind, spend) /\ faults < MaxFaults
        /\ Takes(kind, target, FALSE)
        /\ run' = left /\ faults' = faults + 1
     \/ /\ Permitted(kind, spend)
        /\ run' = left
        /\ UNCHANGED <<exchangeVars, made, faults>>
  /\ Touch
  /\ UNCHANGED <<mode, observedVars, haRole, today, cooled>>

\* Unexpected orders come first; whatever becomes of one locks the run to cancels.
HandleCancel(o) ==
  /\ run.phase = "acting" /\ o \in run.cancels
  /\ Act("cancel", o, [run EXCEPT !.cancels = @ \ {o}, !.lock = "cancel"], 0)

HandleFlatten(s) ==
  /\ run.phase = "acting" /\ run.cancels = {} /\ s \in run.flattens /\ run.lock # "cancel"
  /\ Act("flatten", s, [run EXCEPT !.flattens = @ \ {s}, !.lock = "flatten"], seenHeld[s])

\* After a call that succeeded: counters, cooldown, budget and its file.
Record(saved) ==
  /\ run.phase = "recording"
  /\ saved \/ faults < MaxFaults
  /\ LET b == [budget EXCEPT !.calls = @ + 1, !.spent = @ + run.spend,
                             !.runCalls = @ + 1, !.runSpent = @ + run.spend]
     IN  /\ budget' = b
         /\ disk' = IF saved THEN Saved(b) ELSE disk
  /\ cooled' = FALSE
  /\ made' = [made EXCEPT !.hot = @ + 1,
                          !.unsavedCalls = IF saved THEN 0 ELSE @ + 1,
                          !.unsavedSpent = IF saved THEN 0 ELSE @ + run.spend]
  /\ run' = [run EXCEPT !.phase = "acting", !.spend = 0]
  /\ faults' = IF saved THEN faults ELSE faults + 1
  /\ UNCHANGED <<mode, exchangeVars, observedVars, haRole, today>>

EndRun ==
  /\ run.phase = "acting" /\ run.cancels = {} /\ (run.flattens = {} \/ run.lock = "cancel")
  /\ run' = NoRun
  /\ UNCHANGED <<mode, exchangeVars, observedVars, haRole, budget, disk, today, cooled, made, faults>>

\* What a crash excuses: a call not yet recorded, records not saved, a torn file.
Forgetting(torn) ==
  LET open == IF run.phase = "recording" THEN 1 ELSE 0 IN
    [made EXCEPT !.hot = 0, !.unsavedCalls = 0, !.unsavedSpent = 0,
       !.lostCalls = IF torn THEN made.calls ELSE @ + open + made.unsavedCalls,
       !.lostSpent = IF torn THEN made.spent ELSE @ + run.spend + made.unsavedSpent]

LoadedNever(torn) == NoBudget

\* BudgetTracker._load_state: a file torn by the crash reads as a budget never used.
Loaded(torn) == IF torn THEN NoBudget ELSE disk

\* A new process: stores empty, no cooldown, the budget from its file.
ProcessDies(torn) ==
  /\ faults < MaxFaults
  /\ faults' = faults + 1
  /\ run' = NoRun
  /\ seenOpen' = {} /\ seenHeld' = [s \in Symbols |-> 0]
  /\ cooled' = TRUE
  /\ torn => run.phase = "recording"
  /\ LET read == Loaded(torn)
         b == ForToday([day |-> read.day, calls |-> read.calls, spent |-> read.spent,
                        runCalls |-> 0, runSpent |-> 0])
     IN  /\ budget' = b /\ disk' = Saved(b)
  /\ made' = Forgetting(torn)
  /\ haRole' = "unknown"
  /\ UNCHANGED <<mode, exchangeVars, today>>

RunStep ==
  \/ \E o \in Orders : HandleCancel(o)
  \/ \E s \in Symbols : HandleFlatten(s)
  \/ Record(TRUE)
  \/ EndRun

ReconcileNext ==
  \/ \E o \in Orders : Appears(o) \/ \E filled \in BOOLEAN : Leaves(o, filled)
  \/ RoleChanges \/ CooldownEnds \/ Midnight
  \/ \E okOrders, okPositions \in SUBSET Symbols : BeginRun(okOrders, okPositions)
  \/ RunStep
  \/ Record(FALSE)
  \/ \E torn \in BOOLEAN : ProcessDies(torn)

ReconcileSpec == ReconcileInit /\ [][ReconcileNext]_reconcileVars
-----------------------------------------------------------------------------
Runs == [phase : {"idle", "acting", "recording"}, cancels : SUBSET Orders,
         flattens : SUBSET Symbols, lock : {"none", "cancel", "flatten"}, spend : Nat]
Budgets == [day : 1..MaxDays, calls : Nat, spent : Nat, runCalls : Nat, runSpent : Nat]
SavedBudgets == [day : 0..MaxDays, calls : Nat, spent : Nat]
Histories == [calls : Nat, spent : Nat, lostCalls : Nat, lostSpent : Nat, unsavedCalls : Nat,
              unsavedSpent : Nat, hot : Nat]

ReconcileTypeOK ==
  /\ mode \in Modes /\ haRole \in {"unknown", "standby", "active"}
  /\ book \subseteq Orders /\ gone \subseteq Orders /\ seenOpen \subseteq Orders
  /\ position \in [Symbols -> 0..MaxPosition] /\ seenHeld \in [Symbols -> 0..MaxPosition]
  /\ run.phase = "idle" => run = NoRun
  /\ run \in Runs /\ budget \in Budgets /\ disk \in SavedBudgets /\ made \in Histories
  /\ today \in 1..MaxDays /\ cooled \in BOOLEAN /\ faults \in 0..MaxFaults

\* What the exchange was made to do in a day stays within the daily budget, through
\* midnights, crashes and restarts, but for the calls the budget cannot know of:
\* lost answers, crashes before the record, saves that failed.  (budget.py, remediation.py:590)
WithinDailyBudget ==
  /\ made.calls <= CallsPerDay + made.lostCalls
  /\ made.spent <= SpendPerDay + made.lostSpent

\* The persisted budget never claims less than what was recorded and saved.
\* (budget.py:186)
DiskKeepsUp ==
  budget.day = today /\ disk.day = today /\ made.unsavedCalls = 0 =>
    disk.calls = budget.calls /\ disk.spent = budget.spent

\* After a call that succeeded nothing else is recorded before the cooldown ends,
\* also not in the same run, unless the process was restarted.
CooldownBetweenCalls == made.hot <= 1

\* With the leader's role, in cancel mode and with budget left, an unexpected order
\* does not stay: the snapshot finds it and some run cancels it, whatever else is
\* on the list.  The script's header promises it of execute_cancel_all
\* (run_live_reconcile.py:20).
Blocked == budget.calls >= CallsPerDay \/ haRole # "active"
UnexpectedOrderGoes ==
  \A o \in Orders :
    mode = "execute_cancel_all" /\ o \in book ~>
      o \notin book \/ budget.calls >= CallsPerDay \/ (Elected /\ haRole # "active")

\* In flatten mode an unexpected position that the per-call limit allows is closed,
\* unless an unexpected order was ever seen: that order stays on the list, is
\* refused for the mode, and locks every run to cancels.  (runner.py:285)
UnexpectedPositionGoes ==
  \A s \in Symbols :
    mode = "execute_flatten" /\ position[s] # 0 ~>
      \/ position[s] = 0 \/ Blocked \/ seenOpen # {}
      \/ position[s] > SpendPerCall \/ budget.spent + position[s] > SpendPerDay

\* Nothing unexpected stays for ever while the budget and the mode allow its remedy,
\* whatever faults, locks, cooldowns and refusals come in between.
UnexpectedGoes == UnexpectedOrderGoes /\ UnexpectedPositionGoes
=============================================================================
