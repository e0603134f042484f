-------------------------------- MODULE DayRisk --------------------------------
(***************************************************************************)
(* The day mode of the account (risk/day_risk_manager.py) and what it      *)
(* allows new symbols (risk/portfolio_budget_allocator.py).  Operators     *)
(* only: Fleet keeps the state.  A day is [mode, start, peak, armed];      *)
(* start is 0 before the first equity of the process.                      *)
(***************************************************************************)
EXTENDS Integers

CONSTANTS
  TriggerPct, ArmPct, LossPct,   \* profit_lock_trigger, _arm and daily_loss_limit
  MaxActive                      \* max_active_symbols

ASSUME DayAssumption == {TriggerPct, ArmPct, LossPct, MaxActive} \subseteq Nat

DayModes == {"NORMAL", "DEFENSIVE", "STOP_FOR_DAY"}
NoDay == [mode |-> "NORMAL", start |-> 0, peak |-> 0, armed |-> FALSE]

NewDay(equity) == [NoDay EXCEPT !.start = equity, !.peak = equity]

AtLeast(day, equity, pct) == (equity - day.start) * 100 >= pct * day.start
Lost(day, equity) == (day.start - equity) * 100 >= LossPct * day.start

\* At or below the floor of the lock: its arm threshold or half of the peak.
GivenBack(day, equity) ==
  \/ (equity - day.start) * 100 <= ArmPct * day.start
  \/ 2 * (equity - day.start) <= day.peak - day.start

\* DayRiskManager.update with a positive equity.  STOP_FOR_DAY is latched, the loss
\* limit comes first, and a lock that is armed by this very equity is not tested.
Advance(old, equity) ==
  LET day == IF old.start = 0 THEN NewDay(equity)
             ELSE [old EXCEPT !.peak = IF equity > @ THEN equity ELSE @]
  IN  IF old.mode = "STOP_FOR_DAY" THEN old
      ELSE IF Lost(day, equity) \/ (day.armed /\ GivenBack(day, equity)) THEN [day EXCEPT !.mode = "STOP_FOR_DAY"]
      ELSE [day EXCEPT !.mode = IF AtLeast(day, equity, TriggerPct) THEN "DEFENSIVE" ELSE @,
                       !.armed = @ \/ AtLeast(day, day.peak, ArmPct)]

\* compute: a new symbol is allowed in no stop mode, with a slot and gross room left.
NewEntriesAllowed(mode, active, grossFree) ==
  mode # "STOP_FOR_DAY" /\ active < MaxActive /\ grossFree
=============================================================================
