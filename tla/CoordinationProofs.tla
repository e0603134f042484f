----------------------------- MODULE CoordinationProofs -----------------------------
(***************************************************************************)
(* Who leads, what the reconciler makes the exchange do in a day, and what *)
(* a run of the trading script leaves behind.                              *)
(***************************************************************************)
EXTENDS LeaderElection, Reconcile, TradingRun, FiniteSetTheorems, TLAPS

-----------------------------------------------------------------------------
\* Leaders.  The argument needs no bound on the timing: the age of a leader is
\* followed along the steps of one renewal, and a lock that was not overwritten, did
\* not run out and was not given up is where the last SET put it.

\* The age of a leader whose thread is where it is.
AgeBound(i) ==
  CASE thread[i] = "acquired" -> clock[i]
    [] thread[i] = "waiting" -> Timeout + clock[i]
    [] thread[i] \in Reading -> Timeout + Renew + clock[i]
    [] thread[i] = "off" -> Timeout + Renew + IF caller[i] = "joining" THEN 0 ELSE waited[i]
    [] OTHER -> 2 * Timeout + Renew + clock[i]

ClocksBounded ==
  \A i \in Instances :
    /\ thread[i] # "off" => clock[i] <= Patience(i)
    /\ caller[i] \in {"releasing", "released"} => waited[i] <= Timeout
    /\ caller[i] = "running" => thread[i] # "off"
    /\ caller[i] = "down" => age[i] = Old /\ thread[i] = "off" /\ role[i] # "active"

\* An answer that grants the lock is no older than the command.
AnswersFresh == \A i \in Instances : thread[i] = "acquired" => age[i] <= clock[i]

LeadersFresh == \A i \in Instances : Leads(i) => age[i] <= AgeBound(i)

OwnersHold ==
  \A i \in Instances : ~Lost(i) /\ caller[i] \in InCharge => holder = i /\ left = Ttl - age[i]

ElectionInv ==
  ElectionTypeOK /\ ClocksBounded /\ AnswersFresh /\ LeadersFresh /\ OwnersHold

\* Every variable keeps its type, for any instances and timing.
THEOREM ElectionTypeCorrect == ElectionSpec => []ElectionTypeOK
<1> USE ElectionAssumption
<1>1. ElectionInit => ElectionTypeOK
  BY DEF ElectionInit, ElectionTypeOK, Roles, Threads, Callers, InCharge, Old, Lag
<1>2. ElectionTypeOK /\ [ElectionNext]_electionVars => ElectionTypeOK'
  <2> SUFFICES ASSUME ElectionTypeOK, [ElectionNext]_electionVars PROVE ElectionTypeOK'
    OBVIOUS
  <2> USE DEF ElectionTypeOK, Roles, Threads, Reading, Writing, Callers, InCharge, Goto, Served,
              StopGoesTo, threadVars, callerVars, Mishap
  <2>old. Old \in Nat /\ Lag \in Nat
    BY DEF Old, Lag
  <2>1. CASE UNCHANGED electionVars
    BY <2>1 DEF electionVars
  <2>2. CASE Tick
    BY <2>2, <2>old DEF Tick, Aged, RunsOut
  <2>3. ASSUME NEW i \in Instances, Start(i) \/ StartFails(i) \/ Attempt(i) \/ ThreadEnds(i)
        PROVE  ElectionTypeOK'
    BY <2>3 DEF Start, StartFails, Attempt, ThreadEnds
  <2>4. ASSUME NEW i \in Instances, ServeGet(i) \/ HearGet(i) \/ HearSet(i) \/ CommandFails(i)
        PROVE  ElectionTypeOK'
    BY <2>4 DEF ServeGet, HearGet, HearSet, CommandFails, FailSafe
  <2>5. ASSUME NEW i \in Instances, ServeSet(i)
        PROVE  ElectionTypeOK'
    BY <2>5, <2>old DEF ServeSet
  <2>6. ASSUME NEW i \in Instances, Stop(i) \/ StopStep(i) \/ ReleaseFails(i)
        PROVE  ElectionTypeOK'
    BY <2>6 DEF Stop, StopStep, Joined, ServeRelease, GivenUp, Stopped, ReleaseFails
  <2>7. ASSUME NEW i \in Instances, Exit(i) \/ Crash(i)
        PROVE  ElectionTypeOK'
    BY <2>7, <2>old DEF Exit, Crash, Gone
  <2>8. QED
    BY <2>1, <2>2, <2>3, <2>4, <2>5, <2>6, <2>7 DEF ElectionNext, Progress
<1>3. QED
  BY <1>1, <1>2, PTL DEF ElectionSpec

\* Every step keeps the invariant: ages, clocks and the lock move together.
LEMMA ElectionInvariant == ElectionSpec => []ElectionInv
<1> USE ElectionAssumption
<1>1. ElectionInit => ElectionInv
  BY DEF ElectionInit, ElectionInv, ElectionTypeOK, Roles, Threads, Callers, InCharge, Old, Lag,
         ClocksBounded, AnswersFresh, LeadersFresh, OwnersHold, Leads, Lost
<1>2. ElectionInv /\ ElectionTypeOK' /\ [ElectionNext]_electionVars => ElectionInv'
  <2> SUFFICES ASSUME ElectionInv, ElectionTypeOK', [ElectionNext]_electionVars
               PROVE  ElectionInv'
    OBVIOUS
  <2>old. Old \in Nat /\ Lag \in Nat /\ Old > Lag /\ Old >= Ttl
    BY DEF Old, Lag
  <2> USE <2>old DEF ElectionInv, ElectionTypeOK, ClocksBounded, Patience, AnswersFresh,
          LeadersFresh, AgeBound, OwnersHold, Leads, Lost, InCharge, Callers, Reading, Writing,
          Threads, Goto, Served, StopGoesTo, Mishap, threadVars, callerVars, Stopping
  <2>1. CASE UNCHANGED electionVars
    BY <2>1 DEF electionVars
  <2>2. CASE Tick
    BY <2>2 DEF Tick, MayWait, Aged, RunsOut
  <2>3. ASSUME NEW i \in Instances, Start(i) \/ StartFails(i) PROVE ElectionInv'
    <3>1. CASE Start(i)
      BY <3>1 DEF Start
    <3>2. CASE StartFails(i)
      BY <3>2 DEF StartFails
    <3>3. QED
      BY <2>3, <3>1, <3>2
  <2>4. ASSUME NEW i \in Instances, Attempt(i) PROVE ElectionInv'
    BY <2>4 DEF Attempt
  <2>5. ASSUME NEW i \in Instances, ThreadEnds(i) PROVE ElectionInv'
    BY <2>5 DEF ThreadEnds
  <2>6. ASSUME NEW i \in Instances, ServeGet(i) PROVE ElectionInv'
    BY <2>6 DEF ServeGet
  <2>7. ASSUME NEW i \in Instances, HearGet(i) PROVE ElectionInv'
    BY <2>7 DEF HearGet
  <2>8. ASSUME NEW i \in Instances, ServeSet(i) PROVE ElectionInv'
    BY <2>8 DEF ServeSet, Settable
  <2>9. ASSUME NEW i \in Instances, HearSet(i) PROVE ElectionInv'
    BY <2>9 DEF HearSet
  <2>10. ASSUME NEW i \in Instances, CommandFails(i) PROVE ElectionInv'
    BY <2>10 DEF CommandFails, FailSafe
  <2>11. ASSUME NEW i \in Instances, Stop(i) PROVE ElectionInv'
    BY <2>11 DEF Stop
  <2>12. ASSUME NEW i \in Instances, Joined(i) PROVE ElectionInv'
    BY <2>12 DEF Joined
  <2>13. ASSUME NEW i \in Instances, ServeRelease(i) PROVE ElectionInv'
    BY <2>13 DEF ServeRelease, GivenUp
  <2>14. ASSUME NEW i \in Instances, Stopped(i) \/ ReleaseFails(i) PROVE ElectionInv'
    BY <2>14 DEF Stopped, ReleaseFails
  <2>15. ASSUME NEW i \in Instances, Exit(i) \/ Crash(i) PROVE ElectionInv'
    BY <2>15 DEF Exit, Crash, Gone
  <2>16. QED
    BY <2>1, <2>2, <2>3, <2>4, <2>5, <2>6, <2>7, <2>8, <2>9, <2>10, <2>11, <2>12, <2>13, <2>14,
       <2>15
    DEF ElectionNext, Progress, StopStep
<1>3. QED
  BY <1>1, <1>2, ElectionTypeCorrect, PTL DEF ElectionSpec

\* The last SET of a leader is no older than one renewal, and the lock is where it
\* put it unless it was overwritten, ran out, or was given up by stop().
LeaderHolds ==
  \A i \in Instances :
    Leads(i) => age[i] <= Lag /\ (Lost(i) \/ (holder = i /\ left = Ttl - age[i]))

\* Whatever the timing, a leader is fresh and holds the lock it has not lost.
\* (leader.py:190-215: the age of a role is that of the SET behind it.)
THEOREM LeadersHold == ElectionSpec => []LeaderHolds
<1>1. ElectionInv => LeaderHolds
  <2> SUFFICES ASSUME ElectionInv, NEW i \in Instances, Leads(i)
               PROVE  age[i] <= Lag /\ (Lost(i) \/ (holder = i /\ left = Ttl - age[i]))
    BY DEF LeaderHolds
  <2> USE ElectionAssumption DEF ElectionInv
  <2>1. age[i] <= Lag
    BY DEF ElectionTypeOK, Threads, Reading, Writing, ClocksBounded, Patience, LeadersFresh,
           AgeBound, Leads, InCharge, Callers, Lag
  <2>2. Lost(i) \/ (holder = i /\ left = Ttl - age[i])
    BY DEF OwnersHold, Leads
  <2>3. QED
    BY <2>1, <2>2
<1>2. QED
  BY <1>1, ElectionInvariant, PTL

\* Two leaders at once mean that one of them lost its lock less than a renewal ago.
THEOREM OverlapBounded == ElectionSpec => []OverlapIsShort
<1>1. LeaderHolds => OverlapIsShort
  BY DEF LeaderHolds, OverlapIsShort
<1>2. QED
  BY <1>1, LeadersHold, PTL

-----------------------------------------------------------------------------
\* What the exchange is made to do in a day stays within the budget.  The argument
\* follows a call from the gate that found room for it to its record: until then the
\* room is kept, because nothing else is called; and what a crash makes the budget
\* forget was saved, or is excused.

\* What budget and file hold of this day, and what is called but not recorded.
CountedCalls == IF budget.day = today THEN budget.calls ELSE 0
CountedSpent == IF budget.day = today THEN budget.spent ELSE 0
KeptCalls == IF disk.day = today THEN disk.calls ELSE 0
KeptSpent == IF disk.day = today THEN disk.spent ELSE 0
OpenCalls == IF run.phase = "recording" THEN 1 ELSE 0

DaysPass == budget.day <= today /\ disk.day <= today

SpendOpen == run.phase # "recording" => run.spend = 0

RoomKept ==
  /\ CountedCalls + OpenCalls <= CallsPerDay /\ CountedSpent + run.spend <= SpendPerDay
  /\ KeptCalls <= CallsPerDay /\ KeptSpent <= SpendPerDay

CallsCounted ==
  /\ made.calls <= made.lostCalls + CountedCalls + OpenCalls
  /\ made.spent <= made.lostSpent + CountedSpent + run.spend

\* Recorded after midnight, a call counts for the day before.
LateRecord ==
  run.phase = "recording" /\ budget.day # today => made.calls = 0 /\ made.spent = 0

RecordsKept ==
  /\ CountedCalls <= KeptCalls + made.unsavedCalls
  /\ CountedSpent <= KeptSpent + made.unsavedSpent

BudgetInv ==
  ReconcileTypeOK /\ DaysPass /\ SpendOpen /\ RoomKept /\ CallsCounted /\ LateRecord /\ RecordsKept

\* A process starts idle, with a budget never used.
LEMMA ReconcileInitTyped == ReconcileInit => ReconcileTypeOK
<1> SUFFICES ASSUME ReconcileInit PROVE ReconcileTypeOK
  OBVIOUS
<1> USE ReconcileAssumption DEF ReconcileInit, ReconcileTypeOK
<1>1. run = NoRun /\ NoRun \in Runs
  BY DEF NoRun, Runs
<1>2. /\ budget \in Budgets
      /\ disk \in SavedBudgets
      /\ made \in Histories
  BY DEF NoBudget, NothingMade, Budgets, SavedBudgets, Histories
<1>3. /\ position \in [Symbols -> 0..MaxPosition] /\ seenHeld \in [Symbols -> 0..MaxPosition]
      /\ today \in 1..MaxDays /\ faults \in 0..MaxFaults
  OBVIOUS
<1>4. QED
  BY <1>1, <1>2, <1>3

\* The budgets the operators of BudgetTracker return.
LEMMA BudgetForms ==
  ASSUME ReconcileTypeOK
  PROVE  /\ ForToday(budget) \in Budgets
         /\ FreshRun(budget) \in Budgets
         /\ Saved(ForToday(budget)) \in SavedBudgets
         /\ Saved(FreshRun(budget)) \in SavedBudgets
<1> USE DEF ReconcileTypeOK
<1>1. ForToday(budget) \in Budgets
  <2>1. CASE budget.day = today
    BY <2>1 DEF ForToday
  <2>2. CASE budget.day # today
    BY <2>2 DEF ForToday, Budgets
  <2>3. QED
    BY <2>1, <2>2
<1>2. FreshRun(budget) \in Budgets
  BY <1>1 DEF FreshRun, Budgets
<1>3. ASSUME NEW b \in Budgets PROVE Saved(b) \in SavedBudgets
  BY ReconcileAssumption DEF Saved, Budgets, SavedBudgets
<1>4. QED
  BY <1>1, <1>2, <1>3

\* The histories the actions of the executor leave.
LEMMA CallForms ==
  ASSUME NEW h \in Histories, NEW s \in Nat, NEW lostCalls \in Nat, NEW lostSpent \in Nat
  PROVE  [h EXCEPT !.calls = @ + 1, !.spent = @ + s, !.lostCalls = lostCalls,
                   !.lostSpent = lostSpent] \in Histories
<1>1. h.calls + 1 \in Nat /\ h.spent + s \in Nat
  BY DEF Histories
<1>2. QED
  BY <1>1 DEF Histories

LEMMA EffectForms ==
  ASSUME NEW h \in Histories, NEW s \in Nat, NEW c \in BOOLEAN
  PROVE  [h EXCEPT !.calls = @ + 1, !.spent = @ + s,
                   !.lostCalls = IF c THEN @ ELSE @ + 1, !.lostSpent = IF c THEN @ ELSE @ + s] \in Histories
<1>1. (IF c THEN h.lostCalls ELSE h.lostCalls + 1) \in Nat
  BY DEF Histories
<1>2. (IF c THEN h.lostSpent ELSE h.lostSpent + s) \in Nat
  BY DEF Histories
<1>3. QED
  BY <1>1, <1>2, CallForms, Zenon

LEMMA SavingForms ==
  ASSUME NEW h \in Histories, NEW unsavedCalls \in Nat, NEW unsavedSpent \in Nat
  PROVE  [h EXCEPT !.hot = @ + 1, !.unsavedCalls = unsavedCalls, !.unsavedSpent = unsavedSpent] \in Histories
<1>1. h.hot + 1 \in Nat
  BY DEF Histories
<1>2. QED
  BY <1>1 DEF Histories

LEMMA RecordForms ==
  ASSUME NEW h \in Histories, NEW s \in Nat, NEW c \in BOOLEAN
  PROVE  [h EXCEPT !.hot = @ + 1, !.unsavedCalls = IF c THEN 0 ELSE @ + 1,
                   !.unsavedSpent = IF c THEN 0 ELSE @ + s] \in Histories
<1>1. (IF c THEN 0 ELSE h.unsavedCalls + 1) \in Nat
  BY DEF Histories
<1>2. (IF c THEN 0 ELSE h.unsavedSpent + s) \in Nat
  BY DEF Histories
<1>3. QED
  BY <1>1, <1>2, SavingForms, Zenon

LEMMA RestartForms ==
  ASSUME NEW h \in Histories, NEW lostCalls \in Nat, NEW lostSpent \in Nat
  PROVE  [h EXCEPT !.hot = 0, !.unsavedCalls = 0, !.unsavedSpent = 0, !.lostCalls = lostCalls,
                   !.lostSpent = lostSpent] \in Histories
<1>1. [h EXCEPT !.hot = 0, !.unsavedCalls = 0, !.unsavedSpent = 0] \in Histories
  BY DEF Histories
<1>2. QED
  BY <1>1 DEF Histories

LEMMA ForgettingForms == ASSUME ReconcileTypeOK, NEW torn \in BOOLEAN PROVE Forgetting(torn) \in Histories
<1> DEFINE open == IF run.phase = "recording" THEN 1 ELSE 0
<1>1. made \in Histories /\ open \in Nat /\ run.spend \in Nat
  BY DEF ReconcileTypeOK, Runs
<1> HIDE DEF open
<1>2. (IF torn THEN made.calls ELSE made.lostCalls + open + made.unsavedCalls) \in Nat
  BY <1>1 DEF Histories
<1>3. (IF torn THEN made.spent ELSE made.lostSpent + run.spend + made.unsavedSpent) \in Nat
  BY <1>1 DEF Histories
<1> USE DEF open
<1>4. QED
  BY <1>1, <1>2, <1>3, RestartForms, Zenon DEF Forgetting

\* What an action of the executor does to what its gates do not read.
LEMMA ActTyped ==
  ASSUME ReconcileTypeOK, NEW kind \in {"cancel", "flatten"}, NEW target, NEW remains, NEW spend \in Nat,
         remains \in [phase : {"acting"}, cancels : SUBSET Orders, flattens : SUBSET Symbols,
                   lock : {"none", "cancel", "flatten"}, spend : Nat],
         kind = "cancel" => target \in Orders, kind = "flatten" => target \in Symbols,
         Act(kind, target, remains, spend)
  PROVE  ReconcileTypeOK'
<1> USE ReconcileAssumption
<1>1. /\ budget' \in Budgets
      /\ disk' \in SavedBudgets
  BY BudgetForms DEF Act, Touch, ReconcileTypeOK
<1>2. /\ run'.phase # "idle"
      /\ run' \in Runs
  <2>1. run' = remains \/ run' = [remains EXCEPT !.phase = "recording", !.spend = spend]
    BY DEF Act
  <2>2. QED
    BY <2>1 DEF Runs
<1>3. faults' \in 0..MaxFaults
  <2>1. faults' = faults \/ (faults < MaxFaults /\ faults' = faults + 1)
    BY Zenon DEF Act
  <2>2. QED
    BY <2>1 DEF ReconcileTypeOK
<1>4. /\ book' \subseteq Orders /\ gone' \subseteq Orders /\ position' \in [Symbols -> 0..MaxPosition]
  <2>1. \/ UNCHANGED exchangeVars
        \/ /\ target \in Orders /\ book' = book \ {target} /\ gone' = gone \cup {target} /\ UNCHANGED position
        \/ target \in Symbols /\ position' = [position EXCEPT ![target] = 0] /\ UNCHANGED <<book, gone>>
    BY DEF Act, Takes, Cancelled, Flattened
  <2>2. 0 \in 0..MaxPosition
    OBVIOUS
  <2>3. QED
    BY <2>1, <2>2 DEF exchangeVars, ReconcileTypeOK
<1>5. made' \in Histories
  <2>1. \/ UNCHANGED made
        \/ \E s \in Nat, answered \in BOOLEAN : Effect(s, answered)
    <3>1. kind = "flatten" => seenHeld[target] \in Nat
      BY DEF ReconcileTypeOK
    <3>2. UNCHANGED made \/ Takes(kind, target, TRUE) \/ Takes(kind, target, FALSE)
      BY DEF Act
    <3>3. QED
      BY <3>1, <3>2 DEF Takes, Cancelled, Flattened
  <2>2. QED
    <3>1. made \in Histories
      BY DEF ReconcileTypeOK
    <3>2. ASSUME NEW s \in Nat, NEW answered \in BOOLEAN, Effect(s, answered) PROVE made' \in Histories
      BY <3>1, <3>2, EffectForms DEF Effect
    <3>3. QED
      BY <2>1, <3>1, <3>2
<1>6. QED
  BY <1>1, <1>2, <1>3, <1>4, <1>5 DEF Act, ReconcileTypeOK, observedVars

\* Every variable keeps its type, for any orders, symbols and limits.
THEOREM ReconcileTypeCorrect == ReconcileSpec => []ReconcileTypeOK
<1>1. ReconcileTypeOK /\ [ReconcileNext]_reconcileVars => ReconcileTypeOK'
  <2> SUFFICES ASSUME ReconcileTypeOK, [ReconcileNext]_reconcileVars PROVE ReconcileTypeOK'
    OBVIOUS
  <2>1. CASE UNCHANGED reconcileVars
    BY <2>1 DEF reconcileVars, ReconcileTypeOK
  <2>2. ASSUME NEW o \in Orders, Appears(o) PROVE ReconcileTypeOK'
    BY <2>2 DEF Appears, ReconcileTypeOK, observedVars, executorVars
  <2>3. ASSUME NEW o \in Orders, NEW filled \in BOOLEAN, Leaves(o, filled) PROVE ReconcileTypeOK'
    <3>1. book' \subseteq Orders /\ gone' \subseteq Orders
      BY <2>3 DEF Leaves, ReconcileTypeOK
    <3>2. position' \in [Symbols -> 0..MaxPosition]
      <4>1. UNCHANGED position
            \/ (position[SymbolOf[o]] < MaxPosition /\ position' = [position EXCEPT ![SymbolOf[o]] = @ + 1])
        BY <2>3 DEF Leaves
      <4>2. position[SymbolOf[o]] < MaxPosition => position[SymbolOf[o]] + 1 \in 0..MaxPosition
        BY ReconcileAssumption DEF ReconcileTypeOK
      <4>3. QED
        BY <4>1, <4>2 DEF ReconcileTypeOK
    <3>3. UNCHANGED <<mode, seenOpen, seenHeld, haRole, run, budget, disk, cooled, made, today, faults>>
      BY <2>3 DEF Leaves, observedVars, executorVars
    <3>4. QED
      BY <3>1, <3>2, <3>3 DEF ReconcileTypeOK
  <2>4. CASE RoleChanges \/ CooldownEnds \/ EndRun
    <3>1. CASE RoleChanges
      BY <3>1 DEF RoleChanges, ReconcileTypeOK, exchangeVars, observedVars, executorVars
    <3>2. CASE CooldownEnds
      <4>1. made' \in Histories
        BY <3>2 DEF CooldownEnds, Histories, ReconcileTypeOK
      <4>2. QED
        BY <3>2, <4>1 DEF CooldownEnds, ReconcileTypeOK, exchangeVars, observedVars
    <3>3. CASE EndRun
      <4>1. run' = NoRun /\ NoRun \in Runs
        BY <3>3 DEF EndRun, NoRun, Runs
      <4>2. QED
        BY <3>3, <4>1 DEF EndRun, ReconcileTypeOK, exchangeVars, observedVars
    <3>4. QED
      BY <2>4, <3>1, <3>2, <3>3
  <2>5. CASE Midnight
    BY <2>5, ReconcileAssumption DEF Midnight, NothingMade, Histories, ReconcileTypeOK, exchangeVars, observedVars
  <2>6. ASSUME NEW okOrders \in SUBSET Symbols, NEW okPositions \in SUBSET Symbols,
               BeginRun(okOrders, okPositions)
        PROVE  ReconcileTypeOK'
    <3>1. seenOpen' \subseteq Orders /\ seenHeld' \in [Symbols -> 0..MaxPosition]
      BY <2>6 DEF BeginRun, Snapshot, OrdersSeen, PositionsSeen, ReconcileTypeOK
    <3>2. /\ budget' \in Budgets
          /\ disk' \in SavedBudgets
      BY <2>6, BudgetForms DEF BeginRun, ReconcileTypeOK
    <3>3. /\ run'.phase = "acting"
          /\ run' \in Runs
      <4>1. UnexpectedOrders(seenOpen') \subseteq Orders /\ UnexpectedPositions(seenHeld') \subseteq Symbols
        BY <3>1 DEF UnexpectedOrders, UnexpectedPositions
      <4>2. QED
        BY <2>6, <4>1 DEF BeginRun, Runs
    <3>4. QED
      BY <2>6, <3>1, <3>2, <3>3 DEF BeginRun, ReconcileTypeOK, exchangeVars
  <2>7. ASSUME NEW o \in Orders, HandleCancel(o) PROVE ReconcileTypeOK'
    <3> DEFINE remains == [run EXCEPT !.cancels = @ \ {o}, !.lock = "cancel"]
    <3>1. remains \in [phase : {"acting"}, cancels : SUBSET Orders, flattens : SUBSET Symbols,
                    lock : {"none", "cancel", "flatten"}, spend : Nat]
      BY <2>7 DEF HandleCancel, ReconcileTypeOK, Runs
    <3>2. Act("cancel", o, remains, 0)
      BY <2>7 DEF HandleCancel
    <3> HIDE DEF remains
    <3>3. QED
      BY <3>1, <3>2, ActTyped
  <2>8. ASSUME NEW s \in Symbols, HandleFlatten(s) PROVE ReconcileTypeOK'
    <3> DEFINE remains == [run EXCEPT !.flattens = @ \ {s}, !.lock = "flatten"]
    <3>1. remains \in [phase : {"acting"}, cancels : SUBSET Orders, flattens : SUBSET Symbols,
                    lock : {"none", "cancel", "flatten"}, spend : Nat]
      BY <2>8 DEF HandleFlatten, ReconcileTypeOK, Runs
    <3>2. Act("flatten", s, remains, seenHeld[s]) /\ seenHeld[s] \in Nat
      BY <2>8, ReconcileAssumption DEF HandleFlatten, ReconcileTypeOK
    <3> HIDE DEF remains
    <3>3. QED
      BY <3>1, <3>2, ActTyped
  <2>9. ASSUME NEW saved \in BOOLEAN, Record(saved) PROVE ReconcileTypeOK'
    <3>1. run.spend \in Nat
      BY DEF ReconcileTypeOK, Runs
    <3>2. budget' \in Budgets /\ (disk' = disk \/ disk' = Saved(budget'))
      <4>1. budget' = [budget EXCEPT !.calls = @ + 1, !.spent = @ + run.spend,
                                     !.runCalls = @ + 1, !.runSpent = @ + run.spend]
        BY <2>9 DEF Record
      <4>2. budget' = [day |-> budget.day, calls |-> budget.calls + 1, spent |-> budget.spent + run.spend,
                       runCalls |-> budget.runCalls + 1, runSpent |-> budget.runSpent + run.spend]
        BY <4>1 DEF ReconcileTypeOK, Budgets
      <4>3. budget' \in Budgets
        BY <3>1, <4>2 DEF ReconcileTypeOK, Budgets
      <4>4. QED
        BY <2>9, <4>3 DEF Record
    <3>3. disk' \in SavedBudgets
      BY <3>2, ReconcileAssumption DEF Saved, ReconcileTypeOK, Budgets, SavedBudgets
    <3>4. made' \in Histories
      <4>1. made \in Histories
        BY DEF ReconcileTypeOK
      <4>2. made' = [made EXCEPT !.hot = @ + 1, !.unsavedCalls = IF saved THEN 0 ELSE @ + 1,
                                 !.unsavedSpent = IF saved THEN 0 ELSE @ + run.spend]
        BY <2>9 DEF Record
      <4>3. QED
        BY <3>1, <4>1, <4>2, RecordForms
    <3>5. run'.phase = "acting" /\ run' \in Runs
      BY <2>9 DEF Record, ReconcileTypeOK, Runs
    <3>6. faults' \in 0..MaxFaults
      BY <2>9, ReconcileAssumption DEF Record, ReconcileTypeOK
    <3>7. QED
      BY <2>9, <3>2, <3>3, <3>4, <3>5, <3>6 DEF Record, ReconcileTypeOK, exchangeVars, observedVars
  <2>10. ASSUME NEW torn \in BOOLEAN, ProcessDies(torn) PROVE ReconcileTypeOK'
    <3>1. Loaded(torn) \in SavedBudgets
      BY ReconcileAssumption DEF Loaded, NoBudget, ReconcileTypeOK, SavedBudgets
    <3>2. budget' \in Budgets /\ disk' \in SavedBudgets
      <4> DEFINE read == Loaded(torn)
                 whole == [day |-> read.day, calls |-> read.calls, spent |-> read.spent,
                           runCalls |-> 0, runSpent |-> 0]
      <4>1. budget' = ForToday(whole) /\ disk' = Saved(ForToday(whole))
        BY <2>10 DEF ProcessDies
      <4>2. whole \in [day : 0..MaxDays, calls : Nat, spent : Nat, runCalls : Nat, runSpent : Nat]
        BY <3>1 DEF SavedBudgets
      <4> HIDE DEF whole
      <4>3. ForToday(whole) \in Budgets
        BY <4>2 DEF ForToday, ReconcileTypeOK, Budgets
      <4>4. QED
        BY <4>1, <4>3, ReconcileAssumption DEF Saved, Budgets, SavedBudgets
    <3>3. made' \in Histories
      BY <2>10, ForgettingForms DEF ProcessDies
    <3>4. run' = NoRun /\ NoRun \in Runs
      BY <2>10 DEF ProcessDies, NoRun, Runs
    <3>5. seenHeld' \in [Symbols -> 0..MaxPosition] /\ faults' \in 0..MaxFaults
      BY <2>10, ReconcileAssumption DEF ProcessDies, ReconcileTypeOK
    <3>6. QED
      BY <2>10, <3>2, <3>3, <3>4, <3>5 DEF ProcessDies, ReconcileTypeOK, exchangeVars
  <2>11. QED
    BY <2>1, <2>2, <2>3, <2>4, <2>5, <2>6, <2>7, <2>8, <2>9, <2>10 DEF ReconcileNext, RunStep
<1>2. QED
  BY <1>1, ReconcileInitTyped, PTL DEF ReconcileSpec

\* What an action of the executor does to the counts: nothing, a call to record, or one lost.
LEMMA ActCounts ==
  ASSUME ReconcileTypeOK, NEW kind \in {"cancel", "flatten"}, NEW target, NEW remains, NEW spend \in Nat,
         remains \in [phase : {"acting"}, cancels : SUBSET Orders, flattens : SUBSET Symbols,
                   lock : {"none", "cancel", "flatten"}, spend : Nat],
         kind = "cancel" => spend = 0, kind = "flatten" => spend = seenHeld[target],
         Act(kind, target, remains, spend)
  PROVE  \/ run' = remains /\ made' = made
         \/ /\ WithinBudget(spend) /\ run'.phase = "recording" /\ run'.spend = spend
            /\ made'.calls = made.calls + 1 /\ made'.spent = made.spent + spend
            /\ made'.lostCalls = made.lostCalls /\ made'.lostSpent = made.lostSpent
            /\ made'.unsavedCalls = made.unsavedCalls /\ made'.unsavedSpent = made.unsavedSpent
         \/ /\ run' = remains
            /\ made'.calls = made.calls + 1 /\ made'.spent = made.spent + spend
            /\ made'.lostCalls = made.lostCalls + 1 /\ made'.lostSpent = made.lostSpent + spend
            /\ made'.unsavedCalls = made.unsavedCalls /\ made'.unsavedSpent = made.unsavedSpent
<1>1. \/ run' = remains /\ made' = made
      \/ /\ WithinBudget(spend) /\ run' = [remains EXCEPT !.phase = "recording", !.spend = spend]
         /\ Effect(spend, TRUE)
      \/ run' = remains /\ Effect(spend, FALSE)
  BY DEF Act, Permitted, Takes, Cancelled, Flattened
<1>2. CASE run' = remains /\ made' = made
  BY <1>2
<1>3. CASE /\ WithinBudget(spend) /\ run' = [remains EXCEPT !.phase = "recording", !.spend = spend]
           /\ Effect(spend, TRUE)
  BY <1>3 DEF Effect, ReconcileTypeOK, Histories
<1>4. CASE run' = remains /\ Effect(spend, FALSE)
  BY <1>4 DEF Effect, ReconcileTypeOK, Histories
<1>5. QED
  BY <1>1, <1>2, <1>3, <1>4

Kept == DaysPass /\ SpendOpen /\ RoomKept /\ CallsCounted /\ LateRecord /\ RecordsKept

LEMMA ActKeeps ==
  ASSUME BudgetInv, NEW kind \in {"cancel", "flatten"}, NEW target, NEW remains, NEW spend \in Nat,
         remains \in [phase : {"acting"}, cancels : SUBSET Orders, flattens : SUBSET Symbols,
                   lock : {"none", "cancel", "flatten"}, spend : Nat],
         remains.spend = 0, run.phase = "acting",
         kind = "cancel" => spend = 0, kind = "flatten" => spend = seenHeld[target],
         Act(kind, target, remains, spend)
  PROVE  Kept'
<1> USE ReconcileAssumption
<1>1. /\ budget' = ForToday(budget) /\ disk' = IF budget.day = today THEN disk ELSE Saved(ForToday(budget))
      /\ today' = today /\ run.spend = 0
  BY DEF Act, Touch, BudgetInv, SpendOpen
<1> USE DEF ReconcileTypeOK, DaysPass, SpendOpen, RoomKept, CallsCounted, LateRecord, RecordsKept,
            CountedCalls, CountedSpent, KeptCalls, KeptSpent, OpenCalls, Budgets, SavedBudgets, Histories
<1>2. /\ CountedCalls' = CountedCalls /\ CountedSpent' = CountedSpent /\ budget'.day = today
      /\ KeptCalls' <= CallsPerDay /\ KeptSpent' <= SpendPerDay /\ disk'.day <= today
      /\ CountedCalls <= KeptCalls' + made.unsavedCalls /\ CountedSpent <= KeptSpent' + made.unsavedSpent
      /\ ForToday(budget).calls = CountedCalls /\ ForToday(budget).spent = CountedSpent
  <2>1. CASE budget.day = today
    BY <1>1, <2>1 DEF ForToday, BudgetInv
  <2>2. CASE budget.day # today
    <3>1. /\ budget'.day = today /\ budget'.calls = 0 /\ budget'.spent = 0
          /\ disk'.day = today /\ disk'.calls = 0 /\ disk'.spent = 0
      BY <1>1, <2>2 DEF ForToday, Saved, BudgetInv
    <3>2. CountedCalls = 0 /\ CountedSpent = 0
      BY <2>2
    <3>3. QED
      BY <1>1, <2>2, <3>1, <3>2 DEF BudgetInv
  <2>3. QED
    BY <2>1, <2>2
<1>3. CASE run' = remains /\ made' = made
  BY <1>1, <1>2, <1>3 DEF Kept, BudgetInv
<1>4. CASE /\ WithinBudget(spend) /\ run'.phase = "recording" /\ run'.spend = spend
           /\ made'.calls = made.calls + 1 /\ made'.spent = made.spent + spend
           /\ made'.lostCalls = made.lostCalls /\ made'.lostSpent = made.lostSpent
           /\ made'.unsavedCalls = made.unsavedCalls /\ made'.unsavedSpent = made.unsavedSpent
  BY <1>1, <1>2, <1>4 DEF Kept, WithinBudget, BudgetInv
<1>5. CASE /\ run' = remains
           /\ made'.calls = made.calls + 1 /\ made'.spent = made.spent + spend
           /\ made'.lostCalls = made.lostCalls + 1 /\ made'.lostSpent = made.lostSpent + spend
           /\ made'.unsavedCalls = made.unsavedCalls /\ made'.unsavedSpent = made.unsavedSpent
  BY <1>1, <1>2, <1>5 DEF Kept, BudgetInv
<1>6. QED
  BY <1>3, <1>4, <1>5, ActCounts DEF BudgetInv

LEMMA BudgetInvariant == ReconcileSpec => []BudgetInv
<1> USE ReconcileAssumption
<1>1. ReconcileInit => BudgetInv
  <2>1. ReconcileInit => ReconcileTypeOK
    BY ReconcileInitTyped
  <2>2. ReconcileInit => DaysPass /\ SpendOpen /\ RoomKept /\ CallsCounted /\ LateRecord /\ RecordsKept
    BY DEF ReconcileInit, NoRun, NoBudget, NothingMade, DaysPass, SpendOpen, RoomKept, CallsCounted,
           LateRecord, RecordsKept, CountedCalls, CountedSpent, KeptCalls, KeptSpent, OpenCalls
  <2>3. QED
    BY <2>1, <2>2 DEF BudgetInv
<1>2. BudgetInv /\ ReconcileTypeOK' /\ [ReconcileNext]_reconcileVars => BudgetInv'
  <2> SUFFICES ASSUME BudgetInv, ReconcileTypeOK', [ReconcileNext]_reconcileVars
               PROVE  (DaysPass /\ SpendOpen /\ RoomKept /\ CallsCounted /\ LateRecord /\ RecordsKept)'
    BY DEF BudgetInv
  <2> USE DEF BudgetInv, ReconcileTypeOK, exchangeVars, observedVars, executorVars, DaysPass, SpendOpen,
              RoomKept, CallsCounted, LateRecord, RecordsKept, Kept, CountedCalls, CountedSpent, KeptCalls,
              KeptSpent, OpenCalls, Runs, Budgets, SavedBudgets, Histories
  <2>1. CASE UNCHANGED <<run, budget, disk, made, today>>
    BY <2>1
  <2>2. CASE CooldownEnds
    BY <2>2 DEF CooldownEnds
  <2>3. CASE Midnight
    BY <2>3 DEF Midnight, NothingMade
  <2>4. ASSUME NEW okOrders \in SUBSET Symbols, NEW okPositions \in SUBSET Symbols,
               BeginRun(okOrders, okPositions)
        PROVE  Kept'
    BY <2>4 DEF BeginRun, FreshRun, ForToday, Saved
  <2>5. ASSUME NEW o \in Orders, HandleCancel(o) PROVE Kept'
    <3> DEFINE remains == [run EXCEPT !.cancels = @ \ {o}, !.lock = "cancel"]
    <3>1. remains \in [phase : {"acting"}, cancels : SUBSET Orders, flattens : SUBSET Symbols,
                    lock : {"none", "cancel", "flatten"}, spend : Nat]
      BY <2>5 DEF HandleCancel
    <3>2. Act("cancel", o, remains, 0) /\ remains.phase = "acting" /\ remains.spend = 0
      BY <2>5 DEF HandleCancel
    <3> HIDE DEF remains
    <3> HIDE DEF BudgetInv, ReconcileTypeOK, DaysPass, SpendOpen, RoomKept, CallsCounted, LateRecord,
                 RecordsKept, Kept, Runs, Budgets, SavedBudgets, Histories
    <3>3. QED
      BY <2>5, <3>1, <3>2, ActKeeps DEF HandleCancel
  <2>6. ASSUME NEW s \in Symbols, HandleFlatten(s) PROVE Kept'
    <3> DEFINE remains == [run EXCEPT !.flattens = @ \ {s}, !.lock = "flatten"]
    <3>1. remains \in [phase : {"acting"}, cancels : SUBSET Orders, flattens : SUBSET Symbols,
                    lock : {"none", "cancel", "flatten"}, spend : Nat]
      BY <2>6 DEF HandleFlatten
    <3>2. Act("flatten", s, remains, seenHeld[s]) /\ remains.phase = "acting" /\ remains.spend = 0 /\ seenHeld[s] \in Nat
      BY <2>6 DEF HandleFlatten
    <3> HIDE DEF remains
    <3> HIDE DEF BudgetInv, ReconcileTypeOK, DaysPass, SpendOpen, RoomKept, CallsCounted, LateRecord,
                 RecordsKept, Kept, Runs, Budgets, SavedBudgets, Histories
    <3>3. QED
      BY <2>6, <3>1, <3>2, ActKeeps DEF HandleFlatten
  <2>7. ASSUME NEW saved \in BOOLEAN, Record(saved) PROVE Kept'
    BY <2>7 DEF Record, Saved
  <2>8. CASE EndRun
    BY <2>8 DEF EndRun, NoRun
  <2>9. ASSUME NEW torn \in BOOLEAN, ProcessDies(torn) PROVE Kept'
    BY <2>9 DEF ProcessDies, Loaded, NoBudget, ForToday, Saved, Forgetting, NoRun
  <2>10. QED
    BY <2>1, <2>2, <2>3, <2>4, <2>5, <2>6, <2>7, <2>8, <2>9
    DEF ReconcileNext, RunStep, reconcileVars, Appears, Leaves, RoleChanges
<1>3. QED
  BY <1>1, <1>2, ReconcileTypeCorrect, PTL DEF ReconcileSpec

\* Whatever midnights, crashes, restarts and lost answers do, what took effect in a day
\* is within the daily budget but for what no record could tell, for any limits.
THEOREM DailyBudgetHolds == ReconcileSpec => []WithinDailyBudget
<1>1. BudgetInv => WithinDailyBudget
  BY ReconcileAssumption
  DEF BudgetInv, ReconcileTypeOK, RoomKept, CallsCounted, WithinDailyBudget, CountedCalls, CountedSpent,
      OpenCalls, Runs, Budgets, Histories
<1>2. QED
  BY <1>1, BudgetInvariant, PTL

-----------------------------------------------------------------------------
\* The cooldown, and the file of the budget.

\* A call is recorded only with the cooldown over, and none since.
CoolInv ==
  /\ run.phase = "recording" => cooled
  /\ cooled => made.hot = 0
  /\ CooldownBetweenCalls

\* What an action of the executor leaves of the cooldown and of the two budgets.
LEMMA ActRests ==
  ASSUME ReconcileTypeOK, NEW kind, NEW target, NEW remains, NEW spend,
         remains.phase = "acting", Act(kind, target, remains, spend)
  PROVE  /\ cooled' = cooled /\ today' = today /\ (run'.phase = "recording" => cooled)
         /\ made'.hot = made.hot /\ made'.unsavedCalls = made.unsavedCalls
         /\ budget' = ForToday(budget) /\ disk' = IF budget.day = today THEN disk ELSE Saved(ForToday(budget))
<1>1. /\ cooled' = cooled /\ today' = today /\ (run' = remains \/ cooled)
      /\ made' = made \/ Takes(kind, target, TRUE) \/ Takes(kind, target, FALSE)
      /\ budget' = ForToday(budget) /\ disk' = IF budget.day = today THEN disk ELSE Saved(ForToday(budget))
  BY DEF Act, Permitted, Touch
<1>2. made' = made \/ \E s, answered : Effect(s, answered)
  BY <1>1 DEF Takes, Cancelled, Flattened
<1>3. made'.hot = made.hot /\ made'.unsavedCalls = made.unsavedCalls
  BY <1>2 DEF Effect, ReconcileTypeOK, Histories
<1>4. QED
  BY <1>1, <1>3

\* Two calls that succeeded are a cooldown apart, also within one run and across midnight,
\* unless the process was restarted in between.
THEOREM CooldownHolds == ReconcileSpec => []CooldownBetweenCalls
<1>1. ReconcileInit => CoolInv
  BY DEF ReconcileInit, NoRun, NothingMade, CoolInv, CooldownBetweenCalls
<1>2. ReconcileTypeOK /\ CoolInv /\ [ReconcileNext]_reconcileVars => CoolInv'
  <2> SUFFICES ASSUME ReconcileTypeOK, CoolInv, [ReconcileNext]_reconcileVars PROVE CoolInv'
    OBVIOUS
  <2> USE DEF CoolInv, CooldownBetweenCalls
  <2>1. CASE UNCHANGED <<run, cooled, made>>
    BY <2>1
  <2>2. CASE CooldownEnds
    BY <2>2 DEF CooldownEnds, ReconcileTypeOK, Histories
  <2>3. CASE Midnight
    BY <2>3 DEF Midnight, NothingMade
  <2>4. ASSUME NEW okOrders, NEW okPositions, BeginRun(okOrders, okPositions) PROVE CoolInv'
    BY <2>4 DEF BeginRun
  <2>5. ASSUME NEW o \in Orders, HandleCancel(o) PROVE CoolInv'
    <3> DEFINE remains == [run EXCEPT !.cancels = @ \ {o}, !.lock = "cancel"]
    <3>1. Act("cancel", o, remains, 0) /\ remains.phase = "acting"
      BY <2>5 DEF HandleCancel, ReconcileTypeOK, Runs
    <3> HIDE DEF remains
    <3>2. QED
      BY <3>1, ActRests
  <2>6. ASSUME NEW s \in Symbols, HandleFlatten(s) PROVE CoolInv'
    <3> DEFINE remains == [run EXCEPT !.flattens = @ \ {s}, !.lock = "flatten"]
    <3>1. Act("flatten", s, remains, seenHeld[s]) /\ remains.phase = "acting"
      BY <2>6 DEF HandleFlatten, ReconcileTypeOK, Runs
    <3> HIDE DEF remains
    <3>2. QED
      BY <3>1, ActRests
  <2>7. ASSUME NEW saved \in BOOLEAN, Record(saved) PROVE CoolInv'
    <3>1. ~cooled' /\ run' = [run EXCEPT !.phase = "acting", !.spend = 0]
      BY <2>7 DEF Record
    <3>2. made'.hot = 1
      BY <2>7 DEF Record, ReconcileTypeOK, Histories
    <3>3. QED
      BY <3>1, <3>2 DEF ReconcileTypeOK, Runs
  <2>8. CASE EndRun
    BY <2>8 DEF EndRun, NoRun
  <2>9. ASSUME NEW torn, ProcessDies(torn) PROVE CoolInv'
    <3>1. made'.hot = 0 /\ run' = NoRun
      BY <2>9 DEF ProcessDies, Forgetting, ReconcileTypeOK, Histories
    <3>2. QED
      BY <3>1 DEF NoRun
  <2>10. QED
    BY <2>1, <2>2, <2>3, <2>4, <2>5, <2>6, <2>7, <2>8, <2>9
    DEF ReconcileNext, RunStep, reconcileVars, Appears, Leaves, RoleChanges, executorVars
<1>3. CoolInv => CooldownBetweenCalls
  BY DEF CoolInv
<1>4. QED
  BY <1>1, <1>2, <1>3, ReconcileTypeCorrect, PTL DEF ReconcileSpec

\* The budget's file is never behind what was recorded and saved: a restart on the same day
\* goes on with the calls and the spending there were.
THEOREM BudgetPersists == ReconcileSpec => []DiskKeepsUp
<1>1. ReconcileInit => DiskKeepsUp
  BY DEF ReconcileInit, NoBudget, DiskKeepsUp
<1>2. BudgetInv /\ DiskKeepsUp /\ [ReconcileNext]_reconcileVars => DiskKeepsUp'
  <2> SUFFICES ASSUME BudgetInv, ReconcileTypeOK, DaysPass, DiskKeepsUp, [ReconcileNext]_reconcileVars
               PROVE  DiskKeepsUp'
    BY DEF BudgetInv
  <2>1. CASE UNCHANGED <<budget, disk, today, made>>
    BY <2>1 DEF DiskKeepsUp
  <2>2. CASE CooldownEnds
    BY <2>2 DEF CooldownEnds, DiskKeepsUp, ReconcileTypeOK, Histories
  <2>3. CASE Midnight
    BY <2>3, ReconcileAssumption DEF Midnight, DiskKeepsUp, DaysPass, ReconcileTypeOK, Budgets
  <2>4. ASSUME NEW okOrders, NEW okPositions, BeginRun(okOrders, okPositions) PROVE DiskKeepsUp'
    <3>1. budget' = FreshRun(budget) /\ UNCHANGED <<today, made>>
      BY <2>4 DEF BeginRun
    <3>2. budget'.calls = ForToday(budget).calls /\ budget'.spent = ForToday(budget).spent /\ budget'.day = today
      BY <3>1 DEF FreshRun, ForToday, ReconcileTypeOK, Budgets
    <3>3. CASE budget.day = today
      <4>1. disk' = disk /\ ForToday(budget) = budget
        BY <2>4, <3>3 DEF BeginRun, ForToday
      <4>2. QED
        BY <3>1, <3>2, <3>3, <4>1 DEF DiskKeepsUp
    <3>4. CASE budget.day # today
      <4>1. disk'.calls = budget'.calls /\ disk'.spent = budget'.spent
        BY <2>4, <3>1, <3>4 DEF BeginRun, Saved
      <4>2. QED
        BY <4>1 DEF DiskKeepsUp
    <3>5. QED
      BY <3>3, <3>4
  <2>5. ASSUME NEW kind, NEW target, NEW remains, NEW spend, remains.phase = "acting", Act(kind, target, remains, spend)
        PROVE  DiskKeepsUp'
    <3>1. /\ budget' = ForToday(budget) /\ today' = today /\ made'.unsavedCalls = made.unsavedCalls
          /\ disk' = IF budget.day = today THEN disk ELSE Saved(ForToday(budget))
      BY <2>5, ActRests
    <3>2. CASE budget.day = today
      BY <3>1, <3>2 DEF DiskKeepsUp, ForToday
    <3>3. CASE budget.day # today
      <4>1. disk'.calls = budget'.calls /\ disk'.spent = budget'.spent
        BY <3>1, <3>3 DEF Saved
      <4>2. QED
        BY <4>1 DEF DiskKeepsUp
    <3>4. QED
      BY <3>2, <3>3
  <2>6. ASSUME NEW o \in Orders, HandleCancel(o) PROVE DiskKeepsUp'
    <3> DEFINE remains == [run EXCEPT !.cancels = @ \ {o}, !.lock = "cancel"]
    <3>1. Act("cancel", o, remains, 0) /\ remains.phase = "acting"
      BY <2>6 DEF HandleCancel, ReconcileTypeOK, Runs
    <3> HIDE DEF remains
    <3>2. QED
      BY <2>5, <3>1
  <2>7. ASSUME NEW s \in Symbols, HandleFlatten(s) PROVE DiskKeepsUp'
    <3> DEFINE remains == [run EXCEPT !.flattens = @ \ {s}, !.lock = "flatten"]
    <3>1. Act("flatten", s, remains, seenHeld[s]) /\ remains.phase = "acting"
      BY <2>7 DEF HandleFlatten, ReconcileTypeOK, Runs
    <3> HIDE DEF remains
    <3>2. QED
      BY <2>5, <3>1
  <2>8. ASSUME Record(TRUE) PROVE DiskKeepsUp'
    BY <2>8 DEF Record, Saved, DiskKeepsUp
  <2>9. ASSUME Record(FALSE) PROVE DiskKeepsUp'
    <3>1. made'.unsavedCalls = made.unsavedCalls + 1 /\ made.unsavedCalls \in Nat
      BY <2>9 DEF Record, ReconcileTypeOK, Histories
    <3>2. QED
      BY <3>1 DEF DiskKeepsUp
  <2>10. ASSUME NEW torn, ProcessDies(torn) PROVE DiskKeepsUp'
    BY <2>10 DEF ProcessDies, Saved, DiskKeepsUp
  <2>11. CASE EndRun
    BY <2>11 DEF EndRun, DiskKeepsUp
  <2>12. QED
    BY <2>1, <2>2, <2>3, <2>4, <2>6, <2>7, <2>8, <2>9, <2>10, <2>11
    DEF ReconcileNext, RunStep, reconcileVars, Appears, Leaves, RoleChanges, executorVars
<1>3. QED
  BY <1>1, <1>2, BudgetInvariant, PTL DEF ReconcileSpec

-----------------------------------------------------------------------------
\* A run of the trading script starts on symbols it knows the state of, and a zero exit
\* code tells the truth.  Both follow what each pass over the symbols has established:
\* outside the loop the process places nothing, so what was once clean stays clean.

Cleaning == {"sweep", "cancel", "position", "close", "reduce"}

Passing == Verifying \cup Cleaning

\* Where main() is tells whether the finally block was entered, that no verification is
\* half done, and that no pass is under way.
PlaceTells ==
  /\ at \in {"finally", "counted", "release"} => exiting
  /\ at \in StartupGates \cup {"guard", "contract", "connect", "loop"} => ~exiting /\ todo = {}
  /\ at \in {"check", "first", "second"} => ~exiting
  /\ at \notin Verifying \cup {"exited"} => half = "orders"
  /\ at = "finally" => code # 0 \/ reason # "not_started"

\* Between the two reads of a verification: no order was seen, and none has come since.
HalfVerified ==
  at \in Verifying /\ half = "positions" /\ found.orders = 0 /\ ~options.ha => resting[sym] = {}

GuardKnows ==
  at \in Passing \cup {"contract", "connect"} /\ LiveMainnet /\ ~options.skip_guard
      /\ ~options.ha /\ ~exiting =>
    \A s \in Traded \ (todo \cup recovered) : Clean(s)

CleanupKnows ==
  /\ at \in Passing /\ exiting /\ ~failed /\ ~options.ha => \A s \in Traded \ todo : Clean(s)
  /\ at = "counted" /\ ~failed /\ ~options.ha => \A s \in Traded : Clean(s)
  /\ at \in {"release", "exited"} /\ code = 0 /\ options.cleanup_on_exit /\ options.live
         /\ LiveMainnet /\ ~options.ha =>
       \A s \in Traded : Clean(s)

RunInv == TradingRunTypeOK /\ PlaceTells /\ HalfVerified /\ GuardKnows /\ CleanupKnows

\* Nothing the program or the exchange does outside the loop dirties a symbol.
LEMMA CleanStays ==
  ASSUME TradingRunTypeOK, TradingRunNext, ~options.ha, at # "loop", NEW s \in Traded, Clean(s)
  PROVE  resting'[s] = {} /\ holding'[s] = 0
<1>1. UNCHANGED exchange \/ CancelAll \/ ClosePosition \/ \E t \in Traded, o \in Slots : Fill(t, o)
  BY DEF TradingRunNext, RunsOn, PassGate, FailGate, BeginGuard, CountOrders, GuardChecks,
    FirstSnapshot, SecondSnapshot, Reads, FetchOrders, FetchPosition, SizeToClose, VerifyInside,
    VerifyAgain, ExchangeCallFails, SignContract, Connect, SnapshotArrives, Reconnects,
    GivesUpReconnecting, UserDataArrives, UserDataFails, BeginCleanup, CountFailures, CleanupRaises,
    Leave, FeedBreaks, Signal, LeadershipMoves, OtherInstanceActs, IsKilled, StartAgain, exchange
<1>2. CASE UNCHANGED exchange BY <1>2 DEF exchange, Clean
<1>3. CASE CancelAll
  BY <1>3 DEF CancelAll, Clean, TradingRunTypeOK
<1>4. CASE ClosePosition
  BY <1>4 DEF ClosePosition, Clean, TradingRunTypeOK
<1>5. CASE \E t \in Traded, o \in Slots : Fill(t, o)
  BY <1>5 DEF Fill, Clean, TradingRunTypeOK
<1> QED BY <1>1, <1>2, <1>3, <1>4, <1>5

\* Every variable of a run keeps its type.
LEMMA RunTypeStep ==
  ASSUME TradingRunTypeOK, [TradingRunNext]_tradingRunVars PROVE TradingRunTypeOK'
<1> USE TradingRunAssumption DEF TradingRunTypeOK
<1>0. 0 \in 0 .. UserTries /\ UserTries \in 0 .. UserTries /\ 1 \in 1 .. MaxRuns OBVIOUS
<1>1. CASE UNCHANGED tradingRunVars
  BY <1>1 DEF tradingRunVars, exchange, passVars, exitVars, runVars
<1>2. CASE PassGate
  <2>1. After[at] \in Places BY <1>2 DEF PassGate, StartupGates, After, Places
  <2> QED BY <1>2, <2>1 DEF PassGate, Goes, exchange, passVars, exitVars, runVars
<1>3. CASE FailGate
  BY <1>3 DEF FailGate, Quits, Places, Killed, exchange, passVars, runVars
<1>4. CASE BeginGuard
  BY <1>4 DEF BeginGuard, Goes, Places, Verifying, exchange, exitVars, runVars
<1>5. CASE CountOrders
  <2>1. PICK n : n = Cardinality(resting[sym]) OBVIOUS
  <2>2. resting[sym] \in SUBSET Slots OBVIOUS
  <2>3. n \in Nat BY <2>1, <2>2, FS_Subset, FS_CardinalityType
  <2>4. found' = [orders |-> n, held |-> 0] BY <1>5, <2>1 DEF CountOrders, Nothing
  <2>5. found' \in [orders : Nat, held : Nat] BY <2>3, <2>4
  <2>6. UNCHANGED <<exchange, todo, sym, prior, recovered, exitVars, runVars, options, at, leads, runs>>
          /\ half' = "positions"
    BY <1>5 DEF CountOrders
  <2> QED BY <2>5, <2>6 DEF exchange, exitVars, runVars
<1>6. ASSUME NEW place, Reads(place) PROVE found' \in [orders : Nat, held : Nat]
  BY <1>6 DEF Reads
<1>7. CASE GuardChecks
  BY <1>6, <1>7 DEF GuardChecks, Reads, GuardGoesOn, Turns, Goes, Quits, Places, Verifying,
    exchange, exitVars, runVars
<1>8. CASE FirstSnapshot
  <2>1. prior' \in [orders : Nat, held : Nat] BY <1>8 DEF FirstSnapshot
  <2> QED BY <1>6, <1>8, <2>1 DEF FirstSnapshot, Reads, Goes, Places, Verifying, exchange, exitVars, runVars
<1>9. CASE SecondSnapshot
  BY <1>6, <1>9 DEF SecondSnapshot, Reads, Goes, Quits, Places, Verifying, exchange, exitVars, runVars
<1>10. CASE FetchOrders \/ FetchPosition
  BY <1>10 DEF FetchOrders, FetchPosition, Sweeping, Goes, Places, Verifying, exchange, exitVars, runVars
<1>11. CASE CancelAll
  BY <1>11 DEF CancelAll, Sweeping, Goes, Places, exitVars, runVars
<1>12. CASE SizeToClose
  <2>1. found' \in [orders : Nat, held : Nat] BY <1>12 DEF SizeToClose, Nothing
  <2> QED BY <1>12, <2>1 DEF SizeToClose, Sweeping, Goes, Places, exchange, exitVars, runVars
<1>13. CASE ClosePosition
  <2> DEFINE rest == IF holding[sym] > found.held THEN holding[sym] - found.held ELSE 0
  <2>1. rest \in Nat OBVIOUS
  <2>2. holding' = [holding EXCEPT ![sym] = rest] BY <1>13 DEF ClosePosition
  <2> QED BY <1>13, <2>1, <2>2 DEF ClosePosition, Sweeping, Goes, Places, Verifying, exitVars, runVars
<1>14. CASE VerifyInside \/ VerifyAgain
  BY <1>6, <1>14 DEF VerifyInside, VerifyAgain, Reads, GuardGoesOn, SweepGoesOn, Turns, Goes, Quits,
    Places, Verifying, exchange, exitVars, runVars
<1>15. CASE ExchangeCallFails
  BY <1>15 DEF ExchangeCallFails, SweepGoesOn, Turns, Goes, Quits, Places, Verifying, exchange, runVars
<1>16. CASE SignContract
  BY <1>16 DEF SignContract, Goes, Quits, Places, exchange, passVars, exitVars, runVars
<1>17. CASE Connect
  <2>1. /\ at' \in {"loop", "finally"} /\ exiting' \in BOOLEAN /\ code' \in {code, 2}
        /\ began' \in BOOLEAN /\ feed' \in {"up", feed} /\ userTask' \in {0, UserTries}
    BY <1>17 DEF Connect, Goes, Raises, exitVars
  <2>2. UNCHANGED <<exchange, passVars, swept, failed, reason, shutdown, options, leads, runs>>
    BY <1>17 DEF Connect, Raises, exitVars
  <2> QED BY <1>0, <2>1, <2>2 DEF Places, exchange, passVars
<1>18. CASE SnapshotArrives
  <2>1. resting' \in [Traded -> SUBSET Slots]
    BY <1>18 DEF SnapshotArrives, EngineActs
  <2>2. /\ at' \in {"loop", "finally"} /\ exiting' \in BOOLEAN /\ code' \in {code, 2}
        /\ reason' \in {reason, "shutdown_requested", "duration_reached"} /\ userTask' \in {0, userTask}
    BY <1>18 DEF SnapshotArrives, Goes, Raises, Stops, exitVars
  <2>3. UNCHANGED <<holding, passVars, swept, failed, began, feed, shutdown, options, leads, runs>>
    BY <1>18 DEF SnapshotArrives, Raises, Stops, exitVars
  <2> QED BY <1>0, <2>1, <2>2, <2>3 DEF Places, passVars
<1>19. CASE (\E how \in {"down", "silent"} : FeedBreaks(how)) \/ Reconnects
  BY <1>19 DEF FeedBreaks, Reconnects, exchange, passVars, exitVars
<1>20. CASE GivesUpReconnecting
  <2>1. /\ at' = "finally" /\ exiting' \in BOOLEAN /\ code' \in {code, 2}
        /\ reason' \in {reason, "stream_ended"} /\ userTask' = 0
    BY <1>20 DEF GivesUpReconnecting, Goes, Raises, Stops
  <2>2. UNCHANGED <<exchange, passVars, swept, failed, began, feed, shutdown, options, leads, runs>>
    BY <1>20 DEF GivesUpReconnecting, Raises, Stops
  <2> QED BY <1>0, <2>1, <2>2 DEF Places, exchange, passVars
<1>21. CASE UserDataArrives \/ UserDataFails
  <2>1. resting' \in [Traded -> SUBSET Slots]
    BY <1>21 DEF UserDataArrives, UserDataFails, EngineActs, exchange
  <2> QED BY <1>21, <2>1 DEF UserDataArrives, UserDataFails, exchange, passVars, exitVars
<1>22. CASE BeginCleanup
  BY <1>22 DEF BeginCleanup, Goes, Places, exchange, runVars
<1>23. CASE CountFailures \/ CleanupRaises
  BY <1>23 DEF CountFailures, CleanupRaises, Goes, Places, exchange, passVars, runVars
<1>24. CASE Leave
  BY <1>24 DEF Leave, Goes, Places, exchange, passVars, exitVars, runVars
<1>25. CASE \E s \in Traded, o \in Slots : Fill(s, o)
  BY <1>25 DEF Fill, passVars, exitVars, runVars
<1>26. CASE Signal \/ LeadershipMoves
  <2>1. CASE Signal BY <2>1 DEF Signal, exchange, passVars, exitVars
  <2>2. CASE LeadershipMoves
    <3>1. leads' \in BOOLEAN BY <2>2 DEF LeadershipMoves
    <3>2. UNCHANGED <<exchange, passVars, exitVars, runVars, options, at, runs>> BY <2>2 DEF LeadershipMoves
    <3> QED BY <3>1, <3>2 DEF exchange, passVars, exitVars, runVars
  <2> QED BY <1>26, <2>1, <2>2
<1>27. CASE OtherInstanceActs
  BY <1>27 DEF OtherInstanceActs, passVars, exitVars, runVars
<1>28. CASE IsKilled
  BY <1>28 DEF IsKilled, Quits, Places, Killed, exchange, passVars, runVars
<1>29. CASE StartAgain
  <2>1. runs' \in 1 .. MaxRuns /\ UNCHANGED exchange BY <1>29 DEF StartAgain
  <2>2. PICK o \in Settings : Fresh(o) BY <1>29 DEF StartAgain
  <2>3. options' \in Settings /\ at' \in Places BY <2>2 DEF Fresh, Places, StartupGates
  <2>4. /\ found' \in [orders : Nat, held : Nat] /\ prior' \in [orders : Nat, held : Nat]
        /\ todo' = {} /\ sym' = sym /\ half' = "orders" /\ recovered' = {} /\ swept' = {}
    BY <2>2 DEF Fresh, Nothing
  <2>5. /\ exiting' = FALSE /\ failed' = FALSE /\ reason' = "not_started" /\ code' = 0
        /\ began' = FALSE /\ feed' = "down" /\ userTask' = 0 /\ shutdown' = FALSE /\ leads' = FALSE
    BY <2>2 DEF Fresh
  <2> QED BY <1>0, <2>1, <2>3, <2>4, <2>5 DEF exchange
<1> QED
  BY <1>1, <1>2, <1>3, <1>4, <1>5, <1>7, <1>8, <1>9, <1>10, <1>11, <1>12, <1>13, <1>14, <1>15,
    <1>16, <1>17, <1>18, <1>19, <1>20, <1>21, <1>22, <1>23, <1>24, <1>25, <1>26, <1>27, <1>28, <1>29
  DEF TradingRunNext, RunsOn

\* What the passes have established survives every step.
LEMMA RunInvStep == ASSUME RunInv, [TradingRunNext]_tradingRunVars PROVE RunInv'
<1> USE DEF PlaceTells, HalfVerified, GuardKnows, CleanupKnows, Passing, Cleaning, LiveMainnet
<1>0. TradingRunTypeOK /\ TradingRunTypeOK' /\ Places = Places BY RunTypeStep DEF RunInv
<1>1. CASE UNCHANGED tradingRunVars
  BY <1>0, <1>1 DEF RunInv, tradingRunVars, exchange, passVars, exitVars, runVars, Clean
<1> SUFFICES ASSUME TradingRunNext PROVE (PlaceTells /\ HalfVerified /\ GuardKnows /\ CleanupKnows)'
  BY <1>0, <1>1 DEF RunInv
<1>2. ASSUME ~options.ha, at # "loop", NEW s \in Traded, Clean(s) PROVE Clean(s)'
  BY <1>0, <1>2, CleanStays DEF Clean
<1>3. CASE PassGate
  <2>1. After[at] \in (StartupGates \cup {"guard"}) \ {"env"} BY <1>3 DEF PassGate, StartupGates, After
  <2> QED
    BY <1>0, <1>3, <2>1 DEF RunInv, PassGate, Goes, StartupGates, Verifying, passVars, exitVars, runVars, exchange
<1>4. CASE FailGate
  BY <1>0, <1>4 DEF RunInv, FailGate, Quits, StartupGates, Verifying, passVars, runVars, exchange
<1>5. CASE BeginGuard
  BY <1>0, <1>5 DEF RunInv, BeginGuard, Goes, StartupGates, Verifying, exitVars, runVars, exchange
<1>6. CASE CountOrders
  <2>1. IsFiniteSet(resting[sym]) /\ (Cardinality(resting[sym]) = 0 => resting[sym] = {})
    <3>1. resting[sym] \in SUBSET Slots BY <1>0 DEF TradingRunTypeOK
    <3> QED BY <3>1, TradingRunAssumption, FS_Subset, FS_EmptySet
  <2>2. found'.orders = Cardinality(resting[sym]) BY <1>6 DEF CountOrders, Nothing
  <2>3. /\ at \in Verifying
        /\ UNCHANGED <<exchange, todo, sym, prior, recovered, exitVars, runVars, options, at, leads, runs>>
    BY <1>6 DEF CountOrders
  <2> QED BY <1>0, <2>1, <2>2, <2>3 DEF RunInv, Verifying, StartupGates, exchange, exitVars, Clean
<1>7. ASSUME NEW place \in Verifying, Reads(place), ~options.ha, AllGone PROVE Clean(sym)
  BY <1>7 DEF RunInv, Reads, AllGone, Flat, Clean
<1>8. CASE GuardChecks
  <2>1. half' = "orders" /\ UNCHANGED <<exchange, options, exiting, failed>> /\ at = "check" /\ ~exiting
    BY <1>8 DEF RunInv, GuardChecks, Reads, GuardGoesOn, Quits, exitVars
  <2>2. ~options.ha /\ AllGone => Clean(sym) BY <1>7, <1>8 DEF GuardChecks, Verifying
  <2>3. \/ at' = "exited" /\ code' = 1
        \/ at' = "first" /\ UNCHANGED <<todo, sym, recovered>>
        \/ /\ at' = "check" \/ (at' = "contract" /\ todo' = {})
           /\ todo' = todo \ {sym} /\ recovered \subseteq recovered'
           /\ AllGone \/ sym \in recovered'
    BY <1>8, <2>1 DEF GuardChecks, GuardGoesOn, Turns, Goes, Quits, exitVars
  <2>4. ASSUME LiveMainnet, ~options.skip_guard, ~options.ha, at' # "exited",
               NEW s \in Traded, s \notin todo', s \notin recovered'
        PROVE  Clean(s)
    <3>1. s \notin todo \cup recovered => Clean(s) BY <2>1, <2>4 DEF RunInv, Verifying
    <3>2. CASE at' = "first" /\ UNCHANGED <<todo, sym, recovered>> BY <2>4, <3>1, <3>2
    <3>3. CASE todo' = todo \ {sym} /\ recovered \subseteq recovered' /\ (AllGone \/ sym \in recovered')
      BY <2>2, <2>4, <3>1, <3>3
    <3> QED BY <2>3, <2>4, <3>2, <3>3
  <2>5. GuardKnows'
    <3>1. at' \in Passing' \cup {"contract", "connect"} => at' # "exited" BY DEF Verifying
    <3> QED BY <2>1, <2>4, <3>1 DEF Clean, exchange
  <2>6. PlaceTells' /\ HalfVerified' /\ CleanupKnows' BY <1>0, <2>1, <2>3 DEF Verifying, StartupGates
  <2> QED BY <2>5, <2>6
<1>9. CASE FirstSnapshot \/ SecondSnapshot
  <2>1. /\ half' = "orders" /\ UNCHANGED <<exchange, options, exiting, failed, todo, sym, recovered>>
        /\ at \in {"first", "second"} /\ ~exiting
    BY <1>9 DEF RunInv, FirstSnapshot, SecondSnapshot, Reads, Quits, exitVars
  <2>2. at' \in {"second", "sweep"} \/ (at' = "exited" /\ code' = 1)
    BY <1>9 DEF FirstSnapshot, SecondSnapshot, Goes, Quits
  <2> QED BY <1>0, <2>1, <2>2 DEF RunInv, Verifying, StartupGates, Clean, exchange
<1>10. CASE FetchOrders \/ CancelAll \/ FetchPosition \/ SizeToClose \/ ClosePosition
  <2>1. UNCHANGED <<half, prior, recovered, todo, sym, exitVars, runVars, options, leads, runs>>
    BY <1>10 DEF FetchOrders, CancelAll, FetchPosition, SizeToClose, ClosePosition, Sweeping
  <2>2. at \in Cleaning /\ at' \in Cleaning \cup {"inner"}
    BY <1>10 DEF FetchOrders, CancelAll, FetchPosition, SizeToClose, ClosePosition, Goes
  <2>3. half = "orders" BY <2>2 DEF RunInv, Verifying
  <2>4. GuardKnows' BY <1>0, <1>2, <2>1, <2>2 DEF RunInv, Verifying, exitVars
  <2>5. CleanupKnows' BY <1>0, <1>2, <2>1, <2>2 DEF RunInv, Verifying, exitVars
  <2> QED BY <1>0, <2>1, <2>2, <2>3, <2>4, <2>5 DEF RunInv, Verifying, StartupGates, exitVars
<1>11. CASE VerifyInside
  <2>1. /\ half' = "orders" /\ UNCHANGED <<exchange, options, exiting, recovered>>
        /\ at = "inner"
    BY <1>11 DEF VerifyInside, Reads, SweepGoesOn, Quits, exitVars
  <2>2. \/ at' = "recheck" /\ UNCHANGED <<todo, sym, failed, code, reason>>
        \/ exiting /\ failed' /\ at' \in {"sweep", "counted"}
        \/ ~exiting /\ at' = "exited" /\ code' = 1
    BY <1>11 DEF VerifyInside, SweepGoesOn, Turns, Goes, Quits, exitVars
  <2> QED BY <1>0, <2>1, <2>2 DEF RunInv, Verifying, StartupGates, Clean, exchange
<1>12. CASE VerifyAgain
  <2>1. /\ half' = "orders" /\ UNCHANGED <<exchange, options, exiting, recovered>> /\ at = "recheck"
    BY <1>12 DEF VerifyAgain, Reads, SweepGoesOn, GuardGoesOn, Quits, exitVars
  <2>2. ~options.ha /\ AllGone => Clean(sym) BY <1>7, <1>12 DEF VerifyAgain, Verifying
  <2>3. \/ /\ exiting /\ todo' = todo \ {sym} /\ (~failed' => ~failed /\ AllGone)
           /\ at' = "sweep" \/ (at' = "counted" /\ todo' = {})
        \/ /\ ~exiting /\ AllGone /\ todo' = todo \ {sym}
           /\ at' = "check" \/ (at' = "contract" /\ todo' = {})
        \/ ~exiting /\ at' = "exited" /\ code' = 1
    BY <1>12 DEF VerifyAgain, GuardGoesOn, SweepGoesOn, Turns, Goes, Quits
  <2>4. GuardKnows' BY <1>0, <2>1, <2>2, <2>3 DEF RunInv, Verifying, Clean, exchange
  <2>5. CleanupKnows' BY <1>0, <2>1, <2>2, <2>3 DEF RunInv, Verifying, Clean, exchange
  <2>6. PlaceTells' /\ HalfVerified' BY <2>1, <2>3 DEF Verifying, StartupGates
  <2> QED BY <2>4, <2>5, <2>6
<1>13. CASE ExchangeCallFails
  <2>1. /\ half' = "orders" /\ UNCHANGED <<exchange, options, exiting, recovered>>
        /\ \/ exiting /\ failed' /\ at' \in {"sweep", "counted"}
           \/ ~exiting /\ at' = "exited" /\ code' = 1
    BY <1>13 DEF ExchangeCallFails, SweepGoesOn, Turns, Goes, Quits
  <2> QED BY <1>0, <2>1 DEF RunInv, Verifying, StartupGates, Clean, exchange
<1>14. CASE SignContract
  BY <1>0, <1>14 DEF RunInv, SignContract, Goes, Quits, Verifying, StartupGates, Clean, exchange, passVars, exitVars
<1>15. CASE Connect
  BY <1>15 DEF RunInv, Connect, Goes, Raises, Verifying, StartupGates, passVars, exitVars
<1>16. CASE SnapshotArrives
  <2>1. /\ at = "loop" /\ UNCHANGED <<passVars, options>>
        /\ \/ at' = "loop" /\ UNCHANGED exitVars
           \/ at' = "finally" /\ exiting' = TRUE /\ (code' # 0 \/ reason' # "not_started")
    BY <1>16 DEF SnapshotArrives, Raises, Stops, Goes
  <2> QED BY <2>1 DEF RunInv, Verifying, StartupGates, passVars, exitVars
<1>17. CASE GivesUpReconnecting
  <2>1. /\ at = "loop" /\ UNCHANGED <<passVars, options>>
        /\ at' = "finally" /\ exiting' = TRUE /\ (code' # 0 \/ reason' # "not_started")
    BY <1>17 DEF GivesUpReconnecting, Raises, Stops, Goes
  <2> QED BY <2>1 DEF RunInv, Verifying, StartupGates, passVars
<1>18. CASE (\E how \in {"down", "silent"} : FeedBreaks(how)) \/ Reconnects \/ UserDataArrives \/ UserDataFails
  <2>1. at = "loop" /\ at' = "loop" /\ UNCHANGED <<passVars, exitVars, options>>
    BY <1>18 DEF FeedBreaks, Reconnects, UserDataArrives, UserDataFails
  <2> QED BY <2>1 DEF RunInv, Verifying, StartupGates, passVars, exitVars
<1>19. CASE BeginCleanup
  <2>1. at = "finally" /\ exiting /\ exiting' /\ UNCHANGED <<exchange, half, failed, reason, code, options>>
    BY <1>19 DEF RunInv, BeginCleanup
  <2>2. \/ at' = "sweep" /\ todo' = Traded
        \/ at' = "release" /\ ~CleanupEnabled
    BY <1>19 DEF BeginCleanup, Goes
  <2> QED BY <1>0, <2>1, <2>2 DEF RunInv, Verifying, StartupGates, CleanupEnabled
<1>20. CASE CountFailures \/ CleanupRaises
  <2>1. /\ at' = "release" /\ exiting /\ exiting' /\ UNCHANGED <<exchange, todo, sym, recovered, failed, options>>
        /\ code' # 0 \/ (at = "counted" /\ ~failed)
    BY <1>20 DEF RunInv, CountFailures, CleanupRaises, Goes, passVars
  <2>2. half' = "orders" BY <1>20 DEF RunInv, CountFailures, CleanupRaises, Verifying, passVars
  <2> QED BY <1>0, <2>1, <2>2 DEF RunInv, Verifying, StartupGates, Clean, exchange
<1>21. CASE Leave
  BY <1>0, <1>21 DEF RunInv, Leave, Goes, Verifying, StartupGates, Clean, exchange, passVars, exitVars
<1>22. CASE (\E s \in Traded, o \in Slots : Fill(s, o)) \/ OtherInstanceActs
  <2>1. UNCHANGED <<passVars, exitVars, options, at>> BY <1>22 DEF Fill, OtherInstanceActs
  <2>2. ~options.ha /\ resting[sym] = {} => resting'[sym] = {}
    BY <1>0, <1>22 DEF Fill, OtherInstanceActs, TradingRunTypeOK
  <2>3. HalfVerified' BY <2>1, <2>2 DEF RunInv, passVars
  <2>4. GuardKnows' BY <1>0, <1>2, <2>1 DEF RunInv, passVars, exitVars, Verifying
  <2>5. CleanupKnows' BY <1>0, <1>2, <2>1 DEF RunInv, passVars, exitVars, Verifying
  <2> QED BY <2>1, <2>3, <2>4, <2>5 DEF RunInv, passVars, exitVars
<1>23. CASE Signal \/ LeadershipMoves
  <2>1. UNCHANGED <<exchange, passVars, exitVars, options, at>> BY <1>23 DEF Signal, LeadershipMoves
  <2> QED BY <1>0, <2>1 DEF RunInv, passVars, exitVars, exchange, Clean
<1>24. CASE IsKilled
  BY <1>0, <1>24 DEF RunInv, IsKilled, Quits, Killed, Verifying, StartupGates, passVars, exchange
<1>25. CASE StartAgain
  BY <1>0, <1>25 DEF RunInv, StartAgain, Fresh, Verifying, StartupGates
<1> QED
  BY <1>3, <1>4, <1>5, <1>6, <1>8, <1>9, <1>10, <1>11, <1>12, <1>13, <1>14, <1>15, <1>16, <1>17,
    <1>18, <1>19, <1>20, <1>21, <1>22, <1>23, <1>24, <1>25
  DEF TradingRunNext, RunsOn

\* evaluate_launch_guard() and finalize_and_cleanup(): for any symbols, any number of
\* orders, any command lines and any number of runs and crashes.
THEOREM RunsTellTheTruth == TradingRunSpec => [](StartsOnKnownState /\ ExitZeroIsClean)
<1>1. TradingRunInit => RunInv
  <2> SUFFICES ASSUME TradingRunInit PROVE RunInv OBVIOUS
  <2>1. TradingRunTypeOK
    <3>1. (CHOOSE s \in Traded : TRUE) \in Traded BY TradingRunAssumption
    <3>2. 0 \in 0 .. UserTries /\ 1 \in 1 .. MaxRuns BY TradingRunAssumption
    <3> QED BY <3>1, <3>2 DEF TradingRunInit, TradingRunTypeOK, Nothing, Places, StartupGates
  <2> QED
    BY <2>1 DEF TradingRunInit, RunInv, PlaceTells, HalfVerified, GuardKnows, CleanupKnows, Passing,
      Cleaning, Verifying, StartupGates
<1>2. RunInv /\ [TradingRunNext]_tradingRunVars => RunInv' BY RunInvStep
<1>3. RunInv => StartsOnKnownState /\ ExitZeroIsClean
  BY DEF RunInv, PlaceTells, GuardKnows, CleanupKnows, StartsOnKnownState, ExitZeroIsClean
<1> QED BY <1>1, <1>2, <1>3, PTL DEF TradingRunSpec


\* evaluate_launch_guard(): whatever was open before it, the loop of a run that the guard let
\* through starts on symbols that are clean or held a position.
THEOREM StartIsKnown == TradingRunSpec => []StartsOnKnownState
BY RunsTellTheTruth, PTL
=============================================================================
