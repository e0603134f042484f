--------------------------------- MODULE Fleet ---------------------------------
(***************************************************************************)
(* The autonomous system of scripts/run_autonomous.py: the rotation        *)
(* controller that picks symbols, the execution plane that compares them   *)
(* with the engine registry, the host that starts and stops one engine     *)
(* thread per symbol, and the day risk that admits new symbols.            *)
(*                                                                         *)
(* Symbols are numbered in name order.  One cycle of AutonomousLoop is     *)
(* Facts, Rank or RankingFails, Rotate, one step per corrective action,    *)
(* and EndCycle; the refresher's thread changes the tuning cache and the   *)
(* engines live and trade between any two of them.                         *)
(***************************************************************************)
EXTENDS DayRisk, FiniteSets, Sequences, SequencesExt

CONSTANTS
  Symbols,       \* 1..n
  TopK, MaxChangesPerCycle, MinHold, MaxActions, MismatchLimit,
  Equities,      \* values the account's equity can take
  MaxSessions,   \* day rollovers in a behaviour
  Answers        \* what the bridge says to a graceful exit

ASSUME FleetAssumption ==
  /\ Symbols \subseteq Nat /\ IsFiniteSet(Symbols) /\ Equities \subseteq Nat \ {0}
  /\ {TopK, MaxChangesPerCycle, MinHold, MaxActions, MismatchLimit, MaxSessions} \subseteq Nat
  /\ Answers \subseteq {"SUCCESS", "NOT_APPLICABLE"}

VARIABLES
  lifecycle, held,    \* RotationController: state, cycles since the activation
  engine, live,       \* EngineRegistry, host._live_engines
  running, exposed,   \* engine threads alive; symbols with orders or a position
  tuned,              \* TuningCache: symbols with an unexpired TUNED result
  day, sessions,      \* DayRiskManager, rollovers so far
  facts,              \* _risk_state: unknown, known (no budget), open, closed
  degraded,           \* LiveSymbolDegradationController._degraded
  selected, admitted, \* of this cycle; last_report.admitted
  unranked,           \* the ranking of this cycle failed (history)
  step, todo,         \* where the loop is, corrective actions left
  stopping            \* loop._stopped

fleetVars == <<lifecycle, held, engine, live, running, exposed, tuned, day, sessions, facts, degraded,
               selected, admitted, unranked, step, todo, stopping>>

Present == {s \in Symbols : engine[s] \in {"ACTIVE", "GRACEFUL_EXIT", "SHUTTING_DOWN"}}

FleetInit ==
  /\ lifecycle = [s \in Symbols |-> "TUNED"] /\ held = [s \in Symbols |-> MinHold]
  /\ engine = [s \in Symbols |-> "ABSENT"] /\ live = {} /\ running = {} /\ exposed = {}
  /\ tuned = Symbols /\ day = NoDay /\ sessions = 0 /\ facts = "unknown" /\ degraded = {}
  /\ selected = <<>> /\ admitted = <<>> /\ unranked = FALSE
  /\ step = "facts" /\ todo = {} /\ stopping = FALSE

-----------------------------------------------------------------------------
\* Around the loop.

CacheChanges ==
  /\ \E s \in Symbols : tuned' \in {tuned \cup {s}, tuned \ {s}}
  /\ UNCHANGED <<lifecycle, held, engine, live, running, exposed, day, sessions, facts, degraded,
                 selected, admitted, unranked, step, todo, stopping>>

\* A thread ends with its feed or with an exception in the engine, and nobody looks.
EngineDies(s) ==
  /\ s \in running /\ running' = running \ {s}
  /\ UNCHANGED <<lifecycle, held, engine, live, exposed, tuned, day, sessions, facts, degraded,
                 selected, admitted, unranked, step, todo, stopping>>

EngineTrades(s) ==
  /\ s \in running /\ exposed' = exposed \cup {s}
  /\ UNCHANGED <<lifecycle, held, engine, live, running, tuned, day, sessions, facts, degraded,
                 selected, admitted, unranked, step, todo, stopping>>

\* A signal, or an orchestrator error with stop_on_orchestrator_error.
Stop ==
  /\ ~stopping /\ stopping' = TRUE
  /\ UNCHANGED <<lifecycle, held, engine, live, running, exposed, tuned, day, sessions, facts, degraded,
                 selected, admitted, unranked, step, todo>>

-----------------------------------------------------------------------------
\* _cycle_facts.

\* request_graceful_exit of the host; the controller is not told.
AskedToExit(S, answer) ==
  [s \in Symbols |-> IF s \in S /\ answer = "SUCCESS" /\ engine[s] = "ACTIVE" THEN "GRACEFUL_EXIT" ELSE engine[s]]

\* Once per symbol and day: what is asked of a symbol whose registry state is not
\* ACTIVE counts as failed and is asked again.
Degrade(mode, latched) ==
  LET asked == IF mode = "STOP_FOR_DAY" THEN live \ latched ELSE {}
  IN  \E answer \in Answers :
        /\ engine' = AskedToExit(asked, answer)
        /\ degraded' = (latched \cap live) \cup
             {s \in asked : answer = "NOT_APPLICABLE" \/ engine[s] = "ACTIVE"}

FactsUnknown ==
  /\ step = "facts" /\ ~stopping
  /\ facts' = "unknown" /\ step' = "rank"
  /\ UNCHANGED <<lifecycle, held, engine, live, running, exposed, tuned, day, sessions, degraded,
                 selected, admitted, unranked, todo, stopping>>

FactsKnown ==
  /\ step = "facts" /\ ~stopping
  /\ \E equity \in Equities, rollover \in {FALSE, sessions < MaxSessions /\ day.start # 0}, gross \in {"free", "full", "unknown"} :
       /\ sessions' = IF rollover THEN sessions + 1 ELSE sessions
       /\ day' = Advance(IF rollover THEN NewDay(equity) ELSE day, equity)
       /\ Degrade(day'.mode, IF rollover THEN {} ELSE degraded)
       /\ facts' = CASE gross = "unknown" -> "known"
                     [] NewEntriesAllowed(day'.mode, Cardinality(live), gross = "free") -> "open"
                     [] OTHER -> "closed"
  /\ step' = "rank"
  /\ UNCHANGED <<lifecycle, held, live, running, exposed, tuned, selected, admitted, unranked, todo, stopping>>

-----------------------------------------------------------------------------
\* run_cycle: ranking, rotation, reconciliation.

\* RiskAdmissionGate: day mode and portfolio budget; price, constraints and grid sizer
\* may refuse any symbol.
NewSymbolsAdmitted == IF facts = "open" THEN Symbols ELSE {}

\* _admission_ranker: a live symbol passes, a new one needs the whole picture.  The
\* universe, the prefilter and the ranker may leave out any symbol and rank the
\* others in any order.
Selectable == tuned \cap (live \cup NewSymbolsAdmitted)

Rank ==
  /\ step = "rank" /\ ~stopping
  /\ \E S \in SUBSET Selectable : selected' \in SetToSeqs(S)
  /\ unranked' = FALSE /\ step' = "rotate"
  /\ UNCHANGED <<lifecycle, held, engine, live, running, exposed, tuned, day, sessions, facts, degraded,
                 admitted, todo, stopping>>

\* "Fail-closed for new activation but preserve active set": what was admitted last.
RankingFails ==
  /\ step = "rank" /\ ~stopping
  /\ selected' = admitted
  /\ unranked' = TRUE /\ step' = "rotate"
  /\ UNCHANGED <<lifecycle, held, engine, live, running, exposed, tuned, day, sessions, facts, degraded,
                 admitted, todo, stopping>>

\* The first n of a set in name order; the places of a ranking that it counts.
FirstOf(n, S) == {s \in S : Cardinality({t \in S : t <= s}) <= n}
IsFirst(s, S) == s \in S /\ \A t \in S : s <= t
Ranked(ranked) == {i \in 1..TopK : i <= Len(ranked)}
Owned == {s \in Symbols : lifecycle[s] \in {"ACTIVE", "GRACEFUL_EXIT_ONLY"}}

\* RotationController.reconcile, cycle counter included: removals in name order once
\* they have been held long enough, additions in rank order, from one budget.  A
\* removal intent makes room although nobody executes it.
Removals(ranked) ==
  FirstOf(MaxChangesPerCycle,
          {s \in Symbols : lifecycle[s] = "ACTIVE" /\ held[s] + 1 >= MinHold
                           /\ \A i \in Ranked(ranked) : ranked[i] # s})

Actives == {s \in Symbols : lifecycle[s] = "ACTIVE"}
Wanted(ranked) == {i \in Ranked(ranked) : lifecycle[ranked[i]] = "TUNED"}
RoomFor(removed) ==
  LET active == Cardinality(Actives) - removed IN IF TopK > active THEN TopK - active ELSE 0

AdditionsOwnBudget(ranked) ==
  LET room == RoomFor(Cardinality(Removals(ranked)))
      places == FirstOf(IF MaxChangesPerCycle < room THEN MaxChangesPerCycle ELSE room, Wanted(ranked))
  IN  {s \in Symbols : \E i \in places : ranked[i] = s}

Additions(ranked) ==
  LET removed == Cardinality(Removals(ranked))
      room == RoomFor(removed)
      budget == MaxChangesPerCycle - removed
      places == FirstOf(IF budget < room THEN budget ELSE room, Wanted(ranked))
  IN  {s \in Symbols : \E i \in places : ranked[i] = s}

ExecutionDesired(ranked) == Owned \cup Additions(ranked)

\* execution_plane.reconcile and evaluate_safety.  An orphan blocks every action, its
\* own exit too, so only engines that are missing are ever acted on.
Orphans(desired) == Present \ desired
MissingEngines(desired) == desired \ Present
ExecutionAllowed(desired) ==
  Orphans(desired) = {} /\ Cardinality(MissingEngines(desired)) <= MismatchLimit

CorrectiveActions(desired) ==
  IF ExecutionAllowed(desired) THEN FirstOf(MaxActions, MissingEngines(desired)) ELSE {}

Rotate ==
  /\ step = "rotate"
  /\ admitted' = SelectSeq(selected, LAMBDA s : s \in tuned)
  /\ held' = [s \in Symbols |-> IF held[s] < MinHold THEN held[s] + 1 ELSE held[s]]
  /\ todo' = CorrectiveActions(ExecutionDesired(admitted'))
  /\ step' = "execute" /\ selected' = <<>>
  /\ UNCHANGED <<lifecycle, engine, live, running, exposed, tuned, day, sessions, facts, degraded,
                 unranked, stopping>>

\* host.activate; the controller is told of a success.
Activate ==
  /\ step = "execute"
  /\ \E s \in todo :
       /\ IsFirst(s, todo) /\ engine[s] = "ABSENT" /\ s \notin live
       /\ engine' = [engine EXCEPT ![s] = "ACTIVE"] /\ lifecycle' = [lifecycle EXCEPT ![s] = "ACTIVE"]
       /\ held' = [held EXCEPT ![s] = 0]
       /\ live' = live \cup {s} /\ running' = running \cup {s}
       /\ todo' = todo \ {s}
  /\ UNCHANGED <<exposed, tuned, day, sessions, facts, degraded, selected, admitted, unranked, step, stopping>>

\* The factory's thread does not connect within its time; it is told to end.
ActivationFails ==
  /\ step = "execute"
  /\ \E s \in todo :
       /\ IsFirst(s, todo) /\ engine[s] = "ABSENT"
       /\ engine' = [engine EXCEPT ![s] = "FAILED"]
       /\ todo' = todo \ {s}
  /\ UNCHANGED <<lifecycle, held, live, running, exposed, tuned, day, sessions, facts, degraded, selected,
                 admitted, unranked, step, stopping>>

\* QUARANTINE_ENGINE has no ceremony, and a handle that is not ABSENT is a duplicate.
SkipAction ==
  /\ step = "execute"
  /\ \E s \in todo : IsFirst(s, todo) /\ engine[s] # "ABSENT" /\ todo' = todo \ {s}
  /\ UNCHANGED <<lifecycle, held, engine, live, running, exposed, tuned, day, sessions, facts, degraded,
                 selected, admitted, unranked, step, stopping>>

EndCycle ==
  /\ step = "execute" /\ todo = {}
  /\ step' = "facts" /\ unranked' = FALSE
  /\ UNCHANGED <<lifecycle, held, engine, live, running, exposed, tuned, day, sessions, facts, degraded,
                 selected, admitted, todo, stopping>>

-----------------------------------------------------------------------------
\* The end of main: shutdown_all, symbol by symbol.

BeginShutdown ==
  /\ stopping /\ step \in {"facts", "rank"}
  /\ step' = "shutdown" /\ todo' = live
  /\ UNCHANGED <<lifecycle, held, engine, live, running, exposed, tuned, day, sessions, facts, degraded,
                 selected, admitted, unranked, stopping>>

\* The graceful exit, or the way around it when it does not apply.  An exit that fails
\* would leave the symbol live: it takes a handle without an engine, which start()
\* never returns, or an exception while a symbol is added to a set.
ExitStateNoBypass(s, answer) ==
  IF engine[s] = "ACTIVE" /\ answer = "SUCCESS" THEN "GRACEFUL_EXIT" ELSE engine[s]
ExitState(s, answer) == IF engine[s] = "ACTIVE" THEN "GRACEFUL_EXIT" ELSE engine[s]

StopEngine ==
  /\ step = "shutdown"
  /\ \E s \in todo, answer \in Answers :
       /\ IsFirst(s, todo)
       /\ IF ExitState(s, answer) = "GRACEFUL_EXIT"
          THEN /\ engine' = [engine EXCEPT ![s] = "SHUTTING_DOWN"]
               /\ \/ running' = running \ {s} /\ step' = "cleanup"
                  \/ s \in running /\ UNCHANGED running /\ step' = "cleanup_unjoined"
               /\ todo' = todo
          ELSE UNCHANGED <<engine, running, step>> /\ todo' = todo \ {s}
  /\ UNCHANGED <<lifecycle, held, live, exposed, tuned, day, sessions, facts, degraded,
                 selected, admitted, unranked, stopping>>

FinalStateOfCleanup(joined, flat) == IF flat THEN "STOPPED" ELSE "FAILED"
FinalState(joined, flat) == IF joined /\ flat THEN "STOPPED" ELSE "FAILED"

\* Orders cancelled and the position closed, or an exchange error on the way.  The
\* thread that had not ended when it was joined may be trading.
CleanUp ==
  /\ step \in {"cleanup", "cleanup_unjoined"}
  /\ \E s \in todo, flat \in BOOLEAN :
       /\ IsFirst(s, todo)
       /\ exposed' = IF flat THEN exposed \ {s} ELSE exposed
       /\ engine' = [engine EXCEPT ![s] = FinalState(step = "cleanup", flat)]
       /\ live' = live \ {s} /\ todo' = todo \ {s}
  /\ step' = "shutdown"
  /\ UNCHANGED <<lifecycle, held, running, tuned, day, sessions, facts, degraded,
                 selected, admitted, unranked, stopping>>

Finish ==
  /\ step = "shutdown" /\ todo = {} /\ step' = "finished"
  /\ UNCHANGED <<lifecycle, held, engine, live, running, exposed, tuned, day, sessions, facts, degraded,
                 selected, admitted, unranked, todo, stopping>>

Loop ==
  \/ FactsUnknown \/ FactsKnown \/ Rank \/ RankingFails \/ Rotate \/ Activate \/ ActivationFails \/ SkipAction \/ EndCycle
  \/ BeginShutdown \/ StopEngine \/ CleanUp \/ Finish

FleetNext ==
  \/ Loop
  \/ step # "finished" /\ (CacheChanges \/ Stop)
  \/ \E s \in Symbols : EngineDies(s) \/ EngineTrades(s)

FleetSpec == FleetInit /\ [][FleetNext]_fleetVars

-----------------------------------------------------------------------------
\* There are never more than top_k engines, although removal intents are counted as
\* done and none of them is executed.
AtMostTopK == Cardinality(live) <= TopK

\* After a shutdown no engine is left to the host, and one that is reported STOPPED
\* has no thread, no order and no position.
ShutdownIsClean ==
  step = "finished" => live = {} /\ \A s \in Symbols : engine[s] = "STOPPED" => s \notin exposed \cup running

\* Both, for the run that checks them as one.
FleetIsOrderly == AtMostTopK /\ ShutdownIsClean

\* autonomous_loop.py: a ranking failure is "fail-closed for new activation".
RankingFailureActivatesNothing == [][unranked => live' \subseteq live]_fleetVars

\* docs/37, failure table: a symbol that is no longer valid goes through
\* graceful_exit_only and FLAT to its deactivation.
DroppedSymbolLeaves == \A s \in Symbols : (<>[](s \notin tuned)) => <>[](s \notin live)
=============================================================================
