--------------------------- MODULE TuningRefresher ---------------------------
(***************************************************************************)
(* How the autonomous host tunes its symbols while engines start           *)
(* (tuning/refresher.py, run_autonomous.py, runtime/live_engine_bridge.py).*)
(* A refresher thread tunes the candidates anew every few minutes,         *)
(* publishes the result to the cache and to AutonomousTuningState, and     *)
(* then, setting by setting, to the bridge.  The main loop meanwhile       *)
(* activates symbols it finds in the cache, and the thread of a starting   *)
(* engine reads its settings from the bridge, one by one and without a     *)
(* lock in common with the refresher.                                      *)
(*                                                                         *)
(* A size, a NATR, a feature record or a setting is the number of the      *)
(* tuning it was made in, 0 when there is none; the cold bootstrap is      *)
(* number 1.  What a tuning finds is free: the solver and the feature      *)
(* providers may fail for any symbol.                                      *)
(***************************************************************************)
EXTENDS Integers, FiniteSets, Sequences

CONSTANTS
  Universe,    \* symbols the universe provider may find
  ColdStart,     \* symbols of the cold bootstrap, or --symbols
  MaxNew,      \* dynamic_bootstrap_max_new_per_cycle
  MaxTunings,  \* bound
  MaxStarts    \* bound: engines activated

ASSUME TuningAssumption ==
  /\ ColdStart \subseteq Universe /\ IsFiniteSet(Universe)
  /\ MaxNew \in Nat /\ MaxTunings \in Nat \ {0} /\ MaxStarts \in Nat

VARIABLES
  candidates, tunedIn, natrIn, v1In, v2In,  \* AutonomousTuningState; sizes and results are tunedIn
  version,             \* replacements of it so far
  tuning, dynamic,     \* tunings so far, dynamic_candidates of this cycle
  stage, merged, toCache, \* where the refresher is, the merged snapshot, results to put
  pass, target, written, \* symbols the bridge still gets, the one it is getting, settings set
  cached,              \* symbols with a TUNED result in TuningCache
  settings,            \* the bridge's maps
  selected, engine,    \* symbols the prefilter let through, EngineRegistry
  building, place, readings, \* the engine under construction, its next read, what it has read
  builtFrom            \* tunings an engine was built from (history)

stateVars == <<candidates, tunedIn, natrIn, v1In, v2In, version>>
refresherVars == <<tuning, dynamic, stage, merged, toCache, pass, target, written>>
startupVars == <<selected, engine, building, place, readings, builtFrom>>
tuningVars == <<stateVars, refresherVars, cached, settings, startupVars>>

\* The order in which the refresher sets a symbol's settings, and in which an engine reads them.
WriteOrder == <<"size", "grid", "inventory", "order", "spacing">>
ReadOrder == <<"size", "spacing", "inventory", "grid", "spacing", "order">>
SettingNames == {"size", "grid", "inventory", "order", "spacing"}

Tunings == 0 .. MaxTunings
Nowhere == [s \in Universe |-> 0]
NoSnapshot ==
  [tunedIn |-> Nowhere, natrIn |-> Nowhere, v1In |-> Nowhere, v2In |-> Nowhere, candidates |-> {}]
MadeIn(n, S) == [s \in Universe |-> IF s \in S THEN n ELSE 0]

\* The first candidates are the tuned symbols, or those of --symbols when there are none.
FirstCandidates(hits) == IF hits = {} THEN {{}, ColdStart} ELSE {hits}

\* Features are asked for what was tuned, and may be missing.
FirstFeatures(hits) == SUBSET hits

\* _propagate_tuning_to_bridge, before anything runs.
FirstSettings(hits) == [s \in Universe |-> [x \in SettingNames |-> IF s \in hits THEN 1 ELSE 0]]

\* build_runtime: the bootstrap tunes what it can of the symbols whose NATR it knows.
TuningInit ==
  \E known \in SUBSET ColdStart : \E hits \in SUBSET known :
    \E first \in FirstFeatures(hits), second \in FirstFeatures(hits) :
      /\ candidates \in FirstCandidates(hits)
      /\ tunedIn = MadeIn(1, hits) /\ natrIn = MadeIn(1, known)
      /\ v1In = MadeIn(1, first) /\ v2In = MadeIn(1, second)
      /\ cached = hits
      /\ settings = FirstSettings(hits)
      /\ version = 0 /\ tuning = 1 /\ dynamic = {} /\ stage = "waiting"
      /\ merged = NoSnapshot
      /\ toCache = [s \in Universe |-> "none"] /\ pass = {} /\ target = {} /\ written = 0
      /\ selected = {} /\ engine = [s \in Universe |-> "ABSENT"]
      /\ building = {} /\ place = 1 /\ readings = {} /\ builtFrom = [s \in Universe |-> {}]

-----------------------------------------------------------------------------
\* The refresher.

\* What coarse selection and prefilter leave of the universe, nothing when one of them fails.
Prefiltered == SUBSET Universe

\* _discover_new_candidates: the first few that are new.
Discover ==
  /\ stage = "waiting" /\ tuning < MaxTunings
  /\ dynamic' \in {S \ candidates : S \in Prefiltered} /\ Cardinality(dynamic') <= MaxNew
  /\ stage' = "discovered"
  /\ UNCHANGED <<stateVars, tuning, merged, toCache, pass, target, written, cached, settings, startupVars>>

\* Nothing to tune, no risk budget, or an exception before the commit.
GiveUp ==
  /\ stage = "discovered" /\ stage' = "waiting" /\ dynamic' = {}
  /\ UNCHANGED <<stateVars, tuning, merged, toCache, pass, target, written, cached, settings, startupVars>>

\* The old entry of a candidate that was not tuned this time, if it is complete.
Complete(s) == tunedIn[s] # 0 /\ natrIn[s] # 0 /\ v1In[s] # 0 /\ v2In[s] # 0
Backfilled(hits) == {s \in candidates \ hits : Complete(s)}

\* Entries of this tuning, old entries of the symbols that are kept, nothing else.
Joined(fresh, kept, old) ==
  [s \in Universe |-> IF s \in kept THEN old[s] ELSE IF s \in fresh THEN tuning + 1 ELSE 0]

\* Candidates that are in every map: old ones and those dynamic ones that were tuned.
Intersection(m, hits) ==
  {s \in candidates \cup (dynamic \cap hits) :
     m.tunedIn[s] # 0 /\ m.natrIn[s] # 0 /\ m.v1In[s] # 0 /\ m.v2In[s] # 0}
CarriedOver(m, hits) == candidates \cup (dynamic \cap hits)
Canon(m, hits) == Intersection(m, hits)

Keys(map) == {s \in Universe : map[s] # 0}
KeptTo(map, S) == [s \in Universe |-> IF s \in S THEN map[s] ELSE 0]

\* Scrubbed when sizes or first features hold more than the candidates.
Scrubbed(m, canon) ==
  IF canon # Keys(m.tunedIn) \/ canon # Keys(m.v1In)
  THEN [tunedIn |-> KeptTo(m.tunedIn, canon), natrIn |-> KeptTo(m.natrIn, canon),
        v1In |-> KeptTo(m.v1In, canon), v2In |-> KeptTo(m.v2In, canon), candidates |-> canon]
  ELSE [m EXCEPT !.candidates = canon]

\* Features of a new symbol count only if it was tuned.
Described(seen, hits) == hits \cup (seen \cap candidates)

\* The merge of what this tuning found with what is kept.
Merge(seen, hits, second) ==
  LET kept == Backfilled(hits)
      m == [tunedIn |-> Joined(hits, kept, tunedIn),
            natrIn |-> Joined(Described(seen, hits), kept, natrIn),
            v1In |-> Joined(Described(seen, hits), kept, v1In),
            v2In |-> Joined(second, kept, v2In), candidates |-> {}]
  IN  Scrubbed(m, Canon(m, hits))

\* _retune_symbols on old and new candidates, features around it, and the merge.
Retune ==
  /\ stage = "discovered" /\ candidates \cup dynamic # {}
  /\ \E seen \in SUBSET (candidates \cup dynamic) :
       \E hits \in SUBSET seen :
         \E refused \in SUBSET (seen \ hits), second \in SUBSET hits :
           /\ merged' = Merge(seen, hits, second)
           /\ toCache' = [s \in Universe |->
                IF s \in hits THEN "TUNED" ELSE IF s \in refused THEN "NO_GO" ELSE "none"]
  /\ tuning' = tuning + 1 /\ dynamic' = {} /\ stage' = "caching"
  /\ UNCHANGED <<stateVars, pass, target, written, cached, settings, startupVars>>

CachePut(s) ==
  /\ stage = "caching" /\ toCache[s] # "none"
  /\ cached' = (IF toCache[s] = "TUNED" THEN cached \cup {s} ELSE cached \ {s})
  /\ toCache' = [toCache EXCEPT ![s] = "none"]
  /\ UNCHANGED <<stateVars, tuning, dynamic, stage, merged, pass, target, written, settings, startupVars>>

\* AutonomousTuningState.replace.
Replace ==
  /\ stage = "caching" /\ \A s \in Universe : toCache[s] = "none"
  /\ candidates' = merged.candidates /\ tunedIn' = merged.tunedIn /\ natrIn' = merged.natrIn
  /\ v1In' = merged.v1In /\ v2In' = merged.v2In /\ version' = version + 1
  /\ pass' = Keys(merged.tunedIn) /\ merged' = NoSnapshot /\ stage' = "bridging"
  /\ UNCHANGED <<tuning, dynamic, toCache, target, written, cached, settings, startupVars>>

\* Symbols whose engine keeps the settings it was built from.
BusyOnceActive(s) == engine[s] \in {"ACTIVE", "GRACEFUL_EXIT"}
Busy(s) == engine[s] \in {"ACTIVATING", "ACTIVE", "GRACEFUL_EXIT"}

\* _update_bridge looks at the registry, and only then begins to write.
TurnTo(s) ==
  /\ stage = "bridging" /\ target = {} /\ s \in pass
  /\ pass' = pass \ {s} /\ target' = (IF Busy(s) THEN {} ELSE {s}) /\ written' = 0
  /\ UNCHANGED <<stateVars, tuning, dynamic, stage, merged, toCache, cached, settings, startupVars>>

\* The spacing is computed from the NATR, everything else comes from the tuning result.
Source(x, s) == IF x = "spacing" THEN natrIn[s] ELSE tunedIn[s]

WriteSetting(s) ==
  /\ s \in target /\ written < Len(WriteOrder)
  /\ LET x == WriteOrder[written + 1]
     IN  settings' = [settings EXCEPT ![s] = [@ EXCEPT ![x] = Source(x, s)]]
  /\ written' = written + 1
  /\ UNCHANGED <<stateVars, tuning, dynamic, stage, merged, toCache, pass, target, cached, startupVars>>

TurnAway ==
  /\ target # {} /\ written = Len(WriteOrder) /\ target' = {} /\ written' = 0
  /\ UNCHANGED <<stateVars, tuning, dynamic, stage, merged, toCache, pass, cached, settings, startupVars>>

EndPass ==
  /\ stage = "bridging" /\ pass = {} /\ target = {} /\ stage' = "waiting"
  /\ UNCHANGED <<stateVars, tuning, dynamic, merged, toCache, pass, target, written, cached, settings, startupVars>>

-----------------------------------------------------------------------------
\* Around the refresher.

\* A result outlives its time in the cache.
Expire(s) ==
  /\ s \in cached /\ cached' = cached \ {s}
  /\ UNCHANGED <<stateVars, refresherVars, settings, startupVars>>

\* The main loop's prefilter, its look at the cache and its ranking: some are let through,
\* and stay so until they are activated (the loop selects anew in every cycle).
Select(s) ==
  /\ s \in cached /\ v1In[s] # 0
  /\ selected' = selected \cup {s}
  /\ UNCHANGED <<stateVars, refresherVars, cached, settings, engine, building, place, readings, builtFrom>>

\* The orchestrator asks the cache again; register() and the thread of the factory.
Activate(s) ==
  /\ s \in selected \cap cached /\ engine[s] = "ABSENT" /\ building = {}
  /\ Cardinality({u \in Universe : engine[u] # "ABSENT"}) < MaxStarts
  /\ engine' = [engine EXCEPT ![s] = "ACTIVATING"] /\ selected' = selected \ {s}
  /\ building' = {s} /\ place' = 1 /\ readings' = {}
  /\ UNCHANGED <<stateVars, refresherVars, cached, settings, builtFrom>>

\* _build_engine: a setting that is missing ends the construction.
ReadSetting(s) ==
  /\ s \in building /\ place <= Len(ReadOrder) /\ settings[s][ReadOrder[place]] # 0
  /\ readings' = readings \cup {settings[s][ReadOrder[place]]} /\ place' = place + 1
  /\ UNCHANGED <<stateVars, refresherVars, cached, settings, selected, engine, building, builtFrom>>

\* A missing setting, the leverage, the connection or the time allowed; FAILED is for good.
StartupFails(s) ==
  /\ s \in building
  /\ engine' = [engine EXCEPT ![s] = "FAILED"] /\ building' = {} /\ place' = 1 /\ readings' = {}
  /\ UNCHANGED <<stateVars, refresherVars, cached, settings, selected, builtFrom>>

Start(s) ==
  /\ s \in building /\ place = Len(ReadOrder) + 1
  /\ engine' = [engine EXCEPT ![s] = "ACTIVE"] /\ builtFrom' = [builtFrom EXCEPT ![s] = readings]
  /\ building' = {} /\ place' = 1 /\ readings' = {}
  /\ UNCHANGED <<stateVars, refresherVars, cached, settings, selected>>

WindDown(s) ==
  /\ \/ engine[s] = "ACTIVE" /\ engine' = [engine EXCEPT ![s] = "GRACEFUL_EXIT"]
        /\ UNCHANGED builtFrom
     \/ engine[s] = "GRACEFUL_EXIT" /\ engine' = [engine EXCEPT ![s] = "STOPPED"]
        /\ builtFrom' = [builtFrom EXCEPT ![s] = {}]
  /\ UNCHANGED <<stateVars, refresherVars, cached, settings, selected, building, place, readings>>

Refresh ==
  \/ Discover \/ GiveUp \/ Retune \/ Replace \/ TurnAway \/ EndPass
  \/ \E s \in Universe : CachePut(s) \/ TurnTo(s) \/ WriteSetting(s)

TuningNext ==
  \/ Refresh
  \/ \E s \in Universe :
       Expire(s) \/ Select(s) \/ Activate(s) \/ ReadSetting(s) \/ StartupFails(s) \/ Start(s) \/ WindDown(s)

TuningSpec == TuningInit /\ [][TuningNext]_tuningVars

-----------------------------------------------------------------------------
Snapshots == [tunedIn : [Universe -> Tunings], natrIn : [Universe -> Tunings],
              v1In : [Universe -> Tunings], v2In : [Universe -> Tunings], candidates : SUBSET Universe]

RefresherTyped ==
  /\ candidates \subseteq Universe /\ dynamic \subseteq Universe /\ pass \subseteq Universe
  /\ tunedIn \in [Universe -> Tunings] /\ natrIn \in [Universe -> Tunings]
  /\ v1In \in [Universe -> Tunings] /\ v2In \in [Universe -> Tunings]
  /\ merged \in Snapshots /\ target \subseteq Universe /\ cached \subseteq Universe
  /\ version \in Nat /\ tuning \in 1 .. MaxTunings /\ written \in 0 .. 5
  /\ stage \in {"waiting", "discovered", "caching", "bridging"}

EnginesTyped ==
  /\ settings \in [Universe -> [SettingNames -> Tunings]]
  /\ place \in 1 .. 7 /\ building \subseteq Universe /\ selected \subseteq Universe
  /\ engine \in [Universe -> {"ABSENT", "ACTIVATING", "ACTIVE", "GRACEFUL_EXIT", "STOPPED", "FAILED"}]
  /\ readings \subseteq Tunings /\ builtFrom \in [Universe -> SUBSET Tunings]

TuningTypeOK == RefresherTyped /\ EnginesTyped

\* The "atomic visibility invariant" of ADR-183: from the first refresh on, a symbol is a
\* candidate if and only if it is in every map, with entries of one and the same tuning.
SnapshotIsWhole ==
  version > 0 =>
    \A s \in Universe :
      /\ s \in candidates <=> tunedIn[s] # 0
      /\ natrIn[s] = tunedIn[s] /\ v1In[s] = tunedIn[s] /\ v2In[s] = tunedIn[s]

\* An engine under way that the refresher overtakes mixes its settings; it never has them of
\* more than two tunings, however long it took to start, and it has all of them.
EngineMixesTwo ==
  \A s \in Universe :
    Busy(s) /\ s \notin building =>
      \E old, new \in 1 .. MaxTunings : builtFrom[s] # {} /\ builtFrom[s] \subseteq {old, new}

\* What the refresher publishes, piece by piece, reaches engines as the tunings of a
\* symbol and not as an arbitrary mixture.
TuningsStayWhole == SnapshotIsWhole /\ EngineMixesTwo
=============================================================================
