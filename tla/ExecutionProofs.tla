------------------------------ MODULE ExecutionProofs ------------------------------
(***************************************************************************)
(* Which engines run, how often a request takes effect on the exchange,    *)
(* and the order in which ticks reach their consumer.                      *)
(***************************************************************************)
EXTENDS Fleet, IdempotentPort, SymbolSelector, MarketFeed, FiniteSetTheorems, WellFoundedInduction, TLAPS

-----------------------------------------------------------------------------
\* The number of engines and the end of the program.  Removal intents are counted as
\* done and not executed; what keeps the engines within top_k all the same is that a
\* cycle has one change to give.  The shutdown works through a list that never leaves
\* out a live engine.

EngineStates == {"ABSENT", "ACTIVE", "GRACEFUL_EXIT", "SHUTTING_DOWN", "STOPPED", "FAILED"}
Steps == {"facts", "rank", "rotate", "execute", "shutdown", "cleanup", "cleanup_unjoined", "finished"}
Cleaning == step \in {"cleanup", "cleanup_unjoined"}
Ending == step \in {"shutdown", "cleanup", "cleanup_unjoined", "finished"}

FleetTyped ==
  /\ lifecycle \in [Symbols -> {"TUNED", "ACTIVE"}] /\ engine \in [Symbols -> EngineStates]
  /\ live \subseteq Symbols /\ todo \subseteq Symbols /\ running \subseteq Symbols
  /\ step \in Steps

\* Engines that run, or are about to, have been counted.
EnginesCounted ==
  /\ live \subseteq Actives
  /\ Cardinality(Actives) <= TopK
  /\ step = "execute" => Cardinality(Actives \cup todo) <= TopK

\* The shutdown's list holds every live engine, and the first one may be half way.
ListHoldsLive ==
  /\ Ending => live \subseteq todo
  /\ \A s \in live : engine[s] \in {"ACTIVE", "GRACEFUL_EXIT"} \/ (Cleaning /\ IsFirst(s, todo))
  /\ step = "cleanup" => \A s \in todo : IsFirst(s, todo) => s \notin running
  /\ step = "finished" => todo = {}
  /\ \A s \in Symbols : engine[s] = "STOPPED" => s \notin exposed \cup running

\* A set of natural numbers that is not empty has a least member.
LEMMA LeastNatural ==
  ASSUME NEW S \in SUBSET Nat, S # {}
  PROVE  \E m \in S : \A n \in S : m <= n
<1>1. PICK m \in S : \A n \in S : <<n, m>> \notin OpToRel(<, Nat)
  BY NatLessThanWellFounded, WFMin
<1>2. \A n \in S : ~ (n < m)
  BY <1>1 DEF OpToRel
<1>3. QED
  BY <1>2

\* The first n of a set are at most n.
LEMMA FirstOfBound ==
  ASSUME NEW S \in SUBSET Nat, IsFiniteSet(S), NEW n \in Int
  PROVE  /\ FirstOf(n, S) \subseteq S /\ IsFiniteSet(FirstOf(n, S))
         /\ n <= 0 => FirstOf(n, S) = {}
         /\ n >= 0 => Cardinality(FirstOf(n, S)) <= n
<1> DEFINE After(s) == {t \in S : t > s}
           Upto(s) == {t \in S : t <= s}
<1>1. \A s \in S : /\ IsFiniteSet(Upto(s)) /\ Cardinality(Upto(s)) \in Nat /\ Cardinality(Upto(s)) # 0
                   /\ IsFiniteSet(After(s)) /\ Cardinality(After(s)) \in Nat
  <2> TAKE s \in S
  <2>1. IsFiniteSet(Upto(s)) /\ IsFiniteSet(After(s))
    BY FS_Subset
  <2>2. s \in Upto(s)
    OBVIOUS
  <2>3. QED
    BY <2>1, <2>2, FS_CardinalityType, FS_EmptySet
<1>2. FirstOf(n, S) \subseteq S /\ IsFiniteSet(FirstOf(n, S))
  BY FS_Subset DEF FirstOf
<1>6. \A s \in S : s \in FirstOf(n, S) <=> Cardinality(Upto(s)) <= n
  BY DEF FirstOf
<1>7. \A s, t \in S : (t \in After(s) <=> t > s) /\ (t \in Upto(s) <=> t <= s)
  OBVIOUS
<1>8. \A s \in S : After(s) \subseteq S /\ Upto(s) \subseteq S
  OBVIOUS
<1> HIDE DEF After, Upto
<1>3. ASSUME n <= 0 PROVE FirstOf(n, S) = {}
  <2>1. ASSUME NEW s \in FirstOf(n, S) PROVE FALSE
    <3>1. s \in S /\ Cardinality(Upto(s)) <= n
      BY <1>2, <1>6
    <3>2. Cardinality(Upto(s)) \in Nat /\ Cardinality(Upto(s)) # 0
      BY <1>1, <3>1
    <3>3. QED
      BY <1>3, <3>1, <3>2
  <2>2. QED
    BY <2>1
<1>4. ASSUME n >= 0 PROVE Cardinality(FirstOf(n, S)) <= n
  <2>1. CASE FirstOf(n, S) = {}
    BY <2>1, <1>4, FS_EmptySet
  <2>2. CASE FirstOf(n, S) # {}
    <3> DEFINE Counts == {Cardinality(After(s)) : s \in FirstOf(n, S)}
    <3>1. Counts \subseteq Nat /\ Counts # {}
      BY <1>1, <1>2, <2>2
    <3>2. PICK c \in Counts : \A d \in Counts : c <= d
      BY <3>1, LeastNatural
    <3>3. PICK s \in FirstOf(n, S) : c = Cardinality(After(s))
      BY <3>2
    <3>4. ASSUME NEW u \in FirstOf(n, S), u > s PROVE FALSE
      <4>1. s \in S /\ u \in S
        BY <1>2
      <4>2. After(u) \in SUBSET After(s) /\ After(u) # After(s)
        <5>1. u \in After(s) /\ u \notin After(u)
          BY <3>4, <4>1, <1>7
        <5>2. ASSUME NEW t \in After(u) PROVE t \in After(s)
          <6>1. t \in S /\ t \in Nat /\ u \in Nat /\ s \in Nat
            BY <1>8, <4>1
          <6>2. t > u
            BY <1>7, <4>1, <6>1
          <6>3. t > s
            BY <3>4, <6>1, <6>2
          <6>4. QED
            BY <1>7, <4>1, <6>1, <6>3
        <5>3. QED
          BY <5>1, <5>2
      <4>3. Cardinality(After(u)) <= Cardinality(After(s)) /\ Cardinality(After(s)) # Cardinality(After(u))
        BY <1>1, <4>1, <4>2, FS_Subset
      <4>4. Cardinality(After(u)) \in Counts
        OBVIOUS
      <4>5. QED
        BY <1>1, <3>2, <3>3, <4>1, <4>3, <4>4
    <3>5. FirstOf(n, S) \in SUBSET Upto(s)
      <4>1. ASSUME NEW u \in FirstOf(n, S) PROVE u \in Upto(s)
        <5>1. u \in S /\ s \in S /\ u \in Nat /\ s \in Nat /\ ~ (u > s)
          BY <1>2, <3>4
        <5>2. u <= s
          BY <5>1
        <5>3. QED
          BY <1>7, <5>1, <5>2
      <4>2. QED
        BY <4>1
    <3>6. Cardinality(FirstOf(n, S)) <= Cardinality(Upto(s))
      BY <1>1, <1>2, <3>5, FS_Subset
    <3>7. Cardinality(Upto(s)) <= n
      BY <1>2, <1>6
    <3>8. Cardinality(FirstOf(n, S)) \in Nat /\ Cardinality(Upto(s)) \in Nat
      <4>1. s \in S /\ IsFiniteSet(FirstOf(n, S))
        BY <1>2
      <4>2. QED
        BY <1>1, <4>1, FS_CardinalityType
    <3>9. QED
      BY <3>6, <3>7, <3>8
  <2>3. QED
    BY <2>1, <2>2
<1>5. QED
  BY <1>2, <1>3, <1>4

LEMMA FirstUnique ==
  ASSUME NEW S \in SUBSET Nat, NEW s \in S, NEW t \in S, IsFirst(s, S), IsFirst(t, S)
  PROVE  t = s
<1>1. s <= t /\ t <= s /\ s \in Nat /\ t \in Nat
  BY DEF IsFirst
<1>2. QED
  BY <1>1

\* What a rotation adds fits in, if a cycle has at most one change to give.
LEMMA AdditionsFit ==
  ASSUME FleetTyped, EnginesCounted, MaxChangesPerCycle <= 1, NEW ranked
  PROVE  Cardinality(Actives \cup Additions(ranked)) <= TopK
<1> USE FleetAssumption
<1> DEFINE removed == Cardinality(Removals(ranked))
           room == RoomFor(removed)
           budget == MaxChangesPerCycle - removed
           k == IF budget < room THEN budget ELSE room
           places == FirstOf(k, Wanted(ranked))
<1>1. IsFiniteSet(Actives) /\ Cardinality(Actives) \in Nat
  BY FS_Subset, FS_CardinalityType DEF Actives
<1>2. removed \in Nat /\ (removed = 0 \/ budget <= 0)
  <2>1. IsFiniteSet(Removals(ranked))
    BY FS_Subset DEF Removals, FirstOf
  <2>2. removed \in Nat
    BY <2>1, FS_CardinalityType
  <2>3. QED
    BY <2>2
<1>3. IsFiniteSet(Wanted(ranked)) /\ Wanted(ranked) \subseteq Nat
  <2>1. IsFiniteSet(1..TopK)
    <3>1. TopK \in Int /\ 1 \in Int
      BY FleetAssumption
    <3>2. \A a, b \in Int : IsFiniteSet(a..b)
      BY FS_Interval
    <3> QED BY <3>1, <3>2
  <2>2. Wanted(ranked) \in SUBSET (1..TopK)
    BY DEF Wanted, Ranked
  <2>3. QED
    BY <2>1, <2>2, FS_Subset
<1>4. Additions(ranked) = {s \in Symbols : \E i \in places : ranked[i] = s}
  BY DEF Additions
<1>5. room \in Nat /\ (removed = 0 => room = TopK - Cardinality(Actives))
  BY <1>1, <1>2 DEF RoomFor, EnginesCounted
<1> HIDE DEF removed, room
<1>6. k \in Int /\ k <= room /\ (removed # 0 => k <= 0)
  BY <1>2, <1>5
<1> HIDE DEF k, budget
<1>7. /\ IsFiniteSet(places)
      /\ k <= 0 => places = {}
      /\ k >= 0 => Cardinality(places) <= k
  BY <1>3, <1>6, FirstOfBound
<1> HIDE DEF places
<1>8. IsFiniteSet(Additions(ranked)) /\ Cardinality(Additions(ranked)) <= Cardinality(places)
  <2> DEFINE place == [s \in Additions(ranked) |-> CHOOSE i \in places : ranked[i] = s]
  <2>1. \A s \in Additions(ranked) : place[s] \in places /\ ranked[place[s]] = s
    BY <1>4
  <2>2. place \in Injection(Additions(ranked), places)
    BY <2>1 DEF Injection, IsInjective
  <2>3. QED
    BY <1>7, <2>2, FS_Injection
<1>9. CASE k <= 0
  <2>1. Actives \cup Additions(ranked) = Actives
    BY <1>4, <1>7, <1>9
  <2>2. QED
    BY <2>1 DEF EnginesCounted
<1>10. CASE k > 0
  <2>1. removed = 0 /\ k <= TopK - Cardinality(Actives)
    BY <1>2, <1>5, <1>6, <1>10
  <2>2. Cardinality(places) <= k /\ Cardinality(places) \in Nat /\ Cardinality(Additions(ranked)) \in Nat
    BY <1>6, <1>7, <1>8, <1>10, FS_CardinalityType
  <2>3. /\ IsFiniteSet(Actives \cap Additions(ranked))
        /\ Cardinality(Actives \cap Additions(ranked)) \in Nat
    BY <1>1, FS_Intersection, FS_CardinalityType
  <2>4. Cardinality(Actives \cup Additions(ranked))
          = Cardinality(Actives) + Cardinality(Additions(ranked)) - Cardinality(Actives \cap Additions(ranked))
    BY <1>1, <1>8, FS_Union
  <2>5. QED
    BY <1>1, <1>6, <1>8, <2>1, <2>2, <2>3, <2>4
<1>11. QED
  BY <1>6, <1>9, <1>10

LEMMA FleetTypeInvariant == FleetSpec => []FleetTyped
<1> USE FleetAssumption DEF FleetTyped, Steps, EngineStates
<1>1. FleetInit => FleetTyped
  BY DEF FleetInit
<1>2. FleetTyped /\ [FleetNext]_fleetVars => FleetTyped'
  <2> SUFFICES ASSUME FleetTyped, [FleetNext]_fleetVars PROVE FleetTyped'
    OBVIOUS
  <2>1. CASE UNCHANGED <<lifecycle, engine, live, todo, running, step>>
    BY <2>1
  <2>2. CASE FactsUnknown \/ FactsKnown
    BY <2>2 DEF FactsUnknown, FactsKnown, Degrade, AskedToExit
  <2>3. CASE Rank \/ RankingFails
    BY <2>3 DEF Rank, RankingFails
  <2>4. CASE Rotate
    <3>1. todo' \subseteq Symbols
      BY <2>4 DEF Rotate, CorrectiveActions, FirstOf, MissingEngines, ExecutionDesired, Owned, Additions
    <3>2. QED
      BY <2>4, <3>1 DEF Rotate
  <2>5. CASE Activate
    BY <2>5 DEF Activate
  <2>6. CASE ActivationFails \/ SkipAction \/ EndCycle
    BY <2>6 DEF ActivationFails, SkipAction, EndCycle
  <2>7. CASE BeginShutdown
    BY <2>7 DEF BeginShutdown
  <2>8. CASE StopEngine
    BY <2>8 DEF StopEngine
  <2>9. CASE CleanUp \/ Finish
    BY <2>9 DEF CleanUp, Finish, FinalState
  <2>10. ASSUME NEW s \in Symbols, EngineDies(s) PROVE FleetTyped'
    BY <2>10 DEF EngineDies
  <2>11. QED
    BY <2>1, <2>2, <2>3, <2>4, <2>5, <2>6, <2>7, <2>8, <2>9, <2>10
    DEF FleetNext, Loop, fleetVars, CacheChanges, Stop, EngineTrades
<1>3. QED
  BY <1>1, <1>2, PTL DEF FleetSpec

\* There are never more than top_k engines, for any fleet, ranking and top_k, if a cycle
\* makes at most one change, as it does by default.
THEOREM TopKHolds == MaxChangesPerCycle <= 1 => (FleetSpec => []AtMostTopK)
<1> SUFFICES ASSUME MaxChangesPerCycle <= 1 PROVE FleetSpec => []AtMostTopK
  OBVIOUS
<1> USE FleetAssumption
<1>1. FleetInit => EnginesCounted
  <2> SUFFICES ASSUME FleetInit PROVE EnginesCounted
    OBVIOUS
  <2>1. Actives = {} /\ live = {} /\ step = "facts"
    BY DEF FleetInit, Actives
  <2>2. QED
    BY <2>1, FS_EmptySet DEF EnginesCounted
<1>2. FleetTyped /\ EnginesCounted /\ [FleetNext]_fleetVars => EnginesCounted'
  <2> SUFFICES ASSUME FleetTyped, EnginesCounted, [FleetNext]_fleetVars PROVE EnginesCounted'
    OBVIOUS
  <2>1. CASE /\ live' \subseteq live /\ lifecycle' = lifecycle
             /\ step' # "execute" \/ (step = "execute" /\ todo' \subseteq todo)
    <3>1. Actives' = Actives
      BY <2>1 DEF Actives
    <3>2. step' = "execute" => Cardinality((Actives \cup todo)') <= TopK
      <4>1. ASSUME step' = "execute" PROVE Cardinality((Actives \cup todo)') <= TopK
        <5>1. IsFiniteSet(Actives \cup todo) /\ (Actives \cup todo)' \in SUBSET (Actives \cup todo)
          BY <2>1, <3>1, <4>1, FS_Subset DEF FleetTyped, Actives
        <5>2. /\ Cardinality((Actives \cup todo)') <= Cardinality(Actives \cup todo)
              /\ Cardinality((Actives \cup todo)') \in Nat /\ Cardinality(Actives \cup todo) \in Nat
          BY <5>1, FS_Subset, FS_CardinalityType
        <5>3. QED
          BY <2>1, <4>1, <5>2 DEF EnginesCounted
      <4>2. QED
        BY <4>1
    <3>3. QED
      BY <2>1, <3>1, <3>2 DEF EnginesCounted
  <2>2. CASE Rotate
    <3>1. Actives' = Actives /\ live' = live
      BY <2>2 DEF Rotate, Actives
    <3>2. (Actives \cup todo)' \in SUBSET (Actives \cup Additions(admitted'))
      BY <2>2, <3>1
      DEF Rotate, CorrectiveActions, FirstOf, MissingEngines, ExecutionDesired, Owned, Actives, FleetTyped
    <3>3. IsFiniteSet(Actives \cup Additions(admitted'))
      BY FS_Subset DEF Actives, Additions
    <3>4. /\ Cardinality((Actives \cup todo)') <= Cardinality(Actives \cup Additions(admitted'))
          /\ Cardinality((Actives \cup todo)') \in Nat /\ Cardinality(Actives \cup Additions(admitted')) \in Nat
      BY <3>2, <3>3, FS_Subset, FS_CardinalityType
    <3>5. Cardinality((Actives \cup todo)') <= TopK
      BY <3>4, AdditionsFit
    <3>6. QED
      BY <3>1, <3>5 DEF EnginesCounted
  <2>3. CASE Activate
    <3>1. PICK s \in todo : /\ lifecycle' = [lifecycle EXCEPT ![s] = "ACTIVE"]
                            /\ live' = live \cup {s} /\ todo' = todo \ {s}
      BY <2>3 DEF Activate
    <3>2. Actives' = Actives \cup {s} /\ s \in Symbols
      BY <3>1 DEF Actives, FleetTyped
    <3>3. (Actives \cup todo)' = Actives \cup todo /\ Actives' \in SUBSET (Actives \cup todo)
      BY <3>1, <3>2
    <3>4. IsFiniteSet(Actives \cup todo) /\ step = "execute" /\ step' = "execute"
      BY <2>3, FS_Subset DEF FleetTyped, Actives, Activate
    <3>5. /\ Cardinality(Actives') <= Cardinality(Actives \cup todo)
          /\ Cardinality(Actives') \in Nat /\ Cardinality(Actives \cup todo) \in Nat
      BY <3>3, <3>4, FS_Subset, FS_CardinalityType
    <3>6. QED
      BY <3>1, <3>2, <3>3, <3>4, <3>5 DEF EnginesCounted
  <2>4. QED
    BY <2>1, <2>2, <2>3
    DEF FleetNext, Loop, fleetVars, FactsUnknown, FactsKnown, Rank, RankingFails, ActivationFails, SkipAction,
        EndCycle, BeginShutdown, StopEngine, CleanUp, Finish, CacheChanges, Stop, EngineDies, EngineTrades
<1>3. EnginesCounted /\ FleetTyped => AtMostTopK
  <2> SUFFICES ASSUME EnginesCounted, FleetTyped PROVE AtMostTopK
    OBVIOUS
  <2>1. IsFiniteSet(Actives) /\ live \in SUBSET Actives
    BY FS_Subset DEF Actives, EnginesCounted
  <2>2. Cardinality(live) <= Cardinality(Actives) /\ Cardinality(live) \in Nat /\ Cardinality(Actives) \in Nat
    BY <2>1, FS_Subset, FS_CardinalityType
  <2>3. QED
    BY <2>2 DEF AtMostTopK, EnginesCounted
<1>4. QED
  BY <1>1, <1>2, <1>3, FleetTypeInvariant, PTL DEF FleetSpec

\* After a shutdown no engine is left to the host, and one that is reported STOPPED has
\* no thread, no order and no position, for any fleet.
THEOREM ShutdownHolds == FleetSpec => []ShutdownIsClean
<1> USE FleetAssumption DEF Cleaning, Ending
<1>1. FleetInit => ListHoldsLive
  BY DEF FleetInit, ListHoldsLive
<1>2. FleetTyped /\ ListHoldsLive /\ [FleetNext]_fleetVars => ListHoldsLive'
  <2> SUFFICES ASSUME FleetTyped, ListHoldsLive, [FleetNext]_fleetVars PROVE ListHoldsLive'
    OBVIOUS
  <2> USE DEF FleetTyped, Steps, EngineStates
  <2>1. CASE UNCHANGED <<engine, live, todo, running, exposed, step>>
    BY <2>1 DEF ListHoldsLive, IsFirst
  <2>2. CASE FactsUnknown \/ Rank \/ RankingFails \/ Rotate \/ EndCycle \/ SkipAction
    BY <2>2 DEF FactsUnknown, Rank, RankingFails, Rotate, EndCycle, SkipAction, ListHoldsLive
  <2>3. CASE FactsKnown
    BY <2>3 DEF FactsKnown, Degrade, AskedToExit, ListHoldsLive
  <2>4. CASE Activate \/ ActivationFails
    <3>1. CASE ActivationFails
      BY <3>1 DEF ActivationFails, ListHoldsLive
    <3>2. CASE Activate
      <4>1. PICK s \in todo : /\ engine' = [engine EXCEPT ![s] = "ACTIVE"] /\ live' = live \cup {s}
                              /\ running' = running \cup {s} /\ todo' = todo \ {s}
                              /\ step = "execute" /\ UNCHANGED <<step, exposed>>
        BY <3>2 DEF Activate
      <4>2. \A t \in live' : engine'[t] \in {"ACTIVE", "GRACEFUL_EXIT"}
        BY <4>1 DEF ListHoldsLive
      <4>3. \A t \in Symbols : engine'[t] = "STOPPED" => t \notin exposed' \cup running'
        BY <4>1 DEF ListHoldsLive
      <4>4. QED
        BY <4>1, <4>2, <4>3 DEF ListHoldsLive
    <3>3. QED
      BY <2>4, <3>1, <3>2
  <2>5. CASE BeginShutdown
    BY <2>5 DEF BeginShutdown, ListHoldsLive
  <2>6. CASE StopEngine
    <3>1. PICK s \in todo : /\ IsFirst(s, todo) /\ step = "shutdown" /\ UNCHANGED <<live, exposed>>
                            /\ \/ /\ engine[s] \in {"ACTIVE", "GRACEFUL_EXIT"} /\ todo' = todo
                                  /\ engine' = [engine EXCEPT ![s] = "SHUTTING_DOWN"]
                                  /\ \/ running' = running \ {s} /\ step' = "cleanup"
                                     \/ UNCHANGED running /\ step' = "cleanup_unjoined"
                               \/ /\ engine[s] \notin {"ACTIVE", "GRACEFUL_EXIT"} /\ todo' = todo \ {s}
                                  /\ UNCHANGED <<engine, running, step>>
      BY <2>6 DEF StopEngine, ExitState
    <3>2. \A t \in todo : IsFirst(t, todo) => t = s
      BY <3>1, FirstUnique
    <3>3. (Ending => live \subseteq todo)'
      BY <3>1 DEF ListHoldsLive
    <3>4. \A t \in live : engine'[t] \in {"ACTIVE", "GRACEFUL_EXIT"} \/ (Cleaning' /\ IsFirst(t, todo'))
      BY <3>1 DEF ListHoldsLive
    <3>5. step' = "cleanup" => \A t \in todo' : IsFirst(t, todo') => t \notin running'
      BY <3>1, <3>2
    <3>6. \A t \in Symbols : engine'[t] = "STOPPED" => t \notin exposed' \cup running'
      BY <3>1 DEF ListHoldsLive
    <3>7. QED
      BY <3>1, <3>3, <3>4, <3>5, <3>6 DEF ListHoldsLive
  <2>7. CASE CleanUp
    <3>1. PICK s \in todo, flat \in BOOLEAN :
            /\ IsFirst(s, todo) /\ Cleaning /\ step' = "shutdown" /\ UNCHANGED running
            /\ exposed' = IF flat THEN exposed \ {s} ELSE exposed
            /\ engine' = [engine EXCEPT ![s] = FinalState(step = "cleanup", flat)]
            /\ live' = live \ {s} /\ todo' = todo \ {s}
      BY <2>7 DEF CleanUp
    <3>2. \A t \in todo : IsFirst(t, todo) => t = s
      BY <3>1, FirstUnique
    <3>3. live' \subseteq todo'
      BY <3>1 DEF ListHoldsLive
    <3>4. \A t \in live' : engine'[t] \in {"ACTIVE", "GRACEFUL_EXIT"}
      BY <3>1, <3>2 DEF ListHoldsLive
    <3>5. \A t \in Symbols : engine'[t] = "STOPPED" => t \notin exposed' \cup running'
      <4>1. engine'[s] = "STOPPED" => s \notin exposed' \cup running'
        BY <3>1 DEF ListHoldsLive, FinalState
      <4>2. \A t \in Symbols \ {s} : engine'[t] = engine[t] /\ (t \notin exposed => t \notin exposed')
        BY <3>1
      <4>3. QED
        BY <3>1, <4>1, <4>2 DEF ListHoldsLive
    <3>6. QED
      BY <3>1, <3>3, <3>4, <3>5 DEF ListHoldsLive
  <2>8. CASE Finish
    BY <2>8 DEF Finish, ListHoldsLive
  <2>9. ASSUME NEW s \in Symbols, EngineDies(s) \/ EngineTrades(s) PROVE ListHoldsLive'
    BY <2>9 DEF EngineDies, EngineTrades, ListHoldsLive, IsFirst
  <2>10. QED
    BY <2>1, <2>2, <2>3, <2>4, <2>5, <2>6, <2>7, <2>8, <2>9
    DEF FleetNext, Loop, fleetVars, CacheChanges, Stop
<1>3. ListHoldsLive => ShutdownIsClean
  BY DEF ListHoldsLive, ShutdownIsClean
<1>4. QED
  BY <1>1, <1>2, <1>3, FleetTypeInvariant, PTL DEF FleetSpec

\* Both of them, as the run states it.
THEOREM FleetStaysOrderly == MaxChangesPerCycle <= 1 => (FleetSpec => []FleetIsOrderly)
BY TopKHolds, ShutdownHolds, PTL DEF FleetIsOrderly

-----------------------------------------------------------------------------
\* Proofs about IdempotentPort, for any finite set of threads, any keys, any
\* thresholds, intervals and times to live, and any choice of errors that trip the
\* circuit.

-----------------------------------------------------------------------------
\* The inductive invariant.

\* A thread at work has a key of its own, and a probe is at work.
AtWork(c) == calls[c].phase \notin {"idle", "turned_away"}
WorkInv ==
  \A c \in Callers :
    /\ AtWork(c) => calls[c].key \in Keys
    /\ c \in probing => AtWork(c)

\* While a key is not excused one call at most holds its claim, a call that
\* does has a live INFLIGHT entry, and the side effect happened once if the
\* call was accepted or the entry is DONE, and not at all otherwise.
SoundClaim(k) ==
  /\ \A c, d \in Holders(k) : c = d
  /\ \A c \in Holders(k) :
       /\ Alive(store[k]) /\ store[k].status = "INFLIGHT"
       /\ effects[k] = IF calls[c].phase = "accepted" THEN 1 ELSE 0
  /\ Holders(k) = {} =>
       IF Alive(store[k]) /\ store[k].status = "DONE"
       THEN effects[k] = 1
       ELSE effects[k] = 0 /\ ~ (Alive(store[k]) /\ store[k].status = "INFLIGHT")

ClaimInv == \A k \in Keys \ excused : SoundClaim(k)

\* An accepted call has left its effect, excused or not.
EffectInv ==
  \A c \in Callers : At(c, "accepted") => effects[calls[c].key] > 0

IInv ==
  /\ TypeOK
  /\ WorkInv
  /\ ClaimInv
  /\ EffectInv
  /\ CachedResultsHappened
  /\ ClosedBelowThreshold
  /\ ProbesAccountedFor

-----------------------------------------------------------------------------
\* Every method of the breaker maps a breaker to a breaker.
LEMMA BreakerTypes ==
  ASSUME NEW b \in Breakers
  PROVE  /\ Refreshed(b) \in Breakers /\ Admitted(b) \in Breakers
         /\ RecordSuccess(b) \in Breakers /\ RecordFailure(b) \in Breakers
         /\ Waited(b) \in Breakers
<1> USE BreakerAssumption DEF Breakers
<1>1. Refreshed(b) \in Breakers
  BY DEF Refreshed
<1>2. Admitted(b) \in Breakers
  BY DEF Admitted
<1>3. Closed(b) \in Breakers
  BY DEF Closed
<1>4. RecordSuccess(b) \in Breakers
  BY <1>3 DEF RecordSuccess
<1>5. RecordFailure(b) \in Breakers
  <2> DEFINE counted == [b EXCEPT !.failures = @ + 1, !.successes = 0]
  <2>1. b.failures + 1 \in Nat /\ 0 \in Nat /\ 0 \in 0..OpenInterval
    OBVIOUS
  <2>2. counted \in Breakers
    BY <2>1
  <2>3. ASSUME NEW a \in Breakers PROVE Opened(a) \in Breakers
    BY <2>1, <2>3 DEF Opened
  <2>4. counted.failures >= FailureThreshold => Opened(counted) \in Breakers
    BY <2>2, <2>3
  <2> QED BY <2>2, <2>3, <2>4 DEF RecordFailure
<1>6. Waited(b) \in Breakers
  BY DEF Waited
<1> QED BY <1>1, <1>2, <1>4, <1>5, <1>6

\* Every method of the store maps an entry to an entry.
LEMMA StoreTypes ==
  ASSUME NEW e \in Entries
  PROVE  /\ Got(e) \in Entries /\ Aged(e) \in Entries /\ Inflight \in Entries
         /\ MarkDone(e) \in Entries /\ MarkFailed(e) \in Entries
BY StoreAssumption DEF Entries, Absent, Got, Alive, Aged, Inflight, MarkDone, MarkFailed

\* Sets of callers are finite, and one caller more or less counts for one.
LEMMA CallersCount ==
  ASSUME NEW S \in SUBSET Callers, NEW c \in Callers
  PROVE  /\ Cardinality(S) \in Nat
         /\ Cardinality(S \cup {c}) = IF c \in S THEN Cardinality(S) ELSE Cardinality(S) + 1
         /\ Cardinality(S \ {c}) = IF c \in S THEN Cardinality(S) - 1 ELSE Cardinality(S)
         /\ Cardinality({}) = 0
<1>1. IsFiniteSet(S)
  BY PortAssumption, FS_Subset
<1> QED BY <1>1, FS_CardinalityType, FS_AddElement, FS_RemoveElement, FS_EmptySet

-----------------------------------------------------------------------------
\* The initial states.
LEMMA InitInvariant == Init => IInv
<1> SUFFICES ASSUME Init PROVE IInv
  OBVIOUS
<1>1. TypeOK
  BY BreakerAssumption DEF Init, TypeOK, Breakers, OperationState, Entries, Absent, Idle, Phases
<1>2. WorkInv /\ EffectInv
  BY DEF Init, WorkInv, EffectInv, AtWork, At, Idle
<1>3. \A k \in Keys : Holders(k) = {} /\ ~ Alive(store[k]) /\ effects[k] = 0
  BY DEF Init, Holders, Idle, Errors, Absent, Alive
<1>4. ClaimInv /\ CachedResultsHappened
  BY <1>3 DEF ClaimInv, SoundClaim, CachedResultsHappened
<1>5. ClosedBelowThreshold /\ ProbesAccountedFor
  BY BreakerAssumption DEF Init, OperationState, ClosedBelowThreshold, ProbesAccountedFor
<1> QED BY <1>1, <1>2, <1>4, <1>5 DEF IInv

\* What the store parts of the invariant need of a step that moves only calls
\* that hold no claim before or after it, and leaves or cleans up the entries.
LEMMA ClaimsKept ==
  ASSUME IInv, TypeOK', NEW c \in Callers,
         effects' = effects, excused' = excused,
         \A d \in Callers \ {c} : calls'[d] = calls[d],
         calls[c].phase \notin {"execute", "accepted"} \cup Errors,
         calls'[c].phase \notin {"execute", "accepted"} \cup Errors,
         \A k \in Keys : store'[k] = store[k] \/ store'[k] = Got(store[k])
  PROVE  ClaimInv' /\ EffectInv' /\ CachedResultsHappened'
<1>1. \A k \in Keys : Holders(k)' = Holders(k)
  BY DEF Holders, Errors
<1>2. \A k \in Keys : /\ Alive(store'[k]) <=> Alive(store[k])
                      /\ Alive(store[k]) => store'[k] = store[k]
  BY DEF Got, Alive, Absent
<1>3. \A k \in Keys : \A d \in Holders(k) : calls'[d] = calls[d]
  BY DEF Holders, Errors
<1>4. ClaimInv'
  BY <1>1, <1>2, <1>3 DEF IInv, ClaimInv, SoundClaim
<1>5. EffectInv'
  BY DEF IInv, EffectInv, At
<1>6. CachedResultsHappened'
  BY <1>2 DEF IInv, CachedResultsHappened
<1> QED BY <1>4, <1>5, <1>6

\* What the accounting of probes needs of a call that ends without reporting.
LEMMA UnreportedKeepsProbes ==
  ASSUME IInv, NEW c \in Callers, Unreported(c), UNCHANGED breaker
  PROVE  ProbesAccountedFor'
<1>1. /\ Cardinality(probing) \in Nat
      /\ Cardinality(probing \ {c}) = IF c \in probing THEN Cardinality(probing) - 1
                                                       ELSE Cardinality(probing)
  BY CallersCount DEF IInv, TypeOK
<1>2. breaker.half_open_probes \in Nat /\ breaker.successes \in Nat /\ wasted \in Nat
      /\ ProbeCount \in Nat
  BY BreakerAssumption DEF IInv, TypeOK, Breakers
<1>3. ProbesAccountedFor
  BY DEF IInv
<1>4. /\ probing' = probing \ {c} /\ breaker' = breaker
      /\ wasted' = IF c \in probing THEN wasted + 1 ELSE wasted
  BY DEF Unreported
<1> QED BY <1>1, <1>2, <1>3, <1>4 DEF ProbesAccountedFor

-----------------------------------------------------------------------------
\* Each action preserves the invariant.

LEMMA TypeStep == TypeOK /\ WorkInv /\ [Next]_vars => TypeOK'
<1> SUFFICES ASSUME TypeOK, WorkInv, [Next]_vars PROVE TypeOK'
  OBVIOUS
<1> USE DEF TypeOK
<1>1. /\ Refreshed(breaker) \in Breakers /\ Admitted(Refreshed(breaker)) \in Breakers
      /\ RecordSuccess(breaker) \in Breakers /\ RecordFailure(breaker) \in Breakers
      /\ Waited(breaker) \in Breakers
  BY BreakerTypes
<1>2. \A k \in Keys :
        /\ Got(store[k]) \in Entries /\ Aged(store[k]) \in Entries /\ Inflight \in Entries
        /\ MarkDone(store[k]) \in Entries /\ MarkFailed(store[k]) \in Entries
  BY StoreTypes
<1>3. /\ StillProbing \subseteq Callers /\ StillWasted \in Nat
  BY DEF StillProbing, StillWasted
<1>4. ASSUME NEW c \in Callers, Unreported(c) \/ Reported(c)
      PROVE  /\ calls' \in [Callers -> [phase : Phases, key : Keys \cup {NoKey}]]
             /\ probing' \subseteq Callers /\ wasted' \in Nat
  BY <1>4 DEF Unreported, Reported, Return, Idle, Phases
<1>5. ASSUME NEW c \in Callers, NEW k \in Keys, BeforeCall(c, k) PROVE TypeOK'
  BY <1>1, <1>3, <1>5 DEF BeforeCall, Goto, Phases
<1>6. ASSUME NEW c \in Callers, TurnAway(c) PROVE TypeOK'
  BY <1>1, <1>3, <1>6 DEF TurnAway, Return, Idle, Phases
<1>7. ASSUME NEW c \in Callers, Lookup(c) PROVE TypeOK'
  <2>1. store' \in [Keys -> Entries]
    BY <1>2, <1>7 DEF Lookup
  <2>2. CASE Unreported(c)
    BY <1>4, <1>7, <2>1, <2>2 DEF Lookup
  <2>3. CASE Goto(c, "claim") /\ UNCHANGED <<probing, wasted>>
    BY <1>7, <2>1, <2>3 DEF Lookup, Goto, Phases
  <2> QED BY <1>7, <2>2, <2>3 DEF Lookup
<1>8. ASSUME NEW c \in Callers, Claim(c) PROVE TypeOK'
  BY <1>2, <1>8 DEF Claim, Goto, Phases
<1>9. ASSUME NEW c \in Callers, Recheck(c) PROVE TypeOK'
  BY <1>2, <1>4, <1>9 DEF Recheck
<1>10. ASSUME NEW c \in Callers, NEW outcome \in Outcomes, Execute(c, outcome) PROVE TypeOK'
  <2>1. outcome \in Phases /\ calls[c].key \in Keys
    BY <1>10, PortAssumption DEF Execute, At, WorkInv, AtWork, Phases
  <2> QED BY <1>10, <2>1 DEF Execute, Goto
<1>11. ASSUME NEW c \in Callers, Succeed(c) PROVE TypeOK'
  BY <1>2, <1>11 DEF Succeed, Goto, Phases
<1>12. ASSUME NEW c \in Callers, Fail(c) PROVE TypeOK'
  <2>1. store' \in [Keys -> Entries]
    BY <1>2, <1>12 DEF Fail
  <2>2. CASE Unreported(c)
    BY <1>4, <1>12, <2>1, <2>2 DEF Fail
  <2>3. CASE Goto(c, "report_failure") /\ UNCHANGED <<probing, wasted>>
    BY <1>12, <2>1, <2>3 DEF Fail, Goto, Phases
  <2> QED BY <1>12, <2>2, <2>3 DEF Fail
<1>13. ASSUME NEW c \in Callers, ReportSuccess(c) \/ ReportFailure(c) PROVE TypeOK'
  BY <1>1, <1>4, <1>13 DEF ReportSuccess, ReportFailure
<1>14. CASE Tick
  BY <1>1, <1>2, <1>14 DEF Tick
<1>15. CASE UNCHANGED vars
  BY <1>15 DEF vars
<1> QED BY <1>5, <1>6, <1>7, <1>8, <1>9, <1>10, <1>11, <1>12, <1>13, <1>14, <1>15
        DEF Next, Proceed

\* Only BeforeCall gives a thread a key, and only then it becomes a probe.
LEMMA WorkStep == IInv /\ [Next]_vars => WorkInv'
<1> SUFFICES ASSUME IInv, [Next]_vars PROVE WorkInv'
  OBVIOUS
<1> USE DEF IInv, TypeOK, WorkInv, AtWork
<1>1. ASSUME NEW c \in Callers, Unreported(c) \/ Reported(c) PROVE WorkInv'
  BY <1>1 DEF Unreported, Reported, Return, Idle
<1>2. ASSUME NEW c \in Callers, NEW phase \in Phases, AtWork(c), Goto(c, phase),
             probing' = probing, phase \notin {"idle", "turned_away"}
      PROVE  WorkInv'
  BY <1>2 DEF Goto
<1>3. ASSUME NEW c \in Callers, NEW k \in Keys, BeforeCall(c, k) PROVE WorkInv'
  <2>1. StillProbing \subseteq probing
    BY DEF StillProbing
  <2>2. c \notin probing
    BY <1>3 DEF BeforeCall, At
  <2> QED BY <1>3, <2>1, <2>2 DEF BeforeCall, Goto, At
<1>4. ASSUME NEW c \in Callers, TurnAway(c) PROVE WorkInv'
  <2>1. StillProbing \subseteq probing /\ c \notin probing
    BY <1>4 DEF StillProbing, TurnAway, At
  <2> QED BY <1>4, <2>1 DEF TurnAway, Return, Idle
<1>5. ASSUME NEW c \in Callers, Lookup(c) PROVE WorkInv'
  BY <1>1, <1>2, <1>5 DEF Lookup, At, Phases
<1>6. ASSUME NEW c \in Callers, Claim(c) PROVE WorkInv'
  BY <1>2, <1>6 DEF Claim, At, Phases
<1>7. ASSUME NEW c \in Callers, Recheck(c) PROVE WorkInv'
  BY <1>1, <1>7 DEF Recheck
<1>8. ASSUME NEW c \in Callers, NEW outcome \in Outcomes, Execute(c, outcome) PROVE WorkInv'
  BY <1>2, <1>8, PortAssumption DEF Execute, At, Phases
<1>9. ASSUME NEW c \in Callers, Succeed(c) PROVE WorkInv'
  BY <1>2, <1>9 DEF Succeed, At, Phases
<1>10. ASSUME NEW c \in Callers, Fail(c) PROVE WorkInv'
  <2>1. AtWork(c)
    BY <1>10 DEF Fail, Errors
  <2> QED BY <1>1, <1>2, <1>10, <2>1 DEF Fail, Phases
<1>11. ASSUME NEW c \in Callers, ReportSuccess(c) \/ ReportFailure(c) PROVE WorkInv'
  BY <1>1, <1>11 DEF ReportSuccess, ReportFailure
<1>12. CASE Tick
  BY <1>12 DEF Tick
<1>13. CASE UNCHANGED vars
  BY <1>13 DEF vars
<1> QED BY <1>3, <1>4, <1>5, <1>6, <1>7, <1>8, <1>9, <1>10, <1>11, <1>12, <1>13
        DEF Next, Proceed

\* A closed circuit counts below its threshold: it opens when it reaches it,
\* and closing resets the count.
LEMMA ClosedStep == IInv /\ [Next]_vars => ClosedBelowThreshold'
<1> SUFFICES ASSUME IInv, [Next]_vars PROVE ClosedBelowThreshold'
  OBVIOUS
<1> DEFINE Below(b) == b.state = "CLOSED" => b.failures < FailureThreshold
<1>1. breaker \in Breakers /\ Below(breaker) /\ FailureThreshold \in Nat \ {0}
  BY BreakerAssumption DEF IInv, TypeOK, ClosedBelowThreshold
<1>2. ASSUME NEW b \in Breakers, Below(b)
      PROVE  /\ Below(Refreshed(b)) /\ Below(Admitted(b)) /\ Below(Waited(b))
  BY <1>2 DEF Refreshed, Admitted, Waited, Breakers
<1>3. Below(Admitted(Refreshed(breaker)))
  BY <1>1, <1>2, BreakerTypes
<1>4. Below(RecordSuccess(breaker))
  BY <1>1 DEF RecordSuccess, Closed, Breakers
<1>5. Below(RecordFailure(breaker))
  BY <1>1 DEF RecordFailure, Opened, Breakers
<1>6. breaker' \in {breaker, Refreshed(breaker), Admitted(Refreshed(breaker)),
                    RecordSuccess(breaker), RecordFailure(breaker), Waited(breaker)}
  BY DEF Next, Proceed, BeforeCall, TurnAway, Lookup, Claim, Recheck, Execute, Succeed,
         Fail, ReportSuccess, ReportFailure, Tick, vars
<1> QED BY <1>1, <1>2, <1>3, <1>4, <1>5, <1>6 DEF ClosedBelowThreshold

\* The accounting of probes.
LEMMA ProbesStep == IInv /\ [Next]_vars => ProbesAccountedFor'
<1> SUFFICES ASSUME IInv, [Next]_vars PROVE ProbesAccountedFor'
  OBVIOUS
<1>1. /\ breaker \in Breakers /\ wasted \in Nat /\ probing \subseteq Callers
      /\ WorkInv /\ ProbesAccountedFor
      /\ ProbeCount \in Nat \ {0} /\ SuccessThreshold \in Nat \ {0}
  BY BreakerAssumption DEF IInv, TypeOK
<1>2. Cardinality({}) = 0
  BY FS_EmptySet
<1> DEFINE b == Refreshed(breaker)
\* A refreshed breaker with its still probing callers is accounted for as well.
<1>3. /\ b \in Breakers /\ StillProbing \subseteq Callers /\ StillWasted \in Nat
      /\ b.state = "HALF_OPEN" =>
           /\ Cardinality(StillProbing) <= b.half_open_probes
           /\ b.half_open_probes <= ProbeCount
           /\ b.half_open_probes <= Cardinality(StillProbing) + StillWasted + b.successes
      /\ StillProbing \subseteq probing
  <2>1. CASE Refreshed(breaker) = breaker
    BY <1>1, <2>1 DEF StillProbing, StillWasted, ProbesAccountedFor
  <2>2. CASE Refreshed(breaker) # breaker
    <3>1. b.half_open_probes = 0 /\ b.successes = 0
      BY <1>1, <2>2 DEF Refreshed, Breakers
    <3>2. StillProbing = {} /\ StillWasted = 0
      BY <2>2 DEF StillProbing, StillWasted
    <3> QED BY <1>1, <1>2, <3>1, <3>2, BreakerTypes
  <2> QED BY <2>1, <2>2
<1>4. ASSUME NEW c \in Callers, NEW k \in Keys, BeforeCall(c, k) PROVE ProbesAccountedFor'
  <2>1. c \notin StillProbing
    BY <1>1, <1>3, <1>4 DEF BeforeCall, At, WorkInv, AtWork
  <2>2. /\ Cardinality(StillProbing) \in Nat
        /\ Cardinality(StillProbing \cup {c}) = Cardinality(StillProbing) + 1
    BY <1>3, <2>1, CallersCount
  <2>3. CASE Allows(b) /\ b.state = "HALF_OPEN"
    <3>1. /\ breaker' = [b EXCEPT !.half_open_probes = @ + 1] /\ b.half_open_probes < ProbeCount
          /\ probing' = StillProbing \cup {c} /\ wasted' = StillWasted
      BY <1>4, <2>3 DEF BeforeCall, Allows, Admitted
    <3>2. /\ breaker'.half_open_probes = b.half_open_probes + 1
          /\ breaker'.successes = b.successes
          /\ b.half_open_probes \in Nat /\ b.successes \in Nat
      BY <1>3, <3>1 DEF Breakers
    <3> HIDE DEF b
    <3> QED BY <1>1, <1>3, <2>2, <2>3, <3>1, <3>2 DEF ProbesAccountedFor
  <2>4. CASE Allows(b) /\ b.state # "HALF_OPEN"
    BY <1>4, <2>4 DEF BeforeCall, Allows, Admitted, ProbesAccountedFor
  <2>5. CASE ~ Allows(b)
    <3>1. breaker' = b /\ probing' = StillProbing /\ wasted' = StillWasted
      BY <1>4, <2>5 DEF BeforeCall
    <3> QED BY <1>3, <3>1 DEF ProbesAccountedFor
  <2> QED BY <2>3, <2>4, <2>5
<1>5. ASSUME NEW c \in Callers, TurnAway(c) PROVE ProbesAccountedFor'
  BY <1>3, <1>5 DEF TurnAway, ProbesAccountedFor
<1>6. ASSUME NEW c \in Callers, UNCHANGED breaker, Unreported(c) PROVE ProbesAccountedFor'
  BY <1>6, UnreportedKeepsProbes
<1>7. ASSUME UNCHANGED <<breaker, probing, wasted>> PROVE ProbesAccountedFor'
  BY <1>1, <1>7 DEF ProbesAccountedFor
<1>8. ASSUME NEW c \in Callers, Reported(c), ReportSuccess(c) PROVE ProbesAccountedFor'
  <2>1. CASE breaker'.state = "HALF_OPEN"
    <3>1. /\ breaker.state = "HALF_OPEN"
          /\ breaker' = [breaker EXCEPT !.successes = @ + 1]
      BY <1>1, <1>8, <2>1 DEF ReportSuccess, RecordSuccess, Closed, Breakers
    <3>2. /\ breaker'.half_open_probes = breaker.half_open_probes
          /\ breaker'.successes = breaker.successes + 1
          /\ breaker.half_open_probes \in Nat /\ breaker.successes \in Nat
      BY <1>1, <3>1 DEF Breakers
    <3>3. probing' = probing \ {c} /\ wasted' = wasted
      BY <1>8 DEF Reported
    <3>4. /\ Cardinality(probing) \in Nat
          /\ Cardinality(probing \ {c}) = IF c \in probing THEN Cardinality(probing) - 1
                                                           ELSE Cardinality(probing)
      BY <1>1, CallersCount
    <3> QED BY <1>1, <3>1, <3>2, <3>3, <3>4 DEF ProbesAccountedFor
  <2> QED BY <2>1 DEF ProbesAccountedFor
<1>9. ASSUME NEW c \in Callers, ReportFailure(c) PROVE ProbesAccountedFor'
  <2>1. breaker'.state # "HALF_OPEN"
    BY <1>1, <1>9 DEF ReportFailure, RecordFailure, Opened, Breakers
  <2> QED BY <2>1 DEF ProbesAccountedFor
<1>10. CASE Tick
  <2>1. breaker' = breaker \/ breaker'.state = "OPEN"
    BY <1>1, <1>10 DEF Tick, Waited, Breakers
  <2> QED BY <1>1, <1>10, <2>1 DEF Tick, ProbesAccountedFor
<1> QED
  BY <1>4, <1>5, <1>6, <1>7, <1>8, <1>9, <1>10
     DEF Next, Proceed, Lookup, Claim, Recheck, Execute, Succeed, Fail, ReportSuccess, vars

\* The store side: one action after the other.
ClaimParts == ClaimInv /\ EffectInv /\ CachedResultsHappened

LEMMA ClaimStep ==
  ASSUME IInv, TypeOK', NEW c \in Callers, Claim(c)
  PROVE  ClaimParts'
<1> USE DEF IInv, TypeOK
<1>0. PICK k \in Keys : k = calls[c].key
  BY DEF Claim, At, WorkInv, AtWork
<1> USE <1>0
<1>1. CASE ~ Free(store[k])
  BY <1>1, ClaimsKept DEF Claim, Goto, At, Errors, ClaimParts
<1>2. CASE Free(store[k])
  <2>1. /\ store' = [store EXCEPT ![k] = Inflight] /\ effects' = effects /\ excused' = excused
        /\ calls' = [calls EXCEPT ![c].phase = "execute"]
    BY <1>2 DEF Claim, Goto
  <2>2. Alive(Inflight) /\ Inflight.status = "INFLIGHT"
    BY StoreAssumption DEF Alive, Inflight
  <2>3. c \notin Holders(k) /\ Holders(k)' = Holders(k) \cup {c}
    BY <1>0, <2>1 DEF Claim, At, Holders, Errors
  <2>4. \A j \in Keys \ {k} : Holders(j)' = Holders(j) /\ store'[j] = store[j]
    BY <1>0, <2>1 DEF Holders
  <2>5. \A d \in Callers \ {c} : calls'[d] = calls[d]
    BY <2>1
  <2>6. ASSUME k \notin excused PROVE Holders(k) = {} /\ effects[k] = 0
    BY <1>0, <1>2, <2>6 DEF ClaimInv, SoundClaim, Free
  <2>7. ClaimInv'
    <3>1. ASSUME NEW j \in Keys \ excused', j # k PROVE SoundClaim(j)'
      <4>1. c \notin Holders(j)
        BY DEF Claim, At, Holders, Errors
      <4> QED BY <2>1, <2>4, <2>5, <3>1, <4>1 DEF ClaimInv, SoundClaim, Holders
    <3>2. ASSUME k \notin excused' PROVE SoundClaim(k)'
      <4>1. /\ Holders(k)' = {c} /\ store'[k] = Inflight /\ effects'[k] = 0
            /\ calls'[c].phase = "execute"
        BY <1>0, <2>1, <2>3, <2>6, <3>2
      <4> QED BY <2>2, <4>1 DEF SoundClaim
    <3> QED BY <3>1, <3>2 DEF ClaimInv
  <2>8. EffectInv'
    BY <2>1 DEF EffectInv, At
  <2>9. CachedResultsHappened'
    BY <2>1, <2>2 DEF CachedResultsHappened
  <2> QED BY <2>7, <2>8, <2>9 DEF ClaimParts
<1> QED BY <1>1, <1>2

LEMMA ExecuteStep ==
  ASSUME IInv, TypeOK', NEW c \in Callers, NEW outcome \in Outcomes, Execute(c, outcome)
  PROVE  ClaimParts'
<1> USE DEF IInv, TypeOK
<1>0. PICK k \in Keys : k = calls[c].key
  BY DEF Execute, At, WorkInv, AtWork
<1> USE <1>0
<1>1. /\ store' = store /\ calls' = [calls EXCEPT ![c].phase = outcome]
      /\ effects' = [effects EXCEPT ![k] =
                       IF outcome \in {"accepted", "timeout_applied"} /\ @ < 2 THEN @ + 1 ELSE @]
      /\ excused' = IF outcome = "timeout_applied" THEN excused \cup {k} ELSE excused
  BY DEF Execute, Goto
<1>2. outcome \in {"accepted"} \cup Errors
  BY PortAssumption DEF Errors
<1>3. c \in Holders(k) /\ calls[c].phase # "accepted"
  BY DEF Execute, At, Holders, Errors
<1>4. \A j \in Keys : Holders(j)' = Holders(j)
  BY <1>0, <1>1, <1>2, <1>3 DEF Holders
<1>5. ClaimInv'
  <2>1. ASSUME NEW j \in Keys \ excused', j # k, NEW d \in Holders(j)
        PROVE  calls'[d] = calls[d]
    BY <1>1, <2>1 DEF Holders
  <2>2. ASSUME k \notin excused'
        PROVE  /\ k \notin excused /\ Holders(k) = {c}
               /\ effects'[k] = IF calls'[c].phase = "accepted" THEN 1 ELSE 0
    <3>1. outcome # "timeout_applied" /\ k \notin excused
      BY <1>1, <2>2
    <3>2. Holders(k) = {c} /\ effects[k] = 0
      BY <1>0, <1>3, <3>1 DEF ClaimInv, SoundClaim
    <3> QED BY <1>0, <1>1, <3>1, <3>2
  <2>3. \A j \in Keys \ {k} : effects'[j] = effects[j] /\ (j \in excused' <=> j \in excused)
    BY <1>0, <1>1
  <2> QED BY <1>1, <1>4, <2>1, <2>2, <2>3 DEF ClaimInv, SoundClaim
<1>6. \A j \in Keys : effects'[j] >= effects[j]
  BY <1>0, <1>1
<1>7. EffectInv'
  <2>1. ASSUME NEW d \in Callers, d # c, At(d, "accepted")' PROVE effects'[calls'[d].key] > 0
    <3>1. calls'[d] = calls[d] /\ At(d, "accepted")
      BY <1>1, <2>1 DEF At
    <3>2. calls[d].key \in Keys /\ effects[calls[d].key] > 0
      BY <3>1 DEF EffectInv, WorkInv, AtWork, At
    <3> QED BY <1>6, <3>1, <3>2
  <2>2. ASSUME At(c, "accepted")' PROVE effects'[calls'[c].key] > 0
    <3>1. outcome = "accepted" /\ calls'[c].key = k
      BY <1>1, <2>2 DEF At
    <3> QED BY <1>0, <1>1, <3>1
  <2> QED BY <2>1, <2>2 DEF EffectInv
<1>8. CachedResultsHappened'
  BY <1>1, <1>6 DEF CachedResultsHappened
<1> QED BY <1>5, <1>7, <1>8 DEF ClaimParts

\* A call marks its key and gives its claim up.
LEMMA MarkStep ==
  ASSUME IInv, TypeOK', NEW c \in Callers, Succeed(c) \/ Fail(c)
  PROVE  ClaimParts'
<1> USE DEF IInv, TypeOK
<1>0. PICK k \in Keys : k = calls[c].key
  BY DEF Succeed, Fail, At, Errors, WorkInv, AtWork
<1> USE <1>0
<1>1. /\ effects' = effects /\ excused' = excused
      /\ \A j \in Keys \ {k} : store'[j] = store[j]
      /\ \A d \in Callers \ {c} : calls'[d] = calls[d]
      /\ calls'[c].phase \notin {"execute", "accepted"} \cup Errors
  BY DEF Succeed, Fail, Goto, Unreported, Return, Idle, Errors
<1>2. c \in Holders(k) /\ Holders(k)' = Holders(k) \ {c}
  BY <1>1 DEF Succeed, Fail, At, Holders
<1>3. \A j \in Keys \ {k} : Holders(j)' = Holders(j)
  BY <1>1 DEF Holders
<1>4. \/ /\ calls[c].phase = "accepted" /\ store'[k] = MarkDone(store[k])
      \/ /\ calls[c].phase # "accepted" /\ store'[k] = MarkFailed(store[k])
  BY DEF Succeed, Fail, At, Errors
<1>5. ASSUME k \notin excused PROVE SoundClaim(k)'
  <2>1. /\ Holders(k) = {c} /\ store[k].status = "INFLIGHT"
        /\ effects[k] = IF calls[c].phase = "accepted" THEN 1 ELSE 0
    BY <1>2, <1>5 DEF ClaimInv, SoundClaim
  <2>2. Holders(k)' = {} /\ effects'[k] = effects[k] /\ store[k] # Absent
    BY <1>1, <1>2, <2>1 DEF Absent
  <2>3. CASE calls[c].phase = "accepted"
    <3>1. Alive(store'[k]) /\ store'[k].status = "DONE"
      BY <1>4, <2>2, <2>3, StoreAssumption DEF MarkDone, Alive
    <3> QED BY <2>1, <2>2, <2>3, <3>1 DEF SoundClaim
  <2>4. CASE calls[c].phase # "accepted"
    <3>1. store'[k].status = "FAILED"
      BY <1>4, <2>2, <2>4 DEF MarkFailed, Entries, Absent
    <3> QED BY <2>1, <2>2, <2>4, <3>1 DEF SoundClaim
  <2> QED BY <2>3, <2>4
<1>6. ASSUME NEW j \in Keys \ {k}, j \notin excused PROVE SoundClaim(j)'
  <2>1. \A d \in Holders(j) : calls'[d] = calls[d]
    BY <1>1, <1>6 DEF Holders
  <2> QED BY <1>1, <1>3, <1>6, <2>1 DEF ClaimInv, SoundClaim
<1>7. ClaimInv'
  BY <1>1, <1>5, <1>6 DEF ClaimInv
<1>8. EffectInv'
  BY <1>1 DEF EffectInv, At
<1>9. CachedResultsHappened'
  <2>1. ASSUME Alive(store'[k]), store'[k].status = "DONE" PROVE effects[k] > 0
    <3>1. CASE calls[c].phase = "accepted"
      BY <3>1 DEF EffectInv, At
    <3>2. CASE calls[c].phase # "accepted"
      BY <1>4, <2>1, <3>2 DEF MarkFailed, Entries, Absent, Alive
    <3> QED BY <3>1, <3>2
  <2> QED BY <1>1, <2>1 DEF CachedResultsHappened
<1> QED BY <1>7, <1>8, <1>9 DEF ClaimParts

LEMMA TickStep ==
  ASSUME IInv, TypeOK', Tick
  PROVE  ClaimParts'
<1> USE DEF IInv, TypeOK
<1> DEFINE out == {k \in Keys : Alive(store[k]) /\ ~ Alive(Aged(store[k]))}
           dying == {k \in out : Holders(k) # {}}
<1>1. /\ store' = [k \in Keys |-> Aged(store[k])] /\ calls' = calls
      /\ effects' = [k \in Keys |-> IF k \in out \ dying THEN 0 ELSE effects[k]]
      /\ excused' = (excused \ out) \cup dying
  BY DEF Tick
<1>2. \A k \in Keys : Holders(k)' = Holders(k)
  BY <1>1 DEF Holders
<1>3. \A k \in Keys : /\ Alive(store'[k]) => Alive(store[k])
                      /\ store'[k].status = store[k].status
  BY <1>1 DEF Aged, Alive, Entries, Absent
<1>4. ASSUME NEW k \in Keys, k \notin excused' PROVE SoundClaim(k)'
  <2>1. CASE k \in out
    <3>1. Holders(k)' = {} /\ effects'[k] = 0 /\ ~ Alive(store'[k])
      BY <1>1, <1>2, <1>4, <2>1
    <3> QED BY <3>1 DEF SoundClaim
  <2>2. CASE k \notin out
    <3>1. k \notin excused /\ effects'[k] = effects[k]
      BY <1>1, <1>4, <2>2
    <3>2. Alive(store'[k]) <=> Alive(store[k])
      BY <1>1, <1>3, <2>2
    <3> QED BY <1>1, <1>2, <1>3, <3>1, <3>2 DEF ClaimInv, SoundClaim
  <2> QED BY <2>1, <2>2
<1>5. ClaimInv'
  BY <1>4 DEF ClaimInv
<1>6. EffectInv'
  <2>1. ASSUME NEW c \in Callers, At(c, "accepted") PROVE effects'[calls[c].key] > 0
    <3>1. PICK k \in Keys : k = calls[c].key
      BY <2>1 DEF WorkInv, AtWork, At
    <3>2. c \in Holders(k) /\ effects[k] > 0
      BY <2>1, <3>1 DEF Holders, At, EffectInv
    <3>3. effects'[k] = effects[k]
      BY <1>1, <3>2
    <3> QED BY <3>1, <3>2, <3>3
  <2> QED BY <1>1, <2>1 DEF EffectInv, At
<1>7. CachedResultsHappened'
  <2>1. ASSUME NEW k \in Keys, Alive(store'[k]), store'[k].status = "DONE"
        PROVE  effects'[k] > 0
    <3>1. k \notin out /\ effects[k] > 0
      BY <1>1, <1>3, <2>1 DEF CachedResultsHappened
    <3> QED BY <1>1, <3>1
  <2> QED BY <2>1 DEF CachedResultsHappened
<1> QED BY <1>5, <1>6, <1>7 DEF ClaimParts

LEMMA StoreStep == IInv /\ TypeOK' /\ [Next]_vars => ClaimParts'
<1> SUFFICES ASSUME IInv, TypeOK', [Next]_vars PROVE ClaimParts'
  OBVIOUS
<1> DEFINE Plain(c) == calls[c].phase \notin {"execute", "accepted"} \cup Errors
<1>1. ASSUME NEW c \in Callers, NEW k \in Keys, BeforeCall(c, k) PROVE ClaimParts'
  <2>1. /\ store' = store /\ effects' = effects /\ excused' = excused /\ Plain(c)
        /\ \A d \in Callers \ {c} : calls'[d] = calls[d]
        /\ calls'[c].phase \in {"lookup", "turned_away"}
    BY <1>1 DEF BeforeCall, Goto, At, Errors, IInv, TypeOK
  <2> QED BY <2>1, ClaimsKept DEF ClaimParts, Errors
<1>2. ASSUME NEW c \in Callers, TurnAway(c) \/ Recheck(c) \/ ReportSuccess(c) \/ ReportFailure(c)
      PROVE  ClaimParts'
  <2>1. /\ effects' = effects /\ excused' = excused /\ Plain(c)
        /\ \A d \in Callers \ {c} : calls'[d] = calls[d]
        /\ calls'[c].phase = "idle"
        /\ \A k \in Keys : store'[k] = store[k] \/ store'[k] = Got(store[k])
    BY <1>2 DEF TurnAway, Recheck, ReportSuccess, ReportFailure, Unreported, Reported, Return,
                Idle, At, Errors, IInv, TypeOK
  <2> QED BY <2>1, ClaimsKept DEF ClaimParts, Errors
<1>3. ASSUME NEW c \in Callers, Lookup(c) PROVE ClaimParts'
  <2>1. /\ effects' = effects /\ excused' = excused /\ Plain(c)
        /\ \A d \in Callers \ {c} : calls'[d] = calls[d]
        /\ calls'[c].phase \in {"idle", "claim"}
        /\ \A k \in Keys : store'[k] = store[k] \/ store'[k] = Got(store[k])
    BY <1>3 DEF Lookup, Goto, Unreported, Return, Idle, At, Errors, IInv, TypeOK
  <2> QED BY <2>1, ClaimsKept DEF ClaimParts, Errors
<1>4. CASE UNCHANGED vars
  BY <1>4 DEF vars, IInv, ClaimParts, ClaimInv, SoundClaim, EffectInv, CachedResultsHappened,
              Holders, At
<1> QED BY <1>1, <1>2, <1>3, <1>4, ClaimStep, ExecuteStep, MarkStep, TickStep DEF Next, Proceed

-----------------------------------------------------------------------------
\* The theorems.

\* The strengthened invariant holds in every reachable state.
THEOREM Invariance == Spec => []IInv
<1>1. IInv /\ [Next]_vars => IInv'
  <2> SUFFICES ASSUME IInv, [Next]_vars PROVE IInv'
    OBVIOUS
  <2>1. TypeOK'
    BY TypeStep DEF IInv
  <2> QED BY <2>1, WorkStep, StoreStep, ClosedStep, ProbesStep DEF IInv, ClaimParts
<1> QED BY InitInvariant, <1>1, PTL DEF Spec

\* Every variable keeps its type.
THEOREM TypeCorrect == Spec => []TypeOK
<1>1. IInv => TypeOK
  BY DEF IInv
<1> QED BY <1>1, Invariance, PTL

\* One side effect per life of a key, whatever the threads do.
THEOREM OneEffectPerKey == Spec => []AtMostOneEffect
<1>1. IInv => AtMostOneEffect
  <2> SUFFICES ASSUME IInv, NEW k \in Keys \ excused PROVE effects[k] <= 1
    BY DEF AtMostOneEffect
  <2>1. effects[k] \in {0, 1}
    <3>1. CASE Holders(k) = {}
      BY <3>1 DEF IInv, ClaimInv, SoundClaim
    <3>2. CASE Holders(k) # {}
      BY <3>2 DEF IInv, ClaimInv, SoundClaim
    <3> QED BY <3>1, <3>2
  <2> QED BY <2>1
<1> QED BY <1>1, Invariance, PTL

\* The cache answers only for requests that took effect.
THEOREM CacheIsTruthful == Spec => []CachedResultsHappened
<1>1. IInv => CachedResultsHappened
  BY DEF IInv
<1> QED BY <1>1, Invariance, PTL

\* The breaker's count of failures and its budget of probes.
THEOREM BreakerBudgets == Spec => [](ClosedBelowThreshold /\ ProbesAccountedFor)
<1>1. IInv => ClosedBelowThreshold /\ ProbesAccountedFor
  BY DEF IInv
<1> QED BY <1>1, Invariance, PTL

-----------------------------------------------------------------------------
\* The symbols an engine of the trading script may enter.  A symbol leaves the active set
\* by one of two ways: dropped, which its inventory and its hold forbid, or flattened,
\* which only a symbol wound down and flat can be.

\* The foremost n of a set are at most n.
LEMMA ForemostBound ==
  ASSUME NEW S \in SUBSET Nat, IsFiniteSet(S), NEW n \in Int
  PROVE  /\ Foremost(n, S) \subseteq S /\ IsFiniteSet(Foremost(n, S))
         /\ n <= 0 => Foremost(n, S) = {}
         /\ n >= 0 => Cardinality(Foremost(n, S)) <= n
<1>1. Foremost(n, S) = FirstOf(n, S)
  BY DEF Foremost, FirstOf
<1> QED BY <1>1, FirstOfBound

\* What the budget of a cycle pays for: removals first, then additions.
LEMMA BudgetShared ==
  ASSUME NEW S \in SUBSET Operated, NEW T \in SUBSET Operated
  PROVE  LET removed == Foremost(MaxChanges, S)
             added == TakenOn(T, removed)
         IN  /\ removed \subseteq S /\ added \subseteq T
             /\ IsFiniteSet(removed) /\ IsFiniteSet(added)
             /\ Cardinality(removed \cup added) <= MaxChanges
<1> USE SelectorAssumption
<1> DEFINE removed == Foremost(MaxChanges, S)
           added == TakenOn(T, removed)
           left == MaxChanges - Cardinality(removed)
<1>1. S \in SUBSET Nat /\ IsFiniteSet(S) /\ T \in SUBSET Nat /\ IsFiniteSet(T)
  BY FS_Subset
<1>2. removed \subseteq S /\ IsFiniteSet(removed) /\ Cardinality(removed) <= MaxChanges
  <2>1. MaxChanges \in Int /\ MaxChanges >= 0
    OBVIOUS
  <2> QED BY <1>1, <2>1, ForemostBound
<1>3. Cardinality(removed) \in Nat
  BY <1>2, FS_CardinalityType
<1> HIDE DEF removed
<1>4. left \in Int /\ left >= 0
  BY <1>2, <1>3
<1>5. added = Foremost(left, T)
  BY DEF TakenOn
<1> HIDE DEF left, added
<1>6. added \subseteq T /\ IsFiniteSet(added) /\ Cardinality(added) <= left
  BY <1>1, <1>4, <1>5, ForemostBound
<1>7. Cardinality(removed \cup added) <= MaxChanges
  <2>1. Cardinality(removed \cup added)
          = Cardinality(removed) + Cardinality(added) - Cardinality(removed \cap added)
    BY <1>2, <1>6, FS_Union
  <2>2. Cardinality(added) \in Nat /\ Cardinality(removed \cap added) \in Nat
    BY <1>2, <1>6, FS_Intersection, FS_CardinalityType
  <2> QED BY <1>2, <1>3, <1>6, <2>1, <2>2 DEF left
<1> QED BY <1>2, <1>6, <1>7 DEF removed, added

\* Every variable of the selector keeps its type.
LEMMA SelectorTyped == SelectorSpec => []SelectorTypeOK
<1> USE SelectorAssumption DEF SelectorTypeOK
<1>1. SelectorInit => SelectorTypeOK
  BY DEF SelectorInit
<1>2. SelectorTypeOK /\ [SelectorNext]_selectorVars => SelectorTypeOK'
  <2> SUFFICES ASSUME SelectorTypeOK, [SelectorNext]_selectorVars PROVE SelectorTypeOK' OBVIOUS
  <2>1. ASSUME NEW s \in Operated, Observe(s) PROVE SelectorTypeOK'
    <3>1. UNCHANGED <<activeSet, winding, holdCycles, nonFlat, forced>> /\ (Refuse(s) \/ Rate(s))
      BY <2>1 DEF Observe
    <3>2. scorable' \subseteq Operated
      BY <3>1 DEF Refuse, Rate
    <3>3. score' \in [Operated -> Int]
      <4>1. PICK value \in Int : score' = [score EXCEPT ![s] = value]
        BY <3>1 DEF Refuse, Rate
      <4> QED BY <4>1
    <3> QED BY <3>1, <3>2, <3>3
  <2>2. ASSUME NEW s \in Gridded, BranchChanges(s) \/ ForceGracefulExit(s) PROVE SelectorTypeOK'
    <3>1. CASE BranchChanges(s)
      <4>1. nonFlat' \subseteq Gridded
        BY <3>1 DEF BranchChanges
      <4> QED BY <3>1, <4>1 DEF BranchChanges
    <3>2. CASE ForceGracefulExit(s)
      <4>1. winding' \subseteq Gridded
        BY <3>2 DEF ForceGracefulExit
      <4>2. forced' = forced + 1 /\ forced < MaxForced
        BY <3>2 DEF ForceGracefulExit
      <4>3. forced' \in 0 .. MaxForced
        BY <4>2
      <4>4. UNCHANGED <<scorable, score, activeSet, holdCycles, nonFlat>>
        BY <3>2 DEF ForceGracefulExit
      <4> QED BY <4>1, <4>3, <4>4
    <3> QED BY <2>2, <3>1, <3>2
  <2>3. CASE Cycle
    <3>1. PICK adjust \in Adjustments :
            LET unwanted == Unwanted(Target(adjust), adjust)
                removed == Dropped(unwanted)
                added == TakenOn(Entrants(Target(adjust), adjust), removed)
            IN  /\ activeSet' = ((activeSet \ removed) \cup added) \ (Flattened \ Target(adjust))
                /\ winding' = (winding \cup Deferred(unwanted)) \cap nonFlat
                /\ holdCycles' = [s \in Operated |->
                     IF s \notin activeSet' THEN 0
                     ELSE IF s \in added THEN 1
                     ELSE IF holdCycles[s] < MinHoldCycles THEN holdCycles[s] + 1
                     ELSE holdCycles[s]]
                /\ UNCHANGED <<scorable, score, nonFlat, forced>>
      BY <2>3 DEF Cycle
    <3> DEFINE removed == Dropped(Unwanted(Target(adjust), adjust))
               added == TakenOn(Entrants(Target(adjust), adjust), removed)
    <3>2. added \subseteq Operated
      BY DEF TakenOn, Foremost, Entrants, Target
    <3>3. activeSet' \subseteq activeSet \cup added
      BY <3>1
    <3>4. winding' \subseteq nonFlat
      BY <3>1
    <3>5. holdCycles' = [s \in Operated |->
            IF s \notin activeSet' THEN 0
            ELSE IF s \in added THEN 1
            ELSE IF holdCycles[s] < MinHoldCycles THEN holdCycles[s] + 1
            ELSE holdCycles[s]]
      BY <3>1
    <3>6. UNCHANGED <<scorable, score, nonFlat, forced>>
      BY <3>1
    <3> HIDE DEF removed, added
    <3>7. holdCycles' \in [Operated -> Nat]
      BY <3>5
    <3> QED BY <3>2, <3>3, <3>4, <3>6, <3>7
  <2>4. CASE UNCHANGED selectorVars
    BY <2>4 DEF selectorVars
  <2> QED BY <2>1, <2>2, <2>3, <2>4 DEF SelectorNext
<1> QED BY <1>1, <1>2, PTL DEF SelectorSpec

\* What one cycle does to the active set and to the symbols wound down.
LEMMA CycleIsOrderly ==
  ASSUME SelectorTypeOK, Cycle
  PROVE  /\ \A s \in activeSet \ activeSet' :
              s \notin nonFlat /\ (holdCycles[s] >= MinHoldCycles \/ s \in winding)
         /\ Cardinality((activeSet' \ activeSet) \cup ((activeSet \ activeSet') \ winding)) <= MaxChanges
         /\ \A s \in winding : s \notin winding' => s \notin nonFlat
<1> USE SelectorAssumption DEF SelectorTypeOK
<1>1. PICK adjust \in Adjustments :
        LET target == Target(adjust)
            unwanted == Unwanted(target, adjust)
            removed == Dropped(unwanted)
            added == TakenOn(Entrants(target, adjust), removed)
        IN  /\ activeSet' = ((activeSet \ removed) \cup added) \ (Flattened \ target)
            /\ winding' = (winding \cup Deferred(unwanted)) \cap nonFlat
  BY DEF Cycle
<1> DEFINE target == Target(adjust)
           unwanted == Unwanted(target, adjust)
           removed == Dropped(unwanted)
           entrants == Entrants(target, adjust)
           added == TakenOn(entrants, removed)
<1>2. target \subseteq scorable /\ unwanted \subseteq activeSet
  BY DEF Target, Unwanted
<1>3. \A s \in unwanted : holdCycles[s] >= MinHoldCycles
  BY DEF Unwanted
<1>4. entrants \in SUBSET Operated /\ unwanted \ nonFlat \in SUBSET Operated
  BY <1>2 DEF Entrants
<1>5. removed = Foremost(MaxChanges, unwanted \ nonFlat)
  BY DEF Dropped
<1>6. activeSet' = ((activeSet \ removed) \cup added) \ (Flattened \ target)
  BY <1>1
<1>7. winding' = (winding \cup Deferred(unwanted)) \cap nonFlat
  BY <1>1
<1> HIDE DEF target, unwanted, entrants
<1>8. /\ removed \subseteq unwanted \ nonFlat /\ added \subseteq entrants
      /\ IsFiniteSet(removed) /\ IsFiniteSet(added)
      /\ Cardinality(removed \cup added) <= MaxChanges
  BY <1>4, <1>5, BudgetShared
<1> HIDE DEF removed, added
<1>9. ASSUME NEW s \in activeSet \ activeSet'
      PROVE  s \notin nonFlat /\ (holdCycles[s] >= MinHoldCycles \/ s \in winding)
  BY <1>3, <1>6, <1>8 DEF Flattened
<1>10. (activeSet' \ activeSet) \cup ((activeSet \ activeSet') \ winding) \subseteq removed \cup added
  BY <1>6 DEF Flattened
<1>11. Cardinality((activeSet' \ activeSet) \cup ((activeSet \ activeSet') \ winding)) <= MaxChanges
  <2> DEFINE changed == (activeSet' \ activeSet) \cup ((activeSet \ activeSet') \ winding)
  <2>1. IsFiniteSet(removed \cup added)
    BY <1>8, FS_Union
  <2>2. IsFiniteSet(changed) /\ Cardinality(changed) <= Cardinality(removed \cup added)
    BY <1>10, <2>1, FS_Subset
  <2>3. Cardinality(changed) \in Nat /\ Cardinality(removed \cup added) \in Nat
    BY <2>1, <2>2, FS_CardinalityType
  <2> HIDE DEF changed
  <2>4. Cardinality(changed) <= MaxChanges
    BY <1>8, <2>2, <2>3
  <2> QED BY <2>4 DEF changed
<1> QED BY <1>7, <1>9, <1>11

\* For any universe, thresholds, budget and sequence of features, branches and forced
\* exits: the rotation never orphans inventory and keeps to its hold and its budget.
THEOREM RotationStaysOrderly == SelectorSpec => RotationIsOrderly
<1> USE SelectorAssumption
<1>1. ASSUME SelectorTypeOK, [SelectorNext]_selectorVars
      PROVE  [/\ \A s \in activeSet \ activeSet' :
                   s \notin nonFlat /\ (holdCycles[s] >= MinHoldCycles \/ s \in winding)
              /\ Cardinality((activeSet' \ activeSet) \cup ((activeSet \ activeSet') \ winding)) <= MaxChanges
              /\ \A s \in winding : DispatchAllowed(s)' => s \notin nonFlat]_selectorVars
  <2>1. CASE Cycle
    <3>1. \A s \in winding : DispatchAllowed(s)' => s \notin winding'
      BY DEF DispatchAllowed
    <3> QED BY <1>1, <2>1, <3>1, CycleIsOrderly
  <2>2. ASSUME UNCHANGED activeSet, winding \subseteq winding'
        PROVE  /\ \A s \in activeSet \ activeSet' :
                    s \notin nonFlat /\ (holdCycles[s] >= MinHoldCycles \/ s \in winding)
               /\ Cardinality((activeSet' \ activeSet) \cup ((activeSet \ activeSet') \ winding)) <= MaxChanges
               /\ \A s \in winding : DispatchAllowed(s)' => s \notin nonFlat
    <3>1. (activeSet' \ activeSet) \cup ((activeSet \ activeSet') \ winding) = {}
      BY <2>2
    <3>2. Cardinality({}) = 0
      BY FS_EmptySet
    <3>3. 0 <= MaxChanges
      OBVIOUS
    <3> QED BY <2>2, <3>1, <3>2, <3>3 DEF DispatchAllowed
  <2>3. ASSUME NEW s \in Operated, Observe(s) PROVE UNCHANGED activeSet /\ winding \subseteq winding'
    BY <2>3 DEF Observe
  <2>4. ASSUME NEW s \in Gridded, BranchChanges(s) \/ ForceGracefulExit(s)
        PROVE  UNCHANGED activeSet /\ winding \subseteq winding'
    BY <2>4 DEF BranchChanges, ForceGracefulExit
  <2> QED BY <1>1, <2>1, <2>2, <2>3, <2>4 DEF SelectorNext
<1> QED BY <1>1, SelectorTyped, PTL DEF SelectorSpec, RotationIsOrderly

-----------------------------------------------------------------------------
\* Proofs about the market feed: updates in order, none after the stop, and sockets shut.

Connecting == {"dialing", "subscribing", "joining", "backoff"}

\* Who closed, and what the closed connector lets pass.
ClosedFor ==
  /\ stopper # "none" \/ conn = "closed" => ws.closed
  /\ stopper = "none" /\ conn = "closed" => at \in {"closing", "over"}
  /\ at \in {"closing", "over"} => conn = "closed"
  /\ at = "idle" => stopper = "none" /\ socket = "none" /\ orphans = 0
  /\ at = "receiving" /\ stopper # "none" => ~feeding

\* The sockets a stop has not shut, and those the transport has lost.
Sockets ==
  /\ at = "redialing" => socket = "none" /\ stopper # "closing"
  /\ at = "redialing" /\ stopper = "done" => "redial" \in slips
  /\ stopper = "done" /\ socket = "open" /\ at \notin Connecting \cup {"closing"} => "redial" \in slips \/ conn # "closed"
  /\ at = "over" /\ stopper = "none" => socket = "none"
  /\ at \in {"dialing", "backoff"} /\ (socket # "none" \/ stopper = "closing") => "subscription" \in slips
  /\ stopper = "closing" /\ socket = "open" => "subscription" \in slips
  /\ orphans > 0 => "subscription" \in slips

FeedInv == FeedTypeOK /\ handed <= lastSeen /\ ClosedFor /\ Sockets

LEMMA ClosedWs == [state |-> "closed", closed |-> TRUE] \in [state : ConnStates, closed : BOOLEAN]
BY DEF ConnStates

LEMMA FeedStarts == FeedInit => FeedInv
<1> SUFFICES ASSUME FeedInit PROVE FeedInv
  OBVIOUS
<1>1. ws \in [state : ConnStates, closed : BOOLEAN]
  BY DEF FeedInit, ConnStates
<1>2. FeedTypeOK
  BY <1>1 DEF FeedInit, FeedTypeOK, Stations, ConnStates
<1>3. ClosedFor /\ Sockets /\ handed <= lastSeen
  BY DEF FeedInit, ClosedFor, Sockets, Connecting
<1>4. QED
  BY <1>2, <1>3 DEF FeedInv

\* Every step keeps the invariant, hands on in order and not after the stop.
LEMMA FeedStep ==
  ASSUME FeedInv, [FeedNext]_feedVars
  PROVE  FeedInv' /\ (handed' # handed => handed' > handed /\ stopper = "none")
<1> DEFINE Keeps == FeedInv' /\ (handed' # handed => handed' > handed /\ stopper = "none")
<1> USE FeedAssumption DEF FeedAssumption, line, talk, Stations, ConnStates
<1>1. ASSUME Start PROVE Keeps
  <2>1. FeedTypeOK'
    BY <1>1 DEF FeedInv, FeedTypeOK, Start, WsIs
  <2>2. handed' = handed /\ handed' <= lastSeen'
    BY <1>1 DEF FeedInv, FeedTypeOK, Start, WsIs
  <2>3. ClosedFor'
    BY <1>1 DEF FeedInv, FeedTypeOK, ClosedFor, Start, WsIs
  <2>4. Sockets'
    BY <1>1 DEF FeedInv, FeedTypeOK, ClosedFor, Sockets, Connecting, Start, WsIs
  <2>5. QED
    BY <2>1, <2>2, <2>3, <2>4 DEF FeedInv
<1>2. ASSUME Dials PROVE Keeps
  <2>1. FeedTypeOK'
    BY <1>2 DEF FeedInv, FeedTypeOK, Dials, Opens, Retries, WsIs
  <2>2. handed' = handed /\ handed' <= lastSeen'
    BY <1>2 DEF FeedInv, FeedTypeOK, Dials, Opens, Retries, WsIs
  <2>3. ClosedFor'
    BY <1>2 DEF FeedInv, FeedTypeOK, ClosedFor, Dials, Opens, Retries, WsIs
  <2>4. Sockets'
    BY <1>2 DEF FeedInv, FeedTypeOK, ClosedFor, Sockets, Connecting, Dials, Opens, Retries, WsIs
  <2>5. QED
    BY <2>1, <2>2, <2>3, <2>4 DEF FeedInv
<1>3. ASSUME Subscribes PROVE Keeps
  <2>1. FeedTypeOK'
    BY <1>3 DEF FeedInv, FeedTypeOK, Subscribes, Retries, WsIs
  <2>2. handed' = handed /\ handed' <= lastSeen'
    BY <1>3 DEF FeedInv, FeedTypeOK, Subscribes, Retries, WsIs
  <2>3. ClosedFor'
    BY <1>3 DEF FeedInv, FeedTypeOK, ClosedFor, Subscribes, Retries, WsIs
  <2>4. Sockets'
    BY <1>3 DEF FeedInv, FeedTypeOK, ClosedFor, Sockets, Connecting, Subscribes, Retries, WsIs
  <2>5. QED
    BY <2>1, <2>2, <2>3, <2>4 DEF FeedInv
<1>4. ASSUME RetriesConnect PROVE Keeps
  <2>1. FeedTypeOK'
    BY <1>4 DEF FeedInv, FeedTypeOK, RetriesConnect, Attempts, WsIs
  <2>2. handed' = handed /\ handed' <= lastSeen'
    BY <1>4 DEF FeedInv, FeedTypeOK, RetriesConnect, Attempts, WsIs
  <2>3. ClosedFor'
    BY <1>4 DEF FeedInv, FeedTypeOK, ClosedFor, RetriesConnect, Attempts, WsIs
  <2>4. Sockets'
    BY <1>4 DEF FeedInv, FeedTypeOK, ClosedFor, Sockets, Connecting, RetriesConnect, Attempts, WsIs
  <2>5. QED
    BY <2>1, <2>2, <2>3, <2>4 DEF FeedInv
<1>5. ASSUME Joins PROVE Keeps
  <2>1. FeedTypeOK'
    BY <1>5 DEF FeedInv, FeedTypeOK, Joins
  <2>2. handed' = handed /\ handed' <= lastSeen'
    BY <1>5 DEF FeedInv, FeedTypeOK, Joins
  <2>3. ClosedFor'
    BY <1>5 DEF FeedInv, FeedTypeOK, ClosedFor, Joins
  <2>4. Sockets'
    BY <1>5 DEF FeedInv, FeedTypeOK, ClosedFor, Sockets, Connecting, Joins
  <2>5. QED
    BY <2>1, <2>2, <2>3, <2>4 DEF FeedInv
<1>6. ASSUME Loops PROVE Keeps
  <2>1. FeedTypeOK'
    BY <1>6 DEF FeedInv, FeedTypeOK, Loops, StopsReading, Reconnects, WsIs
  <2>2. handed' = handed /\ handed' <= lastSeen'
    BY <1>6 DEF FeedInv, FeedTypeOK, Loops, StopsReading, Reconnects, WsIs
  <2>3. ClosedFor'
    BY <1>6 DEF FeedInv, FeedTypeOK, ClosedFor, Loops, StopsReading, Reconnects, WsIs
  <2>4. Sockets'
    BY <1>6 DEF FeedInv, FeedTypeOK, ClosedFor, Sockets, Connecting, Loops, StopsReading, Reconnects, WsIs
  <2>5. QED
    BY <2>1, <2>2, <2>3, <2>4 DEF FeedInv
<1>7. ASSUME ReceivesOther PROVE Keeps
  <2>1. FeedTypeOK'
    BY <1>7 DEF FeedInv, FeedTypeOK, ReceivesOther
  <2>2. handed' = handed /\ handed' <= lastSeen'
    BY <1>7 DEF FeedInv, FeedTypeOK, ReceivesOther
  <2>3. ClosedFor'
    BY <1>7 DEF FeedInv, FeedTypeOK, ClosedFor, ReceivesOther
  <2>4. Sockets'
    BY <1>7 DEF FeedInv, FeedTypeOK, ClosedFor, Sockets, Connecting, ReceivesOther
  <2>5. QED
    BY <2>1, <2>2, <2>3, <2>4 DEF FeedInv
<1>8. ASSUME ReadFails PROVE Keeps
  <2>1. FeedTypeOK'
    BY <1>8 DEF FeedInv, FeedTypeOK, ReadFails, Reconnects, WsIs
  <2>2. handed' = handed /\ handed' <= lastSeen'
    BY <1>8 DEF FeedInv, FeedTypeOK, ReadFails, Reconnects, WsIs
  <2>3. ClosedFor'
    BY <1>8 DEF FeedInv, FeedTypeOK, ClosedFor, ReadFails, Reconnects, WsIs
  <2>4. Sockets'
    BY <1>8 DEF FeedInv, FeedTypeOK, ClosedFor, Sockets, Connecting, ReadFails, Reconnects, WsIs
  <2>5. QED
    BY <2>1, <2>2, <2>3, <2>4 DEF FeedInv
<1>9. ASSUME Consumes PROVE Keeps
  <2>1. FeedTypeOK'
    BY <1>9 DEF FeedInv, FeedTypeOK, Consumes
  <2>2. handed' = handed /\ handed' <= lastSeen'
    BY <1>9 DEF FeedInv, FeedTypeOK, Consumes
  <2>3. ClosedFor'
    BY <1>9 DEF FeedInv, FeedTypeOK, ClosedFor, Consumes
  <2>4. Sockets'
    BY <1>9 DEF FeedInv, FeedTypeOK, ClosedFor, Sockets, Connecting, Consumes
  <2>5. QED
    BY <2>1, <2>2, <2>3, <2>4 DEF FeedInv
<1>10. ASSUME Recloses PROVE Keeps
  <2>1. FeedTypeOK'
    BY <1>10 DEF FeedInv, FeedTypeOK, Recloses, WsIs
  <2>2. handed' = handed /\ handed' <= lastSeen'
    BY <1>10 DEF FeedInv, FeedTypeOK, Recloses, WsIs
  <2>3. ClosedFor'
    BY <1>10 DEF FeedInv, FeedTypeOK, ClosedFor, Recloses, WsIs
  <2>4. Sockets'
    BY <1>10 DEF FeedInv, FeedTypeOK, ClosedFor, Sockets, Connecting, Recloses, WsIs
  <2>5. QED
    BY <2>1, <2>2, <2>3, <2>4 DEF FeedInv
<1>11. ASSUME Redials PROVE Keeps
  <2>1. FeedTypeOK'
    BY <1>11 DEF FeedInv, FeedTypeOK, Redials, Opens, WsIs
  <2>2. handed' = handed /\ handed' <= lastSeen'
    BY <1>11 DEF FeedInv, FeedTypeOK, Redials, Opens, WsIs
  <2>3. ClosedFor'
    BY <1>11 DEF FeedInv, FeedTypeOK, ClosedFor, Redials, Opens, WsIs
  <2>4. Sockets'
    BY <1>11 DEF FeedInv, FeedTypeOK, ClosedFor, Sockets, Connecting, Redials, Opens, WsIs
  <2>5. QED
    BY <2>1, <2>2, <2>3, <2>4 DEF FeedInv
<1>12. ASSUME Resubscribes PROVE Keeps
  <2>1. FeedTypeOK'
    BY <1>12 DEF FeedInv, FeedTypeOK, Resubscribes, WsIs
  <2>2. handed' = handed /\ handed' <= lastSeen'
    BY <1>12 DEF FeedInv, FeedTypeOK, Resubscribes, WsIs
  <2>3. ClosedFor'
    BY <1>12 DEF FeedInv, FeedTypeOK, ClosedFor, Resubscribes, WsIs
  <2>4. Sockets'
    BY <1>12 DEF FeedInv, FeedTypeOK, ClosedFor, Sockets, Connecting, Resubscribes, WsIs
  <2>5. QED
    BY <2>1, <2>2, <2>3, <2>4 DEF FeedInv
<1>13. ASSUME RetriesRedial PROVE Keeps
  <2>1. FeedTypeOK'
    BY <1>13 DEF FeedInv, FeedTypeOK, RetriesRedial, WsIs
  <2>2. handed' = handed /\ handed' <= lastSeen'
    BY <1>13 DEF FeedInv, FeedTypeOK, RetriesRedial, WsIs
  <2>3. ClosedFor'
    BY <1>13 DEF FeedInv, FeedTypeOK, ClosedFor, RetriesRedial, WsIs
  <2>4. Sockets'
    BY <1>13 DEF FeedInv, FeedTypeOK, ClosedFor, Sockets, Connecting, RetriesRedial, WsIs
  <2>5. QED
    BY <2>1, <2>2, <2>3, <2>4 DEF FeedInv
<1>14. ASSUME Leaves PROVE Keeps
  <2>1. FeedTypeOK'
    BY <1>14, ClosedWs DEF FeedInv, FeedTypeOK, Leaves, AlreadyClosed, MarksClosed
  <2>2. handed' = handed /\ handed' <= lastSeen'
    BY <1>14 DEF FeedInv, FeedTypeOK, Leaves, AlreadyClosed, MarksClosed
  <2>3. ClosedFor'
    BY <1>14 DEF FeedInv, FeedTypeOK, ClosedFor, Leaves, AlreadyClosed, MarksClosed
  <2>4. Sockets'
    BY <1>14 DEF FeedInv, FeedTypeOK, ClosedFor, Sockets, Connecting, Leaves, AlreadyClosed, MarksClosed
  <2>5. QED
    BY <2>1, <2>2, <2>3, <2>4 DEF FeedInv
<1>15. ASSUME Shuts PROVE Keeps
  <2>1. FeedTypeOK'
    BY <1>15 DEF FeedInv, FeedTypeOK, Shuts
  <2>2. handed' = handed /\ handed' <= lastSeen'
    BY <1>15 DEF FeedInv, FeedTypeOK, Shuts
  <2>3. ClosedFor'
    BY <1>15 DEF FeedInv, FeedTypeOK, ClosedFor, Shuts
  <2>4. Sockets'
    BY <1>15 DEF FeedInv, FeedTypeOK, ClosedFor, Sockets, Connecting, Shuts
  <2>5. QED
    BY <2>1, <2>2, <2>3, <2>4 DEF FeedInv
<1>16. ASSUME AskStop PROVE Keeps
  <2>1. FeedTypeOK'
    BY <1>16, ClosedWs DEF FeedInv, FeedTypeOK, AskStop, AlreadyClosed, MarksClosed
  <2>2. handed' = handed /\ handed' <= lastSeen'
    BY <1>16 DEF FeedInv, FeedTypeOK, AskStop, AlreadyClosed, MarksClosed
  <2>3. ClosedFor'
    BY <1>16 DEF FeedInv, FeedTypeOK, ClosedFor, AskStop, AlreadyClosed, MarksClosed
  <2>4. Sockets'
    BY <1>16 DEF FeedInv, FeedTypeOK, ClosedFor, Sockets, Connecting, AskStop, AlreadyClosed, MarksClosed
  <2>5. QED
    BY <2>1, <2>2, <2>3, <2>4 DEF FeedInv
<1>17. ASSUME StopCloses PROVE Keeps
  <2>1. FeedTypeOK'
    BY <1>17 DEF FeedInv, FeedTypeOK, StopCloses
  <2>2. handed' = handed /\ handed' <= lastSeen'
    BY <1>17 DEF FeedInv, FeedTypeOK, StopCloses
  <2>3. ClosedFor'
    BY <1>17 DEF FeedInv, FeedTypeOK, ClosedFor, StopCloses
  <2>4. Sockets'
    BY <1>17 DEF FeedInv, FeedTypeOK, ClosedFor, Sockets, Connecting, StopCloses
  <2>5. QED
    BY <2>1, <2>2, <2>3, <2>4 DEF FeedInv
<1>18. ASSUME StopForgets PROVE Keeps
  <2>1. FeedTypeOK'
    BY <1>18 DEF FeedInv, FeedTypeOK, StopForgets
  <2>2. handed' = handed /\ handed' <= lastSeen'
    BY <1>18 DEF FeedInv, FeedTypeOK, StopForgets
  <2>3. ClosedFor'
    BY <1>18 DEF FeedInv, FeedTypeOK, ClosedFor, StopForgets
  <2>4. Sockets'
    BY <1>18 DEF FeedInv, FeedTypeOK, ClosedFor, Sockets, Connecting, StopForgets
  <2>5. QED
    BY <2>1, <2>2, <2>3, <2>4 DEF FeedInv
<1>19. ASSUME Drops PROVE Keeps
  <2>1. FeedTypeOK'
    BY <1>19 DEF FeedInv, FeedTypeOK, Drops
  <2>2. handed' = handed /\ handed' <= lastSeen'
    BY <1>19 DEF FeedInv, FeedTypeOK, Drops
  <2>3. ClosedFor'
    BY <1>19 DEF FeedInv, FeedTypeOK, ClosedFor, Drops
  <2>4. Sockets'
    BY <1>19 DEF FeedInv, FeedTypeOK, ClosedFor, Sockets, Connecting, Drops
  <2>5. QED
    BY <2>1, <2>2, <2>3, <2>4 DEF FeedInv
<1>20. ASSUME NEW ts \in TickTimes, NEW wanted \in BOOLEAN, Receives(ts, wanted) PROVE Keeps
  <2>1. FeedTypeOK'
    BY <1>20 DEF FeedInv, FeedTypeOK, Receives, IsNews, Serves
  <2>2. handed' <= lastSeen' /\ (handed' # handed => handed' > handed /\ stopper = "none")
    BY <1>20 DEF FeedInv, FeedTypeOK, ClosedFor, Receives, IsNews, Serves
  <2>3. ClosedFor'
    BY <1>20 DEF FeedInv, FeedTypeOK, ClosedFor, Receives, IsNews, Serves
  <2>4. Sockets'
    BY <1>20 DEF FeedInv, FeedTypeOK, ClosedFor, Sockets, Connecting, Receives, IsNews, Serves
  <2>5. QED
    BY <2>1, <2>2, <2>3, <2>4 DEF FeedInv
<1>21. ASSUME UNCHANGED feedVars PROVE Keeps
  BY <1>21 DEF FeedInv, FeedTypeOK, ClosedFor, Sockets, feedVars
<1>22. QED
  BY <1>1, <1>2, <1>3, <1>4, <1>5, <1>6, <1>7, <1>8, <1>9, <1>10, <1>11, <1>12, <1>13, <1>14, <1>15, <1>16, <1>17, <1>18, <1>19, <1>20, <1>21 DEF FeedNext

\* Updates come in order and none after the stop, and the sockets are shut in the end but
\* for the two ways in which the code loses one.
THEOREM FeedStaysOrderly == FeedSpec => FeedIsOrderly
<1>1. FeedInv /\ [FeedNext]_feedVars => FeedInv'
  BY FeedStep
<1>2. FeedInv => SocketsAreShut
  BY DEF FeedInv, FeedTypeOK, ClosedFor, Sockets, SocketsAreShut, Connecting
<1>3. FeedInv /\ [FeedNext]_feedVars => [/\ handed' # handed => handed' > handed /\ stopper = "none"
                                        /\ SocketsAreShut']_feedVars
  <2> SUFFICES ASSUME FeedInv, [FeedNext]_feedVars
               PROVE  (handed' # handed => handed' > handed /\ stopper = "none") /\ SocketsAreShut'
    OBVIOUS
  <2>1. FeedInv' /\ (handed' # handed => handed' > handed /\ stopper = "none")
    BY FeedStep
  <2>2. FeedInv' => SocketsAreShut'
    BY DEF FeedInv, FeedTypeOK, ClosedFor, Sockets, SocketsAreShut, Connecting
  <2>3. QED
    BY <2>1, <2>2
<1>4. QED
  BY FeedStarts, <1>1, <1>3, PTL DEF FeedSpec, FeedIsOrderly
=============================================================================
