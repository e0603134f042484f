-------------------------- MODULE GridV2StateProofs --------------------------
(***************************************************************************)
(* Proofs about GridV2State, for every configuration and every set of      *)
(* order ids, references, fill prices, quantities and timestamps.          *)
(***************************************************************************)
EXTENDS MCGridV2State, FiniteSetTheorems, WellFoundedInduction, TLAPS

-----------------------------------------------------------------------------
\* Lemmas on finite sets of prices.

\* A non-empty finite set of integers has a least and a greatest element, so
\* window[0] and window[-1] of the code's tuples are prices of the window.
LEMMA FiniteIntBounds ==
  ASSUME NEW S \in SUBSET Int, IsFiniteSet(S), S # {}
  PROVE  \E lo, hi \in S : \A y \in S : lo <= y /\ y <= hi
<1> DEFINE Bounded(U) == \E lo, hi \in U : \A y \in U : lo <= y /\ y <= hi
           Bad == {U \in SUBSET S : U # {} /\ ~ Bounded(U)}
<1>1. SUFFICES ASSUME Bad # {} PROVE FALSE
  OBVIOUS
<1>2. Bad \subseteq FiniteSubsetsOf(S)
  BY FS_Subset DEF FiniteSubsetsOf
<1>3. IsWellFoundedOn(StrictSubsetOrdering(S), FiniteSubsetsOf(S))
  BY FS_StrictSubsetOrderingWellFounded
<1>4. PICK U \in Bad : \A V \in Bad : ~ (<<V, U>> \in StrictSubsetOrdering(S))
  BY <1>1, <1>2, <1>3, WFMin
<1>5. PICK x \in U : TRUE
  OBVIOUS
<1> DEFINE V == U \ {x}
<1>6. V # {}
  BY <1>5
<1>7. <<V, U>> \in StrictSubsetOrdering(S)
  BY <1>5 DEF StrictSubsetOrdering
<1>8. PICK lo, hi \in V : \A y \in V : lo <= y /\ y <= hi
  BY <1>4, <1>6, <1>7
<1> DEFINE least    == IF x < lo THEN x ELSE lo
           greatest == IF x > hi THEN x ELSE hi
<1>9. /\ least \in U /\ greatest \in U
      /\ \A y \in U : least <= y /\ y <= greatest
  <2>1. lo \in U /\ hi \in U /\ x \in U /\ U \subseteq Int
    BY <1>8
  <2>2. ASSUME NEW y \in U PROVE least <= y /\ y <= greatest
    <3>1. CASE y = x
      BY <2>1, <3>1
    <3>2. CASE y # x
      <4>1. y \in V /\ y \in Int /\ x \in Int /\ lo \in Int /\ hi \in Int
        BY <2>1, <3>2
      <4>2. lo <= y /\ y <= hi
        BY <1>8, <4>1
      <4> HIDE DEF V, Bad
      <4> QED BY <4>1, <4>2
    <3> QED BY <3>1, <3>2
  <2> QED BY <2>1, <2>2
<1>10. Bounded(U)
  BY <1>9
<1> QED BY <1>4, <1>10

\* Farthest and Nearest return a price of the side they are given.
LEMMA FarthestNearest ==
  ASSUME NEW side \in OrderSide, NEW S \in SUBSET Int, IsFiniteSet(S), S # {}
  PROVE  Farthest(side, S) \in S /\ Nearest(side, S) \in S
<1>1. PICK lo, hi \in S : \A y \in S : lo <= y /\ y <= hi
  BY FiniteIntBounds
<1>2. Min(S) \in S
  BY <1>1 DEF Min
<1>3. Max(S) \in S
  BY <1>1 DEF Max
<1> QED BY <1>2, <1>3 DEF Farthest, Nearest

\* The step is a positive number of ticks.
LEMMA GridStepType ==
  ASSUME NEW reference \in Nat
  PROVE  /\ StepCeil(reference) \in Int
         /\ GridStep(reference) \in Int /\ GridStep(reference) >= 1
<1>1. reference * StepNum + StepDen - 1 \in Int /\ StepDen \in Nat \ {0}
  BY ConfigAssumption
<1>2. StepCeil(reference) \in Int
  BY <1>1 DEF StepCeil
<1> QED BY <1>2 DEF GridStep, Larger

LEMMA OutwardType ==
  ASSUME NEW side \in OrderSide
  PROVE  Outward(side) \in {-1, 1} /\ Opposite(side) \in OrderSide /\ Opposite(side) # side
BY DEF OrderSide, Outward, Opposite

\* A window type as the invariant needs it: finite sides of integer prices,
\* at most LevelsPerSide on each.
WindowOK(w) ==
  /\ w \in [OrderSide -> SUBSET Int]
  /\ \A side \in OrderSide :
       IsFiniteSet(w[side]) /\ Cardinality(w[side]) <= LevelsPerSide

\* The symmetric window built around a reference is within bounds.
LEMMA BuildWindowOK ==
  ASSUME NEW reference \in Nat
  PROVE  WindowOK(BuildWindow(reference))
<1> DEFINE W == BuildWindow(reference)
           N == LevelsPerSide
<1>0. N \in Nat
  BY ConfigAssumption
<1>1. ASSUME NEW side \in OrderSide
      PROVE  /\ W[side] \in SUBSET Int
             /\ IsFiniteSet(W[side]) /\ Cardinality(W[side]) <= N
  <2> DEFINE step == GridStep(reference)
             f == [i \in 1..N |-> reference + Outward(side) * step * i]
  <2>1. W[side] = {f[i] : i \in 1..N}
    BY <1>1 DEF BuildWindow
  <2>2. step \in Int /\ Outward(side) \in Int
    BY GridStepType, OutwardType
  <2>3. \A i \in 1..N : f[i] \in Int
    BY <2>2, <1>0
  <2>4. f \in Surjection(1..N, W[side])
    BY <2>1 DEF Surjection
  <2>5. IsFiniteSet(1..N) /\ Cardinality(1..N) = N
    BY <1>0, FS_Interval
  <2> QED BY <2>1, <2>3, <2>4, <2>5, FS_Surjection
<1> QED BY <1>1 DEF WindowOK, BuildWindow

LEMMA EmptyWindowOK == WindowOK(EmptyWindow)
BY FS_EmptySet, ConfigAssumption DEF WindowOK, EmptyWindow

-----------------------------------------------------------------------------
\* The inductive invariant.

\* The lots, their exits and the branch mode.
LotsOK ==
  /\ mode \in BranchMode
  /\ OpenIds \subseteq Ids /\ openLots \in [OpenIds -> Lot]
  /\ IsFiniteSet(OpenIds)
  /\ closedLots \subseteq Ids /\ closedLots \cap OpenIds = {}
  /\ DOMAIN exits \subseteq Ids /\ exits \in [DOMAIN exits -> ExitOrder]
  /\ PairedExits /\ BranchConsistent /\ NoOrphanExit /\ BranchHoldsInventory

FlagsOK ==
  /\ ref \in Nat
  /\ emergencyStopped \in BOOLEAN
  /\ lastRecenterTs \in Nat \cup {Never}

IInv == LotsOK /\ FlagsOK /\ WindowOK(window) /\ intents \in Intents

LEMMA NoIntentsType == NoIntents \in Intents
BY DEF NoIntents, Intents

LEMMA AllEntriesType ==
  ASSUME NEW w \in [OrderSide -> SUBSET Int]
  PROVE  AllEntries(w) \in SUBSET Entry
BY DEF AllEntries, EntriesAt, Entry

LEMMA EntriesAtType ==
  ASSUME NEW side \in OrderSide, NEW S \in SUBSET Int
  PROVE  EntriesAt(side, S) \in SUBSET Entry
BY DEF EntriesAt, Entry

\* Adding one price to a finite side of a window.
LEMMA AddLevel ==
  ASSUME NEW S, IsFiniteSet(S), NEW p
  PROVE  /\ IsFiniteSet(S \cup {p})
         /\ Cardinality(S \cup {p}) <= Cardinality(S) + 1
         /\ Cardinality(S) \in Nat
<1>1. Cardinality(S) \in Nat
  BY FS_CardinalityType
<1>2. /\ IsFiniteSet(S \cup {p})
      /\ Cardinality(S \cup {p}) = IF p \in S THEN Cardinality(S) ELSE Cardinality(S) + 1
  BY FS_AddElement
<1> QED BY <1>1, <1>2

\* Rolling keeps the fill side within bounds and trims the other side.
LEMMA RollOK ==
  ASSUME WindowOK(window), ref \in Nat,
         NEW side \in OrderSide, NEW price \in Int
  PROVE  LET roll == Roll(side, price)
         IN  /\ roll.same \in SUBSET Int /\ IsFiniteSet(roll.same)
             /\ Cardinality(roll.same) <= LevelsPerSide
             /\ roll.trimmed \subseteq window[Opposite(side)]
             /\ roll.placed \in SUBSET Int
<1> DEFINE remaining == window[side] \ {price}
           opposite  == window[Opposite(side)]
           level == (IF remaining = {} THEN price ELSE Farthest(side, remaining))
                      + Outward(side) * GridStep(ref)
           roll == Roll(side, price)
<1>1. /\ remaining \in SUBSET Int /\ IsFiniteSet(remaining)
      /\ Cardinality(remaining) <= LevelsPerSide
      /\ Cardinality(remaining) \in Nat /\ LevelsPerSide \in Nat
  <2>1. /\ window[side] \in SUBSET Int /\ IsFiniteSet(window[side])
        /\ Cardinality(window[side]) <= LevelsPerSide
    BY DEF WindowOK
  <2>2. IsFiniteSet(remaining) /\ Cardinality(remaining) <= Cardinality(window[side])
    BY <2>1, FS_Subset
  <2>3. /\ Cardinality(remaining) \in Nat /\ Cardinality(window[side]) \in Nat
        /\ LevelsPerSide \in Nat
    BY <2>1, <2>2, FS_CardinalityType, ConfigAssumption
  <2> QED BY <2>1, <2>2, <2>3
<1>2. level \in Int
  <2>1. GridStep(ref) \in Int /\ Outward(side) \in {-1, 1}
    BY GridStepType, OutwardType
  <2>2. (IF remaining = {} THEN price ELSE Farthest(side, remaining)) \in Int
    BY <1>1, FarthestNearest
  <2> HIDE DEF remaining
  <2> QED BY <2>1, <2>2
<1>3. /\ roll.same = remaining \/ (roll.same = remaining \cup {level} /\ HasRoom(remaining))
      /\ roll.placed \in {{}, {level}}
      /\ roll.trimmed \in {{}, {Farthest(Opposite(side), opposite)}}
      /\ opposite = {} => roll.trimmed = {}
  BY DEF Roll
<1>4. opposite # {} => Farthest(Opposite(side), opposite) \in opposite
  BY OutwardType, FarthestNearest DEF WindowOK
<1>5. CASE roll.same = remaining
  <2> HIDE DEF remaining, opposite, level, roll
  <2> QED BY <1>1, <1>2, <1>3, <1>4, <1>5 DEF roll, opposite
<1>6. CASE roll.same = remaining \cup {level} /\ HasRoom(remaining)
  <2>1. IsFiniteSet(roll.same) /\ Cardinality(roll.same) <= Cardinality(remaining) + 1
    <3> HIDE DEF remaining, opposite, level, roll
    <3>1. /\ IsFiniteSet(remaining \cup {level})
          /\ Cardinality(remaining \cup {level}) <= Cardinality(remaining) + 1
      BY <1>1, AddLevel
    <3> QED BY <1>6, <3>1
  <2>2. Cardinality(remaining) < LevelsPerSide
    BY <1>6 DEF HasRoom
  <2>3. Cardinality(roll.same) \in Nat
    BY <2>1, FS_CardinalityType
  <2> HIDE DEF remaining, opposite, level, roll
  <2> QED BY <1>1, <1>2, <1>3, <1>4, <1>6, <2>1, <2>2, <2>3 DEF roll, opposite
<1> QED BY <1>3, <1>5, <1>6

\* Opening a fresh lot with its exit in a compatible branch.
LEMMA LotOpened ==
  ASSUME LotsOK,
         NEW id \in Ids, NEW side \in OrderSide, NEW price \in Nat, NEW qty \in Nat,
         NEW exitPrice \in Int,
         id \notin OpenIds \cup closedLots,
         mode \in {"FLAT", LotSideOf(side)},
         mode' = LotSideOf(side),
         openLots' = With(openLots, id, [side |-> LotSideOf(side), price |-> price, qty |-> qty]),
         exits' = With(exits, id, [status |-> "OPEN", price |-> exitPrice]),
         closedLots' = closedLots
  PROVE  LotsOK'
<1> DEFINE lot == [side |-> LotSideOf(side), price |-> price, qty |-> qty]
           exit == [status |-> "OPEN", price |-> exitPrice]
<1>1. lot \in Lot /\ exit \in ExitOrder /\ LotSideOf(side) \in LotSide
  BY DEF Lot, ExitOrder, LotSideOf, LotSide
<1>2. /\ DOMAIN openLots' = OpenIds \cup {id}
      /\ openLots'[id] = lot
      /\ \A i \in OpenIds : openLots'[i] = openLots[i]
  BY DEF With, OpenIds
<1>3. /\ DOMAIN exits' = DOMAIN exits \cup {id}
      /\ exits'[id] = exit
      /\ \A i \in DOMAIN exits : i # id => exits'[i] = exits[i]
  BY DEF With
<1>4. OpenIds' = OpenIds \cup {id}
  BY <1>2 DEF OpenIds
<1>5. openLots' \in [OpenIds' -> Lot]
  <2>1. openLots' = [i \in OpenIds \cup {id} |-> IF i = id THEN lot ELSE openLots[i]]
    BY DEF With, OpenIds
  <2>2. \A i \in OpenIds : openLots[i] \in Lot
    BY DEF LotsOK
  <2> QED BY <1>1, <1>4, <2>1, <2>2
<1>6. exits' \in [DOMAIN exits' -> ExitOrder]
  <2>1. exits' = [i \in DOMAIN exits \cup {id} |-> IF i = id THEN exit ELSE exits[i]]
    BY DEF With
  <2>2. \A i \in DOMAIN exits : exits[i] \in ExitOrder
    BY DEF LotsOK
  <2> QED BY <1>1, <1>3, <2>1, <2>2
<1>7. PairedExits'
  BY <1>3, <1>4 DEF LotsOK, PairedExits
<1>8. BranchConsistent'
  <2>1. \A i \in OpenIds : openLots[i].side = mode /\ openLots[i].side \in LotSide
    BY DEF LotsOK, BranchConsistent, Lot
  <2>2. OpenIds # {} => mode = LotSideOf(side)
    BY <2>1 DEF LotSide
  <2> QED BY <1>2, <1>4, <2>1, <2>2 DEF BranchConsistent
<1>9. NoOrphanExit'
  BY <1>3, <1>4 DEF LotsOK, NoOrphanExit
<1>10. BranchHoldsInventory'
  BY <1>4 DEF BranchHoldsInventory
<1>11. mode' \in BranchMode
  BY <1>1 DEF LotSide, BranchMode
<1>12. IsFiniteSet(OpenIds')
  BY <1>4, FS_AddElement DEF LotsOK
<1> QED BY <1>3, <1>4, <1>5, <1>6, <1>7, <1>8, <1>9, <1>10, <1>11, <1>12 DEF LotsOK

\* Closing one open lot together with its exit.
LEMMA LotClosed ==
  ASSUME LotsOK,
         NEW lot \in OpenIds,
         mode' = ModeAfterClosing(lot),
         openLots' = Without(openLots, lot),
         closedLots' = closedLots \cup {lot},
         DOMAIN exits' = DOMAIN exits,
         exits' \in [DOMAIN exits -> ExitOrder],
         exits'[lot].status # "OPEN",
         \A i \in DOMAIN exits : i # lot => exits'[i] = exits[i]
  PROVE  LotsOK'
<1>1. /\ OpenIds' = OpenIds \ {lot}
      /\ \A i \in OpenIds' : openLots'[i] = openLots[i]
  BY DEF Without, OpenIds
<1>2. openLots' \in [OpenIds' -> Lot]
  <2>1. openLots' = [i \in OpenIds \ {lot} |-> openLots[i]]
    BY DEF Without, OpenIds
  <2>2. \A i \in OpenIds : openLots[i] \in Lot
    BY DEF LotsOK
  <2> QED BY <1>1, <2>1, <2>2
<1>3. PairedExits' /\ NoOrphanExit'
  BY <1>1 DEF LotsOK, PairedExits, NoOrphanExit
<1>4. BranchConsistent' /\ BranchHoldsInventory' /\ mode' \in BranchMode
  BY <1>1 DEF LotsOK, BranchConsistent, BranchHoldsInventory, ModeAfterClosing, BranchMode
<1>5. lot \in Ids
  BY DEF LotsOK
<1>6. IsFiniteSet(OpenIds')
  BY <1>1, FS_Subset DEF LotsOK
<1> QED BY <1>1, <1>2, <1>3, <1>4, <1>5, <1>6 DEF LotsOK

LEMMA SettledType ==
  ASSUME NEW status \in {"FILLED", "CANCELED"}
  PROVE  Settled(status) \in ExitOrder /\ Settled(status).status = status
BY DEF Settled, ExitOrder

\* A window two of whose sides are given.
LEMMA TwoSides ==
  ASSUME WindowOK(window), NEW side \in OrderSide,
         NEW own \in SUBSET Int, IsFiniteSet(own), Cardinality(own) <= LevelsPerSide,
         NEW other, other \subseteq window[Opposite(side)],
         NEW w, w = [window EXCEPT ![side] = own, ![Opposite(side)] = other]
  PROVE  WindowOK(w)
<1>1. Opposite(side) \in OrderSide /\ Opposite(side) # side
  BY OutwardType
<1>2. w[side] = own /\ w[Opposite(side)] = other
  BY <1>1 DEF WindowOK
<1>3. \A s \in OrderSide : s = side \/ s = Opposite(side)
  BY DEF OrderSide, Opposite
<1>4. /\ other \in SUBSET Int /\ IsFiniteSet(other)
      /\ Cardinality(other) <= LevelsPerSide
  <2>1. /\ window[Opposite(side)] \in SUBSET Int /\ IsFiniteSet(window[Opposite(side)])
        /\ Cardinality(window[Opposite(side)]) <= LevelsPerSide
    BY <1>1 DEF WindowOK
  <2>2. IsFiniteSet(other) /\ Cardinality(other) <= Cardinality(window[Opposite(side)])
    BY <2>1, FS_Subset
  <2>3. /\ Cardinality(other) \in Nat /\ Cardinality(window[Opposite(side)]) \in Nat
        /\ LevelsPerSide \in Nat
    BY <2>1, <2>2, FS_CardinalityType, ConfigAssumption
  <2> QED BY <2>1, <2>2, <2>3
<1>5. w \in [OrderSide -> SUBSET Int]
  BY <1>1, <1>4 DEF WindowOK
<1> QED BY <1>2, <1>3, <1>4, <1>5 DEF WindowOK

-----------------------------------------------------------------------------
\* One lemma per action: each preserves the invariant.

LEMMA ExecuteEntryStep ==
  ASSUME IInv, NEW id \in Ids, NEW side \in OrderSide,
         NEW price \in FillPrices, NEW qty \in Quantities,
         ExecuteEntry(id, side, price, qty)
  PROVE  IInv'
<1> DEFINE roll == Roll(side, price)
<1>1. price \in Nat /\ qty \in Nat
  BY InputAssumption
<1>2. ExitPrice(side, price) \in Int
  BY <1>1, GridStepType, OutwardType DEF ExitPrice
<1>3. LotsOK'
  BY <1>1, <1>2, LotOpened DEF IInv, ExecuteEntry, EntryAdmissible, SeenEntry, BranchCompatible
<1>4. /\ roll.same \in SUBSET Int /\ IsFiniteSet(roll.same)
      /\ Cardinality(roll.same) <= LevelsPerSide
      /\ roll.placed \in SUBSET Int
  BY <1>1, RollOK DEF IInv, FlagsOK
<1>5. WindowOK(window')
  BY <1>4, TwoSides DEF IInv, ExecuteEntry, WindowAfterEntry
<1>6. intents' \in Intents
  <2>1. EntriesAt(side, roll.placed) \in SUBSET Entry
    BY <1>4, EntriesAtType
  <2>2. EntriesAt(Opposite(side), window[Opposite(side)]) \in SUBSET Entry
    BY OutwardType, EntriesAtType DEF IInv, WindowOK
  <2> QED BY <2>1, <2>2 DEF ExecuteEntry, NoIntents, Intents
<1>7. FlagsOK'
  BY DEF IInv, FlagsOK, ExecuteEntry
<1> QED BY <1>3, <1>5, <1>6, <1>7 DEF IInv

LEMMA ExecuteNetoffStep ==
  ASSUME IInv, NEW id \in Ids, NEW side \in OrderSide,
         NEW price \in FillPrices, NEW qty \in Quantities,
         ExecuteNetoff(id, side, price, qty)
  PROVE  IInv'
<1> DEFINE roll == Roll(side, price)
           paired(lot) == {i \in {lot} \cap DOMAIN exits : exits[i].status = "OPEN"}
<1>1. price \in Nat
  BY InputAssumption
<1>2. PICK lot \in ClosestLots(price) :
        /\ openLots' = Without(openLots, lot)
        /\ closedLots' = closedLots \cup {lot}
        /\ exits' = [i \in DOMAIN exits |->
                       IF i \in paired(lot) THEN Settled("CANCELED") ELSE exits[i]]
        /\ mode' = ModeAfterClosing(lot)
        /\ window' = [window EXCEPT ![side] = roll.same,
                                    ![Opposite(side)] = @ \ roll.trimmed]
        /\ intents' = [NoIntents EXCEPT
             !.cancelExit = paired(lot),
             !.placeEntry = EntriesAt(side, roll.placed),
             !.cancelEntry = EntriesAt(Opposite(side), roll.trimmed)]
  BY DEF ExecuteNetoff
<1>3. lot \in OpenIds /\ lot \in Ids
  BY <1>2 DEF ClosestLots, IInv, LotsOK
<1>4. LotsOK'
  <2>1. lot \in DOMAIN exits /\ lot \in paired(lot)
    BY <1>3 DEF IInv, LotsOK, PairedExits
  <2>2. /\ DOMAIN exits' = DOMAIN exits
        /\ exits'[lot].status # "OPEN"
        /\ \A i \in DOMAIN exits : i # lot => exits'[i] = exits[i]
    BY <1>2, <2>1, SettledType
  <2>3. exits' \in [DOMAIN exits -> ExitOrder]
    BY <1>2, SettledType DEF IInv, LotsOK
  <2> QED BY <1>2, <1>3, <2>2, <2>3, LotClosed DEF IInv
<1>5. /\ roll.same \in SUBSET Int /\ IsFiniteSet(roll.same)
      /\ Cardinality(roll.same) <= LevelsPerSide
      /\ roll.trimmed \subseteq window[Opposite(side)]
      /\ roll.placed \in SUBSET Int
  BY <1>1, RollOK DEF IInv, FlagsOK
<1>6. WindowOK(window')
  <2>1. window[Opposite(side)] \ roll.trimmed \subseteq window[Opposite(side)]
    OBVIOUS
  <2>2. window' = [window EXCEPT ![side] = roll.same,
                     ![Opposite(side)] = window[Opposite(side)] \ roll.trimmed]
    BY <1>2, OutwardType DEF IInv, WindowOK
  <2> QED BY <1>5, <2>1, <2>2, TwoSides DEF IInv
<1>7. intents' \in Intents
  <2>1. EntriesAt(side, roll.placed) \in SUBSET Entry
    BY <1>5, EntriesAtType
  <2>2. EntriesAt(Opposite(side), roll.trimmed) \in SUBSET Entry
    BY <1>5, OutwardType, EntriesAtType DEF IInv, WindowOK
  <2>3. paired(lot) \in SUBSET Ids
    BY <1>3
  <2> QED BY <1>2, <2>1, <2>2, <2>3 DEF NoIntents, Intents
<1>8. FlagsOK'
  BY DEF IInv, FlagsOK, ExecuteNetoff
<1> QED BY <1>4, <1>6, <1>7, <1>8 DEF IInv

\* EXIT_RESTORE finds at most one price.
LEMMA RestoredLevelOK ==
  ASSUME WindowOK(window), ref \in Nat, NEW side \in OrderSide, NEW occupied
  PROVE  \E x \in Int : RestoredLevel(side, occupied) \subseteq {x}
<1> DEFINE own   == window[side]
           step  == GridStep(ref)
           first == IF own = {} THEN ref + Outward(side) * step
                                ELSE Nearest(side, own) - Outward(side) * step
           range == {first + Outward(side) * step * k : k \in 0..(MaxLevels + 2)}
           slots == range \ occupied
           f     == [k \in 0..(MaxLevels + 2) |-> first + Outward(side) * step * k]
<1>1. step \in Int /\ Outward(side) \in Int
  BY GridStepType, OutwardType
<1>2. own # {} => Nearest(side, own) \in Int
  BY FarthestNearest DEF WindowOK
<1>3. first \in Int
  <2> HIDE DEF own, step
  <2> QED BY <1>1, <1>2
<1>4. range \in SUBSET Int /\ IsFiniteSet(range)
  <2>1. \A k \in 0..(MaxLevels + 2) : f[k] \in Int
    <3> HIDE DEF first, step
    <3> QED BY <1>1, <1>3
  <2>2. f \in Surjection(0..(MaxLevels + 2), range)
    <3> HIDE DEF first, step
    <3> QED BY DEF Surjection
  <2>3. IsFiniteSet(0..(MaxLevels + 2))
    BY FS_Interval, ConfigAssumption
  <2> QED BY <2>1, <2>2, <2>3, FS_Surjection
<1>5. slots \in SUBSET Int /\ IsFiniteSet(slots)
  BY <1>4, FS_Subset
<1>6. CASE slots = {}
  BY <1>6, 0 \in Int DEF RestoredLevel
<1>7. CASE slots # {}
  <2>1. RestoredLevel(side, occupied) = {Nearest(side, slots)}
    BY <1>7 DEF RestoredLevel
  <2>2. Nearest(side, slots) \in Int
    BY <1>5, <1>7, FarthestNearest
  <2> QED BY <2>1, <2>2
<1> QED BY <1>6, <1>7

LEMMA ShiftedLevelOK ==
  ASSUME WindowOK(window), ref \in Nat, NEW side \in OrderSide, NEW occupied,
         window[side] # {}
  PROVE  \E x \in Int : ShiftedLevel(side, occupied) \subseteq {x}
<1> DEFINE level == Nearest(side, window[side]) - Outward(side) * GridStep(ref)
<1>1. GridStep(ref) \in Int /\ Outward(side) \in Int
  BY GridStepType, OutwardType
<1>2. Nearest(side, window[side]) \in Int
  BY FarthestNearest DEF WindowOK
<1>3. level \in Int
  BY <1>1, <1>2
<1>4. ShiftedLevel(side, occupied) \subseteq {level}
  BY DEF ShiftedLevel
<1> QED BY <1>3, <1>4

\* A full side stays full when it drops a level and gains one.
LEMMA SwapLevel ==
  ASSUME NEW own, IsFiniteSet(own), NEW N \in Nat, Cardinality(own) <= N,
         NEW gone \in own, NEW x
  PROVE  /\ IsFiniteSet((own \ {gone}) \cup {x})
         /\ Cardinality((own \ {gone}) \cup {x}) <= N
<1>1. /\ IsFiniteSet(own \ {gone})
      /\ Cardinality(own \ {gone}) = Cardinality(own) - 1
  BY FS_RemoveElement
<1>2. Cardinality(own) \in Nat /\ Cardinality(own \ {gone}) \in Nat
  BY <1>1, FS_CardinalityType
<1>3. /\ IsFiniteSet((own \ {gone}) \cup {x})
      /\ Cardinality((own \ {gone}) \cup {x}) <= Cardinality(own \ {gone}) + 1
  BY <1>1, AddLevel
<1>4. Cardinality((own \ {gone}) \cup {x}) \in Nat
  BY <1>3, FS_CardinalityType
<1> QED BY <1>1, <1>2, <1>3, <1>4

\* The window that an exit restores stays within bounds.
LEMMA RestoreOK ==
  ASSUME IInv, NEW lotId, NEW ts, NEW exitsAfter,
         RestoreEntry(lotId, ts, exitsAfter)
  PROVE  WindowOK(window') /\ intents' \in Intents
<1> DEFINE side     == IF mode = "LONG" THEN "BUY" ELSE "SELL"
           own      == window[side]
           occupied == OpenExitPrices(exitsAfter) \cup window["BUY"] \cup window["SELL"]
           headroom == Larger(0, MaxLevels - Cardinality(OpenIds \ {lotId}))
           short    == Cardinality(own) < Smaller(LevelsPerSide, headroom)
           placed   == IF headroom = 0 THEN {}
                       ELSE IF short THEN RestoredLevel(side, occupied)
                       ELSE IF own # {} THEN ShiftedLevel(side, occupied) ELSE {}
           dropped  == IF short \/ placed = {} THEN {} ELSE {Farthest(side, own)}
           after    == (own \ dropped) \cup placed
<1>1. /\ window' = [window EXCEPT ![side] = (@ \ dropped) \cup placed]
      /\ intents' = [NoIntents EXCEPT !.cancelEntry = EntriesAt(side, dropped),
                                      !.placeEntry = EntriesAt(side, placed)]
  BY DEF RestoreEntry
<1>2. side \in OrderSide
  BY DEF OrderSide
<1>3. /\ own \in SUBSET Int /\ IsFiniteSet(own)
      /\ Cardinality(own) <= LevelsPerSide
  BY <1>2 DEF IInv, WindowOK
<1>4. Cardinality(own) \in Nat /\ LevelsPerSide \in Nat
  BY <1>3, FS_CardinalityType, ConfigAssumption
<1>5. short => Cardinality(own) < LevelsPerSide
  <2>1. IsFiniteSet(OpenIds \ {lotId})
    BY FS_Subset DEF IInv, LotsOK
  <2>2. Cardinality(OpenIds \ {lotId}) \in Nat
    BY <2>1, FS_CardinalityType
  <2>3. headroom \in Int
    BY <2>2, ConfigAssumption DEF Larger
  <2> HIDE DEF headroom, own
  <2> QED BY <1>4, <2>3 DEF Smaller
<1>6. \E x \in Int : placed \subseteq {x}
  <2>1. WindowOK(window) /\ ref \in Nat
    BY DEF IInv, FlagsOK
  <2>2. \E x \in Int : RestoredLevel(side, occupied) \subseteq {x}
    BY <1>2, <2>1, RestoredLevelOK
  <2>3. own # {} => \E x \in Int : ShiftedLevel(side, occupied) \subseteq {x}
    BY <1>2, <2>1, ShiftedLevelOK
  <2>4. \E x \in Int : {} \subseteq {x}
    BY 0 \in Int
  <2>5. \/ placed = {}
        \/ placed = RestoredLevel(side, occupied)
        \/ own # {} /\ placed = ShiftedLevel(side, occupied)
    OBVIOUS
  <2> HIDE DEF side, own, occupied, placed
  <2> QED BY <2>2, <2>3, <2>4, <2>5
<1>7. PICK x \in Int : placed \subseteq {x}
  BY <1>6
<1>8. dropped \subseteq own /\ dropped \in SUBSET Int
  <2>1. ~ short /\ placed # {} => own # {}
    OBVIOUS
  <2>2. own # {} => Farthest(side, own) \in own
    BY <1>2, <1>3, FarthestNearest
  <2> HIDE DEF own, side, short, placed
  <2> QED BY <1>3, <2>1, <2>2
<1>9. after \in SUBSET Int /\ IsFiniteSet(after) /\ Cardinality(after) <= LevelsPerSide
  <2>1. CASE placed = {}
    <3>1. after = own
      BY <2>1
    <3> HIDE DEF after, own
    <3> QED BY <1>3, <3>1
  <2>2. CASE placed # {} /\ short
    <3>1. after = own \cup {x}
      BY <1>7, <2>2
    <3>2. /\ IsFiniteSet(own \cup {x})
          /\ Cardinality(own \cup {x}) <= Cardinality(own) + 1
      BY <1>3, AddLevel
    <3>3. Cardinality(own \cup {x}) \in Nat
      BY <3>2, FS_CardinalityType
    <3> HIDE DEF after, own, short, placed
    <3> QED BY <1>3, <1>4, <1>5, <1>7, <2>2, <3>1, <3>2, <3>3
  <2>3. CASE placed # {} /\ ~ short
    <3>1. dropped = {Farthest(side, own)} /\ placed = {x}
      BY <1>7, <2>3
    <3>2. Farthest(side, own) \in own
      BY <1>8, <3>1
    <3>3. after = (own \ {Farthest(side, own)}) \cup {x}
      BY <3>1
    <3> HIDE DEF after, own, short, placed, dropped, side
    <3> QED BY <1>3, <1>4, <3>2, <3>3, SwapLevel
  <2> QED BY <2>1, <2>2, <2>3
<1>10. WindowOK(window')
  <2>1. window' = [window EXCEPT ![side] = after]
    BY <1>1, <1>2 DEF IInv, WindowOK
  <2> HIDE DEF after, side
  <2>2. window' \in [OrderSide -> SUBSET Int]
    BY <1>9, <2>1 DEF IInv, WindowOK
  <2>3. \A s \in OrderSide : window'[s] \in {after, window[s]}
    BY <1>2, <2>1 DEF IInv, WindowOK
  <2> QED BY <1>9, <2>2, <2>3 DEF IInv, WindowOK
<1>11. intents' \in Intents
  <2>1. EntriesAt(side, dropped) \in SUBSET Entry
    BY <1>2, <1>8, EntriesAtType
  <2>2. EntriesAt(side, placed) \in SUBSET Entry
    BY <1>2, <1>7, EntriesAtType
  <2> HIDE DEF side, dropped, placed
  <2> QED BY <1>1, <2>1, <2>2 DEF NoIntents, Intents
<1> QED BY <1>10, <1>11

LEMMA ExecuteExitStep ==
  ASSUME IInv, NEW exitId \in Ids, NEW lotId \in Ids,
         NEW qty \in Quantities, NEW ts \in Timestamps,
         ExecuteExit(exitId, lotId, qty, ts)
  PROVE  IInv'
<1> DEFINE exitsAfter == [exits EXCEPT ![exitId] = Settled("FILLED")]
<1>1. /\ lotId \in OpenIds /\ exitId = lotId /\ exitId \in DOMAIN exits
      /\ ts \in Nat /\ ref \in Nat
  BY InputAssumption DEF ExecuteExit, ExitAcceptable, IInv, FlagsOK
<1>2. LotsOK'
  <2>1. exits' = [exits EXCEPT ![lotId] = Settled("FILLED")]
    BY <1>1 DEF ExecuteExit
  <2>2. /\ DOMAIN exits' = DOMAIN exits
        /\ exits'[lotId].status # "OPEN"
        /\ \A i \in DOMAIN exits : i # lotId => exits'[i] = exits[i]
    BY <1>1, <2>1, SettledType
  <2>3. exits' \in [DOMAIN exits -> ExitOrder]
    BY <1>1, <2>1, SettledType DEF IInv, LotsOK
  <2> QED BY <1>1, <2>2, <2>3, LotClosed DEF IInv, ExecuteExit
<1>3. WindowOK(BuildWindow(ref)) /\ WindowOK(window)
  BY <1>1, BuildWindowOK DEF IInv
<1>4. /\ AllEntries(window) \in SUBSET Entry
      /\ AllEntries(BuildWindow(ref)) \in SUBSET Entry
  BY <1>3, AllEntriesType DEF WindowOK
<1>5. /\ WindowOK(window') /\ intents' \in Intents
      /\ lastRecenterTs' \in Nat \cup {Never}
  <2>1. CASE FlatReseed(lotId, ts)
    BY <1>1, <1>3, <1>4, <2>1 DEF FlatReseed, ReplaceWindow, NoIntents, Intents
  <2>2. CASE Resymmetrize(lotId, ts)
    BY <1>3, <1>4, <2>2 DEF Resymmetrize, NoIntents, Intents, IInv, FlagsOK
  <2>3. CASE RestoreEntry(lotId, ts, exitsAfter)
    BY <2>3, RestoreOK DEF RestoreEntry, IInv, FlagsOK
  <2> QED BY <2>1, <2>2, <2>3 DEF ExecuteExit
<1>6. ref' = ref /\ emergencyStopped' = emergencyStopped
  BY DEF ExecuteExit
<1> QED BY <1>2, <1>5, <1>6 DEF IInv, FlagsOK

\* A rejected event changes nothing but the intents.
LEMMA NoTransitionStep == ASSUME IInv, NoTransition PROVE IInv'
BY NoIntentsType DEF IInv, NoTransition, snapshot, LotsOK, FlagsOK, WindowOK, OpenIds,
   PairedExits, BranchConsistent, NoOrphanExit, BranchHoldsInventory

LEMMA RecenterStep ==
  ASSUME IInv, NEW newRef \in References, NEW ts \in Timestamps,
         RecenterRequested(newRef, ts)
  PROVE  IInv'
<1>1. newRef \in Nat /\ ts \in Nat
  BY InputAssumption
<1>2. CASE NoTransition
  BY <1>2, NoTransitionStep
<1>3. CASE ~ NoTransition
  <2>1. /\ window' = BuildWindow(newRef)
        /\ intents' = [NoIntents EXCEPT !.cancelEntry = AllEntries(window),
                                        !.placeEntry = AllEntries(BuildWindow(newRef))]
        /\ ref' = newRef /\ lastRecenterTs' = ts
        /\ UNCHANGED <<mode, openLots, closedLots, exits, emergencyStopped>>
    BY <1>3 DEF RecenterRequested, ReplaceWindow
  <2>2. WindowOK(window')
    BY <1>1, <2>1, BuildWindowOK
  <2>3. intents' \in Intents
    <3>1. AllEntries(window) \in SUBSET Entry
      BY AllEntriesType DEF IInv, WindowOK
    <3>2. AllEntries(BuildWindow(newRef)) \in SUBSET Entry
      BY <2>1, <2>2, AllEntriesType DEF WindowOK
    <3> QED BY <2>1, <3>1, <3>2 DEF NoIntents, Intents
  <2>4. FlagsOK'
    BY <1>1, <2>1 DEF IInv, FlagsOK
  <2>5. LotsOK'
    BY <2>1 DEF IInv, LotsOK, OpenIds, PairedExits, BranchConsistent, NoOrphanExit,
       BranchHoldsInventory
  <2> QED BY <2>2, <2>3, <2>4, <2>5 DEF IInv
<1> QED BY <1>2, <1>3

LEMMA EmergencyStopStep == ASSUME IInv, EmergencyStopTriggered PROVE IInv'
<1>1. CASE NoTransition
  BY <1>1, NoTransitionStep
<1>2. CASE ~ NoTransition
  <2>1. /\ window' = EmptyWindow /\ emergencyStopped' = TRUE
        /\ intents' = [NoIntents EXCEPT !.cancelEntry = AllEntries(window),
                                        !.placeEntry = AllEntries(EmptyWindow)]
        /\ UNCHANGED <<mode, ref, openLots, closedLots, exits, lastRecenterTs>>
    BY <1>2 DEF EmergencyStopTriggered, ReplaceWindow
  <2>2. WindowOK(window')
    BY <2>1, EmptyWindowOK
  <2>3. intents' \in Intents
    <3>1. AllEntries(window) \in SUBSET Entry /\ AllEntries(EmptyWindow) \in SUBSET Entry
      BY AllEntriesType, EmptyWindowOK DEF IInv, WindowOK
    <3> QED BY <2>1, <3>1 DEF NoIntents, Intents
  <2>4. FlagsOK'
    BY <2>1 DEF IInv, FlagsOK
  <2>5. LotsOK'
    BY <2>1 DEF IInv, LotsOK, OpenIds, PairedExits, BranchConsistent, NoOrphanExit,
       BranchHoldsInventory
  <2> QED BY <2>2, <2>3, <2>4, <2>5 DEF IInv
<1> QED BY <1>1, <1>2

LEMMA OperatorCleanupStep == ASSUME IInv, OperatorCleanup PROVE IInv'
<1>1. CASE NoTransition
  BY <1>1, NoTransitionStep
<1>2. CASE ~ NoTransition
  <2> DEFINE live == {id \in DOMAIN exits : exits[id].status = "OPEN"}
  <2>1. /\ mode' = "FLAT" /\ window' = EmptyWindow
        /\ openLots' = <<>> /\ closedLots' = closedLots \cup OpenIds
        /\ exits' = [id \in DOMAIN exits |-> IF exits[id].status = "OPEN"
                       THEN Settled("CANCELED") ELSE exits[id]]
        /\ emergencyStopped' = FALSE
        /\ intents' = [NoIntents EXCEPT !.cancelEntry = AllEntries(window),
                                        !.cancelExit = live]
        /\ UNCHANGED <<ref, lastRecenterTs>>
    BY <1>2 DEF OperatorCleanup
  <2>2. WindowOK(window')
    BY <2>1, EmptyWindowOK
  <2>3. intents' \in Intents
    <3>1. AllEntries(window) \in SUBSET Entry
      BY AllEntriesType DEF IInv, WindowOK
    <3>2. live \in SUBSET Ids
      BY DEF IInv, LotsOK
    <3> QED BY <2>1, <3>1, <3>2 DEF NoIntents, Intents
  <2>4. FlagsOK'
    BY <2>1 DEF IInv, FlagsOK
  <2>5. OpenIds' = {} /\ openLots' \in [{} -> Lot]
    BY <2>1 DEF OpenIds
  <2>6. \A id \in DOMAIN exits' : exits'[id].status # "OPEN"
    BY <2>1, SettledType
  <2>7. DOMAIN exits' \subseteq Ids /\ exits' \in [DOMAIN exits' -> ExitOrder]
    BY <2>1, SettledType DEF IInv, LotsOK
  <2>8. closedLots' \subseteq Ids
    BY <2>1 DEF IInv, LotsOK
  <2>9. LotsOK'
    BY <2>1, <2>5, <2>6, <2>7, <2>8, FS_EmptySet DEF LotsOK, PairedExits,
       BranchConsistent, NoOrphanExit, BranchHoldsInventory, BranchMode
  <2> QED BY <2>2, <2>3, <2>4, <2>9 DEF IInv
<1> QED BY <1>1, <1>2

-----------------------------------------------------------------------------
\* The invariant holds initially and is preserved by every step.

LEMMA InitInvariant == Init => IInv
<1> SUFFICES ASSUME Init PROVE IInv
  OBVIOUS
<1>1. ref \in Nat
  BY InputAssumption DEF Init
<1>2. WindowOK(window)
  BY <1>1, BuildWindowOK DEF Init
<1>3. OpenIds = {} /\ openLots \in [{} -> Lot] /\ DOMAIN exits = {} /\ exits \in [{} -> ExitOrder]
  BY DEF Init, OpenIds
<1>4. LotsOK
  BY <1>3, FS_EmptySet DEF Init, LotsOK, PairedExits, BranchConsistent, NoOrphanExit,
     BranchHoldsInventory, BranchMode
<1> QED BY <1>1, <1>2, <1>4, NoIntentsType DEF Init, IInv, FlagsOK

LEMMA NextInvariant == IInv /\ [Next]_vars => IInv'
<1> SUFFICES ASSUME IInv, [Next]_vars PROVE IInv'
  OBVIOUS
<1>1. ASSUME NEW id \in Ids, NEW side \in OrderSide, NEW price \in FillPrices,
             NEW qty \in Quantities, EntryFilled(id, side, price, qty)
      PROVE  IInv'
  <2>1. CASE ExecuteEntry(id, side, price, qty)
    BY <2>1, ExecuteEntryStep
  <2>2. CASE ExecuteNetoff(id, side, price, qty)
    BY <2>2, ExecuteNetoffStep
  <2>3. CASE RejectEntry(id, side, price, qty)
    BY <2>3, NoTransitionStep DEF RejectEntry
  <2> QED BY <1>1, <2>1, <2>2, <2>3 DEF EntryFilled
<1>2. ASSUME NEW exitId \in Ids, NEW lotId \in Ids, NEW qty \in Quantities,
             NEW ts \in Timestamps, ExitFilled(exitId, lotId, qty, ts)
      PROVE  IInv'
  BY <1>2, ExecuteExitStep, NoTransitionStep DEF ExitFilled, RejectExit
<1>3. ASSUME NEW newRef \in References, NEW ts \in Timestamps, RecenterRequested(newRef, ts)
      PROVE  IInv'
  BY <1>3, RecenterStep
<1>4. CASE EmergencyStopTriggered
  BY <1>4, EmergencyStopStep
<1>5. CASE OperatorCleanup
  BY <1>5, OperatorCleanupStep
<1>6. CASE UNCHANGED vars
  BY <1>6 DEF vars, IInv, LotsOK, FlagsOK, WindowOK, OpenIds, PairedExits,
     BranchConsistent, NoOrphanExit, BranchHoldsInventory
<1> QED BY <1>1, <1>2, <1>3, <1>4, <1>5, <1>6 DEF Next

THEOREM Invariance == Spec => []IInv
BY InitInvariant, NextInvariant, PTL DEF Spec

-----------------------------------------------------------------------------
\* The properties that the runs check, for every configuration.

\* The snapshot and the intents of every transition are well formed.
THEOREM TypeCorrect == Spec => []TypeOK
<1>1. IInv => TypeOK
  BY DEF IInv, LotsOK, FlagsOK, WindowOK, TypeOK
<1> QED BY <1>1, Invariance, PTL

\* No sequence of events makes _commit raise GridV2InvariantError, and what it commits
\* is well formed.
THEOREM SnapshotAlwaysValid == Spec => []SnapshotIsValid
<1>1. IInv => NoInvariantError
  BY DEF IInv, LotsOK, WindowOK, NoInvariantError, BoundedWindow
<1>2. NoInvariantError /\ TypeOK <=> SnapshotIsValid
  BY DEF SnapshotIsValid
<1> QED BY <1>1, <1>2, Invariance, TypeCorrect, PTL

\* Every OPEN exit order protects an open lot, and a branch holds a lot.
THEOREM ExitsAndBranchesHoldLots == Spec => [](NoOrphanExit /\ BranchHoldsInventory)
<1>1. IInv => NoOrphanExit /\ BranchHoldsInventory
  BY DEF IInv, LotsOK
<1> QED BY <1>1, Invariance, PTL

\* Every step of the machine is a step of LotLedger or leaves it alone: lots are
\* opened and closed once, protected meanwhile, and never on two sides.
THEOREM ImplementsLedger == Spec => KeepsLedger
<1> DEFINE Held == [id \in OpenIds |-> openLots[id].side]
           Once == Ledger!Next \/ UNCHANGED <<Held, closedLots, Protected>>
<1>1. Init => Ledger!Init
  BY DEF Init, Ledger!Init, OpenIds, Protected
<1>2. (IInv => Protected = OpenIds) /\ (IInv' => Protected' = OpenIds')
  BY DEF IInv, LotsOK, PairedExits, NoOrphanExit, Protected, OpenIds
<1>3. IInv /\ [Next]_vars => Once
  <2> SUFFICES ASSUME IInv, [Next]_vars PROVE Once
    OBVIOUS
  <2>1. IInv' /\ Protected = OpenIds /\ Protected' = OpenIds'
    BY <1>2, NextInvariant
  <2>2. /\ closedLots \cap OpenIds = {}
        /\ \A id \in OpenIds : openLots[id].side = mode
    BY DEF IInv, LotsOK, BranchConsistent
  <2>3. ASSUME openLots' = openLots, closedLots' = closedLots PROVE Once
    BY <2>1, <2>3 DEF OpenIds
  <2>4. ASSUME NEW id \in Ids, id \in OpenIds, openLots' = Without(openLots, id),
               closedLots' = closedLots \cup {id}
        PROVE  Ledger!Close({id})
    BY <2>1, <2>4 DEF Ledger!Close, Without, OpenIds
  <2>5. CASE NoTransition \/ UNCHANGED vars
    BY <2>3, <2>5 DEF NoTransition, snapshot, vars
  <2>6. ASSUME NEW id \in Ids, NEW side \in OrderSide, NEW price \in FillPrices,
               NEW qty \in Quantities, EntryFilled(id, side, price, qty)
        PROVE  Once
    <3>1. CASE ExecuteEntry(id, side, price, qty)
      <4> DEFINE lot == [side |-> LotSideOf(side), price |-> price, qty |-> qty]
      <4>1. /\ id \notin OpenIds \cup closedLots
            /\ mode \in {"FLAT", LotSideOf(side)}
            /\ openLots' = With(openLots, id, lot)
            /\ closedLots' = closedLots
        BY <3>1 DEF ExecuteEntry, EntryAdmissible, SeenEntry, BranchCompatible
      <4>2. \A other \in OpenIds : openLots[other].side = LotSideOf(side)
        BY <2>2, <4>1 DEF IInv, LotsOK, Lot, LotSide, LotSideOf
      <4>3. LotSideOf(side) \in LotSide
        BY DEF LotSideOf, LotSide
      <4>4. /\ OpenIds' = OpenIds \cup {id}
            /\ Held' = [l \in OpenIds \cup {id} |->
                         IF l = id THEN LotSideOf(side) ELSE Held[l]]
        BY <4>1 DEF With, OpenIds
      <4>5. Ledger!Open(id, LotSideOf(side))
        BY <2>1, <4>1, <4>2, <4>4 DEF Ledger!Open
      <4> QED BY <4>3, <4>5 DEF Ledger!Next
    <3>2. CASE ExecuteNetoff(id, side, price, qty)
      <4>1. PICK lot \in OpenIds : /\ openLots' = Without(openLots, lot)
                                   /\ closedLots' = closedLots \cup {lot}
        BY <3>2 DEF ExecuteNetoff, ClosestLots
      <4> QED BY <2>4, <4>1 DEF IInv, LotsOK, Ledger!Next
    <3>3. CASE RejectEntry(id, side, price, qty)
      BY <2>5, <3>3 DEF RejectEntry
    <3> QED BY <2>6, <3>1, <3>2, <3>3 DEF EntryFilled
  <2>7. ASSUME NEW exitId \in Ids, NEW lotId \in Ids, NEW qty \in Quantities,
               NEW ts \in Timestamps, ExitFilled(exitId, lotId, qty, ts)
        PROVE  Once
    <3>1. CASE ExecuteExit(exitId, lotId, qty, ts)
      <4>1. /\ lotId \in OpenIds /\ openLots' = Without(openLots, lotId)
            /\ closedLots' = closedLots \cup {lotId}
        BY <3>1 DEF ExecuteExit, ExitAcceptable
      <4> QED BY <2>4, <4>1 DEF Ledger!Next
    <3>2. CASE RejectExit(exitId, lotId, qty)
      BY <2>5, <3>2 DEF RejectExit
    <3> QED BY <2>7, <3>1, <3>2 DEF ExitFilled
  <2>8. CASE \E newRef \in References, ts \in Timestamps : RecenterRequested(newRef, ts)
    BY <2>3, <2>5, <2>8 DEF RecenterRequested
  <2>9. CASE EmergencyStopTriggered
    BY <2>3, <2>5, <2>9 DEF EmergencyStopTriggered
  <2>10. CASE OperatorCleanup
    <3>1. CASE ~ NoTransition
      <4>1. openLots' = <<>> /\ closedLots' = closedLots \cup OpenIds
        BY <2>10, <3>1 DEF OperatorCleanup
      <4>2. DOMAIN openLots' = {}
        BY <4>1
      <4>3. Ledger!Close(DOMAIN [id \in OpenIds |-> openLots[id].side])
        BY <2>1, <4>1, <4>2 DEF Ledger!Close, OpenIds
      <4> QED BY <4>3 DEF Ledger!Next
    <3> QED BY <2>5, <3>1
  <2> QED BY <2>5, <2>6, <2>7, <2>8, <2>9, <2>10 DEF Next
<1> QED BY <1>1, <1>3, Invariance, PTL DEF Spec, KeepsLedger, Ledger!Spec, Ledger!vars

\* Without net-off, an entry side that is not the branch's own stays empty.
LEMMA OneSidedStep ==
  ASSUME ~NetoffEnabled, IInv, OneSidedBranch, [Next]_vars
  PROVE  OneSidedBranch'
<1>0. window \in [OrderSide -> SUBSET Int] /\ mode \in BranchMode
  BY DEF IInv, LotsOK, WindowOK
<1>1. CASE NoTransition \/ UNCHANGED vars
  BY <1>1 DEF NoTransition, snapshot, vars, OneSidedBranch
<1>2. ASSUME NEW id \in Ids, NEW side \in OrderSide, NEW price \in FillPrices,
             NEW qty \in Quantities, EntryFilled(id, side, price, qty)
      PROVE  OneSidedBranch'
  <2>1. CASE ExecuteEntry(id, side, price, qty)
    <3>1. /\ mode' = LotSideOf(side)
          /\ window' = [window EXCEPT ![side] = Roll(side, price).same, ![Opposite(side)] = {}]
      BY <2>1 DEF ExecuteEntry, WindowAfterEntry
    <3> QED BY <1>0, <3>1 DEF OneSidedBranch, OrderSide, LotSideOf, Opposite
  <2>2. CASE ExecuteNetoff(id, side, price, qty)
    BY <2>2 DEF ExecuteNetoff
  <2>3. CASE RejectEntry(id, side, price, qty)
    BY <1>1, <2>3 DEF RejectEntry
  <2> QED BY <1>2, <2>1, <2>2, <2>3 DEF EntryFilled
<1>3. ASSUME NEW exitId \in Ids, NEW lotId \in Ids, NEW qty \in Quantities,
             NEW ts \in Timestamps, ExitFilled(exitId, lotId, qty, ts)
      PROVE  OneSidedBranch'
  <2>1. CASE ExecuteExit(exitId, lotId, qty, ts)
    <3>1. CASE mode' = "FLAT"
      BY <3>1 DEF OneSidedBranch
    <3>2. CASE mode' # "FLAT"
      <4>1. mode' = mode /\ ~ReseedWanted(lotId)
        BY <2>1, <3>2 DEF ExecuteExit, ModeAfterClosing, ReseedWanted, ReturnsToFlat
      <4>2. \E own : window' = [window EXCEPT ![IF mode = "LONG" THEN "BUY" ELSE "SELL"] = own]
        BY <2>1, <4>1 DEF ExecuteExit, FlatReseed, Resymmetrize, RestoreEntry
      <4> QED BY <1>0, <4>1, <4>2 DEF OneSidedBranch, OrderSide
    <3> QED BY <3>1, <3>2
  <2>2. CASE RejectExit(exitId, lotId, qty)
    BY <1>1, <2>2 DEF RejectExit
  <2> QED BY <1>3, <2>1, <2>2 DEF ExitFilled
<1>4. CASE \E newRef \in References, ts \in Timestamps : RecenterRequested(newRef, ts)
  BY <1>1, <1>4 DEF RecenterRequested, CanRecenter, OneSidedBranch
<1>5. CASE EmergencyStopTriggered
  BY <1>1, <1>5 DEF EmergencyStopTriggered, ReplaceWindow, EmptyWindow, OrderSide, OneSidedBranch
<1>6. CASE OperatorCleanup
  BY <1>1, <1>6 DEF OperatorCleanup, OneSidedBranch
<1> QED BY <1>1, <1>2, <1>3, <1>4, <1>5, <1>6 DEF Next

\* A step back to FLAT replaces the window: by the symmetric one, as the side opposite to
\* the branch is empty and the ladder skewed, or by none.
LEMMA UnwindStep ==
  ASSUME ~NetoffEnabled, ReseedOnSkew, IInv, OneSidedBranch, Next, mode # "FLAT", mode' = "FLAT"
  PROVE  window' \in {BuildWindow(ref), EmptyWindow}
<1>0. LadderSkewed
  BY DEF IInv, LotsOK, BranchMode, OneSidedBranch, LadderSkewed, OrderSide
<1>1. ~NoTransition
  BY DEF NoTransition, snapshot
<1>2. ASSUME NEW id \in Ids, NEW side \in OrderSide, NEW price \in FillPrices,
             NEW qty \in Quantities, EntryFilled(id, side, price, qty)
      PROVE  FALSE
  BY <1>1, <1>2 DEF EntryFilled, ExecuteEntry, ExecuteNetoff, RejectEntry, LotSideOf
<1>3. ASSUME NEW exitId \in Ids, NEW lotId \in Ids, NEW qty \in Quantities,
             NEW ts \in Timestamps, ExitFilled(exitId, lotId, qty, ts)
      PROVE  window' = BuildWindow(ref)
  <2>1. ExecuteExit(exitId, lotId, qty, ts)
    BY <1>1, <1>3 DEF ExitFilled, RejectExit
  <2>2. ReseedWanted(lotId)
    BY <1>0, <2>1 DEF ExecuteExit, ModeAfterClosing, ReseedWanted, ReturnsToFlat
  <2> QED BY <2>1, <2>2 DEF ExecuteExit, FlatReseed, ReplaceWindow, Resymmetrize, RestoreEntry
<1>4. CASE OperatorCleanup
  BY <1>1, <1>4 DEF OperatorCleanup
<1>5. ~(\E newRef \in References, ts \in Timestamps : RecenterRequested(newRef, ts)) /\ ~EmergencyStopTriggered
  BY <1>1 DEF RecenterRequested, CanRecenter, EmergencyStopTriggered
<1> QED BY <1>2, <1>3, <1>4, <1>5 DEF Next

\* The run lets a behaviour choose whether net-off is on; these are the behaviours of the
\* machine without it.
LEMMA WithoutNetoff ==
  ASSUME ~NetoffEnabled
  PROVE  MCSpec => [](~netoff => IInv /\ OneSidedBranch)
<1> DEFINE Inv == ~netoff => IInv /\ OneSidedBranch
<1>1. MCInit => Inv
  BY InitInvariant DEF MCInit, Init, OneSidedBranch
<1>2. Inv /\ [MCNext]_<<vars, netoff>> => Inv'
  <2> SUFFICES ASSUME Inv, [MCNext]_<<vars, netoff>>, ~netoff' PROVE (IInv /\ OneSidedBranch)'
    OBVIOUS
  <2>1. ~netoff /\ [Next]_vars
    BY DEF MCNext
  <2> QED BY <2>1, NextInvariant, OneSidedStep
<1> QED BY <1>1, <1>2, PTL DEF MCSpec

\* "Opposite side stays empty until FLAT reseed."
THEOREM BranchStaysOneSided == ASSUME ~NetoffEnabled PROVE MCSpec => []OneSidedUnlessNetoff
<1>1. (~netoff => IInv /\ OneSidedBranch) => OneSidedUnlessNetoff
  BY DEF OneSidedUnlessNetoff
<1> QED BY <1>1, WithoutNetoff, PTL

\* With reseeding on a skewed ladder, as by default, every unwind of a branch ends in the
\* full symmetric window, or in the empty one of an operator's cleanup.
THEOREM UnwindsLeaveFullWindow ==
  ASSUME ~NetoffEnabled, ReseedOnSkew
  PROVE  MCSpec => UnwindUnlessNetoff
<1> DEFINE Unwound == ~netoff /\ mode # "FLAT" /\ mode' = "FLAT" => window' \in {BuildWindow(ref), EmptyWindow}
<1>1. (~netoff => IInv /\ OneSidedBranch) /\ [MCNext]_<<vars, netoff>> => [Unwound]_vars
  <2> SUFFICES ASSUME ~netoff => IInv /\ OneSidedBranch, [MCNext]_<<vars, netoff>>, ~ UNCHANGED vars PROVE Unwound
    OBVIOUS
  <2>1. ~netoff => Next
    BY DEF MCNext
  <2> QED BY <2>1, UnwindStep
<1> QED BY <1>1, WithoutNetoff, PTL DEF MCSpec, UnwindUnlessNetoff

=============================================================================
