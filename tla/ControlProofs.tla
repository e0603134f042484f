---------------------------- MODULE ControlProofs ----------------------------
(***************************************************************************)
(* After an emergency the machine keeps its distance from risk.  A state   *)
(* in which it may not trade yet was entered no earlier than the last      *)
(* trigger was seen, so that the cooldown it waits out is also the quiet   *)
(* time the property asks for.  Of the futures port: what its ids, its     *)
(* errors and its snapshots tell is true.                                  *)
(***************************************************************************)
EXTENDS SafetyControl, TuningRefresher, FuturesPort, TLAPS

WaitsItOut ==
  /\ fsm \in {"INIT", "READY", "ACTIVE", "THROTTLED"} => quiet = Cool
  /\ fsm \in {"PAUSED", "DEGRADED"} => age <= quiet

Timers == fsm \in SystemStates /\ age \in 0..Cool /\ quiet \in 0..Cool

LEMMA CappedRange == ASSUME NEW n \in Nat, NEW k \in Nat PROVE Capped(n, k) \in 0..k
BY DEF Capped

LEMMA GapRange == Gap \in Nat
BY ControlAssumption DEF Gap

\* A tick of the machine, whatever the signals are, keeps the timers in step.
LEMMA TickKeeps ==
  ASSUME Timers, WaitsItOut, NEW gap \in Nat, TickFsm(gap)
  PROVE  Timers' /\ WaitsItOut'
<1> USE ControlAssumption DEF Timers
<1>1. age' \in 0..Cool /\ quiet' \in 0..Cool
  <2>1. age + gap \in Nat /\ quiet + gap \in Nat /\ 0 \in 0..Cool
    OBVIOUS
  <2>2. Capped(age + gap, Cool) \in 0..Cool /\ Capped(quiet + gap, Cool) \in 0..Cool
    BY <2>1, CappedRange
  <2>3. QED
    BY <2>1, <2>2 DEF TickFsm
<1>2. fsm' \in SystemStates
  BY DEF TickFsm, NextState, SystemStates
<1>3. WaitsItOut'
  <2>1. /\ age' = IF fsm' = fsm THEN Capped(age + gap, Cool) ELSE 0
        /\ quiet' = IF fsm # "INIT" /\ Triggered THEN 0 ELSE Capped(quiet + gap, Cool)
    BY DEF TickFsm
  <2>2. CASE fsm # "INIT" /\ Triggered
    <3>1. fsm' \in {"EMERGENCY", "PAUSED"} /\ (fsm' = "PAUSED" => fsm = "EMERGENCY")
      BY <2>2 DEF TickFsm, NextState, SystemStates
    <3>2. QED
      BY <2>1, <2>2, <3>1 DEF WaitsItOut
  <2>3. CASE fsm = "INIT"
    <3>1. fsm' \in {"INIT", "READY"} /\ quiet = Cool /\ quiet' = Cool
      BY <2>1, <2>3 DEF TickFsm, NextState, WaitsItOut, Capped
    <3>2. QED
      BY <3>1 DEF WaitsItOut
  <2>4. CASE fsm # "INIT" /\ ~Triggered
    <3>1. quiet' = Capped(quiet + gap, Cool)
      BY <2>1, <2>4
    <3>2. CASE fsm = "EMERGENCY"
      <4>1. fsm' = "EMERGENCY" \/ (fsm' = "PAUSED" /\ age' = 0)
        BY <2>1, <3>2 DEF TickFsm, NextState
      <4>2. QED
        BY <1>1, <4>1 DEF WaitsItOut
    <3>3. CASE fsm \in {"READY", "ACTIVE", "THROTTLED"}
      <4>1. quiet' = Cool
        BY <3>1, <3>3 DEF WaitsItOut, Capped
      <4>2. QED
        BY <1>1, <4>1 DEF WaitsItOut
    <3>4. CASE fsm \in {"PAUSED", "DEGRADED"}
      <4>1. fsm' \in {"PAUSED", "DEGRADED"} \/ CooldownElapsed(gap)
        BY <2>4, <3>4 DEF TickFsm, NextState
      <4>2. age <= quiet
        BY <3>4 DEF WaitsItOut
      <4>3. CASE CooldownElapsed(gap)
        <5>1. quiet' = Cool
          BY <3>1, <4>2, <4>3 DEF CooldownElapsed, Capped
        <5>2. QED
          BY <1>1, <5>1 DEF WaitsItOut
      <4>4. CASE fsm' \in {"PAUSED", "DEGRADED"}
        <5>1. age' <= quiet'
          BY <1>1, <2>1, <3>1, <4>2 DEF Capped
        <5>2. QED
          BY <4>4, <5>1 DEF WaitsItOut
      <4>5. QED
        BY <4>1, <4>3, <4>4
    <3>5. QED
      BY <2>4, <3>2, <3>3, <3>4 DEF SystemStates
  <2>5. QED
    BY <2>2, <2>3, <2>4
<1>4. QED
  BY <1>1, <1>2, <1>3

LEMMA WaitsInvariant == ControlSpec => [](Timers /\ WaitsItOut)
<1>1. ControlInit => Timers /\ WaitsItOut
  BY ControlAssumption DEF ControlInit, Timers, WaitsItOut, SystemStates
<1>2. Timers /\ WaitsItOut /\ [ControlNext]_controlVars => Timers' /\ WaitsItOut'
  <2> SUFFICES ASSUME Timers, WaitsItOut, [ControlNext]_controlVars PROVE Timers' /\ WaitsItOut'
    OBVIOUS
  <2>1. CASE UNCHANGED <<fsm, age, quiet>>
    BY <2>1 DEF Timers, WaitsItOut
  <2>2. CASE TickFsm(Gap)
    BY <2>2, GapRange, TickKeeps
  <2>3. QED
    BY <2>1, <2>2 DEF ControlNext, controlVars, SignalsChange, InventoryGrows, ExitFills, HearExit,
                      ProcessSnapshot, SnapshotTick, TickForcedFlat, TickDeferred, TickFull
<1>3. QED
  BY <1>1, <1>2, PTL DEF ControlSpec

\* Every variable keeps its type, for any cooldown, cap and limits.
THEOREM ControlTypeCorrect == ControlSpec => []ControlTypeOK
<1> USE ControlAssumption DEF ControlTypeOK
<1>1. ControlInit => ControlTypeOK
  <2> SUFFICES ASSUME ControlInit PROVE ControlTypeOK
    OBVIOUS
  <2>1. signals \in [kill : BOOLEAN, override : {"NONE", "PAUSE", "EMERGENCY"}, wide : BOOLEAN,
                    impact : BOOLEAN, level : Levels, late : BOOLEAN]
    BY DEF ControlInit, Levels
  <2>2. sync \in [ever : BOOLEAN, measured : 0..Cap \cup {Unmeasured}, age : 0..HardAge + 1, fails : 0..HardFails]
    BY DEF ControlInit
  <2>3. /\ fsm \in SystemStates /\ age \in 0..Cool /\ quiet \in 0..Cool /\ changes \in 0..MaxChanges
        /\ {inventory, orders} \subseteq Nat /\ exitNews \in 0..MaxNews
        /\ flat \in {"no", "requested", "done"}
    BY DEF ControlInit, SystemStates
  <2>4. ticked \in BOOLEAN /\ branch \in BOOLEAN /\ exited \in BOOLEAN
    BY DEF ControlInit
  <2>5. QED
    BY <2>1, <2>2, <2>3, <2>4
<1>2. ControlTypeOK /\ Timers /\ Timers' /\ [ControlNext]_controlVars => ControlTypeOK'
  <2> SUFFICES ASSUME ControlTypeOK, Timers, Timers', [ControlNext]_controlVars PROVE ControlTypeOK'
    OBVIOUS
  <2> USE DEF Timers
  <2>1. CASE UNCHANGED controlVars
    BY <2>1 DEF controlVars
  <2>2. CASE SignalsChange
    <3> DEFINE Signals == [kill : BOOLEAN, override : {"NONE", "PAUSE", "EMERGENCY"}, wide : BOOLEAN,
                           impact : BOOLEAN, level : Levels, late : BOOLEAN]
    <3>1. signals' \in Signals
      <4>1. ASSUME NEW b \in BOOLEAN
            PROVE  /\ [signals EXCEPT !.kill = b] \in Signals /\ [signals EXCEPT !.wide = b] \in Signals
                   /\ [signals EXCEPT !.impact = b] \in Signals /\ [signals EXCEPT !.late = b] \in Signals
        OBVIOUS
      <4>2. /\ (~signals.kill) \in BOOLEAN /\ (~signals.wide) \in BOOLEAN
            /\ (~signals.impact) \in BOOLEAN /\ (~signals.late) \in BOOLEAN
        OBVIOUS
      <4>3. CASE \E b \in {"kill", "wide", "impact", "late"} : signals' = [signals EXCEPT ![b] = ~@]
        <5>1. \/ signals' = [signals EXCEPT !.kill = ~signals.kill]
              \/ signals' = [signals EXCEPT !.wide = ~signals.wide]
              \/ signals' = [signals EXCEPT !.impact = ~signals.impact]
              \/ signals' = [signals EXCEPT !.late = ~signals.late]
          BY <4>3, Zenon
        <5> HIDE DEF Signals
        <5>2. QED
          BY <4>1, <4>2, <5>1, Zenon DEF Signals
      <4>4. CASE \E o \in {"NONE", "PAUSE", "EMERGENCY"} \ {signals.override} :
                   signals' = [signals EXCEPT !.override = o]
        BY <4>4
      <4>5. CASE \E l \in Levels \ {signals.level} : signals' = [signals EXCEPT !.level = l]
        BY <4>5
      <4>6. QED
        BY <2>2, <4>3, <4>4, <4>5, Zenon DEF SignalsChange
    <3>2. /\ changes' \in 0..MaxChanges
          /\ UNCHANGED <<fsm, age, quiet, ticked, inventory, orders, exitNews, branch, sync, exited, flat>>
      BY <2>2 DEF SignalsChange
    <3>3. QED
      BY <3>1, <3>2 DEF Signals
  <2>3. CASE InventoryGrows \/ ExitFills
    <3>1. /\ inventory' \in Nat /\ orders' \in Nat
          /\ exitNews' \in 0..MaxNews
          /\ branch' = TRUE \/ branch' = branch
      BY <2>3 DEF InventoryGrows, ExitFills
    <3>2. UNCHANGED <<fsm, age, signals, changes, quiet, ticked, sync, exited, flat>>
      BY <2>3 DEF InventoryGrows, ExitFills
    <3>3. branch' \in BOOLEAN
      BY <3>1
    <3>4. QED
      BY <3>1, <3>2, <3>3
  <2>4. CASE HearExit
    <3>1. orders' \in Nat /\ exitNews' \in 0..MaxNews /\ branch' \in BOOLEAN
      BY <2>4 DEF HearExit
    <3>2. QED
      BY <2>4, <3>1 DEF HearExit
  <2>5. CASE ProcessSnapshot
    <3> DEFINE Syncs == [ever : BOOLEAN, measured : 0..Cap \cup {Unmeasured}, age : 0..HardAge + 1,
                         fails : 0..HardFails]
    <3>1. ASSUME NEW gap \in Nat PROVE SyncAged(gap) \in Syncs
      <4>1. Capped(sync.age + gap, HardAge + 1) \in 0..HardAge + 1
        <5>1. sync.age + gap \in Nat /\ HardAge + 1 \in Nat
          OBVIOUS
        <5>2. QED
          BY <5>1, CappedRange
      <4>2. QED
        BY <4>1 DEF SyncAged
    <3>2. ASSUME NEW gap \in Nat, NEW held \in Nat, AccountSync(gap, held) PROVE sync' \in Syncs
      <4>1. Capped(sync.fails + 1, HardFails) \in 0..HardFails /\ Capped(held, Cap) \in 0..Cap
        <5>1. sync.fails + 1 \in Nat /\ HardFails \in Nat /\ Cap \in Nat
          OBVIOUS
        <5>2. QED
          BY <5>1, CappedRange
      <4>2. [SyncAged(gap) EXCEPT !.fails = Capped(@ + 1, HardFails)]
              = [SyncAged(gap) EXCEPT !.fails = Capped(sync.fails + 1, HardFails)]
        BY DEF SyncAged
      <4>3. Synced(held) \in Syncs
        BY <4>1 DEF Synced
      <4>4. QED
        BY <3>1, <3>2, <4>1, <4>2, <4>3 DEF AccountSync
    <3> HIDE DEF Syncs
    <3>3. inventory' \in Nat /\ orders' \in Nat
      BY <2>5 DEF ProcessSnapshot, SnapshotTick, TickForcedFlat, TickDeferred, TickFull, Flatten
    <3>8. exited' \in BOOLEAN
      <4>1. exited' = exited \/ exited' = (exited \/ fsm' = "EMERGENCY")
        BY <2>5 DEF ProcessSnapshot, SnapshotTick, TickForcedFlat, TickDeferred, TickFull
      <4>2. QED
        BY <4>1
    <3>4. sync' \in Syncs
      BY <2>5, <3>1, <3>2, <3>3, GapRange
      DEF ProcessSnapshot, SnapshotTick, TickForcedFlat, TickDeferred, TickFull
    <3>5. flat' \in {"no", "requested", "done"}
      BY <2>5 DEF ProcessSnapshot, SnapshotTick, TickForcedFlat, TickDeferred, TickFull
    <3>6. UNCHANGED <<signals, changes, branch, exitNews>> /\ ticked' = TRUE
      BY <2>5 DEF ProcessSnapshot, SnapshotTick, TickForcedFlat, TickDeferred, TickFull
    <3>7. QED
      BY <3>3, <3>4, <3>5, <3>6, <3>8 DEF Syncs
  <2>6. QED
    BY <2>1, <2>2, <2>3, <2>4, <2>5 DEF ControlNext
<1>3. QED
  BY <1>1, <1>2, WaitsInvariant, PTL DEF ControlSpec

\* After the last tick that saw an emergency trigger the machine is not ACTIVE before a
\* whole cooldown has passed, for any cooldown and any gaps between snapshots.
THEOREM QuietHolds == ControlSpec => []QuietBeforeRisk
<1>1. Timers /\ WaitsItOut => QuietBeforeRisk
  BY DEF WaitsItOut, QuietBeforeRisk
<1>2. QED
  BY <1>1, WaitsInvariant, PTL

-----------------------------------------------------------------------------
\* Proofs about the tuning refresher.  A snapshot whose entries of a symbol agree merges into
\* one that is whole; and the settings of a symbol are those of one tuning, except while the
\* refresher is writing them, when they are those of that tuning and of one before.

\* The entries a symbol has in a snapshot are of one tuning.
Agree(s) ==
  \E n \in Tunings : tunedIn[s] \in {0, n} /\ natrIn[s] \in {0, n} /\ v1In[s] \in {0, n} /\ v2In[s] \in {0, n}

WholeFor(m, s) ==
  /\ s \in m.candidates <=> m.tunedIn[s] # 0
  /\ m.natrIn[s] = m.tunedIn[s] /\ m.v1In[s] = m.tunedIn[s] /\ m.v2In[s] = m.tunedIn[s]

\* Where the refresher is says what it holds.
InStep ==
  /\ stage = "discovered" => tuning < MaxTunings
  /\ stage = "caching" => \A s \in Universe : WholeFor(merged, s)
  /\ pass \cup target # {} => stage = "bridging"
  /\ stage = "bridging" => version > 0
  /\ \A s \in pass \cup target : tunedIn[s] # 0
  /\ \A s, u \in target : s = u

\* The settings of a symbol that is not being written are of one tuning.
Uniform(s) == s \notin target => \A x, y \in SettingNames : settings[s][x] = settings[s][y]

\* Those the refresher is done with are the new ones.
HalfWritten(s) == s \in target => \A i \in 1 .. 5 : i <= written => settings[s][WriteOrder[i]] = tunedIn[s]

\* What an engine has read and what it may still read.
OldOrNew(s, old, new) ==
  /\ \A x \in SettingNames : settings[s][x] \in {0, old, new}
  /\ s \in target => new = tunedIn[s]
  /\ s \in building => readings \subseteq {old, new}
TwoTunings(s) == \E old, new \in 1 .. MaxTunings : OldOrNew(s, old, new)

\* What an engine was built from.
BuiltFromTwo(s) ==
  engine[s] \in {"ACTIVE", "GRACEFUL_EXIT"} =>
    \E old, new \in 1 .. MaxTunings : builtFrom[s] # {} /\ builtFrom[s] \subseteq {old, new}

BeingBuilt ==
  /\ \A s, u \in building : s = u
  /\ \A s \in Universe : s \in building <=> engine[s] = "ACTIVATING"
  /\ place > 1 => readings # {}

TuningInv ==
  /\ TuningTypeOK /\ InStep /\ BeingBuilt /\ SnapshotIsWhole
  /\ \A s \in Universe : Agree(s) /\ Uniform(s) /\ HalfWritten(s) /\ TwoTunings(s) /\ BuiltFromTwo(s)

LEMMA JoinedAt ==
  ASSUME NEW fresh, NEW kept, NEW old, NEW s \in Universe
  PROVE  Joined(fresh, kept, old)[s] = IF s \in kept THEN old[s] ELSE IF s \in fresh THEN tuning + 1 ELSE 0
BY DEF Joined

LEMMA JoinedTyped ==
  ASSUME NEW fresh, NEW kept, NEW old \in [Universe -> Tunings], tuning \in 1 .. MaxTunings, tuning < MaxTunings
  PROVE  Joined(fresh, kept, old) \in [Universe -> Tunings]
<1>1. MaxTunings \in Nat
  BY TuningAssumption
<1>2. tuning + 1 \in Tunings /\ 0 \in Tunings
  BY <1>1 DEF Tunings
<1>3. QED
  BY <1>2 DEF Joined

LEMMA KeptTyped ==
  ASSUME NEW map \in [Universe -> Tunings], NEW S
  PROVE  KeptTo(map, S) \in [Universe -> Tunings]
<1>1. 0 \in Tunings
  BY TuningAssumption DEF Tunings
<1>2. QED
  BY <1>1 DEF KeptTo

LEMMA MergeTyped ==
  ASSUME RefresherTyped, tuning < MaxTunings, NEW seen, NEW hits, NEW second
  PROVE  Merge(seen, hits, second) \in Snapshots
<1> DEFINE kept == Backfilled(hits)
           size == Joined(hits, kept, tunedIn)
           natr == Joined(Described(seen, hits), kept, natrIn)
           one == Joined(Described(seen, hits), kept, v1In)
           two == Joined(second, kept, v2In)
           m == [tunedIn |-> size, natrIn |-> natr, v1In |-> one, v2In |-> two, candidates |-> {}]
           canon == Canon(m, hits)
<1>1. size \in [Universe -> Tunings] /\ natr \in [Universe -> Tunings]
  BY JoinedTyped DEF RefresherTyped
<1>2. one \in [Universe -> Tunings] /\ two \in [Universe -> Tunings]
  BY JoinedTyped DEF RefresherTyped
<1>3. canon \subseteq Universe
  BY DEF Canon, Intersection, RefresherTyped
<1>4. Merge(seen, hits, second) = Scrubbed(m, canon)
  BY DEF Merge
<1> HIDE DEF kept, size, natr, one, two, canon
<1>5. /\ KeptTo(size, canon) \in [Universe -> Tunings] /\ KeptTo(natr, canon) \in [Universe -> Tunings]
      /\ KeptTo(one, canon) \in [Universe -> Tunings] /\ KeptTo(two, canon) \in [Universe -> Tunings]
  BY <1>1, <1>2, KeptTyped
<1>6. Scrubbed(m, canon) \in Snapshots
  BY <1>1, <1>2, <1>3, <1>5 DEF Scrubbed, Snapshots
<1>7. QED
  BY <1>4, <1>6

\* Whatever was found and whatever is kept: after the merge a symbol is a candidate if and
\* only if it is in every map, with the entries of one tuning.
LEMMA MergeWhole ==
  ASSUME RefresherTyped, \A s \in Universe : Agree(s), NEW seen, NEW hits, NEW second,
         hits \subseteq seen, seen \subseteq candidates \cup dynamic, second \subseteq hits
  PROVE  \A s \in Universe : WholeFor(Merge(seen, hits, second), s)
<1> DEFINE kept == Backfilled(hits)
           size == Joined(hits, kept, tunedIn)
           natr == Joined(Described(seen, hits), kept, natrIn)
           one == Joined(Described(seen, hits), kept, v1In)
           two == Joined(second, kept, v2In)
           m == [tunedIn |-> size, natrIn |-> natr, v1In |-> one, v2In |-> two, candidates |-> {}]
           canon == Canon(m, hits)
<1>1. Merge(seen, hits, second) = Scrubbed(m, canon)
  BY DEF Merge
<1>2. \A s : s \in canon <=> /\ s \in candidates \cup (dynamic \cap hits)
                             /\ size[s] # 0 /\ natr[s] # 0 /\ one[s] # 0 /\ two[s] # 0
  BY DEF Canon, Intersection
<1>3. ASSUME NEW s \in Universe, s \in kept
      PROVE  s \notin hits /\ size[s] # 0 /\ natr[s] = size[s] /\ one[s] = size[s] /\ two[s] = size[s]
  <2>1. s \notin hits /\ tunedIn[s] # 0 /\ natrIn[s] # 0 /\ v1In[s] # 0 /\ v2In[s] # 0
    BY <1>3 DEF Backfilled, Complete
  <2>2. natrIn[s] = tunedIn[s] /\ v1In[s] = tunedIn[s] /\ v2In[s] = tunedIn[s]
    BY <2>1 DEF Agree
  <2>3. size[s] = tunedIn[s] /\ natr[s] = natrIn[s] /\ one[s] = v1In[s] /\ two[s] = v2In[s]
    BY <1>3, JoinedAt
  <2>4. QED
    BY <2>1, <2>2, <2>3
<1>4. ASSUME NEW s \in Universe, s \notin kept
      PROVE  /\ size[s] = IF s \in hits THEN tuning + 1 ELSE 0
             /\ natr[s] = (IF s \in Described(seen, hits) THEN tuning + 1 ELSE 0) /\ one[s] = natr[s]
             /\ two[s] = IF s \in second THEN tuning + 1 ELSE 0
  BY <1>4, JoinedAt
<1> HIDE DEF kept, size, natr, one, two, canon
<1>5. tuning + 1 # 0
  BY TuningAssumption DEF RefresherTyped
<1>6. ASSUME NEW s \in Universe, s \in canon
      PROVE  size[s] # 0 /\ natr[s] = size[s] /\ one[s] = size[s] /\ two[s] = size[s]
  <2>1. size[s] # 0 /\ natr[s] # 0 /\ one[s] # 0 /\ two[s] # 0
    BY <1>2, <1>6
  <2>2. CASE s \in kept
    BY <1>3, <2>2
  <2>3. CASE s \notin kept
    BY <1>4, <2>1, <2>3
  <2>4. QED
    BY <2>2, <2>3
<1>7. ASSUME NEW s \in Universe, size[s] = 0, one[s] = 0
      PROVE  natr[s] = 0 /\ two[s] = 0
  <2>1. s \notin kept
    BY <1>3, <1>7
  <2>2. s \notin second
    BY <1>4, <1>5, <1>7, <2>1
  <2>3. QED
    BY <1>4, <1>7, <2>1, <2>2
<1>8. SUFFICES ASSUME NEW s \in Universe PROVE WholeFor(Scrubbed(m, canon), s)
  BY <1>1
<1>9. CASE canon # Keys(size) \/ canon # Keys(one)
  <2>1. Scrubbed(m, canon) =
          [tunedIn |-> KeptTo(size, canon), natrIn |-> KeptTo(natr, canon),
           v1In |-> KeptTo(one, canon), v2In |-> KeptTo(two, canon), candidates |-> canon]
    BY <1>9 DEF Scrubbed
  <2>2. QED
    BY <1>6, <2>1 DEF WholeFor, KeptTo
<1>10. CASE canon = Keys(size) /\ canon = Keys(one)
  <2>1. Scrubbed(m, canon) = [m EXCEPT !.candidates = canon]
    BY <1>10 DEF Scrubbed
  <2>2. (s \in canon <=> size[s] # 0) /\ (s \in canon <=> one[s] # 0)
    BY <1>10 DEF Keys
  <2>3. natr[s] = size[s] /\ one[s] = size[s] /\ two[s] = size[s]
    BY <1>6, <1>7, <2>2
  <2>4. QED
    BY <2>1, <2>2, <2>3 DEF WholeFor
<1>11. QED
  BY <1>9, <1>10

LEMMA TuningBounds == MaxTunings \in Nat \ {0} /\ 0 \in Tunings /\ 1 \in Tunings /\ 1 \in 1 .. MaxTunings
BY TuningAssumption DEF Tunings

\* The bootstrap: everything that was tuned is of tuning 1.
LEMMA TuningStarts == TuningInit => TuningInv
<1> SUFFICES ASSUME TuningInit PROVE TuningInv
  OBVIOUS
<1>1. PICK described \in SUBSET ColdStart : \E hits \in SUBSET described :
        \E first \in FirstFeatures(hits), second \in FirstFeatures(hits) :
          /\ candidates \in FirstCandidates(hits)
          /\ tunedIn = MadeIn(1, hits) /\ natrIn = MadeIn(1, described)
          /\ v1In = MadeIn(1, first) /\ v2In = MadeIn(1, second)
          /\ cached = hits /\ settings = FirstSettings(hits)
  BY DEF TuningInit
<1>20. PICK hits \in SUBSET described : \E first \in FirstFeatures(hits), second \in FirstFeatures(hits) :
          /\ candidates \in FirstCandidates(hits)
          /\ tunedIn = MadeIn(1, hits) /\ natrIn = MadeIn(1, described)
          /\ v1In = MadeIn(1, first) /\ v2In = MadeIn(1, second)
          /\ cached = hits /\ settings = FirstSettings(hits)
  BY <1>1
<1>2. PICK first \in FirstFeatures(hits), second \in FirstFeatures(hits) :
          /\ candidates \in FirstCandidates(hits)
          /\ tunedIn = MadeIn(1, hits) /\ natrIn = MadeIn(1, described)
          /\ v1In = MadeIn(1, first) /\ v2In = MadeIn(1, second)
          /\ cached = hits /\ settings = FirstSettings(hits)
  BY <1>20
<1>3. /\ version = 0 /\ tuning = 1 /\ dynamic = {} /\ stage = "waiting" /\ merged = NoSnapshot
      /\ pass = {} /\ target = {} /\ written = 0 /\ selected = {}
      /\ engine = [s \in Universe |-> "ABSENT"] /\ building = {} /\ place = 1 /\ readings = {}
      /\ builtFrom = [s \in Universe |-> {}]
  BY DEF TuningInit
<1>4. described \subseteq Universe /\ hits \subseteq Universe /\ ColdStart \subseteq Universe
  BY TuningAssumption
<1>5. \A S : MadeIn(1, S) \in [Universe -> Tunings]
  BY TuningBounds DEF MadeIn
<1>6. NoSnapshot \in Snapshots
  BY TuningBounds DEF NoSnapshot, Nowhere, Snapshots
<1>7. candidates \subseteq Universe /\ cached \subseteq Universe
  BY <1>2, <1>4 DEF FirstCandidates
<1>8. tunedIn \in [Universe -> Tunings] /\ natrIn \in [Universe -> Tunings]
  BY <1>2, <1>5
<1>9. v1In \in [Universe -> Tunings] /\ v2In \in [Universe -> Tunings]
  BY <1>2, <1>5
<1>10. tuning \in 1 .. MaxTunings /\ 0 \in Nat /\ 0 \in 0 .. 5
  BY <1>3, TuningBounds
<1>11. RefresherTyped
  BY <1>3, <1>6, <1>7, <1>8, <1>9, <1>10 DEF RefresherTyped
<1>12. settings \in [Universe -> [SettingNames -> Tunings]]
  BY <1>2, TuningBounds DEF FirstSettings
<1>13. EnginesTyped
  BY <1>3, <1>12 DEF EnginesTyped
<1>14. InStep /\ BeingBuilt /\ SnapshotIsWhole
  BY <1>3 DEF InStep, BeingBuilt, SnapshotIsWhole
<1>15. ASSUME NEW s \in Universe PROVE Agree(s)
  BY <1>2, TuningBounds DEF Agree, MadeIn
<1>16. ASSUME NEW s \in Universe PROVE \E n \in {0, 1} : \A x \in SettingNames : settings[s][x] = n
  <2>1. CASE s \in hits
    BY <1>2, <2>1 DEF FirstSettings
  <2>2. CASE s \notin hits
    BY <1>2, <2>2 DEF FirstSettings
  <2>3. QED
    BY <2>1, <2>2
<1>17. ASSUME NEW s \in Universe PROVE Uniform(s) /\ HalfWritten(s) /\ BuiltFromTwo(s)
  BY <1>3, <1>16 DEF Uniform, HalfWritten, BuiltFromTwo
<1>18. ASSUME NEW s \in Universe PROVE TwoTunings(s)
  <2>1. OldOrNew(s, 1, 1)
    BY <1>3, <1>16 DEF OldOrNew
  <2>2. QED
    BY <2>1, TuningBounds DEF TwoTunings
<1>19. QED
  BY <1>11, <1>13, <1>14, <1>15, <1>17, <1>18 DEF TuningInv, TuningTypeOK

\* What a step that leaves the state, the bridge and the engines alone need not show.
LEMMA NothingPublished ==
  ASSUME TuningInv, UNCHANGED <<stateVars, settings, startupVars, target, written>>
  PROVE  /\ EnginesTyped' /\ BeingBuilt' /\ SnapshotIsWhole'
         /\ \A s \in Universe : Agree(s)' /\ Uniform(s)' /\ HalfWritten(s)' /\ TwoTunings(s)' /\ BuiltFromTwo(s)'
<1>1. EnginesTyped'
  BY DEF TuningInv, TuningTypeOK, EnginesTyped, startupVars
<1>2. BeingBuilt' /\ SnapshotIsWhole'
  BY DEF TuningInv, BeingBuilt, SnapshotIsWhole, startupVars, stateVars
<1>3. ASSUME NEW s \in Universe PROVE Agree(s)' /\ Uniform(s)' /\ HalfWritten(s)'
  BY DEF TuningInv, Agree, Uniform, HalfWritten, stateVars
<1>4. ASSUME NEW s \in Universe PROVE TwoTunings(s)' /\ BuiltFromTwo(s)'
  BY DEF TuningInv, TwoTunings, OldOrNew, BuiltFromTwo, stateVars, startupVars
<1>5. QED
  BY <1>1, <1>2, <1>3, <1>4

LEMMA DiscoverKeeps == ASSUME TuningInv, Discover \/ GiveUp PROVE TuningInv'
<1>1. UNCHANGED <<stateVars, settings, startupVars, target, written>>
  BY DEF Discover, GiveUp
<1>2. dynamic' \subseteq Universe
  BY DEF Discover, GiveUp, Prefiltered
<1>3. stage' \in {"waiting", "discovered"}
  BY DEF Discover, GiveUp
<1>4. UNCHANGED <<tuning, merged, toCache, pass, target, written, cached>>
  BY DEF Discover, GiveUp
<1>5. RefresherTyped'
  BY <1>1, <1>2, <1>3, <1>4 DEF TuningInv, TuningTypeOK, RefresherTyped, stateVars
<1>6. stage' = "discovered" => tuning < MaxTunings
  BY DEF Discover, GiveUp
<1>7. pass = {} /\ target = {}
  BY DEF TuningInv, InStep, Discover, GiveUp
<1>8. InStep'
  BY <1>3, <1>4, <1>6, <1>7 DEF InStep
<1>9. QED
  BY <1>1, <1>5, <1>8, NothingPublished DEF TuningInv, TuningTypeOK

LEMMA RetuneKeeps == ASSUME TuningInv, Retune PROVE TuningInv'
<1>1. UNCHANGED <<stateVars, settings, startupVars, pass, target, written, cached>>
  BY DEF Retune
<1>2. tuning < MaxTunings /\ tuning' = tuning + 1 /\ dynamic' = {} /\ stage' = "caching"
  BY DEF Retune, TuningInv, InStep
<1>3. PICK seen \in SUBSET (candidates \cup dynamic) : \E hits \in SUBSET seen :
        \E second \in SUBSET hits : merged' = Merge(seen, hits, second)
  BY DEF Retune
<1>30. PICK hits \in SUBSET seen : \E second \in SUBSET hits : merged' = Merge(seen, hits, second)
  BY <1>3
<1>4. PICK second \in SUBSET hits : merged' = Merge(seen, hits, second)
  BY <1>30
<1>5. merged' \in Snapshots
  BY <1>2, <1>4, MergeTyped DEF TuningInv, TuningTypeOK
<1>6. \A s \in Universe : WholeFor(merged', s)
  BY <1>4, MergeWhole DEF TuningInv, TuningTypeOK
<1>7. tuning' \in 1 .. MaxTunings
  BY <1>2, TuningBounds DEF TuningInv, TuningTypeOK, RefresherTyped
<1>8. RefresherTyped'
  BY <1>1, <1>2, <1>5, <1>7 DEF TuningInv, TuningTypeOK, RefresherTyped, stateVars
<1>9. pass = {} /\ target = {}
  BY DEF TuningInv, InStep, Retune
<1>10. InStep'
  BY <1>1, <1>2, <1>6, <1>9 DEF InStep, WholeFor
<1>11. QED
  BY <1>1, <1>8, <1>10, NothingPublished DEF TuningInv, TuningTypeOK

LEMMA CachePutKeeps == ASSUME TuningInv, NEW s \in Universe, CachePut(s) PROVE TuningInv'
<1>1. UNCHANGED <<stateVars, settings, startupVars, tuning, dynamic, stage, merged, pass, target, written>>
  BY DEF CachePut
<1>2. cached' \subseteq Universe
  BY DEF CachePut, TuningInv, TuningTypeOK, RefresherTyped
<1>3. RefresherTyped'
  BY <1>1, <1>2 DEF TuningInv, TuningTypeOK, RefresherTyped, stateVars
<1>4. InStep'
  BY <1>1 DEF TuningInv, InStep, WholeFor, stateVars
<1>5. QED
  BY <1>1, <1>3, <1>4, NothingPublished DEF TuningInv, TuningTypeOK

\* The merged snapshot becomes the state; nobody is being written meanwhile.
LEMMA ReplaceKeeps == ASSUME TuningInv, Replace PROVE TuningInv'
<1>1. /\ candidates' = merged.candidates /\ tunedIn' = merged.tunedIn /\ natrIn' = merged.natrIn
      /\ v1In' = merged.v1In /\ v2In' = merged.v2In /\ version' = version + 1
      /\ pass' = Keys(merged.tunedIn) /\ merged' = NoSnapshot /\ stage' = "bridging"
  BY DEF Replace
<1>2. UNCHANGED <<tuning, dynamic, target, written, cached, settings, startupVars>>
  BY DEF Replace
<1>3. pass = {} /\ target = {}
  BY DEF TuningInv, InStep, Replace
<1>4. merged \in Snapshots /\ NoSnapshot \in Snapshots
  BY TuningBounds DEF TuningInv, TuningTypeOK, RefresherTyped, NoSnapshot, Nowhere, Snapshots
<1>5. /\ candidates' \subseteq Universe /\ tunedIn' \in [Universe -> Tunings] /\ natrIn' \in [Universe -> Tunings]
      /\ v1In' \in [Universe -> Tunings] /\ v2In' \in [Universe -> Tunings]
  BY <1>1, <1>4 DEF Snapshots
<1>6. pass' \subseteq Universe /\ (\A s \in pass' : tunedIn'[s] # 0)
  BY <1>1 DEF Keys
<1>7. version' \in Nat /\ version' > 0
  BY <1>1 DEF TuningInv, TuningTypeOK, RefresherTyped
<1>8. RefresherTyped'
  <2>1. merged' \in Snapshots /\ stage' \in {"waiting", "discovered", "caching", "bridging"}
    BY <1>1, <1>4
  <2>2. dynamic' \subseteq Universe /\ target' \subseteq Universe /\ cached' \subseteq Universe
    BY <1>2 DEF TuningInv, TuningTypeOK, RefresherTyped
  <2>3. tuning' \in 1 .. MaxTunings /\ written' \in 0 .. 5
    BY <1>2 DEF TuningInv, TuningTypeOK, RefresherTyped
  <2>4. QED
    BY <1>5, <1>6, <1>7, <2>1, <2>2, <2>3 DEF RefresherTyped
<1>9. EnginesTyped' /\ BeingBuilt'
  BY <1>2 DEF TuningInv, TuningTypeOK, EnginesTyped, BeingBuilt, startupVars
<1>10. \A s \in Universe : WholeFor(merged, s)
  BY DEF TuningInv, InStep, Replace
<1>11. SnapshotIsWhole'
  BY <1>1, <1>10 DEF SnapshotIsWhole, WholeFor
<1>12. InStep'
  BY <1>1, <1>2, <1>3, <1>6, <1>7 DEF InStep
<1>13. ASSUME NEW s \in Universe PROVE Agree(s)'
  <2>1. tunedIn'[s] \in Tunings
    BY <1>5
  <2>2. natrIn'[s] = tunedIn'[s] /\ v1In'[s] = tunedIn'[s] /\ v2In'[s] = tunedIn'[s]
    BY <1>1, <1>10 DEF WholeFor
  <2>3. QED
    BY <2>1, <2>2 DEF Agree
<1>14. ASSUME NEW s \in Universe PROVE Uniform(s)' /\ HalfWritten(s)' /\ BuiltFromTwo(s)'
  BY <1>2, <1>3 DEF TuningInv, Uniform, HalfWritten, BuiltFromTwo, startupVars
<1>15. ASSUME NEW s \in Universe PROVE TwoTunings(s)'
  BY <1>2, <1>3 DEF TuningInv, TwoTunings, OldOrNew, startupVars
<1>16. QED
  BY <1>8, <1>9, <1>11, <1>12, <1>13, <1>14, <1>15 DEF TuningInv, TuningTypeOK

LEMMA EndPassKeeps == ASSUME TuningInv, EndPass PROVE TuningInv'
<1>1. UNCHANGED <<stateVars, settings, startupVars, tuning, dynamic, merged, pass, target, written, cached>>
  BY DEF EndPass
<1>2. stage' = "waiting" /\ pass = {} /\ target = {}
  BY DEF EndPass
<1>3. RefresherTyped'
  BY <1>1, <1>2 DEF TuningInv, TuningTypeOK, RefresherTyped, stateVars
<1>4. InStep'
  BY <1>1, <1>2 DEF InStep
<1>5. QED
  BY <1>1, <1>3, <1>4, NothingPublished DEF TuningInv, TuningTypeOK

\* Turning to a symbol: its engine does not start, its settings are of one tuning, and the
\* one to be written is the second.
LEMMA TurnToKeeps == ASSUME TuningInv, NEW t \in Universe, TurnTo(t) PROVE TuningInv'
<1>1. UNCHANGED <<stateVars, tuning, dynamic, stage, merged, cached, settings, startupVars>>
  BY DEF TurnTo
<1>2. /\ stage = "bridging" /\ target = {} /\ t \in pass /\ pass' = pass \ {t}
      /\ target' \subseteq {t} /\ (t \in target' => ~ Busy(t)) /\ written' = 0
  BY DEF TurnTo
<1>3. RefresherTyped'
  BY <1>1, <1>2 DEF TuningInv, TuningTypeOK, RefresherTyped, stateVars
<1>4. EnginesTyped' /\ BeingBuilt' /\ SnapshotIsWhole'
  BY <1>1 DEF TuningInv, TuningTypeOK, EnginesTyped, BeingBuilt, SnapshotIsWhole, startupVars, stateVars
<1>5. InStep'
  BY <1>1, <1>2 DEF TuningInv, InStep, stateVars
<1>6. ASSUME NEW s \in Universe PROVE Agree(s)' /\ Uniform(s)' /\ HalfWritten(s)' /\ BuiltFromTwo(s)'
  <2>1. Agree(s)' /\ BuiltFromTwo(s)'
    BY <1>1 DEF TuningInv, Agree, BuiltFromTwo, stateVars, startupVars
  <2>2. Uniform(s)'
    BY <1>1, <1>2 DEF TuningInv, Uniform
  <2>3. HalfWritten(s)'
    BY <1>2 DEF HalfWritten
  <2>4. QED
    BY <2>1, <2>2, <2>3
<1>7. ASSUME NEW s \in Universe PROVE TwoTunings(s)'
  <2>1. CASE s \notin target'
    BY <1>1, <1>2, <2>1 DEF TuningInv, TwoTunings, OldOrNew, startupVars
  <2>2. CASE s \in target'
    <3>1. s = t /\ s \notin building /\ s \notin target
      BY <1>2, <2>2 DEF TuningInv, BeingBuilt, Busy
    <3>2. tunedIn[s] \in 1 .. MaxTunings
      BY <1>2, <3>1, TuningBounds DEF TuningInv, TuningTypeOK, RefresherTyped, InStep, Tunings
    <3>3. PICK old \in Tunings : \A x \in SettingNames : settings[s][x] = old
      <4>1. settings[s] \in [SettingNames -> Tunings] /\ "size" \in SettingNames
        BY DEF TuningInv, TuningTypeOK, EnginesTyped, SettingNames
      <4>2. \A x \in SettingNames : settings[s][x] = settings[s]["size"]
        BY <3>1, <4>1 DEF TuningInv, Uniform
      <4>3. QED
        BY <4>1, <4>2
    <3>4. PICK first \in 1 .. MaxTunings : old \in {0, first}
      BY TuningBounds DEF Tunings
    <3>5. OldOrNew(s, first, tunedIn[s])'
      BY <1>1, <3>1, <3>3, <3>4 DEF OldOrNew, stateVars, startupVars
    <3>6. tunedIn'[s] = tunedIn[s]
      BY <1>1 DEF stateVars
    <3>7. QED
      BY <3>2, <3>4, <3>5, <3>6 DEF TwoTunings
  <2>3. QED
    BY <2>1, <2>2
<1>8. QED
  BY <1>3, <1>4, <1>5, <1>6, <1>7 DEF TuningInv, TuningTypeOK

\* A setting of this tuning is the second that may be read, and no third.
LEMMA WriteKeeps == ASSUME TuningInv, NEW t \in Universe, WriteSetting(t) PROVE TuningInv'
<1> DEFINE x == WriteOrder[written + 1]
           Now == [settings[t] EXCEPT ![x] = Source(x, t)]
<1>1. UNCHANGED <<stateVars, tuning, dynamic, stage, merged, pass, target, cached, startupVars>>
  BY DEF WriteSetting
<1>2. t \in target /\ settings' = [settings EXCEPT ![t] = Now] /\ written' = written + 1
  BY DEF WriteSetting
<1>3. written \in 0 .. 4 /\ written + 1 \in 1 .. 5
  BY DEF WriteSetting, WriteOrder, TuningInv, TuningTypeOK, RefresherTyped
<1>4. /\ \A i \in 1 .. 5 : WriteOrder[i] \in SettingNames
      /\ \A i, j \in 1 .. 5 : WriteOrder[i] = WriteOrder[j] => i = j
  BY DEF WriteOrder, SettingNames
<1>5. Source(x, t) = tunedIn[t] /\ tunedIn[t] \in Tunings
  <2>1. natrIn[t] = tunedIn[t]
    BY <1>2 DEF TuningInv, InStep, SnapshotIsWhole
  <2>2. QED
    BY <2>1 DEF Source, TuningInv, TuningTypeOK, RefresherTyped
<1>6. settings[t] \in [SettingNames -> Tunings] /\ x \in SettingNames
  BY <1>3, <1>4 DEF TuningInv, TuningTypeOK, EnginesTyped
<1>7. /\ Now \in [SettingNames -> Tunings]
      /\ \A y \in SettingNames : Now[y] = IF y = x THEN tunedIn[t] ELSE settings[t][y]
  BY <1>5, <1>6
<1>8. settings \in [Universe -> [SettingNames -> Tunings]]
  BY DEF TuningInv, TuningTypeOK, EnginesTyped
<1> HIDE DEF Now
<1>9. /\ settings' \in [Universe -> [SettingNames -> Tunings]] /\ settings'[t] = Now
      /\ \A s \in Universe : s # t => settings'[s] = settings[s]
  BY <1>2, <1>7, <1>8
<1>10. RefresherTyped'
  BY <1>1, <1>2, <1>3 DEF TuningInv, TuningTypeOK, RefresherTyped, stateVars
<1>11. EnginesTyped'
  BY <1>1, <1>9 DEF TuningInv, TuningTypeOK, EnginesTyped, startupVars
<1>12. BeingBuilt' /\ SnapshotIsWhole' /\ InStep'
  BY <1>1 DEF TuningInv, BeingBuilt, SnapshotIsWhole, InStep, WholeFor, startupVars, stateVars
<1>13. ASSUME NEW s \in Universe PROVE Agree(s)' /\ BuiltFromTwo(s)'
  BY <1>1 DEF TuningInv, Agree, BuiltFromTwo, stateVars, startupVars
<1>14. \A s \in Universe : s \in target <=> s = t
  BY <1>2 DEF TuningInv, InStep
<1>15. ASSUME NEW s \in Universe PROVE Uniform(s)'
  BY <1>1, <1>2, <1>9, <1>14 DEF TuningInv, Uniform
<1>16. ASSUME NEW s \in Universe PROVE HalfWritten(s)'
  <2> SUFFICES ASSUME s = t, NEW i \in 1 .. 5, i <= written' PROVE settings'[s][WriteOrder[i]] = tunedIn'[s]
    BY <1>1, <1>14 DEF HalfWritten
  <2>1. tunedIn'[s] = tunedIn[s] /\ settings'[s] = Now /\ WriteOrder[i] \in SettingNames
    BY <1>1, <1>4, <1>9 DEF stateVars
  <2>2. CASE i = written + 1
    BY <1>7, <2>1, <2>2
  <2>3. CASE i # written + 1
    <3>1. i <= written
      BY <1>2, <1>3, <2>3
    <3>2. settings[t][WriteOrder[i]] = tunedIn[t]
      BY <1>2, <3>1 DEF TuningInv, HalfWritten
    <3>3. QED
      BY <1>7, <2>1, <3>2
  <2>4. QED
    BY <2>2, <2>3
<1>17. ASSUME NEW s \in Universe PROVE TwoTunings(s)'
  <2>1. PICK old, new \in 1 .. MaxTunings : OldOrNew(s, old, new)
    BY DEF TuningInv, TwoTunings
  <2>2. \A y \in SettingNames : settings'[s][y] \in {0, old, new}
    <3>1. CASE s = t
      BY <1>2, <1>7, <1>9, <2>1, <3>1 DEF OldOrNew
    <3>2. CASE s # t
      BY <1>9, <2>1, <3>2 DEF OldOrNew
    <3>3. QED
      BY <3>1, <3>2
  <2>3. OldOrNew(s, old, new)'
    BY <1>1, <2>1, <2>2 DEF OldOrNew, stateVars, startupVars
  <2>4. QED
    BY <2>3 DEF TwoTunings
<1>18. QED
  BY <1>10, <1>11, <1>12, <1>13, <1>15, <1>16, <1>17 DEF TuningInv, TuningTypeOK

\* All five written: they are of one tuning again.
LEMMA TurnAwayKeeps == ASSUME TuningInv, TurnAway PROVE TuningInv'
<1>1. UNCHANGED <<stateVars, tuning, dynamic, stage, merged, pass, cached, settings, startupVars>>
  BY DEF TurnAway
<1>2. written = 5 /\ target' = {} /\ written' = 0
  BY DEF TurnAway, WriteOrder
<1>3. RefresherTyped'
  BY <1>1, <1>2 DEF TuningInv, TuningTypeOK, RefresherTyped, stateVars
<1>4. EnginesTyped' /\ BeingBuilt' /\ SnapshotIsWhole'
  BY <1>1 DEF TuningInv, TuningTypeOK, EnginesTyped, BeingBuilt, SnapshotIsWhole, startupVars, stateVars
<1>5. InStep'
  BY <1>1, <1>2 DEF TuningInv, InStep, WholeFor, stateVars
<1>6. ASSUME NEW s \in Universe PROVE Agree(s)' /\ HalfWritten(s)' /\ BuiltFromTwo(s)'
  BY <1>1, <1>2 DEF TuningInv, Agree, HalfWritten, BuiltFromTwo, stateVars, startupVars
<1>7. ASSUME NEW s \in Universe PROVE Uniform(s)'
  <2>1. CASE s \in target
    <3>1. \A y \in SettingNames : \E i \in 1 .. 5 : WriteOrder[i] = y
      <4> SUFFICES ASSUME NEW y \in SettingNames PROVE \E i \in 1 .. 5 : WriteOrder[i] = y
        OBVIOUS
      <4>1. WriteOrder[1] = "size" /\ WriteOrder[2] = "grid" /\ WriteOrder[3] = "inventory"
            /\ WriteOrder[4] = "order" /\ WriteOrder[5] = "spacing"
        BY DEF WriteOrder
      <4>2. y \in {"size", "grid", "inventory", "order", "spacing"}
        BY DEF SettingNames
      <4>3. QED
        BY <4>1, <4>2
    <3>2. \A i \in 1 .. 5 : settings[s][WriteOrder[i]] = tunedIn[s]
      BY <1>2, <2>1 DEF TuningInv, HalfWritten
    <3>3. QED
      BY <1>1, <3>1, <3>2 DEF Uniform
  <2>2. CASE s \notin target
    BY <1>1, <2>2 DEF TuningInv, Uniform
  <2>3. QED
    BY <2>1, <2>2
<1>8. ASSUME NEW s \in Universe PROVE TwoTunings(s)'
  BY <1>1, <1>2 DEF TuningInv, TwoTunings, OldOrNew, startupVars
<1>9. QED
  BY <1>3, <1>4, <1>5, <1>6, <1>7, <1>8 DEF TuningInv, TuningTypeOK

\* What a step of the engines need not show.
LEMMA RefresherRests ==
  ASSUME TuningInv, UNCHANGED <<stateVars, refresherVars, settings>>, cached' \subseteq Universe
  PROVE  /\ RefresherTyped' /\ InStep' /\ SnapshotIsWhole'
         /\ \A s \in Universe : Agree(s)' /\ Uniform(s)' /\ HalfWritten(s)'
<1>1. RefresherTyped'
  BY DEF TuningInv, TuningTypeOK, RefresherTyped, stateVars, refresherVars
<1>2. InStep' /\ SnapshotIsWhole'
  BY DEF TuningInv, InStep, WholeFor, SnapshotIsWhole, stateVars, refresherVars
<1>3. \A s \in Universe : Agree(s)' /\ Uniform(s)' /\ HalfWritten(s)'
  BY DEF TuningInv, Agree, Uniform, HalfWritten, stateVars, refresherVars
<1>4. QED
  BY <1>1, <1>2, <1>3

LEMMA LookKeeps == ASSUME TuningInv, NEW t \in Universe, Expire(t) \/ Select(t) PROVE TuningInv'
<1>1. UNCHANGED <<stateVars, refresherVars, settings, engine, building, place, readings, builtFrom>>
  BY DEF Expire, Select, startupVars
<1>2. cached' \subseteq Universe /\ selected' \subseteq Universe
  BY DEF Expire, Select, startupVars, TuningInv, TuningTypeOK, RefresherTyped, EnginesTyped
<1>3. EnginesTyped' /\ BeingBuilt'
  BY <1>1, <1>2 DEF TuningInv, TuningTypeOK, EnginesTyped, BeingBuilt
<1>4. ASSUME NEW s \in Universe PROVE TwoTunings(s)' /\ BuiltFromTwo(s)'
  BY <1>1 DEF TuningInv, TwoTunings, OldOrNew, BuiltFromTwo, stateVars, refresherVars
<1>5. QED
  BY <1>1, <1>2, <1>3, <1>4, RefresherRests DEF TuningInv, TuningTypeOK

\* One engine changes its state.
LEMMA EngineTurns ==
  ASSUME TuningInv, NEW t \in Universe,
         NEW e \in {"ABSENT", "ACTIVATING", "ACTIVE", "GRACEFUL_EXIT", "STOPPED", "FAILED"},
         engine' = [engine EXCEPT ![t] = e]
  PROVE  /\ engine' \in [Universe -> {"ABSENT", "ACTIVATING", "ACTIVE", "GRACEFUL_EXIT", "STOPPED", "FAILED"}]
         /\ engine'[t] = e /\ \A s \in Universe : s # t => engine'[s] = engine[s]
BY DEF TuningInv, TuningTypeOK, EnginesTyped

LEMMA ActivateKeeps == ASSUME TuningInv, NEW t \in Universe, Activate(t) PROVE TuningInv'
<1>1. UNCHANGED <<stateVars, refresherVars, cached, settings, builtFrom>>
  BY DEF Activate
<1>2. /\ engine' = [engine EXCEPT ![t] = "ACTIVATING"] /\ selected' = selected \ {t}
      /\ building = {} /\ building' = {t} /\ place' = 1 /\ readings' = {}
  BY DEF Activate
<1>3. /\ engine' \in [Universe -> {"ABSENT", "ACTIVATING", "ACTIVE", "GRACEFUL_EXIT", "STOPPED", "FAILED"}]
      /\ engine'[t] = "ACTIVATING" /\ \A s \in Universe : s # t => engine'[s] = engine[s]
  BY <1>2, EngineTurns
<1>4. cached' \subseteq Universe
  BY <1>1 DEF TuningInv, TuningTypeOK, RefresherTyped
<1>5. EnginesTyped'
  BY <1>1, <1>2, <1>3 DEF TuningInv, TuningTypeOK, EnginesTyped
<1>6. BeingBuilt'
  BY <1>2, <1>3 DEF TuningInv, BeingBuilt
<1>7. ASSUME NEW s \in Universe PROVE TwoTunings(s)'
  BY <1>1, <1>2 DEF TuningInv, TwoTunings, OldOrNew, stateVars, refresherVars
<1>8. ASSUME NEW s \in Universe PROVE BuiltFromTwo(s)'
  BY <1>1, <1>3 DEF TuningInv, BuiltFromTwo
<1>9. QED
  BY <1>1, <1>4, <1>5, <1>6, <1>7, <1>8, RefresherRests DEF TuningInv, TuningTypeOK

LEMMA ReadKeeps == ASSUME TuningInv, NEW t \in Universe, ReadSetting(t) PROVE TuningInv'
<1> DEFINE seen == settings[t][ReadOrder[place]]
<1>1. UNCHANGED <<stateVars, refresherVars, cached, settings, selected, engine, building, builtFrom>>
  BY DEF ReadSetting
<1>2. t \in building /\ place <= 6 /\ seen # 0 /\ readings' = readings \cup {seen} /\ place' = place + 1
  BY DEF ReadSetting, ReadOrder
<1>3. place \in 1 .. 6 /\ place' \in 1 .. 7
  BY <1>2 DEF TuningInv, TuningTypeOK, EnginesTyped
<1>4. ReadOrder[place] \in SettingNames
  BY <1>3 DEF ReadOrder, SettingNames
<1>5. seen \in Tunings
  BY <1>4 DEF TuningInv, TuningTypeOK, EnginesTyped
<1> HIDE DEF seen
<1>6. cached' \subseteq Universe
  BY <1>1 DEF TuningInv, TuningTypeOK, RefresherTyped
<1>7. EnginesTyped' /\ BeingBuilt'
  BY <1>1, <1>2, <1>3, <1>5 DEF TuningInv, TuningTypeOK, EnginesTyped, BeingBuilt
<1>8. ASSUME NEW s \in Universe PROVE TwoTunings(s)'
  <2>1. PICK old, new \in 1 .. MaxTunings : OldOrNew(s, old, new)
    BY DEF TuningInv, TwoTunings
  <2>2. s \in building => s = t
    BY <1>2 DEF TuningInv, BeingBuilt
  <2>3. s = t => seen \in {old, new}
    BY <1>2, <1>4, <2>1 DEF OldOrNew, seen
  <2>4. s \in building' => readings' \subseteq {old, new}
    BY <1>1, <1>2, <2>1, <2>2, <2>3 DEF OldOrNew
  <2>5. OldOrNew(s, old, new)'
    BY <1>1, <2>1, <2>4 DEF OldOrNew, stateVars, refresherVars
  <2>6. QED
    BY <2>5 DEF TwoTunings
<1>9. ASSUME NEW s \in Universe PROVE BuiltFromTwo(s)'
  BY <1>1 DEF TuningInv, BuiltFromTwo
<1>10. QED
  BY <1>1, <1>6, <1>7, <1>8, <1>9, RefresherRests DEF TuningInv, TuningTypeOK

LEMMA FailKeeps == ASSUME TuningInv, NEW t \in Universe, StartupFails(t) PROVE TuningInv'
<1>1. UNCHANGED <<stateVars, refresherVars, cached, settings, selected, builtFrom>>
  BY DEF StartupFails
<1>2. /\ engine' = [engine EXCEPT ![t] = "FAILED"] /\ t \in building
      /\ building' = {} /\ place' = 1 /\ readings' = {}
  BY DEF StartupFails
<1>3. /\ engine' \in [Universe -> {"ABSENT", "ACTIVATING", "ACTIVE", "GRACEFUL_EXIT", "STOPPED", "FAILED"}]
      /\ engine'[t] = "FAILED" /\ \A s \in Universe : s # t => engine'[s] = engine[s]
  BY <1>2, EngineTurns
<1>4. cached' \subseteq Universe
  BY <1>1 DEF TuningInv, TuningTypeOK, RefresherTyped
<1>5. EnginesTyped'
  BY <1>1, <1>2, <1>3 DEF TuningInv, TuningTypeOK, EnginesTyped
<1>6. BeingBuilt'
  BY <1>2, <1>3 DEF TuningInv, BeingBuilt
<1>7. ASSUME NEW s \in Universe PROVE TwoTunings(s)' /\ BuiltFromTwo(s)'
  BY <1>1, <1>2, <1>3 DEF TuningInv, TwoTunings, OldOrNew, BuiltFromTwo, stateVars, refresherVars
<1>8. QED
  BY <1>1, <1>4, <1>5, <1>6, <1>7, RefresherRests DEF TuningInv, TuningTypeOK

\* The engine has read something, and of two tunings at most.
LEMMA StartKeeps == ASSUME TuningInv, NEW t \in Universe, Start(t) PROVE TuningInv'
<1>1. UNCHANGED <<stateVars, refresherVars, cached, settings, selected>>
  BY DEF Start
<1>2. /\ engine' = [engine EXCEPT ![t] = "ACTIVE"] /\ builtFrom' = [builtFrom EXCEPT ![t] = readings]
      /\ t \in building /\ place = 7 /\ building' = {} /\ place' = 1 /\ readings' = {}
  BY DEF Start, ReadOrder
<1>3. /\ engine' \in [Universe -> {"ABSENT", "ACTIVATING", "ACTIVE", "GRACEFUL_EXIT", "STOPPED", "FAILED"}]
      /\ engine'[t] = "ACTIVE" /\ \A s \in Universe : s # t => engine'[s] = engine[s]
  BY <1>2, EngineTurns
<1>4. cached' \subseteq Universe
  BY <1>1 DEF TuningInv, TuningTypeOK, RefresherTyped
<1>5. /\ builtFrom' \in [Universe -> SUBSET Tunings] /\ builtFrom'[t] = readings
      /\ \A s \in Universe : s # t => builtFrom'[s] = builtFrom[s]
  BY <1>2 DEF TuningInv, TuningTypeOK, EnginesTyped
<1>6. EnginesTyped'
  BY <1>1, <1>2, <1>3, <1>5 DEF TuningInv, TuningTypeOK, EnginesTyped
<1>7. BeingBuilt'
  BY <1>2, <1>3 DEF TuningInv, BeingBuilt
<1>8. ASSUME NEW s \in Universe PROVE TwoTunings(s)'
  BY <1>1, <1>2 DEF TuningInv, TwoTunings, OldOrNew, stateVars, refresherVars
<1>9. ASSUME NEW s \in Universe PROVE BuiltFromTwo(s)'
  <2>1. CASE s = t
    BY <1>2, <1>5, <2>1 DEF TuningInv, TwoTunings, OldOrNew, BeingBuilt, BuiltFromTwo
  <2>2. CASE s # t
    BY <1>3, <1>5, <2>2 DEF TuningInv, BuiltFromTwo
  <2>3. QED
    BY <2>1, <2>2
<1>10. QED
  BY <1>1, <1>4, <1>6, <1>7, <1>8, <1>9, RefresherRests DEF TuningInv, TuningTypeOK

LEMMA WindDownKeeps == ASSUME TuningInv, NEW t \in Universe, WindDown(t) PROVE TuningInv'
<1>1. UNCHANGED <<stateVars, refresherVars, cached, settings, selected, building, place, readings>>
  BY DEF WindDown
<1>2. PICK e \in {"GRACEFUL_EXIT", "STOPPED"} :
        /\ engine' = [engine EXCEPT ![t] = e] /\ engine[t] \in {"ACTIVE", "GRACEFUL_EXIT"}
        /\ builtFrom' = (IF e = "STOPPED" THEN [builtFrom EXCEPT ![t] = {}] ELSE builtFrom)
  BY DEF WindDown
<1>3. /\ engine' \in [Universe -> {"ABSENT", "ACTIVATING", "ACTIVE", "GRACEFUL_EXIT", "STOPPED", "FAILED"}]
      /\ engine'[t] = e /\ \A s \in Universe : s # t => engine'[s] = engine[s]
  BY <1>2, EngineTurns
<1>4. cached' \subseteq Universe
  BY <1>1 DEF TuningInv, TuningTypeOK, RefresherTyped
<1>5. /\ builtFrom' \in [Universe -> SUBSET Tunings] /\ (e # "STOPPED" => builtFrom'[t] = builtFrom[t])
      /\ \A s \in Universe : s # t => builtFrom'[s] = builtFrom[s]
  BY <1>2 DEF TuningInv, TuningTypeOK, EnginesTyped
<1>6. EnginesTyped'
  BY <1>1, <1>3, <1>5 DEF TuningInv, TuningTypeOK, EnginesTyped
<1>7. BeingBuilt'
  BY <1>1, <1>2, <1>3 DEF TuningInv, BeingBuilt
<1>8. ASSUME NEW s \in Universe PROVE TwoTunings(s)'
  BY <1>1 DEF TuningInv, TwoTunings, OldOrNew, stateVars, refresherVars
<1>9. ASSUME NEW s \in Universe PROVE BuiltFromTwo(s)'
  <2>1. CASE s = t
    BY <1>2, <1>3, <1>5, <2>1 DEF TuningInv, BuiltFromTwo
  <2>2. CASE s # t
    BY <1>3, <1>5, <2>2 DEF TuningInv, BuiltFromTwo
  <2>3. QED
    BY <2>1, <2>2
<1>10. QED
  BY <1>1, <1>4, <1>6, <1>7, <1>8, <1>9, RefresherRests DEF TuningInv, TuningTypeOK

LEMMA TuningInvariant == TuningSpec => []TuningInv
<1>1. TuningInv /\ [TuningNext]_tuningVars => TuningInv'
  <2> SUFFICES ASSUME TuningInv, [TuningNext]_tuningVars PROVE TuningInv'
    OBVIOUS
  <2>1. CASE Refresh
    BY <2>1, DiscoverKeeps, RetuneKeeps, ReplaceKeeps, TurnAwayKeeps, EndPassKeeps, CachePutKeeps,
       TurnToKeeps, WriteKeeps DEF Refresh
  <2>2. ASSUME NEW s \in Universe,
               Expire(s) \/ Select(s) \/ Activate(s) \/ ReadSetting(s) \/ StartupFails(s) \/ Start(s) \/ WindDown(s)
        PROVE  TuningInv'
    BY <2>2, LookKeeps, ActivateKeeps, ReadKeeps, FailKeeps, StartKeeps, WindDownKeeps
  <2>3. CASE UNCHANGED tuningVars
    <3>1. UNCHANGED <<stateVars, refresherVars, cached, settings, startupVars>>
      BY <2>3 DEF tuningVars
    <3>2. cached' \subseteq Universe
      BY <3>1 DEF TuningInv, TuningTypeOK, RefresherTyped
    <3>3. UNCHANGED <<target, written>>
      BY <3>1 DEF refresherVars
    <3>4. QED
      BY <3>1, <3>2, <3>3, RefresherRests, NothingPublished DEF TuningInv, TuningTypeOK
  <2>4. QED
    BY <2>1, <2>2, <2>3 DEF TuningNext
<1>2. QED
  BY <1>1, TuningStarts, PTL DEF TuningSpec

\* For any universe and any failures: after the first refresh the snapshot holds exactly the
\* candidates, each with entries of one tuning, and no engine is built from settings of more
\* than two tunings.
THEOREM SettingsStayWhole == TuningSpec => []TuningsStayWhole
<1>1. TuningInv => EngineMixesTwo
  <2> SUFFICES ASSUME TuningInv, NEW s \in Universe, Busy(s), s \notin building
               PROVE  \E old, new \in 1 .. MaxTunings : builtFrom[s] # {} /\ builtFrom[s] \subseteq {old, new}
    BY DEF EngineMixesTwo
  <2>1. engine[s] \in {"ACTIVE", "GRACEFUL_EXIT"}
    BY DEF TuningInv, BeingBuilt, Busy
  <2>2. QED
    BY <2>1 DEF TuningInv, BuiltFromTwo
<1>2. TuningInv => TuningsStayWhole
  BY <1>1 DEF TuningInv, TuningsStayWhole
<1>3. QED
  BY <1>2, TuningInvariant, PTL

-----------------------------------------------------------------------------
-----------------------------------------------------------------------------
\* The exchange port: an order keeps its symbol, its token tells it, and so does whatever
\* is registered or on its way.

States == {"unsent", "sent", "resting", "filled", "gone"}
Orders == [state : States, symbol : Symbols \cup {NoName}, token : Tokens \cup {NoName},
           legacy : BOOLEAN, filled : BOOLEAN]
Requests == [op : Writes \cup {"none", "positions", "orders"}, id : OrderIds \cup {NoName},
             symbol : Symbols \cup Tokens \cup {NoName}, tries : Nat, replacing : BOOLEAN,
             counted : SUBSET OrderIds]

TellsSymbol(o) ==
  /\ o.state = "unsent" => o = Unsent
  /\ o.state # "unsent" => o.symbol \in Symbols
  /\ o.token # NoName => o.symbol \in Symbols /\ o.token \in TokensFor(o.symbol)
  /\ o.legacy => o.symbol \in Ascii /\ o.token = o.symbol
  /\ o.state \in {"unsent", "sent"} => ~o.filled

VenueFits(v) == v \in [OrderIds -> Orders] /\ \A c \in OrderIds : TellsSymbol(v[c])
SameButState(o, p) ==
  o.symbol = p.symbol /\ o.token = p.token /\ o.legacy = p.legacy /\ (o.filled => p.filled) /\ p.state # "unsent"
Follows(v, w) == \A c \in OrderIds : v[c].state # "unsent" => SameButState(v[c], w[c])
SpentIn(v, S) == \A c \in OrderIds : v[c].state = "resting" /\ v[c].filled => c \in S

Fits(r, v) ==
  /\ r \in Requests
  /\ r.op \in {"place", "market", "cancel"} => r.id \in OrderIds /\ v[r.id].state # "unsent"
  /\ r.op \in {"place", "market"} => r.symbol = v[r.id].symbol
  /\ r.op = "cancel" => r.symbol = v[r.id].symbol \/ r.symbol \notin Symbols
  /\ r.replacing => r.op = "cancel" /\ r.symbol \in Ascii
  /\ r.op = "orders" => \A c \in r.counted : v[c].filled
  /\ r.op = "none" => r = NoRequest

SetupFits ==
  /\ setup.mainnet => setup.whitelist # {}
  /\ setup.whitelist \subseteq Symbols
  /\ setup = Down => request = NoRequest
KnownFits ==
  /\ known \in [OrderIds -> Symbols \cup {NoName}]
  /\ \A c \in OrderIds : known[c] # NoName => known[c] = venueOrder[c].symbol
LateFits == \A r \in late : r.op \in {"place", "market", "cancel"} /\ Fits(r, venueOrder)
AnswerFits ==
  /\ answer.kind \in {"unknown", "snapshot"} => request = NoRequest
  /\ answer.kind = "unknown" => answer.id \in OrderIds /\ venueOrder[answer.id].state # "unsent"

PortInv ==
  /\ SetupFits /\ VenueFits(venueOrder) /\ KnownFits /\ Fits(request, venueOrder) /\ LateFits
  /\ SpentIn(venueOrder, strayed) /\ AnswerFits
  /\ UnknownMeansGone /\ NeverCountedTwice /\ MainnetIsFenced

LEMMA UnsentFits == Unsent \in Orders /\ TellsSymbol(Unsent) /\ Unsent.state = "unsent" /\ Unsent.symbol = NoName
BY DEF Unsent, Orders, States, TellsSymbol

LEMMA PortNames == /\ NoName \notin OrderIds /\ NoName \notin Symbols /\ NoName \notin Tokens
                   /\ Ascii \subseteq Symbols /\ Ascii \subseteq Tokens /\ Symbols \cap Tokens = Ascii
                   /\ \A c \in Setups : c.whitelist \subseteq Symbols
                   /\ Begins \in [Symbols -> SUBSET Tokens] /\ OwnIds \subseteq OrderIds
BY PortAssumption

LEMMA NoRequestFits == ASSUME NEW v PROVE Fits(NoRequest, v) /\ NoRequest.op = "none"
BY DEF NoRequest, Fits, Requests, Writes

\* A token tells symbols apart.
LEMMA TokenTells ==
  ASSUME NEW s \in Symbols, NEW t \in TokensFor(s), NEW u \in Symbols, Matches(u, t) \/ t = u
  PROVE  u = s
<1>1. CASE s \in Ascii
  <2>1. t = s
    BY <1>1 DEF TokensFor
  <2>2. CASE u \in Ascii
    BY <2>1, <2>2 DEF Matches
  <2>3. CASE u \notin Ascii
    <3>1. Begins[u] \cap Ascii = {}
      BY <2>3, PortAssumption
    <3>2. QED
      BY <1>1, <2>1, <2>3, <3>1 DEF Matches
  <2>4. QED
    BY <2>2, <2>3
<1>2. CASE s \notin Ascii
  <2>1. t \in Begins[s] /\ Begins[s] \cap Ascii = {}
    BY <1>2, PortAssumption DEF TokensFor
  <2>2. t \in Tokens /\ u \notin Ascii
    BY <2>1, PortNames DEF Matches
  <2>3. t \in Begins[u]
    BY <2>2, PortNames DEF Matches
  <2>4. u # s => Begins[s] \cap Begins[u] = {}
    BY <1>2, <2>2, PortAssumption
  <2>5. QED
    BY <2>1, <2>3, <2>4
<1>3. QED
  BY <1>1, <1>2

\* What an id is resolved to is its order's symbol, or no symbol.
LEMMA ResolvesRight ==
  ASSUME PortInv, NEW c \in OrderIds, Resolvable(c)
  PROVE  /\ venueOrder[c].state # "unsent"
         /\ Resolved(c) = venueOrder[c].symbol \/ Resolved(c) \notin Symbols
         /\ Resolved(c) \in Symbols \cup Tokens
<1>1. venueOrder[c] \in Orders /\ TellsSymbol(venueOrder[c]) /\ setup.whitelist \subseteq Symbols
  BY DEF PortInv, VenueFits, SetupFits
<1>2. known[c] # NoName => known[c] = venueOrder[c].symbol /\ known[c] \in Symbols
  BY DEF PortInv, KnownFits
<1>3. venueOrder[c].state # "unsent"
  BY <1>1, <1>2, PortNames DEF TellsSymbol, Unsent, Resolvable
<1>4. CASE known[c] # NoName
  BY <1>2, <1>3, <1>4 DEF Resolved
<1>5. CASE known[c] = NoName
  <2> DEFINE t == venueOrder[c].token
             s == venueOrder[c].symbol
  <2>1. t # NoName /\ s \in Symbols /\ t \in TokensFor(s) /\ Resolved(c) = FromToken(t)
    BY <1>1, <1>5 DEF Resolvable, TellsSymbol, Resolved
  <2>2. t \in Tokens
    BY <1>1, <2>1 DEF Orders
  <2> HIDE DEF t, s
  <2>3. CASE t \notin setup.whitelist /\ \E u \in setup.whitelist : Matches(u, t)
    <3>1. FromToken(t) \in setup.whitelist /\ Matches(FromToken(t), t)
      BY <2>3 DEF FromToken
    <3>2. FromToken(t) = s
      BY <1>1, <2>1, <3>1, TokenTells
    <3>3. QED
      BY <1>3, <2>1, <3>2 DEF s
  <2>4. CASE ~(t \notin setup.whitelist /\ \E u \in setup.whitelist : Matches(u, t))
    <3>1. FromToken(t) = t
      BY <2>4 DEF FromToken
    <3>2. t \in Symbols => t = s
      BY <2>1, TokenTells
    <3>3. QED
      BY <1>3, <2>1, <2>2, <3>1, <3>2 DEF s, t
  <2>5. QED
    BY <2>3, <2>4
<1>6. QED
  BY <1>4, <1>5

\* What is remembered besides a token is a symbol.
LEMMA RememberedIsSymbol ==
  ASSUME PortInv, NEW c \in OrderIds, Resolved(c) # venueOrder[c].token
  PROVE  Resolved(c) \in Symbols
BY DEF PortInv, KnownFits, SetupFits, Resolved, FromToken

-----------------------------------------------------------------------------
\* What the venue does with an order.

LEMMA StillFits ==
  ASSUME NEW v, NEW w, Follows(v, w), VenueFits(v), NEW r, Fits(r, v)
  PROVE  Fits(r, w)
<1>1. \A c \in OrderIds : v[c].filled => w[c].filled
  BY DEF Follows, SameButState, VenueFits, TellsSymbol, Unsent
<1>2. r.counted \subseteq OrderIds
  BY DEF Fits, Requests
<1>3. \A c \in OrderIds : v[c].state # "unsent" => w[c].symbol = v[c].symbol /\ w[c].state # "unsent"
  BY DEF Follows, SameButState
<1>4. QED
  BY <1>1, <1>2, <1>3 DEF Fits

LEMMA ExecutedFits ==
  ASSUME NEW r, Fits(r, venueOrder), VenueFits(venueOrder), SpentIn(venueOrder, strayed)
  PROVE  /\ VenueFits(Executed(r)) /\ Follows(venueOrder, Executed(r))
         /\ SpentIn(Executed(r), strayed \cup Again(r))
         /\ \A c \in OrderIds : Executed(r)[c].state = "resting" =>
              c \in Resting \/ (r.op \in {"place", "market"} /\ c \in Touched(r))
         /\ Again(r) \subseteq Touched(r)
<1> DEFINE After(c) == [venueOrder[c] EXCEPT !.state = Becomes(r), !.filled = @ \/ r.op = "market"]
<1>1. Touched(r) \subseteq {c \in OrderIds : venueOrder[c].state # "unsent"}
  BY DEF Touched, Resting, Fits
<1>2. Becomes(r) \in {"resting", "filled", "gone"}
  BY DEF Becomes
<1>3. \A c \in OrderIds : /\ c \in Touched(r) => Executed(r)[c] = After(c)
                          /\ c \notin Touched(r) => Executed(r)[c] = venueOrder[c]
  BY DEF Executed
<1>4. ASSUME NEW c \in OrderIds, c \in Touched(r)
      PROVE  /\ After(c) \in Orders /\ TellsSymbol(After(c)) /\ SameButState(venueOrder[c], After(c))
             /\ After(c).state = Becomes(r) /\ (After(c).filled => venueOrder[c].filled \/ r.op = "market")
  <2>1. venueOrder[c] \in Orders /\ TellsSymbol(venueOrder[c]) /\ venueOrder[c].state # "unsent"
    BY <1>1, <1>4 DEF VenueFits
  <2>2. /\ After(c).state = Becomes(r) /\ After(c).symbol = venueOrder[c].symbol /\ After(c).token = venueOrder[c].token
        /\ After(c).legacy = venueOrder[c].legacy /\ After(c).filled = (venueOrder[c].filled \/ r.op = "market")
        /\ After(c) \in Orders
    BY <2>1, <1>2 DEF Orders, States
  <2> HIDE DEF After
  <2>3. QED
    BY <1>2, <2>1, <2>2 DEF TellsSymbol, SameButState
<1> HIDE DEF After
<1>5. VenueFits(Executed(r))
  <2>1. \A c \in OrderIds : Executed(r)[c] \in Orders /\ TellsSymbol(Executed(r)[c])
    BY <1>3, <1>4 DEF VenueFits
  <2>2. Executed(r) = [c \in OrderIds |-> Executed(r)[c]]
    BY DEF Executed
  <2>3. QED
    BY <2>1, <2>2 DEF VenueFits
<1>6. Follows(venueOrder, Executed(r))
  <2>1. ASSUME NEW c \in OrderIds, venueOrder[c].state # "unsent" PROVE SameButState(venueOrder[c], Executed(r)[c])
    BY <1>3, <1>4, <2>1 DEF SameButState
  <2>2. QED
    BY <2>1 DEF Follows
<1>7. \A c \in OrderIds : Executed(r)[c].state = "resting" =>
              c \in Resting \/ (r.op \in {"place", "market"} /\ c \in Touched(r))
  BY <1>3, <1>4 DEF Resting, Becomes
<1>8. SpentIn(Executed(r), strayed \cup Again(r))
  <2> SUFFICES ASSUME NEW c \in OrderIds, Executed(r)[c].state = "resting", Executed(r)[c].filled
               PROVE  c \in strayed \cup Again(r)
    BY DEF SpentIn
  <2>1. CASE c \notin Touched(r)
    BY <1>3, <2>1 DEF SpentIn
  <2>2. CASE c \in Touched(r)
    <3>1. r.op = "place" /\ venueOrder[c].filled
      BY <1>3, <1>4, <2>2 DEF Becomes
    <3>2. venueOrder[c].state # "sent"
      BY <3>1 DEF VenueFits, TellsSymbol
    <3>3. QED
      BY <2>2, <3>1, <3>2 DEF Again
  <2>3. QED
    BY <2>1, <2>2
<1>9. QED
  BY <1>5, <1>6, <1>7, <1>8 DEF Again

-----------------------------------------------------------------------------
\* What a step owes that lets after follow their course and keeps the requests it finds.
LEMMA PortFrame ==
  ASSUME PortInv, VenueFits(venueOrder'), Follows(venueOrder, venueOrder'), SpentIn(venueOrder', strayed'),
         SetupFits', Fits(request', venueOrder'), AnswerFits', UnknownMeansGone', NeverCountedTwice', MainnetIsFenced',
         \A r \in late' : r \in late \/ (r = request /\ r.op \in {"place", "market", "cancel"}),
         known' \in [OrderIds -> Symbols \cup {NoName}],
         \A c \in OrderIds : known'[c] \in {NoName, known[c], venueOrder'[c].symbol}
  PROVE  PortInv'
<1>1. LateFits'
  BY StillFits DEF PortInv, LateFits
<1>2. KnownFits'
  <2>1. ASSUME NEW c \in OrderIds, known'[c] # NoName PROVE known'[c] = venueOrder'[c].symbol
    <3>1. CASE known'[c] = known[c]
      <4>1. known[c] = venueOrder[c].symbol /\ known[c] \in Symbols
        BY <2>1, <3>1 DEF PortInv, KnownFits
      <4>2. venueOrder[c].state # "unsent"
        BY <4>1, PortNames DEF PortInv, VenueFits, TellsSymbol, Unsent
      <4>3. QED
        BY <3>1, <4>1, <4>2 DEF Follows, SameButState
    <3>2. QED
      BY <2>1, <3>1
  <2>2. QED
    BY <2>1 DEF KnownFits
<1>3. QED
  BY <1>1, <1>2 DEF PortInv

LEMMA SameVenue ==
  ASSUME VenueFits(venueOrder)
  PROVE  Follows(venueOrder, venueOrder)
BY DEF Follows, SameButState

LEMMA AnsweredAlready ==
  ASSUME PortInv, request # NoRequest
  PROVE  answer.kind \notin {"unknown", "snapshot"} /\ setup # Down
BY DEF PortInv, AnswerFits, SetupFits

\* A new order under an id nothing refers to.
NewlyOpened(v, n, s) == v[n].state = "sent" /\ v[n].symbol = s
LEMMA NewOrderFits ==
  ASSUME PortInv, NEW v, VenueFits(v), Follows(venueOrder, v), NEW S, SpentIn(v, S),
         NEW n \in OrderIds, venueOrder[n] = Unsent, NEW s \in Symbols, NEW t \in TokensFor(s)
  PROVE  \A w : w = [v EXCEPT ![n] = NewOrder(s, t)] =>
           VenueFits(w) /\ Follows(venueOrder, w) /\ SpentIn(w, S) /\ NewlyOpened(w, n, s)
<1> DEFINE o == NewOrder(s, t)
           w == [v EXCEPT ![n] = o]
<1>1. t \in Tokens
  BY PortNames DEF TokensFor
<1>2. /\ o \in Orders /\ o.state = "sent" /\ o.symbol = s /\ o.token = t /\ o.filled = FALSE /\ o.legacy = FALSE
  BY <1>1 DEF NewOrder, Unsent, Orders, States
<1>3. TellsSymbol(o)
  BY <1>2 DEF TellsSymbol
<1> HIDE DEF o
<1>4. v \in [OrderIds -> Orders]
  BY DEF VenueFits
<1>5. w \in [OrderIds -> Orders] /\ w[n] = o /\ \A c \in OrderIds : c # n => w[c] = v[c]
  BY <1>2, <1>4
<1> HIDE DEF w
<1>6. VenueFits(w)
  BY <1>3, <1>5 DEF VenueFits
<1>7. Follows(venueOrder, w)
  BY <1>5, UnsentFits DEF Follows
<1>8. SpentIn(w, S)
  BY <1>2, <1>5 DEF SpentIn
<1>9. QED
  BY <1>2, <1>5, <1>6, <1>7, <1>8 DEF w, o, NewlyOpened

\* How a call ends, given what became of the after meanwhile.
LEMMA EndCallFits ==
  ASSUME PortInv, NEW after, NEW kind \in {"ok", "unknown", "transient", "refused"}, EndCall(kind, after),
         request.op # "none", VenueFits(after), Follows(venueOrder, after), SpentIn(after, strayed'),
         \A r \in late' : r \in late \/ (r = request /\ r.op \in {"place", "market", "cancel"}),
         kind = "unknown" => request.op = "cancel" /\ after[request.id].state # "resting",
         UNCHANGED setup
  PROVE  PortInv'
<1>1. request # NoRequest /\ Fits(request, venueOrder) /\ request \in Requests
  BY DEF NoRequest, PortInv, Fits
<1>2. answer.kind \notin {"unknown", "snapshot"} /\ setup # Down
  BY <1>1, AnsweredAlready
<1>3. SetupFits'
  BY <1>2 DEF PortInv, SetupFits, Down
<1>4. known \in [OrderIds -> Symbols \cup {NoName}]
  BY DEF PortInv, KnownFits
<1>5. ASSUME NEW end \in {kind, "refused"}, Return(end), venueOrder' = after
      PROVE  PortInv'
  <2>1. /\ request' = NoRequest
        /\ answer' = IF end = "unknown" THEN [kind |-> end, id |-> request.id] ELSE NoAnswer
    BY <1>5 DEF Return
  <2>2. Fits(request', venueOrder') /\ request'.op = "none"
    BY <2>1, NoRequestFits
  <2>3. MainnetIsFenced'
    BY <2>2 DEF MainnetIsFenced, Writes
  <2>4. request.op \in {"place", "market", "cancel"} => request.id \in OrderIds /\ venueOrder[request.id].state # "unsent"
    BY <1>1 DEF Fits
  <2>5. AnswerFits'
    <3>1. end = "unknown" => venueOrder'[request.id].state # "unsent" /\ request.id \in OrderIds
      BY <1>5, <2>4 DEF Follows, SameButState
    <3>2. QED
      BY <2>1, <3>1 DEF AnswerFits, NoAnswer
  <2>6. UnknownMeansGone' /\ NeverCountedTwice'
    BY <1>5, <2>1 DEF UnknownMeansGone, NeverCountedTwice, Resting, NoAnswer
  <2>7. /\ known' \in [OrderIds -> Symbols \cup {NoName}]
        /\ \A c \in OrderIds : known'[c] \in {NoName, known[c], venueOrder'[c].symbol}
    <3>1. CASE end = "ok" /\ request.op \in {"place", "market"}
      <4>1. known' = [known EXCEPT ![request.id] = request.symbol] /\ request.symbol = venueOrder[request.id].symbol
        BY <1>1, <1>5, <3>1 DEF Return, Fits
      <4>2. request.symbol \in Symbols
        BY <2>4, <3>1, <4>1 DEF PortInv, VenueFits, TellsSymbol
      <4>3. venueOrder'[request.id].symbol = request.symbol
        BY <1>5, <2>4, <3>1, <4>1 DEF Follows, SameButState
      <4>4. QED
        BY <1>4, <2>4, <3>1, <4>1, <4>2, <4>3
    <3>2. CASE ~(end = "ok" /\ request.op \in {"place", "market"})
      BY <1>4, <1>5, <3>2 DEF Return
    <3>3. QED
      BY <3>1, <3>2
  <2>8. QED
    BY <1>3, <1>5, <2>2, <2>3, <2>5, <2>6, <2>7, PortFrame
<1>6. ASSUME request.replacing, NEW n \in OwnIds, venueOrder[n] = Unsent,
             venueOrder' = [after EXCEPT ![n] = NewOrder(request.symbol, request.symbol)],
             request' = Ask("place", n, request.symbol), UNCHANGED <<known, answer>>
      PROVE  PortInv'
  <2> DEFINE s == request.symbol
  <2>1. request.op = "cancel" /\ s \in Ascii /\ s \in Symbols /\ s \in TokensFor(s) /\ n \in OrderIds
    BY <1>1, <1>6, PortNames DEF Fits, TokensFor
  <2>2. /\ VenueFits(venueOrder') /\ Follows(venueOrder, venueOrder') /\ SpentIn(venueOrder', strayed')
        /\ venueOrder'[n].state = "sent" /\ venueOrder'[n].symbol = s
    <3>1. venueOrder' = [after EXCEPT ![n] = NewOrder(s, s)]
      BY <1>6
    <3> HIDE DEF s
    <3>2. VenueFits(venueOrder') /\ Follows(venueOrder, venueOrder') /\ SpentIn(venueOrder', strayed')
          /\ NewlyOpened(venueOrder', n, s)
      BY <1>6, <2>1, <3>1, NewOrderFits
    <3>3. QED
      BY <3>2 DEF NewlyOpened
  <2>3. /\ request' \in Requests /\ request'.op = "place" /\ request'.id = n /\ request'.symbol = s
        /\ request'.replacing = FALSE
    <3>1. request' = Ask("place", n, s)
      BY <1>6
    <3> HIDE DEF s
    <3>2. QED
      BY <2>1, <3>1 DEF Ask, NoRequest, Requests, Writes
  <2>4. Fits(request', venueOrder')
    BY <2>1, <2>2, <2>3 DEF Fits
  <2>5. MainnetIsFenced'
    BY <2>1, <2>3 DEF PortInv, MainnetIsFenced, Writes
  <2>6. AnswerFits' /\ UnknownMeansGone' /\ NeverCountedTwice'
    BY <1>2, <1>6 DEF AnswerFits, UnknownMeansGone, NeverCountedTwice
  <2>7. QED
    BY <1>3, <1>4, <1>6, <2>2, <2>4, <2>5, <2>6, PortFrame
<1>7. CASE request.replacing /\ kind # "transient"
  <2>1. PlaceAnother(after)
    BY <1>7 DEF EndCall
  <2>2. CASE placed < MaxOrdersPerRun /\ \E n \in OwnIds : venueOrder[n] = Unsent
    <3>1. PICK n \in OwnIds : /\ venueOrder[n] = Unsent
                             /\ venueOrder' = [after EXCEPT ![n] = NewOrder(request.symbol, request.symbol)]
                             /\ request' = Ask("place", n, request.symbol)
      BY <2>1, <2>2 DEF PlaceAnother
    <3>2. UNCHANGED <<known, answer>>
      BY <2>1, <2>2 DEF PlaceAnother
    <3>3. QED
      BY <1>6, <1>7, <3>1, <3>2
  <2>3. CASE ~(placed < MaxOrdersPerRun /\ \E n \in OwnIds : venueOrder[n] = Unsent)
    <3>1. venueOrder' = after /\ Return("refused")
      BY <2>1, <2>3 DEF PlaceAnother
    <3>2. QED
      BY <1>5, <3>1
  <2>4. QED
    BY <2>2, <2>3
<1>8. CASE ~(request.replacing /\ kind # "transient")
  BY <1>5, <1>8 DEF EndCall
<1>9. QED
  BY <1>7, <1>8

-----------------------------------------------------------------------------
\* One lemma per action.

\* A request that the port sends, or answers itself in a dry run.
LEMMA SendFits ==
  ASSUME PortInv, setup # Down, NEW r, SendOrNot(r), Fits(r, venueOrder'), r.op \in Writes, WhitelistHas(r.symbol),
         UNCHANGED setup
  PROVE  /\ SetupFits' /\ Fits(request', venueOrder') /\ AnswerFits'
         /\ UnknownMeansGone' /\ NeverCountedTwice' /\ MainnetIsFenced'
<1>1. request' \in {r, NoRequest} /\ answer'.kind = "none"
  BY DEF SendOrNot, NoAnswer
<1>2. Fits(request', venueOrder')
  BY <1>1, NoRequestFits
<1>3. SetupFits'
  BY DEF PortInv, SetupFits
<1>4. MainnetIsFenced'
  <2>1. request'.op \in Writes => request' = r
    BY <1>1, NoRequestFits DEF Writes
  <2>2. setup.mainnet => r.symbol \in setup.whitelist
    BY DEF WhitelistHas, PortInv, SetupFits
  <2>3. QED
    BY <2>1, <2>2 DEF MainnetIsFenced
<1>5. AnswerFits' /\ UnknownMeansGone' /\ NeverCountedTwice'
  BY <1>1 DEF AnswerFits, UnknownMeansGone, NeverCountedTwice
<1>6. QED
  BY <1>2, <1>3, <1>4, <1>5

LEMMA BootKeepsPort == PortInv /\ BootPort => PortInv'
<1> SUFFICES ASSUME PortInv, BootPort PROVE PortInv'
  OBVIOUS
<1>1. /\ setup = Down /\ request = NoRequest
      /\ UNCHANGED <<known, placed, venueOrder, request, late, strayed, answer>>
  BY DEF BootPort, PortInv, SetupFits
<1>2. PICK c \in Setups : setup' = c /\ (c.mainnet => c.whitelist # {})
  BY DEF BootPort, Acceptable
<1>3. SetupFits'
  BY <1>1, <1>2, PortNames DEF SetupFits
<1>4. MainnetIsFenced'
  BY <1>1, NoRequestFits DEF MainnetIsFenced, Writes
<1>5. UnknownMeansGone' /\ NeverCountedTwice' /\ AnswerFits' /\ KnownFits' /\ LateFits' /\ VenueFits(venueOrder')
      /\ Fits(request', venueOrder') /\ SpentIn(venueOrder', strayed')
  BY <1>1 DEF PortInv, UnknownMeansGone, NeverCountedTwice, AnswerFits, KnownFits, LateFits, VenueFits, Fits, SpentIn, Resting
<1>6. QED
  BY <1>3, <1>4, <1>5 DEF PortInv

LEMMA LateOnes ==
  ASSUME NEW r, NEW lost \in GivenUp(r)
  PROVE  \A q \in lost : q = r /\ r.op \in {"place", "market", "cancel"}
BY DEF GivenUp

LEMMA KillKeepsPort == PortInv /\ KillPort => PortInv'
<1> SUFFICES ASSUME PortInv, KillPort PROVE PortInv'
  OBVIOUS
<1>1. /\ setup' = Down /\ known' = [c \in OrderIds |-> NoName] /\ request' = NoRequest /\ answer' = NoAnswer
      /\ UNCHANGED <<venueOrder, strayed>>
  BY DEF KillPort
<1>2. \A r \in late' : r \in late \/ (r = request /\ r.op \in {"place", "market", "cancel"})
  BY LateOnes DEF KillPort
<1>3. SetupFits'
  BY <1>1 DEF SetupFits, Down
<1>4. MainnetIsFenced' /\ Fits(request', venueOrder')
  BY <1>1, NoRequestFits DEF MainnetIsFenced, Writes
<1>5. UnknownMeansGone' /\ NeverCountedTwice' /\ AnswerFits'
  BY <1>1 DEF NoAnswer, UnknownMeansGone, NeverCountedTwice, AnswerFits
<1>6. VenueFits(venueOrder') /\ Follows(venueOrder, venueOrder') /\ SpentIn(venueOrder', strayed')
  BY <1>1, SameVenue DEF PortInv
<1>7. known' \in [OrderIds -> Symbols \cup {NoName}] /\ \A c \in OrderIds : known'[c] = NoName
  BY <1>1
<1>8. QED
  BY <1>2, <1>3, <1>4, <1>5, <1>6, <1>7, PortFrame

LEMMA SendKeepsPort ==
  ASSUME PortInv, NEW op \in {"place", "market"}, NEW c \in OrderIds, NEW s \in Symbols, SendOrder(op, c, s)
  PROVE  PortInv'
<1>1. /\ setup # Down /\ request = NoRequest /\ WhitelistHas(s) /\ venueOrder[c] = Unsent
      /\ UNCHANGED <<setup, known, late, strayed>>
  BY DEF SendOrder, MayWrite, CallPort
<1>2. VenueFits(venueOrder) /\ Follows(venueOrder, venueOrder) /\ SpentIn(venueOrder, strayed)
  BY SameVenue DEF PortInv
<1>3. known' \in [OrderIds -> Symbols \cup {NoName}] /\ \A d \in OrderIds : known'[d] = known[d]
  BY <1>1 DEF PortInv, KnownFits
<1>4. CASE setup.mode = "live"
  <2>1. PICK t \in TokensFor(s) : venueOrder' = [venueOrder EXCEPT ![c] = NewOrder(s, t)]
    BY <1>4 DEF SendOrder
  <2>2. VenueFits(venueOrder') /\ Follows(venueOrder, venueOrder') /\ SpentIn(venueOrder', strayed')
        /\ NewlyOpened(venueOrder', c, s)
    BY <1>1, <1>2, <2>1, NewOrderFits
  <2>3. PICK r : r = Ask(op, c, s)
    OBVIOUS
  <2>4. r \in Requests /\ r.op = op /\ r.id = c /\ r.symbol = s /\ r.replacing = FALSE
    BY <2>3, PortNames DEF Ask, NoRequest, Requests, Writes
  <2>5. Fits(r, venueOrder')
    BY <2>2, <2>4 DEF Fits, NewlyOpened
  <2>6. r.op \in Writes /\ WhitelistHas(r.symbol) /\ SendOrNot(r)
    BY <1>1, <2>3, <2>4 DEF Writes, SendOrder
  <2>7. /\ SetupFits' /\ Fits(request', venueOrder') /\ AnswerFits'
        /\ UnknownMeansGone' /\ NeverCountedTwice' /\ MainnetIsFenced'
    BY <1>1, <2>5, <2>6, SendFits
  <2>8. QED
    BY <1>1, <1>3, <2>2, <2>7, PortFrame
<1>5. CASE setup.mode # "live"
  <2>1. venueOrder' = venueOrder /\ request' = NoRequest /\ answer' = NoAnswer
    BY <1>5 DEF SendOrder, SendOrNot
  <2>2. Fits(request', venueOrder') /\ request'.op = "none"
    BY <2>1, NoRequestFits
  <2>3. SetupFits' /\ AnswerFits' /\ UnknownMeansGone' /\ NeverCountedTwice' /\ MainnetIsFenced'
    BY <1>1, <2>1, <2>2 DEF PortInv, SetupFits, AnswerFits, UnknownMeansGone, NeverCountedTwice, MainnetIsFenced, NoAnswer, Writes
  <2>4. QED
    BY <1>1, <1>2, <1>3, <2>1, <2>2, <2>3, PortFrame
<1>6. QED
  BY <1>4, <1>5

\* Cancels of what is resolved rightly, and of what the caller names.
LEMMA AskCancelFits ==
  ASSUME PortInv, MayWrite, NEW r, r \in Requests, r.op \in {"cancel", "cancel_all"}, Fits(r, venueOrder),
         WhitelistHas(r.symbol), SendOrNot(r), UNCHANGED <<setup, venueOrder, late, strayed>>,
         known' \in [OrderIds -> Symbols \cup {NoName}],
         \A c \in OrderIds : known'[c] \in {NoName, known[c], venueOrder[c].symbol}
  PROVE  PortInv'
<1>1. setup # Down /\ r.op \in Writes /\ venueOrder' = venueOrder /\ strayed' = strayed
  BY DEF MayWrite, CallPort, Writes
<1>2. VenueFits(venueOrder') /\ Follows(venueOrder, venueOrder') /\ SpentIn(venueOrder', strayed')
  BY <1>1, SameVenue DEF PortInv
<1>3. Fits(r, venueOrder')
  BY <1>1
<1>4. /\ SetupFits' /\ Fits(request', venueOrder') /\ AnswerFits'
      /\ UnknownMeansGone' /\ NeverCountedTwice' /\ MainnetIsFenced'
  BY <1>1, <1>3, SendFits
<1>5. QED
  BY <1>1, <1>2, <1>4, PortFrame

LEMMA SameKnown ==
  ASSUME PortInv, UNCHANGED known
  PROVE  known' \in [OrderIds -> Symbols \cup {NoName}] /\ \A c \in OrderIds : known'[c] = known[c]
BY DEF PortInv, KnownFits

LEMMA CancelKeepsPort == ASSUME PortInv, NEW c \in OrderIds, CancelByClientId(c) PROVE PortInv'
<1>1. /\ MayWrite /\ Resolvable(c) /\ WhitelistHas(Resolved(c)) /\ RememberMatch(c) /\ SendOrNot(CancelAsk(c))
      /\ UNCHANGED <<setup, venueOrder, late, strayed>>
  BY DEF CancelByClientId
<1>2. PICK s : s = Resolved(c)
  OBVIOUS
<1>3. venueOrder[c].state # "unsent" /\ (s = venueOrder[c].symbol \/ s \notin Symbols) /\ s \in Symbols \cup Tokens
  BY <1>1, <1>2, ResolvesRight
<1>4. PICK r : r = CancelAsk(c)
  OBVIOUS
<1>5. r \in Requests /\ r.op = "cancel" /\ r.id = c /\ r.symbol = s /\ r.replacing = FALSE
  BY <1>2, <1>3, <1>4 DEF CancelAsk, Ask, NoRequest, Requests, Writes
<1>6. Fits(r, venueOrder)
  BY <1>3, <1>5 DEF Fits
<1>7. known \in [OrderIds -> Symbols \cup {NoName}]
  BY DEF PortInv, KnownFits
<1>8. known' \in [OrderIds -> Symbols \cup {NoName}] /\ \A d \in OrderIds : known'[d] \in {NoName, known[d], venueOrder[d].symbol}
  <2>1. CASE venueOrder[c].token # NoName /\ s # venueOrder[c].token
    <3>1. known' = [known EXCEPT ![c] = s]
      BY <1>1, <1>2, <2>1 DEF RememberMatch
    <3>2. s \in Symbols /\ s = venueOrder[c].symbol
      BY <1>1, <1>2, <1>3, <2>1, RememberedIsSymbol
    <3>3. QED
      BY <1>7, <3>1, <3>2
  <2>2. CASE ~(venueOrder[c].token # NoName /\ s # venueOrder[c].token)
    BY <1>1, <1>2, <1>7, <2>2 DEF RememberMatch
  <2>3. QED
    BY <2>1, <2>2
<1>9. QED
  BY <1>1, <1>2, <1>4, <1>5, <1>6, <1>8, AskCancelFits

LEMMA CancelByIdKeepsPort == ASSUME PortInv, NEW c \in OrderIds, CancelById(c) PROVE PortInv'
<1>1. /\ MayWrite /\ WhitelistHas(venueOrder[c].symbol) /\ SendOrNot(Ask("cancel", c, venueOrder[c].symbol))
      /\ UNCHANGED <<setup, known, venueOrder, late, strayed>> /\ venueOrder[c].state # "unsent"
  BY DEF CancelById
<1>2. PICK s : s = venueOrder[c].symbol
  OBVIOUS
<1>3. s \in Symbols
  BY <1>1, <1>2 DEF PortInv, VenueFits, TellsSymbol
<1>4. PICK r : r = Ask("cancel", c, venueOrder[c].symbol)
  OBVIOUS
<1>5. r \in Requests /\ r.op = "cancel" /\ r.id = c /\ r.symbol = s /\ r.replacing = FALSE
  BY <1>2, <1>3, <1>4 DEF Ask, NoRequest, Requests, Writes
<1>6. Fits(r, venueOrder)
  BY <1>1, <1>2, <1>5 DEF Fits
<1>7. QED
  BY <1>1, <1>2, <1>4, <1>5, <1>6, SameKnown, AskCancelFits

LEMMA CancelSymbolKeepsPort == ASSUME PortInv, NEW s \in Symbols, CancelSymbol(s) PROVE PortInv'
<1>1. /\ MayWrite /\ WhitelistHas(s) /\ SendOrNot(Ask("cancel_all", NoName, s))
      /\ UNCHANGED <<setup, known, venueOrder, late, strayed>>
  BY DEF CancelSymbol
<1>2. PICK r : r = Ask("cancel_all", NoName, s)
  OBVIOUS
<1>3. r \in Requests /\ r.op = "cancel_all" /\ r.symbol = s /\ r.replacing = FALSE
  BY <1>2 DEF Ask, NoRequest, Requests, Writes
<1>4. Fits(r, venueOrder)
  BY <1>3 DEF Fits
<1>5. QED
  BY <1>1, <1>2, <1>3, <1>4, SameKnown, AskCancelFits

\* A legacy id carries an ASCII symbol, which no whitelist mistakes for another.
LEMMA ReplaceKeepsPort == ASSUME PortInv, NEW c \in OrderIds, ReplaceOrder(c) PROVE PortInv'
<1>1. /\ MayWrite /\ venueOrder[c].legacy /\ WhitelistHas(Resolved(c))
      /\ SendOrNot([CancelAsk(c) EXCEPT !.replacing = TRUE])
      /\ UNCHANGED <<setup, known, venueOrder, late, strayed>>
  BY DEF ReplaceOrder
<1>2. PICK s : s = Resolved(c)
  OBVIOUS
<1>3. venueOrder[c].symbol \in Ascii /\ venueOrder[c].token = venueOrder[c].symbol
  BY <1>1 DEF PortInv, VenueFits, TellsSymbol
<1>4. Resolvable(c) /\ venueOrder[c].token \in Symbols
  BY <1>3, PortNames DEF Resolvable
<1>5. venueOrder[c].state # "unsent" /\ (s = venueOrder[c].symbol \/ s \notin Symbols) /\ s \in Symbols \cup Tokens
  BY <1>2, <1>4, ResolvesRight
<1>6. s = venueOrder[c].symbol
  <2>1. known[c] # NoName => known[c] = venueOrder[c].symbol
    BY DEF PortInv, KnownFits
  <2>2. setup.whitelist \subseteq Symbols
    BY DEF PortInv, SetupFits
  <2>3. FromToken(venueOrder[c].token) \in setup.whitelist \cup {venueOrder[c].token}
    BY DEF FromToken
  <2>4. QED
    BY <1>2, <1>4, <1>5, <2>1, <2>2, <2>3 DEF Resolved
<1>7. PICK r : r = [CancelAsk(c) EXCEPT !.replacing = TRUE]
  OBVIOUS
<1>8. r \in Requests /\ r.op = "cancel" /\ r.id = c /\ r.symbol = s
  BY <1>2, <1>5, <1>7 DEF CancelAsk, Ask, NoRequest, Requests, Writes
<1>9. Fits(r, venueOrder)
  BY <1>3, <1>5, <1>6, <1>8 DEF Fits
<1>10. QED
  BY <1>1, <1>2, <1>7, <1>8, <1>9, SameKnown, AskCancelFits

\* A step of the venue: the port's own state stays.
LEMMA VenueStep ==
  ASSUME PortInv, UNCHANGED <<setup, known, request, answer>>, VenueFits(venueOrder'), Follows(venueOrder, venueOrder'),
         SpentIn(venueOrder', strayed'), late' \subseteq late, strayed \subseteq strayed',
         \A c \in OrderIds : venueOrder[c].state # "unsent" /\ c \in Resting' => c \in Resting \cup strayed'
  PROVE  PortInv'
<1>1. Fits(request', venueOrder')
  BY StillFits DEF PortInv
<1>2. SetupFits' /\ MainnetIsFenced'
  BY DEF PortInv, SetupFits, MainnetIsFenced
<1>3. AnswerFits'
  BY DEF PortInv, AnswerFits, Follows, SameButState
<1>4. UnknownMeansGone'
  BY DEF PortInv, AnswerFits, UnknownMeansGone
<1>5. NeverCountedTwice'
  BY DEF PortInv, NeverCountedTwice
<1>6. QED
  BY <1>1, <1>2, <1>3, <1>4, <1>5, SameKnown, PortFrame

LEMMA SettledKeepsPort == ASSUME PortInv, NEW c \in OrderIds, NEW state \in {"filled", "gone"}, OrderSettles(c, state) PROVE PortInv'
<1> DEFINE o == [venueOrder[c] EXCEPT !.state = state, !.filled = @ \/ state = "filled"]
<1>1. /\ c \in Resting /\ UNCHANGED <<setup, known, request, late, strayed, answer>>
      /\ venueOrder' = [venueOrder EXCEPT ![c].state = state, ![c].filled = @ \/ state = "filled"]
  BY DEF OrderSettles
<1>2. venueOrder \in [OrderIds -> Orders] /\ venueOrder[c] \in Orders /\ TellsSymbol(venueOrder[c]) /\ venueOrder[c].state = "resting"
  BY <1>1 DEF PortInv, VenueFits, Resting
<1>3. venueOrder' = [venueOrder EXCEPT ![c] = o]
  BY <1>1, <1>2
<1>4. /\ o.state = state /\ o.symbol = venueOrder[c].symbol /\ o.token = venueOrder[c].token
      /\ o.legacy = venueOrder[c].legacy /\ o.filled = (venueOrder[c].filled \/ state = "filled") /\ o \in Orders
  BY <1>2 DEF Orders, States
<1> HIDE DEF o
<1>5. TellsSymbol(o) /\ SameButState(venueOrder[c], o)
  BY <1>2, <1>4 DEF TellsSymbol, SameButState
<1>6. /\ venueOrder' \in [OrderIds -> Orders] /\ venueOrder'[c] = o
      /\ \A d \in OrderIds : d # c => venueOrder'[d] = venueOrder[d]
  BY <1>2, <1>3, <1>4
<1>7. VenueFits(venueOrder')
  BY <1>5, <1>6 DEF VenueFits, PortInv
<1>8. Follows(venueOrder, venueOrder')
  BY <1>5, <1>6 DEF Follows, SameButState
<1>9. SpentIn(venueOrder', strayed')
  BY <1>1, <1>4, <1>6 DEF SpentIn, PortInv
<1>10. \A d \in OrderIds : d \in Resting' => d \in Resting
  BY <1>4, <1>6 DEF Resting
<1>11. QED
  BY <1>1, <1>7, <1>8, <1>9, <1>10, VenueStep

LEMMA AppearsKeepsPort ==
  ASSUME PortInv, NEW c \in OrderIds, NEW s \in Symbols, NEW legacy \in BOOLEAN, AppearsAt(c, s, legacy)
  PROVE  PortInv'
<1> DEFINE o == [state |-> "resting", symbol |-> s, token |-> IF legacy THEN s ELSE NoName, legacy |-> legacy, filled |-> FALSE]
<1>1. /\ venueOrder[c] = Unsent /\ (legacy => s \in Ascii) /\ venueOrder' = [venueOrder EXCEPT ![c] = o]
      /\ UNCHANGED <<setup, known, request, late, strayed, answer>>
  BY DEF AppearsAt
<1>2. venueOrder \in [OrderIds -> Orders]
  BY DEF PortInv, VenueFits
<1>3. /\ o.state = "resting" /\ o.symbol = s /\ o.legacy = legacy /\ o.filled = FALSE
      /\ (legacy => o.token = s) /\ (~legacy => o.token = NoName) /\ o \in Orders
  BY <1>1, PortNames DEF Orders, States
<1> HIDE DEF o
<1>4. TellsSymbol(o)
  BY <1>1, <1>3 DEF TellsSymbol, TokensFor
<1>5. /\ venueOrder' \in [OrderIds -> Orders] /\ venueOrder'[c] = o
      /\ \A d \in OrderIds : d # c => venueOrder'[d] = venueOrder[d]
  BY <1>1, <1>2, <1>3
<1>6. VenueFits(venueOrder')
  BY <1>4, <1>5 DEF VenueFits, PortInv
<1>7. Follows(venueOrder, venueOrder')
  <2>1. \A d \in OrderIds : venueOrder[d].state # "unsent" => d # c /\ venueOrder'[d] = venueOrder[d]
    BY <1>1, <1>5, UnsentFits
  <2>2. QED
    BY <2>1 DEF Follows, SameButState
<1>8. SpentIn(venueOrder', strayed')
  BY <1>1, <1>3, <1>5 DEF SpentIn, PortInv
<1>9. \A d \in OrderIds : venueOrder[d].state # "unsent" /\ d \in Resting' => d \in Resting
  BY <1>1, <1>5, UnsentFits DEF Resting
<1>10. QED
  BY <1>1, <1>6, <1>7, <1>8, <1>9, VenueStep

LEMMA LandKeepsPort == ASSUME PortInv, NEW r \in late, LandLate(r) PROVE PortInv'
<1>1. /\ late' = late \ {r} /\ venueOrder' = Executed(r) /\ UNCHANGED <<setup, known, request, answer>>
      /\ strayed' = IF r.op = "cancel" THEN strayed ELSE strayed \cup Touched(r)
  BY DEF LandLate
<1>2. Fits(r, venueOrder) /\ r.op \in {"place", "market", "cancel"} /\ VenueFits(venueOrder) /\ SpentIn(venueOrder, strayed)
  BY DEF PortInv, LateFits
<1>3. /\ VenueFits(venueOrder') /\ Follows(venueOrder, venueOrder')
      /\ SpentIn(venueOrder', strayed \cup Again(r)) /\ Again(r) \subseteq Touched(r)
      /\ \A c \in OrderIds : venueOrder'[c].state = "resting" =>
           c \in Resting \/ (r.op \in {"place", "market"} /\ c \in Touched(r))
  BY <1>1, <1>2, ExecutedFits
<1>4. strayed \cup Again(r) \subseteq strayed'
  BY <1>1, <1>3 DEF Again
<1>5. SpentIn(venueOrder', strayed')
  BY <1>3, <1>4 DEF SpentIn
<1>6. \A c \in OrderIds : venueOrder[c].state # "unsent" /\ c \in Resting' => c \in Resting \cup strayed'
  BY <1>1, <1>3 DEF Resting
<1>7. QED
  BY <1>1, <1>3, <1>4, <1>5, <1>6, VenueStep

LEMMA AnsweredKeepsPort == ASSUME PortInv, Answered PROVE PortInv'
<1>1. /\ request.op \in Writes /\ EndCall(VenueSays(request), Executed(request))
      /\ strayed' = strayed \cup Again(request) /\ UNCHANGED <<setup, late>>
  BY DEF Answered
<1>2. Fits(request, venueOrder) /\ VenueFits(venueOrder) /\ SpentIn(venueOrder, strayed)
  BY DEF PortInv
<1>3. PICK after : after = Executed(request)
  OBVIOUS
<1>4. VenueFits(after) /\ Follows(venueOrder, after) /\ SpentIn(after, strayed')
  BY <1>1, <1>2, <1>3, ExecutedFits
<1>5. PICK kind : kind = VenueSays(request)
  OBVIOUS
<1>6. kind \in {"ok", "unknown", "transient", "refused"}
  BY <1>5 DEF VenueSays
<1>7. kind = "unknown" => request.op = "cancel" /\ after[request.id].state # "resting"
  <2>1. SUFFICES ASSUME kind = "unknown" PROVE request.op = "cancel" /\ after[request.id].state # "resting"
    OBVIOUS
  <2>2. request.op = "cancel" /\ request.symbol \in Symbols /\ Touched(request) = {}
    BY <1>5, <2>1 DEF VenueSays
  <2>3. request.id \in OrderIds /\ request.symbol = venueOrder[request.id].symbol
    BY <1>2, <2>2 DEF Fits
  <2>4. venueOrder[request.id].state # "resting"
    BY <2>2, <2>3 DEF Touched, Resting
  <2>5. after[request.id] = venueOrder[request.id]
    BY <1>3, <2>2, <2>3 DEF Executed
  <2>6. QED
    BY <2>2, <2>4, <2>5
<1>8. request.op # "none"
  BY <1>1 DEF Writes
<1>9. EndCall(kind, after)
  BY <1>1, <1>3, <1>5
<1>10. QED
  BY <1>1, <1>4, <1>6, <1>7, <1>8, <1>9, EndCallFits

LEMMA AskedSomething == PortInv /\ request # NoRequest => request.op # "none"
BY DEF PortInv, Fits, Requests, NoRequest

LEMMA RejectedKeepsPort == ASSUME PortInv, Rejected PROVE PortInv'
<1>1. PICK kind \in {"transient", "refused"} : EndCall(kind, venueOrder)
  BY DEF Rejected
<1>2. request # NoRequest /\ UNCHANGED <<setup, late, strayed>>
  BY DEF Rejected
<1>3. VenueFits(venueOrder) /\ Follows(venueOrder, venueOrder) /\ SpentIn(venueOrder, strayed')
  BY <1>2, SameVenue DEF PortInv
<1>4. QED
  BY <1>1, <1>2, <1>3, AskedSomething, EndCallFits

LEMMA FailedKeepsPort == ASSUME PortInv, Failed PROVE PortInv'
<1>1. PICK done \in BOOLEAN, lost \in GivenUp(request) :
        LET after == IF done THEN Executed(request) ELSE venueOrder
        IN  /\ strayed' = IF done THEN strayed \cup Again(request) ELSE strayed
            /\ (done => lost = {}) /\ late' = late \cup lost
            /\ \/ request.tries + 1 < MaxAttempts /\ request' = [request EXCEPT !.tries = @ + 1]
                  /\ venueOrder' = after /\ UNCHANGED <<known, placed, answer>>
               \/ request.tries + 1 >= MaxAttempts /\ EndCall("transient", after)
               \/ EndCall("refused", after)
  BY DEF Failed
<1>2. PICK after : after = IF done THEN Executed(request) ELSE venueOrder
  OBVIOUS
<1>3. /\ strayed' = IF done THEN strayed \cup Again(request) ELSE strayed
      /\ late' = late \cup lost
  BY <1>1
<1>4. \/ request' = [request EXCEPT !.tries = @ + 1] /\ venueOrder' = after /\ UNCHANGED <<known, answer>>
      \/ EndCall("transient", after)
      \/ EndCall("refused", after)
  BY <1>1, <1>2
<1>5. request # NoRequest /\ UNCHANGED setup
  BY DEF Failed
<1>6. Fits(request, venueOrder) /\ VenueFits(venueOrder) /\ SpentIn(venueOrder, strayed)
  BY DEF PortInv
<1>7. VenueFits(after) /\ Follows(venueOrder, after) /\ SpentIn(after, strayed')
  <2>1. CASE done
    BY <1>2, <1>3, <1>6, <2>1, ExecutedFits
  <2>2. CASE ~done
    BY <1>2, <1>3, <1>6, <2>2, SameVenue
  <2>3. QED
    BY <2>1, <2>2
<1>8. \A r \in late' : r \in late \/ (r = request /\ r.op \in {"place", "market", "cancel"})
  BY <1>3, LateOnes
<1>9. CASE EndCall("transient", after)
  BY <1>5, <1>7, <1>8, <1>9, AskedSomething, EndCallFits
<1>10. CASE EndCall("refused", after)
  BY <1>5, <1>7, <1>8, <1>10, AskedSomething, EndCallFits
<1>11. CASE request' = [request EXCEPT !.tries = @ + 1] /\ venueOrder' = after /\ UNCHANGED <<known, answer>>
  <2>1. /\ request' \in Requests /\ request'.op = request.op /\ request'.id = request.id
        /\ request'.symbol = request.symbol /\ request'.replacing = request.replacing /\ request'.counted = request.counted
    BY <1>6, <1>11 DEF Fits, Requests
  <2>2. Fits(request, after)
    BY <1>6, <1>7, StillFits
  <2>3. Fits(request', venueOrder')
    BY <1>5, <1>11, <2>1, <2>2, AskedSomething DEF Fits
  <2>4. answer.kind \notin {"unknown", "snapshot"} /\ setup # Down
    BY <1>5, AnsweredAlready
  <2>5. AnswerFits' /\ UnknownMeansGone' /\ NeverCountedTwice'
    BY <1>11, <2>4 DEF AnswerFits, UnknownMeansGone, NeverCountedTwice
  <2>6. SetupFits' /\ MainnetIsFenced'
    BY <1>5, <2>1, <2>4 DEF PortInv, SetupFits, MainnetIsFenced
  <2>7. QED
    BY <1>7, <1>8, <1>11, <2>3, <2>5, <2>6, SameKnown, PortFrame
<1>12. QED
  BY <1>4, <1>9, <1>10, <1>11

\* The snapshot: no order is filled between its halves that did not rest before.
LEMMA AskSnapshotKeepsPort == PortInv /\ (FetchSnapshot \/ AnswerPositions) => PortInv'
<1> SUFFICES ASSUME PortInv, FetchSnapshot \/ AnswerPositions PROVE PortInv'
  OBVIOUS
<1>1. UNCHANGED <<setup, known, venueOrder, late, strayed>>
  BY DEF FetchSnapshot, AnswerPositions
<1>2. setup # Down
  BY AnsweredAlready DEF FetchSnapshot, CallPort, AnswerPositions, NoRequest
<1>3. VenueFits(venueOrder') /\ Follows(venueOrder, venueOrder') /\ SpentIn(venueOrder', strayed')
  BY <1>1, SameVenue DEF PortInv
<1>4. SetupFits'
  BY <1>1, <1>2 DEF PortInv, SetupFits
<1>5. CASE request' = NoRequest /\ answer' = [kind |-> "snapshot", orders |-> {}, counted |-> {}]
  <2>1. Fits(request', venueOrder') /\ MainnetIsFenced'
    BY <1>5, NoRequestFits DEF MainnetIsFenced, Writes
  <2>2. AnswerFits' /\ UnknownMeansGone' /\ NeverCountedTwice'
    BY <1>5 DEF AnswerFits, UnknownMeansGone, NeverCountedTwice
  <2>3. QED
    BY <1>1, <1>3, <1>4, <2>1, <2>2, SameKnown, PortFrame
<1>6. CASE request' = Ask("positions", NoName, NoName) /\ answer' = NoAnswer
  <2>1. request' \in Requests /\ request'.op = "positions" /\ request'.replacing = FALSE
    BY <1>6 DEF Ask, NoRequest, Requests, Writes
  <2>2. Fits(request', venueOrder') /\ MainnetIsFenced'
    BY <2>1 DEF Fits, MainnetIsFenced, Writes
  <2>3. AnswerFits' /\ UnknownMeansGone' /\ NeverCountedTwice'
    BY <1>6 DEF NoAnswer, AnswerFits, UnknownMeansGone, NeverCountedTwice
  <2>4. QED
    BY <1>1, <1>3, <1>4, <2>2, <2>3, SameKnown, PortFrame
<1>7. CASE AnswerPositions
  <2>1. request' = PositionsFirst(request) /\ request # NoRequest /\ answer' = answer
    BY <1>7 DEF AnswerPositions, NoRequest
  <2>2. request' \in Requests /\ request'.op = "orders" /\ request'.replacing = FALSE /\ request'.counted = Filled
    BY <2>1 DEF PositionsFirst, Ask, NoRequest, Requests, Writes, Filled
  <2>3. Fits(request', venueOrder') /\ MainnetIsFenced'
    BY <1>1, <2>2 DEF Fits, MainnetIsFenced, Writes, Filled
  <2>4. answer.kind \notin {"unknown", "snapshot"}
    BY <2>1, AnsweredAlready
  <2>5. AnswerFits' /\ UnknownMeansGone' /\ NeverCountedTwice'
    BY <2>1, <2>4 DEF AnswerFits, UnknownMeansGone, NeverCountedTwice
  <2>6. QED
    BY <1>1, <1>3, <1>4, <2>3, <2>5, SameKnown, PortFrame
<1>8. QED
  BY <1>5, <1>6, <1>7 DEF FetchSnapshot

LEMMA AnswerOrdersKeepsPort == ASSUME PortInv, AnswerOrders PROVE PortInv'
<1>1. /\ request.op = "orders" /\ request' = NoRequest /\ UNCHANGED <<setup, venueOrder, late, strayed>>
      /\ answer' = [kind |-> "snapshot", orders |-> Resting, counted |-> request.counted]
      /\ known' = [c \in OrderIds |-> IF c \in Resting /\ venueOrder[c].token # NoName
                                  THEN venueOrder[c].symbol ELSE known[c]]
  BY DEF AnswerOrders
<1>2. VenueFits(venueOrder') /\ Follows(venueOrder, venueOrder') /\ SpentIn(venueOrder', strayed')
  BY <1>1, SameVenue DEF PortInv
<1>3. Fits(request', venueOrder') /\ MainnetIsFenced'
  BY <1>1, NoRequestFits DEF MainnetIsFenced, Writes
<1>4. SetupFits'
  BY <1>1 DEF PortInv, SetupFits
<1>5. AnswerFits' /\ UnknownMeansGone'
  BY <1>1 DEF AnswerFits, UnknownMeansGone
<1>6. NeverCountedTwice'
  <2>1. \A c \in request.counted : venueOrder[c].filled
    BY <1>1 DEF PortInv, Fits
  <2>2. \A c \in Resting : venueOrder[c].filled => c \in strayed
    BY DEF PortInv, SpentIn, Resting
  <2>3. QED
    BY <1>1, <2>1, <2>2 DEF NeverCountedTwice
<1>7. known' \in [OrderIds -> Symbols \cup {NoName}]
  <2>1. \A c \in OrderIds : known[c] \in Symbols \cup {NoName} /\ venueOrder[c].symbol \in Symbols \cup {NoName}
    BY DEF PortInv, KnownFits, VenueFits, Orders
  <2>2. QED
    BY <1>1, <2>1
<1>8. \A c \in OrderIds : known'[c] \in {NoName, known[c], venueOrder'[c].symbol}
  BY <1>1
<1>9. QED
  BY <1>1, <1>2, <1>3, <1>4, <1>5, <1>6, <1>7, <1>8, PortFrame

LEMMA PortInvInductive == PortInv /\ [PortNext]_portVars => PortInv'
<1> SUFFICES ASSUME PortInv, [PortNext]_portVars PROVE PortInv'
  OBVIOUS
<1>1. ASSUME NEW c \in OrderIds, NEW s \in Symbols,
             PlaceLimit(c, s) \/ PlaceMarket(c, s) \/ \E legacy \in BOOLEAN : AppearsAt(c, s, legacy)
      PROVE  PortInv'
  BY <1>1, SendKeepsPort, AppearsKeepsPort DEF PlaceLimit, PlaceMarket
<1>2. ASSUME NEW c \in OrderIds,
             CancelByClientId(c) \/ CancelById(c) \/ ReplaceOrder(c) \/ OrderSettles(c, "filled") \/ OrderSettles(c, "gone")
      PROVE  PortInv'
  BY <1>2, CancelKeepsPort, CancelByIdKeepsPort, ReplaceKeepsPort, SettledKeepsPort
<1>3. CASE UNCHANGED portVars
  BY <1>3 DEF portVars, PortInv, SetupFits, VenueFits, KnownFits, Fits, LateFits, SpentIn, AnswerFits,
       UnknownMeansGone, NeverCountedTwice, MainnetIsFenced, Resting
<1>4. QED
  BY <1>1, <1>2, <1>3, BootKeepsPort, KillKeepsPort, CancelSymbolKeepsPort, LandKeepsPort, AnsweredKeepsPort,
     RejectedKeepsPort, FailedKeepsPort, AskSnapshotKeepsPort, AnswerOrdersKeepsPort DEF PortNext

LEMMA PortInvInitial == PortInit => PortInv
<1> SUFFICES ASSUME PortInit PROVE PortInv
  OBVIOUS
<1>1. /\ setup = Down /\ request = NoRequest /\ late = {} /\ strayed = {} /\ answer = NoAnswer
      /\ known = [c \in OrderIds |-> NoName] /\ venueOrder = [c \in OrderIds |-> Unsent]
  BY DEF PortInit
<1>2. SetupFits
  BY <1>1 DEF SetupFits, Down
<1>3. VenueFits(venueOrder) /\ SpentIn(venueOrder, strayed) /\ KnownFits
  BY <1>1, UnsentFits DEF VenueFits, SpentIn, KnownFits
<1>4. Fits(request, venueOrder) /\ MainnetIsFenced /\ LateFits
  BY <1>1, NoRequestFits DEF MainnetIsFenced, Writes, LateFits
<1>5. AnswerFits /\ UnknownMeansGone /\ NeverCountedTwice
  BY <1>1 DEF NoAnswer, AnswerFits, UnknownMeansGone, NeverCountedTwice
<1>6. QED
  BY <1>2, <1>3, <1>4, <1>5 DEF PortInv

\* Whatever is lost, repeated or late, and across restarts under other whitelists: a
\* cancel names its order's symbol, an order called unknown does not rest, no snapshot
\* counts a fill twice, and the mainnet sees no symbol outside the whitelist.
THEOREM PortTellsTheTruth == PortSpec => []PortIsTruthful
<1>1. PortInv => PortIsTruthful
  BY DEF PortInv, PortIsTruthful, CancelNamesItsOrder, Fits
<1>2. QED
  BY PortInvInitial, PortInvInductive, <1>1, PTL DEF PortSpec
=============================================================================
