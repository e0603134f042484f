--------------------------- MODULE ResearchProofs ---------------------------
(***************************************************************************)
(* What the bridge forgets of an order, what a promotion records of a      *)
(* model, and which threshold the fill-probability gate takes over.        *)
(***************************************************************************)
EXTENDS OrderSubmission, ModelPromotion, FillGate, SequenceTheorems, FiniteSetTheorems, WellFoundedInduction, TLAPS

-----------------------------------------------------------------------------
\* What the bridge forgets.  An order is dropped from the books only when its answer
\* says it was not placed; the argument follows a request from the moment the exchange
\* has it: until it is answered every attempt remembers that an earlier one was lost,
\* and only an attempt that was never sent can then be answered by a refusal.

Kinds == {"blocked", "circuitOpen", "limit", "placed", "refused", "duplicate", "unknown"}

Jobs ==
  {Unsent}
    \cup [at : {"queued"}, tries : {0}, lost : {FALSE}]
    \cup [at : {"checked"}, tries : Nat, lost : BOOLEAN, read : Nat]
    \cup [at : {"waiting"}, tries : Nat, lost : {TRUE}]
    \cup [at : {"answered"}, kind : Kinds, lost : BOOLEAN]

SubmissionTypeOK ==
  /\ jobs \in [Orders -> Jobs]
  /\ batch \subseteq Orders /\ posted \subseteq Orders
  /\ orderCount \in Nat
  /\ registered \subseteq Orders /\ pendingPlace \subseteq Orders /\ seedsAwaited \subseteq Orders
  /\ budgetLatch \in BOOLEAN /\ circuitOpen \in BOOLEAN

\* What a request that took effect leaves behind in its job.
PostedLeavesTrace ==
  \A c \in posted :
    \/ jobs[c].at \in {"checked", "waiting"} /\ jobs[c].lost
    \/ jobs[c].at = "answered" /\ StaysRegistered(c)
    \/ jobs[c].at = "answered" /\ jobs[c].kind \in {"circuitOpen", "limit"} /\ jobs[c].lost

\* Outside the batch nothing is under way, and what was forgotten is settled.
SettledOutside ==
  \A c \in Orders :
    /\ c \in batch => c \in registered /\ jobs[c] # Unsent
    /\ c \notin batch => jobs[c] = Unsent \/ jobs[c].at = "answered"
    /\ c \notin registered => jobs[c].at = "answered" /\ ~ StaysRegistered(c)

SubmissionInv == SubmissionTypeOK /\ PostedLeavesTrace /\ SettledOutside

\* The fields a job has at its stage.
LEMMA JobFields ==
  ASSUME NEW job \in Jobs
  PROVE  /\ job.at \in {"unsent", "queued", "checked", "waiting", "answered"}
         /\ job.at = "unsent" => job = Unsent
         /\ job.at = "queued" => job.tries = 0
         /\ job.at \in {"queued", "checked", "waiting"} => job.tries \in Nat /\ job.lost \in BOOLEAN
         /\ job.at = "checked" => job.read \in Nat
         /\ job.at = "waiting" => job.lost
         /\ job.at = "answered" => job.kind \in Kinds /\ job.lost \in BOOLEAN
<1>1. CASE job = Unsent
  BY <1>1 DEF Unsent
<1>2. CASE job \in [at : {"queued"}, tries : {0}, lost : {FALSE}]
  <2>1. job.at = "queued" /\ job.tries = 0 /\ job.lost \in BOOLEAN
    BY <1>2
  <2>2. QED
    BY <2>1
<1>3. CASE job \in [at : {"checked"}, tries : Nat, lost : BOOLEAN, read : Nat]
  BY <1>3
<1>4. CASE job \in [at : {"waiting"}, tries : Nat, lost : {TRUE}]
  BY <1>4
<1>5. CASE job \in [at : {"answered"}, kind : Kinds, lost : BOOLEAN]
  BY <1>5
<1>6. QED
  BY <1>1, <1>2, <1>3, <1>4, <1>5 DEF Jobs

\* What may become of a job.
LEMMA JobForms ==
  ASSUME NEW n \in Nat, NEW m \in Nat, NEW lost \in BOOLEAN, NEW kind \in Kinds
  PROVE  /\ [at |-> "checked", tries |-> n, lost |-> lost, read |-> m] \in Jobs
         /\ [at |-> "waiting", tries |-> n, lost |-> TRUE] \in Jobs
         /\ Answer(kind, lost) \in Jobs
BY DEF Jobs, Answer

\* The process starts with every order unsent and registered.
LEMMA SubmissionInitTyped == SubmissionInit => SubmissionTypeOK
<1> USE SubmissionAssumption DEF Orders
<1>1. ASSUME SubmissionInit PROVE jobs \in [Orders -> Jobs]
  BY <1>1 DEF SubmissionInit, Jobs
<1>2. ASSUME SubmissionInit PROVE seedsAwaited \subseteq Orders
  BY <1>2 DEF SubmissionInit
<1>3. ASSUME SubmissionInit PROVE budgetLatch \in BOOLEAN /\ circuitOpen \in BOOLEAN
  BY <1>3 DEF SubmissionInit
<1>4. ASSUME SubmissionInit
      PROVE  /\ batch \subseteq Orders /\ posted \subseteq Orders /\ orderCount \in Nat
             /\ registered \subseteq Orders /\ pendingPlace \subseteq Orders
  BY <1>4 DEF SubmissionInit
<1>5. QED
  BY <1>1, <1>2, <1>3, <1>4 DEF SubmissionTypeOK

\* Every variable keeps its type: in particular a job is always in one of the five
\* stages of _submit_seed and of the single dispatch, with the fields that stage has.
THEOREM SubmissionTypeCorrect == SubmissionSpec => []SubmissionTypeOK
<1> USE SubmissionAssumption DEF Orders
<1>1. SubmissionInit => SubmissionTypeOK
  BY SubmissionInitTyped
<1>2. SubmissionTypeOK /\ [SubmissionNext]_submissionVars => SubmissionTypeOK'
  <2> SUFFICES ASSUME SubmissionTypeOK, [SubmissionNext]_submissionVars
               PROVE  SubmissionTypeOK'
    OBVIOUS
  <2> USE DEF SubmissionTypeOK
  <2>1. CASE UNCHANGED submissionVars
    BY <2>1 DEF submissionVars
  <2>2. ASSUME NEW B \in Batches, NEW shut, NEW faulty, Dispatch(B, shut, faulty)
        PROVE  SubmissionTypeOK'
    BY <2>2 DEF Dispatch, Batches, Jobs, Kinds, Answer, Unsent
  <2>3. ASSUME NEW c \in Orders, Check(c) PROVE SubmissionTypeOK'
    <3>1. jobs'[c] \in Jobs
      <4>1. /\ jobs[c].tries \in Nat /\ jobs[c].lost \in BOOLEAN
            /\ jobs[c].tries + 1 \in Nat
        BY <2>3, JobFields, jobs[c] \in Jobs DEF Check
      <4>2. \/ jobs'[c] = Answer("circuitOpen", jobs[c].lost)
            \/ jobs'[c] = Answer("limit", jobs[c].lost)
            \/ jobs'[c] = [at |-> "checked", tries |-> jobs[c].tries + 1,
                           lost |-> jobs[c].lost, read |-> orderCount]
        BY <2>3 DEF Check
      <4>3. QED
        BY <4>1, <4>2, JobForms DEF Kinds
    <3>2. QED
      BY <2>3, <3>1 DEF Check
  <2>4. ASSUME NEW c \in Orders, NEW reply \in {"placed", "refused", "duplicate"},
               Replied(c, reply)
        PROVE  SubmissionTypeOK'
    <3>1. jobs'[c] \in Jobs
      BY <2>4, JobFields, JobForms, jobs[c] \in Jobs DEF Replied, Kinds
    <3>2. orderCount' \in Nat
      BY <2>4, JobFields, jobs[c] \in Jobs DEF Replied, Counted
    <3>3. QED
      BY <2>4, <3>1, <3>2 DEF Replied
  <2>5. ASSUME NEW c \in Orders, NEW took \in BOOLEAN, NEW final \in BOOLEAN,
               NoReply(c, took, final)
        PROVE  SubmissionTypeOK'
    <3>1. jobs'[c] \in Jobs
      BY <2>5, JobFields, JobForms, jobs[c] \in Jobs DEF NoReply, Kinds
    <3>2. orderCount' \in Nat
      BY <2>5, JobFields, jobs[c] \in Jobs DEF NoReply, Counted
    <3>3. circuitOpen' \in BOOLEAN
      BY <2>5, Zenon DEF NoReply
    <3>4. QED
      BY <2>5, <3>1, <3>2, <3>3 DEF NoReply
  <2>6. CASE CircuitCloses
    BY <2>6 DEF CircuitCloses
  <2>7. CASE ApplyOutcomes
    BY <2>7 DEF ApplyOutcomes
  <2>8. QED
    BY <2>1, <2>2, <2>3, <2>4, <2>5, <2>6, <2>7 DEF SubmissionNext
<1>3. QED
  BY <1>1, <1>2, PTL DEF SubmissionSpec

\* Every step keeps the trace of what the exchange has and the settlement of what is
\* outside the batch.
LEMMA SubmissionInvariant == SubmissionSpec => []SubmissionInv
<1> USE SubmissionAssumption DEF Orders
<1>1. SubmissionInit => SubmissionInv
  <2>1. SubmissionInit => SubmissionTypeOK
    BY SubmissionInitTyped
  <2>2. SubmissionInit => PostedLeavesTrace /\ SettledOutside
    BY DEF SubmissionInit, PostedLeavesTrace, SettledOutside
  <2>3. QED
    BY <2>1, <2>2 DEF SubmissionInv
<1>2. SubmissionInv /\ SubmissionTypeOK' /\ [SubmissionNext]_submissionVars => SubmissionInv'
  <2> SUFFICES ASSUME SubmissionInv, SubmissionTypeOK', [SubmissionNext]_submissionVars
               PROVE  PostedLeavesTrace' /\ SettledOutside'
    BY DEF SubmissionInv
  <2> USE DEF SubmissionInv, SubmissionTypeOK, PostedLeavesTrace, SettledOutside,
              StaysRegistered, Ambiguous, Jobs, Answer, Unsent
  <2>1. CASE UNCHANGED submissionVars
    BY <2>1 DEF submissionVars
  <2>2. ASSUME NEW B \in Batches, NEW shut, NEW faulty, Dispatch(B, shut, faulty)
        PROVE  PostedLeavesTrace' /\ SettledOutside'
    BY <2>2 DEF Dispatch, Batches
  <2>3. ASSUME NEW c \in Orders, Check(c) PROVE PostedLeavesTrace' /\ SettledOutside'
    BY <2>3 DEF Check
  <2>4. ASSUME NEW c \in Orders, NEW reply \in {"placed", "refused", "duplicate"},
               Replied(c, reply)
        PROVE  PostedLeavesTrace' /\ SettledOutside'
    BY <2>4 DEF Replied, Replies
  <2>5. ASSUME NEW c \in Orders, NEW took \in BOOLEAN, NEW final \in BOOLEAN,
               NoReply(c, took, final)
        PROVE  PostedLeavesTrace' /\ SettledOutside'
    BY <2>5 DEF NoReply
  <2>6. CASE CircuitCloses
    BY <2>6 DEF CircuitCloses
  <2>7. CASE ApplyOutcomes
    BY <2>7 DEF ApplyOutcomes
  <2>8. QED
    BY <2>1, <2>2, <2>3, <2>4, <2>5, <2>6, <2>7 DEF SubmissionNext
<1>3. QED
  BY <1>1, <1>2, SubmissionTypeCorrect, PTL DEF SubmissionSpec

\* An order the exchange has and the bridge forgot is one whose retry the engine refused
\* to send after an earlier request of it was lost, for any number of seeds, exits,
\* threads and attempts and any limit.
THEOREM ForgottenWereLost == SubmissionSpec => []ForgottenOnlyUnsent
<1>1. SubmissionInv => ForgottenOnlyUnsent
  BY DEF SubmissionInv, SubmissionTypeOK, PostedLeavesTrace, SettledOutside, ForgottenOnlyUnsent
<1>2. QED
  BY <1>1, SubmissionInvariant, PTL

-----------------------------------------------------------------------------
\* The audit trail of the registry and the vetting of the engine.  Every file a
\* promoter holds in memory audits like the one it read, whatever the others do to the
\* file meanwhile, because a promotion puts its event in front and its pointer in place
\* together.

Pointers ==
  {None} \cup [artifact : Artifacts, sha : BOOLEAN, dataset : Datasets \cup {"none"}, at : Nat]

Events == [stage : Stages, pointer : Pointers]

Files ==
  [state : {"whole", "empty", "garbled"}, history : Seq(Events), stages : [Stages -> Pointers]]

Invocations ==
  {[at |-> "idle"]}
    \cup [at : {"validated"}, stage : Stages, pointer : Pointers]
    \cup [at : {"read", "opened"}, file : Files]

Engines ==
  {Stopped}
    \cup [on : {"running"}, config : Configs, artifact : Artifacts \cup {"none"}, model : Nat]

PromotionTypeOK ==
  /\ datasets \in [Datasets -> {"none", "half", "whole"}]
  /\ artifacts \in [Artifacts -> [state : {"none", "half", "whole"},
                                  dataset : Datasets \cup {"none"}, version : Nat]]
  /\ registry \in Files
  /\ promoters \in [Promoters -> Invocations]
  /\ engine \in Engines
  /\ injected \in {[how |-> "none"]} \cup [how : {"active"}, killed : BOOLEAN]
  /\ writes \in Nat

\* The newest event of a stage tells its pointer, whether or not the file can be read.
Audits(file) ==
  \A i \in 1 .. Len(file.history) :
    (\A j \in 1 .. i - 1 : file.history[j].stage # file.history[i].stage)
      => file.stages[file.history[i].stage] = file.history[i].pointer

AllAudit ==
  /\ Audits(registry)
  /\ \A w \in Promoters : promoters[w].at \in {"read", "opened"} => Audits(promoters[w].file)

\* A running engine passed the guards, and influence ends with it.
EngineVetted ==
  /\ engine # Stopped => ConfigAccepted(engine.config, engine.artifact)
  /\ engine.on = "stopped" => injected.how = "none"
  /\ engine # Stopped /\ engine.config.from = "none" => engine.artifact = "none"

PromotionInv ==
  PromotionTypeOK /\ AllAudit /\ EngineVetted /\ InfluenceIsVetted

-------------------------------------------------------------------------------
(* Promotions. *)

\* Remembered puts the event in front of what fits of the history.
LEMMA RememberedProperties ==
  ASSUME NEW history \in Seq(Events), NEW event \in Events
  PROVE  LET r == Remembered(history, event) IN
         /\ r \in Seq(Events)
         /\ Len(r) \in 1 .. Len(history) + 1
         /\ r[1] = event
         /\ \A i \in 2 .. Len(r) : r[i] = history[i - 1]
<1> DEFINE n == IF Len(history) >= MaxHistory THEN MaxHistory ELSE Len(history) + 1
           long == <<event>> \o history
<1>1. n \in 1 .. Len(history) + 1
  BY PromotionAssumption
<1>2. /\ long \in Seq(Events) /\ Len(long) = Len(history) + 1 /\ long[1] = event
      /\ \A i \in 2 .. Len(long) : long[i] = history[i - 1]
  <2>1. <<event>> \in Seq(Events) /\ Len(<<event>>) = 1 /\ <<event>>[1] = event
    OBVIOUS
  <2>2. QED
    BY <2>1, ConcatProperties
<1>3. /\ SubSeq(long, 1, n) \in Seq(Events) /\ Len(SubSeq(long, 1, n)) = n
      /\ \A i \in 1 .. n : SubSeq(long, 1, n)[i] = long[i]
  <2>1. \A i \in 1 .. n : long[i] \in Events
    BY <1>1, <1>2
  <2>2. QED
    BY <1>1, <2>1, SubSeqProperties
<1>4. Remembered(history, event) = SubSeq(long, 1, n)
  BY DEF Remembered
<1> HIDE DEF n, long
<1>5. QED
  BY <1>1, <1>2, <1>3, <1>4

\* A promotion keeps the type of the file and its audit trail.
LEMMA PromotedAudits ==
  ASSUME NEW file \in Files, NEW stage \in Stages, NEW p \in Pointers
  PROVE  /\ Promoted(file, stage, p) \in Files
         /\ Audits(file) => Audits(Promoted(file, stage, p))
<1> DEFINE e == [stage |-> stage, pointer |-> p]
           new == Promoted(file, stage, p)
           r == Remembered(file.history, e)
<1>1. e \in Events /\ file.history \in Seq(Events)
  BY DEF Events, Files
<1>2. /\ r \in Seq(Events) /\ Len(r) \in 1 .. Len(file.history) + 1 /\ r[1] = e
      /\ \A i \in 2 .. Len(r) : r[i] = file.history[i - 1]
  BY <1>1, RememberedProperties
<1>3. /\ new.history = r /\ new.state = file.state
      /\ new.stages = [file.stages EXCEPT ![stage] = p]
      /\ new \in Files
  <2>1. new = [file EXCEPT !.stages = [file.stages EXCEPT ![stage] = p], !.history = r]
    BY DEF Promoted, Files
  <2>2. new = [state |-> file.state, history |-> r, stages |-> [file.stages EXCEPT ![stage] = p]]
    BY <2>1 DEF Files
  <2>3. /\ file.state \in {"whole", "empty", "garbled"}
        /\ [file.stages EXCEPT ![stage] = p] \in [Stages -> Pointers]
    BY DEF Files
  <2>4. QED
    BY <1>2, <2>2, <2>3 DEF Files
<1>4. ASSUME Audits(file), NEW i \in 1 .. Len(r),
             \A j \in 1 .. i - 1 : r[j].stage # r[i].stage
      PROVE  new.stages[r[i].stage] = r[i].pointer
  <2>1. CASE i = 1
    BY <1>2, <1>3, <2>1 DEF Files
  <2>2. CASE i # 1
    <3>1. i \in 2 .. Len(r) /\ i - 1 \in 1 .. Len(file.history) /\ r[i] = file.history[i - 1]
      BY <1>2, <2>2
    <3>2. r[i].stage # stage /\ r[i].stage \in Stages
      <4>1. r[1].stage = stage
        BY <1>2
      <4>2. 1 \in 1 .. i - 1
        BY <2>2
      <4>3. r[i] \in Events
        BY <1>2
      <4>4. QED
        BY <1>4, <4>1, <4>2, <4>3 DEF Events
    <3>3. ASSUME NEW j \in 1 .. (i - 1) - 1 PROVE file.history[j].stage # file.history[i - 1].stage
      <4>1. j + 1 \in 2 .. Len(r) /\ j + 1 \in 1 .. i - 1 /\ (j + 1) - 1 = j
        BY <3>1, <3>3
      <4>2. r[j + 1] = file.history[j]
        BY <1>2, <4>1
      <4>3. QED
        BY <1>4, <3>1, <4>1, <4>2
    <3>4. file.stages[file.history[i - 1].stage] = file.history[i - 1].pointer
      BY <1>4, <3>1, <3>3 DEF Audits
    <3>5. QED
      BY <1>3, <3>1, <3>2, <3>4 DEF Files
  <2>3. QED
    BY <2>1, <2>2
<1> HIDE DEF new, r
<1>5. Audits(file) => Audits(new)
  BY <1>3, <1>4 DEF Audits
<1>6. QED
  BY <1>3, <1>5 DEF new

-------------------------------------------------------------------------------
(* The invariant. *)

LEMMA PromotionInitially == PromotionInit => PromotionInv
<1> SUFFICES ASSUME PromotionInit PROVE PromotionInv
  OBVIOUS
<1>1. PICK byHand \in {None} \cup [artifact : Artifacts, sha : BOOLEAN, dataset : {"none"}, at : {0}],
           stage \in Stages :
        registry = [state |-> "whole", history |-> <<>>,
                    stages |-> [s \in Stages |-> IF s = stage THEN byHand ELSE None]]
  BY DEF PromotionInit
<1>2. byHand \in Pointers /\ None \in Pointers
  BY DEF Pointers
<1>3. registry \in Files /\ registry.history = <<>>
  BY <1>1, <1>2 DEF Files
<1>4. Audits(registry)
  BY <1>3 DEF Audits
<1>5. PromotionTypeOK
  BY <1>3 DEF PromotionInit, PromotionTypeOK, Invocations, Engines
<1>6. QED
  BY <1>4, <1>5 DEF PromotionInit, PromotionInv, AllAudit, EngineVetted, InfluenceIsVetted, Stopped

\* The steps of the builders change no registry, no promoter and no engine.
LEMMA BuildersKeep ==
  ASSUME PromotionInv, UNCHANGED <<registry, promoters, engine, injected>>,
         writes' \in Nat,
         datasets' \in [Datasets -> {"none", "half", "whole"}],
         artifacts' \in [Artifacts -> [state : {"none", "half", "whole"},
                                       dataset : Datasets \cup {"none"}, version : Nat]]
  PROVE  PromotionInv'
<1>1. PromotionTypeOK'
  BY DEF PromotionInv, PromotionTypeOK
<1>2. AllAudit'
  BY DEF PromotionInv, AllAudit, Audits
<1>3. EngineVetted' /\ InfluenceIsVetted'
  BY DEF PromotionInv, EngineVetted, InfluenceIsVetted, ConfigAccepted
<1>4. QED
  BY <1>1, <1>2, <1>3 DEF PromotionInv

\* The steps of a promoter.
LEMMA PromotersKeep ==
  ASSUME PromotionInv, NEW w \in Promoters,
         \/ \E stage \in Stages, a \in Artifacts, sha \in BOOLEAN, d \in Datasets \cup {"none"} :
              Validate(w, stage, a, sha, d)
         \/ \E dry \in BOOLEAN : ReadAgain(w, dry)
         \/ Truncate(w) \/ Dump(w) \/ Interrupt(w)
  PROVE  PromotionInv'
<1> USE DEF PromotionInv, PromotionTypeOK, AllAudit
<1>0. /\ promoters[w] \in Invocations
      /\ [at |-> "idle"] \in Invocations
      /\ promoters[w].at = "validated" => promoters[w].stage \in Stages /\ promoters[w].pointer \in Pointers
      /\ promoters[w].at \in {"read", "opened"} => promoters[w].file \in Files
  BY DEF Invocations
<1>1. ASSUME NEW next \in Invocations, promoters' = [promoters EXCEPT ![w] = next],
             next.at \in {"read", "opened"} => Audits(next.file),
             registry' \in Files, Audits(registry'), writes' \in Nat,
             UNCHANGED <<datasets, artifacts, engine, injected>>
      PROVE  PromotionInv'
  <2>1. PromotionTypeOK'
    BY <1>1
  <2>2. AllAudit'
    BY <1>1 DEF Audits
  <2>3. EngineVetted' /\ InfluenceIsVetted'
    BY <1>1 DEF EngineVetted, InfluenceIsVetted, ConfigAccepted
  <2>4. QED
    BY <2>1, <2>2, <2>3
<1>2. ASSUME NEW stage \in Stages, NEW a \in Artifacts, NEW sha \in BOOLEAN,
             NEW d \in Datasets \cup {"none"}, Validate(w, stage, a, sha, d)
      PROVE  PromotionInv'
  <2> DEFINE p == [artifact |-> a, sha |-> sha, dataset |-> d, at |-> writes + 1]
             next == [at |-> "validated", stage |-> stage, pointer |-> p]
  <2>1. p \in Pointers
    BY DEF Pointers
  <2>2. next \in Invocations /\ next.at = "validated"
    BY <2>1 DEF Invocations
  <2>3. promoters' = [promoters EXCEPT ![w] = next]
    BY <1>2 DEF Validate
  <2> HIDE DEF p, next
  <2>4. writes' \in Nat /\ UNCHANGED <<datasets, artifacts, registry, engine, injected>>
    BY <1>2 DEF Validate
  <2>5. Audits(registry')
    BY <2>4 DEF Audits
  <2>6. QED
    BY <1>1, <2>2, <2>3, <2>4, <2>5
<1>3. ASSUME NEW dry \in BOOLEAN, ReadAgain(w, dry) PROVE PromotionInv'
  <2> DEFINE new == Promoted(registry, promoters[w].stage, promoters[w].pointer)
             next == IF dry \/ registry.state # "whole" THEN [at |-> "idle"]
                     ELSE [at |-> "read", file |-> new]
  <2>1. new \in Files /\ Audits(new)
    BY <1>0, <1>3, PromotedAudits DEF ReadAgain
  <2>2. promoters' = [promoters EXCEPT ![w] = next]
    BY <1>3 DEF ReadAgain
  <2> HIDE DEF new
  <2>3. next \in Invocations /\ (next.at \in {"read", "opened"} => next.file = new)
    BY <2>1 DEF Invocations
  <2> HIDE DEF next
  <2>4. UNCHANGED <<datasets, artifacts, registry, engine, injected, writes>>
    BY <1>3 DEF ReadAgain
  <2>5. Audits(registry')
    BY <2>4 DEF Audits
  <2>6. QED
    BY <1>1, <2>1, <2>2, <2>3, <2>4, <2>5
<1>4. ASSUME Truncate(w) PROVE PromotionInv'
  <2> DEFINE next == [promoters[w] EXCEPT !.at = "opened"]
  <2>1. registry' \in Files /\ Audits(registry')
    BY <1>4 DEF Truncate, Files, Audits
  <2>2. promoters[w] \in [at : {"read", "opened"}, file : Files] /\ Audits(promoters[w].file)
    BY <1>0, <1>4 DEF Truncate, Invocations
  <2>3. next \in Invocations /\ next.file = promoters[w].file
    BY <2>2 DEF Invocations
  <2>4. promoters' = [promoters EXCEPT ![w] = next]
    BY <1>4 DEF Truncate
  <2> HIDE DEF next
  <2>5. UNCHANGED <<datasets, artifacts, engine, injected, writes>>
    BY <1>4 DEF Truncate
  <2>6. QED
    BY <1>1, <2>1, <2>2, <2>3, <2>4, <2>5
<1>5. ASSUME Dump(w) \/ Interrupt(w) PROVE PromotionInv'
  <2>1. registry' \in Files /\ Audits(registry')
    <3>1. CASE registry' = promoters[w].file /\ Dump(w)
      BY <1>0, <3>1 DEF Dump
    <3>2. CASE registry' = [registry EXCEPT !.state = "garbled"]
      BY <3>2 DEF Files, Audits
    <3>3. CASE UNCHANGED registry
      BY <3>3
    <3>4. QED
      BY <1>5, <3>1, <3>2, <3>3 DEF Dump, Interrupt
  <2>2. /\ promoters' = [promoters EXCEPT ![w] = [at |-> "idle"]]
        /\ UNCHANGED <<datasets, artifacts, engine, injected, writes>>
    BY <1>5 DEF Dump, Interrupt
  <2>3. QED
    BY <1>0, <1>1, <2>1, <2>2
<1>6. QED
  BY <1>2, <1>3, <1>4, <1>5

\* The steps of the engine.
LEMMA EnginesKeep ==
  ASSUME PromotionInv,
         \/ \E c \in Configs, stage \in Stages, a \in Artifacts : Boot(c, stage, a)
         \/ Load
         \/ \E killed, killedLater, predicts \in BOOLEAN : Snapshot(killed, killedLater, predicts)
         \/ Stop
  PROVE  PromotionInv'
<1> USE DEF PromotionInv, PromotionTypeOK
<1>0. \/ engine = Stopped
      \/ /\ engine # Stopped /\ engine.on = "running" /\ engine.config \in Configs
         /\ engine.artifact \in Artifacts \cup {"none"} /\ engine.model \in Nat
  BY DEF Engines, Stopped
<1>1. ASSUME UNCHANGED <<registry, promoters>> PROVE AllAudit'
  BY <1>1 DEF AllAudit, Audits
<1>2. ASSUME NEW c \in Configs, NEW stage \in Stages, NEW a \in Artifacts, Boot(c, stage, a)
      PROVE  PromotionInv'
  <2> DEFINE found == Resolved(c, stage, a)
  <2>1. found \in Artifacts \cup {"none"} /\ (c.from = "none" => found = "none")
    <3>1. registry.stages[stage] \in Pointers
      BY DEF Files
    <3>2. registry.stages[stage].artifact \in Artifacts \cup {"none"}
      BY <3>1 DEF Pointers, None
    <3>3. c.from \in {"registry", "legacy", "none"}
      BY DEF Configs
    <3>4. QED
      BY <3>2, <3>3 DEF Resolved
  <2> HIDE DEF found
  <2>2. /\ engine' = [on |-> "running", config |-> c, artifact |-> found, model |-> 0]
        /\ ConfigAccepted(c, found) /\ UNCHANGED <<datasets, artifacts, registry, promoters, injected, writes>>
        /\ engine = Stopped
    BY <1>2 DEF Boot, found
  <2>3. engine' \in Engines /\ engine' # Stopped /\ engine'.on = "running"
    BY <2>1, <2>2 DEF Engines, Stopped
  <2>4. EngineVetted' /\ InfluenceIsVetted'
    BY <2>1, <2>2, <2>3 DEF EngineVetted, InfluenceIsVetted, Stopped, ConfigAccepted
  <2>5. QED
    BY <1>1, <2>2, <2>3, <2>4
<1>3. CASE Load
  <2>1. /\ UNCHANGED <<datasets, artifacts, registry, promoters, writes>> /\ injected' = [how |-> "none"]
        /\ \/ engine' = [engine EXCEPT !.model = artifacts[engine.artifact].version]
           \/ engine' = Stopped
           \/ engine' = [engine EXCEPT !.model = 0]
        /\ engine # Stopped /\ engine.config.shadow
    BY <1>3 DEF Load
  <2>2. engine.artifact \in Artifacts
    BY <1>0, <2>1 DEF EngineVetted, ConfigAccepted
  <2>3. artifacts[engine.artifact].version \in Nat
    BY <2>2
  <2>4. ASSUME NEW v \in Nat, engine' = [engine EXCEPT !.model = v] PROVE engine' \in Engines /\ EngineVetted'
    <3>1. engine \in [on : {"running"}, config : Configs, artifact : Artifacts \cup {"none"}, model : Nat]
      BY <2>1 DEF Engines
    <3>2. /\ engine'.on = "running" /\ engine'.config = engine.config /\ engine'.artifact = engine.artifact
          /\ engine' \in [on : {"running"}, config : Configs, artifact : Artifacts \cup {"none"}, model : Nat]
      BY <2>4, <3>1
    <3>3. QED
      BY <2>1, <3>1, <3>2 DEF EngineVetted, Engines, ConfigAccepted, Stopped
  <2>5. ASSUME engine' = Stopped PROVE engine' \in Engines /\ EngineVetted'
    BY <2>1, <2>5 DEF EngineVetted, Engines, Stopped
  <2>6. engine' \in Engines /\ EngineVetted'
    BY <2>1, <2>3, <2>4, <2>5
  <2>7. QED
    BY <1>1, <2>1, <2>6 DEF InfluenceIsVetted
<1>4. ASSUME NEW killed \in BOOLEAN, NEW killedLater \in BOOLEAN, NEW predicts \in BOOLEAN,
             Snapshot(killed, killedLater, predicts)
      PROVE  PromotionInv'
  <2>1. /\ UNCHANGED <<datasets, artifacts, registry, promoters, engine, writes>> /\ engine # Stopped
        /\ \/ injected' = [how |-> "none"]
           \/ /\ injected' = [how |-> "active", killed |-> FALSE]
              /\ engine.config.active /\ engine.config.ack /\ engine.config.envAllowed
              /\ engine.model > 0
    BY <1>4 DEF Snapshot, ActiveAllowed
  <2>2. injected' \in {[how |-> "none"]} \cup [how : {"active"}, killed : BOOLEAN]
    <3>1. [how |-> "active", killed |-> FALSE] \in [how : {"active"}, killed : BOOLEAN]
      OBVIOUS
    <3>2. QED
      BY <2>1, <3>1
  <2>3. engine.config.active => engine.config.from = "registry"
    <3>1. engine.config.from \in {"registry", "legacy", "none"}
      BY <1>0, <2>1 DEF Configs
    <3>2. QED
      BY <2>1, <3>1 DEF EngineVetted, ConfigAccepted
  <2>4. EngineVetted'
    BY <1>0, <2>1 DEF EngineVetted, ConfigAccepted, Stopped
  <2>5. InfluenceIsVetted'
    BY <2>1, <2>3 DEF InfluenceIsVetted
  <2>6. QED
    BY <1>1, <2>1, <2>2, <2>4, <2>5
<1>5. CASE Stop
  <2>1. engine' = Stopped /\ Stopped \in Engines /\ injected' = [how |-> "none"]
        /\ UNCHANGED <<datasets, artifacts, registry, promoters, writes>>
    BY <1>5 DEF Stop, Engines
  <2>2. QED
    BY <1>1, <2>1 DEF EngineVetted, InfluenceIsVetted, Stopped
<1>6. QED
  BY <1>2, <1>3, <1>4, <1>5

LEMMA PromotionInvariant == PromotionSpec => []PromotionInv
<1>1. PromotionInv /\ [PromotionNext]_promotionVars => PromotionInv'
  <2> SUFFICES ASSUME PromotionInv, [PromotionNext]_promotionVars PROVE PromotionInv'
    OBVIOUS
  <2> USE DEF PromotionInv, PromotionTypeOK
  <2>1. CASE UNCHANGED promotionVars
    BY <2>1, BuildersKeep DEF promotionVars
  <2>2. ASSUME NEW d \in Datasets, NEW force \in BOOLEAN, StartDataset(d, force) PROVE PromotionInv'
    BY <2>2, BuildersKeep DEF StartDataset
  <2>3. ASSUME NEW d \in Datasets, FinishDataset(d) PROVE PromotionInv'
    BY <2>3, BuildersKeep DEF FinishDataset
  <2>4. ASSUME NEW a \in Artifacts, NEW d \in Datasets \cup {"none"}, NEW synthetic \in BOOLEAN,
               ExportModel(a, d, synthetic)
        PROVE  PromotionInv'
    BY <2>4, BuildersKeep DEF ExportModel
  <2>5. ASSUME NEW a \in Artifacts, WriteManifest(a) PROVE PromotionInv'
    BY <2>5, BuildersKeep DEF WriteManifest
  <2>6. QED
    BY <2>1, <2>2, <2>3, <2>4, <2>5, PromotersKeep, EnginesKeep DEF PromotionNext
<1>2. QED
  BY <1>1, PromotionInitially, PTL DEF PromotionSpec

\* Every variable keeps its type, for any artifacts, datasets and promoters.
THEOREM PromotionTypeCorrect == PromotionSpec => []PromotionTypeOK
<1>1. PromotionInv => PromotionTypeOK
  BY DEF PromotionInv
<1>2. QED
  BY <1>1, PromotionInvariant, PTL

\* Whatever promotions overlap or are interrupted, in a registry that can be read the
\* newest event of a stage tells the pointer the stage has, for any length of history.
THEOREM HistoryAudits == PromotionSpec => []AuditMatches
<1>1. PromotionInv => AuditMatches
  <2> SUFFICES ASSUME PromotionInv, NEW i \in DOMAIN registry.history,
                      \A j \in 1 .. i - 1 : registry.history[j].stage # registry.history[i].stage
               PROVE  registry.stages[registry.history[i].stage] = registry.history[i].pointer
    BY DEF AuditMatches
  <2>1. DOMAIN registry.history = 1 .. Len(registry.history)
    BY DEF PromotionInv, PromotionTypeOK, Files
  <2>2. QED
    BY <2>1 DEF PromotionInv, AllAudit, Audits
<1>2. QED
  BY <1>1, PromotionInvariant, PTL

\* What a model predicts reaches the policy only through a running engine that passed
\* the guards with the registry's artifact, loaded it, and saw no kill switch.
THEOREM InfluenceVetted == PromotionSpec => []InfluenceIsVetted
<1>1. PromotionInv => InfluenceIsVetted
  BY DEF PromotionInv
<1>2. QED
  BY <1>1, PromotionInvariant, PTL

\* Both, as the run checks them: the registry tells how a stage came by its model, and no
\* other model trades.
THEOREM ModelsVetted == PromotionSpec => []ModelsAreVetted
<1>1. AuditMatches /\ InfluenceIsVetted <=> ModelsAreVetted
  BY DEF ModelsAreVetted
<1>2. QED
  BY <1>1, HistoryAudits, InfluenceVetted, PTL

-----------------------------------------------------------------------------
\* Proofs about the fill-probability gate: the threshold the engine takes over is the
\* best one for its model, and the breaker does not keep itself open.

\* Counting members is monotone, and what counts more than nothing has a member.
LEMMA TallyFacts ==
  ASSUME NEW f, NEW S, IsFiniteSet(S), \A x \in S : f[x] \in Nat
  PROVE  /\ Tally(f, S) \in Nat
         /\ \A T \in SUBSET S : Tally(f, T) \in Nat /\ Tally(f, T) <= Tally(f, S)
         /\ Tally(f, S) > 0 => \E x \in S : f[x] > 0
<1> DEFINE Each(x) == {x} \X (1..f[x])
           All(T) == UNION {Each(x) : x \in T}
<1>1. \A x \in S : IsFiniteSet(Each(x))
  <2> TAKE x \in S
  <2>1. 1 \in Int /\ f[x] \in Int
    OBVIOUS
  <2>2. IsFiniteSet(1..f[x])
    BY <2>1, FS_Interval
  <2>3. QED
    BY <2>2, FS_Singleton, FS_Product
<1>2. IsFiniteSet(All(S))
  <2> DEFINE each == [x \in S |-> Each(x)]
             T == {Each(x) : x \in S}
  <2>1. each \in Surjection(S, T)
    BY DEF Surjection
  <2>2. \A t \in T : IsFiniteSet(t)
    BY <1>1
  <2> HIDE DEF each, T
  <2>3. IsFiniteSet(T)
    BY <2>1, FS_Surjection
  <2>4. IsFiniteSet(UNION T)
    BY <2>2, <2>3, FS_UNION
  <2>5. QED
    BY <2>4 DEF T
<1>3. \A T \in SUBSET S : All(T) \in SUBSET All(S)
  OBVIOUS
<1>4. \A T : Tally(f, T) = Cardinality(All(T))
  BY DEF Tally
<1> HIDE DEF All
<1>5. \A T \in SUBSET S : Tally(f, T) \in Nat /\ Tally(f, T) <= Tally(f, S)
  BY <1>2, <1>3, <1>4, FS_Subset, FS_CardinalityType
<1>6. Tally(f, S) > 0 => \E x \in S : f[x] > 0
  <2> SUFFICES ASSUME Tally(f, S) > 0 PROVE \E x \in S : f[x] > 0
    OBVIOUS
  <2>1. All(S) # {}
    BY <1>4, FS_EmptySet
  <2>2. PICK x \in S : Each(x) # {}
    BY <2>1 DEF All
  <2>3. 1..f[x] # {}
    BY <2>2
  <2>4. QED
    BY <2>3
<1>7. QED
  BY <1>5, <1>6

LEMMA LeastOf ==
  ASSUME NEW S \in SUBSET Nat, S # {}
  PROVE  \E m \in S : \A n \in S : m <= n
<1>1. PICK m \in S : \A n \in S : <<n, m>> \notin OpToRel(<, Nat)
  BY NatLessThanWellFounded, WFMin
<1>2. \A n \in S : ~ (n < m)
  BY <1>1 DEF OpToRel
<1>3. QED
  BY <1>2

LEMMA MinIs ==
  ASSUME NEW S \in SUBSET Nat, S # {}
  PROVE  Min(S) \in S /\ \A n \in S : Min(S) <= n
BY LeastOf DEF Min

LEMMA MaxIs ==
  ASSUME NEW S \in SUBSET Nat, S # {}, NEW top \in Nat, \A n \in S : n <= top
  PROVE  Max(S) \in S /\ \A n \in S : n <= Max(S)
<1> DEFINE gaps == {top - n : n \in S}
<1>1. gaps \in SUBSET Nat /\ gaps # {}
  OBVIOUS
<1> HIDE DEF gaps
<1>2. PICK gap \in gaps : \A g \in gaps : gap <= g
  BY <1>1, LeastOf
<1> USE DEF gaps
<1>3. PICK m \in S : gap = top - m
  OBVIOUS
<1>4. \A n \in S : m >= n
  <2> TAKE n \in S
  <2>1. top - m <= top - n
    BY <1>2, <1>3
  <2>2. QED
    BY <2>1
<1> HIDE DEF gaps
<1>5. Max(S) \in S /\ \A n \in S : Max(S) >= n
  BY <1>4 DEF Max
<1>6. QED
  BY <1>5

-----------------------------------------------------------------------------
\* The sweep.

LEMMA SweepIs == Sweep \in SUBSET Nat /\ Sweep # {}
<1>1. SweepStep \in Nat /\ SweepStep # 0
  BY GateAssumption
<1>2. \A i \in 0..(10000 \div SweepStep) : SweepStep * i \in Nat
  BY <1>1
<1>3. 0 \in 0..(10000 \div SweepStep)
  BY <1>1
<1>4. QED
  BY <1>2, <1>3 DEF Sweep

LEMMA ScoreIs ==
  ASSUME NEW rows \in Outcomes, NEW model, NEW t
  PROVE  /\ CostScore(model, rows, t) \in Nat
         /\ Wins(rows, Bins) + CostRatio * Others(rows, Bins) \in Nat
         /\ CostScore(model, rows, t) <= Wins(rows, Bins) + CostRatio * Others(rows, Bins)
<1> DEFINE allowed == {b \in Bins : Predict(model, b) >= t}
           wins == [b \in Bins |-> rows[b].wins]
           others == [b \in Bins |-> rows[b].others]
<1>1. IsFiniteSet(Bins) /\ CostRatio \in Nat /\ rows \in [Bins -> [wins : Nat, others : Nat]]
  BY GateAssumption
<1>2. \A b \in Bins : wins[b] \in Nat /\ others[b] \in Nat
  BY <1>1
<1>3. Wins(rows, Bins) = Tally(wins, Bins) /\ Wins(rows, allowed) = Tally(wins, allowed)
  BY DEF Wins
<1>4. Others(rows, Bins) = Tally(others, Bins) /\ Others(rows, Bins \ allowed) = Tally(others, Bins \ allowed)
  BY DEF Others
<1>5. CostScore(model, rows, t) = Wins(rows, allowed) + CostRatio * Others(rows, Bins \ allowed)
  BY DEF CostScore
<1>6. allowed \in SUBSET Bins /\ Bins \ allowed \in SUBSET Bins
  OBVIOUS
<1> HIDE DEF allowed, wins, others
<1>7. Wins(rows, allowed) \in Nat /\ Wins(rows, Bins) \in Nat /\ Wins(rows, allowed) <= Wins(rows, Bins)
  BY <1>1, <1>2, <1>3, <1>6, TallyFacts
<1>8. /\ Others(rows, Bins \ allowed) \in Nat /\ Others(rows, Bins) \in Nat
      /\ Others(rows, Bins \ allowed) <= Others(rows, Bins)
  BY <1>1, <1>2, <1>4, <1>6, TallyFacts
<1>9. \A m, n, c \in Nat : m <= n => c * m <= c * n /\ c * m \in Nat /\ c * n \in Nat
  OBVIOUS
<1>10. /\ CostRatio * Others(rows, Bins \ allowed) \in Nat /\ CostRatio * Others(rows, Bins) \in Nat
       /\ CostRatio * Others(rows, Bins \ allowed) <= CostRatio * Others(rows, Bins)
  BY <1>1, <1>8, <1>9
<1>11. QED
  BY <1>5, <1>7, <1>10

\* The threshold the evaluation recommends is one of the sweep, and no other scores better.
LEMMA BestIsBest ==
  ASSUME NEW rows \in Outcomes, NEW model
  PROVE  /\ BestThreshold(model, rows) \in Sweep
         /\ \A t \in Sweep : CostScore(model, rows, t) <= CostScore(model, rows, BestThreshold(model, rows))
<1> DEFINE score == [t \in Sweep |-> CostScore(model, rows, t)]
           scores == {score[t] : t \in Sweep}
           best == Max(scores)
           chosen == {t \in Sweep : score[t] = best}
           top == Wins(rows, Bins) + CostRatio * Others(rows, Bins)
<1>1. \A t \in Sweep : score[t] \in Nat /\ score[t] <= top /\ top \in Nat
  BY ScoreIs
<1>2. Range(score) = scores
  BY DEF Range
<1>3. BestThreshold(model, rows) = Min(chosen)
  BY <1>2 DEF BestThreshold
<1>4. \A t \in Sweep : score[t] = CostScore(model, rows, t)
  OBVIOUS
<1> HIDE DEF score, top
<1>5. Sweep \in SUBSET Nat /\ Sweep # {}
  BY SweepIs
<1>6. scores \in SUBSET Nat /\ scores # {} /\ top \in Nat /\ \A n \in scores : n <= top
  BY <1>1, <1>5
<1>7. best \in scores /\ \A n \in scores : n <= best
  <2> HIDE DEF scores
  <2> QED BY <1>6, MaxIs
<1>8. chosen \in SUBSET Nat /\ chosen # {}
  BY <1>5, <1>7
<1>9. Min(chosen) \in chosen
  <2> HIDE DEF chosen
  <2> QED BY <1>8, MinIs
<1>10. \A t \in Sweep : score[t] <= score[Min(chosen)]
  BY <1>7, <1>9
<1>11. QED
  BY <1>3, <1>4, <1>9, <1>10

-----------------------------------------------------------------------------
\* What the files, the scripts and the engine hold.

\* A report whose threshold is the best for the model its evaluation loaded.
Recommends(report) == report.rows \in Outcomes /\ report.threshold = BestThreshold(report.loaded.of, report.rows)

EvaluatorHolds ==
  /\ evaluator.at = "loaded" => evaluator.rows \in Outcomes /\ evaluator.model = evaluator.loaded.of
  /\ evaluator.at \in {"clear", "report", "manifest"} => Recommends(evaluator.report)

FilesHold == DOMAIN evalDir = {"content", "manifest"} /\ (evalDir.content # Absent => Recommends(evalDir.content))

JudgeHolds ==
  /\ judge.at = "loaded" /\ judge.model # Absent => judge.model = judge.loaded.of
  /\ judge.at = "runs" /\ judge.report # Absent =>
       /\ Recommends(judge.report) /\ judge.threshold = judge.report.threshold
       /\ judge.whole /\ judge.model # Absent => judge.model = judge.report.loaded.of

GateInv == EvaluatorHolds /\ FilesHold /\ JudgeHolds

LEMMA GateStarts == GateInit => GateInv
<1> SUFFICES ASSUME GateInit PROVE GateInv
  OBVIOUS
<1>1. PICK rows \in Outcomes : evalDir = OlderReport(rows)
  BY DEF GateInit
<1>2. DOMAIN evalDir = {"content", "manifest"} /\ Recommends(evalDir.content)
  BY <1>1 DEF OlderReport, OlderModel, Recommends
<1>3. evaluator.at = "idle" /\ judge.at = "off"
  BY DEF GateInit, Idle, Off
<1>4. QED
  BY <1>2, <1>3 DEF GateInv, EvaluatorHolds, FilesHold, JudgeHolds

LEMMA GateKeeps ==
  ASSUME GateInv, [GateNext]_fillVars
  PROVE  GateInv'
<1> USE DEF GateInv
<1>1. ASSUME UNCHANGED <<evaluator, evalDir, judge>> PROVE GateInv'
  BY <1>1 DEF EvaluatorHolds, FilesHold, JudgeHolds
<1>2. ASSUME NEW rows \in Outcomes, LoadForEvaluation(rows) PROVE GateInv'
  <2>1. /\ evaluator'.at = "loaded" /\ evaluator'.rows = rows /\ evaluator'.model = modelDir.content
        /\ evaluator'.loaded = modelDir.manifest /\ Intact(modelDir) /\ UNCHANGED <<evalDir, judge>>
    BY <1>2 DEF LoadForEvaluation
  <2>2. EvaluatorHolds'
    BY <2>1 DEF EvaluatorHolds, Intact
  <2>3. QED
    BY <2>1, <2>2 DEF FilesHold, JudgeHolds
<1>3. ASSUME Evaluate PROVE GateInv'
  <2>1. UNCHANGED <<evalDir, judge>> /\ evaluator.at = "loaded"
    BY <1>3 DEF Evaluate
  <2>2. CASE evaluator' = Idle
    <3>1. evaluator'.at = "idle"
      BY <2>2 DEF Idle
    <3>2. QED
      BY <2>1, <3>1 DEF EvaluatorHolds, FilesHold, JudgeHolds
  <2>3. CASE evaluator' # Idle
    <3>1. /\ evaluator'.at = "clear" /\ evaluator'.report.threshold = BestThreshold(evaluator.model, evaluator.rows)
          /\ evaluator'.report.rows = evaluator.rows /\ evaluator'.report.loaded = evaluator.loaded
      BY <1>3, <2>3 DEF Evaluate
    <3>2. EvaluatorHolds'
      BY <2>1, <3>1 DEF EvaluatorHolds, Recommends
    <3>3. QED
      BY <2>1, <3>2 DEF FilesHold, JudgeHolds
  <2>4. QED
    BY <2>2, <2>3
<1>4. ASSUME WriteReport PROVE GateInv'
  <2>1. UNCHANGED judge
    BY <1>4 DEF WriteReport
  <2>2. CASE evaluator.at = "clear" /\ evalDir' = NoFiles /\ evaluator' = [evaluator EXCEPT !.at = "report"]
    <3>1. evalDir'.content = Absent /\ DOMAIN evalDir' = {"content", "manifest"}
      BY <2>2 DEF NoFiles
    <3>2. evaluator'.report = evaluator.report /\ evaluator'.at # "loaded"
      BY <2>2
    <3>3. QED
      BY <2>1, <2>2, <3>1, <3>2 DEF EvaluatorHolds, FilesHold, JudgeHolds
  <2>3. CASE /\ evaluator.at = "report" /\ evalDir' = [evalDir EXCEPT !.content = evaluator.report]
             /\ evaluator' = [evaluator EXCEPT !.at = "manifest"]
    <3>1. evalDir'.content = evaluator.report /\ DOMAIN evalDir' = {"content", "manifest"}
      BY <2>3 DEF FilesHold
    <3>2. evaluator'.report = evaluator.report /\ evaluator'.at # "loaded"
      BY <2>3
    <3>3. QED
      BY <2>1, <2>3, <3>1, <3>2 DEF EvaluatorHolds, FilesHold, JudgeHolds
  <2>4. CASE /\ evaluator.at = "manifest" /\ evalDir' = [evalDir EXCEPT !.manifest = [of |-> evaluator.report]]
             /\ evaluator' = Idle
    <3>1. evalDir'.content = evalDir.content /\ DOMAIN evalDir' = {"content", "manifest"}
      BY <2>4 DEF FilesHold
    <3>2. evaluator'.at = "idle"
      BY <2>4 DEF Idle
    <3>3. QED
      BY <2>1, <3>1, <3>2 DEF EvaluatorHolds, FilesHold, JudgeHolds
  <2>5. QED
    BY <1>4, <2>2, <2>3, <2>4 DEF WriteReport
<1>5. ASSUME ScriptDies PROVE GateInv'
  <2>1. UNCHANGED <<evalDir, judge>> /\ (evaluator' = evaluator \/ evaluator'.at = "idle")
    BY <1>5 DEF ScriptDies, Idle
  <2>2. QED
    BY <2>1 DEF EvaluatorHolds, FilesHold, JudgeHolds
<1>6. ASSUME NEW enforce, NEW auto, LoadModel(enforce, auto) PROVE GateInv'
  <2>1. /\ judge'.at = "loaded" /\ judge'.loaded = modelDir.manifest
        /\ judge'.model = IF Intact(modelDir) THEN modelDir.content ELSE Absent
        /\ UNCHANGED <<evaluator, evalDir>>
    BY <1>6 DEF LoadModel
  <2>2. JudgeHolds'
    BY <2>1 DEF JudgeHolds, Intact
  <2>3. QED
    BY <2>1, <2>2 DEF EvaluatorHolds, FilesHold
<1>7. ASSUME Resolve PROVE GateInv'
  <2> DEFINE report == IF Intact(evalDir) /\ SameManifest(evalDir.content) THEN evalDir.content ELSE Absent
             taken == judge.auto /\ report # Absent
  <2>1. /\ judge.at = "loaded" /\ judge'.at = "runs" /\ judge'.model = judge.model
        /\ judge'.report = (IF taken THEN report ELSE Absent)
        /\ judge'.threshold = (IF taken THEN report.threshold ELSE Configured)
        /\ judge'.whole = (taken /\ report.loaded = report.model /\ judge.loaded = modelDir.manifest)
        /\ UNCHANGED <<evaluator, evalDir>>
    BY <1>7 DEF Resolve
  <2>2. ASSUME judge'.report # Absent
        PROVE  /\ judge'.report = evalDir.content /\ evalDir.content # Absent
               /\ judge'.threshold = evalDir.content.threshold /\ evalDir.content.model = modelDir.manifest
               /\ judge'.whole => evalDir.content.loaded = evalDir.content.model /\ judge.loaded = modelDir.manifest
    BY <2>1, <2>2 DEF SameManifest
  <2>3. JudgeHolds'
    BY <2>1, <2>2 DEF JudgeHolds, FilesHold
  <2>4. QED
    BY <2>1, <2>3 DEF EvaluatorHolds, FilesHold
<1>8. ASSUME StopGate PROVE GateInv'
  <2>1. judge'.at = "off" /\ UNCHANGED <<evaluator, evalDir>>
    BY <1>8 DEF StopGate, Off
  <2>2. QED
    BY <2>1 DEF EvaluatorHolds, FilesHold, JudgeHolds
<1>9. ASSUME \/ \E rows \in Outcomes : ClearModel(rows)
             \/ WriteModel \/ WindowMoves \/ UNCHANGED fillVars
             \/ \E b \in OnlineBins, listed \in BOOLEAN : CheckOrder(b, listed)
      PROVE  UNCHANGED <<evaluator, evalDir, judge>>
  BY <1>9 DEF ClearModel, WriteModel, WindowMoves, CheckOrder, fillVars
<1>10. QED
  BY <1>1, <1>2, <1>3, <1>4, <1>5, <1>6, <1>7, <1>8, <1>9 DEF GateNext

LEMMA GateInvariant == GateSpec => []GateInv
<1>1. GateInv /\ [GateNext]_fillVars => GateInv'
  BY GateKeeps
<1>2. QED
  BY GateStarts, <1>1, PTL DEF GateSpec

\* However trainings, evaluations and restarts interleave and wherever they die, a threshold
\* taken over from a report is the best of the sweep for the model in memory, on the rows of
\* the report: a report keeps the manifest of the model it was computed for, and the engine
\* compares it with the one it loaded.  Proved for every cost ratio, step, dataset and bin.
THEOREM ThresholdHolds == GateSpec => []ThresholdFitsModel
<1>1. GateInv => ThresholdFitsModel
  <2> SUFFICES ASSUME GateInv, judge.at = "runs", judge.report # Absent, judge.whole, judge.model # Absent
               PROVE  \A t \in Sweep : CostScore(judge.model, judge.report.rows, t)
                                         <= CostScore(judge.model, judge.report.rows, judge.threshold)
    BY DEF ThresholdFitsModel
  <2>1. Recommends(judge.report) /\ judge.threshold = judge.report.threshold /\ judge.model = judge.report.loaded.of
    BY DEF GateInv, JudgeHolds
  <2>2. judge.report.rows \in Outcomes /\ judge.threshold = BestThreshold(judge.model, judge.report.rows)
    BY <2>1 DEF Recommends
  <2>3. QED
    BY <2>2, BestIsBest
<1>2. QED
  BY GateInvariant, <1>1, PTL

-----------------------------------------------------------------------------
\* The breaker.

\* Its verdicts are counted by age; the last order was judged no longer ago than any of them.
WindowInv ==
  /\ DOMAIN window = DOMAIN NoVerdicts /\ window.total \in [0..Window -> Nat] /\ window.judged \in Nat
  /\ \A a \in 0..Window : window.total[a] > 0 => window.judged <= a
  /\ BypassEnds

LEMMA EmptyWindow == ASSUME window' = NoVerdicts PROVE WindowInv'
<1>1. /\ DOMAIN window' = DOMAIN NoVerdicts /\ window'.total = [a \in 0..Window |-> 0]
      /\ window'.judged = 0 /\ ~window'.bypassed
  BY DEF NoVerdicts
<1>2. QED
  BY <1>1 DEF WindowInv, BypassEnds

LEMMA CheckKeeps ==
  ASSUME WindowInv, NEW b, NEW listed \in BOOLEAN, CheckOrder(b, listed)
  PROVE  WindowInv'
<1> DEFINE bypassed == window.tripped /\ TooMany(window)
           seen == [window EXCEPT !.tripped = bypassed, !.bypassed = bypassed]
           block == judge.enforce /\ Predict(judge.model, b) < judge.threshold
           after == IF judge.enforce /\ listed THEN Recorded(seen, bypassed, block) ELSE seen
           judged == IF bypassed \/ ~listed THEN window.judged ELSE 0
<1>1. window' = [after EXCEPT !.tripped = @ \/ (after # seen /\ TooMany(after)),
                              !.judged = IF bypassed \/ ~listed THEN @ ELSE 0]
  BY DEF CheckOrder
<1>2. DOMAIN window = DOMAIN NoVerdicts /\ window.total \in [0..Window -> Nat] /\ window.judged \in Nat /\ Window \in Nat
  BY GateAssumption DEF WindowInv
<1> DEFINE tooMany == TooMany(window)
<1>3. /\ DOMAIN seen = DOMAIN NoVerdicts /\ seen.total = window.total /\ seen.judged = window.judged
      /\ seen.bypassed = bypassed
  <2> HIDE DEF tooMany
  <2> QED BY <1>2 DEF NoVerdicts
<1> HIDE DEF bypassed, seen, block
<1>4. /\ DOMAIN after = DOMAIN NoVerdicts /\ after.judged = window.judged /\ after.bypassed = bypassed
      /\ \/ after.total = window.total
         \/ ~bypassed /\ listed /\ after.total = [window.total EXCEPT ![0] = @ + 1]
  <2>1. CASE after = seen
    BY <1>3, <2>1
  <2>2. CASE ~bypassed /\ listed /\ after = [seen EXCEPT !.total[0] = @ + 1, !.blocks[0] = IF block THEN @ + 1 ELSE @]
    BY <1>2, <1>3, <2>2 DEF NoVerdicts
  <2>3. QED
    BY <2>1, <2>2 DEF Recorded
<1> HIDE DEF after
<1>5. /\ DOMAIN window' = DOMAIN NoVerdicts /\ window'.total = after.total /\ window'.bypassed = bypassed
      /\ window'.judged = judged
  BY <1>1, <1>4 DEF NoVerdicts
<1>6. window'.judged \in Nat /\ window'.judged <= window.judged /\ (~bypassed /\ listed => window'.judged = 0)
  BY <1>2, <1>5
<1>7. window'.total \in [0..Window -> Nat] /\ \A a \in 0..Window : window'.total[a] > 0 => window'.judged <= a
  <2>1. CASE after.total = window.total
    BY <1>2, <1>5, <1>6, <2>1 DEF WindowInv
  <2>2. CASE ~bypassed /\ listed /\ after.total = [window.total EXCEPT ![0] = @ + 1]
    BY <1>2, <1>5, <1>6, <2>2
  <2>3. QED
    BY <1>4, <2>1, <2>2
<1>8. BypassEnds'
  <2> SUFFICES ASSUME bypassed PROVE window'.judged <= Window
    BY <1>5 DEF BypassEnds
  <2>1. TooMany(window)
    BY DEF bypassed
  <2>2. Tally(window.total, 0..Window) > 0
    BY <2>1 DEF TooMany
  <2>3. IsFiniteSet(0..Window)
    <3>1. 0 \in Int /\ Window \in Int
      BY <1>2
    <3>2. QED
      BY <3>1, FS_Interval
  <2>4. PICK a \in 0..Window : window.total[a] > 0
    BY <1>2, <2>2, <2>3, TallyFacts
  <2>5. window.judged <= a
    BY <2>4 DEF WindowInv
  <2>6. QED
    BY <1>2, <1>6, <2>5
<1>9. QED
  BY <1>5, <1>6, <1>7, <1>8 DEF WindowInv

LEMMA MovingKeeps ==
  ASSUME WindowInv, WindowMoves
  PROVE  WindowInv'
<1>1. DOMAIN window = DOMAIN NoVerdicts /\ window.total \in [0..Window -> Nat] /\ window.judged \in Nat /\ Window \in Nat
  BY GateAssumption DEF WindowInv
<1>2. /\ DOMAIN window' = DOMAIN NoVerdicts /\ ~window'.bypassed
      /\ window'.total = [a \in 0..Window |-> IF a = 0 THEN 0 ELSE window.total[a - 1]]
      /\ window'.judged = Min({window.judged + 1, Window + 1})
  BY <1>1 DEF WindowMoves, NoVerdicts
<1>3. window'.judged \in Nat /\ window'.judged <= window.judged + 1
  <2> DEFINE both == {window.judged + 1, Window + 1}
  <2>1. both \in SUBSET Nat /\ both # {} /\ window.judged + 1 \in both
    BY <1>1
  <2> HIDE DEF both
  <2>2. Min(both) \in both /\ Min(both) <= window.judged + 1
    BY <2>1, MinIs
  <2>3. window'.judged = Min(both)
    BY <1>2 DEF both
  <2>4. QED
    BY <2>1, <2>2, <2>3
<1>4. ASSUME NEW a \in 0..Window PROVE window'.total[a] \in Nat /\ (window'.total[a] > 0 => window'.judged <= a)
  <2>1. CASE a = 0
    BY <1>2, <2>1
  <2>2. CASE a # 0
    <3>1. a - 1 \in 0..Window /\ window'.total[a] = window.total[a - 1]
      BY <1>1, <1>2, <2>2
    <3>2. window.total[a - 1] \in Nat /\ (window.total[a - 1] > 0 => window.judged <= a - 1)
      BY <1>1, <3>1 DEF WindowInv
    <3>3. QED
      BY <1>1, <1>3, <3>1, <3>2
  <2>3. QED
    BY <2>1, <2>2
<1>5. QED
  BY <1>2, <1>3, <1>4 DEF WindowInv, BypassEnds

\* An open breaker finds a verdict within its window for every order it lets pass unjudged:
\* it closes once the window has moved past the last order it judged.
THEOREM BreakerCloses == GateSpec => []BypassEnds
<1>1. GateInit => WindowInv
  <2> SUFFICES ASSUME GateInit PROVE WindowInv
    OBVIOUS
  <2>1. /\ DOMAIN window = DOMAIN NoVerdicts /\ window.total = [a \in 0..Window |-> 0]
        /\ window.judged = 0 /\ ~window.bypassed
    BY DEF GateInit, NoVerdicts
  <2>2. QED
    BY <2>1 DEF WindowInv, BypassEnds
<1>2. WindowInv /\ [GateNext]_fillVars => WindowInv'
  <2> SUFFICES ASSUME WindowInv, [GateNext]_fillVars PROVE WindowInv'
    OBVIOUS
  <2>1. ASSUME UNCHANGED window PROVE WindowInv'
    BY <2>1 DEF WindowInv, BypassEnds
  <2>2. ASSUME window' = NoVerdicts PROVE WindowInv'
    BY <2>2, EmptyWindow
  <2>3. ASSUME \/ \E rows \in Outcomes : ClearModel(rows) \/ LoadForEvaluation(rows)
               \/ WriteModel \/ Evaluate \/ WriteReport \/ ScriptDies \/ Resolve \/ UNCHANGED fillVars
        PROVE  UNCHANGED window
    BY <2>3 DEF ClearModel, LoadForEvaluation, WriteModel, Evaluate, WriteReport, ScriptDies, Resolve, fillVars
  <2>4. ASSUME (\E enforce, auto \in BOOLEAN : LoadModel(enforce, auto)) \/ StopGate PROVE window' = NoVerdicts
    BY <2>4 DEF LoadModel, StopGate
  <2>5. QED
    BY <2>1, <2>2, <2>3, <2>4, CheckKeeps, MovingKeeps DEF GateNext
<1>3. WindowInv => BypassEnds
  BY DEF WindowInv
<1>4. QED
  BY <1>1, <1>2, <1>3, PTL DEF GateSpec
=============================================================================
