--------------------------- MODULE ModelPromotion ---------------------------
(***************************************************************************)
(* The way of a model to the policy: datasets are built, models trained    *)
(* into artifact directories, promotions rewrite the registry file, and an *)
(* engine started with a configuration resolves, loads and runs a model.   *)
(* One model name; the staging stage is checked like shadow and stands for *)
(* neither; path safety, formats and metrics are left out; what a checksum *)
(* detects is whether a directory was written to its end.                  *)
(***************************************************************************)
EXTENDS Integers, Sequences, FiniteSets

CONSTANTS
  Artifacts,     \* artifact directories under the registry's
  Datasets,      \* dataset ids
  Promoters,     \* invocations of promote_ml_model that may overlap
  MaxHistory,    \* entries the history keeps (50 in the code)
  MaxWrites      \* bound: promotions, trainings and builds in all

ASSUME PromotionAssumption ==
  /\ {"none"} \cap (Artifacts \cup Datasets) = {}
  /\ MaxHistory \in Nat \ {0} /\ MaxWrites \in Nat

Stages == {"shadow", "active"}

None == [artifact |-> "none"]   \* a stage without a pointer

VARIABLES
  datasets,    \* "none", "half" or "whole" per dataset
  artifacts,   \* per directory: whole or not, the dataset it names, how often it was written
  registry,    \* the file: what it holds, the pointer of each stage, the history
  promoters,   \* where each invocation stands, and with what
  engine,      \* the running engine
  injected,    \* of the last snapshot: how predictions reached the policy, if they did
  writes       \* bound: promotions, trainings and builds so far

promotionVars == <<datasets, artifacts, registry, promoters, engine, injected, writes>>

(***************************************************************************)
(* What a reader of the files accepts.                                     *)
(***************************************************************************)
ArtifactLoads(a) == artifacts[a].state = "whole"

DatasetVerifies(d) == d \in Datasets /\ datasets[d] = "whole"

\* An active pointer names the commit and the dataset it comes from.
PointerValid(stage, p) ==
  p # None /\ stage = "active" => p.sha /\ p.dataset # "none" /\ p.at > 0

HistoryValid(history) == Len(history) <= MaxHistory

Loadable(file) ==
  /\ file.state = "whole"
  /\ \A stage \in Stages : PointerValid(stage, file.stages[stage])
  /\ HistoryValid(file.history)

(***************************************************************************)
(* Builders.                                                               *)
(***************************************************************************)
\* build_dataset: the directory is there before its manifest is.
StartDataset(d, force) ==
  /\ writes < MaxWrites /\ writes' = writes + 1
  /\ datasets[d] = "none" \/ force
  /\ datasets' = [datasets EXCEPT ![d] = "half"]
  /\ UNCHANGED <<artifacts, registry, promoters, engine, injected>>

FinishDataset(d) ==
  /\ datasets[d] = "half"
  /\ datasets' = [datasets EXCEPT ![d] = "whole"]
  /\ UNCHANGED <<artifacts, registry, promoters, engine, injected, writes>>

\* train_and_export from a verified dataset, or from synthetic data under any id: the
\* model file is replaced in place, its manifest after it.
ExportModel(a, d, synthetic) ==
  /\ writes < MaxWrites /\ writes' = writes + 1
  /\ synthetic \/ DatasetVerifies(d)
  /\ artifacts' = [artifacts EXCEPT ![a] = [state |-> "half", dataset |-> d, version |-> @.version + 1]]
  /\ UNCHANGED <<datasets, registry, promoters, engine, injected>>

WriteManifest(a) ==
  /\ artifacts[a].state = "half"
  /\ artifacts' = [artifacts EXCEPT ![a].state = "whole"]
  /\ UNCHANGED <<datasets, registry, promoters, engine, injected, writes>>

(***************************************************************************)
(* A promotion: the registry, the artifact and for ACTIVE the dataset are  *)
(* checked, the file is read again, changed, truncated and written.        *)
(***************************************************************************)
RequestValid(stage, p) ==
  /\ ArtifactLoads(p.artifact)
  /\ stage = "active" =>
       /\ p.sha /\ p.dataset # "none"
       /\ artifacts[p.artifact].dataset \in {"none", p.dataset}
       /\ DatasetVerifies(p.dataset)

\* The newest event goes to the end, where the limit cuts it off.
RememberedLast(history, event) ==
  SubSeq(Append(history, event), 1,
         IF Len(history) >= MaxHistory THEN MaxHistory ELSE Len(history) + 1)

Remembered(history, event) ==
  SubSeq(<<event>> \o history, 1,
         IF Len(history) >= MaxHistory THEN MaxHistory ELSE Len(history) + 1)

Promoted(file, stage, p) ==
  [file EXCEPT !.stages[stage] = p,
               !.history = Remembered(@, [stage |-> stage, pointer |-> p])]

Validate(w, stage, artifact, sha, dataset) ==
  LET p == [artifact |-> artifact, sha |-> sha, dataset |-> dataset, at |-> writes + 1]
  IN /\ promoters[w].at = "idle" /\ writes < MaxWrites
     /\ Loadable(registry) /\ RequestValid(stage, p)
     /\ promoters' = [promoters EXCEPT ![w] = [at |-> "validated", stage |-> stage, pointer |-> p]]
     /\ writes' = writes + 1
     /\ UNCHANGED <<datasets, artifacts, registry, engine, injected>>

\* A dry run ends here, and so does one that finds the file empty or garbled.
ReadAgain(w, dry) ==
  /\ promoters[w].at = "validated"
  /\ promoters' = [promoters EXCEPT ![w] =
       IF dry \/ registry.state # "whole" THEN [at |-> "idle"]
       ELSE [at |-> "read", file |-> Promoted(registry, @.stage, @.pointer)]]
  /\ UNCHANGED <<datasets, artifacts, registry, engine, injected, writes>>

Truncate(w) ==
  /\ promoters[w].at = "read"
  /\ registry' = [registry EXCEPT !.state = "empty"]
  /\ promoters' = [promoters EXCEPT ![w].at = "opened"]
  /\ UNCHANGED <<datasets, artifacts, engine, injected, writes>>

\* Over what another invocation wrote since, the rest of a longer text stays behind.
Dump(w) ==
  /\ promoters[w].at = "opened"
  /\ \/ registry' = promoters[w].file
     \/ registry.state # "empty" /\ registry' = [registry EXCEPT !.state = "garbled"]
  /\ promoters' = [promoters EXCEPT ![w] = [at |-> "idle"]]
  /\ UNCHANGED <<datasets, artifacts, engine, injected, writes>>

\* Interrupted, it leaves the file as it is.
Interrupt(w) ==
  /\ promoters[w].at # "idle"
  /\ promoters' = [promoters EXCEPT ![w] = [at |-> "idle"]]
  /\ UNCHANGED <<datasets, artifacts, registry, engine, injected, writes>>

(***************************************************************************)
(* The engine.                                                             *)
(***************************************************************************)
Stopped == [on |-> "stopped"]

\* What the acknowledgement and the environment are matters to an active engine alone.
Configs == {c \in [from : {"registry", "legacy", "none"}, infer : BOOLEAN, shadow : BOOLEAN,
                   active : BOOLEAN, ack : BOOLEAN, envAllowed : BOOLEAN] :
              ~ c.active => c.ack /\ c.envAllowed}

\* The artifact of the stage that was asked for, a directory given, or none.
Resolved(c, stage, a) ==
  CASE c.from = "registry" -> IF Loadable(registry) THEN registry.stages[stage].artifact ELSE "none"
    [] c.from = "legacy" -> a
    [] OTHER -> "none"

ConfigAccepted(c, a) ==
  /\ c.from = "registry" => a # "none"
  /\ c.infer => c.shadow \/ c.active
  /\ c.active => c.infer /\ c.ack /\ c.from # "legacy" /\ a # "none" /\ c.envAllowed
  /\ c.shadow => c.infer /\ a # "none"

Boot(c, stage, legacy) ==
  LET a == Resolved(c, stage, legacy)
  IN /\ engine = Stopped
     /\ ConfigAccepted(c, a)
     /\ engine' = [on |-> "running", config |-> c, artifact |-> a, model |-> 0]
     /\ UNCHANGED <<datasets, artifacts, registry, promoters, injected, writes>>

\* At the start of each run, and only in shadow mode, the model is loaded: an active
\* engine does not run on without it.
Load ==
  /\ engine # Stopped /\ engine.config.shadow
  /\ engine' = IF ArtifactLoads(engine.artifact)
                 THEN [engine EXCEPT !.model = artifacts[engine.artifact].version]
               ELSE IF engine.config.active THEN Stopped
               ELSE [engine EXCEPT !.model = 0]
  /\ injected' = [how |-> "none"]
  /\ UNCHANGED <<datasets, artifacts, registry, promoters, writes>>

ActiveAllowed(killed) ==
  LET c == engine.config
  IN ~ killed /\ c.infer /\ c.active /\ c.ack /\ engine.model > 0 /\ c.envAllowed

\* The kill switch is read at every snapshot, and once more by the active gate; a
\* prediction that fails changes no feature.
Snapshot(killed, killedLater, predicts) ==
  /\ engine # Stopped
  /\ injected' = IF ~ killed /\ engine.config.active /\ ActiveAllowed(killedLater) /\ predicts
                 THEN [how |-> "active", killed |-> killed \/ killedLater]
                 ELSE [how |-> "none"]
  /\ UNCHANGED <<datasets, artifacts, registry, promoters, engine, writes>>

Stop ==
  /\ engine # Stopped
  /\ engine' = Stopped /\ injected' = [how |-> "none"]
  /\ UNCHANGED <<datasets, artifacts, registry, promoters, writes>>

(***************************************************************************)
(* The specification.                                                      *)
(***************************************************************************)
\* The file starts without a history, its pointers set by hand; a dataset may be there.
PromotionInit ==
  /\ datasets \in [Datasets -> {"none", "whole"}]
  /\ artifacts = [a \in Artifacts |-> [state |-> "none", dataset |-> "none", version |-> 0]]
  /\ \E byHand \in {None} \cup [artifact : Artifacts, sha : BOOLEAN, dataset : {"none"}, at : {0}] :
     \E stage \in Stages :
       registry = [state |-> "whole", history |-> <<>>,
                   stages |-> [s \in Stages |-> IF s = stage THEN byHand ELSE None]]
  /\ promoters = [w \in Promoters |-> [at |-> "idle"]]
  /\ engine = Stopped /\ injected = [how |-> "none"]
  /\ writes = 0

PromotionNext ==
  \/ \E d \in Datasets, force \in BOOLEAN : StartDataset(d, force)
  \/ \E d \in Datasets : FinishDataset(d)
  \/ \E a \in Artifacts, d \in Datasets \cup {"none"}, synthetic \in BOOLEAN : ExportModel(a, d, synthetic)
  \/ \E a \in Artifacts : WriteManifest(a)
  \/ \E w \in Promoters, stage \in Stages, a \in Artifacts, sha \in BOOLEAN, d \in Datasets \cup {"none"} :
       Validate(w, stage, a, sha, d)
  \/ \E w \in Promoters, dry \in BOOLEAN : ReadAgain(w, dry)
  \/ \E w \in Promoters : Truncate(w) \/ Dump(w) \/ Interrupt(w)
  \/ \E c \in Configs, stage \in Stages, a \in Artifacts : Boot(c, stage, a)
  \/ Load
  \/ \E killed, killedLater, predicts \in BOOLEAN : Snapshot(killed, killedLater, predicts)
  \/ Stop

PromotionSpec == PromotionInit /\ [][PromotionNext]_promotionVars

\* Two promotions that overlap, one interrupted, a history at its limit: whatever file can
\* be read, the newest event of a stage in it tells the pointer the stage has.
AuditMatches ==
  registry.state = "whole" =>
    \A i \in DOMAIN registry.history :
      LET e == registry.history[i]
      IN (\A j \in 1 .. i - 1 : registry.history[j].stage # e.stage)
           => registry.stages[e.stage] = e.pointer

\* What a model predicts reaches the policy only from a model that was whole when it was
\* loaded, found through the registry by an engine the operator acknowledged, in a
\* snapshot that saw no kill switch.
InfluenceIsVetted ==
  injected.how = "active" =>
    /\ ~ injected.killed /\ engine.model > 0
    /\ engine.config.ack /\ engine.config.envAllowed /\ engine.config.from = "registry"

\* The way of a model from the registry to the policy: the registry's history tells how each
\* stage came by its model, and nothing that came another way trades.
ModelsAreVetted == AuditMatches /\ InfluenceIsVetted
=============================================================================
