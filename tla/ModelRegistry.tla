----------------------------- MODULE ModelRegistry -----------------------------
(***************************************************************************)
(* The model registry of one dataset kind and profile: training runs       *)
(* (Stage3MLService.train), the bundles they leave in the models           *)
(* directory, and the lifecycle of the models they register (recommend,    *)
(* promote, retire, rollback), over the tables training_runs,              *)
(* model_versions, model_evaluations and model_promotions.                 *)
(*                                                                         *)
(* A model is a training run and a family.  Several trainings and several  *)
(* operators act at a time; every call reads the lifecycle status first,   *)
(* verifies the bundle, and writes in a transaction that tests neither     *)
(* again.                                                                  *)
(***************************************************************************)
EXTENDS Naturals, Sequences, FiniteSets

CONSTANTS
  Trainings,  \* calls of train for this kind and profile
  Families,   \* model families
  Operators,  \* callers of recommend, promote, retire and rollback
  NoModel,    \* NULL
  MaxAudits   \* bound: promotion rows after which no operator makes a request

Models == Trainings \X Families
Callers == Trainings \cup Operators

ASSUME RegistryAssumption ==
  /\ Trainings \cap Operators = {}
  /\ NoModel \notin Models
  /\ MaxAudits \in Nat

VARIABLES
  runs,      \* training_runs.status
  models,    \* model_versions.lifecycle_status, or that there is no row
  verified,  \* the models with a verified_at
  evaluated, \* the models with a row in model_evaluations
  bundles,   \* the models with a directory under models_dir
  audit,     \* model_promotions
  pc,        \* where each training is
  call,      \* the lifecycle call each caller has in progress
  unlogged   \* history: models the audit crowned that are champions no more,
             \* without a row that says so

tables == <<runs, models, verified, evaluated>>
vars == <<tables, bundles, audit, pc, call, unlogged>>

Lifecycle == {"candidate", "recommended", "champion", "retired"}
PCs == {"new", "training", "bundled", "registered", "verifying",
        "recommending", "cleanRows", "cleanBundles", "cleanRun", "done", "dead"}
Actions == {"recommend", "promote", "rollback", "retire"}
Calls == [pc : {"check", "verify", "lookup", "swap", "write"},
          action : Actions, model : Models, previous : Models \cup {NoModel}]
Idle == [pc |-> "idle"]
Audits == [action : Actions, previous : Models \cup {NoModel},
           new : Models \cup {NoModel}]

Init ==
  /\ runs = [t \in Trainings |-> "none"]
  /\ models = [m \in Models |-> "none"]
  /\ verified = {}
  /\ evaluated = {}
  /\ bundles = {}
  /\ audit = <<>>
  /\ pc = [t \in Trainings |-> "new"]
  /\ call = [c \in Callers |-> Idle]
  /\ unlogged = {}

Goto(t, l) == pc' = [pc EXCEPT ![t] = l]
Return(c) == call' = [call EXCEPT ![c] = Idle]

ModelsOf(t) == {t} \X Families
Registered == {m \in Models : models[m] # "none"}
Champions == {m \in Models : models[m] = "champion"}

\* An UPDATE by model_id: it changes the row that is there, if there is one.
SetStatus(m, s) == models' = IF m \in Registered THEN [models EXCEPT ![m] = s]
                                                 ELSE models

-----------------------------------------------------------------------------
(***************************************************************************)
(* train                                                                   *)
(***************************************************************************)
\* Variant: the running row of another training is not looked for.
StartAnyway(t) ==
  /\ pc[t] = "new"
  /\ runs' = [runs EXCEPT ![t] = "running"]
  /\ Goto(t, "training")
  /\ UNCHANGED <<models, verified, evaluated, bundles, audit, call, unlogged>>

\* create_training_run_if_no_running, one BEGIN IMMEDIATE block.
Start(t) ==
  /\ pc[t] = "new"
  /\ \A u \in Trainings : runs[u] # "running"
  /\ runs' = [runs EXCEPT ![t] = "running"]
  /\ Goto(t, "training")
  /\ UNCHANGED <<models, verified, evaluated, bundles, audit, call, unlogged>>

\* A family is trained and evaluated; _create_bundle renames its directory
\* into place.
CreateBundle(t) ==
  /\ pc[t] = "training"
  /\ \E m \in ModelsOf(t) \ bundles : bundles' = bundles \cup {m}
  /\ Goto(t, "bundled")
  /\ UNCHANGED <<tables, audit, call, unlogged>>

\* register_model_version
RegisterModel(t) ==
  /\ pc[t] = "bundled"
  /\ \E m \in (ModelsOf(t) \cap bundles) \ Registered :
       models' = [models EXCEPT ![m] = "candidate"]
  /\ Goto(t, "registered")
  /\ UNCHANGED <<runs, verified, evaluated, bundles, audit, call, unlogged>>

\* _verify_registered_pending, then record_model_evaluation
EvaluateModel(t) ==
  /\ pc[t] = "registered"
  /\ evaluated' = evaluated \cup (ModelsOf(t) \cap Registered)
  /\ Goto(t, "training")
  /\ UNCHANGED <<runs, models, verified, bundles, audit, call, unlogged>>

\* finalize_training_run_success, after the last of the selected families: one
\* BEGIN IMMEDIATE block for the run and for its models.
Finalize(t) ==
  /\ pc[t] = "training" /\ runs[t] = "running"
  /\ ModelsOf(t) \cap evaluated # {}
  /\ runs' = [runs EXCEPT ![t] = "success"]
  /\ verified' = verified \cup (ModelsOf(t) \cap evaluated)
  /\ Goto(t, "verifying")
  /\ UNCHANGED <<models, evaluated, bundles, audit, call, unlogged>>

\* verify, for every candidate
VerifyCandidates(t) ==
  /\ pc[t] = "verifying"
  /\ Goto(t, "recommending")
  /\ UNCHANGED <<tables, bundles, audit, call, unlogged>>

\* _recommend: the best of the candidates of a synthetic run.
Recommendable(t) == ModelsOf(t) \cap evaluated

\* The one that is recommended becomes so whatever its status is by now; the
\* gate may have it promoted as well.  Errors are only reported.
RecommendBest(t) ==
  /\ pc[t] = "recommending"
  /\ \/ \E m \in Recommendable(t) :
          /\ SetStatus(m, "recommended")
          /\ unlogged' = unlogged \cup ({m} \cap Champions)
          /\ \/ UNCHANGED call
             \/ call' = [call EXCEPT ![t] =
                  [pc |-> "check", action |-> "promote", model |-> m,
                   previous |-> NoModel]]
     \/ UNCHANGED <<models, unlogged, call>>
  /\ Goto(t, "done")
  /\ UNCHANGED <<runs, verified, evaluated, bundles, audit>>

\* Anything in the try block raises, also after the run was finalized.
Raise(t) ==
  /\ pc[t] \in {"training", "bundled", "registered", "verifying"}
  /\ Goto(t, "cleanRows")
  /\ UNCHANGED <<tables, bundles, audit, call, unlogged>>

\* Variant: the evaluations of the models are forgotten.
CleanRowsOnly(t) ==
  /\ pc[t] = "cleanRows"
  /\ models' = [m \in Models |-> IF m \in ModelsOf(t) THEN "none" ELSE models[m]]
  /\ verified' = verified \ ModelsOf(t)
  /\ unlogged' = unlogged \cup (ModelsOf(t) \cap Champions)
  /\ Goto(t, "cleanBundles")
  /\ UNCHANGED <<runs, evaluated, bundles, audit, call>>

\* delete_models_for_training_run
CleanRows(t) ==
  /\ pc[t] = "cleanRows"
  /\ models' = [m \in Models |-> IF m \in ModelsOf(t) THEN "none" ELSE models[m]]
  /\ verified' = verified \ ModelsOf(t)
  /\ evaluated' = evaluated \ ModelsOf(t)
  /\ unlogged' = unlogged \cup (ModelsOf(t) \cap Champions)
  /\ Goto(t, "cleanBundles")
  /\ UNCHANGED <<runs, bundles, audit, call>>

\* rmtree, one directory after the other
CleanBundles(t) ==
  /\ pc[t] = "cleanBundles"
  /\ IF ModelsOf(t) \cap bundles = {}
       THEN Goto(t, "cleanRun") /\ UNCHANGED bundles
       ELSE /\ \E m \in ModelsOf(t) \cap bundles : bundles' = bundles \ {m}
            /\ UNCHANGED pc
  /\ UNCHANGED <<tables, audit, call, unlogged>>

\* Variant: a status that the readers of the run do not know.
CleanRunCancelled(t) ==
  /\ pc[t] = "cleanRun"
  /\ runs' = [runs EXCEPT ![t] = "cancelled"]
  /\ Goto(t, "done")
  /\ UNCHANGED <<models, verified, evaluated, bundles, audit, call, unlogged>>

\* complete_training_run(status="failed"), whatever the status was.
CleanRun(t) ==
  /\ pc[t] = "cleanRun"
  /\ runs' = [runs EXCEPT ![t] = "failed"]
  /\ Goto(t, "done")
  /\ UNCHANGED <<models, verified, evaluated, bundles, audit, call, unlogged>>

\* The process dies, or a statement of the except block raises.
Die(t) ==
  /\ pc[t] \notin {"new", "done", "dead"}
  /\ Goto(t, "dead")
  /\ UNCHANGED <<tables, bundles, audit, call, unlogged>>

-----------------------------------------------------------------------------
(***************************************************************************)
(* recommend, promote, rollback, retire                                    *)
(***************************************************************************)
\* The statuses an action is allowed from.
From(action) == CASE action = "recommend" -> {"candidate"}
                  [] action = "promote" -> {"candidate", "recommended"}
                  [] action = "rollback" -> {"retired"}
                  [] action = "retire" -> {"champion"}

\* An operator's call whose first read allows it; a refused one changes nothing.
Request(o) ==
  /\ call[o] = Idle
  /\ Len(audit) < MaxAudits
  /\ \E action \in Actions, m \in Models :
       /\ models[m] \in From(action)
       /\ call' = [call EXCEPT ![o] =
            [pc |-> "verify", action |-> action, model |-> m,
             previous |-> NoModel]]
  /\ UNCHANGED <<tables, bundles, audit, pc, unlogged>>

\* The same first read, in the promotion a training asks for.
Check(t) ==
  LET k == call[t]
  IN  /\ k.pc = "check"
      /\ IF models[k.model] \in From(k.action)
           THEN call' = [call EXCEPT ![t].pc = "verify"]
           ELSE Return(t)
      /\ UNCHANGED <<tables, bundles, audit, pc, unlogged>>

\* _verify_bundle_files: nothing but the cleanup of a training ever changes a
\* directory that _create_bundle has renamed into place.
BundleIntact(m) == m \in bundles

\* ModelBundleVerifier.verify: registered, finalized, bundle in place.
Passes(m) ==
  /\ m \in Registered \cap verified
  /\ BundleIntact(m)
  /\ runs[m[1]] = "success"

\* Every action but retirement wants an evaluation, too.
Verify(c) ==
  LET k == call[c]
  IN  /\ k.pc = "verify"
      /\ IF Passes(k.model) /\ (k.action = "retire" \/ k.model \in evaluated)
           THEN call' = [call EXCEPT ![c].pc =
                  IF k.action \in {"promote", "rollback"} THEN "lookup"
                                                          ELSE "write"]
           ELSE Return(c)
      /\ UNCHANGED <<tables, bundles, audit, pc, unlogged>>

\* promote_model: its two SELECTs, outside the transaction.
Lookup(c) ==
  LET k == call[c]
  IN  /\ k.pc = "lookup"
      /\ IF k.model \notin Registered \/ k.model \in Champions
           THEN Return(c)
           ELSE \E p \in IF Champions = {} THEN {NoModel} ELSE Champions :
                  call' = [call EXCEPT ![c] =
                    [pc |-> "swap", action |-> k.action, model |-> k.model,
                     previous |-> p]]
      /\ UNCHANGED <<tables, bundles, audit, pc, unlogged>>

\* What promote_model writes in one transaction: the previous champion retires,
\* the model becomes champion, and a row says so.
Crown(k) ==
  /\ models' = [m \in Models |->
       IF m \notin Registered THEN "none"
       ELSE IF m = k.model THEN "champion"
       ELSE IF m = k.previous THEN "retired"
       ELSE models[m]]
  /\ audit' = Append(audit, [action |-> k.action, previous |-> k.previous,
                             new |-> k.model])
  /\ unlogged' = IF k.model \in Registered THEN unlogged \ {k.model}
                                           ELSE unlogged \cup {k.model}

\* Variant: there is no unique index.
PromoteUnindexed(c) ==
  LET k == call[c]
  IN  /\ k.pc = "swap"
      /\ Crown(k)
      /\ Return(c)
      /\ UNCHANGED <<runs, verified, evaluated, bundles, pc>>

\* idx_one_champion_per_profile makes the transaction fail when somebody else
\* is champion by now.  The row of the model may be gone.
Promote(c) ==
  LET k == call[c]
  IN  /\ k.pc = "swap"
      /\ IF k.model \in Registered /\ Champions \ {k.model, k.previous} # {}
           THEN UNCHANGED <<models, audit, unlogged>>
           ELSE Crown(k)
      /\ Return(c)
      /\ UNCHANGED <<runs, verified, evaluated, bundles, pc>>

\* Variant: a retirement is recorded as a transition of the model to itself.
RetireToSelf(c) ==
  LET k == call[c]
  IN  /\ k.pc = "write" /\ k.action = "retire"
      /\ SetStatus(k.model, "retired")
      /\ audit' = Append(audit, [action |-> "retire", previous |-> k.model,
                                 new |-> k.model])
      /\ Return(c)
      /\ UNCHANGED <<runs, verified, evaluated, bundles, pc, unlogged>>

\* retire_model, whatever the status is by now
Retire(c) ==
  LET k == call[c]
  IN  /\ k.pc = "write" /\ k.action = "retire"
      /\ SetStatus(k.model, "retired")
      /\ audit' = Append(audit, [action |-> "retire", previous |-> k.model,
                                 new |-> NoModel])
      /\ Return(c)
      /\ UNCHANGED <<runs, verified, evaluated, bundles, pc, unlogged>>

\* update_model_lifecycle of recommend, whatever the status is by now
Recommend(c) ==
  LET k == call[c]
  IN  /\ k.pc = "write" /\ k.action = "recommend"
      /\ SetStatus(k.model, "recommended")
      /\ verified' = verified \cup ({k.model} \cap Registered)
      /\ unlogged' = unlogged \cup ({k.model} \cap Champions)
      /\ Return(c)
      /\ UNCHANGED <<runs, evaluated, bundles, audit, pc>>

\* A statement raises, or the caller's process dies.
GiveUp(c) ==
  /\ call[c] # Idle
  /\ Return(c)
  /\ UNCHANGED <<tables, bundles, audit, pc, unlogged>>

-----------------------------------------------------------------------------
TrainStep(t) ==
  \/ Start(t) \/ CreateBundle(t) \/ RegisterModel(t) \/ EvaluateModel(t)
  \/ Finalize(t) \/ VerifyCandidates(t) \/ RecommendBest(t) \/ Raise(t)
  \/ CleanRows(t) \/ CleanBundles(t) \/ CleanRun(t) \/ Die(t) \/ Check(t)

CallStep(c) ==
  \/ Verify(c) \/ Lookup(c) \/ Promote(c) \/ Retire(c) \/ Recommend(c)
  \/ GiveUp(c)

Next ==
  \/ \E t \in Trainings : TrainStep(t)
  \/ \E o \in Operators : Request(o)
  \/ \E c \in Callers : CallStep(c)

Spec == Init /\ [][Next]_vars

-----------------------------------------------------------------------------
(***************************************************************************)
(* Properties.                                                             *)
(***************************************************************************)
\* Every variable has its type.
TypeOK ==
  /\ runs \in [Trainings -> {"none", "running", "success", "failed"}]
  /\ models \in [Models -> Lifecycle \cup {"none"}]
  /\ verified \subseteq Models
  /\ evaluated \subseteq Models
  /\ bundles \subseteq Models
  /\ audit \in Seq(Audits)
  /\ pc \in [Trainings -> PCs]
  /\ call \in [Callers -> Calls \cup {Idle}]
  /\ unlogged \subseteq Models

\* A training was begun and is neither finalized nor marked as failed: it is at
\* work, cleans up, or died on the way.
Unfinished(t) == pc[t] \notin {"new", "done"} /\ runs[t] # "success"

\* No training fits models of the profile beside an unfinished one.  So two never
\* do at the same time, a failing one cleans up undisturbed, and one that died
\* before it was finalized keeps all later ones out.
TrainingsApart ==
  \A t, u \in Trainings :
    t # u /\ Unfinished(t) => pc[u] \notin {"training", "bundled", "registered"}

\* However promotions, rollbacks, retirements and trainings interleave, a profile
\* has at most one champion, and it can be used: finalized by a successful run,
\* evaluated, with its bundle in place.  That a failing training takes the rows
\* away before the bundles is what keeps this true.
ChampionIsUsable ==
  \A m \in Champions :
    /\ Champions = {m}
    /\ m \in verified \cap evaluated \cap bundles
    /\ runs[m[1]] = "success"

\* A training run that is reported as failed has left nothing behind: no model
\* and no evaluation in the tables, no bundle on disk.
FailedLeavesNothing ==
  \A t \in Trainings : runs[t] = "failed" =>
    ModelsOf(t) \cap (Registered \cup verified \cup evaluated \cup bundles) = {}

\* model_promotions has m crowned, by a promotion or a rollback, and no later row
\* that has it go.
Crowned(m) ==
  \E i \in DOMAIN audit :
    /\ audit[i].new = m
    /\ \A j \in DOMAIN audit : j > i => audit[j].previous # m

\* The audit history tells who is champion: it has the champion crowned, and
\* nobody else but models that lost the championship without a row, to a
\* recommendation that was checked before the promotion, or to the cleanup of
\* their training.
AuditNamesChampion ==
  \A m \in Models : /\ m \in Champions => Crowned(m)
                    /\ Crowned(m) => m \in Champions \cup unlogged
=============================================================================
