----------------------------- MODULE DetectionRun -----------------------------
(***************************************************************************)
(* The run-once engine of stage 4 for one dataset kind and one profile:    *)
(* DetectionService._run_profile_once over the tables detection_runs,      *)
(* detection_evaluations, detection_watermarks and feature_windows, with   *)
(* several runs in progress at a time (worker, API, CLI, backfill), while  *)
(* the feature materializer rewrites windows and the model registry        *)
(* changes the champion.                                                   *)
(*                                                                         *)
(* A window is its position in the order window_start, window_id.  Its     *)
(* content is a feature_input_hash, a number from 1..Hashes; 0 means that  *)
(* the table has no such window.  What an evaluation decides, and the      *)
(* findings it makes, are the subject of FindingStore.                     *)
(***************************************************************************)
EXTENDS Integers, FiniteSets

CONSTANTS
  Runs,         \* calls of _run_profile_once that are no dry runs
  Backfills,    \* those with max_windows=None, advance_watermark=False
  BasePolicies, \* modes of the policies runs are asked for
  WindowCount,  \* the windows are 1..WindowCount
  Hashes,       \* the contents a window can have are 1..Hashes
  Models,       \* model versions of the profile
  Explicit,     \* those that a caller names (explicit_model_id)
  NoModel,      \* MODEL_ID_SENTINEL
  NoRun,
  BatchSize,    \* batch_size
  MaxWindows,   \* max_windows of the other runs
  Poison,       \* windows whose evaluation always raises
  Flaky         \* windows whose evaluation may raise

Windows == 1..WindowCount
Policies == {"hybrid", "rules_only", "model_only"}

ASSUME RunAssumption ==
  /\ Backfills \subseteq Runs /\ IsFiniteSet(Runs) /\ NoRun \notin Runs
  /\ BasePolicies \subseteq Policies
  /\ WindowCount \in Nat /\ Hashes \in Nat
  /\ IsFiniteSet(Models) /\ Explicit \subseteq Models /\ NoModel \notin Models
  /\ BatchSize \in Nat \ {0} /\ MaxWindows \in Nat \ {0}
  /\ Poison \subseteq Windows /\ Flaky \subseteq Windows

VARIABLES
  feature,   \* feature_windows: the present content of every window
  champion,  \* the champion of the profile, or NoModel
  ledger,    \* detection_evaluations: identity -> the run that wrote it
  rows,      \* detection_runs: status, policy, model and counter per run
  watermark, \* detection_watermarks: the last window per (policy, model)
  run,       \* what each caller has in memory
  touched    \* history: windows rewritten since each run's last listing

tables == <<feature, champion, ledger, rows, watermark>>
vars == <<tables, run, touched>>

Identities == Models \cup {NoModel}

\* UNIQUE(window_id, feature_input_hash, policy_hash, model_id)
EvaluationKeys == [window : Windows, hash : 1..Hashes,
                   policy : Policies, model : Identities]
Key(w, h, policy, model) ==
  [window |-> w, hash |-> h, policy |-> policy, model |-> model]

Items == [window : Windows, hash : 1..Hashes]
Rows == [status : {"none", "running", "blocked", "success", "partial"},
         policy : Policies, model : Identities, examined : Nat]
PCs == {"new", "insert", "resolve", "bind", "list", "evaluate", "watermark",
        "finish", "block", "done", "refused", "dead"}
Memory == [pc : PCs, policy : Policies, explicit : Identities,
           model : Identities, batch : SUBSET Items, short : BOOLEAN,
           last : 0..WindowCount, processed : Nat, error : BOOLEAN]

NoRow == [status |-> "none", policy |-> "hybrid", model |-> NoModel,
          examined |-> 0]
Fresh == [pc |-> "new", policy |-> "hybrid", explicit |-> NoModel,
          model |-> NoModel, batch |-> {}, short |-> FALSE, last |-> 0,
          processed |-> 0, error |-> FALSE]

Init ==
  /\ feature \in [Windows -> 0..Hashes]
  /\ champion \in Identities
  /\ ledger = [k \in EvaluationKeys |-> NoRun]
  /\ rows = [r \in Runs |-> NoRow]
  /\ watermark = [i \in Policies \X Identities |-> 0]
  /\ run = [r \in Runs |-> Fresh]
  /\ touched = [r \in Runs |-> {}]

-----------------------------------------------------------------------------
Goto(r, l) == run' = [run EXCEPT ![r].pc = l]

\* The call is over and its local variables are gone.
Return(r, l) == run' = [run EXCEPT ![r] = [Fresh EXCEPT !.pc = l]]

Evaluating(r) == run[r].pc \in {"list", "evaluate", "watermark", "finish"}

\* idx_running_detection_namespace, the partial unique index on running rows.
NamespaceTaken(r, policy, model) ==
  \E q \in Runs \ {r} : /\ rows[q].status = "running"
                        /\ rows[q].policy = policy
                        /\ rows[q].model = model

\* The anti-join: windows whose present content has no evaluation yet.
Pending(policy, model) ==
  {w \in Windows : /\ feature[w] # 0
                   /\ ledger[Key(w, feature[w], policy, model)] = NoRun}

\* ORDER BY window_start, window_id LIMIT n
FirstOf(S, n) == {w \in S : Cardinality({v \in S : v < w}) < n}

\* The windows of S, each with its present content.
Listed(S) == {[window |-> w, hash |-> feature[w]] : w \in S}

\* min(max(1, batch_size), max_windows - processed)
Limit(r) ==
  IF r \in Backfills \/ BatchSize <= MaxWindows - run[r].processed
    THEN BatchSize ELSE MaxWindows - run[r].processed

-----------------------------------------------------------------------------
\* _model_hint: the model of the run row.  Without a champion, a hybrid run
\* that names no model is given the registered rules-only policy.
HintedPolicy(base, explicit) ==
  IF base = "hybrid" /\ explicit = NoModel /\ champion = NoModel
    THEN "rules_only" ELSE base

\* champion_model unless the caller names a model; none under rules_only.
FoundModel(policy, explicit) ==
  IF policy = "rules_only" THEN NoModel
  ELSE IF explicit # NoModel THEN explicit
  ELSE champion

Hint(r) ==
  /\ run[r].pc = "new"
  /\ \E base \in BasePolicies, explicit \in Explicit \cup {NoModel} :
       LET policy == HintedPolicy(base, explicit)
       IN  run' = [run EXCEPT ![r] =
                     [@ EXCEPT !.pc = "insert", !.policy = policy,
                               !.explicit = explicit,
                               !.model = FoundModel(policy, explicit)]]
  /\ UNCHANGED <<tables, touched>>

\* _insert_run_start; the unique index refuses a second running row.
InsertRow(r) ==
  /\ run[r].pc = "insert"
  /\ IF NamespaceTaken(r, run[r].policy, run[r].model)
       THEN Return(r, "refused") /\ UNCHANGED rows
       ELSE /\ rows' = [rows EXCEPT ![r] =
                          [status |-> "running", policy |-> run[r].policy,
                           model |-> run[r].model, examined |-> 0]]
            /\ Goto(r, "resolve")
  /\ UNCHANGED <<feature, champion, ledger, watermark, touched>>

\* _resolve_model reads the champion again.  Without one model_only is
\* blocked and hybrid goes on with no model (allow_rules_without_model).
\* The verifier may reject the bundle.
Resolve(r) ==
  /\ run[r].pc = "resolve"
  /\ LET found == FoundModel(run[r].policy, run[r].explicit)
     IN  \/ /\ found # NoModel
            /\ run' = [run EXCEPT ![r].pc = "bind", ![r].model = found]
         \/ /\ found = NoModel /\ run[r].policy # "model_only"
            /\ run' = [run EXCEPT ![r].pc = "list", ![r].model = NoModel]
         \/ /\ found # NoModel \/ run[r].policy = "model_only"
            /\ Goto(r, "block")
  /\ UNCHANGED <<tables, touched>>

\* Variant: the row is bound to the model without the unique index.
BindUnchecked(r) ==
  /\ run[r].pc = "bind"
  /\ rows' = [rows EXCEPT ![r].model = run[r].model]
  /\ Goto(r, "list") \/ Goto(r, "block")
  /\ UNCHANGED <<feature, champion, ledger, watermark, touched>>

\* _update_run_model, under the same unique index, then _load_model_context,
\* which may raise.
Bind(r) ==
  /\ run[r].pc = "bind"
  /\ IF NamespaceTaken(r, run[r].policy, run[r].model)
       THEN Goto(r, "block") /\ UNCHANGED rows
       ELSE /\ rows' = [rows EXCEPT ![r].model = run[r].model]
            /\ Goto(r, "list") \/ Goto(r, "block")
  /\ UNCHANGED <<feature, champion, ledger, watermark, touched>>

\* _block_run
Block(r) ==
  /\ run[r].pc = "block"
  /\ rows' = [rows EXCEPT ![r].status = "blocked"]
  /\ Return(r, "done")
  /\ UNCHANGED <<feature, champion, ledger, watermark, touched>>

\* list_pending_detection_windows, one SELECT.
List(r) ==
  /\ run[r].pc = "list"
  /\ LET S == FirstOf(Pending(run[r].policy, run[r].model), Limit(r))
     IN  run' = [run EXCEPT ![r] =
                   [@ EXCEPT !.pc = IF S = {} THEN "finish" ELSE "evaluate",
                             !.batch = Listed(S),
                             !.short = Cardinality(S) < Limit(r)]]
  /\ touched' = [touched EXCEPT ![r] = {}]
  /\ UNCHANGED tables

\* The batch is worked through in order.
IsNext(r, item) == \A other \in run[r].batch : item.window <= other.window

\* Variant: the watermark is moved behind the window.
ConsumeBehind(r, item, failed) ==
  run' = [run EXCEPT ![r] =
    [run[r] EXCEPT
       !.pc = IF run[r].batch = {item} THEN "watermark" ELSE "evaluate",
       !.batch = @ \ {item},
       !.last = item.window + 1,
       !.processed = IF r \in Backfills THEN @ ELSE @ + 1,
       !.error = @ \/ failed]]

\* processed += 1 (it only matters under a max_windows), last_window = window,
\* and whether the evaluation of the window raised.
Consume(r, item, failed) ==
  run' = [run EXCEPT ![r] =
    [run[r] EXCEPT
       !.pc = IF run[r].batch = {item} THEN "watermark" ELSE "evaluate",
       !.batch = @ \ {item},
       !.last = item.window,
       !.processed = IF r \in Backfills THEN @ ELSE @ + 1,
       !.error = @ \/ failed]]

\* Variants: an evaluation that is counted whether or not it was inserted, and
\* one that replaces a stored one.
EvaluateCountsAll(r) ==
  /\ run[r].pc = "evaluate"
  /\ \E item \in run[r].batch :
       LET k == Key(item.window, item.hash, run[r].policy, run[r].model)
       IN  /\ IsNext(r, item)
           /\ item.window \notin Poison
           /\ ledger' = IF ledger[k] = NoRun THEN [ledger EXCEPT ![k] = r]
                                             ELSE ledger
           /\ rows' = [rows EXCEPT ![r].examined = @ + 1]
           /\ Consume(r, item, FALSE)
  /\ UNCHANGED <<feature, champion, watermark, touched>>

EvaluateReplaces(r) ==
  /\ run[r].pc = "evaluate"
  /\ \E item \in run[r].batch :
       LET k == Key(item.window, item.hash, run[r].policy, run[r].model)
       IN  /\ IsNext(r, item)
           /\ item.window \notin Poison
           /\ ledger' = [ledger EXCEPT ![k] = r]
           /\ rows' = [rows EXCEPT ![r].examined = @ + 1]
           /\ Consume(r, item, FALSE)
  /\ UNCHANGED <<feature, champion, watermark, touched>>

\* _evaluate_window_atomic: the content is the listed one, and persisting it
\* one BEGIN IMMEDIATE transaction.  An insert that the unique identity makes
\* the database ignore leaves the counters alone.
Evaluate(r) ==
  /\ run[r].pc = "evaluate"
  /\ \E item \in run[r].batch :
       LET k == Key(item.window, item.hash, run[r].policy, run[r].model)
       IN  /\ IsNext(r, item)
           /\ item.window \notin Poison
           /\ IF ledger[k] = NoRun
                THEN /\ ledger' = [ledger EXCEPT ![k] = r]
                     /\ rows' = [rows EXCEPT ![r].examined = @ + 1]
                ELSE UNCHANGED <<ledger, rows>>
           /\ Consume(r, item, FALSE)
  /\ UNCHANGED <<feature, champion, watermark, touched>>

\* Variant: the failure leaves no trace in the run.
EvaluateRaisesSilently(r) ==
  /\ run[r].pc = "evaluate"
  /\ \E item \in run[r].batch : /\ IsNext(r, item)
                                /\ item.window \in Poison \cup Flaky
                                /\ Consume(r, item, FALSE)
  /\ UNCHANGED <<tables, touched>>

\* The evaluation raises and is rolled back: _record_run_error, next window.
EvaluateRaises(r) ==
  /\ run[r].pc = "evaluate"
  /\ \E item \in run[r].batch : /\ IsNext(r, item)
                                /\ item.window \in Poison \cup Flaky
                                /\ Consume(r, item, TRUE)
  /\ UNCHANGED <<tables, touched>>

\* Variant: a short batch does not end the loop, only an empty one does.
AdvanceWatermarkAgain(r) ==
  /\ run[r].pc = "watermark"
  /\ watermark' = IF r \in Backfills THEN watermark
                  ELSE [watermark EXCEPT
                          ![<<run[r].policy, run[r].model>>] = run[r].last]
  /\ Goto(r, IF run[r].processed >= MaxWindows THEN "finish" ELSE "list")
  /\ UNCHANGED <<feature, champion, ledger, rows, touched>>

\* _advance_watermark to the last window of the batch, evaluated or not, and
\* the conditions of the loop.
AdvanceWatermark(r) ==
  /\ run[r].pc = "watermark"
  /\ watermark' = IF r \in Backfills THEN watermark
                  ELSE [watermark EXCEPT
                          ![<<run[r].policy, run[r].model>>] = run[r].last]
  /\ Goto(r, IF run[r].short \/ run[r].processed >= MaxWindows THEN "finish"
                                                             ELSE "list")
  /\ UNCHANGED <<feature, champion, ledger, rows, touched>>

\* _finish_run
Finish(r) ==
  /\ run[r].pc = "finish"
  /\ rows' = [rows EXCEPT ![r].status = IF run[r].error THEN "partial"
                                                        ELSE "success"]
  /\ Return(r, "done")
  /\ touched' = [touched EXCEPT ![r] = {}]
  /\ UNCHANGED <<feature, champion, ledger, watermark>>

\* The process dies, or one of the statements outside the try blocks raises
\* (listing, error record, watermark, finish).  The row is left as it is.
Die(r) ==
  /\ run[r].pc \notin {"new", "done", "refused", "dead"}
  /\ Return(r, "dead")
  /\ touched' = [touched EXCEPT ![r] = {}]
  /\ UNCHANGED tables

-----------------------------------------------------------------------------
\* A materializer writes a window, writes it with other features, or removes
\* it (one transaction).
Rematerialize ==
  /\ \E w \in Windows, h \in 0..Hashes :
       /\ feature[w] # h
       /\ feature' = [feature EXCEPT ![w] = h]
       /\ touched' = [r \in Runs |-> IF Evaluating(r) THEN touched[r] \cup {w}
                                                    ELSE touched[r]]
  /\ UNCHANGED <<champion, ledger, rows, watermark, run>>

\* The registry promotes, retires or rolls back.
ChangeChampion ==
  /\ champion' \in Identities \ {champion}
  /\ UNCHANGED <<feature, ledger, rows, watermark, run, touched>>

RunStep(r) ==
  \/ Hint(r) \/ InsertRow(r) \/ Resolve(r) \/ Bind(r) \/ Block(r) \/ List(r)
  \/ Evaluate(r) \/ EvaluateRaises(r) \/ AdvanceWatermark(r) \/ Finish(r)

Next ==
  \/ \E r \in Runs : RunStep(r) \/ Die(r)
  \/ Rematerialize \/ ChangeChampion

Spec == Init /\ [][Next]_vars

\* A run that was started is executed to its end unless it dies.
Fairness == \A r \in Runs : WF_run(run[r].pc # "new" /\ RunStep(r))
FairSpec == Spec /\ Fairness

-----------------------------------------------------------------------------
(***************************************************************************)
(* Properties.                                                             *)
(***************************************************************************)
\* Every variable has its type.
TypeOK ==
  /\ feature \in [Windows -> 0..Hashes]
  /\ champion \in Identities
  /\ ledger \in [EvaluationKeys -> Runs \cup {NoRun}]
  /\ rows \in [Runs -> Rows]
  /\ watermark \in [Policies \X Identities -> 0..WindowCount]
  /\ run \in [Runs -> Memory]
  /\ touched \in [Runs -> SUBSET Windows]

WrittenBy(r) == {k \in EvaluationKeys : ledger[k] = r}

\* The counters of a run row (examined_windows) are the number of evaluations
\* that carry its id, whichever runs raced it for a window.
CountersMatchLedger ==
  \A r \in Runs : rows[r].examined = Cardinality(WrittenBy(r))

\* Two runs in progress work under the same policy and model identity only
\* when both lost their champion between the two lookups: then the index
\* still holds the models they were started with.
NamespacesDisjoint ==
  \A q, r \in Runs :
    /\ q # r /\ Evaluating(q) /\ Evaluating(r)
    /\ run[q].policy = run[r].policy /\ run[q].model = run[r].model
    => run[q].policy = "hybrid" /\ run[q].model = NoModel

\* A backfill that reports success has left nothing behind: every window it
\* could see, and that no materializer rewrote since it last looked, has an
\* evaluation of its present content under the run's policy and model, its own
\* or a concurrent run's.
SuccessCoversWindows ==
  [][\A r \in Backfills :
       rows'[r].status = "success" /\ rows[r].status # "success"
       => Pending(run[r].policy, run[r].model) \subseteq touched[r]]_vars

\* The runs and their evaluations are an append-only ledger (EvaluationLedger):
\* identities are written once, only by running runs, and runs end once.
Ledger == INSTANCE EvaluationLedger WITH
            Keys <- EvaluationKeys,
            status <- [r \in Runs |-> rows[r].status]
LedgerSpec == Ledger!Spec

\* Every run ends, or its process died: failing windows do not keep the loop
\* busy for ever as long as fewer than a batch of them can fail.
RunTerminates ==
  \A r \in Runs : run[r].pc # "new" ~> run[r].pc \in {"done", "refused", "dead"}
=============================================================================
