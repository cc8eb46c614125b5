-------------------------- MODULE DetectionRunProofs --------------------------
(***************************************************************************)
(* Theorems about DetectionRun, for any number of runs, windows, contents  *)
(* and models.                                                             *)
(***************************************************************************)
EXTENDS DetectionRun, FiniteSetTheorems, TLAPS

(***************************************************************************)
(* Types.                                                                  *)
(***************************************************************************)
LEMMA FreshTyped == Fresh \in Memory
BY RunAssumption DEF Fresh, Memory, PCs, Policies, Identities

LEMMA GotoTyped ==
  ASSUME NEW r \in Runs, NEW l \in PCs, run \in [Runs -> Memory], Goto(r, l)
  PROVE  run' \in [Runs -> Memory]
<1>1. [run[r] EXCEPT !.pc = l] \in Memory
  BY DEF Memory
<1> QED
  BY <1>1 DEF Goto

LEMMA ReturnTyped ==
  ASSUME NEW r \in Runs, NEW l \in PCs, run \in [Runs -> Memory], Return(r, l)
  PROVE  run' \in [Runs -> Memory]
<1>1. [Fresh EXCEPT !.pc = l] \in Memory
  BY FreshTyped DEF Memory
<1> QED
  BY <1>1 DEF Return

LEMMA NamedTyped ==
  ASSUME NEW m \in Memory, NEW l \in PCs, NEW policy \in Policies,
         NEW explicit \in Identities, NEW model \in Identities
  PROVE  /\ [m EXCEPT !.pc = l, !.policy = policy, !.explicit = explicit,
                       !.model = model] \in Memory
         /\ [m EXCEPT !.pc = l, !.model = model] \in Memory
BY DEF Memory

LEMMA ConsumedTyped ==
  ASSUME NEW m \in Memory, NEW l \in PCs, NEW batch \in SUBSET Items,
         NEW last \in 0..WindowCount, NEW n \in Nat, NEW error \in BOOLEAN
  PROVE  [m EXCEPT !.pc = l, !.batch = batch, !.last = last,
                   !.processed = n, !.error = error] \in Memory
BY DEF Memory

LEMMA ConsumeTyped ==
  ASSUME NEW r \in Runs, NEW item \in Items, NEW failed \in BOOLEAN,
         run \in [Runs -> Memory], Consume(r, item, failed)
  PROVE  run' \in [Runs -> Memory]
<1> DEFINE l == IF run[r].batch = {item} THEN "watermark" ELSE "evaluate"
           batch == run[r].batch \ {item}
           n == IF r \in Backfills THEN run[r].processed ELSE run[r].processed + 1
           error == run[r].error \/ failed
           m == [run[r] EXCEPT !.pc = l, !.batch = batch, !.last = item.window,
                               !.processed = n, !.error = error]
<1>1. item.window \in 0..WindowCount
  BY RunAssumption DEF Items, Windows
<1>2. error \in BOOLEAN
  OBVIOUS
<1>3. l \in PCs
  BY DEF PCs
<1>4. batch \in SUBSET Items /\ n \in Nat
  BY DEF Memory
<1>5. m \in Memory
  <2> HIDE DEF l, batch, n, error
  <2> QED
    BY <1>1, <1>2, <1>3, <1>4, ConsumedTyped
<1>6. run' = [run EXCEPT ![r] = m]
  BY DEF Consume
<1> QED
  <2> HIDE DEF m
  <2> QED
    BY <1>5, <1>6

\* Every reachable state is well typed: no run, whatever it races with, puts
\* a value outside its column or its variable.
THEOREM TypeCorrect == Spec => []TypeOK
<1>1. Init => TypeOK
  BY RunAssumption DEF Init, TypeOK, NoRow, Fresh, Rows, Memory, PCs,
     Policies, Identities, Windows
<1>2. TypeOK /\ [Next]_vars => TypeOK'
  <2> SUFFICES ASSUME TypeOK, [Next]_vars PROVE TypeOK'
    OBVIOUS
  <2> USE DEF TypeOK, tables
  <2>1. ASSUME NEW r \in Runs, Hint(r) PROVE TypeOK'
    <3>1. PICK base \in BasePolicies, explicit \in Explicit \cup {NoModel} :
            run' = [run EXCEPT ![r] =
              [@ EXCEPT !.pc = "insert",
                        !.policy = HintedPolicy(base, explicit),
                        !.explicit = explicit,
                        !.model = FoundModel(HintedPolicy(base, explicit), explicit)]]
      BY <2>1 DEF Hint
    <3> DEFINE policy == HintedPolicy(base, explicit)
               model == FoundModel(policy, explicit)
               m == [run[r] EXCEPT !.pc = "insert", !.policy = policy,
                                   !.explicit = explicit, !.model = model]
    <3>2. policy \in Policies
      BY RunAssumption DEF HintedPolicy, Policies
    <3>3. explicit \in Identities /\ model \in Identities
      BY RunAssumption DEF FoundModel, Identities
    <3>4. m \in Memory
      <4> HIDE DEF policy, model
      <4> QED
        BY <3>2, <3>3, NamedTyped DEF PCs
    <3>5. run' = [run EXCEPT ![r] = m]
      BY <3>1
    <3>6. run' \in [Runs -> Memory]
      <4> HIDE DEF m
      <4> QED
        BY <3>4, <3>5
    <3> QED
      BY <2>1, <3>6 DEF Hint
  <2>2. ASSUME NEW r \in Runs, InsertRow(r) PROVE TypeOK'
    <3> DEFINE row == [status |-> "running", policy |-> run[r].policy,
                       model |-> run[r].model, examined |-> 0]
    <3>1. "refused" \in PCs /\ "resolve" \in PCs
      BY DEF PCs
    <3>2. run' \in [Runs -> Memory]
      BY <2>2, <3>1, GotoTyped, ReturnTyped DEF InsertRow
    <3>3. row \in Rows
      BY DEF Rows, Memory
    <3>4. rows' = rows \/ rows' = [rows EXCEPT ![r] = row]
      BY <2>2 DEF InsertRow
    <3>5. rows' \in [Runs -> Rows]
      <4> HIDE DEF row
      <4> QED
        BY <3>3, <3>4
    <3> QED
      BY <2>2, <3>2, <3>5 DEF InsertRow
  <2>3. ASSUME NEW r \in Runs, Resolve(r) PROVE TypeOK'
    <3> DEFINE found == FoundModel(run[r].policy, run[r].explicit)
               bound == [run[r] EXCEPT !.pc = "bind", !.model = found]
               bare == [run[r] EXCEPT !.pc = "list", !.model = NoModel]
    <3>1. found \in Identities /\ NoModel \in Identities
      BY DEF FoundModel, Memory, Identities
    <3>2. run[r].policy \in Policies
      BY DEF Memory
    <3>3. bound \in Memory /\ bare \in Memory
      <4> HIDE DEF found
      <4> QED
        BY <3>1, <3>2, NamedTyped DEF PCs
    <3>4. \/ run' = [run EXCEPT ![r] = bound]
          \/ run' = [run EXCEPT ![r] = bare]
          \/ Goto(r, "block")
      BY <2>3 DEF Resolve
    <3>5. run' \in [Runs -> Memory]
      <4>1. "block" \in PCs
        BY DEF PCs
      <4> HIDE DEF bound, bare
      <4> QED
        BY <3>3, <3>4, <4>1, GotoTyped
    <3> QED
      BY <2>3, <3>5 DEF Resolve
  <2>4. ASSUME NEW r \in Runs, Bind(r) PROVE TypeOK'
    <3>1. "list" \in PCs /\ "block" \in PCs
      BY DEF PCs
    <3>2. run' \in [Runs -> Memory]
      BY <2>4, <3>1, GotoTyped DEF Bind
    <3>3. run[r].model \in Identities
      BY DEF Memory
    <3>4. rows' \in [Runs -> Rows]
      <4>1. \A x \in Rows, id \in Identities : [x EXCEPT !.model = id] \in Rows
        BY DEF Rows
      <4>2. [rows[r] EXCEPT !.model = run[r].model] \in Rows
        BY <3>3, <4>1
      <4> QED
        BY <2>4, <4>2 DEF Bind
    <3> QED
      BY <2>4, <3>2, <3>4 DEF Bind
  <2>5. ASSUME NEW r \in Runs, Block(r) PROVE TypeOK'
    <3>1. "done" \in PCs
      BY DEF PCs
    <3>2. run' \in [Runs -> Memory]
      BY <2>5, <3>1, ReturnTyped DEF Block
    <3>3. [rows[r] EXCEPT !.status = "blocked"] \in Rows
      BY DEF Rows
    <3>4. rows' \in [Runs -> Rows]
      BY <2>5, <3>3 DEF Block
    <3> QED
      BY <2>5, <3>2, <3>4 DEF Block
  <2>6. ASSUME NEW r \in Runs, List(r) PROVE TypeOK'
    <3> DEFINE S == FirstOf(Pending(run[r].policy, run[r].model), Limit(r))
               l == IF S = {} THEN "finish" ELSE "evaluate"
               short == Cardinality(S) < Limit(r)
               m == [run[r] EXCEPT !.pc = l, !.batch = Listed(S), !.short = short]
    <3>1. \A w \in S : w \in Windows /\ feature[w] \in 1..Hashes
      BY RunAssumption DEF FirstOf, Pending
    <3>2. Listed(S) \in SUBSET Items
      BY <3>1 DEF Listed, Items
    <3>3. l \in PCs /\ short \in BOOLEAN
      BY DEF PCs
    <3>4. m \in Memory
      <4>1. run[r] \in Memory
        OBVIOUS
      <4>2. \A x \in Memory, p \in PCs, b \in SUBSET Items, s \in BOOLEAN :
              [x EXCEPT !.pc = p, !.batch = b, !.short = s] \in Memory
        BY DEF Memory
      <4> HIDE DEF S, l, short
      <4> QED
        BY <3>2, <3>3, <4>1, <4>2
    <3>5. run' = [run EXCEPT ![r] = m]
      BY <2>6 DEF List
    <3>6. run' \in [Runs -> Memory]
      <4> HIDE DEF m
      <4> QED
        BY <3>4, <3>5
    <3>7. touched' \in [Runs -> SUBSET Windows]
      BY <2>6 DEF List
    <3> QED
      BY <2>6, <3>6, <3>7 DEF List
  <2>8. ASSUME NEW r \in Runs, Evaluate(r) PROVE TypeOK'
    <3>1. PICK item \in run[r].batch :
            LET k == Key(item.window, item.hash, run[r].policy, run[r].model)
            IN  /\ IF ledger[k] = NoRun
                     THEN /\ ledger' = [ledger EXCEPT ![k] = r]
                          /\ rows' = [rows EXCEPT ![r].examined = @ + 1]
                     ELSE UNCHANGED <<ledger, rows>>
                /\ Consume(r, item, FALSE)
      BY <2>8 DEF Evaluate
    <3>2. item \in Items
      BY DEF Memory
    <3>3. [rows[r] EXCEPT !.examined = @ + 1] \in Rows
      BY DEF Rows
    <3>4. rows' \in [Runs -> Rows]
      BY <3>1, <3>3
    <3>5. ledger' \in [EvaluationKeys -> Runs \cup {NoRun}]
      BY <3>1
    <3>6. run' \in [Runs -> Memory]
      BY <3>1, <3>2, ConsumeTyped
    <3> QED
      BY <2>8, <3>4, <3>5, <3>6 DEF Evaluate
  <2>9. ASSUME NEW r \in Runs, EvaluateRaises(r) PROVE TypeOK'
    <3>1. PICK item \in run[r].batch : Consume(r, item, TRUE)
      BY <2>9 DEF EvaluateRaises
    <3>2. item \in Items
      BY DEF Memory
    <3>3. run' \in [Runs -> Memory]
      BY <3>1, <3>2, ConsumeTyped
    <3> QED
      BY <2>9, <3>3 DEF EvaluateRaises
  <2>10. ASSUME NEW r \in Runs, AdvanceWatermark(r) PROVE TypeOK'
    <3>1. "finish" \in PCs /\ "list" \in PCs
      BY DEF PCs
    <3>2. run' \in [Runs -> Memory]
      BY <2>10, <3>1, GotoTyped DEF AdvanceWatermark
    <3>3. run[r].last \in 0..WindowCount
      BY DEF Memory
    <3>4. watermark' \in [Policies \X Identities -> 0..WindowCount]
      BY <2>10, <3>3 DEF AdvanceWatermark
    <3> QED
      BY <2>10, <3>2, <3>4 DEF AdvanceWatermark
  <2>11. ASSUME NEW r \in Runs, Finish(r) PROVE TypeOK'
    <3>1. "done" \in PCs
      BY DEF PCs
    <3>2. run' \in [Runs -> Memory]
      BY <2>11, <3>1, ReturnTyped DEF Finish
    <3>3. \A s \in {"success", "partial"} : [rows[r] EXCEPT !.status = s] \in Rows
      BY DEF Rows
    <3>4. rows' \in [Runs -> Rows]
      BY <2>11, <3>3 DEF Finish
    <3> QED
      BY <2>11, <3>2, <3>4 DEF Finish
  <2>12. ASSUME NEW r \in Runs, Die(r) PROVE TypeOK'
    <3>1. "dead" \in PCs
      BY DEF PCs
    <3>2. run' \in [Runs -> Memory]
      BY <2>12, <3>1, ReturnTyped DEF Die
    <3> QED
      BY <2>12, <3>2 DEF Die
  <2>13. CASE Rematerialize
    BY <2>13 DEF Rematerialize
  <2>14. CASE ChangeChampion
    BY <2>14 DEF ChangeChampion
  <2>15. CASE UNCHANGED vars
    BY <2>15 DEF vars
  <2> QED
    BY <2>1, <2>2, <2>3, <2>4, <2>5, <2>6, <2>8, <2>9, <2>10, <2>11, <2>12,
       <2>13, <2>14, <2>15 DEF Next, RunStep
<1>3. QED
  BY <1>1, <1>2, PTL DEF Spec

(***************************************************************************)
(* The inductive invariant.  A run that has inserted its row owns it until *)
(* it ends or dies; the model of the row is the one it evaluates with,     *)
(* except for a hybrid run that lost its champion; a row that is not yet   *)
(* evaluating has no evaluations.                                          *)
(***************************************************************************)
Held(r) == Evaluating(r) \/ run[r].pc \in {"resolve", "bind", "block"}

RowFollowsRun ==
  \A r \in Runs :
    /\ run[r].pc \in {"new", "insert"} => rows[r].status = "none"
    /\ Held(r) => rows[r].status = "running" /\ rows[r].policy = run[r].policy

ModelFollowsRun ==
  \A r \in Runs :
    /\ run[r].pc = "insert" /\ run[r].policy = "rules_only" => run[r].model = NoModel
    /\ run[r].pc = "bind" => run[r].policy # "rules_only"
    /\ Held(r) /\ run[r].policy = "rules_only" => rows[r].model = NoModel
    /\ Evaluating(r) => \/ rows[r].model = run[r].model
                        \/ run[r].policy = "hybrid" /\ run[r].model = NoModel

RunningRowsUnique ==
  \A q, r \in Runs :
    /\ q # r /\ rows[q].status = "running" /\ rows[r].status = "running"
    => ~(rows[q].policy = rows[r].policy /\ rows[q].model = rows[r].model)

NothingWrittenYet ==
  \A r \in Runs :
    rows[r].status = "none" \/ run[r].pc \in {"resolve", "bind", "block"}
    => WrittenBy(r) = {}

CountersExact ==
  \A r \in Runs : /\ IsFiniteSet(WrittenBy(r))
                  /\ rows[r].examined = Cardinality(WrittenBy(r))

Control == RowFollowsRun /\ ModelFollowsRun /\ RunningRowsUnique

LEMMA ControlHolds == Spec => []Control
<1> USE DEF Control, RowFollowsRun, ModelFollowsRun, RunningRowsUnique, Held,
            Evaluating
<1>1. Init => Control
  BY DEF Init, NoRow, Fresh
<1>2. TypeOK /\ Control /\ [Next]_vars => Control'
  <2> SUFFICES ASSUME TypeOK, Control, [Next]_vars PROVE Control'
    OBVIOUS
  <2> USE DEF TypeOK, tables
  <2>1. ASSUME NEW r \in Runs, Hint(r) PROVE Control'
    <3>1. PICK base \in BasePolicies, explicit \in Explicit \cup {NoModel} :
            run' = [run EXCEPT ![r] =
              [@ EXCEPT !.pc = "insert",
                        !.policy = HintedPolicy(base, explicit),
                        !.explicit = explicit,
                        !.model = FoundModel(HintedPolicy(base, explicit), explicit)]]
      BY <2>1 DEF Hint
    <3>2. /\ run'[r].pc = "insert"
          /\ run'[r].policy = "rules_only" => run'[r].model = NoModel
      BY <3>1 DEF FoundModel, Memory
    <3>3. \A q \in Runs \ {r} : run'[q] = run[q]
      BY <3>1
    <3> QED
      BY <2>1, <3>2, <3>3 DEF Hint
  <2>2. ASSUME NEW r \in Runs, InsertRow(r) PROVE Control'
    <3>1. CASE NamespaceTaken(r, run[r].policy, run[r].model)
      <4>1. run'[r].pc = "refused" /\ rows' = rows
        BY <2>2, <3>1 DEF InsertRow, Return, Fresh
      <4>2. \A q \in Runs \ {r} : run'[q] = run[q]
        BY <2>2, <3>1 DEF InsertRow, Return
      <4> QED
        BY <4>1, <4>2
    <3>2. CASE ~NamespaceTaken(r, run[r].policy, run[r].model)
      <4>1. /\ run'[r].pc = "resolve"
            /\ run'[r].policy = run[r].policy
            /\ run'[r].model = run[r].model
            /\ rows'[r] = [status |-> "running", policy |-> run[r].policy,
                           model |-> run[r].model, examined |-> 0]
            /\ run[r].pc = "insert"
        BY <2>2, <3>2 DEF InsertRow, Goto, Memory
      <4>2. \A q \in Runs \ {r} : run'[q] = run[q] /\ rows'[q] = rows[q]
        BY <2>2, <3>2 DEF InsertRow, Goto
      <4>3. RowFollowsRun'
        BY <4>1, <4>2
      <4>4. ModelFollowsRun'
        BY <4>1, <4>2
      <4>5. RunningRowsUnique'
        BY <3>2, <4>1, <4>2 DEF NamespaceTaken
      <4> QED
        BY <4>3, <4>4, <4>5
    <3> QED
      BY <3>1, <3>2
  <2>3. ASSUME NEW r \in Runs, Resolve(r) PROVE Control'
    <3>1. \A q \in Runs \ {r} : run'[q] = run[q]
      BY <2>3 DEF Resolve, Goto
    <3>2. /\ run'[r].policy = run[r].policy
          /\ \/ run'[r].pc = "bind" /\ run[r].policy # "rules_only"
             \/ /\ run'[r].pc = "list" /\ run'[r].model = NoModel
                /\ run[r].policy # "model_only"
             \/ run'[r].pc = "block"
      BY <2>3 DEF Resolve, Goto, FoundModel, Memory
    <3>3. run[r].policy \in {"hybrid", "rules_only", "model_only"}
      BY DEF Memory, Policies
    <3>4. rows' = rows /\ run[r].pc = "resolve"
      BY <2>3 DEF Resolve
    <3>5. RowFollowsRun'
      BY <3>1, <3>2, <3>4
    <3>6. ModelFollowsRun'
      BY <3>1, <3>2, <3>3, <3>4
    <3>7. RunningRowsUnique'
      BY <3>4
    <3> QED
      BY <3>5, <3>6, <3>7
  <2>4. ASSUME NEW r \in Runs, Bind(r) PROVE Control'
    <3>1. \A q \in Runs \ {r} : run'[q] = run[q] /\ rows'[q] = rows[q]
      BY <2>4 DEF Bind, Goto
    <3>2. /\ run[r].pc = "bind" /\ run'[r].policy = run[r].policy
          /\ run'[r].model = run[r].model /\ run'[r].pc \in {"block", "list"}
      BY <2>4 DEF Bind, Goto, Memory
    <3>3. CASE NamespaceTaken(r, run[r].policy, run[r].model)
      <4>1. run'[r].pc = "block" /\ rows' = rows
        BY <2>4, <3>3 DEF Bind, Goto, Memory
      <4> QED
        BY <3>1, <3>2, <4>1
    <3>4. CASE ~NamespaceTaken(r, run[r].policy, run[r].model)
      <4>1. /\ rows'[r].model = run[r].model
            /\ rows'[r].policy = rows[r].policy
            /\ rows'[r].status = rows[r].status
        BY <2>4, <3>4 DEF Bind, Rows
      <4>2. RowFollowsRun'
        BY <3>1, <3>2, <4>1
      <4>3. ModelFollowsRun'
        BY <3>1, <3>2, <4>1
      <4>4. RunningRowsUnique'
        BY <3>1, <3>2, <3>4, <4>1 DEF NamespaceTaken
      <4> QED
        BY <4>2, <4>3, <4>4
    <3> QED
      BY <3>3, <3>4
  <2>5. ASSUME NEW r \in Runs, Block(r) \/ Finish(r) PROVE Control'
    <3>1. \A q \in Runs \ {r} : run'[q] = run[q] /\ rows'[q] = rows[q]
      BY <2>5 DEF Block, Finish, Return
    <3>2. run'[r].pc = "done" /\ rows'[r].status \in {"blocked", "success", "partial"}
      BY <2>5 DEF Block, Finish, Return, Fresh, Memory, Rows
    <3> QED
      BY <3>1, <3>2
  <2>6. ASSUME NEW r \in Runs, List(r) PROVE Control'
    <3>1. \A q \in Runs \ {r} : run'[q] = run[q]
      BY <2>6 DEF List
    <3>2. /\ run'[r].pc \in {"finish", "evaluate"} /\ run[r].pc = "list"
          /\ run'[r].policy = run[r].policy /\ run'[r].model = run[r].model
      BY <2>6 DEF List, Memory
    <3> QED
      BY <2>6, <3>1, <3>2 DEF List
  <2>7. ASSUME NEW r \in Runs, Evaluate(r) \/ EvaluateRaises(r) PROVE Control'
    <3>1. PICK item \in run[r].batch, failed \in BOOLEAN : Consume(r, item, failed)
      BY <2>7 DEF Evaluate, EvaluateRaises
    <3>2. \A q \in Runs \ {r} : run'[q] = run[q]
      BY <3>1 DEF Consume
    <3>3. /\ run'[r].pc \in {"watermark", "evaluate"}
          /\ run'[r].policy = run[r].policy /\ run'[r].model = run[r].model
      BY <3>1 DEF Consume, Memory
    <3>4. run[r].pc = "evaluate"
      BY <2>7 DEF Evaluate, EvaluateRaises
    <3>5. \A q \in Runs : /\ rows'[q].status = rows[q].status
                          /\ rows'[q].policy = rows[q].policy
                          /\ rows'[q].model = rows[q].model
      <4>1. \/ rows' = rows
            \/ rows' = [rows EXCEPT ![r].examined = @ + 1]
        BY <2>7 DEF Evaluate, EvaluateRaises
      <4> QED
        BY <4>1 DEF Rows
    <3>6. RowFollowsRun'
      BY <3>2, <3>3, <3>4, <3>5
    <3>7. ModelFollowsRun'
      BY <3>2, <3>3, <3>4, <3>5
    <3>8. RunningRowsUnique'
      BY <3>5
    <3> QED
      BY <3>6, <3>7, <3>8
  <2>8. ASSUME NEW r \in Runs, AdvanceWatermark(r) PROVE Control'
    BY <2>8 DEF AdvanceWatermark, Goto, Memory
  <2>9. ASSUME NEW r \in Runs, Die(r) PROVE Control'
    BY <2>9 DEF Die, Return, Fresh, Memory
  <2>10. CASE Rematerialize
    BY <2>10 DEF Rematerialize
  <2>11. CASE ChangeChampion
    BY <2>11 DEF ChangeChampion
  <2>12. CASE UNCHANGED vars
    BY <2>12 DEF vars
  <2> QED
    BY <2>1, <2>2, <2>3, <2>4, <2>5, <2>6, <2>7, <2>8, <2>9, <2>10, <2>11,
       <2>12 DEF Next, RunStep
<1>3. QED
  BY <1>1, <1>2, TypeCorrect, PTL DEF Spec

\* Runs in progress share a policy and a model identity only when both are
\* hybrid runs without a model: the index on running rows, which may hold
\* another model for them, keeps all the others apart.
THEOREM NamespacesKeptApart == Spec => []NamespacesDisjoint
<1>1. Control => NamespacesDisjoint
  BY DEF Control, RowFollowsRun, ModelFollowsRun, RunningRowsUnique, Held,
         NamespacesDisjoint, Evaluating
<1> QED
  BY <1>1, ControlHolds, PTL

(***************************************************************************)
(* The ledger.                                                             *)
(***************************************************************************)
\* What an Evaluate step does to the ledger: nothing, or one new entry.
LEMMA EvaluateWrites ==
  ASSUME TypeOK, NEW r \in Runs, Evaluate(r)
  PROVE  \/ ledger' = ledger /\ rows' = rows
         \/ \E k \in EvaluationKeys :
              /\ ledger[k] = NoRun
              /\ ledger' = [ledger EXCEPT ![k] = r]
              /\ rows' = [rows EXCEPT ![r].examined = @ + 1]
<1> USE DEF TypeOK
<1>1. PICK item \in run[r].batch :
        LET k == Key(item.window, item.hash, run[r].policy, run[r].model)
        IN  IF ledger[k] = NoRun
              THEN /\ ledger' = [ledger EXCEPT ![k] = r]
                   /\ rows' = [rows EXCEPT ![r].examined = @ + 1]
              ELSE UNCHANGED <<ledger, rows>>
  BY DEF Evaluate
<1>2. item \in Items /\ run[r].policy \in Policies /\ run[r].model \in Identities
  BY DEF Memory
<1>3. Key(item.window, item.hash, run[r].policy, run[r].model) \in EvaluationKeys
  BY <1>2 DEF Key, EvaluationKeys, Items
<1> QED
  BY <1>1, <1>3

Accounts == NothingWrittenYet /\ CountersExact

\* A step that leaves the ledger and the counters alone keeps the accounts if
\* it moves no run back before its evaluations.
LEMMA AccountsKept ==
  ASSUME Accounts, ledger' = ledger,
         \A r \in Runs :
           /\ rows'[r].examined = rows[r].examined
           /\ (rows'[r].status = "none" \/ run'[r].pc \in {"resolve", "bind", "block"})
              => (rows[r].status = "none" \/ run[r].pc \in {"resolve", "bind", "block"})
  PROVE  Accounts'
<1>1. \A r \in Runs : WrittenBy(r)' = WrittenBy(r)
  BY DEF WrittenBy
<1> QED
  BY <1>1 DEF Accounts, NothingWrittenYet, CountersExact

LEMMA AccountsHold == Spec => []Accounts
<1>1. Init => Accounts
  <2> SUFFICES ASSUME Init PROVE Accounts
    OBVIOUS
  <2>1. \A r \in Runs : WrittenBy(r) = {}
    BY RunAssumption DEF Init, WrittenBy
  <2>2. \A r \in Runs : rows[r].examined = 0
    BY DEF Init, NoRow
  <2>3. IsFiniteSet({}) /\ Cardinality({}) = 0
    BY FS_EmptySet
  <2> QED
    BY <2>1, <2>2, <2>3 DEF Accounts, NothingWrittenYet, CountersExact
<1>2. TypeOK /\ Control /\ Accounts /\ [Next]_vars => Accounts'
  <2> SUFFICES ASSUME TypeOK, Control, Accounts, [Next]_vars PROVE Accounts'
    OBVIOUS
  <2> USE DEF TypeOK, tables
  <2>1. ASSUME NEW r \in Runs, Hint(r) PROVE Accounts'
    <3>1. /\ run[r].pc = "new" /\ rows' = rows /\ ledger' = ledger
          /\ \A q \in Runs \ {r} : run'[q] = run[q]
      BY <2>1 DEF Hint
    <3>2. rows[r].status = "none"
      BY <3>1 DEF Control, RowFollowsRun
    <3> QED
      BY <3>1, <3>2, AccountsKept
  <2>2. ASSUME NEW r \in Runs, InsertRow(r) PROVE Accounts'
    <3>1. /\ run[r].pc = "insert" /\ ledger' = ledger
          /\ \A q \in Runs \ {r} : run'[q] = run[q] /\ rows'[q] = rows[q]
      BY <2>2 DEF InsertRow, Goto, Return
    <3>2. rows[r].status = "none" /\ WrittenBy(r) = {}
      BY <3>1 DEF Control, RowFollowsRun, Accounts, NothingWrittenYet
    <3>3. rows[r].examined = 0
      BY <3>2, FS_EmptySet DEF Accounts, CountersExact
    <3>4. rows'[r].examined = 0
      BY <2>2, <3>3 DEF InsertRow
    <3> QED
      BY <3>1, <3>2, <3>3, <3>4, AccountsKept
  <2>3. ASSUME NEW r \in Runs, Resolve(r) \/ Bind(r) PROVE Accounts'
    <3>1. /\ run[r].pc \in {"resolve", "bind"} /\ ledger' = ledger
          /\ \A q \in Runs \ {r} : run'[q] = run[q] /\ rows'[q] = rows[q]
      BY <2>3 DEF Resolve, Bind, Goto
    <3>2. rows' = rows \/ rows' = [rows EXCEPT ![r].model = run[r].model]
      BY <2>3 DEF Resolve, Bind
    <3>3. rows'[r].examined = rows[r].examined
      BY <3>2 DEF Rows
    <3> QED
      BY <3>1, <3>3, AccountsKept
  <2>4. ASSUME NEW r \in Runs, Block(r) \/ Finish(r) PROVE Accounts'
    <3>1. /\ ledger' = ledger /\ run'[r].pc = "done"
          /\ \A q \in Runs \ {r} : run'[q] = run[q] /\ rows'[q] = rows[q]
      BY <2>4 DEF Block, Finish, Return, Fresh
    <3>2. /\ rows'[r].examined = rows[r].examined
          /\ rows'[r].status \in {"blocked", "success", "partial"}
      BY <2>4 DEF Block, Finish, Rows
    <3> QED
      BY <3>1, <3>2, AccountsKept
  <2>5. ASSUME NEW r \in Runs, List(r) \/ EvaluateRaises(r) \/ AdvanceWatermark(r)
        PROVE Accounts'
    <3>1. /\ ledger' = ledger /\ rows' = rows
          /\ \A q \in Runs \ {r} : run'[q] = run[q]
      BY <2>5 DEF List, EvaluateRaises, AdvanceWatermark, Consume, Goto
    <3>2. run'[r].pc \in {"list", "evaluate", "watermark", "finish"}
      <4>1. CASE List(r)
        BY <4>1 DEF List, Memory
      <4>2. CASE EvaluateRaises(r)
        BY <4>2 DEF EvaluateRaises, Consume, Memory
      <4>3. CASE AdvanceWatermark(r)
        BY <4>3 DEF AdvanceWatermark, Goto, Memory
      <4> QED
        BY <2>5, <4>1, <4>2, <4>3
    <3> QED
      BY <3>1, <3>2, AccountsKept
  <2>6. ASSUME NEW r \in Runs, Evaluate(r) PROVE Accounts'
    <3>1. /\ run[r].pc = "evaluate" /\ run'[r].pc \in {"watermark", "evaluate"}
          /\ \A q \in Runs \ {r} : run'[q] = run[q]
      BY <2>6 DEF Evaluate, Consume
    <3>2. rows[r].status = "running"
      BY <3>1 DEF Control, RowFollowsRun, Held, Evaluating
    <3>3. CASE ledger' = ledger /\ rows' = rows
      BY <3>1, <3>2, <3>3, AccountsKept
    <3>4. CASE \E k \in EvaluationKeys :
                 /\ ledger[k] = NoRun
                 /\ ledger' = [ledger EXCEPT ![k] = r]
                 /\ rows' = [rows EXCEPT ![r].examined = @ + 1]
      <4>1. PICK k \in EvaluationKeys :
                 /\ ledger[k] = NoRun
                 /\ ledger' = [ledger EXCEPT ![k] = r]
                 /\ rows' = [rows EXCEPT ![r].examined = @ + 1]
        BY <3>4
      <4>2. WrittenBy(r)' = WrittenBy(r) \cup {k} /\ k \notin WrittenBy(r)
        BY <4>1, RunAssumption DEF WrittenBy
      <4>3. \A q \in Runs \ {r} : WrittenBy(q)' = WrittenBy(q)
        BY <4>1, RunAssumption DEF WrittenBy
      <4>4. /\ rows'[r].examined = rows[r].examined + 1
            /\ rows'[r].status = "running"
            /\ \A q \in Runs \ {r} : rows'[q] = rows[q]
        BY <4>1, <3>2 DEF Rows
      <4>5. /\ IsFiniteSet(WrittenBy(r)')
            /\ Cardinality(WrittenBy(r)') = rows'[r].examined
        BY <4>2, <4>4, FS_AddElement DEF Accounts, CountersExact
      <4>6. CountersExact'
        BY <4>3, <4>4, <4>5 DEF Accounts, CountersExact
      <4>7. NothingWrittenYet'
        BY <3>1, <4>3, <4>4 DEF Accounts, NothingWrittenYet
      <4> QED
        BY <4>6, <4>7 DEF Accounts
    <3> QED
      BY <2>6, <3>3, <3>4, EvaluateWrites
  <2>7. ASSUME NEW r \in Runs, Die(r) PROVE Accounts'
    <3>1. /\ ledger' = ledger /\ rows' = rows /\ run'[r].pc = "dead"
          /\ \A q \in Runs \ {r} : run'[q] = run[q]
      BY <2>7 DEF Die, Return, Fresh
    <3> QED
      BY <3>1, AccountsKept
  <2>8. CASE Rematerialize \/ ChangeChampion \/ UNCHANGED vars
    <3>1. ledger' = ledger /\ rows' = rows /\ run' = run
      BY <2>8 DEF Rematerialize, ChangeChampion, vars
    <3> QED
      BY <3>1, AccountsKept
  <2> QED
    BY <2>1, <2>2, <2>3, <2>4, <2>5, <2>6, <2>7, <2>8 DEF Next, RunStep
<1>3. QED
  BY <1>1, <1>2, TypeCorrect, ControlHolds, PTL DEF Spec

\* The counter of every run row is exactly the number of evaluations that carry
\* the run's id, however many runs race for the same windows.
THEOREM CountersCorrect == Spec => []CountersMatchLedger
<1>1. Accounts => CountersMatchLedger
  BY DEF Accounts, CountersExact, CountersMatchLedger
<1> QED
  BY <1>1, AccountsHold, PTL

(***************************************************************************)
(* Refinement.                                                             *)
(***************************************************************************)
\* The engine implements the append-only ledger: every step of a run begins a
\* run, records one new identity for a running run, ends a running run, or
\* does nothing the ledger could see.
THEOREM ImplementsLedger == Spec => LedgerSpec
<1> DEFINE status == [r \in Runs |-> rows[r].status]
<1>1. Init => Ledger!Init
  BY DEF Init, Ledger!Init, NoRow
<1>2. TypeOK /\ Control /\ Accounts /\ [Next]_vars => [Ledger!Next]_(Ledger!vars)
  <2> SUFFICES ASSUME TypeOK, Control, Accounts, [Next]_vars
               PROVE  Ledger!Next \/ UNCHANGED Ledger!vars
    OBVIOUS
  <2> USE DEF TypeOK, tables, Ledger!vars
  <2>1. ASSUME rows' = rows, ledger' = ledger PROVE UNCHANGED Ledger!vars
    BY <2>1
  <2>2. ASSUME NEW r \in Runs, InsertRow(r)
        PROVE  Ledger!Begin(r) \/ UNCHANGED Ledger!vars
    <3>1. rows[r].status = "none"
      BY <2>2 DEF InsertRow, Control, RowFollowsRun
    <3>2. \/ rows' = rows
          \/ /\ rows'[r].status = "running"
             /\ \A q \in Runs \ {r} : rows'[q].status = rows[q].status
      BY <2>2 DEF InsertRow
    <3> QED
      BY <2>2, <3>1, <3>2 DEF InsertRow, Ledger!Begin
  <2>3. ASSUME NEW r \in Runs, Bind(r) PROVE UNCHANGED Ledger!vars
    <3>1. rows' = rows \/ rows' = [rows EXCEPT ![r].model = run[r].model]
      BY <2>3 DEF Bind
    <3>2. \A q \in Runs : rows'[q].status = rows[q].status
      BY <3>1 DEF Rows
    <3> QED
      BY <2>3, <3>2 DEF Bind
  <2>4. ASSUME NEW r \in Runs, Block(r) PROVE Ledger!End(r, "blocked")
    <3>1. rows[r].status = "running" /\ WrittenBy(r) = {}
      BY <2>4 DEF Block, Control, RowFollowsRun, Held, Accounts, NothingWrittenYet
    <3>2. \A k \in EvaluationKeys : ledger[k] # r
      BY <3>1 DEF WrittenBy
    <3> QED
      BY <2>4, <3>1, <3>2 DEF Block, Ledger!End, Rows
  <2>5. ASSUME NEW r \in Runs, Finish(r)
        PROVE  \E s \in {"success", "partial"} : Ledger!End(r, s)
    <3>1. rows[r].status = "running"
      BY <2>5 DEF Finish, Control, RowFollowsRun, Held, Evaluating
    <3> QED
      BY <2>5, <3>1 DEF Finish, Ledger!End, Rows
  <2>6. ASSUME NEW r \in Runs, Evaluate(r)
        PROVE  \/ \E k \in EvaluationKeys : Ledger!Record(r, k)
               \/ UNCHANGED Ledger!vars
    <3>1. rows[r].status = "running"
      BY <2>6 DEF Evaluate, Control, RowFollowsRun, Held, Evaluating
    <3>2. \A q \in Runs : rows'[q].status = rows[q].status
      <4>1. rows' = rows \/ rows' = [rows EXCEPT ![r].examined = @ + 1]
        BY <2>6 DEF Evaluate
      <4> QED
        BY <4>1 DEF Rows
    <3> QED
      BY <2>6, <3>1, <3>2, EvaluateWrites DEF Ledger!Record
  <2>7. ASSUME NEW r \in Runs,
               Hint(r) \/ Resolve(r) \/ List(r) \/ EvaluateRaises(r)
               \/ AdvanceWatermark(r) \/ Die(r)
        PROVE  rows' = rows /\ ledger' = ledger
    BY <2>7 DEF Hint, Resolve, List, EvaluateRaises, AdvanceWatermark, Die
  <2>8. CASE Rematerialize \/ ChangeChampion \/ UNCHANGED vars
    BY <2>1, <2>8 DEF Rematerialize, ChangeChampion, vars
  <2>9. {"success", "partial", "blocked"} = Ledger!Ends
    BY DEF Ledger!Ends
  <2> QED
    BY <2>1, <2>2, <2>3, <2>4, <2>5, <2>6, <2>7, <2>8, <2>9
       DEF Next, RunStep, Ledger!Next
<1>3. QED
  BY <1>1, <1>2, TypeCorrect, ControlHolds, AccountsHold, PTL
     DEF Spec, LedgerSpec, Ledger!Spec

(***************************************************************************)
(* What a successful backfill leaves behind.  As long as none of its       *)
(* evaluations raised, whatever is still pending once the listing came out *)
(* short is either in the batch or was rewritten since; and the contents   *)
(* in the batch are the present ones, except of windows rewritten since.   *)
(***************************************************************************)
Batched(r) == {item.window : item \in run[r].batch}

BatchPresent(r) ==
  \A item \in run[r].batch :
    item.window \in touched[r] \/ feature[item.window] = item.hash

BatchWorkedThrough(r) == run[r].pc # "evaluate" => run[r].batch = {}

Uncounted(r) == r \in Backfills => run[r].processed = 0

LastBatch(r) ==
  \/ run[r].pc = "finish"
  \/ run[r].pc \in {"evaluate", "watermark"} /\ run[r].short

RestIsBatched(r) ==
  r \in Backfills /\ LastBatch(r) /\ ~run[r].error
  => Pending(run[r].policy, run[r].model) \subseteq Batched(r) \cup touched[r]

Covers(r) ==
  BatchPresent(r) /\ BatchWorkedThrough(r) /\ Uncounted(r) /\ RestIsBatched(r)

Coverage == \A r \in Runs : Covers(r)

LEMMA LeastWindow ==
  ASSUME NEW S \in SUBSET Nat, S # {}
  PROVE  \E w \in S : \A v \in S : w <= v
<1> DEFINE R == OpToRel(<, Nat)
<1>1. \A v, w \in Nat : v < w => <<v, w>> \in R
  BY DEF OpToRel
<1>2. IsWellFoundedOn(R, Nat)
  BY NatLessThanWellFounded
<1>3. \E w \in S : \A v \in S : <<v, w>> \notin R
  <2> HIDE DEF R
  <2> QED
    BY <1>2, WFMin
<1>4. PICK w \in S : \A v \in S : <<v, w>> \notin R
  BY <1>3
<1>5. ASSUME NEW v \in S PROVE w <= v
  <2>1. ~(v < w)
    BY <1>1, <1>4
  <2>2. v \in Nat /\ w \in Nat
    OBVIOUS
  <2> QED
    BY <2>1, <2>2
<1> QED
  BY <1>5

\* A listing shorter than its limit lists everything.
LEMMA ShortListing ==
  ASSUME NEW S \in SUBSET Windows, NEW n \in Nat, Cardinality(FirstOf(S, n)) < n
  PROVE  FirstOf(S, n) = S
<1> DEFINE F == FirstOf(S, n)
<1>1. SUFFICES ASSUME S \ F # {} PROVE FALSE
  BY DEF FirstOf
<1>2. S \in SUBSET Nat /\ IsFiniteSet(S)
  <2>1. WindowCount \in Nat /\ Windows \subseteq Nat
    BY RunAssumption DEF Windows
  <2>2. IsFiniteSet(Windows)
    BY <2>1, FS_Interval DEF Windows
  <2> QED
    BY <2>1, <2>2, FS_Subset
<1>3. PICK w \in S \ F : \A v \in S \ F : w <= v
  <2> HIDE DEF F
  <2> QED
    BY <1>1, <1>2, LeastWindow
<1>4. {v \in S : v < w} \subseteq F
  <2> HIDE DEF F
  <2> SUFFICES ASSUME NEW v \in S, v < w, v \notin F PROVE FALSE
    OBVIOUS
  <2>1. w <= v
    BY <1>3
  <2>2. v \in Nat /\ w \in Nat
    BY <1>2, <1>3
  <2> QED
    BY <2>1, <2>2
<1>5. IsFiniteSet(F) /\ Cardinality(F) \in Nat
  BY <1>2, FS_Subset, FS_CardinalityType DEF FirstOf
<1>6. /\ Cardinality({v \in S : v < w}) <= Cardinality(F)
      /\ Cardinality({v \in S : v < w}) \in Nat
  <2> HIDE DEF F
  <2> QED
    BY <1>4, <1>5, FS_Subset, FS_CardinalityType
<1>7. Cardinality({v \in S : v < w}) < n
  BY <1>5, <1>6
<1> QED
  BY <1>3, <1>7 DEF FirstOf

\* No entry of the ledger is withdrawn, so no window becomes pending by it.
LEMMA LedgerGrows ==
  ASSUME TypeOK, [Next]_vars
  PROVE  \A k \in EvaluationKeys : ledger[k] # NoRun => ledger'[k] # NoRun
<1>1. ASSUME NEW r \in Runs, Evaluate(r)
      PROVE  \A k \in EvaluationKeys : ledger[k] # NoRun => ledger'[k] # NoRun
  <2>1. ledger \in [EvaluationKeys -> Runs \cup {NoRun}]
    BY DEF TypeOK
  <2> QED
    BY <1>1, <2>1, EvaluateWrites
<1>2. (\E r \in Runs : Evaluate(r)) \/ ledger' = ledger
  BY DEF Next, RunStep, Hint, InsertRow, Resolve, Bind, Block, List,
         EvaluateRaises, AdvanceWatermark, Finish, Die, Rematerialize,
         ChangeChampion, vars, tables
<1> QED
  BY <1>1, <1>2

\* Without a change of the windows' contents nothing becomes pending.
LEMMA PendingShrinks ==
  ASSUME TypeOK, [Next]_vars, feature' = feature,
         NEW policy \in Policies, NEW model \in Identities
  PROVE  Pending(policy, model)' \subseteq Pending(policy, model)
<1> SUFFICES ASSUME NEW w \in Windows, feature[w] # 0,
                    ledger'[Key(w, feature[w], policy, model)] = NoRun
             PROVE  ledger[Key(w, feature[w], policy, model)] = NoRun
  BY DEF Pending
<1>1. feature[w] \in 1..Hashes
  BY RunAssumption DEF TypeOK
<1>2. Key(w, feature[w], policy, model) \in EvaluationKeys
  BY <1>1 DEF Key, EvaluationKeys
<1> QED
  BY <1>2, LedgerGrows

\* What a run knows stays true while others evaluate.
LEMMA OthersCover ==
  ASSUME TypeOK, [Next]_vars, NEW r \in Runs, Covers(r), feature' = feature,
         run'[r] = run[r], touched'[r] = touched[r]
  PROVE  Covers(r)'
<1>1. run[r].policy \in Policies /\ run[r].model \in Identities
  BY DEF TypeOK, Memory
<1>2. \A p \in Policies, m \in Identities : Pending(p, m)' \subseteq Pending(p, m)
  BY PendingShrinks
<1>3. Pending(run[r].policy, run[r].model)' \subseteq Pending(run[r].policy, run[r].model)
  BY <1>1, <1>2 DEF Pending
<1> QED
  BY <1>3 DEF Covers, BatchPresent, BatchWorkedThrough, Uncounted, LastBatch,
              RestIsBatched, Batched

\* A run without a batch that has not yet listed a last one claims nothing.
LEMMA IdleCovers ==
  ASSUME NEW r \in Runs,
         run'[r].pc \notin {"evaluate", "watermark", "finish"},
         run'[r].batch = {}, r \in Backfills => run'[r].processed = 0
  PROVE  Covers(r)'
BY DEF Covers, BatchPresent, BatchWorkedThrough, Uncounted, LastBatch, RestIsBatched

\* A short listing of a backfill leaves nothing pending outside its batch, and
\* an empty one is short.
LEMMA ListCovers ==
  ASSUME TypeOK, NEW r \in Runs, Covers(r), List(r)
  PROVE  Covers(r)'
<1> DEFINE P == Pending(run[r].policy, run[r].model)
           S == FirstOf(P, Limit(r))
<1>1. run[r] \in Memory /\ run'[r] =
        [run[r] EXCEPT !.pc = IF S = {} THEN "finish" ELSE "evaluate",
                       !.batch = Listed(S),
                       !.short = Cardinality(S) < Limit(r)]
  BY DEF TypeOK, List
<1>2. /\ run'[r].pc = IF S = {} THEN "finish" ELSE "evaluate"
      /\ run'[r].batch = Listed(S)
      /\ run'[r].short = (Cardinality(S) < Limit(r))
      /\ run'[r].policy = run[r].policy /\ run'[r].model = run[r].model
      /\ run'[r].processed = run[r].processed
  <2> HIDE DEF S
  <2> QED
    BY <1>1 DEF Memory
<1>3. feature' = feature /\ ledger' = ledger
  BY DEF List, tables
<1>4. BatchPresent(r)'
  BY <1>2, <1>3 DEF BatchPresent, Listed
<1>5. BatchWorkedThrough(r)'
  BY <1>2 DEF BatchWorkedThrough, Listed
<1>6. Uncounted(r)'
  BY <1>2 DEF Covers, Uncounted
<1>7. ASSUME r \in Backfills, LastBatch(r)'
      PROVE  Pending(run[r].policy, run[r].model)' \subseteq Batched(r)'
  <2>1. Limit(r) = BatchSize /\ BatchSize \in Nat \ {0}
    BY <1>7, RunAssumption DEF Limit
  <2>2. Cardinality(S) < Limit(r)
    <3>1. CASE S = {}
      BY <2>1, <3>1, FS_EmptySet
    <3>2. CASE S # {}
      BY <1>2, <1>7, <3>2 DEF LastBatch
    <3> QED
      BY <3>1, <3>2
  <2>3. P \in SUBSET Windows
    BY DEF Pending
  <2>4. S = P
    <3> HIDE DEF P
    <3> QED
      BY <2>1, <2>2, <2>3, ShortListing
  <2>5. Batched(r)' = S
    <3> HIDE DEF S
    <3>1. Batched(r)' = {item.window : item \in Listed(S)}
      BY <1>2, <1>3 DEF Batched, Listed
    <3>2. \A w \in S : /\ [window |-> w, hash |-> feature[w]] \in Listed(S)
                       /\ [window |-> w, hash |-> feature[w]].window = w
      BY DEF Listed
    <3>3. \A item \in Listed(S) : item.window \in S
      BY DEF Listed
    <3> QED
      BY <3>1, <3>2, <3>3
  <2>6. Pending(run[r].policy, run[r].model)' = P
    BY <1>2, <1>3 DEF Pending
  <2> QED
    BY <2>4, <2>5, <2>6
<1>8. RestIsBatched(r)'
  BY <1>7 DEF RestIsBatched
<1> QED
  BY <1>4, <1>5, <1>6, <1>8 DEF Covers

\* A window leaves the batch evaluated, rewritten, or with an error.
LEMMA ConsumeCovers ==
  ASSUME TypeOK, [Next]_vars, NEW r \in Runs, Covers(r), run[r].pc = "evaluate",
         NEW item \in run[r].batch, NEW failed \in BOOLEAN,
         Consume(r, item, failed),
         feature' = feature, touched' = touched,
         \/ failed
         \/ ledger'[Key(item.window, item.hash, run[r].policy, run[r].model)] # NoRun
  PROVE  Covers(r)'
<1>1. run[r] \in Memory
  BY DEF TypeOK
<1>2. /\ run'[r].pc = IF run[r].batch = {item} THEN "watermark" ELSE "evaluate"
      /\ run'[r].batch = run[r].batch \ {item}
      /\ run'[r].short = run[r].short
      /\ run'[r].policy = run[r].policy /\ run'[r].model = run[r].model
      /\ r \in Backfills => run'[r].processed = run[r].processed
      /\ run'[r].error = (run[r].error \/ failed)
  <2>1. run \in [Runs -> Memory]
    BY DEF TypeOK
  <2> QED
    BY <1>1, <2>1 DEF Consume, Memory
<1>3. BatchPresent(r)'
  BY <1>2 DEF Covers, BatchPresent
<1>4. BatchWorkedThrough(r)'
  BY <1>2 DEF BatchWorkedThrough
<1>5. Uncounted(r)'
  BY <1>2 DEF Covers, Uncounted
<1>6. ASSUME r \in Backfills, LastBatch(r)', ~run'[r].error,
             NEW w \in Pending(run[r].policy, run[r].model)', w \notin touched[r]
      PROVE  w \in Batched(r)'
  <2>1. ~failed /\ ~run[r].error /\ LastBatch(r)
    BY <1>2, <1>6 DEF LastBatch
  <2>2. \A p \in Policies, m \in Identities :
          Pending(p, m)' \subseteq Pending(p, m)
    BY PendingShrinks
  <2>3. w \in Pending(run[r].policy, run[r].model)
    BY <1>1, <1>2, <1>6, <2>2 DEF Memory, Pending
  <2>4. PICK other \in run[r].batch : other.window = w
    BY <1>6, <2>1, <2>3 DEF Covers, RestIsBatched, Batched
  <2>5. other # item
    <3> SUFFICES ASSUME other = item PROVE FALSE
      OBVIOUS
    <3>1. feature[w] = item.hash
      BY <1>6, <2>4 DEF Covers, BatchPresent
    <3>2. ledger'[Key(w, feature[w], run[r].policy, run[r].model)] = NoRun
      BY <1>2, <1>6 DEF Pending
    <3> QED
      BY <2>1, <2>4, <3>1, <3>2
  <2> QED
    BY <1>2, <2>4, <2>5 DEF Batched
<1>7. RestIsBatched(r)'
  BY <1>6 DEF RestIsBatched
<1> QED
  BY <1>3, <1>4, <1>5, <1>7 DEF Covers

LEMMA EvaluateCovers ==
  ASSUME TypeOK, [Next]_vars, NEW r \in Runs, Covers(r),
         Evaluate(r) \/ EvaluateRaises(r)
  PROVE  Covers(r)'
<1>1. CASE Evaluate(r)
  <2>1. PICK item \in run[r].batch :
          LET k == Key(item.window, item.hash, run[r].policy, run[r].model)
          IN  /\ IF ledger[k] = NoRun
                   THEN /\ ledger' = [ledger EXCEPT ![k] = r]
                        /\ rows' = [rows EXCEPT ![r].examined = @ + 1]
                   ELSE UNCHANGED <<ledger, rows>>
              /\ Consume(r, item, FALSE)
    BY <1>1 DEF Evaluate
  <2>2. /\ item \in Items /\ run[r].policy \in Policies
        /\ run[r].model \in Identities
        /\ ledger \in [EvaluationKeys -> Runs \cup {NoRun}]
    BY DEF TypeOK, Memory
  <2>3. Key(item.window, item.hash, run[r].policy, run[r].model) \in EvaluationKeys
    BY <2>2 DEF Key, EvaluationKeys, Items
  <2>4. ledger'[Key(item.window, item.hash, run[r].policy, run[r].model)] # NoRun
    BY <2>1, <2>2, <2>3, RunAssumption
  <2>5. run[r].pc = "evaluate" /\ feature' = feature /\ touched' = touched
    BY <1>1 DEF Evaluate
  <2> QED
    BY <2>1, <2>4, <2>5, ConsumeCovers
<1>2. CASE EvaluateRaises(r)
  <2>1. PICK item \in run[r].batch : Consume(r, item, TRUE)
    BY <1>2 DEF EvaluateRaises
  <2>2. run[r].pc = "evaluate" /\ feature' = feature /\ touched' = touched
    BY <1>2 DEF EvaluateRaises, tables
  <2> QED
    BY <2>1, <2>2, ConsumeCovers
<1> QED
  BY <1>1, <1>2

\* A backfill, which no max_windows stops, ends behind a short batch only.
LEMMA WatermarkCovers ==
  ASSUME TypeOK, NEW r \in Runs, Covers(r), AdvanceWatermark(r)
  PROVE  Covers(r)'
<1>1. run \in [Runs -> Memory]
  BY DEF TypeOK
<1>2. /\ run[r].pc = "watermark"
      /\ run'[r].pc = IF run[r].short \/ run[r].processed >= MaxWindows
                        THEN "finish" ELSE "list"
      /\ run'[r].batch = run[r].batch /\ run'[r].processed = run[r].processed
      /\ run'[r].policy = run[r].policy /\ run'[r].model = run[r].model
      /\ run'[r].error = run[r].error
  BY <1>1 DEF AdvanceWatermark, Goto, Memory
<1>3. feature' = feature /\ ledger' = ledger /\ touched' = touched
  BY DEF AdvanceWatermark
<1>4. run[r].batch = {} /\ (r \in Backfills => run[r].processed = 0)
  BY <1>2 DEF Covers, BatchWorkedThrough, Uncounted
<1>5. r \in Backfills /\ run'[r].pc = "finish" => run[r].short
  BY <1>2, <1>4, RunAssumption
<1>6. CASE run'[r].pc = "list"
  BY <1>2, <1>4, <1>6, IdleCovers
<1>7. CASE run'[r].pc = "finish"
  <2>1. Pending(run[r].policy, run[r].model)' = Pending(run[r].policy, run[r].model)
    BY <1>2, <1>3 DEF Pending
  <2>2. RestIsBatched(r)'
    BY <1>2, <1>3, <1>5, <2>1 DEF Covers, RestIsBatched, LastBatch, Batched
  <2>3. BatchPresent(r)' /\ BatchWorkedThrough(r)' /\ Uncounted(r)'
    BY <1>2, <1>4 DEF BatchPresent, BatchWorkedThrough, Uncounted
  <2> QED
    BY <2>2, <2>3 DEF Covers
<1> QED
  BY <1>2, <1>6, <1>7

\* A window that is rewritten is noted for every run that is evaluating.
LEMMA RematerializeCovers ==
  ASSUME TypeOK, NEW r \in Runs, Covers(r), Rematerialize
  PROVE  Covers(r)'
<1>1. PICK w \in Windows, h \in 0..Hashes :
        /\ feature' = [feature EXCEPT ![w] = h]
        /\ touched' = [q \in Runs |-> IF Evaluating(q) THEN touched[q] \cup {w}
                                                     ELSE touched[q]]
  BY DEF Rematerialize
<1>2. run' = run /\ ledger' = ledger /\ feature \in [Windows -> 0..Hashes]
  BY DEF Rematerialize, TypeOK
<1>3. \A v \in Windows \ {w} : feature'[v] = feature[v]
  BY <1>1, <1>2
<1>4. /\ touched[r] \subseteq touched'[r]
      /\ Evaluating(r) => w \in touched'[r]
  BY <1>1
<1>5. run[r].batch \subseteq Items
  BY DEF TypeOK, Memory
<1>6. BatchPresent(r)'
  <2> SUFFICES ASSUME NEW item \in run[r].batch, item.window \notin touched'[r]
               PROVE  feature'[item.window] = item.hash
    BY <1>2 DEF BatchPresent
  <2>1. Evaluating(r)
    BY DEF Covers, BatchWorkedThrough, Evaluating
  <2>2. item.window \in Windows \ {w} /\ item.window \notin touched[r]
    BY <1>4, <1>5, <2>1 DEF Items
  <2> QED
    BY <1>3, <2>2 DEF Covers, BatchPresent
<1>7. RestIsBatched(r)'
  <2> SUFFICES ASSUME r \in Backfills, LastBatch(r), ~run[r].error,
                      NEW v \in Pending(run[r].policy, run[r].model)',
                      v \notin touched'[r]
               PROVE  v \in Batched(r)
    BY <1>2 DEF RestIsBatched, LastBatch, Batched
  <2>1. Evaluating(r)
    BY DEF LastBatch, Evaluating
  <2>2. v \in Windows \ {w} /\ v \notin touched[r]
    BY <1>4, <2>1 DEF Pending
  <2>3. v \in Pending(run[r].policy, run[r].model)
    BY <1>2, <1>3, <2>2 DEF Pending
  <2> QED
    BY <2>2, <2>3 DEF Covers, RestIsBatched
<1> QED
  BY <1>2, <1>6, <1>7 DEF Covers, BatchWorkedThrough, Uncounted

LEMMA CoverageHolds == Spec => []Coverage
<1>1. Init => Coverage
  BY RunAssumption DEF Init, Fresh, Coverage, Covers, BatchPresent,
     BatchWorkedThrough, Uncounted, LastBatch, RestIsBatched
<1>2. TypeOK /\ Coverage /\ [Next]_vars => Coverage'
  <2> SUFFICES ASSUME TypeOK, Coverage, [Next]_vars PROVE Coverage'
    OBVIOUS
  <2>1. \A r \in Runs : Covers(r)
    BY DEF Coverage
  <2>2. \A r \in Runs : run[r] \in Memory /\ run \in [Runs -> Memory]
    BY DEF TypeOK
  <2>3. ASSUME NEW r \in Runs, RunStep(r) \/ Die(r)
        PROVE  /\ feature' = feature
               /\ \A q \in Runs \ {r} : run'[q] = run[q] /\ touched'[q] = touched[q]
    <3>1. touched \in [Runs -> SUBSET Windows]
      BY DEF TypeOK
    <3>2. run \in [Runs -> Memory]
      BY DEF TypeOK
    <3>3. CASE Hint(r) \/ InsertRow(r) \/ Resolve(r) \/ Bind(r)
      BY <3>2, <3>3 DEF Hint, InsertRow, Resolve, Bind, Goto, Return, tables
    <3>4. CASE Block(r) \/ Finish(r) \/ Die(r)
      BY <3>1, <3>2, <3>4 DEF Block, Finish, Die, Return, tables
    <3>5. CASE List(r) \/ AdvanceWatermark(r)
      BY <3>1, <3>2, <3>5 DEF List, AdvanceWatermark, Goto, tables
    <3>6. CASE Evaluate(r) \/ EvaluateRaises(r)
      <4>1. /\ feature' = feature /\ touched' = touched
            /\ \E item \in run[r].batch, failed \in BOOLEAN : Consume(r, item, failed)
        BY <3>6 DEF Evaluate, EvaluateRaises, tables
      <4> QED
        BY <3>2, <4>1 DEF Consume
    <3> QED
      BY <2>3, <3>3, <3>4, <3>5, <3>6 DEF RunStep
  <2>4. ASSUME NEW r \in Runs, RunStep(r) \/ Die(r) PROVE Covers(r)'
    <3>1. ASSUME Hint(r) \/ InsertRow(r) \/ Resolve(r) \/ Bind(r) PROVE Covers(r)'
      <4>1. run[r].batch = {} /\ (r \in Backfills => run[r].processed = 0)
        BY <2>1, <3>1 DEF Covers, BatchWorkedThrough, Uncounted, Hint, InsertRow,
           Resolve, Bind
      <4>2. /\ run'[r].pc \in PCs \ {"evaluate", "watermark", "finish"}
            /\ run'[r].batch = {}
            /\ run'[r].processed \in {run[r].processed, 0}
        <5>1. CASE Hint(r)
          BY <2>2, <4>1, <5>1 DEF Hint, PCs, Memory
        <5>2. CASE InsertRow(r)
          BY <2>2, <4>1, <5>2 DEF InsertRow, Goto, Return, Fresh, PCs, Memory
        <5>3. CASE Resolve(r)
          BY <2>2, <4>1, <5>3 DEF Resolve, Goto, PCs, Memory
        <5>4. CASE Bind(r)
          BY <2>2, <4>1, <5>4 DEF Bind, Goto, PCs, Memory
        <5> QED
          BY <3>1, <5>1, <5>2, <5>3, <5>4
      <4> QED
        BY <4>1, <4>2, IdleCovers
    <3>2. ASSUME Block(r) \/ Finish(r) \/ Die(r) PROVE Covers(r)'
      <4>1. run'[r].pc \in {"done", "dead"} /\ run'[r].batch = {} /\ run'[r].processed = 0
        BY <2>2, <3>2 DEF Block, Finish, Die, Return, Fresh
      <4> QED
        BY <4>1, IdleCovers
    <3>3. ASSUME List(r) PROVE Covers(r)'
      BY <2>1, <3>3, ListCovers
    <3>4. ASSUME Evaluate(r) \/ EvaluateRaises(r) PROVE Covers(r)'
      BY <2>1, <3>4, EvaluateCovers
    <3>5. ASSUME AdvanceWatermark(r) PROVE Covers(r)'
      BY <2>1, <3>5, WatermarkCovers
    <3> QED
      BY <2>4, <3>1, <3>2, <3>3, <3>4, <3>5 DEF RunStep
  <2>5. ASSUME NEW r \in Runs, RunStep(r) \/ Die(r) PROVE Coverage'
    BY <2>1, <2>3, <2>4, <2>5, OthersCover DEF Coverage
  <2>6. CASE Rematerialize
    BY <2>1, <2>6, RematerializeCovers DEF Coverage
  <2>7. CASE ChangeChampion \/ UNCHANGED vars
    <3>1. feature' = feature /\ run' = run /\ touched' = touched
      BY <2>7 DEF ChangeChampion, vars, tables
    <3> QED
      BY <2>1, <3>1, OthersCover DEF Coverage
  <2> QED
    BY <2>5, <2>6, <2>7 DEF Next
<1>3. QED
  BY <1>1, <1>2, TypeCorrect, PTL DEF Spec

\* A backfill that reports success leaves no window pending that it could see,
\* unless a materializer rewrote the window since the backfill last listed:
\* neither the batches, nor the runs it raced, nor the loop's end hide one.
THEOREM BackfillsCoverWindows == Spec => SuccessCoversWindows
<1>1. TypeOK /\ Coverage /\ [Next]_vars
      => [\A r \in Backfills :
            rows'[r].status = "success" /\ rows[r].status # "success"
            => Pending(run[r].policy, run[r].model) \subseteq touched[r]]_vars
  <2> SUFFICES ASSUME TypeOK, Coverage, Next, NEW r \in Backfills,
                      rows'[r].status = "success", rows[r].status # "success"
               PROVE  Pending(run[r].policy, run[r].model) \subseteq touched[r]
    BY DEF vars, tables
  <2>1. r \in Runs /\ rows \in [Runs -> Rows]
    BY RunAssumption DEF TypeOK
  <2>2. Finish(r)
    <3>1. \/ rows' = rows
          \/ \E q \in Runs :
               \/ InsertRow(q) \/ Bind(q) \/ Block(q) \/ Evaluate(q) \/ Finish(q)
      BY DEF Next, RunStep, Hint, Resolve, List, EvaluateRaises,
             AdvanceWatermark, Die, Rematerialize, ChangeChampion, tables
    <3>2. PICK q \in Runs :
               \/ InsertRow(q) \/ Bind(q) \/ Block(q) \/ Evaluate(q) \/ Finish(q)
      BY <3>1
    <3>3. q = r
      BY <2>1, <3>2 DEF InsertRow, Bind, Block, Evaluate, Finish
    <3>4. ~(InsertRow(r) \/ Bind(r) \/ Block(r) \/ Evaluate(r))
      <4>1. ~InsertRow(r)
        BY <2>1 DEF InsertRow
      <4>2. ~Block(r)
        BY <2>1 DEF Block, Rows
      <4>3. ~Bind(r)
        BY <2>1 DEF Bind, Rows
      <4>4. ~Evaluate(r)
        BY <2>1, EvaluateWrites DEF Rows
      <4> QED
        BY <4>1, <4>2, <4>3, <4>4
    <3> QED
      BY <3>2, <3>3, <3>4
  <2>3. run[r].pc = "finish" /\ ~run[r].error
    BY <2>1, <2>2 DEF Finish, Rows
  <2>4. Covers(r)
    BY <2>1 DEF Coverage
  <2>5. Batched(r) = {}
    BY <2>3, <2>4 DEF Covers, BatchWorkedThrough, Batched
  <2> QED
    BY <2>3, <2>4, <2>5 DEF Covers, RestIsBatched, LastBatch
<1> QED
  BY <1>1, TypeCorrect, CoverageHolds, PTL DEF Spec, SuccessCoversWindows

=============================================================================
