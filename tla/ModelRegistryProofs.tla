-------------------------- MODULE ModelRegistryProofs --------------------------
(***************************************************************************)
(* Proofs about ModelRegistry, for any trainings, families and operators:  *)
(* trainings of a profile do not overlap, its champion is unique and       *)
(* usable, a failed training leaves nothing behind, and the audit history  *)
(* names the champion.                                                     *)
(***************************************************************************)
EXTENDS ModelRegistry, SequenceTheorems, TLAPS

\* A training in progress has the only running row.
RunsInv ==
  /\ \A t \in Trainings :
       /\ pc[t] = "new" => runs[t] = "none"
       /\ pc[t] \in {"training", "bundled", "registered"} => runs[t] = "running"
       /\ pc[t] \notin {"new", "done"} => runs[t] \in {"running", "success"}
  /\ \A t, u \in Trainings : runs[t] = "running" /\ runs[u] = "running" => t = u

\* What a training leaves at the places of its cleanup.
Cleaned(t, S) == ModelsOf(t) \cap S = {}

CleanupInv ==
  \A t \in Trainings :
    /\ pc[t] \in {"cleanBundles", "cleanRun"} \/ runs[t] = "failed" =>
         Cleaned(t, Registered) /\ Cleaned(t, verified) /\ Cleaned(t, evaluated)
    /\ pc[t] = "cleanRun" \/ runs[t] = "failed" => Cleaned(t, bundles)

\* A row has its bundle; a finalized row belongs to a successful run.
RowsInv ==
  /\ Registered \subseteq bundles
  /\ evaluated \subseteq Registered
  /\ verified \subseteq evaluated
  /\ \A m \in verified : runs[m[1]] = "success"

\* A call that passed its verification is about a finalized model, or about one
\* that has been deleted since.
CallsInv ==
  \A c \in Callers : call[c].pc \in {"lookup", "swap", "write"} =>
    /\ runs[call[c].model[1]] \in {"success", "failed"}
    /\ call[c].model \in Registered => call[c].model \in verified

ChampionInv ==
  /\ Champions \subseteq verified
  /\ \A m, n \in Champions : m = n

Inv == /\ TypeOK /\ RunsInv /\ CleanupInv /\ RowsInv /\ CallsInv
       /\ ChampionInv /\ AuditNamesChampion

-----------------------------------------------------------------------------
\* The models of different trainings are different.
LEMMA ModelsOfTrainings ==
  /\ \A m \in Models : m[1] \in Trainings /\ m \in ModelsOf(m[1])
  /\ \A t \in Trainings : ModelsOf(t) \subseteq Models
  /\ \A t \in Trainings : \A m \in ModelsOf(t) : m[1] = t
BY DEF Models, ModelsOf

\* What a row appended to the audit history does to those it has crowned.
LEMMA CrownedAppend ==
  ASSUME audit \in Seq(Audits), NEW row \in Audits, audit' = Append(audit, row),
         NEW m \in Models
  PROVE  Crowned(m)' <=> row.new = m \/ (Crowned(m) /\ row.previous # m)
<1> DEFINE n == Len(audit)
<1>1. /\ n \in Nat /\ DOMAIN audit = 1 .. n /\ DOMAIN audit' = 1 .. (n + 1)
      /\ \A i \in 1 .. n : audit'[i] = audit[i]
      /\ audit'[n + 1] = row
  BY AppendProperties, LenProperties
<1> HIDE DEF n
<1>2. Crowned(m)' <=> \E i \in 1 .. (n + 1) :
                        /\ audit'[i].new = m
                        /\ \A j \in 1 .. (n + 1) : j > i => audit'[j].previous # m
  BY <1>1 DEF Crowned
<1>3. Crowned(m) <=> \E i \in 1 .. n :
                       /\ audit[i].new = m
                       /\ \A j \in 1 .. n : j > i => audit[j].previous # m
  BY <1>1 DEF Crowned
<1>4. ASSUME row.new = m PROVE Crowned(m)'
  BY <1>1, <1>2, <1>4
<1>5. ASSUME Crowned(m), row.previous # m PROVE Crowned(m)'
  <2>1. PICK i \in 1 .. n : /\ audit[i].new = m
                            /\ \A j \in 1 .. n : j > i => audit[j].previous # m
    BY <1>3, <1>5
  <2>2. \A j \in 1 .. (n + 1) : j > i => audit'[j].previous # m
    BY <1>1, <1>5, <2>1
  <2> QED
    BY <1>1, <1>2, <2>1, <2>2
<1>6. ASSUME Crowned(m)', row.new # m PROVE Crowned(m) /\ row.previous # m
  <2>1. PICK i \in 1 .. (n + 1) :
               /\ audit'[i].new = m
               /\ \A j \in 1 .. (n + 1) : j > i => audit'[j].previous # m
    BY <1>2, <1>6
  <2>2. i \in 1 .. n
    BY <1>1, <1>6, <2>1
  <2>3. row.previous # m
    BY <1>1, <2>1, <2>2
  <2>4. \A j \in 1 .. n : j > i => audit[j].previous # m
    BY <1>1, <2>1
  <2> QED
    BY <1>1, <1>3, <2>1, <2>2, <2>3, <2>4
<1> QED
  BY <1>4, <1>5, <1>6

-----------------------------------------------------------------------------
(***************************************************************************)
(* Steps.                                                                  *)
(***************************************************************************)
\* Every variable keeps its type.
LEMMA TypeStep == TypeOK /\ [Next]_vars => TypeOK'
<1> SUFFICES ASSUME TypeOK, [Next]_vars PROVE TypeOK'
  OBVIOUS
<1> USE DEF TypeOK, Goto, Return, Idle, PCs
<1>1. CASE UNCHANGED vars
  BY <1>1 DEF vars, tables
<1>2. ASSUME NEW t \in Trainings, Start(t) \/ CreateBundle(t) \/ EvaluateModel(t)
                                    \/ Finalize(t)
      PROVE  TypeOK'
  <2>1. CASE Start(t)
    BY <2>1 DEF Start
  <2>2. CASE CreateBundle(t)
    BY <2>2, ModelsOfTrainings DEF CreateBundle, tables
  <2>3. CASE EvaluateModel(t)
    BY <2>3, ModelsOfTrainings DEF EvaluateModel
  <2>4. CASE Finalize(t)
    BY <2>4, ModelsOfTrainings DEF Finalize
  <2> QED
    BY <1>2, <2>1, <2>2, <2>3, <2>4
<1>3. ASSUME NEW t \in Trainings, RegisterModel(t)
      PROVE  TypeOK'
  BY <1>3, ModelsOfTrainings DEF RegisterModel, Lifecycle
<1>4. ASSUME NEW t \in Trainings, VerifyCandidates(t) \/ Raise(t)
                                    \/ CleanBundles(t) \/ CleanRun(t) \/ Die(t)
      PROVE  TypeOK'
  BY <1>4 DEF VerifyCandidates, Raise, CleanBundles, CleanRun, Die, tables
<1>5. ASSUME NEW t \in Trainings, RecommendBest(t)
      PROVE  TypeOK'
  <2>1. pc' \in [Trainings -> PCs]
    BY <1>5 DEF RecommendBest, Recommendable
  <2>2. call' \in [Callers -> Calls \cup {Idle}]
    BY <1>5, ModelsOfTrainings DEF RecommendBest, Recommendable, Calls, Callers, Actions
  <2>3. models' \in [Models -> Lifecycle \cup {"none"}]
    BY <1>5 DEF RecommendBest, Recommendable, SetStatus, Lifecycle
  <2>4. unlogged' \subseteq Models
    BY <1>5, ModelsOfTrainings DEF RecommendBest, Recommendable
  <2> QED
    BY <1>5, <2>1, <2>2, <2>3, <2>4 DEF RecommendBest, Recommendable
<1>6. ASSUME NEW t \in Trainings, CleanRows(t)
      PROVE  TypeOK'
  BY <1>6, ModelsOfTrainings DEF CleanRows
<1>7. ASSUME NEW t \in Trainings, Check(t)
      PROVE  TypeOK'
  <2>1. call' \in [Callers -> Calls \cup {Idle}]
    BY <1>7 DEF Check, Calls, Callers
  <2> QED
    BY <1>7, <2>1 DEF Check, tables
<1>8. ASSUME NEW o \in Operators, Request(o)
      PROVE  TypeOK'
  <2>1. call' \in [Callers -> Calls \cup {Idle}]
    BY <1>8 DEF Request, Calls, Callers
  <2> QED
    BY <1>8, <2>1 DEF Request, tables
<1>9. ASSUME NEW c \in Callers, Verify(c) \/ GiveUp(c)
      PROVE  TypeOK'
  <2>1. call' \in [Callers -> Calls \cup {Idle}]
    BY <1>9 DEF Verify, GiveUp, Calls
  <2> QED
    BY <1>9, <2>1 DEF Verify, GiveUp, tables
<1>10. ASSUME NEW c \in Callers, Lookup(c)
       PROVE  TypeOK'
  <2>1. Champions \subseteq Models
    BY DEF Champions
  <2>2. call' \in [Callers -> Calls \cup {Idle}]
    BY <1>10, <2>1 DEF Lookup, Calls
  <2> QED
    BY <1>10, <2>2 DEF Lookup, tables
<1>11. ASSUME NEW c \in Callers, Promote(c)
       PROVE  TypeOK'
  <2>1. call[c] \in Calls
    BY <1>11 DEF Promote
  <2>2. CASE UNCHANGED <<models, audit, unlogged>>
    BY <1>11, <2>2 DEF Promote
  <2>3. CASE Crown(call[c])
    <3>1. [action |-> call[c].action, previous |-> call[c].previous,
           new |-> call[c].model] \in Audits
      BY <2>1 DEF Calls, Audits
    <3>2. audit' \in Seq(Audits)
      BY <2>3, <3>1, AppendProperties DEF Crown
    <3>3. models' \in [Models -> Lifecycle \cup {"none"}]
      BY <2>3 DEF Crown, Lifecycle
    <3>4. unlogged' \subseteq Models
      BY <2>1, <2>3 DEF Crown, Calls
    <3> QED
      BY <1>11, <3>2, <3>3, <3>4 DEF Promote
  <2> QED
    BY <1>11, <2>2, <2>3 DEF Promote
<1>12. ASSUME NEW c \in Callers, Retire(c)
       PROVE  TypeOK'
  <2>1. call[c] \in Calls
    BY <1>12 DEF Retire
  <2>2. [action |-> "retire", previous |-> call[c].model, new |-> NoModel] \in Audits
    BY <2>1 DEF Calls, Audits, Actions
  <2>3. audit' \in Seq(Audits)
    BY <1>12, <2>2, AppendProperties DEF Retire
  <2>4. models' \in [Models -> Lifecycle \cup {"none"}]
    BY <1>12 DEF Retire, SetStatus, Lifecycle
  <2> QED
    BY <1>12, <2>3, <2>4 DEF Retire
<1>13. ASSUME NEW c \in Callers, Recommend(c)
       PROVE  TypeOK'
  <2>1. call[c] \in Calls
    BY <1>13 DEF Recommend
  <2>2. models' \in [Models -> Lifecycle \cup {"none"}]
    BY <1>13 DEF Recommend, SetStatus, Lifecycle
  <2> QED
    BY <1>13, <2>1, <2>2 DEF Recommend, Calls, Registered, Champions
<1> QED
  BY <1>1, <1>2, <1>3, <1>4, <1>5, <1>6, <1>7, <1>8, <1>9, <1>10, <1>11, <1>12,
     <1>13 DEF Next, TrainStep, CallStep

\* An update of a lifecycle status adds no row and removes none.
LEMMA StatusUpdate ==
  ASSUME TypeOK, NEW m \in Models, NEW s \in {"recommended", "retired"},
         SetStatus(m, s)
  PROVE  Registered' = Registered /\ Champions' = Champions \ {m}
BY DEF TypeOK, SetStatus, Registered, Champions

\* The same of promote_model's transaction, which the unique index lets end with
\* one champion.
LEMMA CrownUpdate ==
  ASSUME TypeOK, NEW k \in Calls, Crown(k),
         k.model \in Registered => Champions \subseteq {k.model, k.previous}
  PROVE  /\ Registered' = Registered
         /\ Champions' = IF k.model \in Registered THEN {k.model}
                                                   ELSE Champions \ {k.previous}
<1>1. /\ k.model \in Models
      /\ models \in [Models -> Lifecycle \cup {"none"}]
      /\ models' = [m \in Models |->
           IF models[m] = "none" THEN "none"
           ELSE IF m = k.model THEN "champion"
           ELSE IF m = k.previous THEN "retired"
           ELSE models[m]]
  BY DEF TypeOK, Crown, Calls, Registered
<1>2. Registered' = Registered
  BY <1>1 DEF Registered
<1>3. CASE k.model \in Registered
  <2>1. \A m \in Models : models'[m] = "champion" <=> m = k.model
    BY <1>1, <1>3 DEF Registered, Champions
  <2> QED
    BY <1>1, <1>2, <1>3, <2>1 DEF Champions
<1>4. CASE k.model \notin Registered
  BY <1>1, <1>2, <1>4 DEF Registered, Champions
<1> QED
  BY <1>2, <1>3, <1>4

\* What Promote does: nothing to the tables, or the whole of its transaction.
LEMMA PromoteEffect ==
  ASSUME TypeOK, NEW c \in Callers, Promote(c)
  PROVE  /\ call[c] \in Calls /\ call[c].pc = "swap"
         /\ call' = [call EXCEPT ![c] = Idle]
         /\ UNCHANGED <<runs, verified, evaluated, bundles, pc>>
         /\ \/ UNCHANGED <<models, audit, unlogged>>
            \/ /\ Crown(call[c])
               /\ call[c].model \in Registered =>
                    Champions \subseteq {call[c].model, call[c].previous}
BY DEF Promote, Return, TypeOK, Idle

\* Lifecycle calls change statuses, and nothing that the trainings depend on.
LEMMA CallFrame ==
  ASSUME TypeOK, CallsInv,
         \/ \E o \in Operators : Request(o)
         \/ \E c \in Callers : CallStep(c)
  PROVE  /\ UNCHANGED <<runs, verified, evaluated, bundles, pc>>
         /\ Registered' = Registered
<1>1. ASSUME NEW o \in Operators, Request(o)
      PROVE  /\ UNCHANGED <<runs, verified, evaluated, bundles, pc>>
             /\ Registered' = Registered
  BY <1>1 DEF Request, tables, Registered
<1>2. ASSUME NEW c \in Callers, Verify(c) \/ Lookup(c) \/ GiveUp(c)
      PROVE  /\ UNCHANGED <<runs, verified, evaluated, bundles, pc>>
             /\ Registered' = Registered
  BY <1>2 DEF Verify, Lookup, GiveUp, tables, Registered
<1>3. ASSUME NEW c \in Callers, Promote(c)
      PROVE  /\ UNCHANGED <<runs, verified, evaluated, bundles, pc>>
             /\ Registered' = Registered
  <2>1. CASE UNCHANGED <<models, audit, unlogged>>
    BY <1>3, <2>1, PromoteEffect DEF Registered
  <2> QED
    BY <1>3, <2>1, PromoteEffect, CrownUpdate
<1>4. ASSUME NEW c \in Callers, Retire(c)
      PROVE  /\ UNCHANGED <<runs, verified, evaluated, bundles, pc>>
             /\ Registered' = Registered
  <2>1. call[c].model \in Models
    BY <1>4 DEF Retire, TypeOK, Calls, Idle
  <2> QED
    BY <1>4, <2>1, StatusUpdate DEF Retire
<1>5. ASSUME NEW c \in Callers, Recommend(c)
      PROVE  /\ UNCHANGED <<runs, verified, evaluated, bundles, pc>>
             /\ Registered' = Registered
  <2>1. call[c].model \in Models
    BY <1>5 DEF Recommend, TypeOK, Calls, Idle
  <2>2. call[c].model \in Registered => call[c].model \in verified
    BY <1>5 DEF Recommend, CallsInv
  <2> QED
    BY <1>5, <2>1, <2>2, StatusUpdate DEF Recommend
<1> QED
  BY <1>1, <1>2, <1>3, <1>4, <1>5 DEF CallStep

\* A training changes its own models, its own run, its own place and at most its
\* own call, and crowns nobody.
LEMMA TrainFrame ==
  ASSUME TypeOK, NEW t \in Trainings, TrainStep(t)
  PROVE  /\ \A u \in Trainings \ {t} : runs'[u] = runs[u] /\ pc'[u] = pc[u]
         /\ \A m \in Models \ ModelsOf(t) :
              /\ models'[m] = models[m]
              /\ m \in verified' <=> m \in verified
              /\ m \in evaluated' <=> m \in evaluated
              /\ m \in bundles' <=> m \in bundles
         /\ Champions' \subseteq Champions
         /\ audit' = audit
<1> USE DEF Goto, TypeOK
<1>1. CASE Start(t) \/ CreateBundle(t) \/ EvaluateModel(t)
  BY <1>1 DEF Start, CreateBundle, EvaluateModel, tables, Champions
<1>2. CASE RegisterModel(t)
  BY <1>2, ModelsOfTrainings DEF RegisterModel, Champions
<1>3. CASE Finalize(t) \/ VerifyCandidates(t) \/ Raise(t) \/ CleanRun(t) \/ Die(t)
  BY <1>3 DEF Finalize, VerifyCandidates, Raise, CleanRun, Die, tables, Champions
<1>4. CASE RecommendBest(t)
  BY <1>4, ModelsOfTrainings DEF RecommendBest, Recommendable, SetStatus, Champions
<1>5. CASE CleanRows(t)
  BY <1>5, ModelsOfTrainings DEF CleanRows, Champions
<1>6. CASE CleanBundles(t) \/ Check(t)
  BY <1>6 DEF CleanBundles, Check, tables, Champions
<1> QED
  BY <1>1, <1>2, <1>3, <1>4, <1>5, <1>6 DEF TrainStep

\* A training in progress keeps the only running row.
LEMMA RunsStep == TypeOK /\ RunsInv /\ CallsInv /\ [Next]_vars => RunsInv'
<1> SUFFICES ASSUME TypeOK, RunsInv, CallsInv, [Next]_vars PROVE RunsInv'
  OBVIOUS
<1>1. CASE UNCHANGED <<runs, pc>>
  BY <1>1 DEF RunsInv
<1>2. ASSUME NEW t \in Trainings, TrainStep(t) PROVE RunsInv'
  <2>1. \A u \in Trainings \ {t} : runs'[u] = runs[u] /\ pc'[u] = pc[u]
    BY <1>2, TrainFrame
  <2>2. CASE Start(t)
    <3>1. /\ \A u \in Trainings : runs[u] # "running"
          /\ runs'[t] = "running" /\ pc'[t] = "training"
      BY <2>2 DEF Start, Goto, TypeOK
    <3> QED
      BY <2>1, <3>1 DEF RunsInv
  <2>3. CASE Check(t)
    BY <2>3 DEF Check, RunsInv, tables
  <2>4. CASE ~Start(t) /\ ~Check(t)
    <3>1. /\ pc'[t] # "new" /\ pc[t] # "new"
          /\ runs'[t] = runs[t] \/ runs'[t] \in {"success", "failed"}
          /\ pc'[t] \in {"training", "bundled", "registered"}
               => /\ pc[t] \in {"training", "bundled", "registered"}
                  /\ runs'[t] = runs[t]
      BY <1>2, <2>4
         DEF TrainStep, CreateBundle, RegisterModel, EvaluateModel, Finalize,
             VerifyCandidates, RecommendBest, Raise, CleanRows, CleanBundles,
             CleanRun, Die, Goto, TypeOK, tables
    <3>2. pc'[t] # "done" =>
            pc[t] # "done" /\ (runs'[t] = runs[t] \/ runs'[t] = "success")
      BY <1>2, <2>4
         DEF TrainStep, CreateBundle, RegisterModel, EvaluateModel, Finalize,
             VerifyCandidates, RecommendBest, Raise, CleanRows, CleanBundles,
             CleanRun, Die, Goto, TypeOK, tables
    <3> QED
      BY <2>1, <3>1, <3>2 DEF RunsInv
  <2> QED
    BY <2>2, <2>3, <2>4
<1> QED
  BY <1>1, <1>2, CallFrame DEF Next, vars, tables

\* A training's cleanup is not undone.
LEMMA CleanupStep ==
  TypeOK /\ RunsInv /\ CleanupInv /\ CallsInv /\ [Next]_vars => CleanupInv'
<1> SUFFICES ASSUME TypeOK, RunsInv, CleanupInv, CallsInv, [Next]_vars
             PROVE  CleanupInv'
  OBVIOUS
<1>1. CASE UNCHANGED vars
  BY <1>1 DEF CleanupInv, Cleaned, vars, tables, Registered
<1>2. CASE (\E o \in Operators : Request(o)) \/ (\E c \in Callers : CallStep(c))
  <2>1. UNCHANGED <<runs, verified, evaluated, bundles, pc>> /\ Registered' = Registered
    BY <1>2, CallFrame
  <2> QED
    BY <2>1 DEF CleanupInv, Cleaned
<1>3. ASSUME NEW t \in Trainings, TrainStep(t) PROVE CleanupInv'
  <2>1. ASSUME NEW u \in Trainings \ {t}
        PROVE  /\ runs'[u] = runs[u] /\ pc'[u] = pc[u]
               /\ Cleaned(u, Registered) => Cleaned(u, Registered)'
               /\ Cleaned(u, verified) => Cleaned(u, verified)'
               /\ Cleaned(u, evaluated) => Cleaned(u, evaluated)'
               /\ Cleaned(u, bundles) => Cleaned(u, bundles)'
    <3>1. ModelsOf(u) \subseteq Models \ ModelsOf(t)
      BY ModelsOfTrainings
    <3> QED
      BY <1>3, <3>1, TrainFrame DEF Cleaned, Registered
  <2>2. CASE Start(t) \/ CreateBundle(t) \/ RegisterModel(t) \/ EvaluateModel(t)
    <3>1. pc'[t] \in {"training", "bundled", "registered"} /\ runs'[t] = "running"
      BY <2>2 DEF Start, CreateBundle, RegisterModel, EvaluateModel, Goto, RunsInv,
                  TypeOK, tables
    <3> QED
      BY <2>1, <3>1 DEF CleanupInv
  <2>3. CASE Finalize(t)
    <3>1. pc'[t] = "verifying" /\ runs'[t] = "success"
      BY <2>3 DEF Finalize, Goto, TypeOK
    <3> QED
      BY <2>1, <3>1 DEF CleanupInv
  <2>4. CASE VerifyCandidates(t) \/ Raise(t) \/ Die(t) \/ Check(t)
    <3>1. /\ UNCHANGED tables /\ bundles' = bundles
          /\ pc'[t] \in {"cleanBundles", "cleanRun"} => pc'[t] = pc[t]
      BY <2>4 DEF VerifyCandidates, Raise, Die, Check, Goto, TypeOK
    <3> QED
      BY <2>1, <3>1 DEF CleanupInv, Cleaned, tables, Registered
  <2>5. CASE RecommendBest(t)
    <3>1. /\ UNCHANGED <<runs, verified, evaluated, bundles>> /\ pc'[t] = "done"
      BY <2>5 DEF RecommendBest, Recommendable, Goto, TypeOK
    <3>2. Registered' = Registered
      BY <2>5, ModelsOfTrainings, StatusUpdate DEF RecommendBest, Recommendable, Registered
    <3> QED
      BY <2>1, <3>1, <3>2 DEF CleanupInv, Cleaned
  <2>6. CASE CleanRows(t)
    <3>1. pc'[t] = "cleanBundles" /\ pc[t] = "cleanRows"
          /\ runs' = runs /\ bundles' = bundles
      BY <2>6 DEF CleanRows, Goto, TypeOK
    <3>2. Cleaned(t, Registered)' /\ Cleaned(t, verified)' /\ Cleaned(t, evaluated)'
      BY <2>6 DEF CleanRows, Cleaned, Registered
    <3> QED
      BY <2>1, <3>1, <3>2 DEF CleanupInv, Cleaned
  <2>7. CASE CleanBundles(t)
    <3>1. /\ UNCHANGED tables /\ bundles' \subseteq bundles
          /\ pc[t] = "cleanBundles"
          /\ \/ pc'[t] = "cleanRun" /\ Cleaned(t, bundles)
             \/ pc'[t] = "cleanBundles"
      BY <2>7 DEF CleanBundles, Goto, TypeOK, Cleaned
    <3> QED
      BY <2>1, <3>1 DEF CleanupInv, Cleaned, tables, Registered
  <2>8. CASE CleanRun(t)
    <3>1. /\ UNCHANGED <<models, verified, evaluated, bundles>>
          /\ pc[t] = "cleanRun"
      BY <2>8 DEF CleanRun
    <3> QED
      BY <2>1, <3>1 DEF CleanupInv, Cleaned, Registered
  <2> QED
    BY <1>3, <2>2, <2>3, <2>4, <2>5, <2>6, <2>7, <2>8 DEF TrainStep
<1> QED
  BY <1>1, <1>2, <1>3 DEF Next

\* Rows keep their bundles, and finalized rows their successful run.
LEMMA RowsStep ==
  TypeOK /\ RunsInv /\ CleanupInv /\ RowsInv /\ CallsInv /\ [Next]_vars => RowsInv'
<1> SUFFICES ASSUME TypeOK, RunsInv, CleanupInv, RowsInv, CallsInv, [Next]_vars
             PROVE  RowsInv'
  OBVIOUS
<1>1. CASE UNCHANGED vars
  BY <1>1 DEF RowsInv, vars, tables, Registered
<1>2. CASE (\E o \in Operators : Request(o)) \/ (\E c \in Callers : CallStep(c))
  <2>1. UNCHANGED <<runs, verified, evaluated, bundles, pc>> /\ Registered' = Registered
    BY <1>2, CallFrame
  <2> QED
    BY <2>1 DEF RowsInv
<1>3. ASSUME NEW t \in Trainings, TrainStep(t) PROVE RowsInv'
  <2>1. CASE Start(t)
    <3>1. /\ UNCHANGED <<models, verified, evaluated, bundles>>
          /\ \A u \in Trainings \ {t} : runs'[u] = runs[u]
          /\ runs[t] = "none"
      BY <2>1 DEF Start, RunsInv, TypeOK
    <3>2. \A m \in verified : m[1] \in Trainings /\ m[1] # t
      BY <3>1, ModelsOfTrainings DEF RowsInv, TypeOK
    <3> QED
      BY <3>1, <3>2 DEF RowsInv, Registered
  <2>2. CASE CreateBundle(t) \/ VerifyCandidates(t) \/ Raise(t) \/ Die(t) \/ Check(t)
    BY <2>2 DEF CreateBundle, VerifyCandidates, Raise, Die, Check, RowsInv, tables,
                Registered
  <2>3. CASE RegisterModel(t)
    <3>1. UNCHANGED <<runs, verified, evaluated, bundles>>
      BY <2>3 DEF RegisterModel
    <3>2. PICK m \in ModelsOf(t) \cap bundles : Registered' = Registered \cup {m}
      BY <2>3, ModelsOfTrainings DEF RegisterModel, Registered, TypeOK
    <3> QED
      BY <3>1, <3>2 DEF RowsInv
  <2>4. CASE EvaluateModel(t)
    BY <2>4 DEF EvaluateModel, RowsInv, Registered
  <2>5. CASE Finalize(t)
    <3>1. /\ UNCHANGED <<models, evaluated, bundles>>
          /\ verified' = verified \cup (ModelsOf(t) \cap evaluated)
          /\ runs'[t] = "success"
          /\ \A u \in Trainings \ {t} : runs'[u] = runs[u]
      BY <2>5 DEF Finalize, TypeOK
    <3>2. \A m \in verified' : m[1] \in Trainings /\ (m[1] = t \/ m \in verified)
      BY <3>1, ModelsOfTrainings DEF TypeOK
    <3> QED
      BY <3>1, <3>2 DEF RowsInv, Registered
  <2>6. CASE RecommendBest(t)
    <3>1. Registered' = Registered
      BY <2>6, ModelsOfTrainings, StatusUpdate DEF RecommendBest, Recommendable, Registered
    <3> QED
      BY <2>6, <3>1 DEF RecommendBest, Recommendable, RowsInv
  <2>7. CASE CleanRows(t)
    <3>1. Registered' = Registered \ ModelsOf(t)
      BY <2>7 DEF CleanRows, Registered
    <3> QED
      BY <2>7, <3>1 DEF CleanRows, RowsInv
  <2>8. CASE CleanBundles(t)
    <3>1. /\ UNCHANGED tables
          /\ Cleaned(t, Registered)
          /\ bundles \ ModelsOf(t) \subseteq bundles'
      BY <2>8 DEF CleanBundles, CleanupInv
    <3> QED
      BY <3>1 DEF RowsInv, Cleaned, tables, Registered
  <2>9. CASE CleanRun(t)
    <3>1. /\ UNCHANGED <<models, verified, evaluated, bundles>>
          /\ \A u \in Trainings \ {t} : runs'[u] = runs[u]
          /\ Cleaned(t, verified)
      BY <2>9 DEF CleanRun, CleanupInv, TypeOK
    <3>2. \A m \in verified : m[1] \in Trainings /\ m[1] # t
      BY <3>1, ModelsOfTrainings DEF Cleaned, TypeOK
    <3> QED
      BY <3>1, <3>2 DEF RowsInv, Registered
  <2> QED
    BY <1>3, <2>1, <2>2, <2>3, <2>4, <2>5, <2>6, <2>7, <2>8, <2>9 DEF TrainStep
<1> QED
  BY <1>1, <1>2, <1>3 DEF Next

Past == {"lookup", "swap", "write"}

\* A training leaves the calls that passed their verification alone.
LEMMA CallsSurviveTraining ==
  ASSUME TypeOK, RunsInv, CallsInv, NEW t \in Trainings, TrainStep(t)
  PROVE  CallsInv'
<1>1. ASSUME NEW c \in Callers, call'[c].pc \in Past
      PROVE  call'[c] = call[c] /\ call[c].model \in Models
  <2>1. \/ UNCHANGED call
        \/ call'[t].pc \in {"check", "verify", "idle"}
           /\ \A d \in Callers \ {t} : call'[d] = call[d]
    <3>1. CASE RecommendBest(t)
      BY <3>1 DEF RecommendBest, Recommendable, TypeOK, Callers
    <3>2. CASE Check(t)
      <4>1. call[t] \in Calls
        BY <3>2 DEF Check, TypeOK, Callers, Idle
      <4> QED
        BY <3>2, <4>1 DEF Check, Return, TypeOK, Callers, Idle, Calls
    <3>3. CASE ~RecommendBest(t) /\ ~Check(t)
      BY <3>3 DEF TrainStep, Start, CreateBundle, RegisterModel, EvaluateModel,
                  Finalize, VerifyCandidates, Raise, CleanRows, CleanBundles,
                  CleanRun, Die
    <3> QED
      BY <3>1, <3>2, <3>3
  <2>2. call'[c] = call[c]
    BY <1>1, <2>1 DEF Past
  <2>3. call[c] \in Calls
    BY <1>1, <2>2 DEF TypeOK, Past, Idle
  <2> QED
    BY <2>2, <2>3 DEF Calls
<1>2. ASSUME NEW m \in Models, runs[m[1]] \in {"success", "failed"},
             m \in Registered => m \in verified
      PROVE  /\ runs'[m[1]] \in {"success", "failed"}
             /\ m \in Registered' => m \in verified'
  <2>1. CASE m[1] # t
    <3>1. m \in Models \ ModelsOf(t) /\ m[1] \in Trainings
      BY <2>1, ModelsOfTrainings
    <3> QED
      BY <1>2, <2>1, <3>1, TrainFrame DEF Registered
  <2>2. CASE m[1] = t
    <3>1. runs[t] \in {"success", "failed"} /\ m \in ModelsOf(t)
      BY <1>2, <2>2, ModelsOfTrainings
    <3>2. ~(Start(t) \/ CreateBundle(t) \/ RegisterModel(t) \/ EvaluateModel(t)
            \/ Finalize(t))
      BY <3>1 DEF RunsInv, Start, CreateBundle, RegisterModel, EvaluateModel, Finalize
    <3>3. CASE CleanRows(t)
      BY <1>2, <3>1, <3>3 DEF CleanRows, Registered
    <3>4. CASE RecommendBest(t)
      BY <1>2, <3>4, ModelsOfTrainings, StatusUpdate DEF RecommendBest, Recommendable, Registered
    <3>5. CASE CleanRun(t)
      BY <1>2, <2>2, <3>5 DEF CleanRun, TypeOK, Registered
    <3>6. CASE VerifyCandidates(t) \/ Raise(t) \/ CleanBundles(t) \/ Die(t) \/ Check(t)
      BY <1>2, <3>6 DEF VerifyCandidates, Raise, CleanBundles, Die, Check, tables,
                        Registered
    <3> QED
      BY <3>2, <3>3, <3>4, <3>5, <3>6 DEF TrainStep
  <2> QED
    BY <2>1, <2>2
<1> QED
  BY <1>1, <1>2 DEF CallsInv, Past

\* A call is let past its verification only for a finalized model.
LEMMA CallsStep == TypeOK /\ RunsInv /\ CallsInv /\ [Next]_vars => CallsInv'
<1> SUFFICES ASSUME TypeOK, RunsInv, CallsInv, [Next]_vars PROVE CallsInv'
  OBVIOUS
<1>1. CASE UNCHANGED vars
  BY <1>1 DEF CallsInv, vars, tables, Registered
<1>2. ASSUME NEW o \in Operators, Request(o) PROVE CallsInv'
  <2>1. /\ UNCHANGED <<runs, verified>> /\ Registered' = Registered
        /\ call'[o].pc = "verify"
        /\ \A d \in Callers \ {o} : call'[d] = call[d]
    BY <1>2 DEF Request, tables, Registered, TypeOK, Callers
  <2> QED
    BY <2>1 DEF CallsInv
<1>3. ASSUME NEW c \in Callers, CallStep(c) PROVE CallsInv'
  <2>1. /\ UNCHANGED <<runs, verified>> /\ Registered' = Registered
    BY <1>3, CallFrame
  <2>2. \A d \in Callers \ {c} : call'[d] = call[d]
    BY <1>3 DEF CallStep, Verify, Lookup, Promote, Retire, Recommend, GiveUp, Return,
                TypeOK
  <2>3. call[c] \in Calls
    BY <1>3 DEF CallStep, Verify, Lookup, Promote, Retire, Recommend, GiveUp, TypeOK,
                Idle
  <2>4. call'[c].pc \in Past =>
          /\ runs[call'[c].model[1]] \in {"success", "failed"}
          /\ call'[c].model \in Registered => call'[c].model \in verified
    <3>1. CASE Verify(c)
      <4>1. \/ call'[c] = Idle
            \/ Passes(call[c].model) /\ call'[c].model = call[c].model
        BY <2>3, <3>1 DEF Verify, Return, TypeOK, Calls
      <4> QED
        BY <4>1 DEF Passes, BundleIntact, Idle, Past
    <3>2. CASE Lookup(c)
      <4>1. \/ call'[c] = Idle
            \/ call[c].pc = "lookup" /\ call'[c].model = call[c].model
        BY <3>2 DEF Lookup, Return, TypeOK
      <4> QED
        BY <4>1 DEF CallsInv, Idle, Past
    <3>3. CASE Promote(c) \/ Retire(c) \/ Recommend(c) \/ GiveUp(c)
      BY <3>3 DEF Promote, Retire, Recommend, GiveUp, Return, TypeOK, Idle, Past
    <3> QED
      BY <1>3, <3>1, <3>2, <3>3 DEF CallStep
  <2> QED
    BY <2>1, <2>2, <2>4 DEF CallsInv, Past
<1>4. ASSUME NEW t \in Trainings, TrainStep(t) PROVE CallsInv'
  BY <1>4, CallsSurviveTraining
<1> QED
  BY <1>1, <1>2, <1>3, <1>4 DEF Next

\* There is one champion, and it is finalized.
LEMMA ChampionStep ==
  TypeOK /\ RowsInv /\ CallsInv /\ ChampionInv /\ [Next]_vars => ChampionInv'
<1> SUFFICES ASSUME TypeOK, RowsInv, CallsInv, ChampionInv, [Next]_vars
             PROVE  ChampionInv'
  OBVIOUS
<1>1. CASE UNCHANGED vars
  BY <1>1 DEF ChampionInv, vars, tables, Champions
<1>2. CASE (\E o \in Operators : Request(o)) \/ (\E c \in Callers : CallStep(c))
  <2>1. verified' = verified
    BY <1>2, CallFrame
  <2>2. \/ Champions' \subseteq Champions
        \/ \E m \in verified : Champions' = {m}
    <3>1. ASSUME NEW o \in Operators, Request(o) PROVE Champions' = Champions
      BY <3>1 DEF Request, tables, Champions
    <3>2. ASSUME NEW c \in Callers, Verify(c) \/ Lookup(c) \/ GiveUp(c)
          PROVE  Champions' = Champions
      BY <3>2 DEF Verify, Lookup, GiveUp, tables, Champions
    <3>3. ASSUME NEW c \in Callers, Promote(c)
          PROVE  \/ Champions' \subseteq Champions
                 \/ \E m \in verified : Champions' = {m}
      <4>1. CASE UNCHANGED <<models, audit, unlogged>>
        BY <4>1 DEF Champions
      <4>2. CASE ~UNCHANGED <<models, audit, unlogged>>
        <5>1. Champions' = IF call[c].model \in Registered
                             THEN {call[c].model}
                             ELSE Champions \ {call[c].previous}
          BY <3>3, <4>2, PromoteEffect, CrownUpdate
        <5>2. call[c].model \in Registered => call[c].model \in verified
          BY <3>3, PromoteEffect DEF CallsInv
        <5> QED
          BY <5>1, <5>2
      <4> QED
        BY <4>1, <4>2
    <3>4. ASSUME NEW c \in Callers, Retire(c) \/ Recommend(c)
          PROVE  Champions' \subseteq Champions
      <4>1. call[c].model \in Models
        BY <3>4 DEF Retire, Recommend, TypeOK, Calls, Idle
      <4> QED
        BY <3>4, <4>1, StatusUpdate DEF Retire, Recommend
    <3> QED
      BY <1>2, <3>1, <3>2, <3>3, <3>4 DEF CallStep
  <2> QED
    BY <2>1, <2>2 DEF ChampionInv
<1>3. ASSUME NEW t \in Trainings, TrainStep(t) PROVE ChampionInv'
  <2>1. Champions' \subseteq Champions
    BY <1>3, TrainFrame
  <2>2. CASE CleanRows(t)
    <3>1. verified' = verified \ ModelsOf(t) /\ Champions' \cap ModelsOf(t) = {}
      BY <2>2, ModelsOfTrainings DEF CleanRows, Champions
    <3> QED
      BY <2>1, <3>1 DEF ChampionInv
  <2>3. CASE ~CleanRows(t)
    <3>1. verified \subseteq verified'
      BY <1>3, <2>3
         DEF TrainStep, Start, CreateBundle, RegisterModel, EvaluateModel, Finalize,
             VerifyCandidates, RecommendBest, Raise, CleanBundles, CleanRun, Die,
             Check, tables
    <3> QED
      BY <2>1, <3>1 DEF ChampionInv
  <2> QED
    BY <2>2, <2>3
<1> QED
  BY <1>1, <1>2, <1>3 DEF Next

\* A step that writes no audit row and takes no championship without counting it
\* as unlogged keeps the audit history right.
LEMMA AuditUntouched ==
  ASSUME AuditNamesChampion, audit' = audit, Champions' \subseteq Champions,
         Champions \subseteq Champions' \cup unlogged', unlogged \subseteq unlogged'
  PROVE  AuditNamesChampion'
BY DEF AuditNamesChampion, Crowned

\* The audit history keeps naming the champion.
LEMMA AuditStep ==
  TypeOK /\ CallsInv /\ AuditNamesChampion /\ [Next]_vars => AuditNamesChampion'
<1> SUFFICES ASSUME TypeOK, CallsInv, AuditNamesChampion, [Next]_vars
             PROVE  AuditNamesChampion'
  OBVIOUS
<1>1. CASE UNCHANGED vars
  BY <1>1, AuditUntouched DEF vars, tables, Champions
<1>2. ASSUME NEW t \in Trainings, TrainStep(t) PROVE AuditNamesChampion'
  <2>1. audit' = audit /\ Champions' \subseteq Champions
    BY <1>2, TrainFrame
  <2>2. /\ Champions \subseteq Champions' \cup unlogged'
        /\ unlogged \subseteq unlogged'
    <3>1. CASE RecommendBest(t)
      BY <3>1, ModelsOfTrainings, StatusUpdate DEF RecommendBest, Recommendable, Champions
    <3>2. CASE CleanRows(t)
      BY <3>2 DEF CleanRows, Champions
    <3>3. CASE RegisterModel(t)
      BY <3>3, ModelsOfTrainings DEF RegisterModel, Champions, Registered, TypeOK
    <3>4. CASE ~RecommendBest(t) /\ ~CleanRows(t) /\ ~RegisterModel(t)
      BY <1>2, <3>4
         DEF TrainStep, Start, CreateBundle, EvaluateModel, Finalize,
             VerifyCandidates, Raise, CleanBundles, CleanRun, Die, Check, tables,
             Champions
    <3> QED
      BY <3>1, <3>2, <3>3, <3>4
  <2> QED
    BY <2>1, <2>2, AuditUntouched
<1>3. ASSUME NEW o \in Operators, Request(o) PROVE AuditNamesChampion'
  BY <1>3, AuditUntouched DEF Request, tables, Champions
<1>4. ASSUME NEW c \in Callers, Verify(c) \/ Lookup(c) \/ GiveUp(c)
      PROVE  AuditNamesChampion'
  BY <1>4, AuditUntouched DEF Verify, Lookup, GiveUp, tables, Champions
<1>5. ASSUME NEW c \in Callers, Recommend(c) PROVE AuditNamesChampion'
  <2>1. call[c].model \in Models
    BY <1>5 DEF Recommend, TypeOK, Calls, Idle
  <2>2. /\ Champions' = Champions \ {call[c].model} /\ audit' = audit
        /\ unlogged' = unlogged \cup ({call[c].model} \cap Champions)
    BY <1>5, <2>1, StatusUpdate DEF Recommend
  <2> QED
    BY <2>2, AuditUntouched
<1>6. ASSUME NEW c \in Callers, Retire(c) PROVE AuditNamesChampion'
  <2>1. PICK k \in Calls : k = call[c]
    BY <1>6 DEF Retire, TypeOK, Idle
  <2>2. k.model \in Models
    BY DEF Calls
  <2>3. Champions' = Champions \ {k.model} /\ unlogged' = unlogged
    BY <1>6, <2>1, <2>2, StatusUpdate DEF Retire
  <2>4. PICK row \in Audits :
               row = [action |-> "retire", previous |-> k.model, new |-> NoModel]
    BY <2>2 DEF Audits, Actions
  <2>5. audit' = Append(audit, row)
    BY <1>6, <2>1, <2>4 DEF Retire
  <2>6. ASSUME NEW m \in Models
        PROVE  Crowned(m)' <=> Crowned(m) /\ m # k.model
    <3>1. row.new # m /\ row.previous = k.model
      BY <2>4, RegistryAssumption
    <3> QED
      BY <2>5, <3>1, CrownedAppend DEF TypeOK
  <2> QED
    BY <2>3, <2>6 DEF AuditNamesChampion
<1>7. ASSUME NEW c \in Callers, Promote(c) PROVE AuditNamesChampion'
  <2>1. CASE UNCHANGED <<models, audit, unlogged>>
    BY <2>1, AuditUntouched DEF Champions
  <2>2. CASE ~UNCHANGED <<models, audit, unlogged>>
    <3>1. PICK k \in Calls : k = call[c]
      BY <1>7, PromoteEffect
    <3>2. /\ Crown(k)
          /\ k.model \in Registered => Champions \subseteq {k.model, k.previous}
      BY <1>7, <2>2, <3>1, PromoteEffect
    <3>3. Champions' = IF k.model \in Registered THEN {k.model}
                                                 ELSE Champions \ {k.previous}
      BY <3>2, CrownUpdate
    <3>4. PICK row \in Audits :
            row = [action |-> k.action, previous |-> k.previous, new |-> k.model]
      BY DEF Calls, Audits
    <3>5. audit' = Append(audit, row)
      BY <3>2, <3>4 DEF Crown
    <3>6. ASSUME NEW m \in Models
          PROVE  Crowned(m)' <=> m = k.model \/ (Crowned(m) /\ m # k.previous)
      <4>1. row.new = k.model /\ row.previous = k.previous
        BY <3>4
      <4> QED
        BY <3>5, <4>1, CrownedAppend DEF TypeOK
    <3>7. CASE k.model \in Registered
      <4>1. Champions' = {k.model} /\ unlogged' = unlogged \ {k.model}
        BY <3>2, <3>3, <3>7 DEF Crown
      <4> QED
        BY <3>2, <3>6, <3>7, <4>1 DEF AuditNamesChampion
    <3>8. CASE k.model \notin Registered
      <4>1. /\ Champions' = Champions \ {k.previous}
            /\ unlogged' = unlogged \cup {k.model}
        BY <3>2, <3>3, <3>8 DEF Crown
      <4>2. k.model \notin Champions
        BY <3>8 DEF Champions, Registered
      <4> QED
        BY <3>6, <4>1, <4>2 DEF AuditNamesChampion
    <3> QED
      BY <3>7, <3>8
  <2> QED
    BY <2>1, <2>2
<1> QED
  BY <1>1, <1>2, <1>3, <1>4, <1>5, <1>6, <1>7 DEF Next, CallStep

-----------------------------------------------------------------------------
(***************************************************************************)
(* The invariant, and what follows from it.                                *)
(***************************************************************************)
LEMMA Initially == Init => Inv
<1> SUFFICES ASSUME Init PROVE Inv
  OBVIOUS
<1>1. /\ Registered = {} /\ Champions = {} /\ verified = {} /\ evaluated = {}
      /\ bundles = {} /\ audit = <<>> /\ unlogged = {}
      /\ \A t \in Trainings : runs[t] = "none" /\ pc[t] = "new"
      /\ \A c \in Callers : call[c] = Idle
  BY DEF Init, Registered, Champions
<1>2. TypeOK
  <2>1. audit \in Seq(Audits)
    BY <1>1
  <2> QED
    BY <2>1 DEF Init, TypeOK, PCs
<1>3. RunsInv /\ CleanupInv /\ RowsInv
  BY <1>1 DEF RunsInv, CleanupInv, RowsInv
<1>4. CallsInv /\ ChampionInv
  BY <1>1 DEF CallsInv, ChampionInv, Idle
<1>5. AuditNamesChampion
  BY <1>1 DEF AuditNamesChampion, Crowned
<1> QED
  BY <1>2, <1>3, <1>4, <1>5 DEF Inv

\* Every part of the invariant holds in every behaviour.
THEOREM Invariance == Spec => []Inv
<1>1. Inv /\ [Next]_vars => Inv'
  BY TypeStep, RunsStep, CleanupStep, RowsStep, CallsStep, ChampionStep, AuditStep
     DEF Inv
<1> QED
  BY Initially, <1>1, PTL DEF Spec

\* Every variable keeps its type.
THEOREM TypeCorrect == Spec => []TypeOK
<1>1. Inv => TypeOK
  BY DEF Inv
<1> QED
  BY <1>1, Invariance, PTL

\* However many trainings are asked for, none fits models for a profile while
\* another is at work, cleans up, or has died before it was finalized.
THEOREM OneTraining == Spec => []TrainingsApart
<1>1. Inv => TrainingsApart
  BY DEF Inv, RunsInv, TrainingsApart, Unfinished
<1> QED
  BY <1>1, Invariance, PTL

\* However promotions, rollbacks, retirements and trainings interleave, there is
\* at most one champion, finalized, evaluated and with its bundle.
THEOREM UsableChampion == Spec => []ChampionIsUsable
<1>1. Inv => ChampionIsUsable
  <2> SUFFICES ASSUME Inv, NEW m \in Champions
               PROVE  /\ Champions = {m}
                      /\ m \in verified \cap evaluated \cap bundles
                      /\ runs[m[1]] = "success"
    BY DEF ChampionIsUsable
  <2>1. Champions = {m} /\ m \in verified
    BY DEF Inv, ChampionInv
  <2> QED
    BY <2>1 DEF Inv, RowsInv
<1> QED
  BY <1>1, Invariance, PTL

\* A failed training has left no model, no evaluation and no bundle.
THEOREM FailureIsClean == Spec => []FailedLeavesNothing
<1>1. Inv => FailedLeavesNothing
  BY DEF Inv, CleanupInv, Cleaned, FailedLeavesNothing
<1> QED
  BY <1>1, Invariance, PTL

\* The audit history tells who is champion, except for models that lost the
\* championship without a row.
THEOREM AuditIsTrue == Spec => []AuditNamesChampion
<1>1. Inv => AuditNamesChampion
  BY DEF Inv
<1> QED
  BY <1>1, Invariance, PTL
=============================================================================
