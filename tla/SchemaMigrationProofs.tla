------------------------- MODULE SchemaMigrationProofs -------------------------
(***************************************************************************)
(* Theorems about SchemaMigration, for any number of hosts and tools, any  *)
(* audit rows, any of the start versions and any retention.                *)
(***************************************************************************)
EXTENDS SchemaMigration, SequenceTheorems, FiniteSetTheorems, TLAPS

(***************************************************************************)
(* The script.  It is put together from the sections of the versions; what *)
(* the proofs need to know of it is shown section by section.              *)
(***************************************************************************)
Operations == {"create", "add", "columns", "record", "index", "backfill",
               "update", "rename", "recreate", "copy", "drop", "assert"}

Names ==
  {"telemetry_events", "anomalies", "collection_sessions",
   "collector_state", "quarantined_events", "feature_windows",
   "feature_materialization_state", "data_quality_runs",
   "dataset_snapshots", "collector_observations", "late_event_records",
   "duplicate_event_records", "training_runs", "model_versions",
   "model_evaluations", "model_promotions", "scoring_runs",
   "scored_windows", "detection_policies", "detection_runs",
   "detection_evaluations", "findings", "finding_occurrences",
   "finding_state_history", "detection_suppressions",
   "detection_watermarks", "detection_worker_leases",
   "detection_policy_activations", "idx_running_detection_namespace",
   "idx_occurrence_evaluation", "model_promotions_v7", "schema_version"}

\* The tables that are created.
Created == Names \ {Renamed, "schema_version"}

Stmt(op, t, n) == [op |-> op, table |-> t, n |-> n]

Fitting ==
  {s \in [op : Operations, table : Names, n : 0..16] :
     /\ s.op = "record" => s.n \in 1..10
     /\ s.op = "create" => s.n = 1 /\ s.table \in Created
     /\ s.op = "add" =>
          s.n > 1 /\ s.table \in Created \ {Promotions}
     /\ s.op = "columns" => s.table \in Created
     /\ s.op \in {"backfill", "update"} => s.table \in Created \ {Promotions}
     /\ s.op \in {"record", "assert"} => s.table = "schema_version"
     /\ s.op \in {"rename", "recreate", "copy", "index"} => s.table = Promotions
     /\ s.op = "drop" => s.table = Renamed}

\* The statements that must not come first, and what may come before them.
Dependent(s) ==
  \/ s.op \in {"add", "rename", "recreate", "copy", "drop", "index", "assert"}
  \/ s.op = "record" /\ s.n = 8

Follows(a, s) ==
  /\ s.op = "add" => /\ a.op \in {"columns", "add"} /\ a.table = s.table
                     /\ a.op = "add" => s.n = a.n + 1
  /\ s.op = "rename" => a.op = "columns" /\ a.table = Promotions
  /\ s.op = "recreate" => a.op = "rename"
  /\ s.op = "copy" => a.op = "recreate"
  /\ s.op = "drop" => a.op = "copy"
  /\ s.op = "index" => a.op = "drop" \/ (a.op = "record" /\ a.n = 10)
  /\ s.op = "record" /\ s.n = 8 => a.op = "index"
  /\ s.op = "assert" => a.op = "index"

Linked(F) ==
  \A i \in 1..Len(F) : Dependent(F[i]) => i > 1 /\ Follows(F[i-1], F[i])

\* The records, the creation of model_promotions, its renaming and the
\* assertion, in their order.
Timed(s) ==
  s.op \in {"record", "rename", "assert"} \/ (s.op = "create" /\ s.table = Promotions)
Time(s) == IF s.op = "record" THEN 2 * s.n
             ELSE IF s.op = "create" THEN 13
             ELSE IF s.op = "rename" THEN 15 ELSE 21

InTime(F, a, b) ==
  /\ \A i \in 1..Len(F) : Timed(F[i]) => a < Time(F[i]) /\ Time(F[i]) <= b
  /\ \A i, k \in 1..Len(F) :
       i < k /\ Timed(F[i]) /\ Timed(F[k]) => Time(F[i]) < Time(F[k])

Section(F, a, b) == F \in Seq(Fitting) /\ Linked(F) /\ InTime(F, a, b)

Holds(F, s) == \E i \in 1..Len(F) : F[i] = s

LEMMA ConcatHolds ==
  ASSUME NEW F \in Seq(Fitting), NEW G \in Seq(Fitting), NEW s,
         Holds(F, s) \/ Holds(G, s)
  PROVE  Holds(F \o G, s)
<1>1. /\ Len(F \o G) = Len(F) + Len(G)
      /\ \A i \in 1..Len(F) + Len(G) : (F \o G)[i] =
           IF i <= Len(F) THEN F[i] ELSE G[i - Len(F)]
  BY ConcatProperties
<1>2. Len(F) \in Nat /\ Len(G) \in Nat
  BY LenProperties
<1>3. CASE Holds(F, s)
  <2>1. PICK i \in 1..Len(F) : F[i] = s
    BY <1>3 DEF Holds
  <2>2. i \in 1..Len(F) + Len(G) /\ i <= Len(F)
    BY <1>2
  <2> QED
    BY <1>1, <2>1, <2>2 DEF Holds
<1>4. CASE Holds(G, s)
  <2>1. PICK i \in 1..Len(G) : G[i] = s
    BY <1>4 DEF Holds
  <2>2. /\ i + Len(F) \in 1..Len(F) + Len(G) /\ ~(i + Len(F) <= Len(F))
        /\ (i + Len(F)) - Len(F) = i
    BY <1>2
  <2>3. (F \o G)[i + Len(F)] = s
    BY <1>1, <2>1, <2>2
  <2> QED
    BY <1>1, <2>2, <2>3 DEF Holds
<1> QED
  BY <1>3, <1>4

LEMMA SectionConcat ==
  ASSUME NEW F, NEW G, NEW a \in Nat, NEW b \in Nat, NEW c \in Nat,
         a <= b, b <= c, Section(F, a, b), Section(G, b, c)
  PROVE  Section(F \o G, a, c)
<1>1. F \in Seq(Fitting) /\ G \in Seq(Fitting)
  BY DEF Section
<1>2. /\ F \o G \in Seq(Fitting)
      /\ Len(F \o G) = Len(F) + Len(G)
      /\ \A i \in 1..Len(F) + Len(G) : (F \o G)[i] =
           IF i <= Len(F) THEN F[i] ELSE G[i - Len(F)]
  BY <1>1, ConcatProperties
<1>3. Len(F) \in Nat /\ Len(G) \in Nat
  BY <1>1, LenProperties
<1>4. \A i \in 1..Len(F) + Len(G) :
        \/ i \in 1..Len(F) /\ (F \o G)[i] = F[i]
        \/ i - Len(F) \in 1..Len(G) /\ (F \o G)[i] = G[i - Len(F)]
  BY <1>2, <1>3
<1>5. Linked(F \o G)
  <2> SUFFICES ASSUME NEW i \in 1..Len(F) + Len(G), Dependent((F \o G)[i])
               PROVE  i > 1 /\ Follows((F \o G)[i-1], (F \o G)[i])
    BY <1>2 DEF Linked
  <2>1. CASE i <= Len(F)
    <3>1. i \in 1..Len(F) /\ (F \o G)[i] = F[i]
      BY <1>2, <1>3, <2>1
    <3>2. i > 1 /\ Follows(F[i-1], F[i])
      BY <3>1 DEF Section, Linked
    <3>3. (F \o G)[i-1] = F[i-1]
      BY <1>2, <1>3, <2>1, <3>2
    <3> QED
      BY <3>1, <3>2, <3>3
  <2>2. CASE ~(i <= Len(F))
    <3> DEFINE j == i - Len(F)
    <3>1. j \in 1..Len(G) /\ (F \o G)[i] = G[j]
      BY <1>2, <1>3, <2>2
    <3>2. j > 1 /\ Follows(G[j-1], G[j])
      <4> HIDE DEF j
      <4> QED
        BY <3>1 DEF Section, Linked
    <3>3. i > 1 /\ (F \o G)[i-1] = G[j-1]
      <4>1. i - 1 \in 1..Len(F) + Len(G) /\ ~(i - 1 <= Len(F))
            /\ (i - 1) - Len(F) = j - 1 /\ i > 1
        BY <1>3, <2>2, <3>2
      <4> QED
        BY <1>2, <4>1
    <3> HIDE DEF j
    <3> QED
      BY <3>1, <3>2, <3>3
  <2> QED
    BY <2>1, <2>2
<1>6. \A s \in Fitting : Time(s) \in Nat
  BY DEF Fitting, Time
<1>7. InTime(F \o G, a, c)
  <2>1. /\ \A i \in 1..Len(F) : F[i] \in Fitting /\ Time(F[i]) \in Nat
        /\ \A i \in 1..Len(G) : G[i] \in Fitting /\ Time(G[i]) \in Nat
    BY <1>1, <1>6, ElementOfSeq
  <2>2. ASSUME NEW i \in 1..Len(F) + Len(G), Timed((F \o G)[i])
        PROVE  a < Time((F \o G)[i]) /\ Time((F \o G)[i]) <= c
    <3>1. CASE i \in 1..Len(F) /\ (F \o G)[i] = F[i]
      <4>1. a < Time(F[i]) /\ Time(F[i]) <= b
        BY <2>2, <3>1 DEF Section, InTime
      <4> QED
        BY <2>1, <3>1, <4>1
    <3>2. CASE i - Len(F) \in 1..Len(G) /\ (F \o G)[i] = G[i - Len(F)]
      <4>1. b < Time(G[i - Len(F)]) /\ Time(G[i - Len(F)]) <= c
        BY <2>2, <3>2 DEF Section, InTime
      <4> QED
        BY <2>1, <3>2, <4>1
    <3> QED
      BY <1>4, <3>1, <3>2
  <2>3. ASSUME NEW i \in 1..Len(F) + Len(G), NEW k \in 1..Len(F) + Len(G),
               i < k, Timed((F \o G)[i]), Timed((F \o G)[k])
        PROVE  Time((F \o G)[i]) < Time((F \o G)[k])
    <3>1. CASE k <= Len(F)
      <4>1. /\ i \in 1..Len(F) /\ (F \o G)[i] = F[i]
            /\ k \in 1..Len(F) /\ (F \o G)[k] = F[k]
        BY <1>2, <1>3, <2>3, <3>1
      <4> QED
        BY <2>3, <4>1 DEF Section, InTime
    <3>2. CASE ~(k <= Len(F)) /\ i <= Len(F)
      <4>1. /\ i \in 1..Len(F) /\ (F \o G)[i] = F[i]
            /\ k - Len(F) \in 1..Len(G) /\ (F \o G)[k] = G[k - Len(F)]
        BY <1>2, <1>3, <2>3, <3>2
      <4>2. Time(F[i]) <= b /\ b < Time(G[k - Len(F)])
        BY <2>3, <4>1 DEF Section, InTime
      <4>3. Time(F[i]) \in Int /\ Time(G[k - Len(F)]) \in Int
        BY <2>1, <4>1
      <4> QED
        BY <4>1, <4>2, <4>3
    <3>3. CASE ~(i <= Len(F))
      <4>1. /\ i - Len(F) \in 1..Len(G) /\ (F \o G)[i] = G[i - Len(F)]
            /\ k - Len(F) \in 1..Len(G) /\ (F \o G)[k] = G[k - Len(F)]
            /\ i - Len(F) < k - Len(F)
        BY <1>2, <1>3, <2>3, <3>3
      <4> QED
        BY <2>3, <4>1 DEF Section, InTime
    <3> QED
      BY <1>3, <3>1, <3>2, <3>3
  <2> QED
    BY <1>2, <2>2, <2>3 DEF InTime
<1> QED
  BY <1>2, <1>5, <1>7 DEF Section

LEMMA SameLength ==
  ASSUME NEW m \in Nat, NEW n \in Nat, 1..m = 1..n
  PROVE  m = n
<1>1. ~(m < n)
  <2> SUFFICES ASSUME m < n PROVE FALSE
    OBVIOUS
  <2>1. n \in 1..n /\ n \notin 1..m
    OBVIOUS
  <2> QED
    BY <2>1
<1>2. ~(n < m)
  <2> SUFFICES ASSUME n < m PROVE FALSE
    OBVIOUS
  <2>1. m \in 1..m /\ m \notin 1..n
    OBVIOUS
  <2> QED
    BY <2>1
<1> QED
  BY <1>1, <1>2

LEMMA StatementIs ==
  ASSUME NEW op, NEW t, NEW n
  PROVE  Statement(op, t, n) = <<Stmt(op, t, n)>>
BY DEF Statement, Stmt

LEMMA SingleSection ==
  ASSUME NEW s \in Fitting, ~Dependent(s), NEW a \in Nat, NEW b \in Nat,
         Timed(s) => a < Time(s) /\ Time(s) <= b
  PROVE  Section(<<s>>, a, b)
<1>1. <<s>> \in Seq(Fitting) /\ Len(<<s>>) = 1 /\ <<s>>[1] = s
  OBVIOUS
<1>2. 1..Len(<<s>>) = {1}
  BY <1>1
<1>3. Linked(<<s>>)
  <2> SUFFICES ASSUME NEW i \in 1..Len(<<s>>)
               PROVE  ~Dependent(<<s>>[i])
    BY DEF Linked
  <2> QED
    BY <1>1, <1>2
<1>4. InTime(<<s>>, a, b)
  <2>1. \A i \in 1..Len(<<s>>) : i = 1 /\ <<s>>[i] = s
    BY <1>1, <1>2
  <2> QED
    BY <2>1 DEF InTime
<1> QED
  BY <1>1, <1>3, <1>4 DEF Section

\* A dependent statement behind what it depends on.
LEMMA SnocSection ==
  ASSUME NEW F, NEW s \in Fitting, NEW a \in Nat, NEW b \in Nat, NEW c \in Nat,
         a <= b, b <= c, Section(F, a, b), Len(F) > 0,
         Follows(F[Len(F)], s), Timed(s) => b < Time(s) /\ Time(s) <= c
  PROVE  /\ Section(F \o <<s>>, a, c)
         /\ Len(F \o <<s>>) > 0
         /\ (F \o <<s>>)[Len(F \o <<s>>)] = s
<1> DEFINE G == <<s>>
<1>1. F \in Seq(Fitting) /\ G \in Seq(Fitting) /\ Len(G) = 1 /\ G[1] = s
  BY DEF Section
<1> HIDE DEF G
<1>2. /\ F \o G \in Seq(Fitting)
      /\ Len(F \o G) = Len(F) + 1
      /\ \A i \in 1..Len(F) + 1 : (F \o G)[i] =
           IF i <= Len(F) THEN F[i] ELSE G[i - Len(F)]
  <2>1. /\ F \o G \in Seq(Fitting)
        /\ Len(F \o G) = Len(F) + Len(G)
        /\ \A i \in 1..Len(F) + Len(G) : (F \o G)[i] =
             IF i <= Len(F) THEN F[i] ELSE G[i - Len(F)]
    BY <1>1, ConcatProperties
  <2>2. Len(G) = 1
    BY <1>1
  <2> QED
    BY <2>1, <2>2, Zenon
<1>3. /\ Len(F) \in Nat
      /\ \A i \in 1..Len(F) + 1 : i \in 1..Len(F) \/ i = Len(F) + 1
  <2>1. Len(F) \in Nat
    BY <1>1, LenProperties
  <2> QED
    BY <2>1
<1>4. /\ \A i \in 1..Len(F) : (F \o G)[i] = F[i]
      /\ (F \o G)[Len(F) + 1] = s
  BY <1>1, <1>2, <1>3
<1>5. Linked(F \o G)
  <2> SUFFICES ASSUME NEW i \in 1..Len(F) + 1, Dependent((F \o G)[i])
               PROVE  i > 1 /\ Follows((F \o G)[i-1], (F \o G)[i])
    BY <1>2 DEF Linked
  <2>1. CASE i \in 1..Len(F)
    <3>1. i > 1 /\ Follows(F[i-1], F[i])
      BY <1>4, <2>1 DEF Section, Linked
    <3>2. i - 1 \in 1..Len(F)
      BY <1>3, <2>1, <3>1
    <3> QED
      BY <1>4, <2>1, <3>1, <3>2
  <2>2. CASE i = Len(F) + 1
    <3>1. i > 1 /\ i - 1 = Len(F) /\ Len(F) \in 1..Len(F)
      BY <1>3, <2>2
    <3> QED
      BY <1>4, <2>2, <3>1
  <2> QED
    BY <1>3, <2>1, <2>2
<1>6. InTime(F \o G, a, c)
  <2>1. \A t \in Fitting : Time(t) \in Nat
    BY DEF Fitting, Time
  <2>2. \A i \in 1..Len(F) : F[i] \in Fitting /\ Time(F[i]) \in Nat
    BY <1>1, <2>1, ElementOfSeq
  <2>3. \A i \in 1..Len(F) : Timed(F[i]) => a < Time(F[i]) /\ Time(F[i]) <= b
    BY DEF Section, InTime
  <2>4. ASSUME NEW i \in 1..Len(F) + 1, Timed((F \o G)[i])
        PROVE  a < Time((F \o G)[i]) /\ Time((F \o G)[i]) <= c
    <3>1. CASE i \in 1..Len(F)
      BY <1>4, <2>2, <2>3, <2>4, <3>1
    <3>2. CASE i = Len(F) + 1
      <4>1. (F \o G)[i] = s /\ Timed(s)
        BY <1>4, <2>4, <3>2
      <4>2. b < Time(s) /\ Time(s) <= c /\ Time(s) \in Nat
        BY <2>1, <4>1
      <4> QED
        BY <4>1, <4>2
    <3> QED
      BY <1>3, <3>1, <3>2
  <2>5. ASSUME NEW i \in 1..Len(F) + 1, NEW k \in 1..Len(F) + 1, i < k,
               Timed((F \o G)[i]), Timed((F \o G)[k])
        PROVE  Time((F \o G)[i]) < Time((F \o G)[k])
    <3>1. i \in 1..Len(F)
      BY <1>3, <2>5
    <3>2. CASE k \in 1..Len(F)
      BY <1>4, <2>5, <3>1, <3>2 DEF Section, InTime
    <3>3. CASE k = Len(F) + 1
      <4>1. (F \o G)[k] = s /\ Timed(s) /\ (F \o G)[i] = F[i]
        BY <1>4, <2>5, <3>1, <3>3
      <4>2. b < Time(s) /\ Time(s) \in Nat
        BY <2>1, <4>1
      <4>3. Time(F[i]) <= b /\ Time(F[i]) \in Nat
        BY <2>2, <2>3, <2>5, <3>1, <4>1
      <4> QED
        BY <4>1, <4>2, <4>3
    <3> QED
      BY <1>3, <3>2, <3>3
  <2> QED
    BY <1>2, <2>4, <2>5 DEF InTime
<1>7. Len(F \o G) > 0 /\ (F \o G)[Len(F \o G)] = s
  BY <1>2, <1>3, <1>4
<1> QED
  BY <1>2, <1>5, <1>6, <1>7 DEF Section, G

LEMMA CreatesSection ==
  ASSUME NEW ts \in Seq(Created),
         NEW a \in Nat, NEW b \in Nat,
         \A i \in 1..Len(ts) : ts[i] = Promotions => a < 13 /\ 13 <= b,
         \A i, k \in 1..Len(ts) : ts[i] = Promotions /\ ts[k] = Promotions => i = k
  PROVE  /\ Section(Creates(ts), a, b)
         /\ Len(Creates(ts)) = Len(ts)
         /\ \A i \in 1..Len(ts) : Holds(Creates(ts), Stmt("create", ts[i], 1))
<1> DEFINE F == Creates(ts)
<1>1. Len(ts) \in Nat /\ DOMAIN ts = 1..Len(ts)
  BY LenProperties
<1>2. /\ F = [i \in 1..Len(ts) |-> Stmt("create", ts[i], 1)]
      /\ \A i \in 1..Len(ts) : F[i] = Stmt("create", ts[i], 1)
  BY <1>1 DEF Creates, Create, Statement, Stmt
<1>3. \A i \in 1..Len(ts) : Stmt("create", ts[i], 1) \in Fitting
  <2>1. \A i \in 1..Len(ts) : ts[i] \in Created
    BY ElementOfSeq
  <2> QED
    BY <2>1 DEF Stmt, Fitting, Operations, Created
<1>4. F \in Seq(Fitting) /\ Len(F) = Len(ts)
  <2>1. F \in [1..Len(ts) -> Fitting]
    BY <1>2, <1>3
  <2>2. F \in Seq(Fitting)
    BY <1>1, <2>1, SeqDef
  <2>3. DOMAIN F = 1..Len(F) /\ Len(F) \in Nat
    BY <2>2, LenProperties
  <2>4. DOMAIN F = 1..Len(ts)
    BY <1>2
  <2> HIDE DEF F
  <2> QED
    BY <1>1, <2>2, <2>3, <2>4, SameLength
<1> HIDE DEF F
<1>5. Linked(F)
  BY <1>2, <1>4 DEF Linked, Dependent, Stmt
<1>6. InTime(F, a, b)
  BY <1>1, <1>2, <1>4 DEF InTime, Timed, Time, Stmt
<1>7. \A i \in 1..Len(ts) : Holds(F, Stmt("create", ts[i], 1))
  BY <1>2, <1>4 DEF Holds
<1> QED
  BY <1>4, <1>5, <1>6, <1>7 DEF Section, F

LEMMA AddColumnsSection ==
  ASSUME NEW t \in Created \ {Promotions},
         NEW first \in 1..15, NEW last \in first..15, NEW a \in Nat, NEW b \in Nat
  PROVE  /\ Section(AddColumns(t, first, last), a, b)
         /\ Len(AddColumns(t, first, last)) > 0
         /\ \A n \in first..last :
              Holds(AddColumns(t, first, last), Stmt("add", t, n + 1))
         /\ \A i \in 1..Len(AddColumns(t, first, last)) :
              /\ AddColumns(t, first, last)[i].table = t
              /\ AddColumns(t, first, last)[i].op \in {"columns", "add"}
<1> DEFINE m == last - first + 1
           G == [i \in 1..m |-> Stmt("add", t, first + i)]
           F == <<Stmt("columns", t, 0)>> \o G
<1>1. F = AddColumns(t, first, last)
  BY StatementIs DEF AddColumns, Statement, Stmt
<1>2. m \in Nat /\ first \in Nat /\ last \in Nat
  OBVIOUS
<1>3. /\ Stmt("columns", t, 0) \in Fitting
      /\ \A i \in 1..m : Stmt("add", t, first + i) \in Fitting
  BY DEF Stmt, Fitting, Operations, Created
<1>4. G \in Seq(Fitting) /\ Len(G) = m /\ \A i \in 1..m : G[i] = Stmt("add", t, first + i)
  <2>1. G \in [1..m -> Fitting]
    BY <1>3
  <2>2. G \in Seq(Fitting)
    BY <1>2, <2>1, SeqDef
  <2>3. DOMAIN G = 1..Len(G) /\ Len(G) \in Nat
    BY <2>2, LenProperties
  <2>4. DOMAIN G = 1..m /\ \A i \in 1..m : G[i] = Stmt("add", t, first + i)
    OBVIOUS
  <2> HIDE DEF G, m
  <2> QED
    BY <1>2, <2>2, <2>3, <2>4, SameLength
<1> HIDE DEF G
<1>5. /\ F \in Seq(Fitting)
      /\ Len(F) = 1 + m
      /\ \A i \in 1..1 + m : F[i] =
           IF i <= 1 THEN <<Stmt("columns", t, 0)>>[i] ELSE G[i - 1]
  <2> DEFINE H == <<Stmt("columns", t, 0)>>
  <2>1. H \in Seq(Fitting) /\ Len(H) = 1
    BY <1>3
  <2> HIDE DEF H
  <2>2. /\ H \o G \in Seq(Fitting)
        /\ Len(H \o G) = Len(H) + Len(G)
        /\ \A i \in 1..Len(H) + Len(G) : (H \o G)[i] =
             IF i <= Len(H) THEN H[i] ELSE G[i - Len(H)]
    BY <1>4, <2>1, ConcatProperties
  <2> QED
    BY <1>4, <2>1, <2>2 DEF H
<1>6. /\ F[1] = Stmt("columns", t, 0)
      /\ \A i \in 2..1 + m : F[i] = Stmt("add", t, first + (i - 1))
  <2>1. F[1] = Stmt("columns", t, 0)
    BY <1>2, <1>5
  <2>2. ASSUME NEW i \in 2..1 + m PROVE F[i] = Stmt("add", t, first + (i - 1))
    <3>1. i \in 1..1 + m /\ ~(i <= 1) /\ i - 1 \in 1..m
      BY <1>2
    <3> HIDE DEF F
    <3> QED
      BY <1>4, <1>5, <3>1
  <2> QED
    BY <2>1, <2>2
<1> HIDE DEF F
<1>7. \A i \in 1..Len(F) : i = 1 \/ i \in 2..1 + m
  BY <1>2, <1>5
<1>8. Linked(F)
  <2> SUFFICES ASSUME NEW i \in 2..1 + m PROVE Follows(F[i-1], F[i])
    BY <1>2, <1>6, <1>7 DEF Linked, Dependent, Stmt
  <2>1. F[i] = Stmt("add", t, first + (i - 1))
    BY <1>6
  <2>2. CASE i = 2
    BY <1>6, <2>1, <2>2 DEF Follows, Stmt
  <2>3. CASE i # 2
    <3>1. i - 1 \in 2..1 + m /\ first + (i - 1) = first + ((i - 1) - 1) + 1
      BY <1>2, <2>3
    <3>2. F[i-1] = Stmt("add", t, first + ((i - 1) - 1))
      BY <1>6, <3>1
    <3> QED
      BY <2>1, <3>1, <3>2 DEF Follows, Stmt
  <2> QED
    BY <2>2, <2>3
<1>9. \A i \in 1..Len(F) : F[i].table = t /\ F[i].op \in {"columns", "add"}
  <2> SUFFICES ASSUME NEW i \in 1..Len(F)
               PROVE  F[i].table = t /\ F[i].op \in {"columns", "add"}
    OBVIOUS
  <2>1. CASE i = 1
    BY <1>6, <2>1 DEF Stmt
  <2>2. CASE i \in 2..1 + m
    <3>1. F[i] = Stmt("add", t, first + (i - 1))
      BY <1>6, <2>2
    <3> QED
      BY <3>1 DEF Stmt
  <2> QED
    BY <1>7, <2>1, <2>2
<1>10. InTime(F, a, b)
  BY <1>9 DEF InTime, Timed
<1>11. ASSUME NEW n \in first..last PROVE Holds(F, Stmt("add", t, n + 1))
  <2> DEFINE i == n - first + 2
  <2>1. i \in 2..1 + m /\ i \in 1..Len(F) /\ first + (i - 1) = n + 1
    BY <1>2, <1>5
  <2>2. F[i] = Stmt("add", t, n + 1)
    <3> HIDE DEF i
    <3> QED
      BY <1>6, <2>1
  <2> QED
    BY <2>1, <2>2 DEF Holds
<1>12. Len(F) > 0
  BY <1>2, <1>5
<1>13. Section(F, a, b)
  BY <1>5, <1>8, <1>10 DEF Section
<1> QED
  BY <1>1, <1>9, <1>11, <1>12, <1>13

\* A section whose columns, backfills and updates find their table among T or
\* created before.
Prepared(F, T) ==
  \A i \in 1..Len(F) :
    F[i].op \in {"columns", "add", "backfill", "update"} =>
      \/ F[i].table \in T
      \/ \E j \in 1..i-1 : F[j] = Stmt("create", F[i].table, 1)

Part(F, a, b, T) == Section(F, a, b) /\ Prepared(F, T)

Ends(F, s) == Len(F) > 0 /\ F[Len(F)] = s

LEMMA PartConcat ==
  ASSUME NEW F, NEW G, NEW a \in Nat, NEW b \in Nat, NEW c \in Nat,
         a <= b, b <= c, NEW T, NEW U, Part(F, a, b, T), Part(G, b, c, U),
         \A u \in U : u \in T \/ Holds(F, Stmt("create", u, 1))
  PROVE  /\ Part(F \o G, a, c, T)
         /\ \A s : Holds(F, s) \/ Holds(G, s) => Holds(F \o G, s)
         /\ \A s : Ends(G, s) => Ends(F \o G, s)
<1>1. F \in Seq(Fitting) /\ G \in Seq(Fitting)
  BY DEF Part, Section
<1>2. /\ F \o G \in Seq(Fitting)
      /\ Len(F \o G) = Len(F) + Len(G)
      /\ \A i \in 1..Len(F) + Len(G) : (F \o G)[i] =
           IF i <= Len(F) THEN F[i] ELSE G[i - Len(F)]
  BY <1>1, ConcatProperties
<1>3. Len(F) \in Nat /\ Len(G) \in Nat
  BY <1>1, LenProperties
<1>4. /\ \A i \in 1..Len(F) : i \in 1..Len(F) + Len(G) /\ (F \o G)[i] = F[i]
      /\ \A i \in 1..Len(G) : /\ i + Len(F) \in 1..Len(F) + Len(G)
                              /\ (F \o G)[i + Len(F)] = G[i]
  <2>1. ASSUME NEW i \in 1..Len(F)
        PROVE  i \in 1..Len(F) + Len(G) /\ (F \o G)[i] = F[i]
    <3>1. i \in 1..Len(F) + Len(G) /\ i <= Len(F)
      BY <1>3
    <3> QED
      BY <1>2, <3>1
  <2>2. ASSUME NEW i \in 1..Len(G)
        PROVE  /\ i + Len(F) \in 1..Len(F) + Len(G)
               /\ (F \o G)[i + Len(F)] = G[i]
    <3>1. /\ i + Len(F) \in 1..Len(F) + Len(G) /\ ~(i + Len(F) <= Len(F))
          /\ (i + Len(F)) - Len(F) = i
      BY <1>3
    <3> QED
      BY <1>2, <3>1
  <2> QED
    BY <2>1, <2>2
<1>5. \A i \in 1..Len(F) + Len(G) :
        i \in 1..Len(F) \/ \E k \in 1..Len(G) : i = k + Len(F)
  <2> SUFFICES ASSUME NEW i \in 1..Len(F) + Len(G), ~(i \in 1..Len(F))
               PROVE  \E k \in 1..Len(G) : i = k + Len(F)
    OBVIOUS
  <2>1. i - Len(F) \in 1..Len(G) /\ i = (i - Len(F)) + Len(F)
    BY <1>3
  <2> QED
    BY <2>1
<1>6. Prepared(F \o G, T)
  <2> SUFFICES ASSUME NEW i \in 1..Len(F) + Len(G),
                      (F \o G)[i].op \in {"columns", "add", "backfill", "update"},
                      (F \o G)[i].table \notin T
               PROVE  \E j \in 1..i-1 : (F \o G)[j] = Stmt("create", (F \o G)[i].table, 1)
    BY <1>2 DEF Prepared
  <2>1. CASE i \in 1..Len(F)
    <3>1. PICK j \in 1..i-1 : F[j] = Stmt("create", F[i].table, 1)
      BY <1>4, <2>1 DEF Part, Prepared
    <3>2. j \in 1..Len(F)
      BY <1>3, <2>1
    <3> QED
      BY <1>4, <2>1, <3>1, <3>2
  <2>2. ASSUME NEW k \in 1..Len(G), i = k + Len(F)
        PROVE  \E j \in 1..i-1 : (F \o G)[j] = Stmt("create", (F \o G)[i].table, 1)
    <3>1. (F \o G)[i] = G[k]
      BY <1>4, <2>2
    <3>2. CASE G[k].table \in U
      <4>1. PICK j \in 1..Len(F) : F[j] = Stmt("create", G[k].table, 1)
        BY <3>1, <3>2 DEF Holds
      <4>2. j \in 1..i-1
        BY <1>3, <2>2
      <4> QED
        BY <1>4, <3>1, <4>1, <4>2
    <3>3. CASE G[k].table \notin U
      <4>1. PICK j \in 1..k-1 : G[j] = Stmt("create", G[k].table, 1)
        BY <3>1, <3>3 DEF Part, Prepared
      <4>2. j \in 1..Len(G) /\ j + Len(F) \in 1..i-1
        BY <1>3, <2>2
      <4>3. (F \o G)[j + Len(F)] = G[j]
        BY <1>4, <4>2
      <4> QED
        BY <3>1, <4>1, <4>2, <4>3
    <3> QED
      BY <3>2, <3>3
  <2> QED
    BY <1>5, <2>1, <2>2
<1>7. \A s : Holds(F, s) \/ Holds(G, s) => Holds(F \o G, s)
  BY <1>1, ConcatHolds
<1>8. ASSUME NEW s, Ends(G, s) PROVE Ends(F \o G, s)
  <2>1. Len(G) \in 1..Len(G) /\ Len(G) + Len(F) = Len(F \o G) /\ Len(F \o G) > 0
    BY <1>2, <1>3, <1>8 DEF Ends
  <2>2. (F \o G)[Len(G) + Len(F)] = G[Len(G)]
    BY <1>4, <2>1
  <2> QED
    BY <1>8, <2>1, <2>2 DEF Ends
<1>9. Section(F \o G, a, c)
  BY SectionConcat DEF Part
<1> QED
  BY <1>6, <1>7, <1>8, <1>9 DEF Part

LEMMA SnocPart ==
  ASSUME NEW F, NEW s \in Fitting, NEW a \in Nat, NEW b \in Nat, NEW c \in Nat,
         a <= b, b <= c, NEW T, Part(F, a, b, T), NEW e, Ends(F, e), Follows(e, s),
         s.op \notin {"columns", "add", "backfill", "update"},
         Timed(s) => b < Time(s) /\ Time(s) <= c
  PROVE  /\ Part(F \o <<s>>, a, c, T)
         /\ Ends(F \o <<s>>, s)
         /\ \A t : Holds(F, t) \/ t = s => Holds(F \o <<s>>, t)
<1>1. F \in Seq(Fitting) /\ <<s>> \in Seq(Fitting) /\ Len(<<s>>) = 1 /\ <<s>>[1] = s
  BY DEF Part, Section
<1>2. Section(F \o <<s>>, a, c) /\ Ends(F \o <<s>>, s)
  BY SnocSection DEF Part, Ends
<1>3. Holds(<<s>>, s)
  BY <1>1 DEF Holds
<1>4. \A t : Holds(F, t) \/ t = s => Holds(F \o <<s>>, t)
  BY <1>1, <1>3, ConcatHolds
<1>5. Prepared(F \o <<s>>, T)
  <2> DEFINE G == <<s>>
  <2> HIDE DEF G
  <2>1. /\ Len(F \o G) = Len(F) + Len(G)
        /\ \A i \in 1..Len(F) + Len(G) : (F \o G)[i] =
             IF i <= Len(F) THEN F[i] ELSE G[i - Len(F)]
    BY <1>1, ConcatProperties DEF G
  <2>2. Len(F) \in Nat /\ Len(G) = 1 /\ G[1] = s
    BY <1>1, LenProperties DEF G
  <2>3. \A i \in 1..Len(F) : (F \o G)[i] = F[i]
    BY <2>1, <2>2
  <2>4. (F \o G)[Len(F) + 1] = s
    BY <2>1, <2>2
  <2>5. \A i \in 1..Len(F \o G) : i \in 1..Len(F) \/ i = Len(F) + 1
    BY <2>1, <2>2
  <2>6. ASSUME NEW i \in 1..Len(F), NEW j \in 1..i-1
        PROVE  (F \o G)[i] = F[i] /\ (F \o G)[j] = F[j]
    BY <2>2, <2>3
  <2>7. Prepared(F, T)
    BY DEF Part
  <2> SUFFICES Prepared(F \o G, T)
    BY DEF G
  <2> QED
    BY <2>4, <2>5, <2>6, <2>7 DEF Prepared
<1> QED
  BY <1>2, <1>4, <1>5 DEF Part

LEMMA SinglePart ==
  ASSUME NEW s \in Fitting, ~Dependent(s), NEW a \in Nat, NEW b \in Nat,
         Timed(s) => a < Time(s) /\ Time(s) <= b, NEW T,
         s.op \in {"columns", "add", "backfill", "update"} => s.table \in T
  PROVE  Part(<<s>>, a, b, T) /\ Ends(<<s>>, s) /\ Holds(<<s>>, s)
<1>1. Section(<<s>>, a, b)
  BY SingleSection
<1>2. Len(<<s>>) = 1 /\ <<s>>[1] = s /\ 1..1 = {1}
  OBVIOUS
<1>3. Prepared(<<s>>, T)
  BY <1>2 DEF Prepared
<1> QED
  BY <1>1, <1>2, <1>3 DEF Part, Ends, Holds

LEMMA CreatesPart ==
  ASSUME NEW ts \in Seq(Created), NEW T,
         NEW a \in Nat, NEW b \in Nat,
         \A i \in 1..Len(ts) : ts[i] = Promotions => a < 13 /\ 13 <= b,
         \A i, k \in 1..Len(ts) : ts[i] = Promotions /\ ts[k] = Promotions => i = k
  PROVE  /\ Part(Creates(ts), a, b, T)
         /\ \A i \in 1..Len(ts) : Holds(Creates(ts), Stmt("create", ts[i], 1))
<1>1. /\ Section(Creates(ts), a, b)
      /\ Len(Creates(ts)) = Len(ts)
      /\ \A i \in 1..Len(ts) : Holds(Creates(ts), Stmt("create", ts[i], 1))
  BY CreatesSection
<1>2. \A i \in 1..Len(ts) : Creates(ts)[i].op = "create"
  <2>1. DOMAIN ts = 1..Len(ts)
    BY LenProperties
  <2> QED
    BY <2>1 DEF Creates, Create, Statement
<1>3. Prepared(Creates(ts), T)
  BY <1>1, <1>2 DEF Prepared
<1> QED
  BY <1>1, <1>3 DEF Part

LEMMA AddColumnsPart ==
  ASSUME NEW t \in Created \ {Promotions},
         NEW first \in 1..15, NEW last \in first..15, NEW a \in Nat, NEW b \in Nat,
         NEW T, t \in T
  PROVE  /\ Part(AddColumns(t, first, last), a, b, T)
         /\ \A n \in first..last :
              Holds(AddColumns(t, first, last), Stmt("add", t, n + 1))
<1> DEFINE F == AddColumns(t, first, last)
<1>1. /\ Section(F, a, b)
      /\ \A n \in first..last : Holds(F, Stmt("add", t, n + 1))
      /\ \A i \in 1..Len(F) : F[i].table = t
  <2>1. Section(F, a, b)
    BY AddColumnsSection
  <2>2. \A n \in first..last : Holds(F, Stmt("add", t, n + 1))
    BY AddColumnsSection
  <2>3. \A i \in 1..Len(F) : F[i].table = t /\ F[i].op \in {"columns", "add"}
    BY AddColumnsSection
  <2> HIDE DEF F
  <2> QED
    BY <2>1, <2>2, <2>3
<1> HIDE DEF F
<1>2. Prepared(F, T)
  BY <1>1 DEF Prepared
<1>3. Part(F, a, b, T)
  BY <1>1, <1>2 DEF Part
<1> QED
  BY <1>1, <1>3 DEF F

RecordOf(v) == Stmt("record", "schema_version", v)

LEMMA RecordPart ==
  ASSUME NEW v \in 1..10, v # 8, NEW T
  PROVE  /\ Record(v) = <<RecordOf(v)>>
         /\ Part(Record(v), 2 * v - 2, 2 * v, T)
         /\ Part(Record(v), 2 * v - 1, 2 * v, T)
         /\ Ends(Record(v), RecordOf(v)) /\ Holds(Record(v), RecordOf(v))
<1>1. Record(v) = <<RecordOf(v)>>
  BY StatementIs DEF Record, RecordOf
<1>3. /\ RecordOf(v).op = "record" /\ RecordOf(v).n = v
      /\ RecordOf(v).table = "schema_version"
      /\ RecordOf(v) \in [op : Operations, table : Names, n : 0..16]
  BY DEF RecordOf, Stmt, Operations, Names
<1>2. RecordOf(v) \in Fitting /\ ~Dependent(RecordOf(v)) /\ Time(RecordOf(v)) = 2 * v
  BY <1>3 DEF Fitting, Dependent, Time
<1>4. /\ 2 * v - 2 \in Nat /\ 2 * v - 1 \in Nat /\ 2 * v \in Nat
      /\ 2 * v - 2 < 2 * v /\ 2 * v - 1 < 2 * v /\ 2 * v <= 2 * v
  OBVIOUS
<1> QED
  BY <1>1, <1>2, <1>3, <1>4, SinglePart

\* The sections of the versions.  Each holds its record, which comes last.
VersionPart(F, v, T) ==
  /\ Part(F, 2 * v - 2, 2 * v, T)
  /\ Ends(F, RecordOf(v)) /\ Holds(F, RecordOf(v))

LEMMA PartExtend ==
  ASSUME NEW F, NEW G, NEW a \in Nat, NEW b \in Nat, NEW c \in Nat,
         a <= b, b <= c, NEW T, Part(F, a, b, T), Part(G, b, c, T)
  PROVE  /\ Part(F \o G, a, c, T)
         /\ \A s : Holds(F, s) \/ Holds(G, s) => Holds(F \o G, s)
         /\ \A s : Ends(G, s) => Ends(F \o G, s)
BY PartConcat

LEMMA Version1 ==
  /\ VersionPart(V1, 1, {})
  /\ Holds(V1, Stmt("create", "telemetry_events", 1))
  /\ Holds(V1, Stmt("create", "anomalies", 1))
<1> DEFINE C == <<"telemetry_events", "anomalies">>
<1>1. /\ C \in Seq(Created) /\ Len(C) = 2
      /\ C[1] = "telemetry_events"
      /\ C[2] = "anomalies"
      /\ \A i \in 1..Len(C) : C[i] # Promotions
  <2>1. "telemetry_events" \in Created /\ "anomalies" \in Created
    BY DEF Created, Names, Renamed
  <2> QED
    BY <2>1 DEF Promotions
<1> HIDE DEF C
<1>2. /\ Part(Creates(C), 0, 0, {})
      /\ Holds(Creates(C), Stmt("create", "telemetry_events", 1))
      /\ Holds(Creates(C), Stmt("create", "anomalies", 1))
  BY <1>1, CreatesPart
<1>3. /\ Part(Record(1), 0, 2, {})
      /\ Ends(Record(1), RecordOf(1)) /\ Holds(Record(1), RecordOf(1))
  BY RecordPart
<1>4. V1 = Creates(C) \o Record(1)
  BY DEF V1, C
<1> QED
  BY <1>2, <1>3, <1>4, PartExtend DEF VersionPart

LEMMA Version2 ==
  /\ VersionPart(V2, 2, {"anomalies"})
  /\ Holds(V2, Stmt("create", "collection_sessions", 1))
<1> DEFINE C == <<"collection_sessions", "collector_state">>
           T == {"anomalies"}
<1>1. /\ C \in Seq(Created) /\ Len(C) = 2
      /\ C[1] = "collection_sessions"
      /\ \A i \in 1..Len(C) : C[i] # Promotions
  <2>1. "collection_sessions" \in Created /\ "collector_state" \in Created
    BY DEF Created, Names, Renamed
  <2> QED
    BY <2>1 DEF Promotions
<1>2. /\ T \subseteq Created \ {Promotions}
      /\ "anomalies" \in T
  BY DEF Created, Names, Renamed, Promotions
<1> HIDE DEF C, T
<1>3. /\ Part(AddColumns("anomalies", 1, 2), 2, 2, T)
  BY <1>2, AddColumnsPart
<1>4. /\ Part(Creates(C), 2, 2, T)
      /\ Holds(Creates(C), Stmt("create", "collection_sessions", 1))
  BY <1>1, CreatesPart
<1>5. /\ Part(Record(2), 2, 4, T)
      /\ Ends(Record(2), RecordOf(2)) /\ Holds(Record(2), RecordOf(2))
  BY RecordPart
<1> DEFINE P1 == AddColumns("anomalies", 1, 2) \o Creates(C)
<1>6. /\ Part(P1, 2, 2, T)
      /\ Holds(P1, Stmt("create", "collection_sessions", 1))
  BY <1>3, <1>4, PartExtend
<1>7. V2 = P1 \o Record(2)
  BY DEF V2, C
<1> HIDE DEF P1
<1> QED
  BY <1>6, <1>5, <1>7, PartExtend DEF VersionPart, T

LEMMA Version3 ==
  /\ VersionPart(V3, 3, {"collection_sessions"})
<1> DEFINE T == {"collection_sessions"}
<1>1. /\ T \subseteq Created \ {Promotions}
      /\ "collection_sessions" \in T
  BY DEF Created, Names, Renamed, Promotions
<1> HIDE DEF T
<1>2. /\ Part(AddColumns("collection_sessions", 1, 2), 4, 4, T)
  BY <1>1, AddColumnsPart
<1>3. /\ Part(Record(3), 4, 6, T)
      /\ Ends(Record(3), RecordOf(3)) /\ Holds(Record(3), RecordOf(3))
  BY RecordPart
<1>4. V3 = AddColumns("collection_sessions", 1, 2) \o Record(3)
  BY DEF V3
<1> QED
  BY <1>2, <1>3, <1>4, PartExtend DEF VersionPart, T

LEMMA Version4 ==
  /\ VersionPart(V4, 4, {"telemetry_events"})
  /\ Holds(V4, Stmt("create", "feature_windows", 1))
  /\ Holds(V4, Stmt("create", "feature_materialization_state", 1))
  /\ Holds(V4, Stmt("add", "telemetry_events", 8))
<1> DEFINE C == <<"quarantined_events", "feature_windows",
                  "feature_materialization_state", "data_quality_runs",
                  "dataset_snapshots">>
           T == {"telemetry_events"}
<1>1. /\ C \in Seq(Created) /\ Len(C) = 5
      /\ C[2] = "feature_windows"
      /\ C[3] = "feature_materialization_state"
      /\ \A i \in 1..Len(C) : C[i] # Promotions
  <2>1. "quarantined_events" \in Created /\
        "feature_windows" \in Created /\
        "feature_materialization_state" \in Created /\
        "data_quality_runs" \in Created /\ "dataset_snapshots" \in Created
    BY DEF Created, Names, Renamed
  <2> QED
    BY <2>1 DEF Promotions
<1>2. /\ T \subseteq Created \ {Promotions}
      /\ "telemetry_events" \in T
  BY DEF Created, Names, Renamed, Promotions
<1> HIDE DEF C, T
<1>3. /\ Part(AddColumns("telemetry_events", 1, 7), 6, 6, T)
      /\ Holds(AddColumns("telemetry_events", 1, 7), Stmt("add", "telemetry_events", 8))
  BY <1>2, AddColumnsPart
<1>4. Part(Statement("backfill", "telemetry_events", 0), 6, 6, T)
  <2>1. LET s == Stmt("backfill", "telemetry_events", 0)
        IN  s \in Fitting /\ ~Dependent(s) /\ ~Timed(s) /\ s.table \in T
    BY <1>2 DEF Stmt, Fitting, Operations, Dependent, Timed, Created
  <2> QED
    BY <2>1, SinglePart, StatementIs
<1>5. /\ Part(Creates(C), 6, 6, T)
      /\ Holds(Creates(C), Stmt("create", "feature_windows", 1))
      /\ Holds(Creates(C), Stmt("create", "feature_materialization_state", 1))
  <2>1. /\ Part(Creates(C), 6, 6, T)
        /\ \A i \in 1..Len(C) : Holds(Creates(C), Stmt("create", C[i], 1))
    BY <1>1, CreatesPart
  <2>2. 2 \in 1..Len(C) /\ 3 \in 1..Len(C)
    BY <1>1
  <2> QED
    BY <1>1, <2>1, <2>2
<1>6. /\ Part(Record(4), 6, 8, T)
      /\ Ends(Record(4), RecordOf(4)) /\ Holds(Record(4), RecordOf(4))
  BY RecordPart
<1> DEFINE P1 == AddColumns("telemetry_events", 1, 7) \o Statement("backfill", "telemetry_events", 0)
           P2 == P1 \o Creates(C)
<1>7. /\ Part(P1, 6, 6, T)
      /\ Holds(P1, Stmt("add", "telemetry_events", 8))
  BY <1>3, <1>4, PartExtend
<1>8. /\ Part(P2, 6, 6, T)
      /\ Holds(P2, Stmt("add", "telemetry_events", 8))
      /\ Holds(P2, Stmt("create", "feature_windows", 1))
      /\ Holds(P2, Stmt("create", "feature_materialization_state", 1))
  <2> HIDE DEF P1
  <2> QED
    BY <1>7, <1>5, PartExtend DEF P2
<1>9. V4 = P2 \o Record(4)
  BY DEF V4, C
<1> HIDE DEF P2
<1> QED
  BY <1>8, <1>6, <1>9, PartExtend DEF VersionPart, T

LEMMA Version5 ==
  /\ VersionPart(V5, 5, {"feature_materialization_state"})
<1> DEFINE C == <<"collector_observations", "late_event_records",
                  "duplicate_event_records">>
           T == {"feature_materialization_state"}
<1>1. /\ C \in Seq(Created) /\ Len(C) = 3
      /\ \A i \in 1..Len(C) : C[i] # Promotions
  <2>1. "collector_observations" \in Created /\
        "late_event_records" \in Created /\
        "duplicate_event_records" \in Created
    BY DEF Created, Names, Renamed
  <2> QED
    BY <2>1 DEF Promotions
<1>2. /\ T \subseteq Created \ {Promotions}
      /\ "feature_materialization_state" \in T
  BY DEF Created, Names, Renamed, Promotions
<1> HIDE DEF C, T
<1>3. /\ Part(AddColumns("feature_materialization_state", 1, 7), 8, 8, T)
  BY <1>2, AddColumnsPart
<1>4. /\ Part(Creates(C), 8, 8, T)
  BY <1>1, CreatesPart
<1>5. /\ Part(Record(5), 8, 10, T)
      /\ Ends(Record(5), RecordOf(5)) /\ Holds(Record(5), RecordOf(5))
  BY RecordPart
<1> DEFINE P1 == AddColumns("feature_materialization_state", 1, 7) \o Creates(C)
<1>6. /\ Part(P1, 8, 8, T)
  BY <1>3, <1>4, PartExtend
<1>7. V5 = P1 \o Record(5)
  BY DEF V5, C
<1> HIDE DEF P1
<1> QED
  BY <1>6, <1>5, <1>7, PartExtend DEF VersionPart, T

LEMMA Version6 ==
  /\ VersionPart(V6, 6, {"feature_materialization_state"})
  /\ Holds(V6, Stmt("add", "feature_materialization_state", 9))
<1> DEFINE T == {"feature_materialization_state"}
<1>1. /\ T \subseteq Created \ {Promotions}
      /\ "feature_materialization_state" \in T
  BY DEF Created, Names, Renamed, Promotions
<1> HIDE DEF T
<1>2. /\ Part(AddColumns("feature_materialization_state", 8, 8), 10, 10, T)
      /\ Holds(AddColumns("feature_materialization_state", 8, 8), Stmt("add", "feature_materialization_state", 9))
  BY <1>1, AddColumnsPart
<1>3. /\ Part(Record(6), 10, 12, T)
      /\ Ends(Record(6), RecordOf(6)) /\ Holds(Record(6), RecordOf(6))
  BY RecordPart
<1>4. V6 = AddColumns("feature_materialization_state", 8, 8) \o Record(6)
  BY DEF V6
<1> QED
  BY <1>2, <1>3, <1>4, PartExtend DEF VersionPart, T

LEMMA Version7 ==
  /\ VersionPart(V7, 7, {})
  /\ Holds(V7, Stmt("create", "model_promotions", 1))
<1> DEFINE C == <<"training_runs", "model_versions", "model_evaluations",
                  "model_promotions", "scoring_runs", "scored_windows">>
<1>1. /\ C \in Seq(Created) /\ Len(C) = 6
      /\ C[4] = "model_promotions"
      /\ \A i \in 1..Len(C) : C[i] = Promotions => i = 4
  <2>1. "training_runs" \in Created /\ "model_versions" \in Created /\
        "model_evaluations" \in Created /\
        "model_promotions" \in Created /\ "scoring_runs" \in Created /\
        "scored_windows" \in Created
    BY DEF Created, Names, Renamed
  <2> QED
    BY <2>1 DEF Promotions
<1> HIDE DEF C
<1>2. /\ Part(Creates(C), 12, 13, {})
      /\ Holds(Creates(C), Stmt("create", "model_promotions", 1))
  <2>1. /\ Part(Creates(C), 12, 13, {})
        /\ \A i \in 1..Len(C) : Holds(Creates(C), Stmt("create", C[i], 1))
    <3>1. \A i, k \in 1..Len(C) : C[i] = Promotions /\ C[k] = Promotions => i = k
      BY <1>1
    <3>2. 12 \in Nat /\ 13 \in Nat /\ 12 < 13 /\ 13 <= 13
      OBVIOUS
    <3> QED
      BY <1>1, <3>1, <3>2, CreatesPart, Zenon
  <2>2. 4 \in 1..Len(C)
    BY <1>1
  <2> QED
    BY <1>1, <2>1, <2>2
<1>3. /\ Part(Record(7), 13, 14, {})
      /\ Ends(Record(7), RecordOf(7)) /\ Holds(Record(7), RecordOf(7))
  BY RecordPart
<1>4. V7 = Creates(C) \o Record(7)
  BY DEF V7, C, Promotions
<1> QED
  BY <1>2, <1>3, <1>4, PartExtend DEF VersionPart

LEMMA Version8 ==
  /\ VersionPart(V8, 8, {Promotions})
  /\ Holds(V8, Stmt("drop", Renamed, 0))
  /\ Holds(V8, Stmt("rename", Promotions, 0))
<1> DEFINE c == Stmt("columns", Promotions, 0)
           n == Stmt("rename", Promotions, 0)
           r == Stmt("recreate", Promotions, 0)
           p == Stmt("copy", Promotions, 0)
           d == Stmt("drop", Renamed, 0)
           x == Stmt("index", Promotions, 1)
           e == RecordOf(8)
           T == {Promotions}
<1>1. /\ Promotions \in Created /\ Promotions \in Names /\ Renamed \in Names
      /\ "schema_version" \in Names
  BY DEF Created, Names, Promotions, Renamed
<1>2. /\ c \in Fitting /\ ~Dependent(c) /\ ~Timed(c) /\ c.table \in T
      /\ c.op = "columns"
  BY <1>1 DEF Fitting, Operations, Stmt, Dependent, Timed
<1>3. /\ n \in Fitting /\ Follows(c, n) /\ Time(n) = 15 /\ n.op = "rename"
      /\ r \in Fitting /\ Follows(n, r) /\ ~Timed(r) /\ r.op = "recreate"
      /\ p \in Fitting /\ Follows(r, p) /\ ~Timed(p) /\ p.op = "copy"
  BY <1>1 DEF Fitting, Operations, Stmt, Timed, Time, Follows
<1>4. /\ d \in Fitting /\ Follows(p, d) /\ ~Timed(d) /\ d.op = "drop"
      /\ x \in Fitting /\ Follows(d, x) /\ ~Timed(x) /\ x.op = "index"
      /\ e \in Fitting /\ Follows(x, e) /\ Time(e) = 16 /\ e.op = "record"
  BY <1>1 DEF Fitting, Operations, Stmt, RecordOf, Timed, Time, Follows
<1> HIDE DEF c, n, r, p, d, x, e, T
<1>5. Part(<<c>>, 14, 14, T) /\ Ends(<<c>>, c)
  BY <1>2, SinglePart
<1> DEFINE F1 == <<c>> \o <<n>>
           F2 == F1 \o <<r>>
           F3 == F2 \o <<p>>
           F4 == F3 \o <<d>>
           F5 == F4 \o <<x>>
<1>6. Part(F1, 14, 15, T) /\ Ends(F1, n) /\ Holds(F1, n)
  BY <1>3, <1>5, SnocPart
<1>7. Part(F2, 14, 15, T) /\ Ends(F2, r) /\ Holds(F2, n)
  <2> HIDE DEF F1
  <2> QED
    BY <1>3, <1>6, SnocPart
<1>8. Part(F3, 14, 15, T) /\ Ends(F3, p) /\ Holds(F3, n)
  <2> HIDE DEF F2
  <2> QED
    BY <1>3, <1>7, SnocPart
<1>9. Part(F4, 14, 15, T) /\ Ends(F4, d) /\ Holds(F4, n) /\ Holds(F4, d)
  <2> HIDE DEF F3
  <2> QED
    BY <1>4, <1>8, SnocPart
<1>10. Part(F5, 14, 15, T) /\ Ends(F5, x) /\ Holds(F5, n) /\ Holds(F5, d)
  <2> HIDE DEF F4
  <2> QED
    BY <1>4, <1>9, SnocPart
<1>11. /\ Part(F5 \o <<e>>, 14, 16, T) /\ Ends(F5 \o <<e>>, e)
       /\ Holds(F5 \o <<e>>, e) /\ Holds(F5 \o <<e>>, n) /\ Holds(F5 \o <<e>>, d)
  <2> HIDE DEF F5
  <2> QED
    BY <1>4, <1>10, SnocPart
<1>12. V8 = F5 \o <<e>>
  <2>1. /\ Statement("columns", Promotions, 0) = <<c>>
        /\ Statement("rename", Promotions, 0) = <<n>>
        /\ Statement("recreate", Promotions, 0) = <<r>>
        /\ Statement("copy", Promotions, 0) = <<p>>
        /\ Statement("drop", Renamed, 0) = <<d>>
        /\ Index = <<x>> /\ Record(8) = <<e>>
    BY StatementIs DEF Index, Record, RecordOf, c, n, r, p, d, x, e
  <2> QED
    BY <2>1 DEF V8
<1> HIDE DEF F5
<1> QED
  BY <1>11, <1>12 DEF VersionPart, n, d, e, T

LEMMA Version9 ==
  /\ VersionPart(V9, 9, {})
  /\ Holds(V9, Stmt("create", "detection_runs", 1))
  /\ Holds(V9, Stmt("create", "detection_evaluations", 1))
  /\ Holds(V9, Stmt("create", "findings", 1))
  /\ Holds(V9, Stmt("create", "detection_worker_leases", 1))
<1> DEFINE C1 == <<"detection_policies", "detection_runs",
                  "detection_evaluations">>
           C2 == <<"findings", "finding_occurrences",
                  "finding_state_history", "detection_suppressions",
                  "detection_watermarks", "detection_worker_leases">>
<1>1. /\ C1 \in Seq(Created) /\ Len(C1) = 3
      /\ C1[2] = "detection_runs"
      /\ C1[3] = "detection_evaluations"
      /\ \A i \in 1..Len(C1) : C1[i] # Promotions
  <2>1. "detection_policies" \in Created /\ "detection_runs" \in Created /\
        "detection_evaluations" \in Created
    BY DEF Created, Names, Renamed
  <2> QED
    BY <2>1 DEF Promotions
<1>2. /\ C2 \in Seq(Created) /\ Len(C2) = 6
      /\ C2[1] = "findings"
      /\ C2[6] = "detection_worker_leases"
      /\ \A i \in 1..Len(C2) : C2[i] # Promotions
  <2>1. "findings" \in Created /\ "finding_occurrences" \in Created /\
        "finding_state_history" \in Created /\
        "detection_suppressions" \in Created /\
        "detection_watermarks" \in Created /\
        "detection_worker_leases" \in Created
    BY DEF Created, Names, Renamed
  <2> QED
    BY <2>1 DEF Promotions
<1> HIDE DEF C1, C2
<1>3. /\ Part(Creates(C1), 16, 16, {})
      /\ Holds(Creates(C1), Stmt("create", "detection_runs", 1))
      /\ Holds(Creates(C1), Stmt("create", "detection_evaluations", 1))
  <2>1. /\ Part(Creates(C1), 16, 16, {})
        /\ \A i \in 1..Len(C1) : Holds(Creates(C1), Stmt("create", C1[i], 1))
    BY <1>1, CreatesPart
  <2>2. 2 \in 1..Len(C1) /\ 3 \in 1..Len(C1)
    BY <1>1
  <2> QED
    BY <1>1, <2>1, <2>2
<1>4. /\ Part(Creates(C2), 16, 16, {})
      /\ Holds(Creates(C2), Stmt("create", "findings", 1))
      /\ Holds(Creates(C2), Stmt("create", "detection_worker_leases", 1))
  <2>1. /\ Part(Creates(C2), 16, 16, {})
        /\ \A i \in 1..Len(C2) : Holds(Creates(C2), Stmt("create", C2[i], 1))
    BY <1>2, CreatesPart
  <2>2. 1 \in 1..Len(C2) /\ 6 \in 1..Len(C2)
    BY <1>2
  <2> QED
    BY <1>2, <2>1, <2>2
<1>5. /\ Part(Record(9), 16, 18, {})
      /\ Ends(Record(9), RecordOf(9)) /\ Holds(Record(9), RecordOf(9))
  BY RecordPart
<1> DEFINE P1 == Creates(C1) \o Creates(C2)
<1>6. /\ Part(P1, 16, 16, {})
      /\ Holds(P1, Stmt("create", "detection_runs", 1))
      /\ Holds(P1, Stmt("create", "detection_evaluations", 1))
      /\ Holds(P1, Stmt("create", "findings", 1))
      /\ Holds(P1, Stmt("create", "detection_worker_leases", 1))
  BY <1>3, <1>4, PartExtend
<1>7. V9 = P1 \o Record(9)
  BY DEF V9, C1, C2, DetectionTables, FindingTables
<1> HIDE DEF P1
<1> QED
  BY <1>6, <1>5, <1>7, PartExtend DEF VersionPart

LEMMA Version10 ==
  /\ VersionPart(V10, 10, {"feature_windows", "detection_runs",
                      "detection_evaluations", "findings",
                      "detection_worker_leases"})
  /\ Holds(V10, Stmt("add", "feature_windows", 3))
  /\ Holds(V10, Stmt("add", "detection_runs", 13))
  /\ Holds(V10, Stmt("add", "detection_evaluations", 2))
  /\ Holds(V10, Stmt("add", "findings", 2))
  /\ Holds(V10, Stmt("add", "detection_worker_leases", 7))
<1> DEFINE T == {"feature_windows", "detection_runs",
                "detection_evaluations", "findings",
                "detection_worker_leases"}
<1>1. /\ T \subseteq Created \ {Promotions}
      /\ "feature_windows" \in T
      /\ "detection_runs" \in T
      /\ "detection_evaluations" \in T
      /\ "findings" \in T
      /\ "detection_worker_leases" \in T
  BY DEF Created, Names, Renamed, Promotions
<1> HIDE DEF T
<1>2. /\ Part(AddColumns("feature_windows", 1, 2), 18, 18, T)
      /\ Holds(AddColumns("feature_windows", 1, 2), Stmt("add", "feature_windows", 3))
  BY <1>1, AddColumnsPart
<1>3. Part(Statement("backfill", "feature_windows", 0), 18, 18, T)
  <2>1. LET s == Stmt("backfill", "feature_windows", 0)
        IN  s \in Fitting /\ ~Dependent(s) /\ ~Timed(s) /\ s.table \in T
    BY <1>1 DEF Stmt, Fitting, Operations, Dependent, Timed, Created
  <2> QED
    BY <2>1, SinglePart, StatementIs
<1>4. /\ Part(AddColumns("detection_runs", 1, 15), 18, 18, T)
      /\ Holds(AddColumns("detection_runs", 1, 15), Stmt("add", "detection_runs", 13))
  BY <1>1, AddColumnsPart
<1>5. Part(Statement("update", "detection_runs", 0), 18, 18, T)
  <2>1. LET s == Stmt("update", "detection_runs", 0)
        IN  s \in Fitting /\ ~Dependent(s) /\ ~Timed(s) /\ s.table \in T
    BY <1>1 DEF Stmt, Fitting, Operations, Dependent, Timed, Created
  <2> QED
    BY <2>1, SinglePart, StatementIs
<1>6. /\ Part(AddColumns("detection_evaluations", 1, 3), 18, 18, T)
      /\ Holds(AddColumns("detection_evaluations", 1, 3), Stmt("add", "detection_evaluations", 2))
  BY <1>1, AddColumnsPart
<1>7. /\ Part(AddColumns("findings", 1, 1), 18, 18, T)
      /\ Holds(AddColumns("findings", 1, 1), Stmt("add", "findings", 2))
  BY <1>1, AddColumnsPart
<1>8. /\ Part(AddColumns("detection_worker_leases", 1, 6), 18, 18, T)
      /\ Holds(AddColumns("detection_worker_leases", 1, 6), Stmt("add", "detection_worker_leases", 7))
  BY <1>1, AddColumnsPart
<1>9. \A t \in UniqueIndexes \cup {"detection_policy_activations"} :
         Part(Statement("create", t, 1), 18, 18, T)
  <2> SUFFICES ASSUME NEW t \in UniqueIndexes \cup {"detection_policy_activations"}
               PROVE  Part(Statement("create", t, 1), 18, 18, T)
    OBVIOUS
  <2>1. t \in Created /\ t # Promotions /\ Created \subseteq Names
    BY DEF Created, Names, Renamed, Promotions, UniqueIndexes, RunningNamespace,
       OccurrenceEvaluation
  <2>2. LET s == Stmt("create", t, 1)
        IN  s \in Fitting /\ ~Dependent(s) /\ ~Timed(s) /\ s.op = "create"
    BY <2>1 DEF Stmt, Fitting, Operations, Dependent, Timed
  <2> QED
    BY <2>2, SinglePart, StatementIs
<1>10. /\ Part(Record(10), 18, 20, T)
      /\ Ends(Record(10), RecordOf(10)) /\ Holds(Record(10), RecordOf(10))
  BY RecordPart
<1> DEFINE P1 == AddColumns("feature_windows", 1, 2) \o Statement("backfill", "feature_windows", 0)
           P2 == P1 \o AddColumns("detection_runs", 1, 15)
           P3 == P2 \o Statement("update", "detection_runs", 0)
           R3 == P3 \o Statement("create", RunningNamespace, 1)
           P4 == R3 \o AddColumns("detection_evaluations", 1, 3)
           R4 == P4 \o Statement("create", OccurrenceEvaluation, 1)
           P5 == R4 \o AddColumns("findings", 1, 1)
           P6 == P5 \o AddColumns("detection_worker_leases", 1, 6)
           P7 == P6 \o Statement("create", "detection_policy_activations", 1)
<1>11. /\ Part(P1, 18, 18, T)
      /\ Holds(P1, Stmt("add", "feature_windows", 3))
  BY <1>2, <1>3, PartExtend
<1>12. /\ Part(P2, 18, 18, T)
      /\ Holds(P2, Stmt("add", "feature_windows", 3))
      /\ Holds(P2, Stmt("add", "detection_runs", 13))
  <2> HIDE DEF P1
  <2> QED
    BY <1>11, <1>4, PartExtend DEF P2
<1>13. /\ Part(P3, 18, 18, T)
      /\ Holds(P3, Stmt("add", "feature_windows", 3))
      /\ Holds(P3, Stmt("add", "detection_runs", 13))
  <2> HIDE DEF P2
  <2> QED
    BY <1>12, <1>5, PartExtend DEF P3
<1>14. /\ Part(R3, 18, 18, T)
      /\ Holds(R3, Stmt("add", "feature_windows", 3))
      /\ Holds(R3, Stmt("add", "detection_runs", 13))
  <2>1. Part(Statement("create", RunningNamespace, 1), 18, 18, T)
    BY <1>9 DEF UniqueIndexes
  <2> HIDE DEF P3
  <2> QED
    BY <1>13, <2>1, PartExtend DEF R3
<1>15. /\ Part(P4, 18, 18, T)
      /\ Holds(P4, Stmt("add", "feature_windows", 3))
      /\ Holds(P4, Stmt("add", "detection_runs", 13))
      /\ Holds(P4, Stmt("add", "detection_evaluations", 2))
  <2> HIDE DEF R3
  <2> QED
    BY <1>14, <1>6, PartExtend DEF P4
<1>16. /\ Part(R4, 18, 18, T)
      /\ Holds(R4, Stmt("add", "feature_windows", 3))
      /\ Holds(R4, Stmt("add", "detection_runs", 13))
      /\ Holds(R4, Stmt("add", "detection_evaluations", 2))
  <2>1. Part(Statement("create", OccurrenceEvaluation, 1), 18, 18, T)
    BY <1>9 DEF UniqueIndexes
  <2> HIDE DEF P4
  <2> QED
    BY <1>15, <2>1, PartExtend DEF R4
<1>17. /\ Part(P5, 18, 18, T)
      /\ Holds(P5, Stmt("add", "feature_windows", 3))
      /\ Holds(P5, Stmt("add", "detection_runs", 13))
      /\ Holds(P5, Stmt("add", "detection_evaluations", 2))
      /\ Holds(P5, Stmt("add", "findings", 2))
  <2> HIDE DEF R4
  <2> QED
    BY <1>16, <1>7, PartExtend DEF P5
<1>18. /\ Part(P6, 18, 18, T)
      /\ Holds(P6, Stmt("add", "feature_windows", 3))
      /\ Holds(P6, Stmt("add", "detection_runs", 13))
      /\ Holds(P6, Stmt("add", "detection_evaluations", 2))
      /\ Holds(P6, Stmt("add", "findings", 2))
      /\ Holds(P6, Stmt("add", "detection_worker_leases", 7))
  <2> HIDE DEF P5
  <2> QED
    BY <1>17, <1>8, PartExtend DEF P6
<1>19. /\ Part(P7, 18, 18, T)
      /\ Holds(P7, Stmt("add", "feature_windows", 3))
      /\ Holds(P7, Stmt("add", "detection_runs", 13))
      /\ Holds(P7, Stmt("add", "detection_evaluations", 2))
      /\ Holds(P7, Stmt("add", "findings", 2))
      /\ Holds(P7, Stmt("add", "detection_worker_leases", 7))
  <2> HIDE DEF P6
  <2> QED
    BY <1>18, <1>9, PartExtend DEF P7
<1>20. V10 = P7 \o Record(10)
  BY DEF V10, Create
<1> HIDE DEF P7
<1> QED
  BY <1>19, <1>10, <1>20, PartExtend DEF VersionPart, T

\* The script as a whole.
ScriptFacts ==
  /\ Script \in Seq(Fitting) /\ Linked(Script) /\ InTime(Script, 0, 21)
  /\ Prepared(Script, {})
  /\ Len(Script) > 1 /\ Script[Len(Script)].op = "assert"
  /\ \A v \in 1..10 : Holds(Script, RecordOf(v))
  /\ \A i, j \in 1..Len(Script) :
       Script[i] = RecordOf(10) /\ Script[j].op \in {"create", "add"} => j < i
  /\ \A s : \/ s = Stmt("create", Promotions, 1)
            \/ s = Stmt("rename", Promotions, 0)
            \/ s = Stmt("drop", Renamed, 0)
            \/ s = Stmt("add", "telemetry_events", 8)
            \/ s = Stmt("add", "feature_materialization_state", 9)
            \/ s = Stmt("add", "feature_windows", 3)
            \/ s = Stmt("add", "detection_runs", 13)
            \/ s = Stmt("add", "detection_evaluations", 2)
            \/ s = Stmt("add", "findings", 2)
            \/ s = Stmt("add", "detection_worker_leases", 7)
            => Holds(Script, s)

LEMMA ScriptIs == ScriptFacts
<1> DEFINE P2 == V1 \o V2
           P3 == P2 \o V3
           P4 == P3 \o V4
           P5 == P4 \o V5
           P6 == P5 \o V6
           P7 == P6 \o V7
           P8 == P7 \o V8
           P9 == P8 \o V9
           P10 == P9 \o V10
           S == P10 \o <<Stmt("index", Promotions, 1)>>
<1>1. /\ Part(V1, 0, 2, {}) /\ Ends(V1, RecordOf(1)) /\ Holds(V1, RecordOf(1))
      /\ Holds(V1, Stmt("create", "anomalies", 1))
      /\ Holds(V1, Stmt("create", "telemetry_events", 1))
  BY Version1 DEF VersionPart
<1>2. /\ Part(P2, 0, 4, {}) /\ Ends(P2, RecordOf(2)) /\ Holds(P2, RecordOf(2))
      /\ \A s : Holds(V1, s) \/ Holds(V2, s) => Holds(P2, s)
      /\ Holds(P2, Stmt("create", "telemetry_events", 1))
      /\ Holds(P2, Stmt("create", "collection_sessions", 1))
  <2>1. /\ Part(V2, 2, 4, {"anomalies"})
        /\ Ends(V2, RecordOf(2)) /\ Holds(V2, RecordOf(2))
    BY Version2 DEF VersionPart
  <2>2. \A u \in {"anomalies"} :
          u \in {} \/ Holds(V1, Stmt("create", u, 1))
    BY <1>1
  <2>3. /\ Part(P2, 0, 4, {})
        /\ \A s : Holds(V1, s) \/ Holds(V2, s) => Holds(P2, s)
        /\ \A s : Ends(V2, s) => Ends(P2, s)
    BY <1>1, <2>1, <2>2, PartConcat
  <2> HIDE DEF P2
  <2> QED
    BY <1>1, <2>1, <2>3, Version2
<1>3. /\ Part(P3, 0, 6, {}) /\ Ends(P3, RecordOf(3)) /\ Holds(P3, RecordOf(3))
      /\ \A s : Holds(P2, s) \/ Holds(V3, s) => Holds(P3, s)
      /\ Holds(P3, Stmt("create", "telemetry_events", 1))
  <2> HIDE DEF P2
  <2>1. /\ Part(V3, 4, 6, {"collection_sessions"})
        /\ Ends(V3, RecordOf(3)) /\ Holds(V3, RecordOf(3))
    BY Version3 DEF VersionPart
  <2>2. \A u \in {"collection_sessions"} :
          u \in {} \/ Holds(P2, Stmt("create", u, 1))
    BY <1>2
  <2>3. /\ Part(P3, 0, 6, {})
        /\ \A s : Holds(P2, s) \/ Holds(V3, s) => Holds(P3, s)
        /\ \A s : Ends(V3, s) => Ends(P3, s)
    BY <1>2, <2>1, <2>2, PartConcat
  <2> HIDE DEF P3
  <2> QED
    BY <1>2, <2>1, <2>3, Version3
<1>4. /\ Part(P4, 0, 8, {}) /\ Ends(P4, RecordOf(4)) /\ Holds(P4, RecordOf(4))
      /\ \A s : Holds(P3, s) \/ Holds(V4, s) => Holds(P4, s)
      /\ Holds(P4, Stmt("create", "feature_windows", 1))
      /\ Holds(P4, Stmt("create", "feature_materialization_state", 1))
  <2> HIDE DEF P3
  <2>1. /\ Part(V4, 6, 8, {"telemetry_events"})
        /\ Ends(V4, RecordOf(4)) /\ Holds(V4, RecordOf(4))
    BY Version4 DEF VersionPart
  <2>2. \A u \in {"telemetry_events"} :
          u \in {} \/ Holds(P3, Stmt("create", u, 1))
    BY <1>3
  <2>3. /\ Part(P4, 0, 8, {})
        /\ \A s : Holds(P3, s) \/ Holds(V4, s) => Holds(P4, s)
        /\ \A s : Ends(V4, s) => Ends(P4, s)
    BY <1>3, <2>1, <2>2, PartConcat
  <2> HIDE DEF P4
  <2> QED
    BY <1>3, <2>1, <2>3, Version4
<1>5. /\ Part(P5, 0, 10, {}) /\ Ends(P5, RecordOf(5)) /\ Holds(P5, RecordOf(5))
      /\ \A s : Holds(P4, s) \/ Holds(V5, s) => Holds(P5, s)
      /\ Holds(P5, Stmt("create", "feature_windows", 1))
      /\ Holds(P5, Stmt("create", "feature_materialization_state", 1))
  <2> HIDE DEF P4
  <2>1. /\ Part(V5, 8, 10, {"feature_materialization_state"})
        /\ Ends(V5, RecordOf(5)) /\ Holds(V5, RecordOf(5))
    BY Version5 DEF VersionPart
  <2>2. \A u \in {"feature_materialization_state"} :
          u \in {} \/ Holds(P4, Stmt("create", u, 1))
    BY <1>4
  <2>3. /\ Part(P5, 0, 10, {})
        /\ \A s : Holds(P4, s) \/ Holds(V5, s) => Holds(P5, s)
        /\ \A s : Ends(V5, s) => Ends(P5, s)
    BY <1>4, <2>1, <2>2, PartConcat
  <2> HIDE DEF P5
  <2> QED
    BY <1>4, <2>1, <2>3, Version5
<1>6. /\ Part(P6, 0, 12, {}) /\ Ends(P6, RecordOf(6)) /\ Holds(P6, RecordOf(6))
      /\ \A s : Holds(P5, s) \/ Holds(V6, s) => Holds(P6, s)
      /\ Holds(P6, Stmt("create", "feature_windows", 1))
  <2> HIDE DEF P5
  <2>1. /\ Part(V6, 10, 12, {"feature_materialization_state"})
        /\ Ends(V6, RecordOf(6)) /\ Holds(V6, RecordOf(6))
    BY Version6 DEF VersionPart
  <2>2. \A u \in {"feature_materialization_state"} :
          u \in {} \/ Holds(P5, Stmt("create", u, 1))
    BY <1>5
  <2>3. /\ Part(P6, 0, 12, {})
        /\ \A s : Holds(P5, s) \/ Holds(V6, s) => Holds(P6, s)
        /\ \A s : Ends(V6, s) => Ends(P6, s)
    BY <1>5, <2>1, <2>2, PartConcat
  <2> HIDE DEF P6
  <2> QED
    BY <1>5, <2>1, <2>3, Version6
<1>7. /\ Part(P7, 0, 14, {}) /\ Ends(P7, RecordOf(7)) /\ Holds(P7, RecordOf(7))
      /\ \A s : Holds(P6, s) \/ Holds(V7, s) => Holds(P7, s)
      /\ Holds(P7, Stmt("create", "feature_windows", 1))
      /\ Holds(P7, Stmt("create", "model_promotions", 1))
  <2> HIDE DEF P6
  <2>1. /\ Part(V7, 12, 14, {})
        /\ Ends(V7, RecordOf(7)) /\ Holds(V7, RecordOf(7))
    BY Version7 DEF VersionPart
  <2>2. \A u \in {} :
          u \in {} \/ Holds(P6, Stmt("create", u, 1))
    BY <1>6
  <2>3. /\ Part(P7, 0, 14, {})
        /\ \A s : Holds(P6, s) \/ Holds(V7, s) => Holds(P7, s)
        /\ \A s : Ends(V7, s) => Ends(P7, s)
    BY <1>6, <2>1, <2>2, PartConcat
  <2> HIDE DEF P7
  <2> QED
    BY <1>6, <2>1, <2>3, Version7
<1>8. /\ Part(P8, 0, 16, {}) /\ Ends(P8, RecordOf(8)) /\ Holds(P8, RecordOf(8))
      /\ \A s : Holds(P7, s) \/ Holds(V8, s) => Holds(P8, s)
      /\ Holds(P8, Stmt("create", "feature_windows", 1))
  <2> HIDE DEF P7
  <2>1. /\ Part(V8, 14, 16, {Promotions})
        /\ Ends(V8, RecordOf(8)) /\ Holds(V8, RecordOf(8))
    BY Version8 DEF VersionPart
  <2>2. \A u \in {Promotions} :
          u \in {} \/ Holds(P7, Stmt("create", u, 1))
    BY <1>7 DEF Promotions
  <2>3. /\ Part(P8, 0, 16, {})
        /\ \A s : Holds(P7, s) \/ Holds(V8, s) => Holds(P8, s)
        /\ \A s : Ends(V8, s) => Ends(P8, s)
    BY <1>7, <2>1, <2>2, PartConcat
  <2> HIDE DEF P8
  <2> QED
    BY <1>7, <2>1, <2>3, Version8
<1>9. /\ Part(P9, 0, 18, {}) /\ Ends(P9, RecordOf(9)) /\ Holds(P9, RecordOf(9))
      /\ \A s : Holds(P8, s) \/ Holds(V9, s) => Holds(P9, s)
      /\ Holds(P9, Stmt("create", "feature_windows", 1))
      /\ Holds(P9, Stmt("create", "detection_runs", 1))
      /\ Holds(P9, Stmt("create", "detection_evaluations", 1))
      /\ Holds(P9, Stmt("create", "findings", 1))
      /\ Holds(P9, Stmt("create", "detection_worker_leases", 1))
  <2> HIDE DEF P8
  <2>1. /\ Part(V9, 16, 18, {})
        /\ Ends(V9, RecordOf(9)) /\ Holds(V9, RecordOf(9))
    BY Version9 DEF VersionPart
  <2>2. \A u \in {} :
          u \in {} \/ Holds(P8, Stmt("create", u, 1))
    BY <1>8
  <2>3. /\ Part(P9, 0, 18, {})
        /\ \A s : Holds(P8, s) \/ Holds(V9, s) => Holds(P9, s)
        /\ \A s : Ends(V9, s) => Ends(P9, s)
    BY <1>8, <2>1, <2>2, PartConcat
  <2> HIDE DEF P9
  <2> QED
    BY <1>8, <2>1, <2>3, Version9
<1>10. /\ Part(P10, 0, 20, {}) /\ Ends(P10, RecordOf(10)) /\ Holds(P10, RecordOf(10))
      /\ \A s : Holds(P9, s) \/ Holds(V10, s) => Holds(P10, s)
  <2> HIDE DEF P9
  <2>1. /\ Part(V10, 18, 20, {"feature_windows", "detection_runs", "detection_evaluations",
                         "findings", "detection_worker_leases"})
        /\ Ends(V10, RecordOf(10)) /\ Holds(V10, RecordOf(10))
    BY Version10 DEF VersionPart
  <2>2. \A u \in {"feature_windows", "detection_runs", "detection_evaluations",
                         "findings", "detection_worker_leases"} :
          u \in {} \/ Holds(P9, Stmt("create", u, 1))
    BY <1>9
  <2>3. /\ Part(P10, 0, 20, {})
        /\ \A s : Holds(P9, s) \/ Holds(V10, s) => Holds(P10, s)
        /\ \A s : Ends(V10, s) => Ends(P10, s)
    BY <1>9, <2>1, <2>2, PartConcat
  <2> HIDE DEF P10
  <2> QED
    BY <1>9, <2>1, <2>3, Version10
<1> HIDE DEF P2, P3, P4, P5, P6, P7, P8, P9, P10
<1>11. /\ Stmt("index", Promotions, 1) \in Fitting
       /\ Follows(RecordOf(10), Stmt("index", Promotions, 1))
       /\ Stmt("index", Promotions, 1).op = "index"
       /\ ~Timed(Stmt("index", Promotions, 1))
  BY DEF Stmt, RecordOf, Fitting, Operations, Names, Promotions, Follows, Timed
<1>12. /\ Stmt("assert", "schema_version", 0) \in Fitting
       /\ Follows(Stmt("index", Promotions, 1), Stmt("assert", "schema_version", 0))
       /\ Stmt("assert", "schema_version", 0).op = "assert"
       /\ Time(Stmt("assert", "schema_version", 0)) = 21
  BY DEF Stmt, Fitting, Operations, Names, Follows, Time
<1>13. /\ Part(S, 0, 20, {}) /\ Ends(S, Stmt("index", Promotions, 1))
       /\ \A s : Holds(P10, s) => Holds(S, s)
  BY <1>10, <1>11, SnocPart
<1>14. Script = S \o <<Stmt("assert", "schema_version", 0)>>
  BY StatementIs DEF Script, EnsureRequiredIndexes, Index, P2, P3, P4, P5, P6,
     P7, P8, P9, P10
<1>15. /\ Part(Script, 0, 21, {}) /\ Ends(Script, Stmt("assert", "schema_version", 0))
       /\ \A s : Holds(S, s) => Holds(Script, s)
  <2> HIDE DEF S
  <2> QED
    BY <1>12, <1>13, <1>14, SnocPart
<1>16. /\ Len(P10) \in Nat \ {0} /\ Len(Script) = Len(P10) + 2
       /\ Script[Len(P10)] = RecordOf(10)
       /\ Script[Len(P10) + 1] = Stmt("index", Promotions, 1)
  <2> DEFINE X == <<Stmt("index", Promotions, 1)>>
             A == <<Stmt("assert", "schema_version", 0)>>
  <2>1. /\ P10 \in Seq(Fitting) /\ X \in Seq(Fitting) /\ A \in Seq(Fitting)
        /\ Len(X) = 1 /\ Len(A) = 1 /\ X[1] = Stmt("index", Promotions, 1)
    BY <1>10, <1>11, <1>12 DEF Part, Section
  <2>2. Len(P10) \in Nat \ {0} /\ P10[Len(P10)] = RecordOf(10)
    BY <1>10, <2>1, LenProperties DEF Ends
  <2>3. S = P10 \o X /\ Script = S \o A
    BY <1>14
  <2> HIDE DEF X, A, S
  <2>4. /\ S \in Seq(Fitting) /\ Len(S) = Len(P10) + Len(X)
        /\ \A i \in 1..Len(P10) + Len(X) : S[i] =
             IF i <= Len(P10) THEN P10[i] ELSE X[i - Len(P10)]
    BY <2>1, <2>3, ConcatProperties
  <2>5. /\ Len(Script) = Len(S) + Len(A)
        /\ \A i \in 1..Len(S) + Len(A) : Script[i] =
             IF i <= Len(S) THEN S[i] ELSE A[i - Len(S)]
    BY <2>1, <2>3, <2>4, ConcatProperties
  <2>6. Len(S) = Len(P10) + 1 /\ Len(Script) = Len(P10) + 2
    BY <2>1, <2>2, <2>4, <2>5
  <2>7. Script[Len(P10)] = S[Len(P10)] /\ S[Len(P10)] = P10[Len(P10)]
    BY <2>1, <2>2, <2>4, <2>5, <2>6
  <2>8. Script[Len(P10) + 1] = S[Len(P10) + 1] /\ S[Len(P10) + 1] = X[1]
    BY <2>1, <2>2, <2>4, <2>5, <2>6
  <2> QED
    BY <2>1, <2>2, <2>6, <2>7, <2>8
<1> HIDE DEF S
<1>17. \A s : \/ Holds(V1, s) \/ Holds(V2, s) \/ Holds(V3, s) \/ Holds(V4, s)
              \/ Holds(V5, s) \/ Holds(V6, s) \/ Holds(V7, s) \/ Holds(V8, s)
              \/ Holds(V9, s) \/ Holds(V10, s)
              => Holds(Script, s)
  BY <1>2, <1>3, <1>4, <1>5, <1>6, <1>7, <1>8, <1>9, <1>10, <1>13, <1>15
<1>18. \A v \in 1..10 : Holds(Script, RecordOf(v))
  <2>1. \A v \in 1..10 : \/ v = 1 \/ v = 2 \/ v = 3 \/ v = 4 \/ v = 5 \/ v = 6
                         \/ v = 7 \/ v = 8 \/ v = 9 \/ v = 10
    OBVIOUS
  <2> QED
    BY <1>17, <2>1, Version1, Version2, Version3, Version4, Version5, Version6,
       Version7, Version8, Version9, Version10 DEF VersionPart
<1>19. ASSUME NEW i \in 1..Len(Script), NEW j \in 1..Len(Script),
              Script[i] = RecordOf(10), Script[j].op \in {"create", "add"}
       PROVE  j < i
  <2>1. RecordOf(10).op = "record" /\ Time(RecordOf(10)) = 20
    BY DEF RecordOf, Stmt, Time
  <2>2. Script[Len(Script)].op = "assert"
    BY <1>12, <1>15 DEF Ends
  <2>3. j # Len(Script) /\ j # Len(P10) /\ j # Len(P10) + 1
    BY <1>11, <1>16, <1>19, <2>1, <2>2
  <2>4. j < Len(P10)
    BY <1>16, <2>3
  <2>5. Len(P10) \in 1..Len(Script)
    BY <1>16
  <2>6. i = Len(P10)
    <3>1. \A h, k \in 1..Len(Script) :
            h < k /\ Timed(Script[h]) /\ Timed(Script[k])
            => Time(Script[h]) < Time(Script[k])
      BY <1>15 DEF Part, Section, InTime
    <3>2. Timed(Script[i]) /\ Timed(Script[Len(P10)])
      BY <1>16, <1>19, <2>1 DEF Timed
    <3>3. ~(i < Len(P10)) /\ ~(Len(P10) < i)
      BY <1>16, <1>19, <2>1, <2>5, <3>1, <3>2
    <3> QED
      BY <1>16, <3>3
  <2> QED
    BY <2>4, <2>6
<1> QED
  <2>1. /\ Script \in Seq(Fitting) /\ Linked(Script) /\ InTime(Script, 0, 21)
        /\ Prepared(Script, {})
    BY <1>15 DEF Part, Section
  <2>2. Len(Script) > 1 /\ Script[Len(Script)].op = "assert"
    BY <1>12, <1>15, <1>16 DEF Ends
  <2>3. /\ Holds(Script, Stmt("create", Promotions, 1))
        /\ Holds(Script, Stmt("rename", Promotions, 0))
        /\ Holds(Script, Stmt("drop", Renamed, 0))
        /\ Holds(Script, Stmt("add", "telemetry_events", 8))
        /\ Holds(Script, Stmt("add", "feature_materialization_state", 9))
    BY <1>17, Version4, Version6, Version7, Version8 DEF Promotions
  <2>4. /\ Holds(Script, Stmt("add", "feature_windows", 3))
        /\ Holds(Script, Stmt("add", "detection_runs", 13))
        /\ Holds(Script, Stmt("add", "detection_evaluations", 2))
        /\ Holds(Script, Stmt("add", "findings", 2))
        /\ Holds(Script, Stmt("add", "detection_worker_leases", 7))
    BY <1>17, Version10
  <2> QED
    BY <1>18, <1>19, <2>1, <2>2, <2>3, <2>4 DEF ScriptFacts

(***************************************************************************)
(* What a statement does.                                                  *)
(***************************************************************************)
Made(s, d) == [d EXCEPT !.width[s.table] = 1]
Added(s, d) == [d EXCEPT !.width[s.table] = s.n]
Indexed(d) == [d EXCEPT !.index = Promotions]
Moved(d) == [d EXCEPT !.width[Renamed] = d.width[Promotions],
                      !.width[Promotions] = 0,
                      !.audit[Renamed] = d.audit[Promotions],
                      !.audit[Promotions] = {},
                      !.index = IF @ = Promotions THEN Renamed ELSE @]
Remade(d) == [d EXCEPT !.width[Promotions] = 1]
Copied(d) == [d EXCEPT !.audit[Promotions] = @ \cup Nullified(d.audit[Renamed])]
Dropped(d) == [d EXCEPT !.width[Renamed] = 0, !.audit[Renamed] = {},
                        !.index = IF @ = Renamed THEN "none" ELSE @]
Recorded(s, d) == [d EXCEPT !.applied = @ \cup {s.n}]

LEMMA EffectIs ==
  ASSUME NEW s, NEW d, NEW w
  PROVE  /\ s.op = "create" =>
              Effect(s, d, w) = IF d.width[s.table] = 0 THEN Made(s, d) ELSE d
         /\ s.op = "add" =>
              Effect(s, d, w) = IF NotListed(s, w) THEN Added(s, d) ELSE d
         /\ s.op = "index" =>
              Effect(s, d, w) = IF d.index = "none" THEN Indexed(d) ELSE d
         /\ s.op = "rename" => Effect(s, d, w) = IF w > 0 THEN Moved(d) ELSE d
         /\ s.op = "recreate" => Effect(s, d, w) = IF w > 0 THEN Remade(d) ELSE d
         /\ s.op = "copy" => Effect(s, d, w) = IF w > 0 THEN Copied(d) ELSE d
         /\ s.op = "drop" => Effect(s, d, w) = IF w > 0 THEN Dropped(d) ELSE d
         /\ s.op = "record" => Effect(s, d, w) = Recorded(s, d)
         /\ s.op \in {"columns", "backfill", "update", "assert"} => Effect(s, d, w) = d
<1> USE DEF Effect, Made, Added, Indexed, Moved, Remade, Copied, Dropped, Recorded
<1>1. ASSUME s.op = "create"
      PROVE  Effect(s, d, w) = IF d.width[s.table] = 0 THEN Made(s, d) ELSE d
  BY <1>1
<1>2. ASSUME s.op = "add"
      PROVE  Effect(s, d, w) = IF NotListed(s, w) THEN Added(s, d) ELSE d
  BY <1>2
<1>3. ASSUME s.op = "index"
      PROVE  Effect(s, d, w) = IF d.index = "none" THEN Indexed(d) ELSE d
  BY <1>3
<1>4. ASSUME s.op = "rename"
      PROVE  Effect(s, d, w) = IF w > 0 THEN Moved(d) ELSE d
  BY <1>4
<1>5. ASSUME s.op = "recreate"
      PROVE  Effect(s, d, w) = IF w > 0 THEN Remade(d) ELSE d
  BY <1>5
<1>6. ASSUME s.op = "copy"
      PROVE  Effect(s, d, w) = IF w > 0 THEN Copied(d) ELSE d
  BY <1>6
<1>7. ASSUME s.op = "drop"
      PROVE  Effect(s, d, w) = IF w > 0 THEN Dropped(d) ELSE d
  BY <1>7
<1>8. ASSUME s.op = "record"
      PROVE  Effect(s, d, w) = Recorded(s, d)
  BY <1>8
<1>9. ASSUME s.op \in {"columns", "backfill", "update", "assert"}
      PROVE  Effect(s, d, w) = d
  BY <1>9
<1> HIDE DEF Effect, Made, Added, Indexed, Moved, Remade, Copied, Dropped, Recorded
<1> QED
  BY <1>1, <1>2, <1>3, <1>4, <1>5, <1>6, <1>7, <1>8, <1>9

(***************************************************************************)
(* Positions in the script, and maxima.                                    *)
(***************************************************************************)
\* Its facts by name: statements, dependencies, order and ends.
LEMMA ScriptUse ==
  /\ Len(Script) \in Nat /\ Len(Script) > 1 /\ DOMAIN Script = 1..Len(Script)
  /\ \A i \in DOMAIN Script : Script[i] \in Fitting /\ Script[i].table \in Tables
  /\ \A i \in DOMAIN Script :
       Dependent(Script[i]) =>
         /\ i > 1 /\ i - 1 \in DOMAIN Script
         /\ Follows(Script[i-1], Script[i])
  /\ \A i, k \in DOMAIN Script :
       i < k /\ Timed(Script[i]) /\ Timed(Script[k]) => Time(Script[i]) < Time(Script[k])
  /\ Script[Len(Script)].op = "assert"
  /\ Tables \subseteq Names
  /\ Promotions \in Tables /\ Renamed \in Tables /\ "schema_version" \in Tables
<1>1. /\ Script \in Seq(Fitting) /\ Linked(Script) /\ InTime(Script, 0, 21)
      /\ Len(Script) > 1 /\ Script[Len(Script)].op = "assert"
      /\ Holds(Script, RecordOf(1)) /\ Holds(Script, Stmt("drop", Renamed, 0))
      /\ Holds(Script, Stmt("create", Promotions, 1))
  BY ScriptIs DEF ScriptFacts
<1>2. Len(Script) \in Nat /\ DOMAIN Script = 1..Len(Script)
  BY <1>1, LenProperties
<1>3. \A i \in DOMAIN Script : Script[i] \in Fitting /\ Script[i].table \in Tables
  BY <1>1, <1>2, ElementOfSeq DEF Tables
<1>4. \A i \in DOMAIN Script :
        Dependent(Script[i]) =>
          /\ i > 1 /\ i - 1 \in DOMAIN Script
          /\ Follows(Script[i-1], Script[i])
  BY <1>1, <1>2 DEF Linked
<1>5. \A i, k \in DOMAIN Script :
        i < k /\ Timed(Script[i]) /\ Timed(Script[k]) => Time(Script[i]) < Time(Script[k])
  BY <1>1, <1>2 DEF InTime
<1>6. Tables \subseteq Names
  <2>1. \A st \in Fitting : st.table \in Names
    BY DEF Fitting
  <2> QED
    BY <1>3, <2>1 DEF Tables
<1>7. Promotions \in Tables /\ Renamed \in Tables /\ "schema_version" \in Tables
  <2>1. \A st : Holds(Script, st) => st.table \in Tables
    BY <1>2 DEF Holds, Tables
  <2>2. /\ RecordOf(1).table = "schema_version"
        /\ Stmt("drop", Renamed, 0).table = Renamed
        /\ Stmt("create", Promotions, 1).table = Promotions
    BY DEF RecordOf, Stmt
  <2> QED
    BY <1>1, <2>1, <2>2
<1> QED
  BY <1>1, <1>2, <1>3, <1>4, <1>5, <1>6, <1>7

LEMMA ScriptNumbers ==
  \A i \in DOMAIN Script :
    i \in Nat /\ Script[i].n \in Nat /\ Time(Script[i]) \in Nat
<1>1. \A y \in Fitting : y.n \in Nat
  BY DEF Fitting
<1>2. \A i \in DOMAIN Script : i \in Nat /\ Script[i].n \in Nat
  BY <1>1, ScriptUse
<1> QED
  BY <1>2 DEF Time

\* The position of a record, and the statement a migration starts with.
LEMMA RecordPosition ==
  ASSUME NEW v \in 1..10
  PROVE  /\ Record(v)[1] = RecordOf(v)
         /\ \E i \in DOMAIN Script : Script[i] = RecordOf(v)
         /\ \A i, k \in DOMAIN Script :
              Script[i] = RecordOf(v) /\ Script[k] = RecordOf(v) => i = k
<1>1. Record(v)[1] = RecordOf(v)
  BY DEF Record, Statement, RecordOf, Stmt
<1>2. \E i \in DOMAIN Script : Script[i] = RecordOf(v)
  BY ScriptIs, ScriptUse DEF ScriptFacts, Holds
<1>3. ASSUME NEW i \in DOMAIN Script, NEW k \in DOMAIN Script,
             Script[i] = RecordOf(v), Script[k] = RecordOf(v)
      PROVE  i = k
  <2>1. Timed(RecordOf(v)) /\ Time(RecordOf(v)) = 2 * v
    BY DEF Timed, Time, RecordOf, Stmt
  <2>2. ~(i < k) /\ ~(k < i)
    BY <1>3, <2>1, ScriptUse
  <2>3. i \in Nat /\ k \in Nat
    BY ScriptUse
  <2> QED
    BY <2>2, <2>3
<1> QED
  BY <1>1, <1>2, <1>3

LEMMA StartPosition ==
  /\ FirstAfter(0) = 1
  /\ \A v \in 1..10 : FirstAfter(v) - 1 \in DOMAIN Script
                      /\ Script[FirstAfter(v) - 1] = RecordOf(v)
  /\ \A v \in 0..9 : FirstAfter(v) \in DOMAIN Script
                     /\ ~Dependent(Script[FirstAfter(v)])
<1>1. FirstAfter(0) = 1
  BY DEF FirstAfter
<1>2. ASSUME NEW v \in 1..10
      PROVE  /\ FirstAfter(v) - 1 \in DOMAIN Script
             /\ Script[FirstAfter(v) - 1] = RecordOf(v)
  <2> DEFINE i == CHOOSE i \in DOMAIN Script : Script[i] = Record(v)[1]
  <2>1. i \in DOMAIN Script /\ Script[i] = RecordOf(v)
    BY RecordPosition
  <2>2. FirstAfter(v) = 1 + i
    BY DEF FirstAfter
  <2> HIDE DEF i
  <2>3. i \in Nat
    BY <2>1, ScriptUse
  <2>4. FirstAfter(v) - 1 = i
    BY <2>2, <2>3
  <2> QED
    BY <2>1, <2>4
<1>3. ASSUME NEW v \in 0..9
      PROVE  FirstAfter(v) \in DOMAIN Script /\ ~Dependent(Script[FirstAfter(v)])
  <2>1. CASE v = 0
    <3>1. 1 \in DOMAIN Script
      BY ScriptUse
    <3> QED
      BY <1>1, <2>1, <3>1, ScriptUse
  <2>2. CASE v # 0
    <3>1. /\ FirstAfter(v) - 1 \in DOMAIN Script
          /\ Script[FirstAfter(v) - 1] = RecordOf(v)
      BY <1>2, <2>2
    <3>2. FirstAfter(v) \in Int
      <4> DEFINE i == CHOOSE i \in DOMAIN Script : Script[i] = Record(v)[1]
      <4>1. i \in DOMAIN Script
        BY <2>2, RecordPosition
      <4>2. FirstAfter(v) = 1 + i
        BY <2>2 DEF FirstAfter
      <4> HIDE DEF i
      <4> QED
        BY <4>1, <4>2, ScriptUse
    <3>3. RecordOf(v).op = "record" /\ RecordOf(v).n = v
      BY DEF RecordOf, Stmt
    <3>4. FirstAfter(v) - 1 # Len(Script)
      BY <3>1, <3>3, ScriptUse
    <3>5. FirstAfter(v) \in DOMAIN Script
      BY <3>1, <3>2, <3>4, ScriptUse
    <3>6. ~Follows(RecordOf(v), Script[FirstAfter(v)]) \/ ~Dependent(Script[FirstAfter(v)])
      BY <3>3 DEF Follows, Dependent
    <3> QED
      BY <3>1, <3>5, <3>6, ScriptUse
  <2> QED
    BY <2>1, <2>2
<1> QED
  BY <1>1, <1>2, <1>3

LEMMA MaxIs ==
  ASSUME NEW b \in Nat, NEW S \in SUBSET (0..b), S # {}
  PROVE  MaxOf(S) \in S /\ \A n \in S : n <= MaxOf(S)
<1> DEFINE T == {b - n : n \in S}
           R == OpToRel(<, Nat)
<1>1. T \subseteq Nat /\ T # {}
  <2>1. PICK n \in S : TRUE
    OBVIOUS
  <2>2. b - n \in T
    BY <2>1
  <2>3. \A k \in S : b - k \in Nat
    OBVIOUS
  <2> QED
    BY <2>2, <2>3
<1>2. \A v, w \in Nat : v < w => <<v, w>> \in R
  BY DEF OpToRel
<1>3. \E w \in T : \A v \in T : <<v, w>> \notin R
  <2>1. IsWellFoundedOn(R, Nat)
    BY NatLessThanWellFounded
  <2> HIDE DEF R, T
  <2> QED
    BY <1>1, <2>1, WFMin
<1>4. PICK m \in S : \A n \in S : <<b - n, b - m>> \notin R
  <2> HIDE DEF R
  <2> QED
    BY <1>3
<1>5. ASSUME NEW n \in S PROVE n <= m
  <2>1. b - n \in Nat /\ b - m \in Nat /\ n \in Nat /\ m \in Nat
    OBVIOUS
  <2>2. ~(b - n < b - m)
    <3> HIDE DEF R
    <3> QED
      BY <1>2, <1>4, <2>1
  <2> QED
    BY <2>1, <2>2
<1>6. \E x \in S : \A n \in S : n <= x
  BY <1>5
<1> QED
  BY <1>6 DEF MaxOf

(***************************************************************************)
(* Types.                                                                  *)
(***************************************************************************)
LEMMA VersionIs ==
  ASSUME NEW d \in Databases
  PROVE  /\ Version(d) \in 0..11
         /\ Version(d) = 0 \/ Version(d) \in d.applied
         /\ \A v \in d.applied : v <= Version(d)
<1>1. d.applied \subseteq 1..11
  BY DEF Databases, Latest
<1>2. {0} \cup d.applied \in SUBSET (0..11) /\ {0} \cup d.applied # {} /\ 11 \in Nat
  BY <1>1
<1>3. MaxOf({0} \cup d.applied) \in {0} \cup d.applied
      /\ \A n \in {0} \cup d.applied : n <= MaxOf({0} \cup d.applied)
  BY <1>2, MaxIs
<1> QED
  BY <1>1, <1>3 DEF Version

LEMMA NullifiedTyped ==
  ASSUME NEW R \in SUBSET Rows
  PROVE  /\ Nullified(R) \in SUBSET Rows
         /\ {r.id : r \in Nullified(R)} = {r.id : r \in R}
         /\ \A r \in Nullified(R) : r.successor # ""
<1> DEFINE g(r) == [r EXCEPT !.successor = IF @ = "" THEN "null" ELSE @]
<1>1. \A r \in R : g(r) \in Rows /\ g(r).id = r.id /\ g(r).successor # ""
  BY DEF Rows, Successors
<1>2. Nullified(R) = {g(r) : r \in R}
  BY DEF Nullified
<1> HIDE DEF g
<1>3. Nullified(R) \in SUBSET Rows /\ \A r \in Nullified(R) : r.successor # ""
  BY <1>1, <1>2
<1>4. ASSUME NEW r \in Nullified(R) PROVE \E q \in R : q.id = r.id
  BY <1>1, <1>2
<1>5. ASSUME NEW r \in R PROVE \E q \in Nullified(R) : q.id = r.id
  BY <1>1, <1>2
<1>6. {r.id : r \in Nullified(R)} = {r.id : r \in R}
  <2> DEFINE A == {r.id : r \in Nullified(R)}
             B == {r.id : r \in R}
  <2>1. ASSUME NEW x \in A PROVE x \in B
    <3>1. PICK r \in Nullified(R) : x = r.id
      OBVIOUS
    <3>2. PICK q \in R : q.id = r.id
      BY <1>4
    <3> QED
      BY <3>1, <3>2
  <2>2. ASSUME NEW x \in B PROVE x \in A
    <3>1. PICK r \in R : x = r.id
      OBVIOUS
    <3>2. PICK q \in Nullified(R) : q.id = r.id
      BY <1>5
    <3> QED
      BY <3>1, <3>2
  <2> HIDE DEF A, B
  <2>3. A = B
    BY <2>1, <2>2
  <2> QED
    BY <2>3 DEF A, B
<1> QED
  BY <1>3, <1>6

LEMMA EffectTyped ==
  ASSUME NEW i \in DOMAIN Script, NEW d \in Databases, NEW w \in Nat
  PROVE  Effect(Script[i], d, w) \in Databases
<1> DEFINE s == Script[i]
<1>1. /\ s.op \in Operations /\ s.table \in Tables /\ s.n \in 0..16
      /\ s.op = "record" => s.n \in 1..11
      /\ Promotions \in Tables /\ Renamed \in Tables
  BY ScriptUse DEF Fitting
<1> HIDE DEF s
<1>2. /\ d.width \in [Tables -> Nat] /\ d.applied \in SUBSET (1..11)
      /\ d.audit \in [{Promotions, Renamed} -> SUBSET Rows]
      /\ d.index \in {"none", Promotions, Renamed}
  BY DEF Databases, Latest
<1>3. \A t \in Tables, n \in Nat : [d.width EXCEPT ![t] = n] \in [Tables -> Nat]
  BY <1>2
<1>4. Made(s, d) \in Databases /\ Added(s, d) \in Databases /\ Remade(d) \in Databases
  <2>1. /\ [d.width EXCEPT ![s.table] = 1] \in [Tables -> Nat]
        /\ [d.width EXCEPT ![s.table] = s.n] \in [Tables -> Nat]
        /\ [d.width EXCEPT ![Promotions] = 1] \in [Tables -> Nat]
    BY <1>1, <1>3
  <2>2. Made(s, d) \in Databases
    BY <2>1 DEF Made, Databases
  <2>3. Added(s, d) \in Databases
    BY <2>1 DEF Added, Databases
  <2>4. Remade(d) \in Databases
    BY <2>1 DEF Remade, Databases
  <2> QED
    BY <2>2, <2>3, <2>4
<1>5. Indexed(d) \in Databases
  BY DEF Indexed, Databases
<1>6. Recorded(s, d) \in Databases \/ s.op # "record"
  <2>1. s.op = "record" => d.applied \cup {s.n} \in SUBSET (1..11)
    BY <1>1, <1>2
  <2> QED
    BY <2>1 DEF Recorded, Databases, Latest
<1>7. Copied(d) \in Databases
  <2>1. Nullified(d.audit[Renamed]) \in SUBSET Rows
    BY <1>2, NullifiedTyped
  <2>2. [d.audit EXCEPT ![Promotions] = @ \cup Nullified(d.audit[Renamed])]
          \in [{Promotions, Renamed} -> SUBSET Rows]
    BY <1>2, <2>1
  <2> QED
    BY <2>2 DEF Copied, Databases
<1>8. Dropped(d) \in Databases
  <2>1. /\ [d.width EXCEPT ![Renamed] = 0] \in [Tables -> Nat]
        /\ [d.audit EXCEPT ![Renamed] = {}] \in [{Promotions, Renamed} -> SUBSET Rows]
        /\ (IF d.index = Renamed THEN "none" ELSE d.index) \in {"none", Promotions, Renamed}
    BY <1>1, <1>2, <1>3
  <2> QED
    BY <2>1 DEF Dropped, Databases
<1>9. Moved(d) \in Databases
  <2>1. /\ [d.width EXCEPT ![Renamed] = d.width[Promotions], ![Promotions] = 0]
             \in [Tables -> Nat]
        /\ [d.audit EXCEPT ![Renamed] = d.audit[Promotions], ![Promotions] = {}]
             \in [{Promotions, Renamed} -> SUBSET Rows]
        /\ (IF d.index = Promotions THEN Renamed ELSE d.index) \in {"none", Promotions, Renamed}
    BY <1>1, <1>2
  <2> QED
    BY <2>1 DEF Moved, Databases
<1> QED
  BY <1>1, <1>4, <1>5, <1>6, <1>7, <1>8, <1>9, EffectIs DEF Operations, s

LEMMA NewestTyped ==
  ASSUME NEW S, NEW files \in Seq(S)
  PROVE  Newest(files) \in Seq(S) /\ Len(Newest(files)) <= Keep
<1>1. Keep \in Nat \ {0}
  BY MigrationAssumption
<1>2. Len(files) \in Nat /\ \A i \in 1..Len(files) : files[i] \in S
  BY LenProperties, ElementOfSeq
<1>3. CASE Len(files) > Keep
  <2> DEFINE m == Len(files) - Keep + 1
  <2>1. m \in Int /\ Len(files) \in Int /\ \A i \in m..Len(files) : files[i] \in S
    BY <1>1, <1>2, <1>3
  <2>2. /\ SubSeq(files, m, Len(files)) \in Seq(S)
        /\ Len(SubSeq(files, m, Len(files))) =
             IF m <= Len(files) THEN Len(files) - m + 1 ELSE 0
    <3> HIDE DEF m
    <3> QED
      BY <2>1, SubSeqProperties
  <2>3. Len(SubSeq(files, m, Len(files))) <= Keep
    BY <1>1, <1>2, <2>2
  <2> QED
    BY <1>3, <2>2, <2>3 DEF Newest
<1>4. CASE ~(Len(files) > Keep)
  BY <1>1, <1>2, <1>4 DEF Newest
<1> QED
  BY <1>3, <1>4

LEMMA WidthTyped ==
  ASSUME NEW t, NEW v
  PROVE  /\ WidthAt(t, v) \in Nat
         /\ \A i, j \in DOMAIN Script :
              /\ j < i /\ Script[i] = Record(v)[1]
              /\ Script[j].op \in {"create", "add"} /\ Script[j].table = t
              => Script[j].n <= WidthAt(t, v)
         /\ \/ WidthAt(t, v) = 0
            \/ \E j \in DOMAIN Script :
                 /\ Script[j].op \in {"create", "add"} /\ Script[j].table = t
                 /\ WidthAt(t, v) = Script[j].n
<1> DEFINE J == {j \in DOMAIN Script : /\ Script[j].op \in {"create", "add"}
                                       /\ Script[j].table = t
                                       /\ \E i \in DOMAIN Script :
                                            j < i /\ Script[i] = Record(v)[1]}
           S == {0} \cup {Script[j].n : j \in J}
<1>1. WidthAt(t, v) = MaxOf(S)
  BY DEF WidthAt
<1>2. S \in SUBSET (0..16) /\ S # {} /\ 16 \in Nat
  BY ScriptUse DEF Fitting
<1>3. MaxOf(S) \in S /\ \A n \in S : n <= MaxOf(S)
  <2> HIDE DEF S
  <2> QED
    BY <1>2, MaxIs
<1>4. MaxOf(S) \in Nat
  BY <1>2, <1>3
<1>5. \A j \in J : Script[j].n \in S
  OBVIOUS
<1> QED
  BY <1>1, <1>3, <1>4, <1>5

\* The successors that model_promotions knew before v8, and its rows in v.
EarlySuccessors == {"", "model"}

AuditRows(v, f) ==
  {[id |-> a, successor |-> IF v > 7 /\ f[a] = "" THEN "null" ELSE f[a]] : a \in Audit}

LEMMA AuditRowsTyped ==
  ASSUME NEW v, NEW f \in [Audit -> EarlySuccessors]
  PROVE  /\ AuditRows(v, f) \in SUBSET Rows
         /\ v > 7 => \A r \in AuditRows(v, f) : r.successor # ""
<1>1. ASSUME NEW a \in Audit
      PROVE  LET r == [id |-> a,
                       successor |-> IF v > 7 /\ f[a] = "" THEN "null" ELSE f[a]]
             IN  r \in Rows /\ (v > 7 => r.successor # "")
  BY DEF EarlySuccessors, Rows, Successors
<1> QED
  BY <1>1 DEF AuditRows

LEMMA HistoricalTyped ==
  ASSUME NEW v \in StartVersions, NEW f \in [Audit -> EarlySuccessors]
  PROVE  HistoricalDatabase(v, f) \in Databases
<1>1. v \in 0..11 /\ Latest + 1 = 11
  <2>1. StartVersions \subseteq 0..(Latest + 1)
    BY MigrationAssumption
  <2> QED
    BY <2>1 DEF Latest
<1> DEFINE known == IF v < Latest THEN v ELSE Latest
           width == [t \in Tables |-> IF t = "schema_version" /\ v > 0 THEN 1
                                        ELSE WidthAt(t, known)]
           audit == [t \in {Promotions, Renamed} |->
                       IF v < 7 \/ t = Renamed THEN {} ELSE AuditRows(v, f)]
           index == IF v < 8 THEN "none" ELSE Promotions
<1>2. width \in [Tables -> Nat]
  BY WidthTyped
<1>3. 1..v \in SUBSET (1..(Latest + 1))
  <2>1. 1..v \subseteq 1..11
    BY <1>1
  <2> QED
    BY <1>1, <2>1
<1>4. audit \in [{Promotions, Renamed} -> SUBSET Rows]
  BY AuditRowsTyped
<1>5. index \in {"none", Promotions, Renamed}
  OBVIOUS
<1>6. HistoricalDatabase(v, f) =
        [width |-> width, applied |-> 1..v, audit |-> audit, index |-> index]
  BY DEF HistoricalDatabase, AuditRows
<1> HIDE DEF width, audit, index
<1> QED
  BY <1>2, <1>3, <1>4, <1>5, <1>6 DEF Databases

\* The types, without the number of backups.
Typed ==
  /\ db \in Databases /\ pending \in Databases
  /\ owner \in Processes \cup {Nobody}
  /\ (owner = Nobody => pending = db)
  /\ phase \in [Processes -> {"idle", "inspect", "backup", "copy", "open",
                              "read", "run", "verify", "done", "failed"}]
  /\ at \in [Processes -> DOMAIN Script]
  /\ seen \in [Processes -> Nat]
  /\ backups \in Seq(Databases) /\ found \in Databases
  /\ intact \in [Processes -> BOOLEAN]
  /\ alone \in [Processes -> BOOLEAN]

LEMMA ViewTyped ==
  ASSUME Typed, NEW p \in Processes
  PROVE  View(p) \in Databases
BY DEF Typed, View

\* The three ways an Execute step treats the database.
LEMMA ExecuteStores ==
  ASSUME Typed, NEW p \in Processes, Execute(p)
  PROVE  LET s == Script[at[p]]
             e == Effect(s, View(p), seen[p])
         IN  /\ e \in Databases
             /\ \/ /\ owner \in {p, Nobody} /\ owner' = p /\ pending' = e /\ db' = db
                   /\ owner = p \/ OpensTransaction(s, seen[p])
                \/ /\ owner # p /\ e = View(p) /\ UNCHANGED store
                   /\ ~OpensTransaction(s, seen[p])
                \/ /\ owner = Nobody /\ owner' = Nobody /\ db' = e /\ pending' = e
                   /\ ~OpensTransaction(s, seen[p])
<1> DEFINE s == Script[at[p]]
           d == View(p)
           e == Effect(s, d, seen[p])
<1>1. e \in Databases
  BY ViewTyped, EffectTyped DEF Typed
<1>2. /\ NeedsLock(s, d, seen[p]) => owner \in {p, Nobody}
      /\ \/ /\ owner = p \/ OpensTransaction(s, seen[p])
            /\ owner' = p /\ pending' = e
            /\ UNCHANGED <<db, content>>
         \/ /\ owner # p /\ ~OpensTransaction(s, seen[p])
            /\ IF e = d THEN UNCHANGED store ELSE Autocommit(e)
  BY DEF Execute
<1> HIDE DEF s, d
<1>3. e # d => NeedsLock(s, d, seen[p])
  BY DEF NeedsLock
<1>4. OpensTransaction(s, seen[p]) => NeedsLock(s, d, seen[p])
  BY DEF NeedsLock
<1> HIDE DEF e
<1>5. \/ /\ owner \in {p, Nobody} /\ owner' = p /\ pending' = e /\ db' = db
         /\ owner = p \/ OpensTransaction(s, seen[p])
      \/ /\ owner # p /\ e = d /\ UNCHANGED store
         /\ ~OpensTransaction(s, seen[p])
      \/ /\ owner = Nobody /\ owner' = Nobody /\ db' = e /\ pending' = e
         /\ ~OpensTransaction(s, seen[p])
  BY <1>2, <1>3, <1>4 DEF Autocommit
<1> QED
  BY <1>1, <1>5 DEF s, d, e

LEMMA RollbackTyped ==
  ASSUME Typed, NEW p \in Processes, Rollback(p), Forget(p)
  PROVE  /\ db' = db /\ pending' \in Databases
         /\ owner' \in Processes \cup {Nobody}
         /\ (owner' = Nobody => pending' = db')
         /\ at' \in [Processes -> DOMAIN Script] /\ seen' \in [Processes -> Nat]
<1>1. 1 \in DOMAIN Script
  BY ScriptUse
<1> QED
  BY <1>1 DEF Typed, Rollback, Forget

\* Typed and the number of backups: every handler keeps both.
LEMMA TypedHolds == Spec => [](Typed /\ Len(backups) <= Keep)
<1> DEFINE Inv == Typed /\ Len(backups) <= Keep
<1>1. Init => Inv
  <2> SUFFICES ASSUME Init PROVE Inv
    OBVIOUS
  <2>1. \E v \in StartVersions, f \in [Audit -> EarlySuccessors] :
          db = HistoricalDatabase(v, f)
    BY DEF Init, EarlySuccessors
  <2>2. db \in Databases
    BY <2>1, HistoricalTyped
  <2>3. 1 \in DOMAIN Script /\ Keep \in Nat
    BY ScriptUse, MigrationAssumption
  <2>4. <<>> \in Seq(Databases) /\ Len(<<>>) = 0
    BY EmptySeq
  <2>5. /\ owner = Nobody /\ pending = db /\ backups = <<>> /\ found = db
        /\ phase = [q \in Processes |-> "idle"] /\ at = [q \in Processes |-> 1]
        /\ seen = [q \in Processes |-> 0] /\ intact = [q \in Processes |-> TRUE]
        /\ alone = [q \in Processes |-> FALSE]
    BY DEF Init
  <2> QED
    BY <2>2, <2>3, <2>4, <2>5 DEF Typed
<1>2. Inv /\ [Next]_vars => Inv'
  <2> SUFFICES ASSUME Inv, [Next]_vars PROVE Inv'
    OBVIOUS
  <2>1. Typed
    OBVIOUS
  <2>2. ASSUME NEW p \in Processes, Start(p) PROVE Inv'
    <3>1. /\ UNCHANGED <<store, at, seen, backups>>
          /\ phase' = [phase EXCEPT ![p] = IF p \in Hosts THEN "inspect" ELSE "open"]
          /\ found' = IF p \in Hosts THEN db ELSE found
          /\ intact' = [intact EXCEPT ![p] = Intact(db)]
          /\ alone' = [q \in Processes |->
                 IF q = p THEN \A o \in Processes : ~Active(o)
                          ELSE alone[q] /\ ~Active(q)]
      BY <2>2 DEF Start, Goto
    <3>2. intact' \in [Processes -> BOOLEAN]
      BY <2>1, <3>1 DEF Typed, Intact
    <3>3. alone' \in [Processes -> BOOLEAN]
      BY <2>1, <3>1 DEF Typed
    <3>4. /\ phase' \in [Processes -> {"idle", "inspect", "backup", "copy", "open",
                              "read", "run", "verify", "done", "failed"}]
          /\ found' \in Databases
      BY <2>1, <3>1 DEF Typed
    <3> QED
      BY <2>1, <3>1, <3>2, <3>3, <3>4 DEF Typed, store
  <2>3. ASSUME NEW p \in Processes, Inspect(p) \/ DecideBackup(p) \/ Verify(p)
        PROVE  Inv'
    <3>1. /\ UNCHANGED <<store, at, seen, backups, history>>
          /\ \E l \in {"failed", "verify", "backup", "open", "copy", "done"} :
               phase' = [phase EXCEPT ![p] = l]
      BY <2>3 DEF Inspect, DecideBackup, Verify, Goto
    <3> QED
      BY <2>1, <3>1 DEF Typed, store, history
  <2>4. ASSUME NEW p \in Processes, CopyBackup(p) PROVE Inv'
    <3>1. Append(backups, db) \in Seq(Databases)
      BY <2>1, AppendProperties DEF Typed
    <3>2. backups' \in Seq(Databases) /\ Len(backups') <= Keep
      BY <2>4, <3>1, NewestTyped DEF CopyBackup
    <3> QED
      BY <2>1, <2>4, <3>2 DEF Typed, CopyBackup, Goto, store, history
  <2>5. ASSUME NEW p \in Processes, Open(p) PROVE Inv'
    <3>1. [db EXCEPT !.width["schema_version"] = 1] \in Databases
      <4>1. [db.width EXCEPT !["schema_version"] = 1] \in [Tables -> Nat]
        BY <2>1, ScriptUse DEF Typed, Databases
      <4> QED
        BY <2>1, <4>1 DEF Typed, Databases
    <3>2. /\ db' \in Databases /\ pending' \in Databases /\ owner' = owner
          /\ (owner' = Nobody => pending' = db')
      <4>1. CASE db.width["schema_version"] > 0
        <5>1. UNCHANGED store
          BY <2>5, <4>1 DEF Open
        <5> QED
          BY <2>1, <5>1 DEF Typed, store
      <4>2. CASE ~(db.width["schema_version"] > 0)
        <5>1. Autocommit([db EXCEPT !.width["schema_version"] = 1])
          BY <2>5, <4>2 DEF Open
        <5> QED
          BY <3>1, <5>1 DEF Autocommit
      <4> QED
        BY <4>1, <4>2
    <3> QED
      BY <2>1, <2>5, <3>2 DEF Typed, Open, Goto, history
  <2>6. ASSUME NEW p \in Processes, ReadVersion(p) PROVE Inv'
    <3>1. Version(db) < Latest => FirstAfter(Version(db)) \in DOMAIN Script
      <4>1. Version(db) < Latest => Version(db) \in 0..9
        <5>1. db \in Databases
          BY <2>1 DEF Typed
        <5>2. Version(db) \in 0..11
          BY <5>1, VersionIs
        <5>3. Latest = 10
          BY DEF Latest
        <5> QED
          BY <5>2, <5>3
      <4> QED
        BY <4>1, StartPosition
    <3>2. at' \in [Processes -> DOMAIN Script]
      BY <2>1, <2>6, <3>1 DEF Typed, ReadVersion
    <3>3. \E l \in {"failed", "verify", "done", "run"} : phase' = [phase EXCEPT ![p] = l]
      BY <2>6 DEF ReadVersion, Goto, Finished
    <3> QED
      BY <2>1, <2>6, <3>2, <3>3 DEF Typed, ReadVersion, store, history
  <2>7. ASSUME NEW p \in Processes, Execute(p) PROVE Inv'
    <3>1. /\ db' \in Databases /\ pending' \in Databases
          /\ owner' \in Processes \cup {Nobody}
          /\ (owner' = Nobody => pending' = db')
      <4> DEFINE e == Effect(Script[at[p]], View(p), seen[p])
      <4>1. /\ e \in Databases
            /\ \/ owner' = p /\ pending' = e /\ db' = db
               \/ UNCHANGED store
               \/ owner' = Nobody /\ db' = e /\ pending' = e
        BY <2>1, <2>7, ExecuteStores
      <4>2. /\ db \in Databases /\ pending \in Databases /\ p # Nobody
            /\ owner \in Processes \cup {Nobody} /\ (owner = Nobody => pending = db)
        BY <2>1, <2>7, MigrationAssumption DEF Typed
      <4> HIDE DEF e
      <4> QED
        BY <2>7, <4>1, <4>2 DEF store
    <3>2. at' \in [Processes -> DOMAIN Script]
      <4>1. at[p] \in DOMAIN Script /\ at[p] < Len(Script)
        BY <2>1, <2>7 DEF Typed, Execute
      <4>2. at[p] + 1 \in DOMAIN Script
        BY <4>1, ScriptUse
      <4> QED
        BY <2>1, <2>7, <4>2 DEF Typed, Execute
    <3>3. seen' \in [Processes -> Nat]
      <4>1. View(p).width[Script[at[p]].table] \in Nat
        <5>1. View(p) \in Databases /\ at[p] \in DOMAIN Script
          BY <2>1, ViewTyped DEF Typed
        <5>2. Script[at[p]].table \in Tables
          BY <5>1, ScriptUse
        <5> QED
          BY <5>1, <5>2 DEF Databases
      <4>2. seen' = [seen EXCEPT ![p] =
               IF Script[at[p]].op = "columns" THEN View(p).width[Script[at[p]].table]
                                               ELSE @]
        BY <2>7 DEF Execute
      <4> QED
        BY <2>1, <4>1, <4>2 DEF Typed
    <3> QED
      BY <2>1, <2>7, <3>1, <3>2, <3>3 DEF Typed, Execute, history
  <2>8. ASSUME NEW p \in Processes, Commit(p) PROVE Inv'
    <3>1. /\ db' \in Databases /\ pending' = pending
          /\ owner' \in Processes \cup {Nobody}
          /\ (owner' = Nobody => pending' = db')
      BY <2>1, <2>8, MigrationAssumption DEF Typed, Commit, View
    <3>2. /\ at' \in [Processes -> DOMAIN Script] /\ seen' \in [Processes -> Nat]
      BY <2>1, <2>8, ScriptUse DEF Typed, Commit, Forget
    <3>3. \E l \in {"verify", "done"} : phase' = [phase EXCEPT ![p] = l]
      BY <2>8 DEF Commit, Goto, Finished
    <3> QED
      BY <2>1, <2>8, <3>1, <3>2, <3>3 DEF Typed, Commit, history
  <2>9. ASSUME NEW p \in Processes, Raise(p) \/ Locked(p) \/ Crash(p) PROVE Inv'
    <3>1. /\ Rollback(p) /\ Forget(p) /\ UNCHANGED <<backups, history>>
          /\ \E l \in {"idle", "failed"} : phase' = [phase EXCEPT ![p] = l]
      BY <2>9 DEF Raise, Locked, Crash, Fail, Goto
    <3>2. /\ db' = db /\ pending' \in Databases
          /\ owner' \in Processes \cup {Nobody}
          /\ (owner' = Nobody => pending' = db')
          /\ at' \in [Processes -> DOMAIN Script] /\ seen' \in [Processes -> Nat]
      BY <2>1, <3>1, RollbackTyped
    <3> QED
      BY <2>1, <3>1, <3>2 DEF Typed, history
  <2>10. CASE UNCHANGED vars
    BY <2>10 DEF Typed, vars, store, local, history
  <2> QED
    BY <2>2, <2>3, <2>4, <2>5, <2>6, <2>7, <2>8, <2>9, <2>10 DEF Next
<1> QED
  BY <1>1, <1>2, PTL DEF Spec

\* The rows that a migration does not rewrite are what they were.
LEMMA ContentKept ==
  ASSUME [Next]_vars
  PROVE  content' = content
<1>1. ASSUME NEW p \in Processes,
             \/ Start(p) \/ Inspect(p) \/ DecideBackup(p) \/ CopyBackup(p) \/ Open(p)
             \/ ReadVersion(p) \/ Execute(p) \/ Commit(p) \/ Raise(p)
             \/ Locked(p) \/ Verify(p) \/ Crash(p)
      PROVE  content' = content
  BY <1>1 DEF Start, Inspect, DecideBackup, CopyBackup, Open, ReadVersion, Execute,
     Commit, Raise, Locked, Verify, Crash, Fail, Rollback, Autocommit, store
<1>2. UNCHANGED vars => content' = content
  BY DEF vars, store
<1> QED
  BY <1>1, <1>2 DEF Next

\* Every reachable state is well typed: no statement, crash or lock leaves a
\* position outside the script, a transaction hides changes from nobody but
\* the others, and retention keeps at most Keep backups.
THEOREM TypeCorrect == Spec => []TypeOK
<1> DEFINE Contents == [populated : BOOLEAN, refused : SUBSET UniqueIndexes]
<1>1. Init => content \in Contents /\ starts \in 0..MaxStarts
  <2> SUFFICES ASSUME Init PROVE content \in Contents /\ starts \in 0..MaxStarts
    OBVIOUS
  <2>1. \E v \in StartVersions, rows \in BOOLEAN :
          content \in [populated : {rows /\ v > 0},
                      refused : IF v = 9 THEN Refusals ELSE {{}}]
    BY Zenon DEF Init
  <2>2. content \in Contents
    BY <2>1, MigrationAssumption
  <2>3. starts = 0
    BY Zenon DEF Init
  <2> QED
    BY <2>2, <2>3, MigrationAssumption
<1>2. content \in Contents /\ starts \in 0..MaxStarts /\ [Next]_vars
      => (content \in Contents /\ starts \in 0..MaxStarts)'
  <2> SUFFICES ASSUME content \in Contents, starts \in 0..MaxStarts, [Next]_vars
               PROVE  content' \in Contents /\ starts' \in 0..MaxStarts
    OBVIOUS
  <2>1. ASSUME NEW p \in Processes, Start(p)
        PROVE  starts' \in 0..MaxStarts
    BY <2>1, MigrationAssumption DEF Start
  <2>2. ASSUME NEW p \in Processes,
               \/ Inspect(p) \/ DecideBackup(p) \/ CopyBackup(p) \/ Open(p)
               \/ ReadVersion(p) \/ Execute(p) \/ Commit(p) \/ Raise(p)
               \/ Locked(p) \/ Verify(p) \/ Crash(p)
        PROVE  starts' = starts
    BY <2>2 DEF Inspect, DecideBackup, CopyBackup, Open, ReadVersion, Execute,
       Commit, Raise, Locked, Verify, Crash, Fail, history
  <2>3. UNCHANGED vars => starts' = starts
    BY DEF vars, history
  <2>4. starts' \in 0..MaxStarts
    BY <2>1, <2>2, <2>3 DEF Next
  <2> QED
    BY <2>4, ContentKept
<1>3. Typed /\ Len(backups) <= Keep /\ content \in Contents /\ starts \in 0..MaxStarts
      => TypeOK
  BY DEF Typed, TypeOK
<1> QED
  BY <1>1, <1>2, <1>3, TypedHolds, PTL DEF Spec

(***************************************************************************)
(* The steps, as they treat the store and the processes inside a script.   *)
(***************************************************************************)
\* Nobody enters, leaves or advances in a script.
Waits == UNCHANGED <<at, seen>> /\ \A q \in Processes : phase'[q] = "run" <=> phase[q] = "run"

\* No other process moves.
OthersRest(p) ==
  \A q \in Processes \ {p} :
    phase'[q] = phase[q] /\ at'[q] = at[q] /\ seen'[q] = seen[q]

Quiet == UNCHANGED store /\ Waits

Opened ==
  /\ db.width["schema_version"] = 0
  /\ owner = Nobody /\ owner' = Nobody
  /\ db' = [db EXCEPT !.width["schema_version"] = 1] /\ pending' = db'
  /\ Waits

Entered(p) ==
  /\ UNCHANGED store /\ OthersRest(p)
  /\ phase[p] = "read" /\ phase'[p] = "run"
  /\ Version(db) \in 0..9 /\ at'[p] = FirstAfter(Version(db))
  /\ seen'[p] = seen[p]

Committed(p) ==
  /\ phase[p] = "run" /\ phase'[p] # "run" /\ at[p] = Len(Script)
  /\ ~Raises(Script[at[p]], View(p), seen[p])
  /\ db' = View(p) /\ pending' = pending
  /\ owner' = IF owner = p THEN Nobody ELSE owner
  /\ OthersRest(p)

Stopped(p) == phase'[p] # "run" /\ Rollback(p) /\ OthersRest(p)

LEMMA StepKinds ==
  ASSUME Typed, [Next]_vars
  PROVE  \/ Quiet \/ Opened
         \/ \E p \in Processes : Entered(p) \/ Execute(p) \/ Committed(p) \/ Stopped(p)
<1>1. phase \in [Processes -> {"idle", "inspect", "backup", "copy", "open",
                              "read", "run", "verify", "done", "failed"}]
      /\ at \in [Processes -> DOMAIN Script] /\ seen \in [Processes -> Nat]
  BY DEF Typed
<1>2. ASSUME NEW p \in Processes,
             Start(p) \/ Inspect(p) \/ DecideBackup(p) \/ CopyBackup(p) \/ Verify(p)
      PROVE  Quiet
  <2>1. /\ UNCHANGED <<store, at, seen>> /\ phase[p] # "run"
        /\ \E l : l # "run" /\ phase' = [phase EXCEPT ![p] = l]
    BY <1>2 DEF Start, Inspect, DecideBackup, CopyBackup, Verify, Goto, Active
  <2>2. \A q \in Processes : phase'[q] = "run" <=> phase[q] = "run"
    BY <1>1, <2>1
  <2> QED
    BY <2>1, <2>2 DEF Quiet, Waits
<1>3. ASSUME NEW p \in Processes, Open(p) PROVE Quiet \/ Opened
  <2>1. Waits
    BY <1>1, <1>3 DEF Open, Goto, Waits
  <2>2. CASE db.width["schema_version"] > 0
    BY <1>3, <2>1, <2>2 DEF Open, Quiet
  <2>3. CASE ~(db.width["schema_version"] > 0)
    <3>1. db.width["schema_version"] \in Nat
      BY ScriptUse DEF Typed, Databases
    <3>2. owner = Nobody /\ Autocommit([db EXCEPT !.width["schema_version"] = 1])
      BY <1>3, <2>3 DEF Open
    <3> QED
      BY <2>1, <2>3, <3>1, <3>2 DEF Autocommit, Opened
  <2> QED
    BY <2>2, <2>3
<1>4. ASSUME NEW p \in Processes, ReadVersion(p) PROVE Quiet \/ Entered(p)
  <2>1. Version(db) \in 0..11 /\ Latest = 10
    BY VersionIs DEF Typed, Latest
  <2>2. /\ phase[p] = "read" /\ UNCHANGED <<store, seen>>
        /\ \/ Goto(p, "failed") /\ UNCHANGED at
           \/ Goto(p, Finished(p)) /\ UNCHANGED at
           \/ /\ Version(db) < Latest /\ Goto(p, "run")
              /\ at' = [at EXCEPT ![p] = FirstAfter(Version(db))]
    BY <1>4 DEF ReadVersion
  <2>3. CASE UNCHANGED at /\ (Goto(p, "failed") \/ Goto(p, Finished(p)))
    BY <1>1, <2>2, <2>3 DEF Goto, Finished, Quiet, Waits
  <2>4. CASE /\ Version(db) < Latest /\ Goto(p, "run")
             /\ at' = [at EXCEPT ![p] = FirstAfter(Version(db))]
    <3>1. Version(db) \in 0..9
      BY <2>1, <2>4
    <3>2. /\ at'[p] = FirstAfter(Version(db)) /\ phase'[p] = "run" /\ seen'[p] = seen[p]
          /\ OthersRest(p)
      BY <1>1, <2>2, <2>4 DEF Goto, OthersRest
    <3> QED
      BY <2>2, <3>1, <3>2 DEF Entered
  <2> QED
    BY <2>2, <2>3, <2>4
<1>5. ASSUME NEW p \in Processes, Commit(p) PROVE Committed(p)
  BY <1>1, <1>5 DEF Commit, Goto, Finished, Forget, Committed, OthersRest
<1>6. ASSUME NEW p \in Processes, Raise(p) \/ Locked(p) \/ Crash(p) PROVE Stopped(p)
  <2>1. /\ Rollback(p) /\ Forget(p)
        /\ \E l \in {"failed", "idle"} : phase' = [phase EXCEPT ![p] = l]
    BY <1>6 DEF Raise, Locked, Crash, Fail, Goto
  <2> QED
    BY <1>1, <2>1 DEF Stopped, Forget, OthersRest
<1>7. UNCHANGED vars => Quiet
  BY DEF vars, local, Quiet, Waits
<1> QED
  BY <1>2, <1>3, <1>4, <1>5, <1>6, <1>7 DEF Next

\* What a process sees before and after the steps of another.
LEMMA ViewKept ==
  ASSUME Typed, NEW q \in Processes
  PROVE  /\ UNCHANGED <<db, pending, owner>> => View(q)' = View(q)
         /\ owner = Nobody /\ owner' = Nobody => View(q) = db /\ View(q)' = db'
         /\ \A p \in Processes \ {q} :
              /\ owner \in {p, Nobody} /\ owner' = p /\ db' = db => View(q)' = View(q)
              /\ Stopped(p) => View(q)' = View(q)
              /\ Committed(p) =>
                   \/ View(q)' = View(q)
                   \/ owner = p /\ View(q) = db /\ View(q)' = pending
<1>1. Nobody \notin Processes
  BY MigrationAssumption
<1>2. ASSUME NEW p \in Processes \ {q}, Stopped(p) PROVE View(q)' = View(q)
  BY <1>1, <1>2 DEF Stopped, Rollback, View
<1>3. ASSUME NEW p \in Processes \ {q}, Committed(p)
      PROVE  \/ View(q)' = View(q)
             \/ owner = p /\ View(q) = db /\ View(q)' = pending
  BY <1>1, <1>3 DEF Committed, View
<1>4. ASSUME NEW p \in Processes \ {q}, owner \in {p, Nobody}, owner' = p, db' = db
      PROVE  View(q)' = View(q)
  BY <1>1, <1>4 DEF View
<1>5. UNCHANGED <<db, pending, owner>> => View(q)' = View(q)
  BY DEF View
<1>6. owner = Nobody /\ owner' = Nobody => View(q) = db /\ View(q)' = db'
  BY <1>1 DEF View
<1> QED
  BY <1>2, <1>3, <1>4, <1>5, <1>6

\* What an Execute of p does to itself and to the others.
LEMMA Executed ==
  ASSUME Typed, NEW p \in Processes, Execute(p)
  PROVE  LET s == Script[at[p]]
             e == Effect(s, View(p), seen[p])
         IN  /\ phase[p] = "run" /\ phase'[p] = "run" /\ OthersRest(p)
             /\ at[p] \in DOMAIN Script /\ at[p] + 1 \in DOMAIN Script
             /\ at'[p] = at[p] + 1 /\ ~Raises(s, View(p), seen[p])
             /\ seen'[p] = IF s.op = "columns" THEN View(p).width[s.table] ELSE seen[p]
             /\ View(p)' = e
             /\ \A q \in Processes \ {p} :
                  \/ View(q)' = View(q)
                  \/ owner = Nobody /\ View(q) = View(p) /\ View(q)' = e
<1> DEFINE s == Script[at[p]]
           e == Effect(s, View(p), seen[p])
<1>1. /\ phase \in [Processes -> {"idle", "inspect", "backup", "copy", "open",
                              "read", "run", "verify", "done", "failed"}]
      /\ at \in [Processes -> DOMAIN Script] /\ seen \in [Processes -> Nat]
      /\ Nobody \notin Processes
  BY MigrationAssumption DEF Typed
<1>2. /\ phase[p] = "run" /\ phase' = phase
      /\ at' = [at EXCEPT ![p] = @ + 1] /\ at[p] < Len(Script)
      /\ seen' = [seen EXCEPT ![p] =
                    IF s.op = "columns" THEN View(p).width[s.table] ELSE @]
      /\ ~Raises(s, View(p), seen[p])
  BY DEF Execute
<1>3. \/ owner \in {p, Nobody} /\ owner' = p /\ pending' = e /\ db' = db
      \/ owner # p /\ e = View(p) /\ UNCHANGED store
      \/ owner = Nobody /\ owner' = Nobody /\ db' = e /\ pending' = e
  BY ExecuteStores
<1> HIDE DEF s
<1>4. at[p] \in DOMAIN Script /\ at[p] + 1 \in DOMAIN Script
  BY <1>1, <1>2, ScriptUse
<1>5. at'[p] = at[p] + 1 /\ phase'[p] = "run" /\ OthersRest(p)
      /\ seen'[p] = IF s.op = "columns" THEN View(p).width[s.table] ELSE seen[p]
  BY <1>1, <1>2 DEF OthersRest
<1> HIDE DEF e
<1>6. View(p)' = e
  BY <1>1, <1>3 DEF View, store
<1>7. ASSUME NEW q \in Processes \ {p}
      PROVE  \/ View(q)' = View(q)
             \/ owner = Nobody /\ View(q) = View(p) /\ View(q)' = e
  BY <1>1, <1>3 DEF View, store
<1> QED
  BY <1>2, <1>4, <1>5, <1>6, <1>7 DEF s, e

(***************************************************************************)
(* The audit rows.                                                         *)
(***************************************************************************)
Ids(rows) == {r.id : r \in rows}

\* A renamed table that is absent has no rows.
RowsPlaced(d) == d.width[Renamed] = 0 => d.audit[Renamed] = {}

\* The old table is dropped in the transaction that copied its rows.
DropReady(p) ==
  phase[p] = "run" /\ Script[at[p]].op = "drop" /\ seen[p] > 0 =>
    owner = p /\ Ids(pending.audit[Renamed]) \subseteq Ids(pending.audit[Promotions])

RowsHeld ==
  /\ RowsPlaced(db) /\ RowsPlaced(pending)
  /\ AuditIds(db) \subseteq AuditIds(pending)
  /\ \A p \in Processes : DropReady(p)

\* Whose transaction it is runs a script.
OwnerRuns == owner # Nobody => phase[owner] = "run"

LEMMA IdsOf ==
  ASSUME NEW d
  PROVE  AuditIds(d) = Ids(d.audit[Promotions]) \cup Ids(d.audit[Renamed])
BY DEF AuditIds, Ids

\* What a statement that does not raise does to the rows.
LEMMA RowsEffect ==
  ASSUME NEW i \in DOMAIN Script, NEW d \in Databases, NEW w \in Nat,
         RowsPlaced(d), ~Raises(Script[i], d, w),
         Script[i].op = "drop" /\ w > 0 =>
           Ids(d.audit[Renamed]) \subseteq Ids(d.audit[Promotions])
  PROVE  LET e == Effect(Script[i], d, w)
         IN  /\ RowsPlaced(e) /\ AuditIds(d) \subseteq AuditIds(e)
             /\ Script[i].op = "copy" /\ w > 0 =>
                  Ids(e.audit[Renamed]) \subseteq Ids(e.audit[Promotions])
<1> DEFINE s == Script[i]
           e == Effect(s, d, w)
           Kept == /\ RowsPlaced(e) /\ AuditIds(d) \subseteq AuditIds(e)
                   /\ s.op = "copy" /\ w > 0 =>
                        Ids(e.audit[Renamed]) \subseteq Ids(e.audit[Promotions])
<1>1. /\ s.op \in Operations /\ s.table \in Tables
      /\ s.op \in {"create", "add"} => s.table # Renamed
      /\ Promotions \in Tables /\ Renamed \in Tables /\ Promotions # Renamed
  BY ScriptUse DEF Fitting, Created, Promotions, Renamed
<1>2. /\ d.width \in [Tables -> Nat]
      /\ d.audit \in [{Promotions, Renamed} -> SUBSET Rows]
  BY DEF Databases
<1> HIDE DEF s
<1>3. ASSUME e.width[Renamed] = d.width[Renamed], e.audit = d.audit, s.op # "copy"
      PROVE  Kept
  BY <1>3 DEF RowsPlaced, AuditIds
<1>4. ASSUME e = d, ~(s.op = "copy" /\ w > 0) PROVE Kept
  BY <1>4
<1>5. ASSUME s.op \in {"create", "add", "index", "recreate", "record"} PROVE Kept
  <2>1. /\ Made(s, d).audit = d.audit
        /\ s.op = "create" => Made(s, d).width[Renamed] = d.width[Renamed]
    BY <1>1, <1>2 DEF Made, Databases
  <2>2. /\ Added(s, d).audit = d.audit
        /\ s.op = "add" => Added(s, d).width[Renamed] = d.width[Renamed]
    BY <1>1, <1>2 DEF Added, Databases
  <2>3. Indexed(d).audit = d.audit /\ Indexed(d).width = d.width
    BY DEF Indexed, Databases
  <2>4. Remade(d).audit = d.audit /\ Remade(d).width[Renamed] = d.width[Renamed]
    BY <1>1, <1>2 DEF Remade, Databases
  <2>5. Recorded(s, d).audit = d.audit /\ Recorded(s, d).width = d.width
    BY DEF Recorded, Databases
  <2>6. \/ e = d \/ (s.op = "create" /\ e = Made(s, d)) \/ (s.op = "add" /\ e = Added(s, d))
        \/ e = Indexed(d) \/ e = Remade(d) \/ e = Recorded(s, d)
    BY <1>5, EffectIs
  <2>7. e.width[Renamed] = d.width[Renamed] /\ e.audit = d.audit
    <3> HIDE DEF e
    <3> QED
      BY <2>1, <2>2, <2>3, <2>4, <2>5, <2>6
  <2> QED
    BY <1>3, <1>5, <2>7
<1>6. ASSUME s.op = "rename" PROVE Kept
  <2>1. CASE w > 0
    <3>1. e = Moved(d)
      BY <1>6, <2>1, EffectIs
    <3>2. d.width[Promotions] # 0 /\ d.width[Renamed] = 0
      BY <1>1, <1>2, <1>6, <2>1 DEF Raises, s
    <3>3. /\ e.width[Renamed] = d.width[Promotions]
          /\ e.audit[Renamed] = d.audit[Promotions]
      BY <1>1, <1>2, <3>1 DEF Moved, Databases
    <3>4. d.audit[Renamed] = {}
      BY <3>2 DEF RowsPlaced
    <3>5. AuditIds(d) \subseteq AuditIds(e)
      BY <3>3, <3>4 DEF AuditIds
    <3> QED
      BY <1>6, <3>2, <3>3, <3>5 DEF RowsPlaced
  <2>2. CASE ~(w > 0)
    BY <1>4, <1>6, <2>2, EffectIs
  <2> QED
    BY <2>1, <2>2
<1>7. ASSUME s.op = "copy" PROVE Kept
  <2>1. CASE w > 0
    <3>1. e = Copied(d)
      BY <1>7, <2>1, EffectIs
    <3>2. /\ e.width = d.width /\ e.audit[Renamed] = d.audit[Renamed]
          /\ e.audit[Promotions] = d.audit[Promotions] \cup Nullified(d.audit[Renamed])
      BY <1>1, <1>2, <3>1 DEF Copied, Databases
    <3>3. Ids(Nullified(d.audit[Renamed])) = Ids(d.audit[Renamed])
      BY <1>2, NullifiedTyped DEF Ids
    <3>4. Ids(e.audit[Promotions]) =
            Ids(d.audit[Promotions]) \cup Ids(Nullified(d.audit[Renamed]))
      BY <3>2 DEF Ids
    <3>5. AuditIds(d) \subseteq AuditIds(e)
      BY <3>2, <3>3, <3>4, IdsOf
    <3> QED
      BY <3>2, <3>3, <3>4, <3>5 DEF RowsPlaced
  <2>2. CASE ~(w > 0)
    BY <1>4, <1>7, <2>2, EffectIs
  <2> QED
    BY <2>1, <2>2
<1>8. ASSUME s.op = "drop" PROVE Kept
  <2>1. CASE w > 0
    <3>1. e = Dropped(d)
      BY <1>8, <2>1, EffectIs
    <3>2. e.audit[Renamed] = {} /\ e.audit[Promotions] = d.audit[Promotions]
      BY <1>1, <1>2, <3>1 DEF Dropped, Databases
    <3>3. Ids(d.audit[Renamed]) \subseteq Ids(d.audit[Promotions])
      BY <1>8, <2>1 DEF s
    <3>4. AuditIds(d) \subseteq AuditIds(e)
      BY <3>2, <3>3, IdsOf
    <3> QED
      BY <1>8, <3>2, <3>4 DEF RowsPlaced
  <2>2. CASE ~(w > 0)
    BY <1>4, <1>8, <2>2, EffectIs
  <2> QED
    BY <2>1, <2>2
<1>9. ASSUME s.op \in {"columns", "backfill", "update", "assert"} PROVE Kept
  BY <1>4, <1>9, EffectIs
<1>10. Kept
  BY <1>1, <1>5, <1>6, <1>7, <1>8, <1>9 DEF Operations
<1> QED
  BY <1>10 DEF s, e

\* An Execute loses no row and prepares the drop.
LEMMA ExecuteRows ==
  ASSUME Typed, RowsHeld, NEW p \in Processes, Execute(p)
  PROVE  RowsHeld' /\ AuditIds(db) \subseteq AuditIds(db')
<1> DEFINE s == Script[at[p]]
           w == seen[p]
           d == View(p)
           e == Effect(s, d, w)
<1>1. /\ d \in Databases /\ w \in Nat /\ at[p] \in DOMAIN Script
      /\ Nobody \notin Processes /\ owner \in Processes \cup {Nobody}
      /\ owner = Nobody => pending = db
  BY ViewTyped, MigrationAssumption DEF Typed
<1>2. RowsPlaced(d) /\ AuditIds(db) \subseteq AuditIds(d)
  BY DEF RowsHeld, View
<1>3. /\ ~Raises(s, d, w) /\ at[p] + 1 \in DOMAIN Script /\ at'[p] = at[p] + 1
      /\ seen'[p] = IF s.op = "columns" THEN d.width[s.table] ELSE w
      /\ phase[p] = "run" /\ OthersRest(p)
  BY Executed
<1>4. s.op = "drop" /\ w > 0 => Ids(d.audit[Renamed]) \subseteq Ids(d.audit[Promotions])
  BY <1>3 DEF RowsHeld, DropReady, View
<1>5. /\ RowsPlaced(e) /\ AuditIds(d) \subseteq AuditIds(e)
      /\ s.op = "copy" /\ w > 0 =>
           Ids(e.audit[Renamed]) \subseteq Ids(e.audit[Promotions])
  <2> HIDE DEF d
  <2> QED
    BY <1>1, <1>2, <1>3, <1>4, RowsEffect
<1>6. \/ /\ owner \in {p, Nobody} /\ owner' = p /\ pending' = e /\ db' = db
      \/ owner # p /\ e = d /\ UNCHANGED store /\ ~OpensTransaction(s, w)
      \/ /\ owner = Nobody /\ owner' = Nobody /\ db' = e /\ pending' = e
         /\ ~OpensTransaction(s, w)
  BY ExecuteStores
<1>7. s.op = "copy" /\ w > 0 => OpensTransaction(s, w)
  BY DEF OpensTransaction
<1>8. \A t : owner # p => d = db
  BY DEF View
<1> HIDE DEF s, d, e, w
<1>9. AuditIds(db) \subseteq AuditIds(db')
  BY <1>1, <1>2, <1>5, <1>6, <1>8 DEF store
<1>10. RowsPlaced(db') /\ RowsPlaced(pending') /\ AuditIds(db') \subseteq AuditIds(pending')
  BY <1>2, <1>5, <1>6 DEF store, RowsHeld
<1>11. DropReady(p)'
  <2> SUFFICES ASSUME Script[at'[p]].op = "drop", seen'[p] > 0
               PROVE  /\ owner' = p
                      /\ Ids(pending'.audit[Renamed]) \subseteq Ids(pending'.audit[Promotions])
    BY DEF DropReady
  <2>1. Dependent(Script[at[p] + 1]) /\ Script[at[p] + 1].op = "drop"
    BY <1>3 DEF Dependent
  <2>2. Follows(s, Script[at[p] + 1])
    <3>1. \A k \in DOMAIN Script : Dependent(Script[k]) => Follows(Script[k-1], Script[k])
      BY ScriptUse
    <3>2. (at[p] + 1) - 1 = at[p]
      BY <1>1, ScriptUse
    <3>3. Follows(Script[(at[p] + 1) - 1], Script[at[p] + 1])
      BY <1>3, <2>1, <3>1
    <3> QED
      BY <3>2, <3>3 DEF s
  <2>3. s.op = "copy" /\ w > 0
    BY <1>3, <2>1, <2>2 DEF Follows
  <2> QED
    BY <1>5, <1>6, <1>7, <2>3
<1>12. ASSUME NEW q \in Processes \ {p} PROVE DropReady(q)'
  <2>1. DropReady(q) /\ phase'[q] = phase[q] /\ at'[q] = at[q] /\ seen'[q] = seen[q]
    BY <1>3 DEF RowsHeld, OthersRest
  <2>2. owner = q => owner' = q /\ pending' = pending
    BY <1>1, <1>6 DEF store
  <2> QED
    BY <2>1, <2>2 DEF DropReady
<1> QED
  BY <1>9, <1>10, <1>11, <1>12 DEF RowsHeld

LEMMA RowsStep ==
  ASSUME Typed, RowsHeld, [Next]_vars
  PROVE  RowsHeld' /\ AuditIds(db) \subseteq AuditIds(db')
<1> DEFINE Kept == RowsHeld' /\ AuditIds(db) \subseteq AuditIds(db')
<1>1. /\ Nobody \notin Processes /\ owner \in Processes \cup {Nobody}
      /\ owner = Nobody => pending = db
      /\ db \in Databases /\ pending \in Databases
  BY MigrationAssumption DEF Typed
<1>2. CASE Quiet
  <2>1. ASSUME NEW q \in Processes PROVE DropReady(q)'
    <3>1. DropReady(q)
      BY DEF RowsHeld
    <3> QED
      BY <1>2, <3>1 DEF Quiet, Waits, store, DropReady
  <2> QED
    BY <1>2, <2>1 DEF Quiet, store, RowsHeld
<1>3. CASE Opened
  <2>1. db'.audit = db.audit /\ db'.width[Renamed] = db.width[Renamed]
    <3>1. Renamed # "schema_version"
      BY DEF Renamed
    <3> QED
      BY <1>1, <1>3, <3>1 DEF Opened, Databases
  <2>2. ASSUME NEW q \in Processes PROVE DropReady(q)'
    <3>1. DropReady(q) /\ owner # q
      BY <1>1, <1>3 DEF RowsHeld, Opened
    <3> QED
      BY <1>3, <3>1 DEF Opened, Waits, DropReady
  <2>3. pending' = db'
    BY <1>3 DEF Opened
  <2> QED
    BY <2>1, <2>2, <2>3 DEF RowsHeld, RowsPlaced, AuditIds
<1>4. ASSUME NEW p \in Processes, Entered(p) PROVE Kept
  <2>1. Script[at'[p]].op # "drop"
    BY <1>4, StartPosition DEF Entered, Dependent
  <2>2. ASSUME NEW q \in Processes PROVE DropReady(q)'
    <3>1. DropReady(q)
      BY DEF RowsHeld
    <3>2. CASE q = p
      BY <2>1, <3>2 DEF DropReady
    <3>3. CASE q # p
      BY <1>4, <3>1, <3>3 DEF Entered, OthersRest, store, DropReady
    <3> QED
      BY <3>2, <3>3
  <2> QED
    BY <1>4, <2>2 DEF Entered, store, RowsHeld
<1>5. ASSUME NEW p \in Processes, Committed(p) PROVE Kept
  <2>1. /\ db' = View(p) /\ pending' = pending
        /\ owner' = IF owner = p THEN Nobody ELSE owner
        /\ phase'[p] # "run" /\ OthersRest(p)
    BY <1>5 DEF Committed
  <2>2. db' = IF owner = p THEN pending ELSE db
    BY <2>1 DEF View
  <2>3. ASSUME NEW q \in Processes PROVE DropReady(q)'
    <3>1. CASE q = p
      BY <2>1, <3>1 DEF DropReady
    <3>2. CASE q # p
      <4>1. DropReady(q)
        BY DEF RowsHeld
      <4> QED
        BY <2>1, <3>2, <4>1 DEF OthersRest, DropReady
    <3> QED
      BY <3>1, <3>2
  <2>4. /\ RowsPlaced(db') /\ RowsPlaced(pending')
        /\ AuditIds(db') \subseteq AuditIds(pending')
        /\ AuditIds(db) \subseteq AuditIds(db')
    BY <2>1, <2>2 DEF RowsHeld
  <2> QED
    BY <2>3, <2>4 DEF RowsHeld
<1>6. ASSUME NEW p \in Processes, Stopped(p) PROVE Kept
  <2>1. /\ db' = db /\ pending' = IF owner = p THEN db ELSE pending
        /\ owner' = IF owner = p THEN Nobody ELSE owner
        /\ phase'[p] # "run" /\ OthersRest(p)
    BY <1>6 DEF Stopped, Rollback
  <2>2. ASSUME NEW q \in Processes PROVE DropReady(q)'
    <3>1. CASE q = p
      BY <2>1, <3>1 DEF DropReady
    <3>2. CASE q # p
      <4>1. DropReady(q)
        BY DEF RowsHeld
      <4> QED
        BY <2>1, <3>2, <4>1 DEF OthersRest, DropReady
    <3> QED
      BY <3>1, <3>2
  <2>3. /\ RowsPlaced(db') /\ RowsPlaced(pending')
        /\ AuditIds(db') \subseteq AuditIds(pending')
        /\ AuditIds(db) \subseteq AuditIds(db')
    BY <2>1 DEF RowsHeld
  <2> QED
    BY <2>2, <2>3 DEF RowsHeld
<1> QED
  BY <1>2, <1>3, <1>4, <1>5, <1>6, ExecuteRows, StepKinds

LEMMA RowsHolds == Spec => []RowsHeld
<1>1. Init => RowsHeld
  <2> SUFFICES ASSUME Init PROVE RowsHeld
    OBVIOUS
  <2>1. \E v \in StartVersions, f \in [Audit -> EarlySuccessors] :
          db = HistoricalDatabase(v, f)
    BY DEF Init, EarlySuccessors
  <2>2. pending = db /\ phase = [p \in Processes |-> "idle"]
    BY DEF Init
  <2>3. db.audit[Renamed] = {}
    <3>1. PICK v \in StartVersions, f \in [Audit -> EarlySuccessors] :
            db = HistoricalDatabase(v, f)
      BY <2>1
    <3>2. db.audit = [t \in {Promotions, Renamed} |->
                        IF v < 7 \/ t = Renamed THEN {} ELSE AuditRows(v, f)]
      BY <3>1 DEF HistoricalDatabase, AuditRows
    <3> QED
      BY <3>2
  <2> QED
    BY <2>2, <2>3 DEF RowsHeld, RowsPlaced, DropReady
<1>2. Typed /\ RowsHeld /\ [Next]_vars => RowsHeld'
  BY RowsStep
<1>3. Spec => []Typed
  BY TypedHolds, PTL
<1> QED
  BY <1>1, <1>2, <1>3, PTL DEF Spec

\* No step loses an audit row, from whichever version and however many
\* processes run the rebuild of model_promotions and die in it.  A rename
\* needs the renamed table to be absent, and the drop comes in the transaction
\* that copied the rows.
THEOREM AuditRowsSurvive == Spec => AuditRowsKept
<1>1. Typed /\ RowsHeld /\ [Next]_vars => [AuditIds(db) \subseteq AuditIds(db')]_vars
  BY RowsStep
<1>2. Spec => [](Typed /\ RowsHeld)
  BY TypedHolds, RowsHolds, PTL
<1> QED
  BY <1>1, <1>2, PTL DEF Spec, AuditRowsKept

(***************************************************************************)
(* Transactions and processes that nobody disturbs.                        *)
(***************************************************************************)
LEMMA OwnerStep ==
  ASSUME Typed, OwnerRuns, [Next]_vars
  PROVE  OwnerRuns'
<1>1. Nobody \notin Processes /\ owner \in Processes \cup {Nobody}
  BY MigrationAssumption DEF Typed
<1>2. CASE Quiet
  BY <1>1, <1>2 DEF Quiet, Waits, store, OwnerRuns
<1>3. CASE Opened
  BY <1>3 DEF Opened, OwnerRuns
<1>4. ASSUME NEW p \in Processes, Entered(p) PROVE OwnerRuns'
  BY <1>1, <1>4 DEF Entered, OthersRest, store, OwnerRuns
<1>5. ASSUME NEW p \in Processes, Execute(p) PROVE OwnerRuns'
  <2>1. phase[p] = "run" /\ phase'[p] = "run" /\ OthersRest(p)
    BY <1>5, Executed
  <2>2. owner' \in {p, owner}
    BY <1>5 DEF Execute, Autocommit, store
  <2> QED
    BY <1>1, <2>1, <2>2 DEF OthersRest, OwnerRuns
<1>6. ASSUME NEW p \in Processes, Committed(p) \/ Stopped(p) PROVE OwnerRuns'
  <2>1. OthersRest(p) /\ owner' = IF owner = p THEN Nobody ELSE owner
    BY <1>6 DEF Committed, Stopped, Rollback
  <2> QED
    BY <1>1, <2>1 DEF OthersRest, OwnerRuns
<1> QED
  BY <1>2, <1>3, <1>4, <1>5, <1>6, StepKinds

\* The steps of an active process.
Acts(p) ==
  \/ Inspect(p) \/ DecideBackup(p) \/ CopyBackup(p) \/ Open(p) \/ ReadVersion(p)
  \/ Execute(p) \/ Commit(p) \/ Raise(p) \/ Locked(p) \/ Verify(p) \/ Crash(p)

\* Whoever is alone has nobody else at work.
Undisturbed(h) ==
  alone[h] /\ Active(h) => \A o \in Processes \ {h} : ~Active(o)

LEMMA ActsIs ==
  ASSUME Typed, NEW p \in Processes, Acts(p)
  PROVE  /\ Active(p) /\ UNCHANGED history
         /\ \A q \in Processes \ {p} : phase'[q] = phase[q]
<1>1. Active(p)
  BY DEF Acts, Inspect, DecideBackup, CopyBackup, Open, ReadVersion, Execute,
     Commit, Raise, Locked, Verify, Crash, Active
<1>2. UNCHANGED history
  BY DEF Acts, Inspect, DecideBackup, CopyBackup, Open, ReadVersion, Execute,
     Commit, Raise, Locked, Verify, Crash, Fail
<1>3. phase' = phase \/ \E l : phase' = [phase EXCEPT ![p] = l]
  BY DEF Acts, Inspect, DecideBackup, CopyBackup, Open, ReadVersion, Execute,
     Commit, Raise, Locked, Verify, Crash, Fail, Goto
<1>4. \A q \in Processes \ {p} : phase'[q] = phase[q]
  BY <1>3 DEF Typed
<1> QED
  BY <1>1, <1>2, <1>4

LEMMA StartIs ==
  ASSUME Typed, NEW p \in Processes, Start(p)
  PROVE  /\ UNCHANGED <<store, at, seen, backups>> /\ ~Active(p) /\ Active(p)'
         /\ phase'[p] = IF p \in Hosts THEN "inspect" ELSE "open"
         /\ found' = IF p \in Hosts THEN db ELSE found
         /\ intact'[p] = Intact(db)
         /\ alone'[p] => \A o \in Processes : ~Active(o)
         /\ \A q \in Processes \ {p} :
              /\ phase'[q] = phase[q] /\ intact'[q] = intact[q]
              /\ alone'[q] => alone[q] /\ ~Active(q)
BY DEF Typed, Start, Goto, Active

LEMMA UndisturbedStep ==
  ASSUME Typed, \A h \in Processes : Undisturbed(h), [Next]_vars
  PROVE  (\A h \in Processes : Undisturbed(h))'
<1>1. ASSUME NEW p \in Processes, Start(p), NEW h \in Processes PROVE Undisturbed(h)'
  <2>1. CASE h = p
    BY <1>1, <2>1, StartIs DEF Undisturbed, Active
  <2>2. CASE h # p
    BY <1>1, <2>2, StartIs DEF Undisturbed, Active
  <2> QED
    BY <2>1, <2>2
<1>2. ASSUME NEW p \in Processes, Acts(p), NEW h \in Processes PROVE Undisturbed(h)'
  <2>1. /\ Active(p) /\ UNCHANGED history /\ Undisturbed(h)
        /\ \A q \in Processes \ {p} : phase'[q] = phase[q]
    BY <1>2, ActsIs
  <2>2. CASE h = p
    BY <2>1, <2>2 DEF Undisturbed, Active, history
  <2>3. CASE h # p
    BY <2>1, <2>3 DEF Undisturbed, Active, history
  <2> QED
    BY <2>2, <2>3
<1>3. ASSUME UNCHANGED vars, NEW h \in Processes PROVE Undisturbed(h)'
  <2>1. Undisturbed(h)
    OBVIOUS
  <2> QED
    BY <1>3, <2>1 DEF Undisturbed, Active, vars, local, history
<1> QED
  BY <1>1, <1>2, <1>3 DEF Next, Acts

LEMMA AloneHolds == Spec => [](OwnerRuns /\ \A h \in Processes : Undisturbed(h))
<1>1. Init => OwnerRuns /\ \A h \in Processes : Undisturbed(h)
  <2> SUFFICES ASSUME Init PROVE OwnerRuns /\ \A h \in Processes : Undisturbed(h)
    OBVIOUS
  <2>1. owner = Nobody /\ alone = [p \in Processes |-> FALSE]
    BY DEF Init
  <2> QED
    BY <2>1 DEF OwnerRuns, Undisturbed
<1>2. /\ Typed /\ OwnerRuns /\ (\A h \in Processes : Undisturbed(h)) /\ [Next]_vars
      => (OwnerRuns /\ \A h \in Processes : Undisturbed(h))'
  BY OwnerStep, UndisturbedStep
<1>3. Spec => []Typed
  BY TypedHolds, PTL
<1> QED
  BY <1>1, <1>2, <1>3, PTL DEF Spec

(***************************************************************************)
(* The backup.                                                             *)
(***************************************************************************)
\* The database that was found is in a file, or there was none.
Saved ==
  \/ Inspection(found) = "missing"
  \/ \E i \in DOMAIN backups : backups[i] = found

\* What an undisturbed host has seen to before it opens the database.
BackupFirst(h) ==
  alone[h] /\ Active(h) =>
    /\ phase[h] \in {"inspect", "backup", "copy"} => db = found
    /\ phase[h] = "backup" => Inspection(db) \in {"missing", "older"}
    /\ phase[h] \in {"open", "read", "run"} => Saved
    /\ phase[h] = "verify" => db = found \/ Saved

LEMMA NewestKeepsLast ==
  ASSUME NEW files \in Seq(Databases), NEW d \in Databases
  PROVE  \E i \in DOMAIN Newest(Append(files, d)) : Newest(Append(files, d))[i] = d
<1> DEFINE F == Append(files, d)
<1>1. /\ Keep \in Nat \ {0} /\ Len(files) \in Nat
      /\ F \in Seq(Databases) /\ Len(F) = Len(files) + 1 /\ F[Len(F)] = d
      /\ DOMAIN F = 1..Len(F)
  BY MigrationAssumption, AppendProperties, LenProperties
<1> HIDE DEF F
<1>2. CASE Len(F) > Keep
  <2> DEFINE m == Len(F) - Keep + 1
             G == SubSeq(F, m, Len(F))
  <2>1. /\ m \in Int /\ Len(F) \in Int /\ \A i \in m..Len(F) : F[i] \in Databases
        /\ m <= Len(F) /\ Len(F) - m + 1 = Keep
    BY <1>1, <1>2, ElementOfSeq
  <2>2. /\ G \in Seq(Databases)
        /\ Len(G) = IF m <= Len(F) THEN Len(F) - m + 1 ELSE 0
        /\ \A i \in 1..(Len(F) - m + 1) : G[i] = F[m + i - 1]
    <3> HIDE DEF m
    <3> QED
      BY <2>1, SubSeqProperties
  <2>3. Len(G) = Keep /\ DOMAIN G = 1..Keep /\ Keep \in 1..Keep /\ m + Keep - 1 = Len(F)
    <3>1. Len(G) = Keep
      BY <2>1, <2>2
    <3>2. Keep \in 1..Keep /\ m + Keep - 1 = Len(F)
      BY <1>1
    <3> HIDE DEF m, G
    <3> QED
      BY <2>2, <3>1, <3>2, LenProperties
  <2>4. G[Keep] = d
    <3> HIDE DEF m, G
    <3> QED
      BY <1>1, <2>1, <2>2, <2>3
  <2>5. Newest(F) = G
    BY <1>2 DEF Newest
  <2> HIDE DEF G
  <2> QED
    BY <2>3, <2>4, <2>5 DEF F
<1>3. CASE ~(Len(F) > Keep)
  <2>1. Newest(F) = F
    BY <1>3 DEF Newest
  <2> QED
    BY <1>1, <2>1 DEF F
<1> QED
  BY <1>2, <1>3

LEMMA InspectionIs ==
  ASSUME NEW d
  PROVE  Inspection(d) \in {"missing", "older", "newer", "current_valid", "current_corrupt"}
BY DEF Inspection

LEMMA BackupStep ==
  ASSUME Typed, \A h \in Processes : Undisturbed(h), \A h \in Hosts : BackupFirst(h),
         [Next]_vars
  PROVE  (\A h \in Hosts : BackupFirst(h))'
<1>1. Hosts \subseteq Processes
  BY DEF Processes
<1>2. ASSUME NEW p \in Processes, Start(p), NEW h \in Hosts PROVE BackupFirst(h)'
  <2>1. CASE h = p
    <3>1. phase'[h] = "inspect" /\ found' = db /\ db' = db
      BY <1>2, <2>1, StartIs DEF store
    <3> QED
      BY <3>1 DEF BackupFirst
  <2>2. CASE h # p
    <3>1. alone'[h] => ~Active(h) /\ phase'[h] = phase[h]
      BY <1>1, <1>2, <2>2, StartIs
    <3> QED
      BY <3>1 DEF BackupFirst, Active
  <2> QED
    BY <2>1, <2>2
<1>3. ASSUME NEW p \in Processes, Acts(p), NEW h \in Hosts PROVE BackupFirst(h)'
  <2>1. /\ Active(p) /\ UNCHANGED history /\ Undisturbed(h) /\ BackupFirst(h)
        /\ \A q \in Processes \ {p} : phase'[q] = phase[q]
    BY <1>1, <1>3, ActsIs
  <2>2. CASE h # p
    <3>1. alone'[h] => ~Active(h) /\ phase'[h] = phase[h]
      BY <1>1, <2>1, <2>2 DEF Undisturbed, history
    <3> QED
      BY <3>1 DEF BackupFirst, Active
  <2>3. CASE h = p
    <3> SUFFICES ASSUME alone'[h]
                 PROVE  BackupFirst(h)'
      BY DEF BackupFirst
    <3>1. alone[h] /\ Active(h) /\ found' = found /\ h \in Hosts /\ h \in Processes
      BY <1>1, <2>1, <2>3 DEF history
    <3>2. /\ phase[h] \in {"inspect", "backup", "copy"} => db = found
          /\ phase[h] = "backup" => Inspection(db) \in {"missing", "older"}
          /\ phase[h] \in {"open", "read", "run"} => Saved
          /\ phase[h] = "verify" => db = found \/ Saved
      BY <2>1, <3>1 DEF BackupFirst
    <3>3. \A l : Goto(h, l) => phase'[h] = l
      BY <3>1 DEF Goto, Typed
    <3>4. UNCHANGED backups => Saved' = Saved
      BY <3>1 DEF Saved, Inspection, Version, Sound
    <3>5. CASE Inspect(h)
      <4>1. /\ phase[h] = "inspect" /\ db' = db
            /\ phase'[h] = CASE Inspection(db) \in {"newer", "current_corrupt"} -> "failed"
                             [] Inspection(db) = "current_valid" -> "verify"
                             [] OTHER -> "backup"
        BY <3>3, <3>5 DEF Inspect, store
      <4>2. Inspection(db)' = Inspection(db)
        BY <4>1 DEF Inspection, Version, Sound
      <4>3. \/ phase'[h] = "failed" \/ phase'[h] = "verify"
            \/ phase'[h] = "backup" /\ Inspection(db) \in {"missing", "older"}
        BY <4>1, InspectionIs
      <4> QED
        BY <3>1, <3>2, <4>1, <4>2, <4>3 DEF BackupFirst
    <3>6. CASE DecideBackup(h)
      <4>1. /\ phase[h] = "backup" /\ db' = db /\ UNCHANGED backups
            /\ phase'[h] = CASE Inspection(db) \in {"newer", "current_corrupt"} -> "failed"
                 [] Inspection(db) \in {"missing", "current_valid"} -> "open"
                 [] OTHER -> "copy"
        BY <3>3, <3>6 DEF DecideBackup, store
      <4>2. \/ phase'[h] = "copy"
            \/ phase'[h] = "open" /\ Inspection(db) = "missing"
        <5>1. CASE Inspection(db) = "missing"
          BY <4>1, <5>1
        <5>2. CASE Inspection(db) = "older"
          BY <4>1, <5>2
        <5> QED
          BY <3>2, <4>1, <5>1, <5>2
      <4>3. phase'[h] = "open" => Saved'
        BY <3>2, <3>4, <4>1, <4>2 DEF Saved
      <4> QED
        BY <3>1, <3>2, <4>1, <4>2, <4>3 DEF BackupFirst
    <3>7. CASE CopyBackup(h)
      <4>1. phase[h] = "copy" /\ backups' = Newest(Append(backups, db)) /\ phase'[h] = "open"
        BY <3>3, <3>7 DEF CopyBackup
      <4>2. \E i \in DOMAIN backups' : backups'[i] = found'
        BY <3>1, <3>2, <4>1, NewestKeepsLast DEF Typed
      <4>3. Saved'
        BY <4>2 DEF Saved
      <4> QED
        BY <4>1, <4>3 DEF BackupFirst
    <3>8. CASE Open(h) \/ ReadVersion(h) \/ Execute(h) \/ Commit(h)
      <4>1. phase[h] \in {"open", "read", "run"} /\ UNCHANGED backups
        BY <3>8 DEF Open, ReadVersion, Execute, Commit
      <4>2. phase'[h] \notin {"inspect", "backup", "copy"}
        BY <3>3, <3>8, <4>1 DEF Open, ReadVersion, Execute, Commit, Finished
      <4>3. Saved'
        BY <3>2, <3>4, <4>1
      <4> QED
        BY <4>2, <4>3 DEF BackupFirst
    <3>9. CASE Raise(h) \/ Locked(h) \/ Verify(h) \/ Crash(h)
      <4>1. phase'[h] \in {"failed", "done", "idle"}
        BY <3>3, <3>9 DEF Raise, Locked, Verify, Crash, Fail
      <4> QED
        BY <4>1 DEF BackupFirst, Active
    <3> QED
      BY <1>3, <2>3, <3>5, <3>6, <3>7, <3>8, <3>9 DEF Acts
  <2> QED
    BY <2>2, <2>3
<1>4. ASSUME UNCHANGED vars, NEW h \in Hosts PROVE BackupFirst(h)'
  <2>1. BackupFirst(h)
    OBVIOUS
  <2> QED
    BY <1>4, <2>1 DEF BackupFirst, Active, Saved, Inspection, Version, Sound, vars,
       store, local, history
<1> QED
  BY <1>2, <1>3, <1>4 DEF Next, Acts

\* A host that migrates undisturbed has the database it found in a backup
\* before it changes anything: inspect_schema, backup_before_migration and the
\* retention leave no path from an existing older database to initialize
\* without a copy that is still there.
THEOREM BackupsHoldOldDatabase == Spec => []BackupHoldsOldDatabase
<1>1. Init => \A h \in Hosts : BackupFirst(h)
  <2> SUFFICES ASSUME Init, NEW h \in Hosts PROVE BackupFirst(h)
    OBVIOUS
  <2>1. alone = [p \in Processes |-> FALSE] /\ h \in Processes
    BY DEF Init, Processes
  <2> QED
    BY <2>1 DEF BackupFirst
<1>2. /\ Typed /\ (\A h \in Processes : Undisturbed(h))
      /\ (\A h \in Hosts : BackupFirst(h)) /\ [Next]_vars
      => (\A h \in Hosts : BackupFirst(h))'
  BY BackupStep
<1>3. Typed /\ (\A h \in Hosts : BackupFirst(h)) => BackupHoldsOldDatabase
  <2> SUFFICES ASSUME Typed, NEW h \in Hosts, BackupFirst(h), Active(h), alone[h], db # found
               PROVE  Saved
    BY DEF BackupHoldsOldDatabase, Saved
  <2>1. phase[h] \in {"inspect", "backup", "copy", "open", "read", "run", "verify"}
    BY DEF Typed, Active, Processes
  <2> QED
    BY <2>1 DEF BackupFirst
<1>4. Spec => [](Typed /\ \A h \in Processes : Undisturbed(h))
  BY TypedHolds, AloneHolds, PTL
<1> QED
  BY <1>1, <1>2, <1>3, <1>4, PTL DEF Spec

(***************************************************************************)
(* What a recorded version promises.                                       *)
(***************************************************************************)
\* The tables that only gain columns.
Plain == Tables \ {Promotions, Renamed}

NoEmpty(rows) == \A r \in rows : r.successor # ""

\* The statement's column is there.
Built(j, d) ==
  Script[j].op \in {"create", "add"} /\ Script[j].table \in Plain =>
    d.width[Script[j].table] >= Script[j].n

\* Every version that a database records left its columns, from the rebuild
\* on no empty successor, and an absent table has no rows.
Stored(d) ==
  /\ \A i \in DOMAIN Script :
       Script[i].op = "record" /\ Script[i].n \in d.applied =>
         \A j \in 1..(i-1) : Built(j, d)
  /\ (\E u \in d.applied : u >= 8) => NoEmpty(d.audit[Promotions])
  /\ d.width[Promotions] = 0 => d.audit[Promotions] = {}

\* The old rows have left model_promotions, or there were none.
Rebuilt(i, w) ==
  \/ \E k \in 1..(i-1) : Script[k].op = "record" /\ Script[k].n >= 8
  \/ Script[i].op \in {"recreate", "copy", "drop", "index"}
  \/ Script[i].op = "record" /\ Script[i].n = 8
  \/ Script[i].op = "rename" /\ w = 0

\* What holds for a process at statement i that listed w columns and sees d.
Passed(i, w, d) ==
  /\ \A j \in 1..(i-1) : Built(j, d)
  /\ Script[i].op = "add" => w <= d.width[Script[i].table]
  /\ Rebuilt(i, w) => NoEmpty(d.audit[Promotions])

\* A database after statements of anybody.
Grows(d, e) ==
  /\ \A t \in Plain : d.width[t] <= e.width[t]
  /\ NoEmpty(d.audit[Promotions]) => NoEmpty(e.audit[Promotions])

SchemaKept ==
  /\ Stored(db) /\ Stored(pending) /\ Grows(db, pending)
  /\ \A p \in Processes : phase[p] = "run" => Passed(at[p], seen[p], View(p))

LEMMA GrowsOn ==
  ASSUME NEW i \in DOMAIN Script, NEW w \in Nat, NEW d \in Databases, NEW e \in Databases,
         Grows(d, e), Passed(i, w, d)
  PROVE  Passed(i, w, e)
<1>1. \A j \in DOMAIN Script : Script[j].n \in Int /\ Script[j].table \in Tables
  <2>1. \A y \in Fitting : y.n \in Int
    BY DEF Fitting
  <2> QED
    BY <2>1, ScriptUse
<1>2. /\ \A t \in Tables : d.width[t] \in Nat /\ e.width[t] \in Nat
      /\ \A t \in Plain : d.width[t] <= e.width[t] /\ t \in Tables
      /\ i \in Nat /\ \A j \in 1..(i-1) : j \in DOMAIN Script
  BY ScriptUse DEF Databases, Grows, Plain
<1>3. ASSUME NEW j \in 1..(i-1) PROVE Built(j, e)
  <2>1. Built(j, d)
    BY DEF Passed
  <2> QED
    BY <1>1, <1>2, <2>1 DEF Built
<1>4. Script[i].op = "add" => w <= e.width[Script[i].table]
  <2>1. Script[i].op = "add" => Script[i].table \in Plain
    BY ScriptUse DEF Fitting, Plain, Created
  <2> QED
    BY <1>1, <1>2, <2>1 DEF Passed
<1>5. Rebuilt(i, w) => NoEmpty(e.audit[Promotions])
  BY DEF Passed, Grows
<1> QED
  BY <1>3, <1>4, <1>5 DEF Passed

\* Widths and rows after a statement that does not raise.
LEMMA GrowsByEffect ==
  ASSUME NEW i \in DOMAIN Script, NEW w \in Nat, NEW d \in Databases,
         ~Raises(Script[i], d, w)
  PROVE  Grows(d, Effect(Script[i], d, w))
<1> DEFINE s == Script[i]
           e == Effect(s, d, w)
<1>1. /\ s.op \in Operations /\ s.table \in Tables /\ s.n \in Nat
      /\ Promotions \in Tables /\ Renamed \in Tables /\ Promotions # Renamed
  BY ScriptUse DEF Fitting, Promotions, Renamed
<1>2. /\ d.width \in [Tables -> Nat]
      /\ d.audit \in [{Promotions, Renamed} -> SUBSET Rows]
  BY DEF Databases
<1>3. ~Raises(s, d, w)
  OBVIOUS
<1> HIDE DEF s
<1>4. \A t \in Plain : t \in Tables /\ t # Promotions /\ t # Renamed /\ d.width[t] \in Nat
  BY <1>2 DEF Plain
<1>5. e = d => Grows(d, e)
  <2>1. \A t \in Plain : d.width[t] <= d.width[t]
    BY <1>4
  <2> QED
    BY <2>1 DEF Grows
<1>6. \A n \in Nat : [d.width EXCEPT ![s.table] = n][s.table] = n
                     /\ \A t \in Plain \ {s.table} :
                          [d.width EXCEPT ![s.table] = n][t] = d.width[t]
  BY <1>1, <1>2, <1>4
<1>7. ASSUME s.op = "create" PROVE Grows(d, e)
  <2>1. CASE d.width[s.table] = 0
    <3>1. e = Made(s, d)
      BY <1>7, <2>1, EffectIs
    <3>2. e.width = [d.width EXCEPT ![s.table] = 1] /\ e.audit = d.audit
      BY <3>1 DEF Made, Databases
    <3> HIDE DEF e
    <3>3. \A t \in Plain : d.width[t] <= e.width[t]
      BY <1>4, <1>6, <2>1, <3>2
    <3> QED
      BY <3>2, <3>3 DEF Grows
  <2>2. CASE ~(d.width[s.table] = 0)
    BY <1>5, <1>7, <2>2, EffectIs
  <2> QED
    BY <2>1, <2>2
<1>8. ASSUME s.op = "add" PROVE Grows(d, e)
  <2>1. CASE NotListed(s, w)
    <3>1. e = Added(s, d)
      BY <1>8, <2>1, EffectIs
    <3>2. e.width = [d.width EXCEPT ![s.table] = s.n] /\ e.audit = d.audit
      BY <3>1 DEF Added, Databases
    <3>3. d.width[s.table] < s.n
      BY <1>1, <1>2, <1>3, <1>8, <2>1 DEF Raises
    <3> HIDE DEF e
    <3>4. \A t \in Plain : d.width[t] <= e.width[t]
      BY <1>1, <1>4, <1>6, <3>2, <3>3
    <3> QED
      BY <3>2, <3>4 DEF Grows
  <2>2. CASE ~NotListed(s, w)
    BY <1>5, <1>8, <2>2, EffectIs
  <2> QED
    BY <2>1, <2>2
<1>9. ASSUME NEW x, x.audit = d.audit, \A t \in Plain : x.width[t] = d.width[t]
      PROVE  Grows(d, x)
  BY <1>4, <1>9 DEF Grows
<1>10. ASSUME s.op \in {"index", "recreate", "record", "drop"} PROVE Grows(d, e)
  <2>1. Indexed(d).audit = d.audit /\ Indexed(d).width = d.width
    BY DEF Indexed, Databases
  <2>2. Remade(d).audit = d.audit /\ \A t \in Plain : Remade(d).width[t] = d.width[t]
    BY <1>1, <1>2, <1>4 DEF Remade, Databases
  <2>3. Recorded(s, d).audit = d.audit /\ Recorded(s, d).width = d.width
    BY DEF Recorded, Databases
  <2>4. /\ Dropped(d).audit[Promotions] = d.audit[Promotions]
        /\ \A t \in Plain : Dropped(d).width[t] = d.width[t]
    BY <1>1, <1>2, <1>4 DEF Dropped, Databases
  <2>5. Grows(d, Dropped(d))
    BY <1>4, <2>4 DEF Grows
  <2>6. Grows(d, Indexed(d)) /\ Grows(d, Remade(d)) /\ Grows(d, Recorded(s, d))
    BY <1>9, <2>1, <2>2, <2>3
  <2>7. e = d \/ e = Indexed(d) \/ e = Remade(d) \/ e = Recorded(s, d) \/ e = Dropped(d)
    BY <1>10, EffectIs
  <2> HIDE DEF e
  <2> QED
    BY <1>5, <2>5, <2>6, <2>7
<1>11. ASSUME s.op = "rename" PROVE Grows(d, e)
  <2>1. /\ Moved(d).audit[Promotions] = {}
        /\ \A t \in Plain : Moved(d).width[t] = d.width[t]
    BY <1>1, <1>2, <1>4 DEF Moved, Databases
  <2>2. NoEmpty({})
    BY DEF NoEmpty
  <2>3. Grows(d, Moved(d))
    BY <1>4, <2>1, <2>2 DEF Grows
  <2>4. e = d \/ e = Moved(d)
    BY <1>11, EffectIs
  <2> HIDE DEF e
  <2> QED
    BY <1>5, <2>3, <2>4
<1>12. ASSUME s.op = "copy" PROVE Grows(d, e)
  <2>1. /\ Copied(d).audit[Promotions] = d.audit[Promotions] \cup Nullified(d.audit[Renamed])
        /\ Copied(d).width = d.width
    BY <1>1, <1>2 DEF Copied, Databases
  <2>2. NoEmpty(Nullified(d.audit[Renamed]))
    <3>1. d.audit[Renamed] \in SUBSET Rows
      BY <1>2
    <3> QED
      BY <3>1, NullifiedTyped, Zenon DEF NoEmpty
  <2>3. NoEmpty(d.audit[Promotions]) => NoEmpty(Copied(d).audit[Promotions])
    BY <2>1, <2>2, Zenon DEF NoEmpty
  <2>4. Grows(d, Copied(d))
    BY <1>4, <2>1, <2>3 DEF Grows
  <2>5. e = d \/ e = Copied(d)
    BY <1>12, EffectIs
  <2> HIDE DEF e
  <2> QED
    BY <1>5, <2>4, <2>5
<1>13. ASSUME s.op \in {"columns", "backfill", "update", "assert"} PROVE Grows(d, e)
  BY <1>5, <1>13, EffectIs
<1>14. Grows(d, e)
  BY <1>1, <1>7, <1>8, <1>10, <1>11, <1>12, <1>13 DEF Operations
<1> QED
  BY <1>14 DEF s, e

\* The previous statement decides what follows.
LEMMA NextPosition ==
  ASSUME NEW i \in DOMAIN Script, i + 1 \in DOMAIN Script
  PROVE  /\ i \in Nat /\ 1..(i+1-1) = 1..(i-1) \cup {i}
         /\ Dependent(Script[i+1]) => Follows(Script[i], Script[i+1])
<1>1. i \in Nat /\ i > 0
  BY ScriptUse
<1>2. (i + 1) - 1 = i /\ 1..(i+1-1) = 1..(i-1) \cup {i}
  BY <1>1
<1>3. \A k \in DOMAIN Script : Dependent(Script[k]) => Follows(Script[k-1], Script[k])
  BY ScriptUse
<1>4. Dependent(Script[i+1]) => Follows(Script[(i+1)-1], Script[i+1])
  BY <1>3
<1> QED
  BY <1>1, <1>2, <1>4

\* Only record adds a version, and only rename takes model_promotions away.
LEMMA AppliedByEffect ==
  ASSUME NEW i \in DOMAIN Script, NEW w \in Nat, NEW d \in Databases,
         ~Raises(Script[i], d, w),
         d.width[Promotions] = 0 => d.audit[Promotions] = {}
  PROVE  LET s == Script[i]
             e == Effect(s, d, w)
         IN  /\ e.applied = d.applied \cup (IF s.op = "record" THEN {s.n} ELSE {})
             /\ e.width[Promotions] = 0 => e.audit[Promotions] = {}
             /\ s.op = "rename" /\ w > 0 => e.audit[Promotions] = {}
<1> DEFINE s == Script[i]
           e == Effect(s, d, w)
           Kept(x) == x.applied = d.applied /\ (x.width[Promotions] = 0 => x.audit[Promotions] = {})
<1>1. /\ s.op \in Operations /\ s.table \in Tables /\ s.n \in Nat
      /\ Promotions \in Tables /\ Renamed \in Tables /\ Promotions # Renamed
      /\ s.op = "add" => s.table # Promotions
  BY ScriptUse DEF Fitting, Promotions, Renamed
<1>2. /\ d.width \in [Tables -> Nat]
      /\ d.audit \in [{Promotions, Renamed} -> SUBSET Rows]
  BY DEF Databases
<1>3. ~Raises(s, d, w)
  OBVIOUS
<1> HIDE DEF s
<1>4. Kept(d)
  OBVIOUS
<1>5. Kept(Made(s, d))
  BY <1>1, <1>2 DEF Made, Databases
<1>6. s.op = "add" => Kept(Added(s, d))
  BY <1>1, <1>2 DEF Added, Databases
<1>7. Kept(Indexed(d))
  BY <1>1, <1>2 DEF Indexed, Databases
<1>8. Kept(Remade(d))
  BY <1>1, <1>2 DEF Remade, Databases
<1>9. Kept(Dropped(d))
  BY <1>1, <1>2 DEF Dropped, Databases
<1>10. Kept(Moved(d)) /\ Moved(d).audit[Promotions] = {}
  BY <1>1, <1>2 DEF Moved, Databases
<1>11. s.op = "copy" /\ w > 0 => Kept(Copied(d))
  <2>1. s.op = "copy" /\ w > 0 => d.width[Promotions] # 0
    BY <1>3 DEF Raises
  <2> QED
    BY <1>1, <1>2, <2>1 DEF Copied, Databases
<1>12. /\ Recorded(s, d).applied = d.applied \cup {s.n}
       /\ Recorded(s, d).width = d.width /\ Recorded(s, d).audit = d.audit
  BY DEF Recorded, Databases
<1> HIDE DEF Kept
<1>13. CASE s.op = "record"
  <2>1. e = Recorded(s, d)
    BY <1>13, EffectIs
  <2> HIDE DEF e
  <2> QED
    BY <1>12, <1>13, <2>1 DEF s, e
<1>14. CASE s.op # "record"
  <2>1. Kept(e)
    <3>1. \/ e = d
          \/ e = Made(s, d) /\ s.op = "create"
          \/ e = Added(s, d) /\ s.op = "add"
          \/ e = Indexed(d) \/ e = Remade(d) \/ e = Dropped(d) \/ e = Moved(d)
          \/ e = Copied(d) /\ s.op = "copy" /\ w > 0
      BY <1>1, <1>14, EffectIs DEF Operations
    <3> HIDE DEF e
    <3> QED
      BY <1>4, <1>5, <1>6, <1>7, <1>8, <1>9, <1>10, <1>11, <3>1
  <2>2. s.op = "rename" /\ w > 0 => e.audit[Promotions] = {}
    BY <1>10, EffectIs
  <2> QED
    BY <1>14, <2>1, <2>2 DEF s, e, Kept
<1> QED
  BY <1>13, <1>14

\* The same versions are recorded at the same statement.
LEMMA RecordOrder ==
  ASSUME NEW i \in DOMAIN Script, NEW k \in DOMAIN Script,
         Script[i].op = "record", Script[k].op = "record"
  PROVE  /\ Script[i].n = Script[k].n => i = k
         /\ Script[i].n < Script[k].n => i < k
         /\ i < k => Script[i].n < Script[k].n
<1>1. /\ Timed(Script[i]) /\ Timed(Script[k])
      /\ Time(Script[i]) = 2 * Script[i].n /\ Time(Script[k]) = 2 * Script[k].n
  BY DEF Timed, Time
<1>2. /\ Script[i].n \in Nat /\ Script[k].n \in Nat /\ i \in Nat /\ k \in Nat
  BY ScriptUse DEF Fitting
<1>3. /\ i < k => Time(Script[i]) < Time(Script[k])
      /\ k < i => Time(Script[k]) < Time(Script[i])
  BY <1>1, ScriptUse
<1> QED
  BY <1>1, <1>2, <1>3

LEMMA StoredByEffect ==
  ASSUME NEW i \in DOMAIN Script, NEW w \in Nat, NEW d \in Databases,
         ~Raises(Script[i], d, w), Stored(d), Passed(i, w, d)
  PROVE  Stored(Effect(Script[i], d, w))
<1> DEFINE s == Script[i]
           e == Effect(s, d, w)
<1>1. /\ Grows(d, e) /\ e \in Databases
      /\ e.applied = d.applied \cup (IF s.op = "record" THEN {s.n} ELSE {})
      /\ e.width[Promotions] = 0 => e.audit[Promotions] = {}
  <2>1. Grows(d, e) /\ e \in Databases
    BY GrowsByEffect, EffectTyped
  <2>2. d.width[Promotions] = 0 => d.audit[Promotions] = {}
    BY DEF Stored
  <2>3. /\ e.applied = d.applied \cup (IF s.op = "record" THEN {s.n} ELSE {})
        /\ e.width[Promotions] = 0 => e.audit[Promotions] = {}
    BY <2>2, AppliedByEffect
  <2> QED
    BY <2>1, <2>3
<1>2. i \in Nat /\ \A k \in DOMAIN Script : k \in Nat
  BY ScriptUse
<1> HIDE DEF e
<1>3. Passed(i, w, e)
  BY <1>1, GrowsOn
<1>4. ASSUME NEW k \in DOMAIN Script, Script[k].op = "record", Script[k].n \in e.applied,
             NEW j \in 1..(k-1)
      PROVE  Built(j, e)
  <2>1. CASE Script[k].n \in d.applied
    <3>1. Built(j, d) /\ j \in DOMAIN Script
      BY <1>4, <2>1, ScriptUse DEF Stored
    <3>2. /\ Script[j].table \in Tables /\ Script[j].n \in Int
          /\ \A t \in Tables : d.width[t] \in Nat /\ e.width[t] \in Nat
      <4>1. Script[j] \in Fitting /\ Script[j].table \in Tables
        BY <3>1, ScriptUse
      <4>2. \A y \in Databases : \A t \in Tables : y.width[t] \in Nat
        BY DEF Databases
      <4>3. \A y \in Fitting : y.n \in Int
        BY DEF Fitting
      <4> QED
        BY <1>1, <4>1, <4>2, <4>3
    <3> QED
      BY <1>1, <3>1, <3>2 DEF Built, Grows
  <2>2. CASE s.op = "record" /\ Script[k].n = s.n
    <3>1. k = i
      BY <1>4, <2>2, RecordOrder
    <3> QED
      BY <1>3, <1>4, <3>1 DEF Passed
  <2> QED
    BY <1>1, <1>4, <2>1, <2>2
<1>5. ASSUME NEW u \in e.applied, u >= 8 PROVE NoEmpty(e.audit[Promotions])
  <2>1. CASE u \in d.applied
    BY <1>1, <1>5, <2>1 DEF Stored, Grows
  <2>2. CASE s.op = "record" /\ u = s.n
    <3>1. Rebuilt(i, w)
      <4>1. CASE s.n = 8
        BY <2>2, <4>1 DEF Rebuilt
      <4>2. CASE s.n # 8
        <5>1. PICK k \in DOMAIN Script : Script[k] = RecordOf(8)
          BY RecordPosition
        <5>2. Script[k].op = "record" /\ Script[k].n = 8
          BY <5>1 DEF RecordOf, Stmt
        <5>3. Script[k].n < Script[i].n
          BY <1>5, <2>2, <4>2, <5>2, ScriptUse DEF Fitting
        <5>4. k < i
          BY <2>2, <5>2, <5>3, RecordOrder
        <5>5. k \in 1..(i-1)
          BY <5>4, ScriptUse
        <5> QED
          BY <5>2, <5>5 DEF Rebuilt
      <4> QED
        BY <4>1, <4>2
    <3> QED
      BY <1>3, <3>1 DEF Passed
  <2> QED
    BY <1>1, <2>1, <2>2
<1>6. Stored(e)
  BY <1>1, <1>4, <1>5 DEF Stored
<1> QED
  BY <1>6 DEF e

LEMMA PassedByEffect ==
  ASSUME NEW i \in DOMAIN Script, i + 1 \in DOMAIN Script, NEW w \in Nat,
         NEW d \in Databases, ~Raises(Script[i], d, w), Stored(d), Passed(i, w, d)
  PROVE  Passed(i + 1, IF Script[i].op = "columns" THEN d.width[Script[i].table] ELSE w,
                Effect(Script[i], d, w))
<1> DEFINE s == Script[i]
           e == Effect(s, d, w)
           x == IF s.op = "columns" THEN d.width[s.table] ELSE w
<1>0. PICK n \in DOMAIN Script : n = i + 1
  OBVIOUS
<1> DEFINE r == Script[n]
<1>1. /\ Grows(d, e) /\ e \in Databases
      /\ s.op = "rename" /\ w > 0 => e.audit[Promotions] = {}
  BY GrowsByEffect, AppliedByEffect, EffectTyped DEF Stored
<1>2. /\ i \in Nat /\ 1..(n-1) = 1..(i-1) \cup {i}
      /\ Dependent(r) => Follows(s, r)
  BY <1>0, NextPosition
<1>3. /\ s \in Fitting /\ r \in Fitting
      /\ s.table \in Tables /\ r.table \in Tables
      /\ s.op \in {"create", "add"} => s.n \in Nat
      /\ \A t \in Tables : d.width[t] \in Nat /\ e.width[t] \in Nat
  <2>1. s \in Fitting /\ r \in Fitting /\ s.table \in Tables /\ r.table \in Tables
    BY ScriptUse
  <2>2. \A y \in Databases : \A t \in Tables : y.width[t] \in Nat
    BY DEF Databases
  <2>3. \A y \in Fitting : y.n \in Nat
    BY DEF Fitting
  <2> HIDE DEF e, s, r
  <2> QED
    BY <1>1, <2>1, <2>2, <2>3
<1>4. Built(i, e)
  <2> SUFFICES ASSUME s.op \in {"create", "add"}, s.table \in Plain
               PROVE  e.width[s.table] >= s.n
    BY DEF Built
  <2>1. CASE s.op = "create"
    <3>1. s.n = 1
      BY <1>3, <2>1 DEF Fitting
    <3>2. CASE d.width[s.table] = 0
      <4>1. e = Made(s, d)
        BY <2>1, <3>2, EffectIs
      <4>2. e.width[s.table] = 1
        <5> HIDE DEF e, s
        <5> QED
          BY <1>3, <4>1 DEF Made, Databases
      <4> QED
        BY <3>1, <4>2
    <3>3. CASE d.width[s.table] # 0
      <4>1. d.width[s.table] <= e.width[s.table]
        BY <1>1 DEF Grows
      <4> HIDE DEF e, s
      <4> QED
        BY <1>3, <3>1, <3>3, <4>1
    <3> QED
      BY <3>2, <3>3
  <2>2. CASE s.op = "add"
    <3>1. CASE NotListed(s, w)
      <4>1. e = Added(s, d)
        BY <2>2, <3>1, EffectIs
      <4>2. e.width[s.table] = s.n
        <5> HIDE DEF e, s
        <5> QED
          BY <1>3, <4>1 DEF Added, Databases
      <4> HIDE DEF e, s
      <4> QED
        BY <1>3, <2>2, <4>2
    <3>2. CASE ~NotListed(s, w)
      <4>1. s.n <= w /\ w <= d.width[s.table] /\ d.width[s.table] <= e.width[s.table]
        BY <1>1, <1>3, <2>2, <3>2 DEF NotListed, Passed, Grows
      <4> HIDE DEF e, s
      <4> QED
        BY <1>3, <2>2, <4>1
    <3> QED
      BY <3>1, <3>2
  <2> QED
    BY <2>1, <2>2
<1>5. Passed(i, w, e)
  BY <1>1, GrowsOn
<1>6. ASSUME r.op = "add" PROVE x <= e.width[r.table]
  <2>1. s.op \in {"columns", "add"} /\ s.table = r.table
    BY <1>2, <1>6 DEF Dependent, Follows
  <2>2. r.table \in Plain
    BY <1>3, <1>6 DEF Fitting, Created, Plain
  <2>3. CASE s.op = "columns"
    BY <1>1, <2>1, <2>2, <2>3 DEF Grows
  <2>4. CASE s.op = "add"
    BY <1>5, <2>1, <2>4 DEF Passed
  <2> QED
    BY <2>1, <2>3, <2>4
<1>7. ASSUME Rebuilt(n, x) PROVE NoEmpty(e.audit[Promotions])
  <2>1. NoEmpty({})
    BY DEF NoEmpty
  <2>2. CASE Rebuilt(i, w)
    BY <1>5, <2>2 DEF Passed
  <2>3. CASE s.op = "record" /\ s.n >= 8
    <3>1. e.applied = d.applied \cup {s.n}
      BY <2>3, AppliedByEffect DEF Stored
    <3>2. Stored(e)
      BY StoredByEffect
    <3> HIDE DEF e
    <3> QED
      BY <2>3, <3>1, <3>2 DEF Stored
  <2>4. CASE s.op = "rename" /\ w > 0
    BY <1>1, <2>1, <2>4
  <2>5. CASE r.op = "rename" /\ x = 0
    <3>1. s.op = "columns" /\ s.table = Promotions
      BY <1>2, <2>5 DEF Dependent, Follows
    <3>2. d.width[Promotions] = 0
      BY <2>5, <3>1
    <3>3. d.audit[Promotions] = {}
      BY <3>2 DEF Stored
    <3> QED
      BY <1>1, <2>1, <3>3 DEF Grows
  <2>6. CASE r.op \in {"recreate", "copy", "drop", "index"} \/ (r.op = "record" /\ r.n = 8)
    <3>1. Dependent(r)
      BY <2>6 DEF Dependent
    <3>2. \/ s.op \in {"rename", "recreate", "copy", "drop", "index"}
          \/ s.op = "record" /\ s.n >= 8
      BY <1>2, <2>6, <3>1 DEF Follows
    <3>3. s.op = "rename" => w = 0 \/ w > 0
      OBVIOUS
    <3> QED
      BY <2>2, <2>3, <2>4, <3>2, <3>3 DEF Rebuilt
  <2>7. CASE \E k \in 1..(n-1) : Script[k].op = "record" /\ Script[k].n >= 8
    BY <1>2, <2>2, <2>3, <2>7 DEF Rebuilt
  <2> QED
    BY <1>7, <2>5, <2>6, <2>7 DEF Rebuilt
<1>8. Passed(n, x, e)
  <2>1. \A j \in 1..(n-1) : Built(j, e)
    BY <1>2, <1>4, <1>5 DEF Passed
  <2> HIDE DEF e, x
  <2> QED
    BY <1>6, <1>7, <2>1 DEF Passed
<1> QED
  BY <1>0, <1>8 DEF s, e, x

LEMMA GrowsTransitive ==
  /\ \A d \in Databases : Grows(d, d)
  /\ \A d, e, f \in Databases : Grows(d, e) /\ Grows(e, f) => Grows(d, f)
<1>1. \A y \in Databases : \A t \in Plain : y.width[t] \in Nat
  BY DEF Databases, Plain
<1>2. \A d \in Databases : Grows(d, d)
  BY <1>1 DEF Grows
<1>3. ASSUME NEW d \in Databases, NEW e \in Databases, NEW f \in Databases,
             Grows(d, e), Grows(e, f)
      PROVE  Grows(d, f)
  <2>1. ASSUME NEW t \in Plain PROVE d.width[t] <= f.width[t]
    <3>1. d.width[t] <= e.width[t] /\ e.width[t] <= f.width[t]
      BY <1>3 DEF Grows
    <3> QED
      BY <1>1, <3>1
  <2>2. NoEmpty(d.audit[Promotions]) => NoEmpty(f.audit[Promotions])
    BY <1>3 DEF Grows
  <2> QED
    BY <2>1, <2>2 DEF Grows
<1> QED
  BY <1>2, <1>3

\* CREATE TABLE IF NOT EXISTS schema_version
LEMMA OpenGrows ==
  ASSUME NEW d \in Databases, d.width["schema_version"] = 0, Stored(d)
  PROVE  LET e == [d EXCEPT !.width["schema_version"] = 1]
         IN  e \in Databases /\ Grows(d, e) /\ Stored(e)
<1> DEFINE e == [d EXCEPT !.width["schema_version"] = 1]
<1>1. /\ "schema_version" \in Tables /\ Promotions # "schema_version"
      /\ d.width \in [Tables -> Nat]
  BY ScriptUse DEF Promotions, Databases
<1>2. /\ e.width = [d.width EXCEPT !["schema_version"] = 1]
      /\ e.audit = d.audit /\ e.applied = d.applied
  BY DEF Databases
<1>3. e \in Databases
  <2>1. [d.width EXCEPT !["schema_version"] = 1] \in [Tables -> Nat]
    BY <1>1
  <2> QED
    BY <2>1 DEF Databases
<1> HIDE DEF e
<1>4. \A t \in Tables : d.width[t] \in Nat /\ e.width[t] \in Nat /\ d.width[t] <= e.width[t]
  BY <1>1, <1>2
<1>5. Grows(d, e)
  BY <1>2, <1>4 DEF Grows, Plain
<1>6. \A j \in DOMAIN Script : Built(j, d) => Built(j, e)
  <2>1. \A j \in DOMAIN Script : Script[j].table \in Tables /\ Script[j].n \in Int
    BY ScriptUse DEF Fitting
  <2> QED
    BY <1>4, <2>1 DEF Built
<1>7. \A k \in DOMAIN Script : \A j \in 1..(k-1) : j \in DOMAIN Script
  BY ScriptUse
<1>8. e.width[Promotions] = d.width[Promotions]
  BY <1>1, <1>2
<1>9. Stored(e)
  BY <1>2, <1>6, <1>7, <1>8 DEF Stored
<1> QED
  BY <1>3, <1>5, <1>9 DEF e

\* A migration starts after the version that is recorded.
LEMMA PassedAtStart ==
  ASSUME NEW d \in Databases, Stored(d), Version(d) \in 0..9, NEW w \in Nat
  PROVE  Passed(FirstAfter(Version(d)), w, d)
<1> DEFINE i == FirstAfter(Version(d))
<1>1. i \in DOMAIN Script /\ ~Dependent(Script[i]) /\ i \in Nat
  <2>1. i \in DOMAIN Script /\ ~Dependent(Script[i])
    BY StartPosition
  <2> HIDE DEF i
  <2> QED
    BY <2>1, ScriptUse
<1>2. CASE Version(d) = 0
  <2>1. i = 1
    BY <1>2, StartPosition
  <2>2. 1..(i-1) = {}
    BY <2>1
  <2> HIDE DEF i
  <2> QED
    BY <1>1, <2>2 DEF Passed, Rebuilt, Dependent, i
<1>3. CASE Version(d) # 0
  <2>1. /\ i - 1 \in DOMAIN Script /\ Script[i-1] = RecordOf(Version(d))
        /\ Version(d) \in d.applied
    BY <1>3, StartPosition, VersionIs
  <2>2. Script[i-1].op = "record" /\ Script[i-1].n = Version(d)
    BY <2>1 DEF RecordOf, Stmt
  <2>3. ASSUME NEW j \in 1..(i-1) PROVE Built(j, d)
    <3>1. CASE j = i - 1
      BY <2>2, <3>1 DEF Built
    <3>2. CASE j # i - 1
      <4>1. j \in 1..((i-1)-1)
        BY <1>1, <3>2
      <4> HIDE DEF i
      <4> QED
        BY <2>1, <2>2, <4>1 DEF Stored
    <3> QED
      BY <3>1, <3>2
  <2>4. ASSUME Rebuilt(i, w) PROVE NoEmpty(d.audit[Promotions])
    <3>1. PICK k \in 1..(i-1) : Script[k].op = "record" /\ Script[k].n >= 8
      BY <1>1, <2>4 DEF Rebuilt, Dependent
    <3>2. k \in DOMAIN Script /\ k <= i - 1
      BY <1>1, ScriptUse
    <3>3. Script[k].n <= Version(d)
      <4>1. k = i - 1 \/ k < i - 1
        BY <1>1, <3>2
      <4>2. Script[k].n \in Nat
        BY <3>2, ScriptUse DEF Fitting
      <4>3. k < i - 1 => Script[k].n < Script[i-1].n
        BY <2>1, <2>2, <3>1, <3>2, RecordOrder
      <4> QED
        BY <2>2, <4>1, <4>2, <4>3
    <3>4. Version(d) >= 8
      <4>1. Script[k].n \in Nat
        BY <3>2, ScriptUse DEF Fitting
      <4> QED
        BY <3>1, <3>3, <4>1
    <3> QED
      BY <2>1, <3>4 DEF Stored
  <2> HIDE DEF i
  <2> QED
    BY <1>1, <2>3, <2>4 DEF Passed, Dependent, i
<1> QED
  BY <1>2, <1>3

LEMMA SchemaStep ==
  ASSUME Typed, OwnerRuns, SchemaKept, [Next]_vars
  PROVE  SchemaKept'
<1>1. /\ Nobody \notin Processes /\ owner \in Processes \cup {Nobody}
      /\ owner = Nobody => pending = db
      /\ db \in Databases /\ pending \in Databases
      /\ \A q \in Processes : /\ View(q) \in Databases
                              /\ at[q] \in DOMAIN Script /\ seen[q] \in Nat
                              /\ phase[q] = "run" => Passed(at[q], seen[q], View(q))
      /\ Stored(db) /\ Stored(pending) /\ Grows(db, pending)
  BY MigrationAssumption, ViewTyped DEF Typed, SchemaKept
<1>2. CASE Quiet
  <2>1. \A q \in Processes : View(q)' = View(q)
    BY <1>2, ViewKept DEF Quiet, store
  <2> QED
    BY <1>1, <1>2, <2>1 DEF Quiet, Waits, store, SchemaKept
<1>3. CASE Opened
  <2>1. /\ db' \in Databases /\ Grows(db, db') /\ Stored(db')
        /\ owner = Nobody /\ owner' = Nobody /\ pending' = db' /\ Waits
    BY <1>1, <1>3, OpenGrows DEF Opened
  <2>2. \A q \in Processes : View(q) = db /\ View(q)' = db'
    BY <2>1, ViewKept
  <2>3. ASSUME NEW q \in Processes, phase'[q] = "run" PROVE Passed(at'[q], seen'[q], View(q)')
    <3>1. Passed(at[q], seen[q], db)
      BY <1>1, <2>1, <2>2, <2>3 DEF Waits
    <3>2. Passed(at[q], seen[q], db')
      BY <1>1, <2>1, <3>1, GrowsOn
    <3> QED
      BY <2>1, <2>2, <3>2 DEF Waits
  <2> QED
    BY <2>1, <2>3, GrowsTransitive DEF SchemaKept
<1>4. ASSUME NEW p \in Processes, Entered(p) PROVE SchemaKept'
  <2>1. \A q \in Processes : View(q)' = View(q)
    BY <1>4, ViewKept DEF Entered, store
  <2>2. Passed(at'[p], seen'[p], View(p))
    <3>1. View(p) = db
      BY <1>1, <1>4 DEF Entered, OwnerRuns, View
    <3>2. Passed(FirstAfter(Version(db)), seen[p], db)
      BY <1>1, <1>4, PassedAtStart DEF Entered
    <3> QED
      BY <1>4, <3>1, <3>2 DEF Entered
  <2>3. \A q \in Processes : phase'[q] = "run" => Passed(at'[q], seen'[q], View(q)')
    BY <1>1, <1>4, <2>1, <2>2 DEF Entered, OthersRest
  <2> QED
    BY <1>1, <1>4, <2>3 DEF Entered, store, SchemaKept
<1>5. ASSUME NEW p \in Processes, Execute(p) PROVE SchemaKept'
  <2> DEFINE i == at[p]
             d == View(p)
             e == Effect(Script[i], d, seen[p])
             x == IF Script[i].op = "columns" THEN d.width[Script[i].table] ELSE seen[p]
  <2>1. /\ phase[p] = "run" /\ OthersRest(p) /\ ~Raises(Script[i], d, seen[p])
        /\ i \in DOMAIN Script /\ i + 1 \in DOMAIN Script
        /\ at'[p] = i + 1 /\ seen'[p] = x /\ View(p)' = e
        /\ \A q \in Processes \ {p} :
             \/ View(q)' = View(q)
             \/ owner = Nobody /\ View(q) = d /\ View(q)' = e
    BY <1>5, Executed
  <2>2. Stored(d) /\ Grows(db, d) /\ d \in Databases /\ Passed(i, seen[p], d)
    <3>1. Stored(d) /\ Grows(db, d)
      BY <1>1, GrowsTransitive DEF View
    <3> QED
      BY <1>1, <2>1, <3>1
  <2>3. /\ e \in Databases
        /\ \/ owner \in {p, Nobody} /\ owner' = p /\ pending' = e /\ db' = db
           \/ owner # p /\ e = d /\ UNCHANGED store
           \/ owner = Nobody /\ owner' = Nobody /\ db' = e /\ pending' = e
    BY <1>5, ExecuteStores
  <2>4. Stored(e) /\ Grows(d, e) /\ Passed(i + 1, x, e)
    <3> HIDE DEF i, d
    <3> QED
      BY <1>1, <2>1, <2>2, StoredByEffect, GrowsByEffect, PassedByEffect DEF i
  <2> HIDE DEF d, e, x, i
  <2>5. Grows(db, e)
    BY <1>1, <2>2, <2>3, <2>4, GrowsTransitive
  <2>6. Stored(db') /\ Stored(pending') /\ Grows(db', pending')
    BY <1>1, <2>3, <2>4, <2>5, GrowsTransitive DEF store
  <2>7. ASSUME NEW q \in Processes, phase'[q] = "run"
        PROVE  Passed(at'[q], seen'[q], View(q)')
    <3>1. CASE q = p
      BY <2>1, <2>4, <3>1
    <3>2. CASE q # p
      <4>1. /\ Passed(at[q], seen[q], View(q)) /\ at'[q] = at[q] /\ seen'[q] = seen[q]
            /\ at[q] \in DOMAIN Script /\ seen[q] \in Nat
        BY <1>1, <2>1, <2>7, <3>2 DEF OthersRest
      <4>2. CASE View(q)' = View(q)
        BY <4>1, <4>2
      <4>3. CASE View(q) = d /\ View(q)' = e
        <5>1. Passed(at[q], seen[q], e)
          BY <2>2, <2>3, <2>4, <4>1, <4>3, GrowsOn
        <5> QED
          BY <4>1, <4>3, <5>1
      <4> QED
        BY <2>1, <3>2, <4>2, <4>3
    <3> QED
      BY <3>1, <3>2
  <2> QED
    BY <2>6, <2>7 DEF SchemaKept
<1>6. ASSUME NEW p \in Processes, Committed(p) PROVE SchemaKept'
  <2>1. /\ pending' = pending /\ phase'[p] # "run" /\ OthersRest(p)
        /\ db' = IF owner = p THEN pending ELSE db
    BY <1>6 DEF Committed, View
  <2>2. Stored(db') /\ Stored(pending') /\ Grows(db', pending')
    BY <1>1, <2>1, GrowsTransitive
  <2>3. ASSUME NEW q \in Processes, phase'[q] = "run"
        PROVE  Passed(at'[q], seen'[q], View(q)')
    <3>1. /\ q # p /\ phase[q] = "run" /\ at'[q] = at[q] /\ seen'[q] = seen[q]
      BY <2>1, <2>3 DEF OthersRest
    <3>2. View(q)' = View(q) \/ (View(q) = db /\ View(q)' = pending)
      BY <1>6, <3>1, ViewKept
    <3>3. Passed(at[q], seen[q], View(q))
      BY <1>1, <3>1
    <3>4. Passed(at[q], seen[q], View(q)')
      BY <1>1, <3>2, <3>3, GrowsOn
    <3> QED
      BY <3>1, <3>4
  <2> QED
    BY <2>2, <2>3 DEF SchemaKept
<1>7. ASSUME NEW p \in Processes, Stopped(p) PROVE SchemaKept'
  <2>1. /\ pending' \in {db, pending} /\ phase'[p] # "run" /\ OthersRest(p) /\ db' = db
    BY <1>7 DEF Stopped, Rollback
  <2>2. Stored(db') /\ Stored(pending') /\ Grows(db', pending')
    BY <1>1, <2>1, GrowsTransitive
  <2>3. ASSUME NEW q \in Processes, phase'[q] = "run"
        PROVE  Passed(at'[q], seen'[q], View(q)')
    <3>1. /\ q # p /\ phase[q] = "run" /\ at'[q] = at[q] /\ seen'[q] = seen[q]
      BY <2>1, <2>3 DEF OthersRest
    <3>2. View(q)' = View(q)
      BY <1>7, <3>1, ViewKept
    <3> QED
      BY <1>1, <3>1, <3>2
  <2> QED
    BY <2>2, <2>3 DEF SchemaKept
<1> QED
  BY <1>2, <1>3, <1>4, <1>5, <1>6, <1>7, StepKinds

LEMMA HistoricalStored ==
  ASSUME NEW v \in StartVersions, NEW f \in [Audit -> EarlySuccessors]
  PROVE  Stored(HistoricalDatabase(v, f))
<1> DEFINE d == HistoricalDatabase(v, f)
           known == IF v < Latest THEN v ELSE Latest
<1>1. v \in 0..11 /\ Latest = 10
  <2>1. StartVersions \subseteq 0..(Latest + 1)
    BY MigrationAssumption
  <2> QED
    BY <2>1 DEF Latest
<1>2. /\ d.applied = 1..v
      /\ \A t \in Tables \ {"schema_version"} : d.width[t] = WidthAt(t, known)
      /\ d.audit[Promotions] = IF v < 7 THEN {} ELSE AuditRows(v, f)
  <2>1. /\ d.applied = 1..v
        /\ d.width = [t \in Tables |-> IF t = "schema_version" /\ v > 0 THEN 1
                                         ELSE WidthAt(t, known)]
        /\ d.audit = [t \in {Promotions, Renamed} |->
                        IF v < 7 \/ t = Renamed THEN {} ELSE AuditRows(v, f)]
    BY DEF HistoricalDatabase, AuditRows
  <2>2. Promotions # Renamed
    BY DEF Promotions, Renamed
  <2> HIDE DEF d, known
  <2> QED
    BY <2>1, <2>2
<1>3. known \in 0..10 /\ known <= v
  BY <1>1
<1> HIDE DEF d, known
<1>4. ASSUME NEW k \in DOMAIN Script, NEW j \in DOMAIN Script, j < k,
             Timed(Script[k]), Time(Script[k]) <= 2 * known,
             Script[k] = RecordOf(known) \/ Time(Script[k]) < 2 * known,
             Script[j].op \in {"create", "add"}
      PROVE  d.width[Script[j].table] >= Script[j].n
  <2>1. known \in 1..10
    <3>1. Time(Script[k]) >= 2
      BY <1>4, ScriptUse DEF Fitting, Time
    <3>2. Time(Script[k]) \in Nat
      BY <1>4, ScriptNumbers
    <3> QED
      BY <1>3, <1>4, <3>1, <3>2
  <2>2. PICK m \in DOMAIN Script : Script[m] = RecordOf(known)
    BY <2>1, RecordPosition
  <2>3. Timed(Script[m]) /\ Time(Script[m]) = 2 * known
    BY <2>2 DEF Timed, Time, RecordOf, Stmt
  <2>4. k <= m
    <3>1. m < k => Time(Script[m]) < Time(Script[k])
      BY <1>4, <2>3, ScriptUse
    <3>2. Time(Script[k]) \in Nat /\ m \in Nat /\ k \in Nat
      BY <1>4, ScriptNumbers
    <3> QED
      BY <1>4, <2>1, <2>3, <3>1, <3>2
  <2>5. j < m
    BY <1>4, <2>4, ScriptUse
  <2>6. Script[m] = Record(known)[1]
    BY <2>1, <2>2, RecordPosition
  <2>7. Script[j].n <= WidthAt(Script[j].table, known)
    BY <1>4, <2>5, <2>6, WidthTyped
  <2>8. Script[j].table \in Tables \ {"schema_version"}
    BY <1>4, ScriptUse DEF Fitting, Created
  <2>9. Script[j].n \in Nat /\ WidthAt(Script[j].table, known) \in Nat
    BY ScriptNumbers, WidthTyped
  <2> QED
    BY <1>2, <2>7, <2>8, <2>9
<1>5. ASSUME NEW k \in DOMAIN Script, Script[k].op = "record", Script[k].n \in d.applied,
             NEW j \in 1..(k-1)
      PROVE  Built(j, d)
  <2>1. j \in DOMAIN Script /\ j < k
    BY ScriptUse
  <2>2. Script[k].n <= known /\ Script[k].n \in 1..10
    <3>1. Script[k].n \in 1..10
      BY <1>5, ScriptUse DEF Fitting
    <3>2. Script[k].n <= v
      BY <1>1, <1>2, <1>5
    <3> QED
      BY <1>1, <3>1, <3>2 DEF known
  <2>3. Timed(Script[k]) /\ Time(Script[k]) = 2 * Script[k].n
    BY <1>5 DEF Timed, Time
  <2>4. CASE Script[k].n = known
    <3>1. PICK m \in DOMAIN Script : Script[m] = RecordOf(known)
      BY <2>2, <2>4, RecordPosition
    <3>2. Script[m].op = "record" /\ Script[m].n = known
      BY <3>1 DEF RecordOf, Stmt
    <3>3. m = k
      BY <1>5, <2>4, <3>2, RecordOrder
    <3>4. /\ Script[k] = RecordOf(known) /\ Timed(Script[k])
          /\ Time(Script[k]) <= 2 * known
      BY <1>3, <2>3, <2>4, <3>1, <3>3
    <3> QED
      BY <1>4, <2>1, <3>4 DEF Built
  <2>5. CASE Script[k].n # known
    <3>1. Time(Script[k]) < 2 * known /\ Time(Script[k]) <= 2 * known
      BY <1>3, <2>2, <2>3, <2>5
    <3> QED
      BY <1>4, <2>1, <2>3, <3>1 DEF Built
  <2> QED
    BY <2>4, <2>5
<1>6. (\E u \in d.applied : u >= 8) => NoEmpty(d.audit[Promotions])
  <2> SUFFICES ASSUME NEW u \in d.applied, u >= 8 PROVE NoEmpty(d.audit[Promotions])
    OBVIOUS
  <2>1. v > 7 /\ ~(v < 7)
    BY <1>1, <1>2
  <2>2. NoEmpty(AuditRows(v, f))
    BY <2>1, AuditRowsTyped, Zenon DEF NoEmpty
  <2> QED
    BY <1>2, <2>1, <2>2
<1>7. ASSUME d.width[Promotions] = 0 PROVE d.audit[Promotions] = {}
  <2>1. CASE v < 7
    BY <1>2, <2>1
  <2>2. CASE ~(v < 7)
    <3>1. known \in 7..10
      BY <1>1, <2>2 DEF known
    <3>2. PICK j \in DOMAIN Script : Script[j] = Stmt("create", Promotions, 1)
      BY ScriptIs, ScriptUse DEF ScriptFacts, Holds
    <3>3. PICK m \in DOMAIN Script : Script[m] = RecordOf(known)
      BY <3>1, RecordPosition
    <3>4. /\ Timed(Script[m]) /\ Time(Script[m]) = 2 * known
          /\ Timed(Script[j]) /\ Time(Script[j]) = 13
          /\ Script[j].op = "create" /\ Script[j].table = Promotions /\ Script[j].n = 1
          /\ Script[m].op = "record"
      BY <3>2, <3>3 DEF Timed, Time, RecordOf, Stmt
    <3>5. j < m
      <4>1. m < j => Time(Script[m]) < Time(Script[j])
        BY <3>4, ScriptUse
      <4>2. j \in Nat /\ m \in Nat /\ j # m
        BY <3>4, ScriptUse
      <4> QED
        BY <3>1, <3>4, <4>1, <4>2
    <3>6. Time(Script[m]) <= 2 * known
      BY <3>1, <3>4
    <3>7. d.width[Promotions] >= 1
      BY <1>4, <3>3, <3>4, <3>5, <3>6
    <3> QED
      BY <1>7, <3>7
  <2> QED
    BY <2>1, <2>2
<1> QED
  BY <1>5, <1>6, <1>7 DEF Stored, d

LEMMA SchemaHolds == Spec => []SchemaKept
<1>1. Init => SchemaKept
  <2> SUFFICES ASSUME Init PROVE SchemaKept
    OBVIOUS
  <2>1. \E v \in StartVersions, f \in [Audit -> EarlySuccessors] :
          db = HistoricalDatabase(v, f)
    BY DEF Init, EarlySuccessors
  <2>2. db \in Databases /\ Stored(db)
    BY <2>1, HistoricalTyped, HistoricalStored
  <2>3. pending = db /\ phase = [p \in Processes |-> "idle"]
    BY DEF Init
  <2> QED
    BY <2>2, <2>3, GrowsTransitive DEF SchemaKept
<1>2. Typed /\ OwnerRuns /\ SchemaKept /\ [Next]_vars => SchemaKept'
  BY SchemaStep
<1>3. Spec => [](Typed /\ OwnerRuns)
  BY TypedHolds, AloneHolds, PTL
<1> QED
  BY <1>1, <1>2, <1>3, PTL DEF Spec

\* A database that records v10 has every column.
LEMMA AllBuilt ==
  ASSUME NEW d \in Databases, Stored(d), 10 \in d.applied
  PROVE  \A j \in DOMAIN Script : Script[j].op \in {"create", "add"} => Built(j, d)
<1> SUFFICES ASSUME NEW j \in DOMAIN Script, Script[j].op \in {"create", "add"}
             PROVE  Built(j, d)
  OBVIOUS
<1>1. PICK i \in DOMAIN Script : Script[i] = RecordOf(10)
  BY RecordPosition
<1>2. Script[i].op = "record" /\ Script[i].n = 10
  BY <1>1 DEF RecordOf, Stmt
<1>3. j < i
  BY <1>1, ScriptIs, ScriptUse DEF ScriptFacts
<1>4. j \in 1..(i-1)
  BY <1>3, ScriptUse
<1> QED
  BY <1>2, <1>4 DEF Stored

\* A database that says v10 is complete.  Every recorded version had all its
\* columns when it was recorded, in whichever transactions and however often
\* the statements ran, because a statement that looked a column up found it
\* or adds it; v8 and later are recorded after the old audit rows are gone.
THEOREM CurrentSchemasAreComplete == Spec => []CurrentSchemaIsComplete
<1>1. ASSUME Typed, SchemaKept, Version(db) = Latest PROVE
        /\ \A t \in Plain : db.width[t] >= FullWidth[t]
        /\ NoEmpty(db.audit[Promotions])
  <2>1. db \in Databases /\ Stored(db) /\ Latest = 10
    BY <1>1 DEF Typed, SchemaKept, Latest
  <2>2. 10 \in db.applied
    BY <1>1, <2>1, VersionIs
  <2>3. \A j \in DOMAIN Script : Script[j].op \in {"create", "add"} => Built(j, db)
    BY <2>1, <2>2, AllBuilt
  <2>4. ASSUME NEW t \in Plain PROVE db.width[t] >= FullWidth[t]
    <3>1. t \in Tables /\ db.width[t] \in Nat
      BY <2>1 DEF Plain, Databases
    <3>2. FullWidth[t] = WidthAt(t, Latest)
      BY <3>1 DEF FullWidth
    <3>3. \/ WidthAt(t, Latest) = 0
          \/ \E j \in DOMAIN Script : /\ Script[j].op \in {"create", "add"}
                                      /\ Script[j].table = t
                                      /\ WidthAt(t, Latest) = Script[j].n
      BY WidthTyped
    <3>4. CASE WidthAt(t, Latest) = 0
      BY <3>1, <3>2, <3>4
    <3>5. ASSUME NEW j \in DOMAIN Script, Script[j].op \in {"create", "add"},
                 Script[j].table = t, WidthAt(t, Latest) = Script[j].n
          PROVE  db.width[t] >= FullWidth[t]
      BY <2>3, <3>2, <3>5 DEF Built
    <3> QED
      BY <3>3, <3>4, <3>5
  <2>5. NoEmpty(db.audit[Promotions])
    <3>1. 10 >= 8
      OBVIOUS
    <3> QED
      BY <2>1, <2>2, <3>1 DEF Stored
  <2> QED
    BY <2>4, <2>5
<1>2. Typed /\ SchemaKept => CurrentSchemaIsComplete
  BY <1>1, Zenon DEF CurrentSchemaIsComplete, Plain, NoEmpty
<1>3. Spec => [](Typed /\ SchemaKept)
  BY TypedHolds, SchemaHolds, PTL
<1> QED
  BY <1>2, <1>3, PTL

(***************************************************************************)
(* What makes a migration fail.                                            *)
(***************************************************************************)
\* A recorded version has its table, and from v8 on the index is somewhere.
Indexing(d) == (\E u \in d.applied : u >= 8) => d.index # "none"

VersionsHaveTable ==
  /\ db.applied # {} => db.width["schema_version"] > 0
  /\ \A p \in Processes : phase[p] \in {"read", "run"} => db.width["schema_version"] > 0
  /\ Indexing(db)

MadeBefore(i) ==
  \E j \in 1..(i-1) : Script[j].op = "create" /\ Script[j].table = Promotions

\* The rebuild of model_promotions goes through, and so does the rest, at
\* statement i for a process that listed w columns and sees d.
Smooth(i, w, d) ==
  LET s == Script[i]
  IN  /\ s.op = "add" =>
           IF s.n <= w THEN d.width[s.table] = w
                       ELSE w <= d.width[s.table] /\ d.width[s.table] < s.n
      /\ s.op \in {"rename", "recreate", "copy", "drop"} => w > 0
      /\ s.op \in {"recreate", "copy", "drop"} => d.width[Renamed] > 0
      /\ s.op \notin {"recreate", "copy", "drop"} => d.width[Renamed] = 0
      /\ s.op = "recreate" => d.width[Promotions] = 0
      /\ s.op \in {"rename", "copy", "drop", "index"} => d.width[Promotions] > 0
      /\ s.op \in {"recreate", "copy"} => d.audit[Promotions] = {}
      /\ MadeBefore(i) /\ s.op # "recreate" => d.width[Promotions] > 0
      /\ s.op = "assert" => d.index # "none"

\* An undisturbed process that found an intact database has not failed.
Unfailing(p) ==
  alone[p] /\ intact[p] =>
    /\ phase[p] # "failed"
    /\ phase[p] \in {"inspect", "backup", "copy", "open", "read"} => Intact(db)
    /\ phase[p] = "run" =>
         content.refused = {} /\ Smooth(at[p], seen[p], View(p))
    /\ phase[p] = "verify" => Sound(db)

LEMMA TimeOrder ==
  ASSUME NEW i \in DOMAIN Script, NEW k \in DOMAIN Script,
         Timed(Script[i]), Timed(Script[k])
  PROVE  /\ Time(Script[i]) < Time(Script[k]) => i < k
         /\ i < k => Time(Script[i]) < Time(Script[k])
         /\ Time(Script[i]) = Time(Script[k]) => i = k
<1>1. Time(Script[i]) \in Nat /\ Time(Script[k]) \in Nat /\ i \in Nat /\ k \in Nat
  BY ScriptNumbers
<1>2. /\ i < k => Time(Script[i]) < Time(Script[k])
      /\ k < i => Time(Script[k]) < Time(Script[i])
  BY ScriptUse
<1> QED
  BY <1>1, <1>2

LEMMA PreparedUse ==
  ASSUME NEW i \in DOMAIN Script,
         Script[i].op \in {"columns", "add", "backfill", "update"}
  PROVE  \E j \in 1..(i-1) : /\ Script[j].op = "create" /\ Script[j].n = 1
                             /\ Script[j].table = Script[i].table
<1>1. PICK j \in 1..(i-1) : Script[j] = Stmt("create", Script[i].table, 1)
  BY ScriptIs, ScriptUse DEF ScriptFacts, Prepared
<1> QED
  BY <1>1 DEF Stmt

LEMMA TableMade ==
  ASSUME NEW t \in Plain, t # "schema_version"
  PROVE  \E j \in DOMAIN Script : /\ Script[j].op = "create" /\ Script[j].n = 1
                                  /\ Script[j].table = t
<1>1. PICK i \in DOMAIN Script : Script[i].table = t
  BY DEF Plain, Tables
<1>2. Script[i] \in Fitting /\ t # Promotions /\ t # Renamed
  BY ScriptUse DEF Plain
<1>3. Script[i].op \in {"create", "columns", "add", "backfill", "update"}
  BY <1>1, <1>2 DEF Fitting, Operations
<1>4. CASE Script[i].op = "create"
  BY <1>1, <1>2, <1>4 DEF Fitting
<1>5. CASE Script[i].op \in {"columns", "add", "backfill", "update"}
  <2>1. PICK j \in 1..(i-1) : /\ Script[j].op = "create" /\ Script[j].n = 1
                              /\ Script[j].table = Script[i].table
    BY <1>5, PreparedUse
  <2>2. j \in DOMAIN Script
    BY ScriptUse
  <2> QED
    BY <1>1, <2>1, <2>2
<1> QED
  BY <1>3, <1>4, <1>5

LEMMA PreviousIs ==
  ASSUME NEW k \in DOMAIN Script, Dependent(Script[k])
  PROVE  k \in Nat /\ k - 1 \in DOMAIN Script /\ Follows(Script[k-1], Script[k])
BY ScriptUse

\* The rebuild is in the script once, in its order.
LEMMA RebuildOrder ==
  ASSUME NEW i \in DOMAIN Script, i + 1 \in DOMAIN Script
  PROVE  /\ Script[i].op = "rename" => Script[i+1].op = "recreate"
         /\ Script[i].op = "recreate" => Script[i+1].op = "copy"
         /\ Script[i].op = "copy" => Script[i+1].op = "drop"
<1>1. PICK k \in DOMAIN Script : Script[k].op = "drop"
  <2>1. PICK k \in DOMAIN Script : Script[k] = Stmt("drop", Renamed, 0)
    BY ScriptIs, ScriptUse DEF ScriptFacts, Holds
  <2> QED
    BY <2>1 DEF Stmt
<1>2. k - 1 \in DOMAIN Script /\ Script[k-1].op = "copy"
  BY <1>1, PreviousIs DEF Dependent, Follows
<1>3. (k - 1) - 1 \in DOMAIN Script /\ Script[(k-1)-1].op = "recreate"
  BY <1>2, PreviousIs DEF Dependent, Follows
<1>4. ((k - 1) - 1) - 1 \in DOMAIN Script /\ Script[((k-1)-1)-1].op = "rename"
  BY <1>3, PreviousIs DEF Dependent, Follows
<1>5. \A j \in DOMAIN Script : Script[j].op = "rename" => j = ((k - 1) - 1) - 1
  <2> SUFFICES ASSUME NEW j \in DOMAIN Script, Script[j].op = "rename"
               PROVE  j = ((k - 1) - 1) - 1
    OBVIOUS
  <2> DEFINE m == ((k - 1) - 1) - 1
  <2>1. m \in DOMAIN Script /\ Script[m].op = "rename"
    BY <1>4
  <2> HIDE DEF m
  <2>2. /\ Timed(Script[j]) /\ Timed(Script[m]) /\ Time(Script[j]) = Time(Script[m])
    BY <2>1 DEF Timed, Time
  <2>3. j = m
    BY <2>1, <2>2, TimeOrder
  <2> QED
    BY <2>3 DEF m
<1>6. \A j \in DOMAIN Script : Script[j].op = "recreate" => j = (k - 1) - 1
  <2> SUFFICES ASSUME NEW j \in DOMAIN Script, Script[j].op = "recreate"
               PROVE  j = (k - 1) - 1
    OBVIOUS
  <2>1. j \in Nat /\ j - 1 \in DOMAIN Script /\ Script[j-1].op = "rename"
    BY PreviousIs DEF Dependent, Follows
  <2>2. j - 1 = ((k - 1) - 1) - 1
    BY <1>5, <2>1
  <2> QED
    BY <2>1, <2>2, ScriptUse
<1>7. \A j \in DOMAIN Script : Script[j].op = "copy" => j = k - 1
  <2> SUFFICES ASSUME NEW j \in DOMAIN Script, Script[j].op = "copy"
               PROVE  j = k - 1
    OBVIOUS
  <2>1. j \in Nat /\ j - 1 \in DOMAIN Script /\ Script[j-1].op = "recreate"
    BY PreviousIs DEF Dependent, Follows
  <2>2. j - 1 = (k - 1) - 1
    BY <1>6, <2>1
  <2> QED
    BY <2>1, <2>2, ScriptUse
<1>8. k \in Nat /\ i \in Nat
  BY ScriptUse
<1>9. Script[i].op = "rename" => Script[i+1].op = "recreate"
  <2> SUFFICES ASSUME Script[i].op = "rename" PROVE i + 1 = (k - 1) - 1
    BY <1>3
  <2>1. i = ((k - 1) - 1) - 1
    BY <1>5
  <2> QED
    BY <1>8, <2>1
<1>10. Script[i].op = "recreate" => Script[i+1].op = "copy"
  <2> SUFFICES ASSUME Script[i].op = "recreate" PROVE i + 1 = k - 1
    BY <1>2
  <2>1. i = (k - 1) - 1
    BY <1>6
  <2> QED
    BY <1>8, <2>1
<1>11. Script[i].op = "copy" => Script[i+1].op = "drop"
  <2> SUFFICES ASSUME Script[i].op = "copy" PROVE i + 1 = k
    BY <1>1
  <2>1. i = k - 1
    BY <1>7
  <2> QED
    BY <1>8, <2>1
<1> QED
  BY <1>9, <1>10, <1>11

\* The assertion comes after every table and column, and the last record
\* after model_promotions.
LEMMA AssertLast ==
  /\ \A i \in DOMAIN Script :
       Script[i].op = "assert" =>
         \A j \in DOMAIN Script : Script[j].op \in {"create", "add"} => j \in 1..(i-1)
  /\ \A i \in DOMAIN Script :
       \/ Script[i].op = "assert"
       \/ Script[i].op = "record" /\ Script[i].n = 10
       => MadeBefore(i)
<1>1. PICK k \in DOMAIN Script : Script[k] = RecordOf(10)
  BY RecordPosition
<1>2. Script[k].op = "record" /\ Timed(Script[k]) /\ Time(Script[k]) = 20
  BY <1>1 DEF RecordOf, Stmt, Timed, Time
<1>3. PICK c \in DOMAIN Script : Script[c] = Stmt("create", Promotions, 1)
  BY ScriptIs, ScriptUse DEF ScriptFacts, Holds
<1>4. /\ Timed(Script[c]) /\ Time(Script[c]) = 13
      /\ Script[c].op = "create" /\ Script[c].table = Promotions
  BY <1>3 DEF Stmt, Timed, Time
<1>5. ASSUME NEW i \in DOMAIN Script, Script[i].op = "assert",
             NEW j \in DOMAIN Script, Script[j].op \in {"create", "add"}
      PROVE  j \in 1..(i-1)
  <2>1. Timed(Script[i]) /\ Time(Script[i]) = 21
    BY <1>5 DEF Timed, Time
  <2>2. k < i
    BY <1>2, <2>1, TimeOrder
  <2>3. j < k
    BY <1>1, <1>5, ScriptIs, ScriptUse DEF ScriptFacts
  <2> QED
    BY <2>2, <2>3, ScriptUse
<1>6. ASSUME NEW i \in DOMAIN Script,
             \/ Script[i].op = "assert"
             \/ Script[i].op = "record" /\ Script[i].n = 10
      PROVE  MadeBefore(i)
  <2>1. Timed(Script[i]) /\ Time(Script[i]) > 13
    BY <1>6 DEF Timed, Time
  <2>2. c < i
    <3>1. Time(Script[i]) \in {20, 21}
      BY <1>6 DEF Time
    <3>2. Time(Script[c]) < Time(Script[i])
      BY <1>4, <3>1
    <3> QED
      BY <1>4, <2>1, <3>2, TimeOrder
  <2>3. c \in 1..(i-1)
    BY <2>2, ScriptUse
  <2> QED
    BY <1>4, <2>3 DEF MadeBefore
<1> QED
  BY <1>5, <1>6

\* The assertion, from what it looks at.
LEMMA SoundWhenBuilt ==
  ASSUME NEW d \in Databases,
         \A j \in DOMAIN Script : Script[j].op \in {"create", "add"} => Built(j, d),
         d.width[Promotions] > 0, d.width["schema_version"] > 0, d.index # "none"
  PROVE  Sound(d)
<1>1. \A t \in Tables : d.width[t] \in Nat
  BY DEF Databases
<1>2. ASSUME NEW t \in Plain, NEW n \in Nat, Holds(Script, Stmt("add", t, n))
      PROVE  d.width[t] >= n
  <2>1. PICK j \in DOMAIN Script : Script[j] = Stmt("add", t, n)
    BY <1>2, ScriptUse DEF Holds
  <2>2. Script[j].op = "add" /\ Script[j].table = t /\ Script[j].n = n
    BY <2>1 DEF Stmt
  <2> QED
    BY <1>2, <2>2 DEF Built
<1>3. /\ Holds(Script, Stmt("add", "telemetry_events", 8))
      /\ Holds(Script, Stmt("add", "feature_materialization_state", 9))
      /\ Holds(Script, Stmt("add", "feature_windows", 3))
      /\ Holds(Script, Stmt("add", "detection_runs", 13))
      /\ Holds(Script, Stmt("add", "detection_evaluations", 2))
      /\ Holds(Script, Stmt("add", "findings", 2))
      /\ Holds(Script, Stmt("add", "detection_worker_leases", 7))
  BY ScriptIs DEF ScriptFacts
<1>4. ASSUME NEW t \in Tables PROVE d.width[t] >= RequiredWidth[t]
  <2> DEFINE r == RequiredWidth[t]
  <2>1. r = CASE t = "telemetry_events" -> 8
              [] t = "feature_materialization_state" -> 9
              [] t = "feature_windows" -> 3
              [] t = "detection_runs" -> 13
              [] t = "detection_evaluations" -> 2
              [] t = "findings" -> 2
              [] t = "detection_worker_leases" -> 7
              [] t = Renamed -> 0
              [] OTHER -> 1
    BY DEF RequiredWidth
  <2> HIDE DEF r
  <2>2. CASE t = Renamed
    <3>1. r = 0
      BY <2>1, <2>2 DEF Renamed
    <3> QED
      BY <1>1, <3>1 DEF r
  <2>3. CASE t = Promotions
    <3>1. r = 1
      BY <2>1, <2>3 DEF Renamed, Promotions
    <3> QED
      BY <1>1, <2>3, <3>1 DEF r
  <2>4. CASE t = "schema_version"
    <3>1. r = 1
      BY <2>1, <2>4 DEF Renamed
    <3> QED
      BY <1>1, <2>4, <3>1 DEF r
  <2>5. CASE t \in Plain \ {"schema_version"}
    <3>1. CASE t \in {"telemetry_events", "feature_materialization_state",
                      "feature_windows", "detection_runs", "detection_evaluations",
                      "findings", "detection_worker_leases"}
      <4>1. r \in Nat /\ Holds(Script, Stmt("add", t, r))
        <5>1. CASE t = "telemetry_events"
          <6>1. r = 8
            BY <2>1, <5>1 DEF Renamed
          <6> QED
            BY <1>3, <5>1, <6>1
        <5>2. CASE t = "feature_materialization_state"
          <6>1. r = 9
            BY <2>1, <5>2 DEF Renamed
          <6> QED
            BY <1>3, <5>2, <6>1
        <5>3. CASE t = "feature_windows"
          <6>1. r = 3
            BY <2>1, <5>3 DEF Renamed
          <6> QED
            BY <1>3, <5>3, <6>1
        <5>4. CASE t = "detection_runs"
          <6>1. r = 13
            BY <2>1, <5>4 DEF Renamed
          <6> QED
            BY <1>3, <5>4, <6>1
        <5>5. CASE t = "detection_evaluations"
          <6>1. r = 2
            BY <2>1, <5>5 DEF Renamed
          <6> QED
            BY <1>3, <5>5, <6>1
        <5>6. CASE t = "findings"
          <6>1. r = 2
            BY <2>1, <5>6 DEF Renamed
          <6> QED
            BY <1>3, <5>6, <6>1
        <5>7. CASE t = "detection_worker_leases"
          <6>1. r = 7
            BY <2>1, <5>7 DEF Renamed
          <6> QED
            BY <1>3, <5>7, <6>1
        <5> QED
          BY <3>1, <5>1, <5>2, <5>3, <5>4, <5>5, <5>6, <5>7
      <4> QED
        BY <1>2, <2>5, <4>1 DEF r
    <3>2. CASE t \notin {"telemetry_events", "feature_materialization_state",
                      "feature_windows", "detection_runs", "detection_evaluations",
                      "findings", "detection_worker_leases"}
      <4>1. r = 1
        BY <2>1, <2>5, <3>2 DEF Plain
      <4>2. PICK j \in DOMAIN Script : /\ Script[j].op = "create" /\ Script[j].n = 1
                                       /\ Script[j].table = t
        BY <2>5, TableMade
      <4>3. d.width[t] >= 1
        BY <2>5, <4>2 DEF Built
      <4> QED
        BY <4>1, <4>3 DEF r
    <3> QED
      BY <3>1, <3>2
  <2> QED
    BY <2>2, <2>3, <2>4, <2>5 DEF Plain
<1> QED
  BY <1>4 DEF Sound

\* What a statement does to the promotions, the index and a column.
LEMMA EffectOn ==
  ASSUME NEW i \in DOMAIN Script, NEW w \in Nat, NEW d \in Databases
  PROVE  LET s == Script[i]
             e == Effect(s, d, w)
         IN  /\ (s.op \in {"rename", "drop"} => w = 0) => e.width[Renamed] = d.width[Renamed]
             /\ s.op = "rename" /\ w > 0 =>
                  /\ e.width[Renamed] = d.width[Promotions]
                  /\ e.width[Promotions] = 0 /\ e.audit[Promotions] = {}
             /\ s.op = "drop" /\ w > 0 => e.width[Renamed] = 0
             /\ s.op = "recreate" /\ w > 0 => e.width[Promotions] = 1
             /\ s.op = "create" /\ s.table = Promotions => e.width[Promotions] > 0
             /\ s.op # "rename" /\ d.width[Promotions] > 0 => e.width[Promotions] > 0
             /\ s.op \notin {"rename", "copy"} => e.audit[Promotions] = d.audit[Promotions]
             /\ s.op = "index" => e.index # "none"
             /\ e.index = "none" => d.index = "none" \/ (s.op = "drop" /\ w > 0)
             /\ s.op = "add" =>
                  e.width[s.table] = IF NotListed(s, w) THEN s.n ELSE d.width[s.table]
<1> DEFINE s == Script[i]
           e == Effect(s, d, w)
<1>1. /\ s.op \in Operations /\ s.table \in Tables /\ s.n \in Nat
      /\ Promotions \in Tables /\ Renamed \in Tables /\ Promotions # Renamed
      /\ s.op = "add" => s.table \notin {Promotions, Renamed}
      /\ s.op = "create" => s.table # Renamed
      /\ Promotions # "none" /\ Renamed # "none"
  BY ScriptUse DEF Fitting, Created, Promotions, Renamed
<1>2. /\ d.width \in [Tables -> Nat]
      /\ d.audit \in [{Promotions, Renamed} -> SUBSET Rows]
      /\ d.index \in {"none", Promotions, Renamed}
      /\ d = [d EXCEPT !.index = d.index]
  BY DEF Databases
<1> HIDE DEF s
<1>3. CASE s.op \in {"create", "add", "recreate"}
  <2>1. \A x \in {Made(s, d), Added(s, d), Remade(d)} :
          x.index = d.index /\ x.audit = d.audit
    BY DEF Made, Added, Remade, Databases
  <2>2. /\ Made(s, d).width = [d.width EXCEPT ![s.table] = 1]
        /\ Added(s, d).width = [d.width EXCEPT ![s.table] = s.n]
        /\ Remade(d).width = [d.width EXCEPT ![Promotions] = 1]
    BY DEF Made, Added, Remade, Databases
  <2>3. \/ e = d /\ s.op = "create" /\ d.width[s.table] # 0
        \/ e = d /\ s.op = "add" /\ ~NotListed(s, w)
        \/ e = d /\ s.op = "recreate" /\ ~(w > 0)
        \/ e = Made(s, d) /\ s.op = "create"
        \/ e = Added(s, d) /\ s.op = "add" /\ NotListed(s, w)
        \/ e = Remade(d) /\ s.op = "recreate"
    BY <1>3, EffectIs
  <2> HIDE DEF e
  <2>4. e.index = d.index /\ e.audit = d.audit
    BY <2>1, <2>3
  <2>5. /\ e.width[Renamed] = d.width[Renamed]
        /\ s.op = "recreate" /\ w > 0 => e.width[Promotions] = 1
        /\ s.op = "create" /\ s.table = Promotions => e.width[Promotions] > 0
        /\ d.width[Promotions] > 0 => e.width[Promotions] > 0
        /\ s.op = "add" =>
             e.width[s.table] = IF NotListed(s, w) THEN s.n ELSE d.width[s.table]
    BY <1>1, <1>2, <2>2, <2>3
  <2> QED
    BY <1>3, <2>4, <2>5 DEF s, e
<1>4. CASE s.op = "rename"
  <2>1. /\ Moved(d).width[Renamed] = d.width[Promotions] /\ Moved(d).width[Promotions] = 0
        /\ Moved(d).audit[Promotions] = {}
        /\ Moved(d).index = IF d.index = Promotions THEN Renamed ELSE d.index
    BY <1>1, <1>2 DEF Moved, Databases
  <2>2. \/ e = d /\ ~(w > 0)
        \/ e = Moved(d) /\ w > 0
    BY <1>4, EffectIs
  <2> HIDE DEF e
  <2> QED
    BY <1>1, <1>4, <2>1, <2>2 DEF s, e
<1>5. CASE s.op = "drop"
  <2>1. /\ Dropped(d).width[Renamed] = 0
        /\ Dropped(d).width[Promotions] = d.width[Promotions]
        /\ Dropped(d).audit[Promotions] = d.audit[Promotions]
    BY <1>1, <1>2 DEF Dropped, Databases
  <2>2. \/ e = d /\ ~(w > 0)
        \/ e = Dropped(d) /\ w > 0
    BY <1>5, EffectIs
  <2> HIDE DEF e
  <2> QED
    BY <1>1, <1>5, <2>1, <2>2 DEF s, e
<1>6. CASE s.op \notin {"create", "add", "recreate", "rename", "drop"}
  <2>1. /\ Indexed(d).width = d.width /\ Indexed(d).audit = d.audit
        /\ Indexed(d).index = Promotions
        /\ Recorded(s, d).width = d.width /\ Recorded(s, d).audit = d.audit
        /\ Recorded(s, d).index = d.index
        /\ Copied(d).width = d.width /\ Copied(d).index = d.index
    BY DEF Indexed, Recorded, Copied, Databases
  <2>2. \/ e = d /\ (s.op = "index" => d.index # "none")
        \/ e = Indexed(d)
        \/ e = Recorded(s, d) /\ s.op = "record"
        \/ e = Copied(d) /\ s.op = "copy"
    BY <1>1, <1>6, EffectIs DEF Operations
  <2> HIDE DEF e
  <2>3. /\ e.width = d.width /\ (s.op # "copy" => e.audit = d.audit)
        /\ s.op = "index" => e.index # "none"
        /\ e.index = "none" => d.index = "none"
    BY <1>1, <2>1, <2>2
  <2> QED
    BY <1>6, <2>3 DEF s, e
<1> QED
  BY <1>3, <1>4, <1>5, <1>6

\* A statement that is reached smoothly does not raise.
LEMMA SmoothRuns ==
  ASSUME NEW i \in DOMAIN Script, NEW w \in Nat, NEW d \in Databases,
         Passed(i, w, d), Smooth(i, w, d), d.width["schema_version"] > 0,
         content.refused = {}
  PROVE  ~Raises(Script[i], d, w)
<1> DEFINE s == Script[i]
<1>1. /\ s \in Fitting /\ s.table \in Tables
      /\ Promotions \in Tables /\ Renamed \in Tables
      /\ s.op \in {"add", "backfill", "update"} => s.table \in Plain
      /\ \A j \in 1..(i-1) : j \in DOMAIN Script
  <2>1. s \in Fitting /\ s.table \in Tables /\ Promotions \in Tables /\ Renamed \in Tables
    BY ScriptUse
  <2>2. s.op \in {"add", "backfill", "update"} => s.table \in Plain
    BY <2>1 DEF Fitting, Created, Plain
  <2> QED
    BY <2>1, <2>2, ScriptUse
<1>2. s.n \in Nat /\ \A t \in Tables : d.width[t] \in Nat
  <2>1. \A y \in Databases : \A t \in Tables : y.width[t] \in Nat
    BY DEF Databases
  <2>2. \A y \in Fitting : y.n \in Nat
    BY DEF Fitting
  <2> HIDE DEF s
  <2> QED
    BY <1>1, <2>1, <2>2
<1>3. ASSUME s.op \in {"add", "backfill", "update"} PROVE d.width[s.table] # 0
  <2>1. PICK j \in 1..(i-1) : /\ Script[j].op = "create" /\ Script[j].n = 1
                              /\ Script[j].table = s.table
    BY <1>3, PreparedUse
  <2>2. Built(j, d)
    BY DEF Passed
  <2>3. d.width[s.table] >= 1
    BY <1>1, <1>3, <2>1, <2>2 DEF Built
  <2> HIDE DEF s
  <2> QED
    BY <1>1, <1>2, <2>3
<1>4. CASE s.op = "add"
  <2>1. /\ NotListed(s, w) => d.width[s.table] < s.n
    BY <1>2, <1>4 DEF Smooth, NotListed
  <2>2. d.width[s.table] # 0
    BY <1>3, <1>4
  <2> HIDE DEF s
  <2>3. ~(NotListed(s, w) /\ (d.width[s.table] >= s.n \/ d.width[s.table] = 0))
    BY <1>1, <1>2, <2>1, <2>2
  <2>4. ~Raises(s, d, w)
    BY <1>4, <2>3 DEF Raises
  <2> QED
    BY <2>4 DEF s
<1>5. CASE s.op \in {"backfill", "update"}
  <2>1. d.width[s.table] # 0
    BY <1>3, <1>5
  <2> QED
    BY <1>5, <2>1 DEF Raises
<1>6. CASE s.op = "assert"
  <2>1. \A j \in DOMAIN Script : Script[j].op \in {"create", "add"} => Built(j, d)
    BY <1>6, AssertLast DEF Passed
  <2>2. d.width[Promotions] > 0 /\ d.index # "none"
    BY <1>6, AssertLast DEF Smooth
  <2>3. Sound(d)
    BY <2>1, <2>2, SoundWhenBuilt
  <2> QED
    BY <1>6, <2>3 DEF Raises
<1>7. CASE s.op \in {"rename", "recreate", "drop", "index"}
  <2>1. /\ s.op = "rename" => d.width[Promotions] > 0 /\ d.width[Renamed] = 0
        /\ s.op = "recreate" => d.width[Promotions] = 0
        /\ s.op = "drop" => d.width[Renamed] > 0
        /\ s.op = "index" => d.width[Promotions] > 0
    BY DEF Smooth
  <2> HIDE DEF s
  <2>2. ~Raises(s, d, w)
    BY <1>1, <1>2, <1>7, <2>1 DEF Raises
  <2> QED
    BY <2>2 DEF s
<1>8. CASE s.op = "copy"
  <2>1. d.width[Promotions] > 0 /\ d.width[Renamed] > 0 /\ d.audit[Promotions] = {}
    BY <1>8 DEF Smooth
  <2> HIDE DEF s
  <2>2. ~Raises(s, d, w)
    BY <1>1, <1>2, <1>8, <2>1 DEF Raises
  <2> QED
    BY <2>2 DEF s
<1>9. CASE s.op \in {"create", "columns", "record"}
  BY <1>9 DEF Raises
<1> QED
  BY <1>1, <1>4, <1>5, <1>6, <1>7, <1>8, <1>9 DEF Fitting, Operations

\* And leads smoothly to the next one.
LEMMA SmoothByEffect ==
  ASSUME NEW i \in DOMAIN Script, i + 1 \in DOMAIN Script, NEW w \in Nat,
         NEW d \in Databases, Smooth(i, w, d)
  PROVE  Smooth(i + 1, IF Script[i].op = "columns" THEN d.width[Script[i].table] ELSE w,
                Effect(Script[i], d, w))
<1> DEFINE s == Script[i]
           e == Effect(s, d, w)
           x == IF s.op = "columns" THEN d.width[s.table] ELSE w
<1>0. PICK n \in DOMAIN Script : n = i + 1
  OBVIOUS
<1> DEFINE r == Script[n]
<1>1. /\ i \in Nat /\ 1..(n-1) = 1..(i-1) \cup {i}
      /\ Dependent(r) => Follows(s, r)
      /\ s.op = "rename" => r.op = "recreate"
      /\ s.op = "recreate" => r.op = "copy"
      /\ s.op = "copy" => r.op = "drop"
  BY <1>0, NextPosition, RebuildOrder
<1>2. /\ s \in Fitting /\ r \in Fitting /\ e \in Databases
      /\ s.table \in Tables /\ r.table \in Tables
      /\ Promotions \in Tables /\ Renamed \in Tables
  BY ScriptUse, EffectTyped
<1>3. /\ s.n \in Nat /\ r.n \in Nat
      /\ \A t \in Tables : d.width[t] \in Nat /\ e.width[t] \in Nat
  <2>1. \A y \in Databases : \A t \in Tables : y.width[t] \in Nat
    BY DEF Databases
  <2>2. \A y \in Fitting : y.n \in Nat
    BY DEF Fitting
  <2> HIDE DEF e, s, r
  <2> QED
    BY <1>2, <2>1, <2>2
<1>4. /\ (s.op \in {"rename", "drop"} => w = 0) => e.width[Renamed] = d.width[Renamed]
      /\ s.op = "rename" /\ w > 0 =>
           /\ e.width[Renamed] = d.width[Promotions]
           /\ e.width[Promotions] = 0 /\ e.audit[Promotions] = {}
      /\ s.op = "drop" /\ w > 0 => e.width[Renamed] = 0
      /\ s.op = "recreate" /\ w > 0 => e.width[Promotions] = 1
      /\ s.op = "create" /\ s.table = Promotions => e.width[Promotions] > 0
      /\ s.op # "rename" /\ d.width[Promotions] > 0 => e.width[Promotions] > 0
      /\ s.op \notin {"rename", "copy"} => e.audit[Promotions] = d.audit[Promotions]
      /\ s.op = "index" => e.index # "none"
      /\ s.op = "add" =>
           e.width[s.table] = IF NotListed(s, w) THEN s.n ELSE d.width[s.table]
      /\ s.op = "columns" => e = d
  <2>1. s.op = "columns" => e = d
    BY EffectIs
  <2> QED
    BY <2>1, EffectOn
<1>5. /\ s.op = "add" =>
           IF s.n <= w THEN d.width[s.table] = w
                       ELSE w <= d.width[s.table] /\ d.width[s.table] < s.n
      /\ s.op \in {"rename", "recreate", "copy", "drop"} => w > 0
      /\ s.op \in {"recreate", "copy", "drop"} => d.width[Renamed] > 0
      /\ s.op \notin {"recreate", "copy", "drop"} => d.width[Renamed] = 0
      /\ s.op = "recreate" => d.audit[Promotions] = {}
      /\ s.op \in {"rename", "copy", "drop", "index"} => d.width[Promotions] > 0
      /\ MadeBefore(i) /\ s.op # "recreate" => d.width[Promotions] > 0
  BY DEF Smooth
<1>6. s.op = "columns" => x = d.width[s.table]
  OBVIOUS
<1>7. s.op # "columns" => x = w
  OBVIOUS
<1>8. MadeBefore(n) => MadeBefore(i) \/ (s.op = "create" /\ s.table = Promotions)
  BY <1>1 DEF MadeBefore
<1>9. s.op = "columns" /\ s.table = Promotions => MadeBefore(i)
  BY PreparedUse DEF MadeBefore
<1>10. s.op = "record" /\ s.n = 10 => MadeBefore(i)
  BY AssertLast
<1>11. /\ r.op = "add" => /\ s.op \in {"columns", "add"} /\ s.table = r.table
                          /\ s.op = "add" => r.n = s.n + 1
       /\ r.op = "rename" => s.op = "columns" /\ s.table = Promotions
       /\ r.op = "recreate" => s.op = "rename"
       /\ r.op = "copy" => s.op = "recreate"
       /\ r.op = "drop" => s.op = "copy"
       /\ r.op = "index" => s.op = "drop" \/ (s.op = "record" /\ s.n = 10)
       /\ r.op = "assert" => s.op = "index"
  BY <1>1 DEF Dependent, Follows
<1> HIDE DEF s, e, x, r
<1>12. r.op = "add" =>
         IF r.n <= x THEN e.width[r.table] = x
                     ELSE x <= e.width[r.table] /\ e.width[r.table] < r.n
  <2> SUFFICES ASSUME r.op = "add"
               PROVE  IF r.n <= x THEN e.width[r.table] = x
                                  ELSE x <= e.width[r.table] /\ e.width[r.table] < r.n
    OBVIOUS
  <2>1. CASE s.op = "columns"
    BY <1>2, <1>3, <1>4, <1>6, <1>11, <2>1
  <2>2. CASE s.op = "add"
    <3>1. x = w /\ s.table = r.table /\ r.n = s.n + 1
      BY <1>7, <1>11, <2>2
    <3>2. CASE s.n <= w
      BY <1>2, <1>3, <1>4, <1>5, <2>2, <3>1, <3>2 DEF NotListed
    <3>3. CASE ~(s.n <= w)
      BY <1>2, <1>3, <1>4, <1>5, <2>2, <3>1, <3>3 DEF NotListed
    <3> QED
      BY <3>2, <3>3
  <2> QED
    BY <1>11, <2>1, <2>2
<1>13. r.op \in {"rename", "recreate", "copy", "drop"} => x > 0
  BY <1>4, <1>5, <1>6, <1>7, <1>9, <1>11
<1>14. /\ r.op \in {"recreate", "copy", "drop"} => e.width[Renamed] > 0
       /\ r.op \notin {"recreate", "copy", "drop"} => e.width[Renamed] = 0
  BY <1>1, <1>4, <1>5, <1>11
<1>15. r.op = "recreate" => e.width[Promotions] = 0
  BY <1>4, <1>5, <1>11
<1>16. r.op \in {"rename", "copy", "drop", "index"} => e.width[Promotions] > 0
  BY <1>4, <1>5, <1>9, <1>10, <1>11
<1>17. r.op \in {"recreate", "copy"} => e.audit[Promotions] = {}
  BY <1>4, <1>5, <1>11
<1>18. MadeBefore(n) /\ r.op # "recreate" => e.width[Promotions] > 0
  BY <1>1, <1>4, <1>5, <1>8
<1>19. r.op = "assert" => e.index # "none"
  BY <1>4, <1>11
<1>20. Smooth(n, x, e)
  BY <1>12, <1>13, <1>14, <1>15, <1>16, <1>17, <1>18, <1>19 DEF Smooth, r
<1> QED
  BY <1>0, <1>20 DEF s, e, x

\* A migration of an intact database starts smoothly.
LEMMA SmoothAtStart ==
  ASSUME NEW d \in Databases, Intact(d), Version(d) \in 0..9, NEW w \in Nat
  PROVE  Smooth(FirstAfter(Version(d)), w, d)
<1> DEFINE i == FirstAfter(Version(d))
<1>1. i \in DOMAIN Script /\ ~Dependent(Script[i]) /\ i \in Nat
  <2>1. i \in DOMAIN Script /\ ~Dependent(Script[i])
    BY StartPosition
  <2> HIDE DEF i
  <2> QED
    BY <2>1, ScriptUse
<1>2. d.width[Renamed] = 0 /\ (Version(d) >= 7 => d.width[Promotions] > 0)
  BY DEF Intact
<1>3. ASSUME MadeBefore(i) PROVE Version(d) >= 7
  <2>1. PICK j \in 1..(i-1) : Script[j].op = "create" /\ Script[j].table = Promotions
    BY <1>3 DEF MadeBefore
  <2>2. j \in DOMAIN Script /\ j \in Nat /\ j < i
    <3> HIDE DEF i
    <3> QED
      BY <1>1, <2>1, ScriptUse
  <2>3. Version(d) # 0
    <3>1. Version(d) = 0 => i = 1
      BY StartPosition
    <3> HIDE DEF i
    <3> QED
      BY <2>2, <3>1, ScriptUse
  <2>4. i - 1 \in DOMAIN Script /\ Script[i-1] = RecordOf(Version(d))
    BY <2>3, StartPosition
  <2>5. Script[i-1].op = "record" /\ Script[i-1].n = Version(d)
    BY <2>4 DEF RecordOf, Stmt
  <2> HIDE DEF i
  <2>6. j # i - 1
    BY <2>1, <2>5
  <2>7. j < i - 1
    BY <1>1, <2>2, <2>6
  <2>8. /\ Timed(Script[j]) /\ Time(Script[j]) = 13
        /\ Timed(Script[i-1]) /\ Time(Script[i-1]) = 2 * Version(d)
    BY <2>1, <2>5 DEF Timed, Time
  <2>9. 13 < 2 * Version(d)
    <3>1. Time(Script[j]) < Time(Script[i-1])
      BY <2>2, <2>4, <2>7, <2>8, TimeOrder
    <3> QED
      BY <2>8, <3>1
  <2> QED
    BY <2>9
<1>4. Script[i].op \notin {"add", "rename", "recreate", "copy", "drop", "index", "assert"}
  BY <1>1 DEF Dependent
<1> HIDE DEF i
<1>5. Smooth(i, w, d)
  BY <1>2, <1>3, <1>4 DEF Smooth
<1> QED
  BY <1>5 DEF i

\* An intact database at the current version is sound.
LEMMA SoundAtLatest ==
  ASSUME NEW d \in Databases, Stored(d), Intact(d), Version(d) = Latest, Indexing(d),
         d.applied # {} => d.width["schema_version"] > 0
  PROVE  Sound(d)
<1>1. Version(d) = 10 /\ 10 \in d.applied
  BY VersionIs DEF Latest
<1>2. \A j \in DOMAIN Script : Script[j].op \in {"create", "add"} => Built(j, d)
  BY <1>1, AllBuilt
<1>3. d.width[Promotions] > 0
  <2>1. 10 >= 7
    OBVIOUS
  <2> QED
    BY <1>1, <2>1 DEF Intact
<1>4. d.index # "none"
  <2>1. 10 >= 8
    OBVIOUS
  <2> QED
    BY <1>1, <2>1 DEF Indexing
<1>5. d.width["schema_version"] > 0
  BY <1>1
<1> QED
  BY <1>2, <1>3, <1>4, <1>5, SoundWhenBuilt

LEMMA SoundIs ==
  ASSUME NEW d \in Databases, Sound(d)
  PROVE  d.width["schema_version"] > 0 /\ d.index # "none"
<1>1. "schema_version" \in Tables /\ RequiredWidth["schema_version"] = 1
  <2>1. "schema_version" \in Tables
    BY ScriptUse
  <2> QED
    BY <2>1 DEF RequiredWidth, Renamed
<1>2. d.width["schema_version"] >= 1 /\ d.index # "none"
  BY <1>1 DEF Sound
<1>3. d.width["schema_version"] \in Nat
  BY <1>1 DEF Databases
<1> QED
  BY <1>2, <1>3

LEMMA TableStep ==
  ASSUME Typed, RowsHeld, SchemaKept, VersionsHaveTable, [Next]_vars
  PROVE  VersionsHaveTable'
<1>1. /\ phase \in [Processes -> {"idle", "inspect", "backup", "copy", "open",
                              "read", "run", "verify", "done", "failed"}]
      /\ db \in Databases /\ pending \in Databases /\ Nobody \notin Processes
      /\ "schema_version" \in Tables /\ "schema_version" \in Plain
      /\ \A y \in Databases : y.width["schema_version"] \in Nat
      /\ \A q \in Processes : View(q) \in Databases /\ at[q] \in DOMAIN Script
                              /\ seen[q] \in Nat
  <2>1. "schema_version" \in Tables /\ "schema_version" \in Plain
    BY ScriptUse DEF Plain, Promotions, Renamed
  <2> QED
    BY <2>1, ViewTyped, MigrationAssumption DEF Typed, Databases
<1>2. ASSUME db' = db,
             \A q \in Processes : phase'[q] \in {"read", "run"} => phase[q] \in {"read", "run"}
      PROVE  VersionsHaveTable'
  BY <1>2 DEF VersionsHaveTable, Indexing
<1>3. ASSUME db'.applied = db.applied, db'.index = "none" => db.index = "none",
             db.width["schema_version"] > 0, db'.width["schema_version"] > 0
      PROVE  VersionsHaveTable'
  BY <1>3 DEF VersionsHaveTable, Indexing
<1>4. ASSUME NEW p \in Processes,
             \/ Start(p) \/ Inspect(p) \/ DecideBackup(p) \/ CopyBackup(p) \/ ReadVersion(p)
             \/ Raise(p) \/ Locked(p) \/ Verify(p) \/ Crash(p)
      PROVE  VersionsHaveTable'
  <2>1. db' = db
    BY <1>4 DEF Start, Inspect, DecideBackup, CopyBackup, ReadVersion, Raise, Locked,
       Verify, Crash, Fail, Rollback, store
  <2>2. \/ \E l : l \notin {"read", "run"} /\ phase' = [phase EXCEPT ![p] = l]
        \/ phase[p] = "read" /\ \E l : phase' = [phase EXCEPT ![p] = l]
    BY <1>4 DEF Start, Inspect, DecideBackup, CopyBackup, ReadVersion, Raise, Locked,
       Verify, Crash, Fail, Goto
  <2>3. \A q \in Processes : phase'[q] \in {"read", "run"} => phase[q] \in {"read", "run"}
    BY <1>1, <2>2
  <2> QED
    BY <1>2, <2>1, <2>3
<1>5. ASSUME NEW p \in Processes, Open(p) PROVE VersionsHaveTable'
  <2>1. CASE db.width["schema_version"] > 0
    <3>1. db' = db
      BY <1>5, <2>1 DEF Open, store
    <3> QED
      BY <2>1, <3>1 DEF VersionsHaveTable, Indexing
  <2>2. CASE ~(db.width["schema_version"] > 0)
    <3>1. db' = [db EXCEPT !.width["schema_version"] = 1]
      BY <1>5, <2>2 DEF Open, Autocommit
    <3>2. db'.applied = db.applied /\ db'.index = db.index
          /\ db'.width["schema_version"] = 1
      BY <1>1, <3>1 DEF Databases
    <3> QED
      BY <3>2 DEF VersionsHaveTable, Indexing
  <2> QED
    BY <2>1, <2>2
<1>6. ASSUME NEW p \in Processes, Execute(p) PROVE VersionsHaveTable'
  <2> DEFINE i == at[p]
             d == View(p)
             e == Effect(Script[i], d, seen[p])
  <2>1. phase' = phase
    BY <1>6 DEF Execute
  <2>2. CASE db' = db
    BY <1>2, <2>1, <2>2
  <2>3. CASE db' # db
    <3>1. /\ owner = Nobody /\ db' = e /\ ~OpensTransaction(Script[i], seen[p])
          /\ ~Raises(Script[i], d, seen[p]) /\ phase[p] = "run" /\ i \in DOMAIN Script
      <4>1. /\ \/ owner \in {p, Nobody} /\ db' = db
               \/ UNCHANGED store
               \/ owner = Nobody /\ db' = e
            /\ owner = Nobody /\ owner' = Nobody => ~OpensTransaction(Script[i], seen[p])
        BY <1>1, <1>6, ExecuteStores
      <4>2. owner = Nobody /\ db' = e /\ owner' = Nobody
        BY <1>6, <2>3, <4>1, ExecuteStores DEF store
      <4> QED
        BY <1>6, <4>1, <4>2, Executed
    <3>2. d = db
      BY <1>1, <3>1 DEF View
    <3>3. db.width[Promotions] = 0 => db.audit[Promotions] = {}
      BY DEF SchemaKept, Stored
    <3>4. Grows(d, e) /\ e.applied = d.applied \cup
            (IF Script[i].op = "record" THEN {Script[i].n} ELSE {})
      BY <1>1, <3>1, <3>2, <3>3, GrowsByEffect, AppliedByEffect
    <3>5. Script[i].op # "record"
      BY <3>1 DEF OpensTransaction
    <3>6. e.index = "none" => d.index = "none"
      <4>1. ~(Script[i].op = "drop" /\ seen[p] > 0)
        <5>1. DropReady(p)
          BY DEF RowsHeld
        <5> QED
          BY <1>1, <3>1, <5>1 DEF DropReady
      <4>2. e.index = "none" => d.index = "none" \/ (Script[i].op = "drop" /\ seen[p] > 0)
        BY <1>1, EffectOn
      <4> QED
        BY <4>1, <4>2
    <3>7. d.width["schema_version"] > 0 /\ d.width["schema_version"] <= e.width["schema_version"]
      BY <1>1, <3>1, <3>2, <3>4 DEF VersionsHaveTable, Grows
    <3>8. e \in Databases
      BY <1>6, ExecuteStores
    <3> HIDE DEF e, d
    <3>9. e.width["schema_version"] > 0
      BY <1>1, <3>2, <3>7, <3>8
    <3> QED
      BY <1>3, <3>1, <3>2, <3>4, <3>5, <3>6, <3>7, <3>9
  <2> QED
    BY <2>2, <2>3
<1>7. ASSUME NEW p \in Processes, Commit(p) PROVE VersionsHaveTable'
  <2>1. /\ db' = View(p) /\ at[p] = Len(Script)
        /\ ~Raises(Script[at[p]], View(p), seen[p])
        /\ phase' = [phase EXCEPT ![p] = Finished(p)]
    BY <1>7 DEF Commit, Goto
  <2>2. Sound(db')
    BY <2>1, ScriptUse DEF Raises
  <2>3. db'.width["schema_version"] > 0 /\ db'.index # "none"
    BY <1>1, <2>1, <2>2, SoundIs
  <2> QED
    BY <2>3 DEF VersionsHaveTable, Indexing
<1>8. ASSUME UNCHANGED vars PROVE VersionsHaveTable'
  BY <1>8, <1>2 DEF vars, store, local
<1> QED
  BY <1>4, <1>5, <1>6, <1>7, <1>8 DEF Next

LEMMA HistoricalTabled ==
  ASSUME NEW v \in StartVersions, NEW f
  PROVE  LET d == HistoricalDatabase(v, f)
         IN  (d.applied # {} => d.width["schema_version"] > 0) /\ Indexing(d)
<1> DEFINE d == HistoricalDatabase(v, f)
<1>1. v \in 0..11
  BY MigrationAssumption DEF Latest
<1>2. d.applied = 1..v /\ d.index = IF v < 8 THEN "none" ELSE Promotions
  BY DEF HistoricalDatabase
<1>3. v > 0 => d.width["schema_version"] = 1
  BY ScriptUse DEF HistoricalDatabase
<1> HIDE DEF d
<1>4. d.applied # {} => v > 0
  BY <1>1, <1>2
<1>5. (\E u \in d.applied : u >= 8) => ~(v < 8)
  BY <1>1, <1>2
<1>6. Indexing(d)
  BY <1>2, <1>5 DEF Indexing, Promotions
<1> QED
  BY <1>3, <1>4, <1>6 DEF d

LEMMA TableHolds == Spec => []VersionsHaveTable
<1>1. Init => VersionsHaveTable
  <2> SUFFICES ASSUME Init PROVE VersionsHaveTable
    OBVIOUS
  <2>1. \E v \in StartVersions, f \in [Audit -> EarlySuccessors] :
          db = HistoricalDatabase(v, f)
    BY DEF Init, EarlySuccessors
  <2>2. (db.applied # {} => db.width["schema_version"] > 0) /\ Indexing(db)
    BY <2>1, HistoricalTabled
  <2>3. phase = [p \in Processes |-> "idle"]
    BY DEF Init
  <2> QED
    BY <2>2, <2>3 DEF VersionsHaveTable
<1>2. /\ Typed /\ RowsHeld /\ SchemaKept /\ VersionsHaveTable /\ [Next]_vars
      => VersionsHaveTable'
  BY TableStep
<1>3. Spec => [](Typed /\ RowsHeld /\ SchemaKept)
  BY TypedHolds, RowsHolds, SchemaHolds, PTL
<1> QED
  BY <1>1, <1>2, <1>3, PTL DEF Spec

\* An intact database is neither newer than the program nor corrupt.
LEMMA IntactInspection ==
  ASSUME NEW d \in Databases, Stored(d), Intact(d), Indexing(d),
         d.applied # {} => d.width["schema_version"] > 0
  PROVE  /\ Inspection(d) \notin {"newer", "current_corrupt"}
         /\ Inspection(d) = "current_valid" => Sound(d)
<1>1. Version(d) \in 0..11 /\ Latest = 10 /\ Version(d) <= Latest
      /\ d.width["schema_version"] \in Nat
  BY VersionIs, ScriptUse DEF Latest, Intact, Databases
<1>2. CASE d.width["schema_version"] = 0
  BY <1>2 DEF Inspection
<1>3. CASE d.width["schema_version"] # 0 /\ Version(d) < Latest
  <2>1. Inspection(d) = "older"
    BY <1>1, <1>3 DEF Inspection
  <2> QED
    BY <2>1
<1>4. CASE d.width["schema_version"] # 0 /\ Version(d) = Latest
  <2>1. Sound(d)
    BY <1>4, SoundAtLatest
  <2>2. Inspection(d) = "current_valid"
    BY <1>1, <1>4, <2>1 DEF Inspection
  <2> QED
    BY <2>1, <2>2
<1> QED
  BY <1>1, <1>2, <1>3, <1>4

\* An undisturbed process that found an intact database, at its own step.
LEMMA UnfailingAlone ==
  ASSUME Typed, OwnerRuns, SchemaKept, VersionsHaveTable, NEW h \in Processes,
         Undisturbed(h), Unfailing(h), alone[h], intact[h], Acts(h)
  PROVE  Unfailing(h)'
<1>1. /\ \A l : Goto(h, l) => phase'[h] = l
      /\ db \in Databases /\ pending \in Databases /\ View(h) \in Databases
      /\ at[h] \in DOMAIN Script /\ seen[h] \in Nat /\ Nobody \notin Processes
      /\ Stored(db) /\ Indexing(db)
      /\ db.applied # {} => db.width["schema_version"] > 0
  BY ViewTyped, MigrationAssumption DEF Goto, Typed, SchemaKept, VersionsHaveTable
<1>2. /\ phase[h] # "failed"
      /\ phase[h] \in {"inspect", "backup", "copy", "open", "read"} => Intact(db)
      /\ phase[h] = "run" =>
           content.refused = {} /\ Smooth(at[h], seen[h], View(h))
      /\ phase[h] = "verify" => Sound(db)
      /\ content' = content
  <2>1. content' = content
    BY ContentKept DEF Acts, Next
  <2> QED
    BY <2>1 DEF Unfailing
<1>3. owner \in {h, Nobody} /\ (phase[h] # "run" => owner = Nobody)
  <2>1. Active(h) /\ \A o \in Processes \ {h} : ~Active(o)
    BY ActsIs DEF Undisturbed
  <2> QED
    BY <2>1 DEF OwnerRuns, Typed, Active
<1>4. View(h) = IF owner = h THEN pending ELSE db
  BY DEF View
\* What the successors must satisfy.
<1>5. ASSUME db' = db, Intact(db),
             phase'[h] \in {"inspect", "backup", "copy", "open", "read"}
      PROVE  Unfailing(h)'
  BY <1>2, <1>5 DEF Unfailing, Intact, Version
<1>6. ASSUME phase'[h] \in {"verify", "done"}, Sound(db') PROVE Unfailing(h)'
  BY <1>6 DEF Unfailing, Sound
<1>7. ASSUME phase'[h] = "run", content.refused = {},
             Smooth(at'[h], seen'[h], View(h)')
      PROVE  Unfailing(h)'
  BY <1>2, <1>7 DEF Unfailing
<1>8. CASE Inspect(h) \/ DecideBackup(h)
  <2>1. /\ phase[h] \in {"inspect", "backup"} /\ db' = db
        /\ Inspection(db) \notin {"newer", "current_corrupt"}
        /\ Inspection(db) = "current_valid" => Sound(db)
    BY <1>1, <1>2, <1>8, IntactInspection DEF Inspect, DecideBackup, store
  <2>2. \/ phase'[h] \in {"backup", "open", "copy"}
        \/ phase'[h] = "verify" /\ Inspection(db) = "current_valid"
    <3>1. CASE Inspect(h)
      BY <1>1, <2>1, <3>1 DEF Inspect
    <3>2. CASE DecideBackup(h)
      BY <1>1, <2>1, <3>2 DEF DecideBackup
    <3> QED
      BY <1>8, <3>1, <3>2
  <2>3. CASE phase'[h] \in {"backup", "open", "copy"}
    BY <1>2, <1>5, <2>1, <2>3
  <2>4. CASE phase'[h] = "verify" /\ Inspection(db) = "current_valid"
    BY <1>6, <2>1, <2>4
  <2> QED
    BY <2>2, <2>3, <2>4
<1>9. CASE CopyBackup(h)
  BY <1>1, <1>2, <1>5, <1>9 DEF CopyBackup, store
<1>10. CASE Open(h)
  <2>1. phase[h] = "open" /\ phase'[h] = "read"
    BY <1>1, <1>10 DEF Open
  <2>2. CASE db.width["schema_version"] > 0
    <3>1. db' = db
      BY <1>10, <2>2 DEF Open, store
    <3> QED
      BY <1>2, <1>5, <2>1, <3>1
  <2>3. CASE ~(db.width["schema_version"] > 0)
    <3>1. db' = [db EXCEPT !.width["schema_version"] = 1]
      BY <1>10, <2>3 DEF Open, Autocommit
    <3>2. /\ db'.applied = db.applied
          /\ db'.width[Renamed] = db.width[Renamed]
          /\ db'.width[Promotions] = db.width[Promotions]
      BY <1>1, <3>1, ScriptUse DEF Databases, Promotions, Renamed
    <3>3. Intact(db)'
      BY <1>2, <2>1, <3>2 DEF Intact, Version
    <3> QED
      BY <2>1, <3>3 DEF Unfailing
  <2> QED
    BY <2>2, <2>3
<1>11. CASE ReadVersion(h)
  <2>1. /\ phase[h] = "read" /\ UNCHANGED store /\ seen'[h] = seen[h] /\ Intact(db)
        /\ Version(db) \in 0..11 /\ Version(db) <= Latest /\ Latest = 10
    BY <1>1, <1>2, <1>11, VersionIs DEF ReadVersion, Intact, Latest
  <2>2. Version(db) = Latest => Sound(db)
    BY <1>1, <2>1, SoundAtLatest
  <2>3. \/ Version(db) = Latest /\ Goto(h, Finished(h))
        \/ /\ Version(db) < Latest /\ Goto(h, "run")
           /\ at' = [at EXCEPT ![h] = FirstAfter(Version(db))]
    BY <1>11, <2>1, <2>2 DEF ReadVersion
  <2>4. CASE Version(db) = Latest /\ Goto(h, Finished(h))
    <3>1. phase'[h] \in {"verify", "done"} /\ db' = db
      BY <1>1, <2>1, <2>4 DEF Finished, store
    <3> QED
      BY <1>6, <2>2, <2>4, <3>1
  <2>5. CASE /\ Version(db) < Latest /\ Goto(h, "run")
             /\ at' = [at EXCEPT ![h] = FirstAfter(Version(db))]
    <3>1. phase'[h] = "run" /\ at'[h] = FirstAfter(Version(db)) /\ Version(db) \in 0..9
      BY <1>1, <2>1, <2>5 DEF Typed
    <3>2. View(h)' = db
      BY <1>1, <1>3, <2>1 DEF View, store
    <3>3. Smooth(FirstAfter(Version(db)), seen[h], db)
      BY <1>1, <2>1, <3>1, SmoothAtStart
    <3>4. content.refused = {}
      BY <2>1 DEF Intact
    <3> QED
      BY <1>7, <2>1, <3>1, <3>2, <3>3, <3>4
  <2> QED
    BY <2>3, <2>4, <2>5
<1>12. CASE Execute(h)
  <2> DEFINE i == at[h]
             d == View(h)
  <2>1. /\ phase[h] = "run" /\ phase'[h] = "run"
        /\ i + 1 \in DOMAIN Script /\ at'[h] = i + 1
        /\ seen'[h] = IF Script[i].op = "columns" THEN d.width[Script[i].table] ELSE seen[h]
        /\ View(h)' = Effect(Script[i], d, seen[h])
    BY <1>12, Executed
  <2>2. Smooth(i, seen[h], d) /\ content.refused = {}
    BY <1>2, <2>1
  <2>3. Smooth(i + 1, IF Script[i].op = "columns" THEN d.width[Script[i].table] ELSE seen[h],
               Effect(Script[i], d, seen[h]))
    BY <1>1, <2>1, <2>2, SmoothByEffect
  <2> QED
    BY <1>7, <2>1, <2>2, <2>3
<1>13. CASE Commit(h)
  <2>1. /\ db' = View(h) /\ phase'[h] = Finished(h)
        /\ ~Raises(Script[Len(Script)], View(h), seen[h])
    BY <1>1, <1>13 DEF Commit
  <2>2. Sound(db')
    BY <2>1, ScriptUse DEF Raises
  <2> QED
    BY <1>6, <2>1, <2>2 DEF Finished
<1>14. CASE Raise(h)
  <2>1. phase[h] = "run" /\ Raises(Script[at[h]], View(h), seen[h])
    BY <1>14 DEF Raise
  <2>2. /\ Passed(at[h], seen[h], View(h)) /\ Smooth(at[h], seen[h], View(h))
        /\ content.refused = {}
    BY <1>2, <2>1 DEF SchemaKept
  <2>3. View(h).width["schema_version"] > 0
    <3>1. db.width["schema_version"] > 0
      BY <2>1 DEF VersionsHaveTable
    <3>2. "schema_version" \in Plain /\ "schema_version" \in Tables
      BY ScriptUse DEF Plain, Promotions, Renamed
    <3>3. db.width["schema_version"] <= pending.width["schema_version"]
      BY <3>2 DEF SchemaKept, Grows
    <3>4. db.width["schema_version"] \in Nat /\ pending.width["schema_version"] \in Nat
      BY <1>1, <3>2 DEF Databases
    <3> QED
      BY <1>4, <3>1, <3>3, <3>4
  <2> QED
    BY <1>1, <2>1, <2>2, <2>3, SmoothRuns
<1>15. CASE Locked(h)
  BY <1>3, <1>15 DEF Locked
<1>16. CASE Verify(h)
  <2>1. phase[h] = "verify" /\ db' = db /\ phase'[h] = IF Sound(db) THEN "done" ELSE "failed"
    BY <1>1, <1>16 DEF Verify, store
  <2> QED
    BY <1>2, <1>6, <2>1
<1>17. CASE Crash(h)
  <2>1. phase'[h] = "idle"
    BY <1>1, <1>17 DEF Crash
  <2> QED
    BY <2>1 DEF Unfailing
<1> QED
  BY <1>8, <1>9, <1>10, <1>11, <1>12, <1>13, <1>14, <1>15, <1>16, <1>17 DEF Acts

LEMMA UnfailingStep ==
  ASSUME Typed, OwnerRuns, \A h \in Processes : Undisturbed(h), SchemaKept,
         VersionsHaveTable, \A h \in Processes : Unfailing(h), [Next]_vars
  PROVE  (\A h \in Processes : Unfailing(h))'
<1>1. ASSUME NEW h \in Processes, ~Active(h), phase'[h] = phase[h],
             alone'[h] => alone[h], intact'[h] = intact[h]
      PROVE  Unfailing(h)'
  <2>1. alone[h] /\ intact[h] => phase[h] # "failed"
    BY DEF Unfailing
  <2> QED
    BY <1>1, <2>1 DEF Unfailing, Active
<1>2. ASSUME NEW p \in Processes, Start(p), NEW h \in Processes PROVE Unfailing(h)'
  <2>1. CASE h = p
    <3>1. /\ phase'[h] = (IF h \in Hosts THEN "inspect" ELSE "open")
          /\ intact'[h] = Intact(db) /\ db' = db /\ content' = content
      BY <1>2, <2>1, StartIs DEF store
    <3>2. Intact(db)' = Intact(db)
      BY <3>1 DEF Intact, Version
    <3> QED
      BY <3>1, <3>2 DEF Unfailing
  <2>2. CASE h # p
    <3>1. /\ phase'[h] = phase[h] /\ intact'[h] = intact[h]
          /\ alone'[h] => alone[h] /\ ~Active(h)
      BY <1>2, <2>2, StartIs
    <3>2. CASE alone'[h]
      BY <1>1, <3>1, <3>2
    <3>3. CASE ~alone'[h]
      BY <3>3 DEF Unfailing
    <3> QED
      BY <3>2, <3>3
  <2> QED
    BY <2>1, <2>2
<1>3. ASSUME NEW p \in Processes, Acts(p), NEW h \in Processes PROVE Unfailing(h)'
  <2>1. /\ Active(p) /\ alone' = alone /\ intact' = intact
        /\ Undisturbed(h) /\ Unfailing(h)
        /\ \A q \in Processes \ {p} : phase'[q] = phase[q]
    BY <1>3, ActsIs DEF history
  <2>2. CASE ~(alone[h] /\ intact[h])
    BY <2>1, <2>2 DEF Unfailing
  <2>3. CASE alone[h] /\ intact[h] /\ h # p
    <3>1. ~Active(h) /\ phase'[h] = phase[h]
      BY <2>1, <2>3 DEF Undisturbed
    <3> QED
      BY <1>1, <2>1, <3>1
  <2>4. CASE alone[h] /\ intact[h] /\ h = p
    BY <1>3, <2>1, <2>4, UnfailingAlone
  <2> QED
    BY <2>2, <2>3, <2>4
<1>4. ASSUME UNCHANGED vars, NEW h \in Processes PROVE Unfailing(h)'
  <2>1. Unfailing(h)
    OBVIOUS
  <2>2. /\ db' = db /\ phase' = phase /\ at' = at /\ seen' = seen /\ owner' = owner
        /\ pending' = pending /\ alone' = alone /\ intact' = intact
        /\ content' = content
    BY <1>4 DEF vars, store, local, history
  <2> QED
    BY <2>1, <2>2 DEF Unfailing, Intact, Version, View, Sound
<1> QED
  BY <1>2, <1>3, <1>4 DEF Next, Acts

\* Initialisation can be repeated.  Whatever prefix of the statements a crash
\* left behind, a process that nobody disturbs gets through the rest: a column
\* it did not list is absent, a table it writes to is there, the rebuild of
\* model_promotions follows on a complete one, and the assertion holds.  Only
\* a rebuild that was cut short, a newer version, or rows that a unique index
\* of v10 does not admit stop it.
THEOREM FailuresHaveCause == Spec => []FailureHasCause
<1>1. Init => \A h \in Processes : Unfailing(h)
  <2> SUFFICES ASSUME Init PROVE \A h \in Processes : Unfailing(h)
    OBVIOUS
  <2>1. alone = [p \in Processes |-> FALSE]
    BY DEF Init
  <2> QED
    BY <2>1 DEF Unfailing
<1>2. /\ Typed /\ OwnerRuns /\ (\A h \in Processes : Undisturbed(h)) /\ SchemaKept
      /\ VersionsHaveTable /\ (\A h \in Processes : Unfailing(h)) /\ [Next]_vars
      => (\A h \in Processes : Unfailing(h))'
  BY UnfailingStep
<1>3. Spec => [](/\ Typed /\ OwnerRuns /\ (\A h \in Processes : Undisturbed(h))
                 /\ SchemaKept /\ VersionsHaveTable)
  BY TypedHolds, AloneHolds, SchemaHolds, TableHolds, PTL
<1>4. (\A h \in Processes : Unfailing(h)) => FailureHasCause
  BY DEF Unfailing, FailureHasCause
<1> QED
  BY <1>1, <1>2, <1>3, <1>4, PTL DEF Spec

=============================================================================
