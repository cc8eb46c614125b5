-------------------------- MODULE FindingStoreProofs --------------------------
(***************************************************************************)
(* Proofs about FindingStore, for every number of runs, analysts, windows  *)
(* and fingerprints: a finding's row summarises its occurrences, an        *)
(* evaluation attaches once, the history of a finding ends in its status,  *)
(* and windows in order do not split an incident.                          *)
(***************************************************************************)
EXTENDS FindingStore, FiniteSetTheorems, SequenceTheorems, TLAPS

\* What is stored refers to findings that exist.
References ==
  /\ IsFiniteSet(occurrences)
  /\ \A o \in occurrences : o.finding \in DOMAIN findings
  /\ \A a \in Analysts : triage[a] # NoTransition =>
       triage[a].finding \in DOMAIN findings

Inv ==
  /\ TypeOK
  /\ References
  /\ FindingSummarisesOccurrences
  /\ EvaluationsAttachOnce
  /\ StatusIsLastLogged
  /\ ActiveFindingsApart

\* FindingSummarisesOccurrences, for one finding.
Summary(f) ==
  LET F == findings[f]
  IN  /\ F.count = Cardinality(OccurrencesOf(f))
      /\ \A o \in OccurrencesOf(f) : /\ o.item.slot \in F.first .. F.last
                                     /\ o.score <= F.score
      /\ \E o \in OccurrencesOf(f) : o.item.slot = F.first
      /\ \E o \in OccurrencesOf(f) : o.item.slot = F.last
      /\ \E o \in OccurrencesOf(f) : o.score = F.score

-----------------------------------------------------------------------------
(***************************************************************************)
(* What the two ways to store a finding, and a transition, do to the rows. *)
(***************************************************************************)
Occurrence(d, f) == [finding |-> f, item |-> d.item, score |-> d.score]

\* A decision has the fields of its type.
LEMMA DecisionFields ==
  ASSUME NEW d \in Decisions
  PROVE  /\ d.item \in Items /\ d.item.slot \in Slots /\ d.item.slot \in Nat
         /\ d.fingerprint \in Fingerprints
         /\ d.score \in Scores /\ d.score \in Nat
         /\ d.status \in {"no_finding", "suppressed", "finding"}
  BY FindingAssumption DEF Decisions, Items, EvaluationStatuses

\* A row of findings has the fields of its type.
LEMMA FindingFields ==
  ASSUME TypeOK, NEW f \in DOMAIN findings
  PROVE  /\ DOMAIN findings = 1 .. Len(findings) /\ Len(findings) \in Nat
         /\ findings[f] \in Findings
         /\ findings[f].fingerprint \in Fingerprints
         /\ findings[f].status \in FindingStatuses
         /\ findings[f].first \in Slots /\ findings[f].first \in Nat
         /\ findings[f].last \in Slots /\ findings[f].last \in Nat
         /\ findings[f].score \in Scores /\ findings[f].score \in Nat
         /\ findings[f].count \in Nat
<1>1. findings \in Seq(Findings) /\ findings[f] \in Findings
  BY ElementOfSeq, LenProperties DEF TypeOK
<1> QED
  BY <1>1, LenProperties, FindingAssumption DEF Findings

\* Open appends one row that summarises one occurrence.
LEMMA Opened ==
  ASSUME TypeOK, NEW d \in Decisions, Open(d)
  PROVE  LET n == Len(findings) + 1
         IN  /\ findings' \in Seq(Findings)
             /\ Len(findings') = n /\ DOMAIN findings' = 1 .. n
             /\ \A f \in DOMAIN findings : findings'[f] = findings[f]
             /\ findings'[n].fingerprint = d.fingerprint
             /\ findings'[n].status = "open"
             /\ findings'[n].first = d.item.slot
             /\ findings'[n].last = d.item.slot
             /\ findings'[n].score = d.score
             /\ findings'[n].count = 1
             /\ occurrences' = occurrences \cup {Occurrence(d, n)}
             /\ log' = Append(log, <<[from |-> "none", to |-> "open"]>>)
<1>1. findings \in Seq(Findings) /\ DOMAIN findings \subseteq Nat
  BY LenProperties DEF TypeOK
<1>2. PICK previous \in IF EndedFindings(d.fingerprint) = {} THEN {0}
                        ELSE Latest(EndedFindings(d.fingerprint)) :
        findings' = Append(findings,
          [fingerprint |-> d.fingerprint, status |-> "open",
           first |-> d.item.slot, last |-> d.item.slot, score |-> d.score,
           count |-> 1, previous |-> previous])
  BY DEF Open
<1>3. previous \in Nat
  BY <1>1, <1>2 DEF Latest, EndedFindings
<1> DEFINE row == [fingerprint |-> d.fingerprint, status |-> "open",
                   first |-> d.item.slot, last |-> d.item.slot,
                   score |-> d.score, count |-> 1, previous |-> previous]
<1>4. row \in Findings
  BY <1>3, DecisionFields DEF Findings, FindingStatuses, Active
<1>5. /\ findings' = Append(findings, row)
      /\ row.fingerprint = d.fingerprint /\ row.status = "open"
      /\ row.first = d.item.slot /\ row.last = d.item.slot
      /\ row.score = d.score /\ row.count = 1
  BY <1>2
<1> HIDE DEF row
<1>6. /\ findings' \in Seq(Findings)
      /\ Len(findings') = Len(findings) + 1
      /\ \A f \in 1 .. Len(findings) : findings'[f] = findings[f]
      /\ findings'[Len(findings) + 1] = row
  BY <1>1, <1>4, <1>5, AppendProperties
<1>7. /\ DOMAIN findings' = 1 .. Len(findings) + 1
      /\ DOMAIN findings = 1 .. Len(findings)
  BY <1>1, <1>6, LenProperties
<1> QED
  BY <1>5, <1>6, <1>7 DEF Open, Occurrence

\* Attach widens one row by one occurrence.
LEMMA Attached ==
  ASSUME TypeOK, NEW d \in Decisions, NEW f \in DOMAIN findings, Attach(d, f)
  PROVE  LET s == d.item.slot
             F == findings[f]
             G == findings'[f]
         IN  /\ findings' \in Seq(Findings)
             /\ Len(findings') = Len(findings)
             /\ DOMAIN findings' = DOMAIN findings
             /\ \A g \in DOMAIN findings : g # f => findings'[g] = findings[g]
             /\ G.fingerprint = F.fingerprint /\ G.status = F.status
             /\ G.first = IF s < F.first THEN s ELSE F.first
             /\ G.last = IF F.last < s THEN s ELSE F.last
             /\ G.score = IF F.score < d.score THEN d.score ELSE F.score
             /\ G.count = F.count + 1
             /\ occurrences' = occurrences \cup {Occurrence(d, f)}
             /\ log' = log
<1> DEFINE s == d.item.slot
           F == findings[f]
           row == [F EXCEPT !.first = IF s < @ THEN s ELSE @,
                            !.last = IF @ < s THEN s ELSE @,
                            !.score = IF @ < d.score THEN d.score ELSE @,
                            !.count = @ + 1]
<1>1. /\ findings \in Seq(Findings) /\ f \in 1 .. Len(findings)
      /\ DOMAIN findings = 1 .. Len(findings) /\ F \in Findings
  BY FindingFields DEF TypeOK
<1>2. findings' = [findings EXCEPT ![f] = row]
  BY DEF Attach
<1>3. row \in Findings
  <2>1. /\ s \in Slots /\ d.score \in Scores
        /\ F.first \in Slots /\ F.last \in Slots /\ F.score \in Scores
        /\ F.count + 1 \in Nat
    BY <1>1, DecisionFields DEF Findings
  <2>2. /\ (IF s < F.first THEN s ELSE F.first) \in Slots
        /\ (IF F.last < s THEN s ELSE F.last) \in Slots
        /\ (IF F.score < d.score THEN d.score ELSE F.score) \in Scores
    BY <2>1
  <2> HIDE DEF s, F
  <2> QED
    BY <1>1, <2>1, <2>2 DEF Findings
<1>4. /\ row.fingerprint = F.fingerprint /\ row.status = F.status
      /\ row.first = IF s < F.first THEN s ELSE F.first
      /\ row.last = IF F.last < s THEN s ELSE F.last
      /\ row.score = IF F.score < d.score THEN d.score ELSE F.score
      /\ row.count = F.count + 1
  BY <1>1 DEF Findings
<1> HIDE DEF row
<1>5. /\ findings' \in Seq(Findings)
      /\ Len(findings') = Len(findings)
      /\ \A g \in 1 .. Len(findings) :
           findings'[g] = IF g = f THEN row ELSE findings[g]
  BY <1>1, <1>2, <1>3, ExceptSeq
<1>6. DOMAIN findings' = 1 .. Len(findings)
  BY <1>5, LenProperties
<1> QED
  BY <1>1, <1>4, <1>5, <1>6 DEF Attach, Occurrence

\* A transition changes one status and adds to one history.
LEMMA Moved ==
  ASSUME TypeOK, References, Len(log) = Len(findings),
         NEW a \in Analysts, Transition(a)
  PROVE  LET t == triage[a]
         IN  /\ t \in Transitions /\ t.finding \in DOMAIN findings
             /\ t.to \in FindingStatuses
             /\ findings' \in Seq(Findings)
             /\ Len(findings') = Len(findings)
             /\ DOMAIN findings' = DOMAIN findings
             /\ \A g \in DOMAIN findings : g # t.finding => findings'[g] = findings[g]
             /\ findings'[t.finding] = [findings[t.finding] EXCEPT !.status = t.to]
             /\ log' \in Seq(Seq(Changes))
             /\ Len(log') = Len(log)
             /\ \A g \in DOMAIN findings : g # t.finding => log'[g] = log[g]
             /\ log'[t.finding] = Append(log[t.finding],
                                         [from |-> t.from, to |-> t.to])
<1> DEFINE t == triage[a]
           f == t.finding
           row == [findings[f] EXCEPT !.status = t.to]
           change == [from |-> t.from, to |-> t.to]
<1>1. t \in Transitions /\ f \in DOMAIN findings
  BY DEF Transition, TypeOK, References
<1>2. /\ findings \in Seq(Findings) /\ f \in 1 .. Len(findings)
      /\ DOMAIN findings = 1 .. Len(findings) /\ findings[f] \in Findings
  BY <1>1, FindingFields DEF TypeOK
<1>3. row \in Findings
  BY <1>1, <1>2 DEF Findings, Transitions
<1>4. findings' = [findings EXCEPT ![f] = row]
  BY DEF Transition
<1>5. log \in Seq(Seq(Changes)) /\ log[f] \in Seq(Changes)
  BY <1>2, ElementOfSeq DEF TypeOK
<1>6. change \in Changes
  BY <1>1 DEF Transitions, Changes
<1>7. Append(log[f], change) \in Seq(Changes)
  BY <1>5, <1>6, AppendProperties
<1>8. log' = [log EXCEPT ![f] = Append(log[f], change)]
  BY DEF Transition
<1> HIDE DEF row, change
<1>9. /\ findings' \in Seq(Findings)
      /\ Len(findings') = Len(findings)
      /\ \A g \in 1 .. Len(findings) :
           findings'[g] = IF g = f THEN row ELSE findings[g]
  BY <1>2, <1>3, <1>4, ExceptSeq
<1>10. /\ log' \in Seq(Seq(Changes))
       /\ Len(log') = Len(log)
       /\ \A g \in 1 .. Len(log) :
            log'[g] = IF g = f THEN Append(log[f], change) ELSE log[g]
  BY <1>2, <1>5, <1>7, <1>8, ExceptSeq
<1>11. DOMAIN findings' = 1 .. Len(findings)
  BY <1>9, LenProperties
<1>12. t.to \in FindingStatuses
  BY <1>1 DEF Transitions
<1> QED
  BY <1>1, <1>2, <1>9, <1>10, <1>11, <1>12 DEF row, change

-----------------------------------------------------------------------------
(***************************************************************************)
(* What the two ways to store a finding preserve.  Stored says what they   *)
(* have in common for the rest of Persist.                                 *)
(***************************************************************************)
\* Persist of a decision for a finding, by a run whose window is still free.
Stored(d) ==
  /\ d \in Decisions /\ d.status = "finding"
  /\ evaluations[d.item] = "none"
  /\ evaluations' = [evaluations EXCEPT ![d.item] = d.status]
  /\ late' = IF OccursLate(d) THEN late \cup {d.fingerprint} ELSE late
  /\ UNCHANGED <<suppressed, triage, reopened>>

\* A window that is still free has no occurrence, and a row that exists is
\* bounded by its occurrences.
LEMMA FreeWindow ==
  ASSUME Inv, NEW d \in Decisions, evaluations[d.item] = "none"
  PROVE  \A o \in occurrences : o.item # d.item
<1>1. d.item \in Items
  BY DecisionFields
<1> QED
  BY <1>1 DEF Inv, EvaluationsAttachOnce

\* A new occurrence: types, references and single attachment.
LEMMA AddOccurrence ==
  ASSUME Inv, NEW d \in Decisions, Stored(d), NEW n \in DOMAIN findings',
         findings' \in Seq(Findings), log' \in Seq(Seq(Changes)),
         DOMAIN findings \subseteq DOMAIN findings',
         occurrences' = occurrences \cup {Occurrence(d, n)},
         deciding' \in [Runs -> Decisions \cup {NoDecision}]
  PROVE  TypeOK' /\ References' /\ EvaluationsAttachOnce'
<1>1. /\ d.item \in Items /\ d.score \in Scores /\ d.fingerprint \in Fingerprints
      /\ d.status \in EvaluationStatuses
  BY DecisionFields DEF EvaluationStatuses
<1>2. n \in Nat
  BY LenProperties
<1>3. Occurrence(d, n) \in Occurrences
  BY <1>1, <1>2 DEF Occurrence, Occurrences
<1>4. evaluations' \in [Items -> EvaluationStatuses]
  BY <1>1 DEF Inv, TypeOK, Stored
<1>5. TypeOK'
  BY <1>1, <1>3, <1>4 DEF Inv, TypeOK, Stored
<1>6. References'
  <2>1. IsFiniteSet(occurrences')
    BY FS_AddElement DEF Inv, References
  <2>2. \A o \in occurrences' : o.finding \in DOMAIN findings'
    BY DEF Inv, References, Occurrence
  <2>3. \A a \in Analysts : triage'[a] # NoTransition =>
          triage'[a].finding \in DOMAIN findings'
    BY DEF Inv, References, Stored
  <2> QED
    BY <2>1, <2>2, <2>3 DEF References
<1>7. EvaluationsAttachOnce'
  <2>1. Occurrence(d, n).item = d.item
    BY DEF Occurrence
  <2>2. \A o, p \in occurrences' : o.item = p.item => o = p
    BY <2>1, FreeWindow DEF Inv, EvaluationsAttachOnce, Stored
  <2>3. ASSUME NEW i \in Items
        PROVE  evaluations'[i] = "finding" <=> \E o \in occurrences' : o.item = i
    <3>1. CASE i = d.item
      BY <1>1, <2>1, <3>1 DEF Stored, Inv, TypeOK
    <3>2. CASE i # d.item
      <4>1. evaluations'[i] = evaluations[i]
        BY <3>2, <1>1 DEF Stored, Inv, TypeOK
      <4>2. (\E o \in occurrences' : o.item = i) <=> (\E o \in occurrences : o.item = i)
        BY <2>1, <3>2
      <4> QED
        BY <4>1, <4>2 DEF Inv, EvaluationsAttachOnce
    <3> QED
      BY <3>1, <3>2
  <2> QED
    BY <2>2, <2>3 DEF EvaluationsAttachOnce
<1> QED
  BY <1>5, <1>6, <1>7

\* The bounds of a row, as its occurrences give them.
LEMMA Bounds ==
  ASSUME Inv, NEW f \in DOMAIN findings
  PROVE  /\ findings[f].first <= findings[f].last
         /\ \A o \in OccurrencesOf(f) : /\ o \in occurrences /\ o.finding = f
                                        /\ o.item.slot \in Nat /\ o.score \in Nat
                                        /\ findings[f].first <= o.item.slot
                                        /\ o.item.slot <= findings[f].last
                                        /\ o.score <= findings[f].score
         /\ \E o \in OccurrencesOf(f) : o.item.slot = findings[f].last
<1>1. /\ findings[f].first \in Nat /\ findings[f].last \in Nat
  BY FindingFields DEF Inv
<1>2. \A o \in OccurrencesOf(f) : /\ o \in occurrences /\ o.finding = f
                                  /\ o.item.slot \in Nat /\ o.score \in Nat
  BY FindingAssumption DEF Inv, TypeOK, OccurrencesOf, Occurrences, Items
<1> QED
  BY <1>1, <1>2 DEF Inv, FindingSummarisesOccurrences

\* If a window does not come late, every row of its fingerprint ends before it.
LEMMA InOrder ==
  ASSUME Inv, NEW d \in Decisions, ~OccursLate(d), NEW f \in DOMAIN findings,
         findings[f].fingerprint = d.fingerprint
  PROVE  findings[f].last <= d.item.slot
<1>1. PICK o \in OccurrencesOf(f) : o.item.slot = findings[f].last
  BY Bounds
<1>2. o \in occurrences /\ o.finding = f /\ o.item.slot \in Nat
  BY Bounds
<1>3. ~(o.item.slot > d.item.slot)
  BY <1>2 DEF OccursLate
<1> QED
  BY <1>1, <1>2, <1>3, DecisionFields

\* Opening a finding keeps the invariant.
LEMMA OpenKeeps ==
  ASSUME Inv, NEW d \in Decisions, Stored(d), Open(d),
         Correlated(d.fingerprint, d.item.slot) = {},
         deciding' \in [Runs -> Decisions \cup {NoDecision}]
  PROVE  Inv'
<1>n. PICK n \in Nat : n = Len(findings) + 1
  BY LenProperties DEF Inv, TypeOK
<1>s. PICK s : s = d.item.slot
  OBVIOUS
<1> DEFINE fp == d.fingerprint
<1>1. /\ findings' \in Seq(Findings)
      /\ Len(findings') = n /\ DOMAIN findings' = 1 .. n
      /\ \A f \in DOMAIN findings : findings'[f] = findings[f]
      /\ findings'[n].fingerprint = fp
      /\ findings'[n].status = "open"
      /\ findings'[n].first = s /\ findings'[n].last = s
      /\ findings'[n].score = d.score /\ findings'[n].count = 1
      /\ occurrences' = occurrences \cup {Occurrence(d, n)}
      /\ log' = Append(log, <<[from |-> "none", to |-> "open"]>>)
  BY <1>n, <1>s, Opened DEF Inv
<1>2. /\ Len(findings) \in Nat /\ DOMAIN findings = 1 .. Len(findings)
      /\ log \in Seq(Seq(Changes)) /\ Len(log) = Len(findings)
  BY LenProperties DEF Inv, TypeOK, StatusIsLastLogged
<1>3. n \in DOMAIN findings' /\ DOMAIN findings' = DOMAIN findings \cup {n}
  BY <1>n, <1>1, <1>2
<1>4. s \in Nat /\ d.score \in Nat
  BY <1>s, DecisionFields
<1> DEFINE h == <<[from |-> "none", to |-> "open"]>>
<1>5. h \in Seq(Changes) /\ Len(h) = 1 /\ h[1].to = "open" /\ h # <<>>
  <2>1. [from |-> "none", to |-> "open"] \in Changes
    BY DEF Changes, FindingStatuses, Active
  <2> QED
    BY <2>1
<1> HIDE DEF h
<1>6. /\ log' \in Seq(Seq(Changes)) /\ Len(log') = n
      /\ \A f \in DOMAIN findings : log'[f] = log[f]
      /\ log'[n] = h
  BY <1>n, <1>1, <1>2, <1>5, AppendProperties DEF h
<1>7. TypeOK' /\ References' /\ EvaluationsAttachOnce'
  BY <1>1, <1>3, <1>6, AddOccurrence
<1>8. StatusIsLastLogged'
  BY <1>n, <1>1, <1>2, <1>3, <1>5, <1>6 DEF Inv, StatusIsLastLogged
<1>9. FindingSummarisesOccurrences'
  <2>1. \A f \in DOMAIN findings : OccurrencesOf(f)' = OccurrencesOf(f)
    BY <1>n, <1>1, <1>2 DEF OccurrencesOf, Occurrence
  <2>2. OccurrencesOf(n)' = {Occurrence(d, n)}
    BY <1>n, <1>1, <1>2 DEF OccurrencesOf, Occurrence, Inv, References
  <2>3. Cardinality(OccurrencesOf(n)') = 1
    BY <2>2, FS_Singleton
  <2>4. Occurrence(d, n).item.slot = s /\ Occurrence(d, n).score = d.score
    BY <1>s DEF Occurrence
  <2>5. ASSUME NEW f \in DOMAIN findings PROVE Summary(f)'
    BY <1>1, <2>1 DEF Inv, FindingSummarisesOccurrences, Summary
  <2>6. Summary(n)'
    BY <1>1, <1>4, <2>2, <2>3, <2>4 DEF Summary
  <2> QED
    BY <1>3, <2>5, <2>6 DEF FindingSummarisesOccurrences, Summary
<1>10. ActiveFindingsApart'
  <2> SUFFICES ASSUME NEW f \in DOMAIN findings', NEW g \in DOMAIN findings',
                      f # g,
                      findings'[f].fingerprint = findings'[g].fingerprint,
                      findings'[f].fingerprint \notin late' \cup reopened',
                      findings'[f].status \in Active,
                      findings'[g].status \in Active
               PROVE  \/ findings'[f].last + Reach < findings'[g].first
                      \/ findings'[g].last + Reach < findings'[f].first
    BY DEF ActiveFindingsApart
  <2>1. late \subseteq late' /\ reopened' = reopened
    BY DEF Stored
  <2>2. ASSUME NEW e \in DOMAIN findings, findings[e].fingerprint = fp,
               findings[e].status \in Active, fp \notin late'
        PROVE  findings[e].last + Reach < s
    <3>1. ~OccursLate(d)
      BY <2>2 DEF Stored
    <3>2. findings[e].last <= s /\ findings[e].first <= findings[e].last
      BY <1>s, <2>2, <3>1, InOrder, Bounds
    <3>3. findings[e].last \in Nat /\ findings[e].first \in Nat /\ Reach \in Nat
      BY FindingFields, FindingAssumption DEF Inv
    <3>4. findings[e].first <= s + Reach
      BY <1>4, <3>2, <3>3
    <3>5. ~(findings[e].last + Reach >= s)
      BY <1>s, <2>2, <3>4 DEF Correlated
    <3> QED
      BY <1>4, <3>3, <3>5
  <2>3. CASE f \in DOMAIN findings /\ g \in DOMAIN findings
    BY <1>1, <2>1, <2>3 DEF Inv, ActiveFindingsApart
  <2>4. CASE f = n /\ g \in DOMAIN findings
    BY <1>1, <2>1, <2>2, <2>4
  <2>5. CASE g = n /\ f \in DOMAIN findings
    BY <1>1, <2>1, <2>2, <2>5
  <2> QED
    BY <1>3, <2>3, <2>4, <2>5
<1> QED
  BY <1>7, <1>8, <1>9, <1>10 DEF Inv

\* Attaching to the latest finding near keeps the invariant.
LEMMA AttachKeeps ==
  ASSUME Inv, NEW d \in Decisions, Stored(d),
         NEW n \in Latest(Correlated(d.fingerprint, d.item.slot)), Attach(d, n),
         deciding' \in [Runs -> Decisions \cup {NoDecision}]
  PROVE  Inv'
<1>s. PICK s : s = d.item.slot
  OBVIOUS
<1> DEFINE fp == d.fingerprint
<1>1. /\ n \in DOMAIN findings
      /\ findings[n].fingerprint = fp /\ findings[n].status \in Active
      /\ findings[n].last + Reach >= s
  BY <1>s DEF Latest, Correlated
<1>2. /\ findings' \in Seq(Findings)
      /\ Len(findings') = Len(findings) /\ DOMAIN findings' = DOMAIN findings
      /\ \A g \in DOMAIN findings : g # n => findings'[g] = findings[g]
      /\ findings'[n].fingerprint = fp
      /\ findings'[n].status = findings[n].status
      /\ findings'[n].first = IF s < findings[n].first THEN s
                              ELSE findings[n].first
      /\ findings'[n].last = IF findings[n].last < s THEN s
                             ELSE findings[n].last
      /\ findings'[n].score = IF findings[n].score < d.score THEN d.score
                              ELSE findings[n].score
      /\ findings'[n].count = findings[n].count + 1
      /\ occurrences' = occurrences \cup {Occurrence(d, n)}
      /\ log' = log
  BY <1>s, <1>1, Attached DEF Inv
<1>3. s \in Nat /\ d.score \in Nat
  BY <1>s, DecisionFields
<1>4. /\ findings[n].first \in Nat /\ findings[n].last \in Nat
      /\ findings[n].score \in Nat /\ findings[n].count \in Nat
  BY <1>1, FindingFields DEF Inv
<1>5. TypeOK' /\ References' /\ EvaluationsAttachOnce'
  BY <1>1, <1>2, AddOccurrence DEF Inv, TypeOK
<1>6. StatusIsLastLogged'
  BY <1>1, <1>2 DEF Inv, StatusIsLastLogged
<1>7. FindingSummarisesOccurrences'
  <2>1. \A f \in DOMAIN findings : f # n => OccurrencesOf(f)' = OccurrencesOf(f)
    BY <1>2 DEF OccurrencesOf, Occurrence
  <2>2. OccurrencesOf(n)' = OccurrencesOf(n) \cup {Occurrence(d, n)}
    BY <1>2 DEF OccurrencesOf, Occurrence
  <2>3. Occurrence(d, n).item.slot = s /\ Occurrence(d, n).score = d.score
    BY <1>s DEF Occurrence
  <2>4. Occurrence(d, n) \notin OccurrencesOf(n) /\ IsFiniteSet(OccurrencesOf(n))
    <3>1. Occurrence(d, n).item = d.item
      BY DEF Occurrence
    <3>2. IsFiniteSet(OccurrencesOf(n))
      BY FS_Subset DEF Inv, References, OccurrencesOf
    <3> QED
      BY <3>1, <3>2, FreeWindow DEF OccurrencesOf, Stored
  <2>5. Cardinality(OccurrencesOf(n)') = Cardinality(OccurrencesOf(n)) + 1
    BY <2>2, <2>4, FS_AddElement
  <2>6. ASSUME NEW f \in DOMAIN findings, f # n PROVE Summary(f)'
    BY <1>2, <2>1, <2>6 DEF Inv, FindingSummarisesOccurrences, Summary
  <2>7. Summary(n)'
    <3>1. Summary(n)
      BY <1>1 DEF Inv, FindingSummarisesOccurrences, Summary
    <3>2. \A o \in OccurrencesOf(n) : o.item.slot \in Nat /\ o.score \in Nat
      BY <1>1, Bounds
    <3>3. findings'[n].count = Cardinality(OccurrencesOf(n)')
      BY <1>2, <2>5, <3>1 DEF Summary
    <3>4. ASSUME NEW o \in OccurrencesOf(n)'
          PROVE  /\ o.item.slot \in findings'[n].first .. findings'[n].last
                 /\ o.score <= findings'[n].score
      <4>1. CASE o = Occurrence(d, n)
        BY <1>2, <1>3, <1>4, <2>3, <4>1
      <4>2. CASE o \in OccurrencesOf(n)
        <5>1. /\ o.item.slot \in Nat /\ o.score \in Nat
              /\ findings[n].first <= o.item.slot
              /\ o.item.slot <= findings[n].last
              /\ o.score <= findings[n].score
          BY <1>1, <4>2, Bounds
        <5> QED
          BY <1>2, <1>3, <1>4, <5>1, SMTT(30)
      <4> QED
        BY <2>2, <4>1, <4>2
    <3>5. \E o \in OccurrencesOf(n)' : o.item.slot = findings'[n].first
      BY <1>2, <1>3, <1>4, <2>2, <2>3, <3>1 DEF Summary
    <3>6. \E o \in OccurrencesOf(n)' : o.item.slot = findings'[n].last
      BY <1>2, <1>3, <1>4, <2>2, <2>3, <3>1 DEF Summary
    <3>7. \E o \in OccurrencesOf(n)' : o.score = findings'[n].score
      BY <1>2, <1>3, <1>4, <2>2, <2>3, <3>1 DEF Summary
    <3> QED
      BY <3>3, <3>4, <3>5, <3>6, <3>7 DEF Summary
  <2> QED
    BY <1>2, <2>6, <2>7 DEF FindingSummarisesOccurrences, Summary
<1>8. ActiveFindingsApart'
  <2> SUFFICES ASSUME NEW f \in DOMAIN findings, NEW g \in DOMAIN findings,
                      f # g,
                      findings'[f].fingerprint = findings'[g].fingerprint,
                      findings'[f].fingerprint \notin late' \cup reopened',
                      findings'[f].status \in Active,
                      findings'[g].status \in Active
               PROVE  \/ findings'[f].last + Reach < findings'[g].first
                      \/ findings'[g].last + Reach < findings'[f].first
    BY <1>2 DEF ActiveFindingsApart
  <2>1. late \subseteq late' /\ reopened' = reopened
    BY DEF Stored
  <2>2. /\ findings[f].fingerprint = findings[g].fingerprint
        /\ findings[f].fingerprint \notin late \cup reopened
        /\ findings[f].status \in Active /\ findings[g].status \in Active
    BY <1>1, <1>2, <2>1
  <2>3. \/ findings[f].last + Reach < findings[g].first
        \/ findings[g].last + Reach < findings[f].first
    BY <2>2 DEF Inv, ActiveFindingsApart
  <2>4. ASSUME NEW e \in DOMAIN findings, e # n, fp \notin late',
               findings[e].fingerprint = fp,
               \/ findings[n].last + Reach < findings[e].first
               \/ findings[e].last + Reach < findings[n].first
        PROVE  findings[e].last + Reach < findings'[n].first
    <3>1. ~OccursLate(d)
      BY <2>4 DEF Stored
    <3>2. findings[e].last <= s /\ findings[n].last <= s
      BY <1>s, <1>1, <2>4, <3>1, InOrder
    <3>3. /\ findings[e].first <= findings[e].last
          /\ findings[n].first <= findings[n].last
      BY <1>1, Bounds
    <3>4. /\ findings[e].first \in Nat /\ findings[e].last \in Nat /\ Reach \in Nat
      BY FindingFields, FindingAssumption DEF Inv
    <3>5. findings'[n].first = findings[n].first
      BY <1>2, <1>3, <1>4, <3>2, <3>3
    <3> QED
      BY <1>1, <1>3, <1>4, <2>4, <3>2, <3>3, <3>4, <3>5
  <2>5. CASE f # n /\ g # n
    BY <1>2, <2>3, <2>5
  <2>6. CASE f = n
    BY <1>1, <1>2, <2>2, <2>3, <2>4, <2>6
  <2>7. CASE g = n
    BY <1>1, <1>2, <2>2, <2>3, <2>4, <2>7
  <2> QED
    BY <2>5, <2>6, <2>7
<1> QED
  BY <1>5, <1>6, <1>7, <1>8 DEF Inv

-----------------------------------------------------------------------------
(***************************************************************************)
(* The steps.                                                              *)
(***************************************************************************)
\* The invariant apart from types does not depend on what is in memory.
LEMMA TablesUnchanged ==
  ASSUME Inv, TypeOK', References', UNCHANGED <<findings, occurrences, log>>,
         late \subseteq late', reopened \subseteq reopened',
         EvaluationsAttachOnce'
  PROVE  Inv'
<1>1. FindingSummarisesOccurrences'
  BY DEF Inv, FindingSummarisesOccurrences, OccurrencesOf
<1>2. StatusIsLastLogged'
  BY DEF Inv, StatusIsLastLogged
<1>3. ActiveFindingsApart'
  BY DEF Inv, ActiveFindingsApart
<1> QED
  BY <1>1, <1>2, <1>3 DEF Inv

\* Persisting a decision keeps the invariant.
LEMMA PersistStep == ASSUME Inv, NEW r \in Runs, Persist(r) PROVE Inv'
<1> DEFINE d == deciding[r]
<1>1. d \in Decisions
  BY DEF Inv, TypeOK, Persist
<1>2. deciding' \in [Runs -> Decisions \cup {NoDecision}]
  BY DEF Inv, TypeOK, Persist
<1>3. UNCHANGED <<suppressed, triage, reopened>>
  BY DEF Persist
<1>4. CASE evaluations[d.item] # "none"
  <2>1. UNCHANGED <<evaluations, findings, occurrences, log, late>>
    BY <1>4 DEF Persist
  <2>2. TypeOK' /\ References'
    BY <1>2, <1>3, <2>1 DEF Inv, TypeOK, References
  <2>3. EvaluationsAttachOnce'
    BY <2>1 DEF Inv, EvaluationsAttachOnce
  <2> QED
    BY <1>3, <2>1, <2>2, <2>3, TablesUnchanged
<1>5. CASE evaluations[d.item] = "none" /\ d.status # "finding"
  <2>1. /\ evaluations' = [evaluations EXCEPT ![d.item] = d.status]
        /\ UNCHANGED <<findings, occurrences, log, late>>
    BY <1>5 DEF Persist
  <2>2. /\ d.item \in Items /\ d.status \in EvaluationStatuses
    BY <1>1, DecisionFields DEF EvaluationStatuses
  <2>3. TypeOK' /\ References'
    BY <1>2, <1>3, <2>1, <2>2 DEF Inv, TypeOK, References
  <2>4. EvaluationsAttachOnce'
    BY <1>5, <2>1, <2>2 DEF Inv, TypeOK, EvaluationsAttachOnce
  <2> QED
    BY <1>3, <2>1, <2>3, <2>4, TablesUnchanged
<1>6. CASE evaluations[d.item] = "none" /\ d.status = "finding"
  <2>1. Stored(d)
    BY <1>1, <1>6 DEF Persist, Stored
  <2>2. \/ /\ Correlated(d.fingerprint, d.item.slot) = {}
           /\ Open(d)
        \/ \E f \in Latest(Correlated(d.fingerprint, d.item.slot)) : Attach(d, f)
    BY <1>6 DEF Persist
  <2> HIDE DEF d
  <2> QED
    BY <1>1, <1>2, <2>1, <2>2, OpenKeeps, AttachKeeps
<1> QED
  BY <1>4, <1>5, <1>6

\* A transition keeps the invariant.
LEMMA TransitionStep == ASSUME Inv, NEW a \in Analysts, Transition(a) PROVE Inv'
<1>t. PICK t : t = triage[a]
  OBVIOUS
<1>f. PICK n : n = t.finding
  OBVIOUS
<1>1. /\ t \in Transitions /\ n \in DOMAIN findings
      /\ t.to \in FindingStatuses
      /\ findings' \in Seq(Findings)
      /\ Len(findings') = Len(findings) /\ DOMAIN findings' = DOMAIN findings
      /\ \A g \in DOMAIN findings : g # n => findings'[g] = findings[g]
      /\ findings'[n] = [findings[n] EXCEPT !.status = t.to]
      /\ log' \in Seq(Seq(Changes)) /\ Len(log') = Len(log)
      /\ \A g \in DOMAIN findings : g # n => log'[g] = log[g]
      /\ log'[n] = Append(log[n], [from |-> t.from, to |-> t.to])
  BY <1>t, <1>f, Moved DEF Inv, StatusIsLastLogged
<1>2. /\ UNCHANGED <<evaluations, occurrences, suppressed, deciding, late>>
      /\ triage' = [triage EXCEPT ![a] = NoTransition]
      /\ reopened' = IF findings[n].status \in Ended /\ t.to \in Active
                       THEN reopened \cup {findings[n].fingerprint}
                       ELSE reopened
  BY <1>t, <1>f DEF Transition
<1>3. findings[n] \in Findings /\ findings[n].fingerprint \in Fingerprints
  BY <1>1, FindingFields DEF Inv
<1>4. /\ findings'[n].fingerprint = findings[n].fingerprint
      /\ findings'[n].first = findings[n].first
      /\ findings'[n].last = findings[n].last
      /\ findings'[n].score = findings[n].score
      /\ findings'[n].count = findings[n].count
      /\ findings'[n].status = t.to
  BY <1>1, <1>3 DEF Findings
<1>5. TypeOK'
  <2>1. triage' \in [Analysts -> Transitions \cup {NoTransition}]
    BY <1>2 DEF Inv, TypeOK
  <2>2. reopened' \subseteq Fingerprints
    BY <1>2, <1>3 DEF Inv, TypeOK
  <2> QED
    BY <1>1, <1>2, <2>1, <2>2 DEF Inv, TypeOK
<1>6. References'
  BY <1>1, <1>2 DEF Inv, TypeOK, References
<1>7. EvaluationsAttachOnce'
  BY <1>2 DEF Inv, EvaluationsAttachOnce
<1>8. FindingSummarisesOccurrences'
  <2>1. ASSUME NEW f \in DOMAIN findings
        PROVE  /\ OccurrencesOf(f)' = OccurrencesOf(f)
               /\ findings'[f].first = findings[f].first
               /\ findings'[f].last = findings[f].last
               /\ findings'[f].score = findings[f].score
               /\ findings'[f].count = findings[f].count
    BY <1>1, <1>2, <1>4 DEF OccurrencesOf
  <2>2. ASSUME NEW f \in DOMAIN findings PROVE Summary(f)'
    <3>1. Summary(f)
      BY DEF Inv, FindingSummarisesOccurrences, Summary
    <3> QED
      BY <2>1, <3>1 DEF Summary
  <2> QED
    BY <1>1, <2>2 DEF FindingSummarisesOccurrences, Summary
<1>9. StatusIsLastLogged'
  <2>1. /\ log \in Seq(Seq(Changes)) /\ DOMAIN findings = 1 .. Len(findings)
        /\ Len(log) = Len(findings)
    BY LenProperties DEF Inv, TypeOK, StatusIsLastLogged
  <2>2. log[n] \in Seq(Changes)
    BY <1>1, <2>1, ElementOfSeq
  <2>3. [from |-> t.from, to |-> t.to] \in Changes
    BY <1>1 DEF Transitions, Changes
  <2>4. PICK row \in Changes : row = [from |-> t.from, to |-> t.to]
    BY <2>3
  <2>5. log'[n] = Append(log[n], row)
    BY <1>1, <2>1, <2>4
  <2>6. /\ Len(log'[n]) = Len(log[n]) + 1 /\ Len(log[n]) \in Nat
        /\ log'[n][Len(log[n]) + 1] = row
    BY <2>2, <2>5, AppendProperties, LenProperties
  <2>7. log'[n] # <<>>
    BY <2>2, <2>5, AppendProperties
  <2>8. log'[n][Len(log'[n])].to = t.to
    BY <2>4, <2>6
  <2> QED
    BY <1>1, <1>4, <2>1, <2>7, <2>8 DEF Inv, StatusIsLastLogged
<1>10. ActiveFindingsApart'
  <2> SUFFICES ASSUME NEW f \in DOMAIN findings, NEW g \in DOMAIN findings,
                      f # g,
                      findings'[f].fingerprint = findings'[g].fingerprint,
                      findings'[f].fingerprint \notin late' \cup reopened',
                      findings'[f].status \in Active,
                      findings'[g].status \in Active
               PROVE  \/ findings'[f].last + Reach < findings'[g].first
                      \/ findings'[g].last + Reach < findings'[f].first
    BY <1>1 DEF ActiveFindingsApart
  <2>1. ASSUME NEW e \in DOMAIN findings
        PROVE  /\ findings'[e].fingerprint = findings[e].fingerprint
               /\ findings'[e].first = findings[e].first
               /\ findings'[e].last = findings[e].last
    BY <1>1, <1>4
  <2>2. ASSUME NEW e \in DOMAIN findings, findings'[e].status \in Active,
               findings[e].fingerprint \notin reopened'
        PROVE  findings[e].status \in Active
    <3>1. CASE e = n
      BY <1>2, <1>3, <1>4, <2>2, <3>1 DEF Findings, FindingStatuses
    <3>2. CASE e # n
      BY <1>1, <2>2, <3>2
    <3> QED
      BY <3>1, <3>2
  <2>3. late' = late /\ reopened \subseteq reopened'
    BY <1>2
  <2>4. findings[f].status \in Active /\ findings[g].status \in Active
    BY <2>1, <2>2
  <2> QED
    BY <2>1, <2>3, <2>4 DEF Inv, ActiveFindingsApart
<1> QED
  BY <1>5, <1>6, <1>7, <1>8, <1>9, <1>10 DEF Inv

\* The steps that write no finding.
LEMMA OtherStep ==
  ASSUME Inv,
         \/ \E r \in Runs : Decide(r) \/ Abandon(r)
         \/ \E a \in Analysts : Check(a)
         \/ \E fp \in Fingerprints : Suppress(fp) \/ Lift(fp)
  PROVE  Inv'
<1>1. UNCHANGED <<evaluations, findings, occurrences, log, late, reopened>>
  BY DEF Decide, Abandon, Check, Suppress, Lift, tables
<1>2. EvaluationsAttachOnce'
  BY <1>1 DEF Inv, EvaluationsAttachOnce
<1>3. TypeOK' /\ References'
  <2>1. CASE \E r \in Runs : Decide(r)
    <3>1. PICK r \in Runs : Decide(r)
      BY <2>1
    <3>2. deciding' \in [Runs -> Decisions \cup {NoDecision}]
      BY <3>1 DEF Decide, Inv, TypeOK, Decisions, EvaluationStatuses
    <3> QED
      BY <1>1, <3>1, <3>2 DEF Decide, tables, Inv, TypeOK, References
  <2>2. CASE \E r \in Runs : Abandon(r)
    <3>1. PICK r \in Runs : Abandon(r)
      BY <2>2
    <3> QED
      BY <1>1, <3>1 DEF Abandon, tables, Inv, TypeOK, References
  <2>3. CASE \E a \in Analysts : Check(a)
    <3>1. PICK a \in Analysts : Check(a)
      BY <2>3
    <3>f. PICK f \in DOMAIN findings :
            \E to \in Allowed(findings[f].status) :
              triage' = [triage EXCEPT ![a] =
                [finding |-> f, from |-> findings[f].status, to |-> to]]
      BY <3>1 DEF Check
    <3>2. PICK to \in Allowed(findings[f].status) :
            triage' = [triage EXCEPT ![a] =
              [finding |-> f, from |-> findings[f].status, to |-> to]]
      BY <3>f
    <3>3. f \in Nat /\ findings[f].status \in FindingStatuses
      BY FindingFields DEF Inv
    <3>4. to \in FindingStatuses
      BY <3>3 DEF Allowed, FindingStatuses, Active, Ended
    <3> DEFINE t == [finding |-> f, from |-> findings[f].status, to |-> to]
    <3>5. t \in Transitions /\ t.finding = f
      BY <3>3, <3>4 DEF Transitions
    <3> HIDE DEF t
    <3>6. triage' = [triage EXCEPT ![a] = t]
      BY <3>2 DEF t
    <3> QED
      BY <1>1, <3>1, <3>5, <3>6 DEF Check, tables, Inv, TypeOK, References
  <2>4. CASE \E fp \in Fingerprints : Suppress(fp) \/ Lift(fp)
    BY <1>1, <2>4 DEF Suppress, Lift, Inv, TypeOK, References
  <2> QED
    BY <2>1, <2>2, <2>3, <2>4
<1> QED
  BY <1>1, <1>2, <1>3, TablesUnchanged

\* The invariant holds at first.
LEMMA InitInv == Init => Inv
<1> SUFFICES ASSUME Init PROVE Inv
  OBVIOUS
<1>1. TypeOK
  BY EmptySeq DEF Init, TypeOK, EvaluationStatuses
<1>2. References
  BY FS_EmptySet DEF Init, References
<1>3. FindingSummarisesOccurrences /\ StatusIsLastLogged /\ ActiveFindingsApart
  BY DEF Init, FindingSummarisesOccurrences, StatusIsLastLogged,
         ActiveFindingsApart
<1>4. EvaluationsAttachOnce
  BY DEF Init, EvaluationsAttachOnce
<1> QED
  BY <1>1, <1>2, <1>3, <1>4 DEF Inv

\* Every reachable state satisfies the invariant.
LEMMA Invariance == Spec => []Inv
<1>1. Inv /\ [Next]_vars => Inv'
  <2> SUFFICES ASSUME Inv, [Next]_vars PROVE Inv'
    OBVIOUS
  <2>1. CASE UNCHANGED vars
    <3>1. UNCHANGED <<findings, occurrences, log, late, reopened>>
      BY <2>1 DEF vars, tables
    <3>2. TypeOK' /\ References'
      BY <2>1 DEF vars, tables, Inv, TypeOK, References
    <3>3. EvaluationsAttachOnce'
      BY <2>1 DEF vars, tables, Inv, EvaluationsAttachOnce
    <3> QED
      BY <3>1, <3>2, <3>3, TablesUnchanged
  <2>2. CASE Next
    BY <2>2, PersistStep, TransitionStep, OtherStep DEF Next
  <2> QED
    BY <2>1, <2>2
<1> QED
  BY <1>1, InitInv, PTL DEF Spec

-----------------------------------------------------------------------------
\* Type correctness.
THEOREM TypeCorrect == Spec => []TypeOK
<1>1. Inv => TypeOK
  BY DEF Inv
<1> QED
  BY <1>1, Invariance, PTL

\* The row of a finding is the summary of its occurrences.
THEOREM RowsAreSummaries == Spec => []FindingSummarisesOccurrences
<1>1. Inv => FindingSummarisesOccurrences
  BY DEF Inv
<1> QED
  BY <1>1, Invariance, PTL

\* Every evaluation that is a finding's has one occurrence, no other has one.
THEOREM SingleAttachment == Spec => []EvaluationsAttachOnce
<1>1. Inv => EvaluationsAttachOnce
  BY DEF Inv
<1> QED
  BY <1>1, Invariance, PTL

\* The history of a finding ends where the finding is.
THEOREM HistoryEndsInStatus == Spec => []StatusIsLastLogged
<1>1. Inv => StatusIsLastLogged
  BY DEF Inv
<1> QED
  BY <1>1, Invariance, PTL

\* Windows in order do not split an incident between active findings.
THEOREM IncidentsAreNotSplit == Spec => []ActiveFindingsApart
<1>1. Inv => ActiveFindingsApart
  BY DEF Inv
<1> QED
  BY <1>1, Invariance, PTL
=============================================================================
