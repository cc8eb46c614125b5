------------------------------ MODULE FindingStore ------------------------------
(***************************************************************************)
(* Findings: how stored evaluations become occurrences of findings         *)
(* (SQLiteStorage.persist_detection_evaluation_atomic), how analysts move  *)
(* findings through their statuses (DetectionService.transition_finding),  *)
(* and how suppressions keep evaluations from becoming findings            *)
(* (_decide_window, create_suppression, revoke_suppression).               *)
(*                                                                         *)
(* Several runs evaluate at a time and several analysts triage: a call     *)
(* reads in one step and writes in another wherever the code has no        *)
(* transaction around both.                                                *)
(*                                                                         *)
(* A window is its start, a number of slots; a revision of a window has    *)
(* other features.  Finding ids are positions in the sequence findings.    *)
(***************************************************************************)
EXTENDS Naturals, Sequences, FiniteSets

CONSTANTS
  Slots,        \* window starts
  Revisions,    \* contents of a window
  Fingerprints,
  Scores,       \* detection scores of decisions that reach the threshold
  Reach,        \* the 60 minutes of correlation, in slots
  Runs,         \* detection runs in progress
  Analysts,     \* calls of transition_finding in progress
  MaxChanges    \* bound: history entries after which a finding gets no new call

ASSUME FindingAssumption ==
  /\ Slots \subseteq Nat /\ Scores \subseteq Nat /\ Reach \in Nat
  /\ MaxChanges \in Nat
  /\ IsFiniteSet(Slots) /\ IsFiniteSet(Revisions)

VARIABLES
  evaluations, \* detection_evaluations: the status of every identity
  findings,    \* findings
  occurrences, \* finding_occurrences
  log,         \* finding_state_history, per finding
  suppressed,  \* fingerprints under an active, unexpired suppression
  deciding,    \* the decision every run holds, not yet persisted
  triage,      \* the transition every analyst's call holds, not yet written
  late,        \* history: fingerprints that got a window after a later one
  reopened     \* history: fingerprints with a finding taken out of an end status

tables == <<evaluations, findings, occurrences, log, suppressed>>
vars == <<tables, deciding, triage, late, reopened>>

Items == [slot : Slots, revision : Revisions]

EvaluationStatuses == {"none", "no_finding", "suppressed", "finding"}
Ended == {"resolved", "false_positive"} \* END_FINDING_STATUSES
Active == {"open", "acknowledged", "investigating", "suppressed"}
FindingStatuses == Active \cup Ended

\* Variant: new findings may get a status that their readers do not know.
AllowedClosed(status) ==
  CASE status = "open" -> (Active \cup Ended \cup {"closed"}) \ {"open"}
    [] status = "acknowledged" -> {"investigating", "suppressed"} \cup Ended
    [] status = "investigating" -> {"acknowledged", "suppressed"} \cup Ended
    [] status = "suppressed" -> {"open"} \cup Ended
    [] OTHER -> {}

\* The table allowed of transition_finding.
Allowed(status) ==
  CASE status = "open" -> (Active \cup Ended) \ {"open"}
    [] status = "acknowledged" -> {"investigating", "suppressed"} \cup Ended
    [] status = "investigating" -> {"acknowledged", "suppressed"} \cup Ended
    [] status = "suppressed" -> {"open"} \cup Ended
    [] OTHER -> {}

Findings == [fingerprint : Fingerprints, status : FindingStatuses,
             first : Slots, last : Slots, score : Scores, count : Nat,
             previous : Nat]  \* related_previous_finding_id, 0 for NULL
Occurrences == [finding : Nat, item : Items, score : Scores]
Changes == [from : FindingStatuses \cup {"none"}, to : FindingStatuses]

NoDecision == [status |-> "none"]
Decisions == [status : EvaluationStatuses \ {"none"}, item : Items,
              fingerprint : Fingerprints, score : Scores]
NoTransition == [to |-> "none"]
Transitions == [finding : Nat, from : FindingStatuses, to : FindingStatuses]

Init ==
  /\ evaluations = [i \in Items |-> "none"]
  /\ findings = <<>>
  /\ occurrences = {}
  /\ log = <<>>
  /\ suppressed = {}
  /\ deciding = [r \in Runs |-> NoDecision]
  /\ triage = [a \in Analysts |-> NoTransition]
  /\ late = {}
  /\ reopened = {}

-----------------------------------------------------------------------------
(***************************************************************************)
(* Evaluating.                                                             *)
(***************************************************************************)
\* _suppression_for: an active suppression of this fingerprint.
SuppressionFor(fp) == fp \in suppressed

\* _decide_window for a pending window: the rules and the model decide, and
\* the active suppressions are read, before any transaction.
Decide(r) ==
  /\ deciding[r] = NoDecision
  /\ \E i \in Items, fp \in Fingerprints, n \in Scores,
        matched \in BOOLEAN :
       /\ evaluations[i] = "none"
       /\ deciding' = [deciding EXCEPT ![r] =
            [status |-> IF ~matched THEN "no_finding"
                        ELSE IF SuppressionFor(fp) THEN "suppressed"
                        ELSE "finding",
             item |-> i, fingerprint |-> fp, score |-> n]]
  /\ UNCHANGED <<tables, triage, late, reopened>>

\* Variant: the reach is measured from the first window alone.
CorrelatedFromFirst(fp, s) ==
  {f \in DOMAIN findings : /\ findings[f].fingerprint = fp
                           /\ findings[f].status \in Active
                           /\ findings[f].first <= s + Reach
                           /\ findings[f].first + Reach >= s}

\* The active findings whose span comes within Reach of slot s.
Correlated(fp, s) ==
  {f \in DOMAIN findings : /\ findings[f].fingerprint = fp
                           /\ findings[f].status \in Active
                           /\ findings[f].first <= s + Reach
                           /\ findings[f].last + Reach >= s}

\* ORDER BY last_seen_at DESC LIMIT 1: any of the last ones.
Latest(F) == {f \in F : \A g \in F : findings[g].last <= findings[f].last}

EndedFindings(fp) == {f \in DOMAIN findings : /\ findings[f].fingerprint = fp
                                              /\ findings[f].status \in Ended}

\* Variant: windows are taken to come in order.
AttachInOrder(d, f) ==
  /\ findings' = [findings EXCEPT ![f] =
       [findings[f] EXCEPT !.last = d.item.slot,
                           !.score = IF @ < d.score THEN d.score ELSE @,
                           !.count = @ + 1]]
  /\ occurrences' = occurrences \cup
       {[finding |-> f, item |-> d.item, score |-> d.score]}
  /\ UNCHANGED log

\* Variant: a finding that takes a window in is open again.
AttachReopens(d, f) ==
  LET s == d.item.slot
  IN  /\ findings' = [findings EXCEPT ![f] =
           [findings[f] EXCEPT !.first = IF s < @ THEN s ELSE @,
                               !.last = IF @ < s THEN s ELSE @,
                               !.score = IF @ < d.score THEN d.score ELSE @,
                               !.count = @ + 1,
                               !.status = "open"]]
      /\ occurrences' = occurrences \cup
           {[finding |-> f, item |-> d.item, score |-> d.score]}
      /\ UNCHANGED log

\* An existing finding takes the decision in as an occurrence.
Attach(d, f) ==
  LET s == d.item.slot
  IN  /\ findings' = [findings EXCEPT ![f] =
           [findings[f] EXCEPT !.first = IF s < @ THEN s ELSE @,
                               !.last = IF @ < s THEN s ELSE @,
                               !.score = IF @ < d.score THEN d.score ELSE @,
                               !.count = @ + 1]]
      /\ occurrences' = occurrences \cup
           {[finding |-> f, item |-> d.item, score |-> d.score]}
      /\ UNCHANGED log

\* No active finding is near: a new one is opened, with its history, and
\* points to the latest one that was ended.
Open(d) ==
  /\ \E previous \in IF EndedFindings(d.fingerprint) = {} THEN {0}
                     ELSE Latest(EndedFindings(d.fingerprint)) :
       findings' = Append(findings,
         [fingerprint |-> d.fingerprint, status |-> "open",
          first |-> d.item.slot, last |-> d.item.slot, score |-> d.score,
          count |-> 1, previous |-> previous])
  /\ occurrences' = occurrences \cup
       {[finding |-> Len(findings) + 1, item |-> d.item, score |-> d.score]}
  /\ log' = Append(log, <<[from |-> "none", to |-> "open"]>>)

OccursLate(d) ==
  \E o \in occurrences : /\ findings[o.finding].fingerprint = d.fingerprint
                         /\ o.item.slot > d.item.slot

\* Variant: whether the identity was stored since is not tested.
PersistAgain(r) ==
  LET d == deciding[r]
  IN  /\ d # NoDecision
      /\ deciding' = [deciding EXCEPT ![r] = NoDecision]
      /\ evaluations' = [evaluations EXCEPT ![d.item] = d.status]
      /\ IF d.status # "finding"
           THEN UNCHANGED <<findings, occurrences, log, late>>
           ELSE LET near == Correlated(d.fingerprint, d.item.slot)
                IN /\ \/ near = {} /\ Open(d)
                      \/ \E f \in Latest(near) : Attach(d, f)
                   /\ late' = IF OccursLate(d) THEN late \cup {d.fingerprint}
                                               ELSE late
      /\ UNCHANGED <<suppressed, triage, reopened>>

\* persist_detection_evaluation_atomic, one BEGIN IMMEDIATE transaction.  The
\* identity may have been stored by another run since: nothing happens then.
Persist(r) ==
  LET d == deciding[r]
  IN  /\ d # NoDecision
      /\ deciding' = [deciding EXCEPT ![r] = NoDecision]
      /\ IF evaluations[d.item] # "none"
           THEN UNCHANGED <<evaluations, findings, occurrences, log, late>>
           ELSE /\ evaluations' = [evaluations EXCEPT ![d.item] = d.status]
                /\ IF d.status # "finding"
                     THEN UNCHANGED <<findings, occurrences, log, late>>
                     ELSE LET near == Correlated(d.fingerprint, d.item.slot)
                          IN /\ \/ near = {} /\ Open(d)
                                \/ \E f \in Latest(near) : Attach(d, f)
                             /\ late' = IF OccursLate(d)
                                          THEN late \cup {d.fingerprint}
                                          ELSE late
      /\ UNCHANGED <<suppressed, triage, reopened>>

\* The run's process dies between the two.
Abandon(r) ==
  /\ deciding[r] # NoDecision
  /\ deciding' = [deciding EXCEPT ![r] = NoDecision]
  /\ UNCHANGED <<tables, triage, late, reopened>>

-----------------------------------------------------------------------------
(***************************************************************************)
(* Triage.                                                                 *)
(***************************************************************************)
\* transition_finding reads the status and checks it against the table in
\* autocommit mode; a refused call changes nothing.
Check(a) ==
  /\ triage[a] = NoTransition
  /\ \E f \in DOMAIN findings :
       /\ Len(log[f]) < MaxChanges
       /\ \E to \in Allowed(findings[f].status) :
            triage' = [triage EXCEPT ![a] =
              [finding |-> f, from |-> findings[f].status, to |-> to]]
  /\ UNCHANGED <<tables, deciding, late, reopened>>

\* BEGIN IMMEDIATE: status and history, with the status that was read.
Transition(a) ==
  LET t == triage[a]
  IN  /\ t # NoTransition
      /\ findings' = [findings EXCEPT ![t.finding].status = t.to]
      /\ log' = [log EXCEPT ![t.finding] =
                   Append(@, [from |-> t.from, to |-> t.to])]
      /\ reopened' = IF findings[t.finding].status \in Ended /\ t.to \in Active
                       THEN reopened \cup {findings[t.finding].fingerprint}
                       ELSE reopened
      /\ triage' = [triage EXCEPT ![a] = NoTransition]
      /\ UNCHANGED <<evaluations, occurrences, suppressed, deciding, late>>

\* create_suppression for a fingerprint.
Suppress(fp) ==
  /\ suppressed' = suppressed \cup {fp}
  /\ UNCHANGED <<evaluations, findings, occurrences, log, deciding, triage,
                 late, reopened>>

\* revoke_suppression, or expires_at passes.
Lift(fp) ==
  /\ suppressed' = suppressed \ {fp}
  /\ UNCHANGED <<evaluations, findings, occurrences, log, deciding, triage,
                 late, reopened>>

Next ==
  \/ \E r \in Runs : Decide(r) \/ Persist(r) \/ Abandon(r)
  \/ \E a \in Analysts : Check(a) \/ Transition(a)
  \/ \E fp \in Fingerprints : Suppress(fp) \/ Lift(fp)

Spec == Init /\ [][Next]_vars

-----------------------------------------------------------------------------
(***************************************************************************)
(* Properties.                                                             *)
(***************************************************************************)
\* Every variable has its type.
TypeOK ==
  /\ evaluations \in [Items -> EvaluationStatuses]
  /\ findings \in Seq(Findings)
  /\ occurrences \subseteq Occurrences
  /\ log \in Seq(Seq(Changes))
  /\ suppressed \subseteq Fingerprints
  /\ deciding \in [Runs -> Decisions \cup {NoDecision}]
  /\ triage \in [Analysts -> Transitions \cup {NoTransition}]
  /\ late \subseteq Fingerprints
  /\ reopened \subseteq Fingerprints

OccurrencesOf(f) == {o \in occurrences : o.finding = f}

\* The row of a finding is the summary of its occurrences: occurrence_count
\* counts them, first_seen_at, last_seen_at and detection_score are attained
\* by some of them and bound all of them, whatever order the windows came in
\* and whatever analysts did meanwhile.
FindingSummarisesOccurrences ==
  \A f \in DOMAIN findings :
    LET F == findings[f]
    IN  /\ F.count = Cardinality(OccurrencesOf(f))
        /\ \A o \in OccurrencesOf(f) : /\ o.item.slot \in F.first .. F.last
                                       /\ o.score <= F.score
        /\ \E o \in OccurrencesOf(f) : o.item.slot = F.first
        /\ \E o \in OccurrencesOf(f) : o.item.slot = F.last
        /\ \E o \in OccurrencesOf(f) : o.score = F.score

\* An evaluation is a finding's exactly when it has an occurrence, and it has
\* one occurrence in all, even if two runs decided it at the same time.
EvaluationsAttachOnce ==
  /\ \A o, p \in occurrences : o.item = p.item => o = p
  /\ \A i \in Items : evaluations[i] = "finding" <=> \E o \in occurrences : o.item = i

\* The history of a finding ends where the finding is: no transition, however
\* it races with others, changes a status without its history or the reverse.
StatusIsLastLogged ==
  /\ Len(log) = Len(findings)
  /\ \A f \in DOMAIN findings :
       log[f] # <<>> /\ log[f][Len(log[f])].to = findings[f].status

\* Windows in order do not split an incident: two findings of a fingerprint are
\* active together only when they are more than the correlation reach apart,
\* unless a window came late or a finished finding was taken back.
ActiveFindingsApart ==
  \A f, g \in DOMAIN findings :
    /\ f # g
    /\ findings[f].fingerprint = findings[g].fingerprint
    /\ findings[f].fingerprint \notin late \cup reopened
    /\ findings[f].status \in Active /\ findings[g].status \in Active
    => \/ findings[f].last + Reach < findings[g].first
       \/ findings[g].last + Reach < findings[f].first

\* "Resolved and false-positive findings are not silently reopened."
EndedStaysEnded ==
  [][\A f \in DOMAIN findings :
       findings[f].status \in Ended => findings'[f].status = findings[f].status]_vars
=============================================================================
