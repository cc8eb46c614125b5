SPECIFICATION Spec
CONSTANTS
  r1 = r1
  r2 = r2
  a1 = a1
  a2 = a2
  fp1 = fp1
  fp2 = fp2
  Slots = {0, 1, 2}
  Revisions = {1}
  Fingerprints = {fp1}
  Scores = {60, 80}
  Reach = 1
  Runs = {r1, r2}
  Analysts = {a1}
  MaxChanges = 2
SYMMETRY Symmetry
INVARIANTS
  TypeOK
  FindingSummarisesOccurrences
  EvaluationsAttachOnce
  ActiveFindingsApart
  StatusIsLastLogged
