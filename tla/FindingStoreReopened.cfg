SPECIFICATION Spec
CONSTANTS
  r1 = r1
  r2 = r2
  a1 = a1
  a2 = a2
  fp1 = fp1
  fp2 = fp2
  Slots = {0}
  Revisions = {1}
  Fingerprints = {fp1}
  Scores = {60}
  Reach = 1
  Runs = {r1}
  Analysts = {a1, a2}
  MaxChanges = 3
SYMMETRY Symmetry
PROPERTIES
  EndedStaysEnded
