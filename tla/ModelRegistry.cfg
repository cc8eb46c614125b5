SPECIFICATION Spec
CONSTANTS
  t1 = t1
  t2 = t2
  o1 = o1
  o2 = o2
  ae = ae
  forest = forest
  NoModel = NoModel
  Trainings = {t1, t2}
  Families = {ae, forest}
  Operators = {o1}
  MaxAudits = 3
SYMMETRY Symmetry
INVARIANTS
  TypeOK
  TrainingsApart
  ChampionIsUsable
  FailedLeavesNothing
  AuditNamesChampion
CHECK_DEADLOCK FALSE
