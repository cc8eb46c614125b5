SPECIFICATION Spec
CONSTANTS
  h1 = h1
  c1 = c1
  a1 = a1
  a2 = a2
  Nobody = Nobody
  Hosts = {h1}
  Tools = {c1}
  StartVersions = {0, 2, 7, 9, 11}
  Refusals = {{}, {"idx_running_detection_namespace"}}
  Audit = {a1}
  Keep = 1
  MaxStarts = 2
INVARIANTS
  TypeOK
  CurrentSchemaIsComplete
  FailureHasCause
  BackupHoldsOldDatabase
PROPERTIES
  AuditRowsKept
CHECK_DEADLOCK FALSE
