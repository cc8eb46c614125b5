SPECIFICATION FairSpec
CONSTANTS
  b1 = b1
  r1 = r1
  m1 = m1
  m2 = m2
  NoModel = NoModel
  NoRun = NoRun
  Runs = {b1, r1}
  Backfills = {b1}
  BasePolicies = {"hybrid"}
  WindowCount = 2
  Hashes = 1
  Models = {m1, m2}
  Explicit = {}
  BatchSize = 2
  MaxWindows = 1
  Poison = {2}
  Flaky = {}
INVARIANTS
  TypeOK
  CountersMatchLedger
  NamespacesDisjoint
PROPERTIES
  LedgerSpec
  SuccessCoversWindows
  RunTerminates
