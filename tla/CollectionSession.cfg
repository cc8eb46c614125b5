SPECIFICATION Spec
CONSTANTS
  host = host
  cli = cli
  Processes = {host, cli}
  Selections <- SomeSelections
  Pids = {4}
  Births = {1, 2, 3}
  Connections = {135}
  Unconnected = {135}
  Oversized <- SomeOversized
  Ignored = {}
  MaxRecords = 1
  MaxSessions = 2
  MaxFaults = 1
INVARIANTS
  TypeOK
  NothingLost
PROPERTIES
  StopIsObeyed
  SessionLedgerSpec
