SPECIFICATION FairSpec
CONSTANTS
  w1 = w1
  w2 = w2
  f1 = f1
  s1 = s1
  NoWorker = NoWorker
  Workers = {w1, f1}
  Managed = {w1}
  Stoppers = {}
  HeartbeatMayDie = FALSE
PROPERTIES
  SupersededWorkerEnds
  StopRequestIsObeyed
