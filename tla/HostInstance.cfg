SPECIFICATION FairSpec
CONSTANTS
  h1 = h1
  h2 = h2
  h3 = h3
  NoHost = NoHost
  Hosts = {h1, h2, h3}
INVARIANTS
  TypeOK
  SingleOwnerUnlessOvertaken
  DeadStatusMeansCrash
PROPERTIES
  ShutdownIsObeyed
CHECK_DEADLOCK FALSE
