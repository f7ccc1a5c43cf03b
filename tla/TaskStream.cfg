CONSTANTS
  n1 = n1  n2 = n2  t1 = t1  s1 = s1  h1 = h1
  None = None
  Configs <- MCConfigs
  Profiles <- MCProfiles
  Latest = 2
  MaxFaults = 1
  Nodes = {n1, n2}
  Tasks = {t1}
  Streams = {s1}
  Handlers = {h1}
  Kinds = {"gradient_agg"}
  Rewards = {10}
  Uptimes = {150}
  Faults = {"db", "redis"}
  MaxRegistrations = 2
  MaxResults = 1
SPECIFICATION FairSpec
CHECK_DEADLOCK FALSE
INVARIANTS StreamTypeOK ServesMigrated ConfigSuffices OfferIsKept AssigneeIsFit
PROPERTIES ImplementsBoard RunningEnds
