CONSTANTS
  r1 = r1
  r2 = r2
  None = None
  Runs = {r1, r2}
  Mine = r1
  MaxIds = 5
  InitPage = 2
  BackendPage = 3
  MaxTries = 2
  MaxOthers = 1
  MaxFaults = 2
SPECIFICATION FairSpec
INVARIANTS PoolsBounded NoNeedlessPool RerunHeals
PROPERTIES AdviceServes
