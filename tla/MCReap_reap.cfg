CONSTANTS
  t1 = t1
  Pids = {1, 2}
  Terminals = {t1}
  Directories = {d1}
  NoPlace = NoPlace
  Callers <- MCCallers
  Flags <- MCFlags
  Windows = {1, 2}
  MinIdle = 2
  MaxTime = 2
  MaxEpoch = 1
SPECIFICATION FairSpec
INVARIANTS TypeOK IInv
PROPERTIES SparesOurs SparesTheBusy SparesTheCurrent AgentRefreshes
