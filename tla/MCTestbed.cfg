SPECIFICATION MCSpec
CONSTANTS
  Pid = {1, 2, 3}
  Script = {1, 2}
  Workers = {"w0", "p0", "p1", "d0"}
  Services <- MCServices
  Others = {"monitor"}
  Configs <- MCConfigs
  Edits <- MCEdits
  MaxInvocations = 3
  MaxForks = 3
  MaxFaults = 1
  MaxPolls = 1
INVARIANTS
  TypesOK
  PolledWhereItListens
  
  
  CachesFollowWatch
PROPERTIES
  SparesOthers
  MeasuresWhatRuns
  StagesInOrder
  Finishes
CONSTRAINT FewSteps
CHECK_DEADLOCK FALSE
