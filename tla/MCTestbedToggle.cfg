SPECIFICATION MCSpec
CONSTANTS
  Pid = {1, 2, 3}
  Script = {1, 2}
  Workers = {"w0", "p0", "p1", "d0"}
  Services <- MCServices
  Others = {"monitor"}
  Configs <- MCConfigs
  Edits <- MCEdits
  MaxInvocations = 1
  MaxForks = 3
  MaxFaults = 0
  MaxPolls = 1
INVARIANT TogglesAsDocumented
CHECK_DEADLOCK FALSE
