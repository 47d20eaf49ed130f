SPECIFICATION ReportsSpec
CONSTANTS
  None = None
  Requests = {"a1", "a2", "a3", "ta", "b1", "c1"}
  Session <- MCSession
  Before <- MCBefore
  Text <- MCText
  Workers <- MCWorkers
  Role <- MCRole
  Plans <- MCPlans
  Bounds <- MCBounds
  Quantiles <- MCQuantiles
  MinFrac <- MCMinFrac
  MinChars = 2
  TokenChars = 2
  Interval = 1
  MaxNow = 3
  MaxTicks = 2
  Gpus = {0, 1}
  GpuRole <- MCGpuRole
  Gauges = {1, 4}
  MaxReadings = 3
  Scale = 12
  Out = {o1, o2}
  Instance = {1, 2}
  Tested = {1}
  MaxInvocations = 2
  MaxSamples = 3
  MaxReports = 1
SYMMETRY Symmetry
INVARIANTS
  
  CountersTrue
  
  ResourcesTrue
  ChainsAreSessions
  
  ReportIsOfItsRun
CHECK_DEADLOCK FALSE
