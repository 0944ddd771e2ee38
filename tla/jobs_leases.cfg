SPECIFICATION FairSpec
CONSTANTS
  Workers     = {w1, w2}
  Crashable   = {w1}
  MaxJobs     = 2
  GpuJobs     <- SecondOnly
  MaxAttempts = 2
  MaxSessions = 1
CHECK_DEADLOCK FALSE
INVARIANTS
  OneHolder
  
PROPERTIES
  
  JobsSettle
