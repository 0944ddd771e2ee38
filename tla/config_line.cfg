SPECIFICATION FairSpec
CONSTANTS
  Threads     = {t1, t2}
  Payloads    <- GoodAndBad
  Rois        = {1}
  Stages      = {"scale", "perspective"}
  MaxRequests = 4
CHECK_DEADLOCK FALSE
INVARIANTS
  SomethingInForce
  
  WorkerRunsWhatItStamps
PROPERTY
  WorkerCatchesUp
