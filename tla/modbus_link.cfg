SPECIFICATION FairSpec
CONSTANTS
  Callers    = {t1, t2}
  Cells      = {x1}
  LastId     = 2
  MaxRetries = 2
  MaxConns   = 2
  MaxSent    = 3
  None       = None
CHECK_DEADLOCK FALSE
INVARIANTS OpenSocketIsQuiet ConfirmedIsHeld
PROPERTIES AnswersAreCurrent LockIsReleased
