SPECIFICATION Spec
CONSTANTS
  Positions <- MCPositions
  Lines <- MCLines
  DefaultLine = 0
  Offset = 1
  MaxTimeLost = 1
  MaxNew = 1
  Target = 2
  Word = 4
  MaxTracks = 2
  MaxSeq = 2
  MaxSessions = 1
  MaxEpoch = 2
CHECK_DEADLOCK FALSE
INVARIANTS NetIsChangeOfSide CountIsSumOfBags 
 
