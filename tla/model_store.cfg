SPECIFICATION StoreSpec
CONSTANTS
  Runners   = {r1, r2}
  Killable  = {r1}
  Stages    = {"draft", "active"}
  Detectors = {d1}
  MaxTrained = 2
  MaxQuantized = 1
  Torn = Torn
  Heuristic = Heuristic
  None = None
CHECK_DEADLOCK FALSE
INVARIANTS  ScoresAreOfANetwork
