SPECIFICATION Spec
CONSTANTS
  Inference  = {w1}
  Renderers  = {v1}
  Simulators = {}
  Operators  = {o1}
  Crashable  = {w1}
  Keys       = {k1, k2}
  Directions <- BothWays
  Overrides  <- NoOverride
  MaxSessions = 1
  MaxEvents = 2
  MaxOutbox = 1
  NoRow = NoRow
INVARIANTS
  TotalWasOnceTrue
  SubmittedWasOnceTrue
