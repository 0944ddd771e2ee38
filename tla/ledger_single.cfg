SPECIFICATION FairSpec
CONSTANTS
  Inference  = {}
  Renderers  = {v1}
  Simulators = {}
  Operators  = {o1}
  Crashable  = {}
  Keys       = {k1, k2}
  Directions <- BothWays
  Overrides  <- Override
  MaxSessions = 2
  MaxEvents = 2
  MaxOutbox = 1
  NoRow = NoRow
INVARIANTS
  TotalIsNetCount
PROPERTIES
  ClosedStaysInactive
  CrossingsReachTotal
