SPECIFICATION Spec
CONSTANTS
  Inference  = {}
  Renderers  = {v1}
  Simulators = {b1}
  Operators  = {o1}
  Crashable  = {}
  Keys       = {k1, k2}
  Directions <- Forward
  Overrides  <- NoOverride
  MaxSessions = 1
  MaxEvents = 2
  MaxOutbox = 1
  NoRow = NoRow
INVARIANTS
  FlaggedClosesOnlyVoided
PROPERTIES
  ImplementsCounter
