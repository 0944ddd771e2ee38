SPECIFICATION Spec
CONSTANTS
  Slots    = {q1, q2}
  Mixes   <- MCMixes
  Sources  = {c1, c2}
  MaxBags  = 2
  MaxMade  = 4
  MaxPeers = 2
  None     = None
SYMMETRY Interchangeable
CHECK_DEADLOCK FALSE
INVARIANTS PictureFollowsRow  PeersAreBounded
