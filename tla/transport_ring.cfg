SPECIFICATION Spec
CONSTANTS
  Cameras       = {c1, c2}
  RingSlots     = 2
  DriverSlots   = 2
  MaxDrops      = 2
  MaxShots      = 5
  MaxOpens      = 3
  MaxDbFailures = 1
  MaxRestarts   = 1
SYMMETRY CameraSymmetry
CHECK_DEADLOCK FALSE
INVARIANTS
  TypeOK
  NothingLeaks
  

  
