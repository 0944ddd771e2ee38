SPECIFICATION SupervisorFairSpec
CONSTANTS
  CameraIds <- MCCameraIds
  Base = 2
  Cap = 10
  TickSeconds = 5
  Overflow = 4
  MaxFailures = 2
  MaxDeaths = 1
CHECK_DEADLOCK FALSE
INVARIANTS OneProcessPerCamera
PROPERTIES EnabledIsServed DisabledIsStopped
