SPECIFICATION FairSpec
CONSTANTS
  Relays      = {r1, r2}
  Crashable   = {r1, r2}
  MaxEntries  = 3
  WithRef     <- FirstTwo
  Adapters    <- EveryAdapter
  BatchLimit  = 2
  MaxAttempts = 2
CHECK_DEADLOCK FALSE
INVARIANTS
  ClaimsAreExclusive
  NeverPostedTwice
  
PROPERTIES
  EntriesConclude
  ImplementsDelivery
