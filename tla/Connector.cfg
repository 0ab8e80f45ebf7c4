SPECIFICATION FairSpec
CONSTANT
  MaxStarts = 3
INVARIANTS
  UpIsConnected
  OneOwner
  Registrations
PROPERTY
  StartResolves
CHECK_DEADLOCK FALSE
