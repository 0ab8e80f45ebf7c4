SPECIFICATION FairSpec
CONSTANTS
  Conn = {c1, c2}
  acceptor = acceptor
INVARIANTS
  EpollAgrees
  NoStaleChannel
  CallbacksInOrder
  OnlyClosedDestroyed
PROPERTY
  ClosedIsRemoved
CHECK_DEADLOCK FALSE
