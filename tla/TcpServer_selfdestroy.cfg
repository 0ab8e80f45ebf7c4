SPECIFICATION Spec
CONSTANTS
  Conn = {c1}
  acceptor = acceptor
INVARIANT
  ChannelOutlivesHandler
CHECK_DEADLOCK FALSE
