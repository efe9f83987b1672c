\* A queue of one overflows at the second event.
\* A page that has left a server with nothing to publish is the end.
CHECK_DEADLOCK FALSE
SPECIFICATION Spec
CONSTANTS
  Transports <- BothTransports
  Conns <- TwoHandlers
  QueueSize = 1
  MaxEvents = 2
  MaxLeaks = 1
INVARIANTS
  TypeOK
  NoHoles
  RelayFollowsListeners
  LeaksAreFailedSends
PROPERTIES
  FeedSpec
  Delivers
  ReconnectsWhileFresh
