\* The token in the socket's URL may expire while the page is open.
\* A page that has left a server with nothing to publish is the end.
CHECK_DEADLOCK FALSE
SPECIFICATION Spec
CONSTANTS
  Transports <- BothTransports
  Conns <- TwoHandlers
  QueueSize = 1
  MaxEvents = 2
  MaxLeaks = 1
PROPERTY Reconnects
