SPECIFICATION SesSpec
CONSTANTS
  MessageQueueSize = 1
  Execs <- MCExecs
  CleanupUnbound = FALSE
  MaxRequests = 2
PROPERTIES DeadlineCloses BrokenIsRemoved DeniedIsClosed
CHECK_DEADLOCK FALSE
