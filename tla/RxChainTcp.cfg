CONSTANTS
  Proto = "TCP"
  Packets <- TcpPackets
  Sizes = {1, 2, 3, 5}
  U16 = 5
  TcpWnd = 5
  NumPbufs = 4
SPECIFICATION FairQueueSpec
INVARIANTS TypeOK NoGapNoRepeat NoLeakNoDangling DataIsAnnounced WindowMatchesQueue
PROPERTIES CorruptionOnlyInWindow RecvReturns ImplementsStream
CHECK_DEADLOCK FALSE
