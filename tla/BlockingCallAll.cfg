SPECIFICATION FairSpec
CONSTANTS
  Timeouts <- MCTimeouts
  Horizon = 3
  NumSockets = 2
  MaxPackets = 2
INVARIANTS TypeOK WouldBlockIsLate NonBlockingNeverSleeps StaleHandleWindow WakeupLostOnlyInWindow
PROPERTY CallReturns
CHECK_DEADLOCK FALSE
