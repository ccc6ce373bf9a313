SPECIFICATION FairSpec
CONSTANTS
  PseudoLen = 0
  LineLens = {1}
  MaxLines = 1
  MaxGet = 1
  MaxStray = 1
  MaxDown = 1
  MaxWakeups = 1
CHECK_DEADLOCK FALSE
INVARIANTS ChatInv WholeLines PeerProtocol NoSendAfterClose
PROPERTIES CloseWakesSender LocksGranted
