SPECIFICATION Spec
CONSTANTS
  Cells = {c1, c2}
  TcpPcbs = {t1, t2}
  UdpPcbs = {u1}
  NULL = NULL
INVARIANTS TypeOK OwnPcb OwnData LivePcbsAreOwned NoConnectionIsForeign DeadSemaphoreIsLate
SYMMETRY Symmetry
CHECK_DEADLOCK FALSE
