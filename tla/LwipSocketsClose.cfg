SPECIFICATION Spec
CONSTANTS
  Cells = {c1}
  TcpPcbs = {t1}
  UdpPcbs = {u1}
  NULL = NULL
INVARIANT CloseDeallocates
SYMMETRY Symmetry
CHECK_DEADLOCK FALSE
