CONSTANTS
  Proto = "UDP"
  Packets <- UdpPackets
  Sizes = {1, 2, 3, 5}
  U16 = 5
  TcpWnd = 5
  NumPbufs = 5
SPECIFICATION QueueSpec
INVARIANT DatagramBoundaries
PROPERTY ImplementsDatagrams
CHECK_DEADLOCK FALSE
