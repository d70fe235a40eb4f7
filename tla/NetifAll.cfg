SPECIFICATION Spec
CONSTANTS
  Addresses = {a, b}
  MaxConnects = 3
  MaxLeases = 3
  NULL = NULL
INVARIANT AddressIsCurrent
PROPERTIES ConnectedHasAddress ConnectReturns
CHECK_DEADLOCK FALSE
