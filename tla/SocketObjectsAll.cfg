SPECIFICATION Spec
CONSTANTS
  Sockets = {c, d}
  Servers = {v}
  Handles = {h1, h2, h3}
  Callbacks = {f}
  NULL = NULL
INVARIANTS TypeOK SoundWithoutRaces HandlerServesItsOwner HandlesHaveOneOwner EventsReachTheObject
SYMMETRY Symmetry
CHECK_DEADLOCK FALSE
