CONSTANTS
  Capacity = 2
  MaxDepth = 1
  GenModulus = 1
  ArenaCapacity = 1
  ArenaGenModulus = 2
  Rights <- MCRights
  Objects <- MCObjects
  None = None
  Message = {m}
  Bits = {b}
  Caller = {p1, p2}
  GrantRights <- MCGrantRights
SPECIFICATION Spec
INVARIANT InFlightReachable
PROPERTIES NothingInherited ReceiverKept Mailboxes
SYMMETRY MCSymmetry
