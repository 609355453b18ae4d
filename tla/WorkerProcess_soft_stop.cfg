\* A soft stop while requests are waiting to be looked at.
SPECIFICATION Spec
CONSTANTS
  Workers = {w1}
  Clients = {c1, c2}
  ListenSock = ListenSock
  Nobody = Nobody
  LastSegment = 1
  FileSize = 2
  Window = 2
  Kinds = {"file"}
  Habits = {}
  Stops = {"soft"}
  Descriptors = 9
INVARIANTS
  SoftStopServesOld
CHECK_DEADLOCK FALSE
