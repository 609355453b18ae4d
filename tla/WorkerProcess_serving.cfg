\* Requests the workers serve themselves, two workers, stops of both kinds, clients that come and go.
SPECIFICATION Spec
CONSTANTS
  Workers = {w1, w2}
  Clients = {c1, c2}
  ListenSock = ListenSock
  Nobody = Nobody
  LastSegment = 1
  FileSize = 2
  Window = 2
  Kinds = {"file", "nowhere"}
  Habits = {"close"}
  Stops = {"soft", "hard"}
  Descriptors = 9
INVARIANTS
  TypeOK
  NobodyIsForgotten
  ClosedMeansAnswered
PROPERTIES
  HardStopInterrupts
  ImplementsClientQueue
SYMMETRY Symmetry
CHECK_DEADLOCK FALSE
