\* Every kind of request, in two segments, to one worker that may be told to stop.
SPECIFICATION Spec
CONSTANTS
  Workers = {w1}
  Clients = {c1, c2}
  ListenSock = ListenSock
  Nobody = Nobody
  LastSegment = 2
  FileSize = 3
  Window = 1
  Kinds = {"file", "absent", "directory", "nowhere", "unsupported", "garbled", "proxied", "posted"}
  Habits = {"shut"}
  Stops = {"soft"}
  Descriptors = 3
INVARIANTS
  EventsAreLive
  DeathsHaveACause
  NothingSentTwice
SYMMETRY Symmetry
CHECK_DEADLOCK FALSE
