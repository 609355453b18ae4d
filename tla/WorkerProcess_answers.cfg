\* Two workers, requests that arrive in one segment, with more behind them; nobody stops anything.
SPECIFICATION FairSpec
CONSTANTS
  Workers = {w1, w2}
  Clients = {c1, c2}
  ListenSock = ListenSock
  Nobody = Nobody
  LastSegment = 1
  FileSize = 2
  Window = 2
  Kinds = {"file", "nowhere"}
  Habits = {"extra", "shut"}
  Stops = {}
  Descriptors = 9
PROPERTIES
  RequestsAreAnswered
CHECK_DEADLOCK FALSE
