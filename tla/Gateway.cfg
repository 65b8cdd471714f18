SPECIFICATION FairSpec
CONSTANTS
  Pages = {p1}
  Conns = {c1, c2, c3}
  Backlog = 1
  Fds = {1, 2, 3}
  SbufSize = 2
  Messages = {"OPEN", "CLOSE"}
  Reliable = FALSE
  Nil = Nil
INVARIANTS
  OneTimer
  SidIsPort
  NoConnectionLeak
PROPERTIES
  LeavingFrees
