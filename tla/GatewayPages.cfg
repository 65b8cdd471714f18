SPECIFICATION FairSpec
CONSTANTS
  Pages = {p1, p2}
  Conns = {c1, c2, c3, c4}
  Backlog = 1
  Fds = {1}
  SbufSize = 1
  Messages = {}
  Reliable = FALSE
  Nil = Nil
PROPERTIES
  AlwaysOpensAgain
