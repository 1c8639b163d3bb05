SPECIFICATION FairSpec
CONSTANTS
  c1 = c1  c2 = c2  c3 = c3  c4 = c4  None = None
  Conns = {c1, c2, c3, c4}
  NumHandlers = 2  Fds <- ThreeFds  Backlog = 2
INVARIANT NobodyIsDropped
PROPERTY NobodyWaitsForEver
CHECK_DEADLOCK FALSE
