SPECIFICATION Spec
CONSTANTS
  Conns = {c1}
  Fds = {4}
  ListenFd = 3
  Workers = {w1, w2}
  MaxRequests = 2
  Pipelined = TRUE
  Resets = TRUE
  NoTxn = NoTxn
CHECK_DEADLOCK FALSE
INVARIANT SessionsConsistent
INVARIANT OneOwner
