SPECIFICATION Spec
CONSTANTS
  Conns = {c1, c2}
  Fds = {4, 5}
  ListenFd = 3
  Workers = {w1}
  MaxRequests = 1
  Pipelined = TRUE
  Resets = FALSE
  NoTxn = NoTxn
CHECK_DEADLOCK FALSE
SYMMETRY Symmetry
INVARIANT TypeOK
INVARIANT ServerInv
INVARIANT OneOwner
INVARIANT RepliesInOrder
INVARIANT NoDanglingInfo
INVARIANT ScanSafe
 
