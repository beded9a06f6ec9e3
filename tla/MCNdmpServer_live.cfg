SPECIFICATION FairSpec
CONSTANTS
  Conns = {c1, c2}
  Fds = {4}
  ListenFd = 3
  Workers = {w1}
  MaxRequests = 1
  Pipelined = FALSE
  Resets = FALSE
  NoTxn = NoTxn
CHECK_DEADLOCK FALSE
PROPERTY JobsEnd
 
PROPERTY HangupNoticed
