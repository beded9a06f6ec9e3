SPECIFICATION Spec
CONSTANTS
  Sessions = {s1, s2}
  Workers = {w1}
  Listener = listener
  MaxRequests = 1
  MaxStreams = 1
  Patient = TRUE
  Hosts <- MCHosts
  Word = 4
  MaxDevices = 3
  ReplyDevices = 2
  MaxProperties = 9
SYMMETRY Symmetry
CHECK_DEADLOCK FALSE
INVARIANT TypeOK
INVARIANT InfosReachable
 
INVARIANT OutstandingSilenced
 
PROPERTY HealthyHostServed
