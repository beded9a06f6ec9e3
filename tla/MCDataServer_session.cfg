SPECIFICATION Spec
CONSTANTS
  Sessions = {s1, s2}
  Workers = {w1}
  Envs = {e1, e2}
  Ops <- DataOps
  Obedient = TRUE
CHECK_DEADLOCK FALSE
INVARIANT EnvUsable
INVARIANT EnvOfOwnBackup
PROPERTY ImplementsProtocol
PROPERTY HonestReply
