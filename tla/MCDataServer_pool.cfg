SPECIFICATION FairSpec
CONSTANTS
  Sessions = {s1}
  Workers = {w1, w2}
  Envs = {e1}
  Ops <- AllOps
  Obedient = FALSE
CHECK_DEADLOCK FALSE
INVARIANT TypeOK
INVARIANT OneOperation
INVARIANT ActiveOnlyInside
INVARIANT NoFalseSuccess
PROPERTY EndsEventually
