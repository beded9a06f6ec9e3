SPECIFICATION Spec
CONSTANTS
  Sessions = {s1}
  Workers = {w1}
  Envs = {e1}
  Ops <- AllOps
  Obedient = TRUE
CHECK_DEADLOCK FALSE
INVARIANT ClosedIsHalted
