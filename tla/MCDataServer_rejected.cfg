SPECIFICATION Spec
CONSTANTS
  Sessions = {s1}
  Workers = {w1}
  Envs = {e1}
  Ops <- OperationOps
  Obedient = FALSE
CHECK_DEADLOCK FALSE
PROPERTY RejectedNotPerformed
