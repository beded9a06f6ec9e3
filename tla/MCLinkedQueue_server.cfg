SPECIFICATION FairSpec
CONSTANTS
  t1 = t1
  t2 = t2
  Threads = {t1, t2}
  Elems = {e1, e2}
  Nodes = {n1, n2, n3}
  Null = Null
  Garbage = Garbage
  Workloads <- Workloads_Server
CHECK_DEADLOCK FALSE
INVARIANT TypeOK
INVARIANT Linked
INVARIANT NodesAccounted
INVARIANT MutualExclusion
INVARIANT AllElemsFit
 
PROPERTY CallsReturn
