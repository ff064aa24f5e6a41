SPECIFICATION Spec
CONSTANTS
  Process = init
  Pids = {p2, p3, p4}
  MaxThreads = 2
  Stacks = {s1, s2}
  Values = {a}
  NULL = NULL
  NoPid = NoPid
  MaxSleep = 1
  Sleepers = {init}
SYMMETRY Symmetry
CHECK_DEADLOCK FALSE
INVARIANT NoValueLost
