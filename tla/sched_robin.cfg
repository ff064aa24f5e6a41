SPECIFICATION Spec
CONSTANTS
  MAX_PROCESSES = 4
  MaxTicks = 2
  Debuggers = {2}
INVARIANT OneRuns
PROPERTIES ExitedStayGone NoStarvation
CHECK_DEADLOCK FALSE
