SPECIFICATION Spec
CONSTANTS
  Pids = {1, 2, 3}
  MAX_PIPE_PROC = 16
  MAX_PPIPE_SIZE = 4096
  MAX_OPEN_FILES = 16
  STD_FDS = 3
  IntRange = 65536
INVARIANTS PrintsRecorded NothingLeft
