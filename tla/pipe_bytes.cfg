SPECIFICATION Spec
CONSTANTS
 Pids = {1,2}
 Data = {0,1}
 MAX_PIPE_SIZE = 2
 MAX_PIPE_PROC = 2
 MAX_OPEN_FILES = 2
 STD_FDS = 0
 MaxCount = 2
 MaxRefs = 2
INVARIANTS TypeOK NothingDangling ReferencesCounted OneSlotPerProcess OpenEndsHaveDescriptors FreedWithLastEnd
PROPERTIES KeepsPipePromise
CHECK_DEADLOCK FALSE
