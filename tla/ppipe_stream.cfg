SPECIFICATION Spec
CONSTANTS
 Pids = {1,2}
 Data = {0,1}
 MAX_PPIPE_SIZE = 2
 MAX_PPIPE_PROC = 2
 IntRange = 4
 MaxCount = 2
INVARIANTS ReadersInStep SlotsMatchDescriptors
PROPERTIES KeepsStreamPromise
CHECK_DEADLOCK FALSE
