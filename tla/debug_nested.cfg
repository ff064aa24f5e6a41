SPECIFICATION Spec
CONSTANTS
 Fns = {f, g}
 Main = main
 EndHandler = end_handler
 MaxBreakpoints = 2
 MAX_BACKTRACE = 4
 MaxNum = 3
 MaxDepth = 4
 MaxCalls = 4
CHECK_DEADLOCK FALSE
INVARIANTS CodeMatchesList HandedOver ShadowMatchesFrames
PROPERTIES WaitReturns KeepsDebugPromise
