SPECIFICATION FairSpec
CONSTANTS
 Process = init
 Pids = {p2, p3}
 MaxThreads = 2
 Stacks = {s1, s2}
 Values = {a, b}
 NULL = NULL
 NoPid = NoPid
 MaxSleep = 1
 Sleepers = {p2}
CHECK_DEADLOCK FALSE
PROPERTY KeepsLibraryPromise JoinReturns
INVARIANT TypeOK KernelKnowsThreads LibraryKnowsThreads ContextsSuffice
