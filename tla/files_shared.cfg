SPECIFICATION Spec
CONSTANTS
 Procs = {1,2}
 First = 1
 Std = {0}
 MAX_OPEN_FILES = 3
 Objects = {0, 1}
 Inodes = {f}
 Flags = {{"r"}, {"r", "w"}}
 Perms = {{"r"}, {"r", "w"}}
 FILE_SIZE = 2
INVARIANTS PositionsInside ReferencesCounted
PROPERTIES GrowsByWriters
CHECK_DEADLOCK FALSE
