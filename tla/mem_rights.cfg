SPECIFICATION Spec
CONSTANTS
  Threads = {t1,t2}
  Process = proc
  Areas = {a1,a2,a3}
  MaxAreas = 2
  Flags = {"own", "rdonly", "rdwr"}
  Sizes = {"aligned", "unaligned"}
SYMMETRY Symmetry
INVARIANTS TypeOK NothingForbidden PermittedSucceeds NoStaleRights LibraryMatchesKernel
