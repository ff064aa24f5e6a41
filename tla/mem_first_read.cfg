SPECIFICATION Spec
CONSTANTS
  Threads = {t1, t2}
  Process = proc
  Areas = {a1}
  MaxAreas = 1
  Flags = {"rdonly"}
  Sizes = {"aligned"}
SYMMETRY Symmetry
INVARIANTS SiblingsMayRead
