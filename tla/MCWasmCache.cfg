CONSTANTS
  None = None
  Procs = {p1, p2}
  Tags = {v1}
  Programs = {f, g}
  Foreign = {"empty", "link"}
  MaxImages = 2
  MaxLoads = 3
SPECIFICATION Spec
SYMMETRY Symmetric
INVARIANTS CacheIsWhole IndexSound
