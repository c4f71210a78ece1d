SPECIFICATION Spec
CONSTANTS
  Procs = {p, q}
  Starts = {"empty", "legacykey", "plainrow"}
  Stores = {"service", "file"}
  Faults = {"locked", "switch", "torn", "savefail", "removefail"}
  MaxKeys = 3
  p = p
  q = q
SYMMETRY Symmetric
INVARIANTS TypeOK SessionReadable KeyIsSaved
