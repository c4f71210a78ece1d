SPECIFICATION FairSpec
CONSTANTS
  Boot = {b}
  Page = {p}
  Workers = {}
  Users = {}
  UserOps = {}
  Starts = {"stored"}
  Env = {"stall"}
  MaxPair = 2
  MaxClient = 2
  b = b
  p = p
  NoThread = NoThread
PROPERTIES BoundedOperationsEnd
CHECK_DEADLOCK FALSE
