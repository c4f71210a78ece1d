SPECIFICATION Spec
CONSTANTS
  Boot = {b}
  Page = {p}
  Workers = {}
  Users = {}
  UserOps = {}
  Starts = {"stored"}
  Env = {}
  MaxPair = 2
  MaxClient = 2
  b = b
  p = p
  NoThread = NoThread
INVARIANTS NoReplayedRefresh
CHECK_DEADLOCK FALSE
