SPECIFICATION FairSpec
CONSTANTS
  Boot = {b}
  Page = {p}
  Workers = {w1}
  Users = {}
  UserOps = {}
  Starts = {"empty", "stored"}
  Env = {"netfail", "lost"}
  MaxPair = 3
  MaxClient = 2
  b = b
  p = p
  w1 = w1
  NoThread = NoThread
INVARIANTS SwapConfined DurableSession
PROPERTIES OperationsEnd
