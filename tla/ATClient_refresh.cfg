SPECIFICATION Spec
CONSTANTS
  Boot = {}
  Page = {}
  Workers = {w1, w2}
  Users = {u1}
  UserOps = {"call", "login"}
  Starts = {"signedin", "empty"}
  Env = {"netfail", "dbfail", "scope"}
  MaxPair = 3
  MaxClient = 1
  w1 = w1
  w2 = w2
  u1 = u1
  NoThread = NoThread
SYMMETRY Symmetric
INVARIANTS SwapConfined NoLostWakeup NoReplayedRefresh
PROPERTIES RetryCarriesNewToken SharesOneRefresh
