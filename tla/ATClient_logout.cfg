SPECIFICATION Spec
CONSTANTS
  Boot = {b}
  Page = {}
  Workers = {w1, w2}
  Users = {u1}
  UserOps = {"call", "logout"}
  Starts = {"signedin", "guest", "legacy"}
  Env = {"netfail"}
  MaxPair = 3
  MaxClient = 1
  b = b
  w1 = w1
  w2 = w2
  u1 = u1
  NoThread = NoThread
SYMMETRY Symmetric
INVARIANTS DurableSession LogoutSticks DiskFollowsMemory
