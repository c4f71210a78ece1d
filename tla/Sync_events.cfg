SPECIFICATION Spec
CONSTANTS
  Accounts = {a, b}
  NoAccount = NoAccount
  NHosts = 2
  UpHosts = {1}
  MaxLevel = 2
  MaxLogins = 1
  Active = {"timeline"}
  Acts = {"netfail", "stop"}
  a = a
  b = b
SYMMETRY Symmetric
INVARIANTS TypeOK NoEventLost EmittedOnce
CHECK_DEADLOCK FALSE
