SPECIFICATION FairSpec
CONSTANTS
  Accounts = {a}
  NoAccount = NoAccount
  NHosts = 2
  UpHosts = {1}
  MaxLevel = 2
  MaxLogins = 0
  Active = {"notifications"}
  Acts = {"read", "stop"}
  a = a
PROPERTIES NewsIsAnnounced StreamConnects StopEndsAll Converges
CHECK_DEADLOCK FALSE
