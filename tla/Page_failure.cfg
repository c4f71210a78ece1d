SPECIFICATION Spec
CONSTANTS
  Tabs = {"timeline"}
  Loads = {l1}
  FirstTop = 2
  MaxTop = 3
  Shows <- ThreeItems
  Replies = {2}
  PageSize = 1
  Enough = 1
  RestoreCap = 3
  MaxTroubles = 2
  Acts = {"more", "reload", "fail", "post", "switch", "hide"}
  l1 = l1
VIEW Living
INVARIANT FailureLeavesScreen
