SPECIFICATION Spec
CONSTANTS
  Tabs = {"timeline", "notifications", "saved"}
  Loads = {l1, l2}
  FirstTop = 2
  MaxTop = 3
  Shows <- ThreeItems
  Replies = {2}
  PageSize = 1
  Enough = 1
  RestoreCap = 3
  MaxTroubles = 2
  Acts = {"more", "reload", "fail", "post", "announce", "switch", "hide"}
  l1 = l1
  l2 = l2
SYMMETRY Symmetric
VIEW Living
INVARIANTS TypeOK NoPostTwice StateIsOnScreen NothingSkipped PlaceIsKept NewsIsShown
