CONSTANTS
  Sessions = {s1, s2}
  Popup = Popup
  Tabs = {t1, t2}
  NoTab = NoTab
  MAX_POLLS_PER_SESSION = 2
  MaxCrashes = 1
SPECIFICATION TabSpec
SYMMETRY Symmetric
INVARIANTS UserTabsKept OneOpenedTab
CHECK_DEADLOCK FALSE
