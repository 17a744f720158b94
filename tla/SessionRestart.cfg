CONSTANTS
  Sessions = {s1, s2}
  Tabs = {t1}
  NoTab = NoTab
  SmsDetected = {TRUE}
  NPolls = 1
  Deadline = 1
  MaxCrashes = 1
  MaxFailures = 0
SPECIFICATION Spec
SYMMETRY Symmetric
INVARIANTS OneLivePerTab
PROPERTIES OutcomeSpec
CHECK_DEADLOCK FALSE
