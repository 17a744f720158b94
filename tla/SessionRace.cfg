CONSTANTS
  Sessions = {s1}
  Tabs = {t1}
  NoTab = NoTab
  SmsDetected = {TRUE, FALSE}
  NPolls = 2
  Deadline = 2
  MaxCrashes = 1
  MaxFailures = 1
SPECIFICATION FairSpec
INVARIANTS Coherent ReportedNotResumed SentinelExclusive OnePollVerdict TimeoutJustified
PROPERTIES NoReplay PollRunsOnce EndsUnlessPollLost
CHECK_DEADLOCK FALSE
