CONSTANTS
  Watches = {w1, w2}
  None = None
  Sms = TRUE
  InOrder = FALSE
  MaxCrashes = 1
SPECIFICATION FairSpec
INVARIANTS MapsAgree PortIsOpen FallbackJustified
PROPERTIES AbandonedEnds WatchEnds
CHECK_DEADLOCK FALSE
