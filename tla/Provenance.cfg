SPECIFICATION Spec
CONSTANTS
  t1 = t1 
  t0 = t0
  e1 = e1
  e0 = e0
  s1 = s1
  s2 = s2
  gm = gm
  imap = imap
  None = None
  Clients = {s1, s2}
  Sessions = {s1, s2}
  PopupClients = {}
  Messages = {t0, t1, e0, e1}
  Old = {t0}
  Kind <- MCKind
  Uid <- MCUid
  Watch <- MCWatch
  SmsBox = gm
  EmailBoxes = {imap}
  Window = 2
  PerProviderMax = 2
  GlobalMax = 2
  KeepTopN = 1
  HitTtl = 9
  MissTtl = 1
  MaxTime = 2
  MaxFailures = 1
  Grace = 0
  Settle = 1
  SnapshotTtl = 0
  MaxPolls <- MCMaxPolls
  MaxCrashes = 1
INVARIANTS FreshOnly Caught TakenOnce
CHECK_DEADLOCK FALSE
ACTION_CONSTRAINT InScene
