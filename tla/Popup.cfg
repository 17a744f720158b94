SPECIFICATION Spec
CONSTANTS
    imap = imap
    e1 = e1
    e2 = e2
    watch = watch
    Clients = {a1, a2, man, watch}
    PopupClients = {a1, a2, man}
    Autos = {a1, a2}
    Manuals = {man}
    Watchers = {watch}
    Messages = {e1, e2}
    Old = {}
    Kind <- MCKind
    Uid <- MCUid
    SmsBox = gm
    EmailBoxes = {imap}
    Window = 2
    PerProviderMax = 2
    GlobalMax = 2
    KeepTopN = 2
    HitTtl = 9
    MissTtl = 1
    MaxTime = 2
    MaxFailures = 1
    Cooldown = 2
    MinInterval = 1
    MaxItems = 1
    Shape <- MCShape
    CodeTtl = 1
    Breakpoints = {0, 1}
    Bucket = 2
    None = None
    MaxStarts = 3
    MaxReads = 2
    MaxCrashes = 1
SYMMETRY Pages
ACTION_CONSTRAINT InScene
INVARIANTS
    AutoPollsApart
    UsedStaysUsed
CHECK_DEADLOCK FALSE
