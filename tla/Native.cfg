SPECIFICATION Spec
CONSTANTS
    add = add
    add2 = add2
    remove = remove
    fetch = fetch
    uninstall = uninstall
    old = old
    worker = worker
    page = page
    Requests = {add, add2, remove, uninstall, fetch}
    Contexts = {worker, page}
    Ctx <- MCCtx
    Kind <- MCKind
    Target <- MCTarget
    Held = {old}
    Procs = {p1, p2, p3}
    None = None
    Torn = {torn}
    MaxFaults = 1
    MaxCloses = 1
    MaxCalls = 3
SYMMETRY Anonymous
INVARIANTS
    NothingOrphaned
    MailboxesServed
    WaitsOnPort
CHECK_DEADLOCK FALSE
