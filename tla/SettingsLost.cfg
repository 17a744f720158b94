SPECIFICATION Spec
CONSTANTS
    g0 = g0  o0 = o0  i1 = i1  d1 = d1  v0 = v0  v1 = v1
    i2 = i2  d2 = d2  h6 = h6  h7 = h7  h8 = h8
    gm = gm  imap1 = imap1  imap2 = imap2  gmail = gmail  outlook = outlook
    h1 = h1  h2 = h2  h3 = h3  h4 = h4  h5 = h5
    Requests = {h1, h2, h3}
    Ask <- SettingsAsk
    Migration = migration
    Ids = {g0, o0, i1, i2, h1, h2, h3, h4, h5, h6, h7, h8}
    Domains = {d1, d2}
    Values = {v0, v1}
    Cap = 2
    Messages = gm
    Imap = {imap1, imap2}
    Gmail = {gmail}
    Outlook = {outlook}
    Start <- PrefStart
    Default <- MCDefault
    None = none
    MaxRequests = 2
    MaxCrashes = 0
INVARIANT
    MutationKept
CHECK_DEADLOCK FALSE
