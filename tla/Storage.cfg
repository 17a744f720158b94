SPECIFICATION FairSpec
CONSTANTS
    g0 = g0  o0 = o0  i1 = i1  d1 = d1  v0 = v0  v1 = v1
    i2 = i2  d2 = d2  h6 = h6  h7 = h7  h8 = h8
    gm = gm  imap1 = imap1  imap2 = imap2  gmail = gmail  outlook = outlook
    h1 = h1  h2 = h2  h3 = h3  h4 = h4  h5 = h5
    Requests = {h1, h2, h3, h4, h5, h6, h7, h8}
    Ask <- MailAsk
    Migration = migration
    Ids = {g0, o0, i1, i2, h1, h2, h3, h4, h5, h6, h7, h8}
    Domains = {d1, d2}
    Values = {v0, v1}
    Cap = 1
    Messages = gm
    Imap = {imap1, imap2}
    Gmail = {gmail}
    Outlook = {outlook}
    Start <- MailStart
    Default <- MCDefault
    None = none
    MaxRequests = 3
    MaxCrashes = 1
INVARIANTS
    MailboxesKept
    UniqueAccounts
    PopupAgrees
    BansCapped
PROPERTIES
    AtomicSpec
    Answered
CHECK_DEADLOCK FALSE
