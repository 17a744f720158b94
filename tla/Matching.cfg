SPECIFICATION MailSpec
CONSTANTS
    Domains = {"dropbox.com", "dropboxmail.com", "ikea.com.tr", "dropbox-news.io", "mailgun.org", "github.io"}
    Labels <- MCLabels
    Suffix <- MCSuffix
    Long = {"dropbox", "dropboxmail", "ikea", "com", "news", "mailgun", "org", "github"}
    Canonical <- MCCanonical
    Shared = {"github.io"}
    Decay <- MCDecay
    Pages <- MCPages
    Codes <- MCCodes
    Mails <- MCMails
    Alone <- MCAlone
    Letter <- MCLetter
    Near <- MCNear
    None = None
    MaxCodes = 2
INVARIANTS
    BetterWins
    OwnCodeOnly
    AnnouncedWins
    Grounded
CHECK_DEADLOCK FALSE
