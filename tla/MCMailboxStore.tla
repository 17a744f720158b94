--------------------------- MODULE MCMailboxStore ---------------------------
(***************************************************************************)
(* Instances of MailboxStore: requests about mailboxes with a legacy row   *)
(* of each kind at first; writers of the settings in both contexts.        *)
(***************************************************************************)
EXTENDS MailboxStore, TLC

CONSTANTS g0, o0, i1, i2, d1, d2, v0, v1, gm, imap1, imap2, gmail, outlook,
          h1, h2, h3, h4, h5, h6, h7, h8

Box(id, account) == [id |-> id, account |-> account, synced |-> FALSE]
Request(op, arg) == [op |-> op, arg |-> arg]

MCDefault == [banned |-> {}, level |-> v0, timeout |-> v0]

MailStart ==
    [mailboxes |-> {Box(g0, gmail), Box(o0, outlook), Box(i1, imap1), Box(i2, gm)},
     prefs |-> [d \in Domains |-> "unset"],
     settings |-> MCDefault]
MailAsk ==
    h1 :> Request("store", imap2)
    @@ h2 :> Request("connect", gm)
    @@ h3 :> Request("repair", gm)
    @@ h4 :> Request("remove", i1)
    @@ h5 :> Request("sync", i1)
    @@ h6 :> Request("disable", d1)
    @@ h7 :> Request("ban", d2)
    @@ h8 :> Request("disconnect", i2)

PrefStart ==
    [mailboxes |-> {}, prefs |-> [d \in Domains |-> "unset"], settings |-> MCDefault]
SettingsAsk ==
    h1 :> Request("ban", d1)
    @@ h2 :> Request("level", v1)
    @@ h3 :> Request("timeout", v1)
=============================================================================
