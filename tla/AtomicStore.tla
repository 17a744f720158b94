---------------------------- MODULE AtomicStore ----------------------------
(***************************************************************************)
(* What the storage layer promises its callers: every operation on the     *)
(* mailboxes, the domain preferences and the settings is one step on the   *)
(* current value.                                                          *)
(***************************************************************************)
EXTENDS Naturals, FiniteSets

CONSTANTS
    Ids,       \* ids of mailboxes
    Accounts,  \* accounts a mailbox can be for: provider and address
    Domains,   \* sites with a preference
    Values,    \* values of a setting
    Cap        \* MAX_BLACKLIST_ENTRIES

VARIABLE store  \* mailboxes, prefs and settings

MailboxRecords == [id : Ids, account : Accounts, synced : BOOLEAN]
SettingsRecords == [banned : SUBSET Domains, level : Values, timeout : Values]
StoreRecords == [mailboxes : SUBSET MailboxRecords,
                 prefs : [Domains -> {"unset", "on", "off"}],
                 settings : SettingsRecords]

Add ==
    \E m \in MailboxRecords :
        /\ \A n \in store.mailboxes : n.id # m.id /\ n.account # m.account
        /\ store' = [store EXCEPT !.mailboxes = @ \cup {m}]

Remove ==
    \E m \in store.mailboxes : store' = [store EXCEPT !.mailboxes = @ \ {m}]

Touch ==
    \E m \in store.mailboxes :
        store' = [store EXCEPT !.mailboxes = (@ \ {m}) \cup {[m EXCEPT !.synced = TRUE]}]

Prefer ==
    \E d \in Domains, v \in {"on", "off"} : store' = [store EXCEPT !.prefs[d] = v]

Ban ==
    \E d \in Domains :
        /\ Cardinality(store.settings.banned) < Cap
        /\ store' = [store EXCEPT !.settings.banned = @ \cup {d}]

Unban ==
    \E d \in Domains : store' = [store EXCEPT !.settings.banned = @ \ {d}]

SetLevel == \E v \in Values : store' = [store EXCEPT !.settings.level = v]
SetTimeout == \E v \in Values : store' = [store EXCEPT !.settings.timeout = v]

Next ==
    \/ Add \/ Remove \/ Touch
    \/ Prefer
    \/ Ban \/ Unban \/ SetLevel \/ SetTimeout

\* No two mailboxes share an id or an account: one for Google Messages.
Unique ==
    \A m, n \in store.mailboxes : m.id = n.id \/ m.account = n.account => m = n

Init == store \in StoreRecords /\ Unique

Spec == Init /\ [][Next]_store
=============================================================================
