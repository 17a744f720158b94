---------------------------- MODULE MessagesTab ----------------------------
(***************************************************************************)
(* The Google Messages tab (lib/providers/google-messages/tab-manager.ts)  *)
(* and its clients: the listRecent calls of watch sessions (adapter.ts),   *)
(* the ends of those sessions (session-controller.ts) and the account test *)
(* of the popup (popup-handler.ts).  The browser and its user open, close  *)
(* and navigate tabs on their own.                                         *)
(*                                                                         *)
(* chrome.tabs.get, query, create and remove are asked at one turn and     *)
(* answered at a later one; chrome.storage.session is written at the turn  *)
(* that asks for it.                                                       *)
(***************************************************************************)
EXTENDS Naturals

CONSTANTS
    Sessions,     \* SMS watch sessions
    Popup,        \* the popup's account test, a client without a session
    Tabs,         \* tab ids, each used once
    NoTab,
    MAX_POLLS_PER_SESSION,
    MaxCrashes    \* bound: service-worker deaths in a behaviour

ASSUME PopupAssumption == Popup \notin Sessions
ASSUME TabsAssumption == NoTab \notin Tabs
ASSUME PollsAssumption == MAX_POLLS_PER_SESSION \in Nat \ {0}
ASSUME CrashesAssumption == MaxCrashes \in Nat

VARIABLES
    tab,          \* each tab: on Google Messages since it was opened ("messages"),
                  \* on another site ("away"), on Google Messages again ("back"), ...
    opened,       \* tabs the extension opened
    tabState,     \* the tab in use and whether the extension owns it
    stored,       \* gm_tab_state in chrome.storage.session
    ensuring,     \* where the _ensureTab call behind ensureMutex is
    listing,      \* where the ensureTab ... closeIfOwned call of each client is
    pollCounts,   \* 0 where the Map has no entry
    active,       \* watch sessions that have not ended
    closing,      \* closeIfOwned calls that wait for chrome.tabs.remove
    recovering,   \* what recoverFromRestart has read and not used yet
    removed,      \* history: tabs closed by closeIfOwned
    crashes

browser == <<tab, opened>>
manager == <<tabState, stored, ensuring, pollCounts, closing, recovering>>
tabVars == <<browser, manager, listing, active, removed, crashes>>

Clients == Sessions \cup {Popup}
NoState == [tab |-> NoTab, owned |-> FALSE]
TabStates == [tab : Tabs \cup {NoTab}, owned : BOOLEAN]
Closings == [by : Clients, why : {"poll", "end"}, tab : Tabs, at : {"asked", "done"}]
EnsureSteps == {"idle", "getting", "querying", "creating", "persisting"}

TabTypes ==
    /\ tab \in [Tabs -> {"unborn", "messages", "away", "back", "closed"}]
    /\ opened \subseteq Tabs
    /\ tabState \in TabStates
    /\ stored \in TabStates
    /\ ensuring \in EnsureSteps
    /\ listing \in [Clients -> {"idle", "ensuring", "scraping", "closing"}]
    /\ pollCounts \in [Sessions -> 0 .. MAX_POLLS_PER_SESSION]
    /\ active \subseteq Sessions
    /\ closing \subseteq Closings
    /\ recovering \in TabStates
    /\ removed \subseteq Tabs
    /\ crashes \in 0 .. MaxCrashes

TabInit ==
    /\ tab = [t \in Tabs |-> "unborn"]
    /\ opened = {}
    /\ tabState = NoState
    /\ stored = NoState
    /\ ensuring = "idle"
    /\ listing = [c \in Clients |-> "idle"]
    /\ pollCounts = [s \in Sessions |-> 0]
    /\ active = Sessions
    /\ closing = {}
    /\ recovering = NoState
    /\ removed = {}
    /\ crashes = 0

OnMessages == {t \in Tabs : tab[t] \in {"messages", "back"}}
Open == {t \in Tabs : tab[t] \in {"messages", "away", "back"}}

-----------------------------------------------------------------------------
(***************************************************************************)
(* closeIfOwned                                                            *)
(***************************************************************************)
\* Some session that has polled still has polls in its budget.
BudgetLeft == \E s \in Sessions : pollCounts'[s] \in 1 .. MAX_POLLS_PER_SESSION - 1

Closable == tabState.tab # NoTab /\ tabState.owned /\ ~ BudgetLeft

CloseIfOwned(c, why) ==
    closing' = IF Closable
               THEN closing \cup {[by |-> c, why |-> why, tab |-> tabState.tab, at |-> "asked"]}
               ELSE closing

\* The browser closes the tab; the promise settles later.
RemovesTab(call) ==
    /\ call.at = "asked"
    /\ closing' = (closing \ {call})
          \cup {[by |-> call.by, why |-> call.why, tab |-> call.tab, at |-> "done"]}
    /\ IF call.tab \in Open
       THEN /\ tab' = [tab EXCEPT ![call.tab] = "closed"]
            /\ removed' = removed \cup {call.tab}
       ELSE UNCHANGED <<tab, removed>>
    /\ UNCHANGED <<opened, tabState, stored, ensuring, pollCounts, recovering, listing,
                   active, crashes>>

\* closeIfOwned forgets the tab in use, whichever it is by now.
CloseEnds(call) ==
    /\ call.at = "done"
    /\ closing' = closing \ {call}
    /\ tabState' = NoState
    /\ stored' = NoState
    /\ listing' = IF call.why = "poll" THEN [listing EXCEPT ![call.by] = "idle"] ELSE listing
    /\ UNCHANGED <<browser, ensuring, pollCounts, recovering, active, removed, crashes>>

-----------------------------------------------------------------------------
(***************************************************************************)
(* ensureTab: one _ensureTab call runs, the clients that come meanwhile    *)
(* wait for it.                                                            *)
(***************************************************************************)
\* Variant: a tab that may be open already is not looked for.
BugNoQuery ==
    ensuring' = IF ensuring # "idle" THEN ensuring
                ELSE IF tabState.tab = NoTab THEN "creating" ELSE "getting"

EnsureMutex ==
    ensuring' = IF ensuring # "idle" THEN ensuring
                ELSE IF tabState.tab = NoTab THEN "querying" ELSE "getting"

InBudget(s) == pollCounts[s] < MAX_POLLS_PER_SESSION

\* listRecent of a session with budget left, or the popup's account test.
Asks(c) ==
    /\ listing[c] = "idle"
    /\ c \in Sessions => c \in active /\ InBudget(c)
    /\ listing' = [listing EXCEPT ![c] = "ensuring"]
    /\ EnsureMutex
    /\ UNCHANGED <<browser, tabState, stored, pollCounts, closing, recovering, active,
                   removed, crashes>>

\* ensureTab resolves with the tabState of this turn: without one the client
\* fails on tab.tabId.
EnsureEnds ==
    /\ ensuring' = "idle"
    /\ listing' = [c \in Clients |->
                      IF listing[c] # "ensuring" THEN listing[c]
                      ELSE IF tabState.tab = NoTab THEN "idle" ELSE "scraping"]

\* chrome.tabs.get answers.
Revalidates ==
    /\ ensuring = "getting"
    /\ \/ /\ tabState.tab = NoTab \/ tabState.tab \in OnMessages
          /\ EnsureEnds
          /\ UNCHANGED tabState
       \/ /\ tabState.tab # NoTab /\ tabState.tab \notin OnMessages
          /\ tabState' = NoState
          /\ ensuring' = "querying"
          /\ UNCHANGED listing
    /\ UNCHANGED <<browser, stored, pollCounts, closing, recovering, active, removed, crashes>>

Uses(t, owned) ==
    /\ tabState' = [tab |-> t, owned |-> owned]
    /\ stored' = [tab |-> t, owned |-> owned]
    /\ ensuring' = "persisting"

\* Variant: a tab that was found is taken for the extension's own.
BugOwnsFound(t) == Uses(t, TRUE)

UsesFound(t) == Uses(t, FALSE)

\* chrome.tabs.query answers: a tab that is open is used, not owned.
Queries ==
    /\ ensuring = "querying"
    /\ \/ \E t \in OnMessages : UsesFound(t)
       \/ OnMessages = {} /\ ensuring' = "creating" /\ UNCHANGED <<tabState, stored>>
    /\ UNCHANGED <<browser, pollCounts, closing, recovering, listing, active, removed, crashes>>

\* chrome.tabs.create answers with a new tab.
Creates ==
    /\ ensuring = "creating"
    /\ \E t \in Tabs :
          /\ tab[t] = "unborn"
          /\ tab' = [tab EXCEPT ![t] = "messages"]
          /\ opened' = opened \cup {t}
          /\ Uses(t, TRUE)
    /\ UNCHANGED <<pollCounts, closing, recovering, listing, active, removed, crashes>>

Persisted ==
    /\ ensuring = "persisting"
    /\ EnsureEnds
    /\ UNCHANGED <<browser, tabState, stored, pollCounts, closing, recovering, active,
                   removed, crashes>>

-----------------------------------------------------------------------------
(***************************************************************************)
(* The clients.                                                            *)
(***************************************************************************)
\* incrementPollCount, whether or not the session has ended meanwhile
IncrementPollCount(s) == pollCounts' = [pollCounts EXCEPT ![s] = @ + 1]

AfterClose(c) ==
    listing' = [listing EXCEPT ![c] = IF closing' = closing THEN "idle" ELSE "closing"]

\* The tab was scraped; the poll that spends the budget closes the tab.
Scraped(s) ==
    /\ listing[s] = "scraping"
    /\ IncrementPollCount(s)
    /\ \/ pollCounts'[s] >= MAX_POLLS_PER_SESSION /\ CloseIfOwned(s, "poll")
       \/ pollCounts'[s] < MAX_POLLS_PER_SESSION /\ UNCHANGED closing
    /\ AfterClose(s)
    /\ UNCHANGED <<browser, tabState, stored, ensuring, recovering, active, removed, crashes>>

\* session_expired: the tab shows the pairing page.
ScrapeFails(s) ==
    /\ listing[s] = "scraping"
    /\ listing' = [listing EXCEPT ![s] = "idle"]
    /\ UNCHANGED <<browser, manager, active, removed, crashes>>

\* The popup's test closes the tab when it has its answer.
Tested ==
    /\ listing[Popup] = "scraping"
    /\ UNCHANGED pollCounts
    /\ CloseIfOwned(Popup, "poll")
    /\ AfterClose(Popup)
    /\ UNCHANGED <<browser, tabState, stored, ensuring, recovering, active, removed, crashes>>

\* A verdict or a cancel: resetPollCount, then closeIfOwned.
Ends(s) ==
    /\ s \in active
    /\ active' = active \ {s}
    /\ pollCounts' = [pollCounts EXCEPT ![s] = 0]
    /\ CloseIfOwned(s, "end")
    /\ UNCHANGED <<browser, tabState, stored, ensuring, recovering, listing, removed, crashes>>

-----------------------------------------------------------------------------
(***************************************************************************)
(* The browser's user, and the worker's restart.                           *)
(***************************************************************************)
User ==
    /\ \E t \in Tabs :
          \/ tab[t] = "unborn" /\ tab' = [tab EXCEPT ![t] = "messages"]
          \/ t \in Open /\ tab' = [tab EXCEPT ![t] = "closed"]
          \/ t \in OnMessages /\ tab' = [tab EXCEPT ![t] = "away"]
          \/ tab[t] = "away" /\ tab' = [tab EXCEPT ![t] = "back"]
    /\ UNCHANGED <<opened, manager, listing, active, removed, crashes>>

\* The worker dies and the next one starts recoverFromRestart.  A tab that is
\* being created is found by a later query at most; one being removed may stay.
Crash ==
    /\ crashes < MaxCrashes
    /\ crashes' = crashes + 1
    /\ tabState' = NoState
    /\ ensuring' = "idle"
    /\ listing' = [c \in Clients |-> "idle"]
    /\ pollCounts' = [s \in Sessions |-> 0]
    /\ closing' = {}
    /\ recovering' = stored
    /\ UNCHANGED <<browser, stored, active, removed>>

Recovers ==
    /\ recovering.tab # NoTab
    /\ recovering' = NoState
    /\ \/ recovering.tab \in OnMessages /\ tabState' = recovering /\ UNCHANGED stored
       \/ recovering.tab \notin OnMessages /\ stored' = NoState /\ UNCHANGED tabState
    /\ UNCHANGED <<browser, ensuring, pollCounts, closing, listing, active, removed, crashes>>

-----------------------------------------------------------------------------
TabNext ==
    \/ \E c \in Clients : Asks(c)
    \/ Revalidates
    \/ Queries
    \/ Creates
    \/ Persisted
    \/ \E s \in Sessions : Scraped(s) \/ ScrapeFails(s) \/ Ends(s)
    \/ Tested
    \/ \E call \in closing : RemovesTab(call) \/ CloseEnds(call)
    \/ User
    \/ Crash
    \/ Recovers

TabSpec == TabInit /\ [][TabNext]_tabVars

-----------------------------------------------------------------------------
\* closeIfOwned never closes a tab that the user opened, whichever tabs are
\* found, recovered or replaced while its calls and those of ensureTab overlap.
UserTabsKept == removed \subseteq opened

\* A tab is the extension's own wherever that is recorded: in memory, in
\* storage, while recovering, and in the calls that are closing it.
OwnershipTrue ==
    /\ tabState.owned => tabState.tab \in opened
    /\ stored.owned => stored.tab \in opened
    /\ recovering.owned => recovering.tab \in opened
    /\ \A call \in closing : call.tab \in opened

\* ensureTab creates no second tab ("prevent duplicate tab creation"): two
\* tabs the extension opened are never both on Google Messages, unless the
\* user had left one and came back to it.
OneOpenedTab == \A t, u \in opened : tab[t] = "messages" /\ tab[u] = "messages" => t = u
=============================================================================
