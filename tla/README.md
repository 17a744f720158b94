# InboxKey: a verification of the background, its pages and its native host

InboxKey is a browser extension (Plasmo, Manifest V3) that watches a verification-code
field of a web page, polls the user's mailboxes and Google Messages for a code, and fills
it in. The background is a service worker that Chrome kills and restarts at will, so its
core is a set of small asynchronous state machines over `chrome.storage`,
`chrome.alarms`, `chrome.tabs` and ports, and what is hard to get right in it is what
happens *between two awaits*. This directory models those state machines in TLA+, and with
them the native host behind them and the reading and matching of messages, checks them
with TLC and proves the main invariants with TLAPS.

Paths below are relative to `src/extension/src/` unless they start with `src/`.

- [1. Inventory](#1-inventory)
- [2. The modules, and how they correspond to the code](#2-the-modules-and-how-they-correspond-to-the-code)
- [3. The runs](#3-the-runs)
- [4. Fairness](#4-fairness)
- [5. The proofs](#5-the-proofs)
- [6. Where the code and its comments disagree](#6-where-the-code-and-its-comments-disagree)
- [7. What is not modelled, and the plan](#7-what-is-not-modelled-and-the-plan)

## 1. Inventory

| component | state | operations | what is hard | what makes it correct |
|---|---|---|---|---|
| **Session poller** `background/session-poller.ts` | `activeSchedules`, `executedPolls`, one `setTimeout` and one `chrome.alarm` per poll | `schedulePolls`, `cancelPolls`, `onAlarm`, `executePoll` | two timers of one poll race; alarms outlive the worker, timeouts do not | a poll runs once per worker life, and again after a restart only if its completion was not stored |
| **Session controller** `background/session-controller.ts` | the `sessions` Map, its image in `chrome.storage.session`, the `baselineCapturing` set | `initialize`, `startSession`, `cancelSession`, `handlePoll` / `pollForCode` | polls overlap across awaits, cancels race verdicts, writes are rejected, the worker dies | one decision per session, one live session per tab, no reported session comes back, every watch ends |
| **Provenance gate** `processPollResult` in the same file | per-mailbox baselines, `newArrivalCodes`, the snapshot of text messages | capture a baseline, compare a poll with it, accept a candidate | the first poll of each mailbox defines what is old; a mailbox may fail at its first poll; a snapshot is another session's | what is kept arrived in the session's own time; what a poll took is not hidden |
| **Watch port** `background/index.ts` (`attachPort`, `handleWatchPortMessage`, `deliverSessionCompletion`, `cleanupSessionContext`) | `tabContexts` (port and session of each tab), `sessionContexts` | connect, START_SESSION, STOP_SESSION, disconnect, deliver a result | the handlers read the context after their awaits; the ports of two watches of a tab overlap | results go to the page that asked, the two Maps agree, every session ends |
| **Watch session** `contents/watch-session.ts`, `contents/index.ts` | `port`, `sessionId`, the module's `activeWatch` | `start` (guardrails, connect, settings), `stop`, `handlePortMessage`, `cleanup`, `beforeunload` | replaced, closed or unloaded during an await; the worker disappears | one watch per page; a watch ends |
| **Google Messages tab** `lib/providers/google-messages/tab-manager.ts`, `adapter.ts` | `tabState` (tab, owned), its stored image, `ensureMutex`, `pollCounts` | `ensureTab`, `closeIfOwned`, poll budget, `recoverFromRestart` | shared by all SMS sessions and the popup; the user moves and closes tabs | never closes the user's tab; opens no second tab |
| **Mailbox and settings storage** `lib/storage/*`, message handlers of `background/index.ts` | mailboxes, settings, session state in `chrome.storage` | add, update, remove, `mutateSettings`, migration | read-modify-write from several contexts; `AsyncMutex` covers one context | every operation is one step on the current value; no duplicate mailbox; every request is answered |
| **Email polling** `lib/services/*` | adapters, seen-message store with hit and miss TTLs | `pollOnce`, `hasSeen`, `add` | one adapter fails, another answers; entries expire during a poll; two stores write one key | a message is taken once |
| **Popup cache and handler** `background/popup-cache.ts`, `popup-handler.ts`, `lib/popup/*` | `items`, their stored image | merge, dedup, `markCodeUsed`, sync, restore | marks, merges and the restore after a restart interleave | a used code stays used |
| **Rate limiters, error state** `background/*-rate-limiter.ts`, `error-state-manager.ts` | timestamps and errors in `chrome.storage.session` | `canSync`/`recordSync`, `tryAcquirePoll`, `recordFailure`/`recordSuccess` | check and record are separate awaits in one, shared in the other | polls that pages trigger are a cool-down apart |
| **Native messaging client** `lib/native-messaging/client.ts` | port, `pendingRequests`, reconnect cool-down | `request`, `handleMessage`, `handleDisconnect`, `disconnect` | late answers, timeouts, disconnects with requests pending | a caller waits only for the process its port is connected to |
| **InboxBridge** `src/inboxbridge/src/*` | `accounts.json`, `accounts.lock`, keychain entries | account add / remove / update, poll, cleanup | several processes at once; a step of several fails; a process dies | no password without an account; a mailbox of the extension is served |
| **Matching, scoring** `src/packages/extraction-core/src/matching/*` | none | affinity, recency, shape | five weights are added | a better code is never beaten by a worse one; a code of another site is not filled in |
| **Extraction** `src/packages/extraction-core/src/extraction/*` | none | windows, candidates, vetoes, confidence, links | a dozen heuristics vote on every number of a message | the announced code wins; a number without a keyword is not taken |
| **Field detection, cool-down, passwordless watcher** `lib/detection/*` | detected set, cool-down registry, mutation queue, focus gates, processed representatives | detect, batch, gate, clean up | four guards against detecting an input twice, released on a dozen ways out | a session that ends releases all of them |
| **Autofill, automation safety** `contents/autofill.ts`, `lib/automation/*` | none kept | fill, submit, demote | DOM | full automation is demoted on payment pages |
| **Blacklist, domain preferences** `lib/utils/*` | lists in storage | add, remove, match | unserialised writes | no lost entry |
| **Chip, badge, feedback; popup and options pages; reviewer app** | presentation | | | |

How they interact: the page's `WatchSession` opens a port and sends START_SESSION; the port
handler calls `SessionController.startSession`, which cancels the tab's older sessions,
stores the new one and arms `SessionPoller`. Each timer calls back into `handlePoll`, which
asks the email adapters and, for SMS fields, the Google Messages adapter, whose tab is
shared. A verdict goes through the `onSessionCompleted` callback to
`deliverSessionCompletion` and along the tab's current port to the page. The popup shares
the mailboxes, the Messages tab and the popup cache with the sessions.

The hazards, each at its line and with the properties that cover it, are listed under
`hazards` in `PROJECT.json`.

## 2. The modules, and how they correspond to the code

JavaScript runs one turn at a time. **An action is the code between two awaits that leave
the event loop, with every synchronous call it makes**; promises that are merely chained
are not separate steps. A storage write is made at the turn that asks for it and resolves
at a later one, in which the caller goes on. The worker may die between any two actions.
In the native host an action is what happens between two calls to the file system, the
keychain or the mail server.

```
SessionOutcome  <==refines==  SessionController  --extends-->  SessionPoller
                                     |  seen from outside
                                     +-- WatchPort ------- seen from the page: FieldAgent
                                     +-- ProvenanceGate -- extends --> EmailPolling
                                     |   (what a poll decides)              ^
                                     +-- MessagesTab                        |
                                     +-- MailReading -- extends --> CodeMatching
AtomicStore     <==refines==  MailboxStore        PopupInbox -- extends --> EmailPolling
                              NativeBridge
FieldAgent -- extends --> FieldDetection -- extends --> SplitGroups
           -- extends --> SubmitButton
proofs:   <module>Proofs for SessionController, WatchPort, ProvenanceGate, MailboxStore,
          PopupInbox and FieldAgent; CodeMatchingProofs for CodeMatching and MailReading;
          ProviderProofs for MessagesTab and NativeBridge
TLC:      MC<module> gives the constants of each module their values
```

The cut between the session modules: SessionController knows that a poll answers "code",
"nothing" or "skipped", and when; ProvenanceGate knows which messages the answer rests on
and takes from SessionController that a session has one poll at a time between sentinel
and result (`SentinelExclusive`); MailReading knows how a message becomes a code with a
shape, a sender and an age, and CodeMatching which of the codes wins. ProvenanceGate ranks
codes by `Beats`, an order in which the parts of the score do not conflict; that the sum of
the points respects such an order is `BetterWins` of CodeMatching.

### SessionPoller

State and synchronous effect of each method of the scheduler. A poll is a pair
`<<session, index>>`. `timeouts`, `alarms` and `executedPolls` are the pending timers and
the claims; `elapsed[s] = k` says that the offset of poll `k` of session `s` has gone by,
which is all the schedule's milliseconds decide. `chrome.alarms.clear` is asynchronous, so
an alarm that is already due may still be delivered (`ClearAlarms`). `PollerCrash` drops
everything the worker holds; alarms stay.

### SessionController

`sessions` and `session` are the Map and its objects, `stored` the image in
`chrome.storage.session`, `booting` what `initialize` has read and not merged yet. Each
`startSession` call is followed through `start` (scanning the tab's sessions, saving,
done), each `cancelSession` through `cancels` (closing the Messages tab, saving, failing),
each `handlePoll` through `handler`:

| step | code |
|---|---|
| `fetching` | from the guards of `handlePoll` to the sentinel of `pollForCode` |
| `polling` | holds `baselineCapturing`, awaits the adapters |
| `closing` | verdict decided, awaiting `closeIfOwned` of an SMS session |
| `ending` | verdict stored, about to be reported |
| `failing` | a write without a verdict was rejected; the catch block is next |

`pollsCompleted` is an array that may hold an index twice; the code looks at its members
and its length, and the model keeps both. A poll's result is `code`, `nothing` or `skipped`
(the sentinel was held). What `processPollResult` compares to decide between the first two
is left to the provenance gate's module. Writes may be rejected, up to `MaxFailures`.

A session of an earlier worker life has `start = "over"`: its START_SESSION call is gone.

### SessionOutcome

What the controller promises about each session: opened once, decided at most once per
worker life, announced only after a decision; a worker death leaves an unannounced session
suspended or gone, and an announced one is never resumed. `SessionController!OutcomeSpec`
is this specification under the mapping `Verdict` (from Map, storage and `booting`) and
"announced = has a report".

### WatchPort

One tab: the `WatchSession` objects its pages create and the background's context of the
tab. A watch has one port and sends at most one START_SESSION, so `w` names the watch, its
port and its session. `up` holds the messages to the worker, of all ports together;
`InOrder` says whether messages of *different* ports may overtake each other (those of one
port never do). `down[w]` is the queue to the page's end of port `w`. `stop()` does nothing
unless the watch has its port (`Stoppable`), `cleanup` disconnects after the messages it
posted, `beforeunload` disconnects the ports in any order. The controller appears as
`sessions`, `status`, `starting`, `deciding`, `cancels`: an active session may be decided
at any time, and writes succeed. A session is `adrift` once it has lost a poll (`LosePoll`:
skipped at `session-controller.ts:502`, or claimed before `initialize` had loaded it, `:433`);
it may still be decided but need not, until the next worker schedules its polls again.
`orphaned` collects the results for which
`deliverSessionCompletion` falls back to `chrome.tabs.sendMessage`; the content scripts
have no `onMessage` listener, so nobody receives them.

### MessagesTab

One Google Messages tab manager and its clients: `listRecent` of each SMS session and the
popup's account test. `chrome.tabs.get/query/create/remove` are asked at one turn and
answered at a later one; the user opens, closes and navigates tabs in between. `ensuring` is
the one `_ensureTab` behind `ensureMutex`; clients that come meanwhile wait for it and all
go on when it settles, with the `tabState` *of that turn*. `closing` is the set of
`closeIfOwned` calls that wait for `chrome.tabs.remove`; `CloseEnds` forgets whichever tab
is in use by then. A tab that was navigated away and back is told apart (`"back"`) because
`OneOpenedTab` has to.

### EmailPolling

`pollOnce` with its adapters in parallel, over the seen-message store. A client is a watch
session, which uses the controller's instance of the store, or the popup handler, which has
its own. `adapter[c][b]` follows one adapter through `listRecent` and its batch,
`todo[c][b]` is what is left of the batch; `mem`, `loaded` and `disk` are the two Maps, the
lazy load of each, and the one key of `chrome.storage.session` that both write whole. A
message has a kind: its mailbox, its conversation, whether its receipt time can be told (the list of
conversations shows that of a text in words; the host gives every email one),
whether the extractor finds a code in it, and the key of that code. The words of a text's time are rounded ("5 min", `adapter.ts:190-201`); the
model takes the time they give for its time of receipt, so that what it says of the grace
of texts holds up to a minute, or an hour where the words count hours. `Uid` numbers the
messages of a mailbox as they come in: the host lists the highest UIDs
(`src/inboxbridge/src/imap_client.rs:182-254`), so two emails of one instant are in a known
order. A mailbox loses no messages. `Kept` is the end of
`pollOnce`: the newest candidate of each key (`dedupeCandidates`), and of those the newest
`KeepTopN`. Entries expire (`HitTtl`, `MissTtl`); an adapter may fail or exceed the poll's
deadline.

### ProvenanceGate

`pollForCode` and `processPollResult`: the baseline of every mailbox, in the session and
stored; the snapshot that seeds the baseline of a later session; the freshness gates; the
choice of the best code, the settling delay of texts and the strict gate. `taken` is
history: how often a message was taken. The instance has two scenes (`MCProvenanceGate!InScene`): two sessions
with texts in a short time, and one session with texts and mail in a longer one. Both at
once add states without adding meetings, because sessions share the snapshot and the store
and nothing of the mail baselines.

### MailReading, CodeMatching

A message is a sequence of words, each with a place, a width and a kind: keyword, weak
keyword, label ("zip code"), promotion, reset, help, phone, reference, number, year, URL,
link, magic (the wording of a sign-in link), danger, talk of programs, prose, filler. Of the tables of phrases in 21
languages it is the kind that matters, of a regular expression the words it admits. Over
that the extractor is followed step by step: windows around keywords and their merging, the
slices in which patterns are matched (a longer number at the edge of a window shows as a
shorter one), grouped digits, the vetoes, the sum of the confidence in ten-thousandths with
its cap, the sort, the score of the link and the choice between link and code in
`pollOnce`. `Read` is one message in `pollOnce`, `Keep` and `Drop` are the two ways a
candidate leaves the gate, and `Match` of CodeMatching is the end of `processPollResult`:
affinity of sender and site over labels and tokens, decay, session window, shape, use,
eligibility and the strict gate, in points. That a fresh text settles for some seconds
before it is filled in (`SMS_AUTOFILL_SETTLE_MS`) only puts `Match` off to a later poll; the
gate's module has it. Domains are what the public-suffix library
returns: `Suffix[d]` says how many labels belong to the suffix. The decay tables are given
by value, rounded as the code rounds; the proofs only use that they do not rise.

`real` is what the sender of a message means; only the properties look at it.

### MailboxStore, AtomicStore

`PlaintextStorage` with one mutex per JavaScript context, and the requests that use it:
add, remove and update a mailbox, connect, repair and disconnect Google Messages, domain
preferences, the blacklist, the two settings paths, the startup migration. A request is a
sequence of stages; a stage reads, or writes what it computed from what it read. Calls of
one context take effect in the order of issue (`pipe`), those of different contexts in any
order. The notification inside the lock has no effect on the store and is part of the
write. `AtomicStore` is what callers rely on: every operation is one step on the current
value. `outlook` rows are legacy rows: they make `getMailboxes` throw until they are
migrated.

### PopupInbox

`PopupHandler` with both limiters, `PopupCache` and the polls of watch sessions, which merge
into the same cache. `leader` is the holder of `acquirePromise`, `asked[c]` the time of the
last poll as it was read; the time of a poll is taken in the turn that writes it. `cache`
is the list in memory and `stored` its image. `initialize`, and every handler that finds the
memory empty, asks for the image and later sets the memory to what the image was then,
whatever has happened to the memory meanwhile; `reads` holds the reads under way, each with
who goes on when it is answered:

| action | code |
|---|---|
| `InitializeAsks`, `HandlerAsks`, `CountBadge` (cold) | `chrome.storage.session.get` of `initialize`, `getCache`, `getInternalCache` (`popup-cache.ts:112`, `:147`, `:396`) is called |
| `ReadAnswered` | it resolves: the memory is set, and `initialize`, GET_POPUP_DATA, MARK_CODES_SEEN, MARK_CODE_USED or the badge of a poll goes on with what was read |
| `MarkUsed`, `MarkSeen`, `CountBadge` (warm) | the same handlers with a list in memory: one turn |
| `Update`, `Wipe` | `updateWithNewCodes` and `warmCache`, which read nothing |
| `Clear` | CLEAR_ALL_CODES removes the image first |

`Replaced` is the pipeline of
`updateWithNewCodes`: `Eligible` filters by age, score and the safety of a link, `Deduped`
keeps the newest of each value in a time bucket, `Ahead` is the order of `computePriority`,
and the first `MaxItems` are saved. A new list has no used items and no background caller
passes the domain of a tab, so the order is recency, then the usual length of a code:
the weights (0.55 by steps of at least 0.3, 0.10 by 0.4) make the former outweigh the
latter. What an item's text decides (its normalised value with the domain, the filters'
answer about score and link, the usual length) is `Shape`. The badge itself, and whether an
item was seen, are left out, and writes of the list succeed. `raced` is history: the items
that were last marked while another read was under way, which has the list without the
mark; `retaken` the messages that a poll took although one had taken them before.

### NativeBridge

The client of each extension context and the host processes: every context that connects
has a process of its own, and only `accounts.lock` serializes them. `file` is
`accounts.json`, possibly torn by a process that died in `fs::write`; an absent file is an
empty one. `path` and `inode` tell the lock file by its name from the one a process has
open, because an uninstall unlinks it. A dispatch goes through lock, read, write, keychain,
verdict and answer, and may fail at each; the process ends when its port does. `hurt` and
`split` are history that the properties exempt: accounts a fault or an uninstall hit, and
two holders of the lock on two files.

### SplitGroups, FieldDetection

Which inputs are the cells of one code (`split-input-detector.ts`), and whether an input
asks for a code that arrives by mail or text (`tier1-fast.ts`, `tier2-deep.ts`,
`signal-classifier.ts`, `context-validator.ts`). A layout is the sequence of a page's inputs
with type, maxLength, visibility, containers and name; `Group(i)` and `Rep(i)` follow the
leader, the three shapes, the bonus and its suppression. A look is what is seen of an input
and the page around it; a text is the set of the *kinds* of phrases in it, whichever phrase
of whichever language that is. Over that, `Tier1` and `Tier2` are the vetoes and points of
the two detectors in the order of the code.

### SubmitButton

Where the extension may act on a page (`domain.ts`, `blacklist.ts`), where full automation
is demoted (`automation-safety.ts`) and which control `submit-button-finder.ts` picks. A
site is its host, what its texts speak of, and its controls in the order of the document;
the user's rules are the popup's switch, the blacklist, strictness and the default. Points
and thresholds are the code's.

### FieldAgent

The content script of one page: detector, cool-down registry, focus gate, batches, active
watch, fill and click. Pages mutate and re-render (`MaxPage`), the user focuses, types and
changes rules (`MaxUser`), sessions are created (`MaxSessions`). The settings are read in
the step that scans; the safety demotion is computed when the code comes, and the page may
change before the click. `Orphan` is a representative that some guard holds although no
session, queue or listener can release it; `Forsaken` lists the steps that the code lets do
that.

## 3. The runs

| run | instance | what it shows |
|---|---|---|
| `session_race` | 1 session (email or SMS), 2 polls, 1 death, 1 rejected write, fair | `Coherent`, the inductive part of the proofs; one poll at a time captures a baseline (`SentinelExclusive`), one verdict of racing polls (`OnePollVerdict`), no timeout before the last poll (`TimeoutJustified`), the two timers of a poll run it once (`PollRunsOnce`), a stored completion is not replayed (`NoReplay`), a reported session is never stored as active (`ReportedNotResumed`), and every watch ends unless a poll was skipped or claimed too early (`EndsUnlessPollLost`) |
| `session_restart` | 2 SMS sessions, 1 tab, 1 poll, 1 death | concurrent `startSession` calls leave one live session per tab (`OneLivePerTab`); the controller implements `SessionOutcome` (`OutcomeSpec`) |
| `port_context` | 2 SMS watches, messages out of order, 1 death, lost polls, fair | `sessionContexts` and `context.sessionId` agree (`MapsAgree`), the context's port is open (`PortIsOpen`), the tab-message fallback is used only when nothing better is left (`FallbackJustified`), a session whose page has gone is ended by its port, also one that has lost a poll (`AbandonedEnds`), and every watch whose session loses none ends (`WatchEnds`) |
| `messages_tab` | 2 sessions, popup, 2 tabs, budget 2, 1 death | the user's tabs are not closed (`UserTabsKept`), no second tab is opened (`OneOpenedTab`) |
| `provenance` | 2 sessions and 2 texts, or 1 session with 2 texts and 2 emails; 1 failure or 1 death | whatever may be filled in came in the session's own time (`FreshOnly`); a code taken after the session began is kept (`Caught`); concurrent sessions and a restart do not take a code twice (`TakenOnce`) |
| `storage` | any 3 of 8 requests, 2 contexts, migration, 1 death, fair | no update is lost (`MailboxesKept`, `AtomicSpec`), no duplicate mailbox (`UniqueAccounts`), the popup knows the stored mailboxes (`PopupAgrees`), the blacklist keeps its limit (`BansCapped`), every request is answered (`Answered`) |
| `settings_lost` | 3 settings writers, no death | refutes `MutationKept`: section 6 |
| `popup` | 2 page polls and 1 manual sync, 1 failure; or 1 manual sync and 1 session with the same code twice and 1 read, or a code and 2 reads; 3 instants, 1 death | page polls are a cool-down apart (`AutoPollsApart`); a used code does not come back as new, unless another read was under way when it was marked or both stores let its message be taken again (`UsedStaysUsed`) |
| `native` | 5 requests of which 3 are sent, 3 processes, 1 fault, 1 closed port | whichever step a dispatch dies at, no password is left without its account and a refused add leaves nothing (`NothingOrphaned`), a mailbox is served until the user removes it (`MailboxesServed`), a caller waits only for the process it is connected to (`WaitsOnPort`) |
| `field` | 11 layouts, some 600 looks and 700 sites; 2 page changes, 2 user steps, 2 sessions | only the steps listed leave a guard without an owner (`GuardsReleased`); no code gets two sessions (`OnePerCode`); neither tier, on no path, takes what the other excludes (`Vetoed`); the cells take the watch from the shadow behind them (`GroupWins`); fills happen where the rules allow them and clicks on a proper button of a page that was safe (`ActsAsAllowed`) |
| `matching` | 2844 messages, some of them in pairs, on 18 pages | the announced code is the one collected (`AnnouncedWins`), a number without an announcement is not (`Grounded`), a better code is not beaten (`BetterWins`), the strict page gets a code of its own site (`OwnCodeOnly`) |
| `prose_code` | one of these messages | refutes `ProseNeverCode`: section 6 |

Why the bounds are enough. *Sessions*: two polls overlap, a third adds nothing to what
races; `Deadline` says which offset lies past the timeout, and the schedule is cut there, so
it is the last offset or none. Two sessions in one tab replace each other, and a third meets
no state that the second does not. One death reaches every restart; a second finds what the
first left, which is one of the states the stored image takes anyway. *Port*: two watches are
what "the old one's messages and the new one's context" takes. *Messages tab*: a budget of 2
(5 in the code) keeps "none, some left, spent" apart; two tabs let the extension's own be
replaced while it is being closed. *Provenance*: an undated old text and an arriving one of
the same conversation are what the snippet comparison has to tell apart; two polls of one
session have a mailbox fail at the first and baseline at the second. *Storage*: every pair of
the eight requests, and a third to queue behind them; a blacklist limit of 1 lets two adds
race for the last place. *Provenance, mail*: a baseline of emails never fills in this
instance, which is what the theorem is for. *Popup*: three scenes (`MCPopupInbox!InScene`). At the rate limits nothing reads the list.
Beside them one request of each store is what marks and takes race; a second read is under
way during a mark where one message comes, and where both come there is one. The worker dies
after a request. A cool-down of 2 over the instants 0 to 2, so that the first instant after it is
reached; two messages with one code, which share a bucket when they come in the first two
instants, and a life of 1, so that an item outlives its time on the list. *Native*: two contexts and one
successor process; three requests are an add, a second dispatch on the same account and a
third party at the lock. *Field*: a page change during a session and one between two
sessions; the looks are six bases, each with each of 13 kinds of phrases at each of seven
places, and some odd ones, so that every veto meets every way of being detected; the sites
are 360 single controls, 180 pairs, 24 with a flaw, 24 hosts and texts, and five that change
into each other under four sets of rules. A group takes 2 cells and a crowd 3 inputs (3 and
more in the code), so that layouts stay small. *Matching*: two codes, because a sort by a
total order of points is decided by pairs; 864 announcements are the combinations of
beginnings, gaps, other numbers and endings, 168 notices have a number but no announcement,
1728 have a link as well, 80 plain messages vary sender, subject, age and length, and four
are texts; all but these 84 only come first. The place of the other number is before, near
(20 characters) and at the edge of the window (94).

`Symmetric` is used where no liveness property is checked. Deadlock is not checked in any
run: the system rests when its sessions have ended and no user starts another, and the
numbers of sessions, requests and messages are bounded.

## 4. Fairness

Weak fairness is given to what the event loop and Chrome do by themselves: a due timer or
alarm fires, a started promise settles, the clock advances, a dead worker with an alarm
wakes up and loads its sessions, a posted message arrives, an issued storage call is
served, a pairing wait ends. None is given to the user: no start, stop, chip or page
action ever has to happen, and no worker ever has to die. `PollStep` is fair as a whole, so
an adapter answers in the end, with either answer; the adapters have timeouts of their own.
In `WatchPort` fairness makes a session that has lost no poll (`status[s] = "active"`) reach
its timeout; that is what `EndsUnlessPollLost` establishes for the controller, with the same
exceptions. An `adrift` session has no such assumption: `WatchEnds` exempts it, and
`AbandonedEnds` rests on the delivery of the port's disconnect alone. In `MailboxStore`,
`Serve(c)` is the next storage call of context `c` and `Pairing(h)` the bounded wait of a
Google Messages repair. The other modules state no liveness: a poll that is lost with its
worker, a native request whose process hangs (60 s) or a field that is forsaken has no
promise in the code to check.

## 5. The proofs

The theorems hold for every number of sessions, watches, clients, tabs, requests, processes,
messages, polls, deaths, faults and rejected writes, and every world of domains, pages,
layouts, looks and codes. They assume what the modules assume of their constants: counts and budgets are
positive, bounds are naturals, ids of different kinds are distinct, the stored records one
starts from are well-formed and without duplicates, the decay table does not rise and a
session polls for at most 120 seconds. TLC evaluates these assumptions in the runs. What a
theorem assumes beyond them it says itself, and so does this section.

**SessionControllerProofs**, in three parts. *Types*: `Typing` is `[]TypeOK`. *Safety*: the
theorems rest on `IInv == TypeOK /\ Coherent /\ SentinelExclusive /\ OneLivePerTab`
(`Invariance`). None of the three safety properties is inductive alone. `ReportedNotResumed`
needs to know, at the step that reports, that the stored image no longer says "active":
that is `VerdictsDurable`, which needs that a handler at `closing` or `ending` belongs to a
decided session (`HandlersClaimed`) and that a cancel under way has decided its session
(`CancelsDecided`), and that nothing is stored for ids that have not been handed out
(`SessionsBorn`). `OneLivePerTab` needs `CancelsDecided`, because a startSession that
resumes creates its session in the same turn in which it finds no active one.
`PollRunsOnce` follows from `HandlersClaimed`: an active session's handler that has left
`idle` is claimed, so no second timer begins it. *Verdicts*, each an invariant on top of
`IInv`: `OnePollVerdict` needs that a decided session has one decider, whoever is still on
its way to report (`OneDecider`); `NoReplay` that storage is never ahead of the Map, nor of
what is being restored (`StorageBehind`); `TimeoutJustified` that without a rejected write
`pollsCompleted` holds each index once and none before its time, in the Map, in storage and
in what is being restored (`OnTime`). `NoneLost`, that the Map has what a call under way
works on and a session active in storage is being restored, is for the refinement. `DecidedOnce` is the refinement of `SessionOutcome`: each action of the
controller is a step of the outcome or a stutter, a worker's death being the one step that
may take the verdicts of several sessions back at once.

**WatchPortProofs.** `MapsAgree` and `PortIsOpen` are each inductive as they stand; the
lemmas go through the handlers that touch the context. `FallbackJustified` speaks of the
time before the first death of the worker, and so do the types and the agreement of
messages, ports and sessions that its proof rests on; after a death it promises nothing,
and the type invariant of such states stays with TLC.

**ProvenanceGateProofs.** `CodesTakenOnce`: a message that a poll took is remembered by the
store that the sessions share, in memory if it was loaded and else on disk (`TakenMarked`),
and what is remembered is not read again. The entries are stored in the turn in which the
message is read, so a death forgets none. The theorem assumes `HitTtl > MaxTime`: entries of
messages with a code do not expire while one looks, which is 24 hours in the code; after
that a message is out of every window, but `Window` is a constant of its own here.

`OnlyFresh` is `[]FreshOnly` and needs no such assumption. Texts, and all messages of a
mailbox at its first poll, have their time compared; an email of a mailbox with a baseline is
taken because the baseline lacks it, whatever its age. So the invariant (`Gate`) says what a
listing is: a message that is in the mailbox and not in the batch or the baseline came after
the session began, or they are full, with `PerProviderMax` messages that are all newer
(`Listed`); and of a baseline's messages those newer than one of a later batch are in that
batch too (`Follows`). If a hit were older than the session and missing from a full baseline,
its batch would have all of the baseline and the hit, which are `PerProviderMax + 1`
(`NewEmailFresh`). That a mailbox is listed in the order of arrival and loses no messages is
what this rests on: an email that is *moved* into the inbox late, or a deletion that lets an
old one back into the list, is outside of the model. That the invariant also speaks of the
stored baselines is what makes it survive a death of the worker.

`TakenKept` is `[]Caught` while hits stay in the store (`HitTtl > MaxTime`) and no poll is cut
short with a code unread (`[]Uncapped`). A baseline is the whole batch of the poll that read
it, and that poll went through the batch: each message with a code was remembered, or already
so, or too old (`Marked`). So whatever a baseline has that the session is due is remembered or
out of the window for good, in memory and in storage (`Recollect`), and a poll takes neither
(`Unhidden`); a snapshot is older than the sessions it seeds (`Snap`). Nothing that is
remembered is forgotten (`MemoryStep`), also not by the death of a worker whose store had not
been loaded. Without `Uncapped` it is false, and TLC finds the violation with `GlobalMax = 1`:
when `GlobalMax` hits are enough, the rest of a batch goes into the baseline all the same and
is taken by a later poll, which then holds it for old. `email-polling-service.ts:214-217`
sets 20 hits for a poll and 8 messages for a mailbox, so it takes three mailboxes full of
codes. `Uncapped` holds throughout the run `provenance`.

**MailboxStoreProofs.** First the order of calls (`Ordering`): types; the stages on the path
of each request; that the holder of a context's mutex and its queue are just the requests at
a locked stage, each there once; that whoever is between its read and its write holds the
mutex (`Exclusive`); and that the migration reads and writes before any request does
(`MigratesFirst`). On that `StoreSafe`: what is about to be written was computed from what
is stored (`Current`), ids and accounts are unique, what a request added or removed is there
or gone (`Born`, `Targets`, `Gone`), and the popup's view follows. `OneMailboxPerAccount`,
`NothingLostOrRevived`, `PopupFollows` and `BlacklistCapped` are its consequences.
`Refinement` says that `MailboxStore` implements `AtomicStore` provided that no request is
one of the three that write settings outside the mutex (`Disciplined`): this is no matter of
proof, the run `settings_lost` exhibits what those three do.

**PopupInboxProofs.** `PollsApart`: whoever checks or records holds `acquirePromise`
(`Leads`), so that what it was told of the last poll is still so when it decides (`Told`),
and the polls so far are apart and not after the last (`Spaced`); a cool-down is positive
(30 s in the code). `UsedForGood` follows the items everywhere they may come back from: the
memory, its stored image, and every read that is under way (`Everywhere`). None of these
lists has an unmarked item of a used code, unless the mark was set while another read was
under way or the message was taken again (`MarksKept`): a mark is written to memory and
image in one turn, so only a list that was asked for before lacks it. From a poll an item
can only come with a message that this poll took (`ReplacedByShown`: filters, groups and
order only leave items out), and a message that was taken once is with one poll or among the
items (`HitOnce`, `AllTaken`). As long as one store writes, what was taken is marked there
beyond the run (`TakenMarked`), so nothing is taken again before both have written
(`BothWrote`). It assumes `HitTtl > MaxTime`, as above.

**ProviderProofs**, in two parts. *The native host*: `IInv` is `Shape`, which always holds,
and `Books`, which holds unless an uninstall split the lock. *Shape*: types, the places each
kind of dispatch comes to, when it has a verdict, that what a caller has got is what its
dispatch decided and that it waits for its context's process until then. *Books*: the holder
of the lock is alone between its read and its write (`Alone`); what is in the file and in
the keychain follows from how far each add and remove has come (`Booked`, `Entries`); an
uninstall's snapshot names every password it has yet to delete (`Snapshots`); what was added
successfully is served or leaving (`Served`). The accounts a fault hit are out of all of
these. The one assumption on data: a torn file is none that lists accounts.

*The Google Messages tab*: `UserTabsKept` says nothing of the `owned` flags and is not
inductive; with the flag followed through memory, storage, recovery and the calls under way
it is (`Owned`). `NoSecondTab` adds to the types that while a tab is being created none that
the extension opened is on Google Messages (`OneTab`): the query under the mutex found none.
The two components share no variable; MessagesTab calls its specification `TabSpec`, so that
one module can extend both.

**CodeMatchingProofs.** `BestCode` is `[]BetterWins`. The matched code leads the eligible
ones in points, so it suffices that a better code has more points (`BetterScores`): of the
five parts of the sum none is smaller and that of sender, age or shape is greater;
the window, which no order mentions, follows the age (`WindowMonotone`, which needs that a
session polls for at most 120 seconds); and the 250 points for use outweigh the 250 a
fresher message can gain, as `Decay` is at least 1, because the unused code is in the window
and the other parts are no smaller. `OwnCode` is `[]OwnCodeOnly`: the two gates ask for an
affinity of 6 and, on a page without a positive signal, of 9 (`LetIn`); what has 9 is the
site or an alias, what has 6 at least shares a token (`AffinityReason`), which below a
suffix of one label is one of the site's name (`OverlapNames`). `BestOfMail` says both of
MailReading, where what is collected is what was read out of messages (`MailInv`).

`HasGrounds` is `[]Grounded`, for any messages. `LaidOut` goes through the words of a part
by their number, the smallest counterexample at a time: what Laid makes of a part is words
of the part, each behind the one before. Then the anchors of a body are ordered by their
middles, and a word that a window shows is within 140 characters of one (`NearKeyword`):
take the first keyword of the window that does not lie more than 140 characters before the
word; if it lay more than 140 behind it, it would be the first of a window of its own, for
whichever keyword it was joined to is at most 20 characters before its reach. A body without
a window has no anchor, so it was admitted for a label or a brand (`CodeGrounded`). Of links
(`LinkGrounded`), one whose address an anchor has can only be collected from an anchor, and
what is not refused there is harmless. The assumption on messages (`LetterAssumption`) is
what makes an id a text: that of a link is no number's, and one address is the same address
wherever it stands. That the exemption of the brand is for every number of the body, and not
only for the one it opens with, has a message in the run.

**FieldAgentProofs.** `Typed`, the invariant the others rest on, is more than types: it says
what the record of a session has at each stage (`Sound`), that only one that was told to
submit comes to submitting, that it was judged by then and has no button before its click.
*Detection* (`NeverExcluded`) needs no invariant but that the SMS setting is a Boolean. What
a tier goes by is contained in what the field and its surroundings say, and a text that says
more is no more readable (`MoreUnreadable`), so what one of the tiers accepts, none of the
vetoes is about (`Passing`); and only a scan or a mutation detects (`DetectsOnly`). *Acting*
(`ActsAllowed`): `ButtonChoice` is the lemma about `findSubmitButton`: of any number of
controls it picks at most one, visible, enabled and not dangerous, and one without a safe
label only if it is native and no native control of the form has one. Only `Submit` gives a
session its button (`ClickIsSubmit`), and whoever comes to it carries the page it was judged
on.

*Guards and sessions.* Two theorems are about pages whose groups do not overlap (`Disjoint`:
whoever is in a representative's group has that representative). Then the guards of a group
are lifted and put up without those of another (`Tidy`), which `LetsGo` (`GuardsReleased`)
goes through action by action, each with the one of the sets that keeps the field in
somebody's hands; and two representatives are never of one code (`OneSession`,
`OnePerCode`), for which the expected length of a group has to be the number of its cells
(`AsManyAsCells`). The code does not make groups disjoint: `getSimilarSiblings` starts from
the input it is given and climbs until a container fits, so that two inputs may find
different groups with a common cell. `Even` says where they do not, of the markup alone: the
inputs of each group are not hidden, have the same containers or each a wrapper besides
(`SideBySide`), and take as many characters as one another or all leaders of the page take
as many. Then whichever input of a group is asked, the climb goes through the same
containers, finds the same similar inputs in each and stops at the same one
(`CellsClimbAlike`, `CellsShareTheirGroup`), and `EvenPages` has both properties without a
word about groups. All layouts of the run `field` are even but one (`ledout`, a leader
outside of the container of its cells, which also make a group without it); `OnePerCode`
leaves such pages out (`Together`), and `GuardsReleased` holds there as far as TLC has seen.

`CellsWin` (`GroupWins`) is about pages where an input that is not displayed breaks up no
group of those that are (`Firm`): a group that `isShadowReplacement` does not find, because
it looks at the displayed inputs alone, does not take the watch. `Plain` says where that is
so, again of the markup alone: no input is hidden itself, and a suppressed one differs from
the cells of every group in its type or maximum. Neither what is similar to a cell nor what
makes a group then depends on what has a box (`GroupStays`), and `PlainPages` has the
property; all layouts of the run are plain, those with an input behind the cells included.
These four are conditions on the layout, which no step changes, so they are hypotheses about
the page one starts on and no invariants.

Only model-checked:

- the liveness properties, because the prover has no rules for fairness: `AbandonedEnds`,
  `WatchEnds`, `EndsUnlessPollLost`, `Answered`;
- `AnnouncedWins` of MailReading, which is no theorem of all messages: of one that announces
  two codes alike either may be collected. It is about the announcements the run composes;
- the types of WatchPort after a worker's death;
- `GuardsReleased` on layouts whose groups overlap, of which the run has one.

## 6. Where the code and its comments disagree

Two of these have a run that exhibits them (`findings` in `PROJECT.json` quotes the lines):

- `settings_lost`: `lib/storage/settings-rpc.ts` promises that a mutation acknowledged by
  the worker is not clobbered by another writer; `SET_AUTOMATION_LEVEL` reads, changes and
  writes the settings outside the mutex and does.
- `prose_code`: the extractor's comments say that the default alphanumeric mode rejects
  words without digits, and that only an explicit wish for letters admits them.
  `deriveExpectedShape` sends `alnum` for every field that is not numeric, and the extractor
  takes that for the wish: "please" before "your verification code" is collected, ahead of
  the digits, because it also gets the points for the character set.

The models also contain these, which no run singles out; a property that would fail on one
names it as an exception.

*Sessions.* A poll that the sentinel turns away never runs again, so a session whose first
or middle poll is skipped stays active (`session-controller.ts:502`; the comment at `:470`
looks at the skipped poll only). An alarm that wakes the worker before `initialize` has
loaded the sessions is claimed and dropped (`:433`, `session-poller.ts:12`). A cancel
between a verdict and its save, or two cancels of an SMS session, report the session twice
(comment at `:453`). A `startSession` before the stored sessions are merged leaves two
active sessions in one tab. A rejected write after a poll without a code counts that poll
twice, and the session times out before its last poll: `TimeoutJustified` exempts it.

*Port.* A result is posted to the port the tab has *now*, and the page does not compare
session ids: the cancel of a replaced session ends its replacement (`index.ts:797`). A port
that disconnects while `startSession` is awaiting cancels nothing (`index.ts:694`;
`architecture.md:181` says otherwise). A watch stopped during its guardrails opens its port
all the same (`watch-session.ts:281`). After a worker restart results go to
`chrome.tabs.sendMessage`, which no content script receives.

*Messages tab.* A session has no poll count before its first scrape, so the end of another
session closes the tab under it (`tab-manager.ts:137` and the comment at `:129`). A scrape
that outlives its session creates the counter again; `closeIfOwned` then closes nothing
until the worker restarts.

*Provenance, seen stores.* The snapshot of text messages is written by the poll that seeds
a baseline and by no other (`session-controller.ts:924`, comments at `:922` and `:1310`).
The session controller and the popup handler each have a seen store
(`session-controller.ts:249`, `popup-handler.ts:30`), which overwrite each other's entries:
the header of `seen-message-store.ts` (`:5-7`) says that an email is never processed again,
but a message may be when both write, and `UsedStaysUsed` exempts it.

*Popup.* Two handlers that find the memory empty both read the stored list, and the later
answer overwrites what the earlier one, or a poll, has made of it (`popup-cache.ts:144-160`,
`:390-411`): two marks at once keep one, and a mark made during the startup's read is undone
in memory. `UsedStaysUsed` exempts marks made while another read is under way.

*Storage.* The preference handler looks for the domain in the blacklist outside the lock
(`blacklist.ts:150`): an unban in between leaves the preference off and the domain not
listed. A repair that finds the Messages tab unpaired removes a mailbox without telling the
popup. `canSync` and `recordSync` are two awaits, so two syncs may pass.

*Native host.* An uninstall unlinks the lock file and splits the lock, and one that races an
add leaves a password (`cleanup.rs` calls itself atomic). A process that dies in `fs::write`
leaves a torn `accounts.json`, which the next one repairs to an empty one. The client gives
up after 30 seconds, the host after 60: an add that comes late succeeds without a mailbox
(`MailboxesServed` is about mailboxes). A process that dies between an account and its
password leaves the account without one (`NothingOrphaned` is about passwords).
Removing a mailbox drops it before the host has answered and ignores its refusal; the host
removes the account although the keychain refused.

*Field.* A filled field that is cleared stays in `detected` (`contents/index.ts:137`), as do
the runner-up fields of a scan and the fields found while the level was manual. A port that
disconnects, or `stop()`, calls no callback, so the guards stay. A disconnect between the
code and the fill lets the fill's own `focus()` start a new session. Every mutation restarts
the timer of the scan. All of these are steps `Forsaken` names, or states no guard is held in.
A group's leader outside the container of its cells, or cells that take several characters,
make "one group whichever cell one begins with" false (`OnePerCode` names both); the path of
the page load does not look at shadows whose only cues are caret and text. The setup of an
authenticator that only the title speaks of, or a captcha that only `aria-describedby`
speaks of, is not refused by Tier 2. The passwordless watcher never retries a URL that the
30 s cool-down refused.

*Automation.* The demotion of full automation is decided before the fill's awaits and not
again before the click (`automation-safety.ts:4-6` says that payment controls are never
clicked): a page that meanwhile turned into a payment page gets its click. A field that has
left the document makes the finder search the whole page, with distances from its corner. An
unlabelled submit button reaches the threshold by its type, its container and its distance,
also outside the field's form. A card form with a ZIP word counts as an address form and is
not demoted. A blacklisted site that the popup's switch turned on runs the content script,
but each of its sessions is vetoed (`domain.ts` gives the switch the highest priority,
`WatchSession.start` does not). `ActsAsAllowed` is stated so that all of these are allowed.

*Matching.* `tokenOverlap` takes "com" of `ikea.com.tr` for a part of the name, and every
sender below `.com` shares it (`OwnCodeOnly` exempts such sites). The header of
`code-matcher.ts` gives other weights (−50 for use, 100 for the session) than the
configuration. A length off by one counts as fitting. When the best code is suppressed the
second is not looked at, strict or not.

*Extraction.* Where a footer follows the code or the page names no length, a link may score
more than the code; it is collected as `magic-link:` and its URL, which can be filled in
(`session-controller.ts:1020`): `AnnouncedWins` exempts it. Windows are cut before patterns
are matched, so a longer number at the edge of one yields a piece of it. The first eight of
twelve digits in groups of four are a code. A number before the keyword that is closer wins.
A message whose only keywords are labels counts as having strong keywords and is read
whole, without the form of a brand that other messages without keywords need, and one that
opens in that form is read whole too, not just the number it opens with: `Grounded` exempts
both. "phone" or "call" within 40 characters drops the code.

## 7. What is not modelled, and the plan

Within the modelled components: cleanup of old sessions and the getters of the controller;
the pairing handlers, the readiness wait and the scraper of Google Messages; `clearAll`, the
storage subscribers and the codes store; the error state, which only a banner shows; the
version check and the conversion of messages of the native client, and the IMAP exchange
(input and output of a library); the tables of phrases, of which the models keep the kinds;
the passwordless watcher; the events of a fill; in the extractor the conversion from HTML
and more than one other link in a message.

Not modelled at all: chip, badge, feedback and notifications, the popup and options pages,
which are presentation over the background's messages; and the reviewer application, which
is a separate tool and not part of the extension.

Next, in this order:

1. Proofs: `GuardsReleased` of FieldAgent where groups overlap; the types of WatchPort after a
   worker's death.
2. The passwordless watcher, the pairing handlers of Google Messages, and the error state.
