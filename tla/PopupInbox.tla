----------------------------- MODULE PopupInbox -----------------------------
(***************************************************************************)
(* The popup handler (background/popup-handler.ts) with its rate limiters, *)
(* the popup cache (background/popup-cache.ts) and the polls of watch      *)
(* sessions, which write the same cache.  The badge is left out, and with  *)
(* it whether an item was seen; that it is counted is a read of the cache. *)
(*                                                                         *)
(* The cache is in memory and in chrome.storage.session.  A new worker has *)
(* none: initialize reads the stored list, and so does every handler that  *)
(* finds the memory empty, and each sets the memory to what it was given   *)
(* when its read is answered, whatever has been set meanwhile.             *)
(***************************************************************************)
EXTENDS EmailPolling

CONSTANTS
    Autos,        \* TRIGGER_INBOX_POLL requests of content scripts
    Manuals,      \* TRIGGER_SYNC requests of the popup
    Watchers,     \* polls of watch sessions
    Cooldown,     \* AUTO_POLL_COOLDOWN_MS
    MinInterval,  \* MIN_INTERVAL_MS
    MaxItems,     \* MAX_ITEMS
    Shape,        \* Shape[m]: the normalised code or link of m with its domain,
                  \* whether its score and link pass the filters, and whether
                  \* the code has a usual length
    CodeTtl,      \* CODE_TTL_MS, LINK_TTL_MS
    Breakpoints,  \* RECENCY_BREAKPOINTS
    Bucket,       \* DEDUP_TIME_BUCKET_MINUTES
    None,         \* nobody, no cache in memory
    MaxStarts,    \* bound: requests of all clients
    MaxReads,     \* bound: reads of the stored list under way
    MaxCrashes    \* bound: service-worker deaths in a behaviour

ASSUME ClientsAssumption ==
    /\ Clients = Autos \cup Manuals \cup Watchers
    /\ PopupClients = Autos \cup Manuals
    /\ Autos \cap Manuals = {} /\ Watchers \cap PopupClients = {}
    /\ None \notin Clients
ASSUME LimitsAssumption ==
    /\ {Cooldown, MinInterval, MaxItems, MaxStarts, MaxReads, MaxCrashes} \subseteq Nat
    /\ Cooldown > 0
ASSUME ShapeAssumption ==
    /\ {CodeTtl} \cup Breakpoints \subseteq Nat
    /\ Bucket \in Nat \ {0}
    /\ \A m \in Messages : Shape[m].shown \in BOOLEAN /\ Shape[m].usual \in BOOLEAN

VARIABLES
    pc,        \* where the request of each client is
    starts,    \* requests so far
    leader,    \* the auto poll that holds acquirePromise
    asked,     \* last_auto_poll_time as an auto poll has read it
    lastAuto,  \* last_auto_poll_time in chrome.storage.session
    lastSync,  \* last_sync_time in chrome.storage.session
    cache,     \* items in memory, or None before they are read
    stored,    \* items in chrome.storage.session
    reads,     \* reads of the stored list that have not been answered
    boot,      \* where the startup of the worker is
    used,      \* history: messages whose item was marked used
    acquired,  \* history: auto polls allowed at each time
    writers,   \* history: the seen stores that have written
    taken,     \* history: messages that some poll took as a hit
    retaken,   \* history: those that a poll took again
    raced,     \* history: messages whose item was last marked while another
               \* read of the list was under way
    crashes

limits == <<starts, leader, asked, lastAuto, lastSync>>
items == <<cache, stored, reads, boot>>
takes == <<writers, taken, retaken>>
history == <<used, acquired, takes, raced>>
popupVars == <<pc, limits, items, history, crashes>>
vars == <<pollVars, popupVars>>

\* An undated message counts as received when it was converted.
Item(m) == [msg |-> m, at |-> IF Dated(m) THEN arrived[m] ELSE now,
            used |-> FALSE]
Items == [msg : Messages, at : 0 .. Never, used : BOOLEAN]
Reads == [what : {"start", "open", "seen", "mark", "count"},
          who : Clients \cup Messages \cup {None}, list : SUBSET Items]
Places == {"idle", "check", "record", "polling", "update", "badge", "counting"}

TypeOK ==
    /\ PollTypeOK
    /\ pc \in [Clients -> Places]
    /\ starts \in 0 .. MaxStarts
    /\ leader \in Autos \cup {None}
    /\ asked \in [Autos -> 0 .. Never]
    /\ lastAuto \in 0 .. Never /\ lastSync \in 0 .. Never
    /\ cache \in (SUBSET Items) \cup {None}
    /\ stored \subseteq Items
    /\ reads \subseteq Reads
    /\ boot \in {"start", "wait", "up"}
    /\ used \subseteq Messages /\ raced \subseteq Messages
    /\ taken \subseteq Messages /\ retaken \subseteq Messages
    /\ writers \subseteq Stores
    /\ acquired \in [0 .. MaxTime -> Nat]
    /\ crashes \in 0 .. MaxCrashes

Init ==
    /\ PollInit
    /\ pc = [c \in Clients |-> "idle"]
    /\ starts = 0
    /\ leader = None
    /\ asked = [c \in Autos |-> Never]
    /\ lastAuto = Never /\ lastSync = Never
    /\ cache = None /\ stored = {} /\ reads = {}
    /\ boot = "start"
    /\ writers = {} /\ taken = {} /\ retaken = {}
    /\ used = {} /\ raced = {}
    /\ acquired = [t \in 0 .. MaxTime |-> 0]
    /\ crashes = 0

Goto(c, place) == pc' = [pc EXCEPT ![c] = place]
Starts(c) ==
    /\ pc[c] = "idle"
    /\ starts < MaxStarts
    /\ starts' = starts + 1

Recent(last, span) == last # Never /\ now - last < span

-----------------------------------------------------------------------------
(***************************************************************************)
(* Rate limits.                                                            *)
(***************************************************************************)
\* Variant: every caller checks and records for itself.
BugMayLead(c) == TRUE

\* tryAcquirePoll: while one call is in flight every other gets FALSE.
MayLead(c) == leader = None

\* The leader asks for the time of the last poll.
AutoPoll(c) ==
    /\ c \in Autos
    /\ Starts(c)
    /\ MayLead(c)
    /\ leader' = c
    /\ asked' = [asked EXCEPT ![c] = lastAuto]
    /\ Goto(c, "check")
    /\ UNCHANGED <<pollVars, lastAuto, lastSync, items, history, crashes>>

\* The leader is given the time it asked for and writes that of this turn.
AutoCheck(c) ==
    /\ c \in Autos /\ pc[c] = "check"
    /\ asked' = [asked EXCEPT ![c] = Never]
    /\ \/ /\ Recent(asked[c], Cooldown)
          /\ leader' = None
          /\ Goto(c, "idle")
          /\ UNCHANGED <<lastAuto, acquired>>
       \/ /\ ~ Recent(asked[c], Cooldown)
          /\ lastAuto' = now
          /\ acquired' = [acquired EXCEPT ![now] = @ + 1]
          /\ Goto(c, "record")
          /\ UNCHANGED leader
    /\ UNCHANGED <<pollVars, starts, lastSync, items, used, takes, raced, crashes>>

\* The time is written; the leader polls.
AutoRecord(c) ==
    /\ c \in Autos /\ pc[c] = "record"
    /\ leader' = None
    /\ Goto(c, "polling")
    /\ BeginPoll(c, EmailBoxes)
    /\ UNCHANGED <<starts, asked, lastAuto, lastSync, items, history, crashes>>

Sync(c) ==
    /\ c \in Manuals
    /\ Starts(c)
    /\ Goto(c, IF Recent(lastSync, MinInterval) THEN "idle" ELSE "record")
    /\ UNCHANGED <<pollVars, leader, asked, lastAuto, lastSync, items, history, crashes>>

SyncRecord(c) ==
    /\ c \in Manuals /\ pc[c] = "record"
    /\ lastSync' = now
    /\ Goto(c, "polling")
    /\ BeginPoll(c, EmailBoxes)
    /\ UNCHANGED <<starts, leader, asked, lastAuto, items, history, crashes>>

WatchPoll(c) ==
    /\ c \in Watchers
    /\ Starts(c)
    /\ Goto(c, "polling")
    /\ BeginPoll(c, Boxes)
    /\ UNCHANGED <<leader, asked, lastAuto, lastSync, items, history, crashes>>

-----------------------------------------------------------------------------
(***************************************************************************)
(* Polls and the cache.                                                    *)
(***************************************************************************)
PollOnce(c) ==
    /\ pc[c] = "polling"
    /\ \E b \in Boxes : AdapterStep(c, b)
    /\ writers' = IF mem' = mem THEN writers ELSE writers \cup {StoreOf(c)}
    /\ LET new == {x.msg : x \in hits'[c] \ hits[c]}
       IN  /\ taken' = taken \cup new
           /\ retaken' = retaken \cup (new \cap taken)
    /\ UNCHANGED <<pc, limits, items, used, acquired, raced, crashes>>

PollAnswered(c) ==
    /\ pc[c] = "polling"
    /\ Answered(c)
    /\ StoreAsked(c)
    /\ \E top \in SUBSET hits[c] : Kept(c, top) /\ hits' = [hits EXCEPT ![c] = top]
    /\ todo' = [todo EXCEPT ![c] = NoBatch]
    /\ Goto(c, "update")
    /\ UNCHANGED <<now, arrived, unread, adapter, batch, since, failures>>
    /\ UNCHANGED <<limits, items, history, crashes>>

Save(list) == cache' = list /\ stored' = list

\* filterPopupItems: an item that is recent, that is safe and scores enough.
\* Items that were used a while ago are hidden too: no list here has any that
\* counts.
Within(x, span) == now <= x.at + span
Eligible(x) == Within(x, CodeTtl) /\ Shape[x.msg].shown

\* dedupeByKey: the newest of those with the same value in the same bucket.
Twins(x, y) == Shape[x.msg].value = Shape[y.msg].value /\ x.at \div Bucket = y.at \div Bucket
Deduped(list) ==
    {one \in SUBSET list : \A x \in list : \E y \in one :
        /\ Twins(x, y) /\ y.at >= x.at
        /\ \A z \in one : Twins(y, z) => z = y}

\* computePriority without a tab: recency outweighs a usual length.
Recency(x) == Cardinality({span \in Breakpoints : Within(x, span)})
Ahead(x, y) ==
    \/ Recency(x) > Recency(y)
    \/ Recency(x) = Recency(y) /\ Shape[x.msg].usual /\ ~ Shape[y.msg].usual

\* updateWithNewCodes replaces the items by the first MaxItems of this poll.
Shown(c) == {Item(x.msg) : x \in hits[c]}
Replaced(list) ==
    \E one \in Deduped({x \in list : Eligible(x)}) : \E top \in SUBSET one :
        /\ Cardinality(top) = IF Cardinality(one) < MaxItems THEN Cardinality(one) ELSE MaxItems
        /\ \A x \in top, y \in one \ top : ~ Ahead(y, x)
        /\ Save(top)

\* A poll without hits leaves the items alone; a manual sync still counts.
Update(c) ==
    /\ pc[c] = "update"
    /\ IF hits[c] = {} THEN UNCHANGED <<cache, stored>> ELSE Replaced(Shown(c))
    /\ Goto(c, IF c \in Watchers \/ (c \in Autos /\ hits[c] = {}) THEN "idle" ELSE "badge")
    /\ EndPoll(c)
    /\ UNCHANGED <<now, arrived, unread, mem, loaded, disk, failures>>
    /\ UNCHANGED <<limits, reads, boot, history, crashes>>

\* A sync of a mailbox that was removed meanwhile throws before the update.
UpdateFails(c) ==
    /\ pc[c] = "update"
    /\ c \notin Autos
    /\ failures < MaxFailures
    /\ failures' = failures + 1
    /\ Goto(c, "idle")
    /\ EndPoll(c)
    /\ UNCHANGED <<now, arrived, unread, mem, loaded, disk>>
    /\ UNCHANGED <<limits, items, history, crashes>>

-----------------------------------------------------------------------------
(***************************************************************************)
(* What is done to the list, by handlers that have it.                     *)
(***************************************************************************)
Has(list, m) == \E x \in list : x.msg = m
Holds(list) == cache' = list /\ UNCHANGED stored

\* markCodeUsed and markLinkOpened, by the popup and by a session that fills
\* the code.  A read that is still under way has the list without the mark.
Use(m, list) ==
    \/ /\ Has(list, m)
       /\ Save({IF x.msg = m THEN [x EXCEPT !.used = TRUE] ELSE x : x \in list})
       /\ used' = used \cup {m}
       /\ raced' = IF reads' = {} THEN raced \ {m} ELSE raced \cup {m}
    \/ /\ ~ Has(list, m)
       /\ Holds(list)
       /\ UNCHANGED <<used, raced>>

\* markCodesSeen, which writes nothing when all of the list was seen.
SeeAll(list) == Save(list) \/ Holds(list)

-----------------------------------------------------------------------------
(***************************************************************************)
(* Reads of the stored list: initialize, and getCache and getInternalCache *)
(* when the memory is empty.  A read gives what is stored when it is asked *)
(* for; two handlers may both be waiting for theirs.                       *)
(***************************************************************************)
Ask(what, who) ==
    /\ Cardinality(reads) < MaxReads
    /\ ~ \E r \in reads : r.what = what /\ r.who = who
    /\ reads' = reads \cup {[what |-> what, who |-> who, list |-> stored]}

\* The list that the one who asked goes on with, and that the memory is set to.
Given(r) == r.list

\* index.ts: the cache is initialized after the sessions.
InitializeAsks ==
    /\ boot = "start"
    /\ boot' = "wait"
    /\ Ask("start", None)
    /\ UNCHANGED <<pollVars, pc, limits, cache, stored, history, crashes>>

Initialize(r) ==
    /\ r.what = "start"
    /\ Holds(Given(r))
    /\ boot' = "up"
    /\ UNCHANGED <<pc, used, raced>>

\* GET_POPUP_DATA, MARK_CODES_SEEN and MARK_CODE_USED with an empty memory; a
\* mark of a code that is not in the list is like GET_POPUP_DATA.
HandlerAsks ==
    /\ cache = None
    /\ \/ Ask("open", None) \/ Ask("seen", None)
       \/ \E x \in stored : Ask("mark", x.msg)
    /\ UNCHANGED <<pollVars, pc, limits, cache, stored, boot, history, crashes>>

HandlerGoesOn(r) ==
    \/ /\ r.what = "open"
       /\ Holds(Given(r))
       /\ UNCHANGED <<pc, boot, used, raced>>
    \/ /\ r.what = "seen"
       /\ SeeAll(Given(r))
       /\ UNCHANGED <<pc, boot, used, raced>>
    \/ /\ r.what = "mark"
       /\ Use(r.who, Given(r))
       /\ UNCHANGED <<pc, boot>>
    \/ /\ r.what = "count"
       /\ Holds(Given(r))
       /\ Goto(r.who, "idle")
       /\ UNCHANGED <<boot, used, raced>>

ReadAnswered(r) ==
    /\ reads' = reads \ {r}
    /\ Initialize(r) \/ HandlerGoesOn(r)
    /\ UNCHANGED <<pollVars, limits, acquired, takes, crashes>>

\* The end of a poll that found something.
CountBadge(c) ==
    /\ pc[c] = "badge"
    /\ \/ /\ cache # None
          /\ Goto(c, "idle")
          /\ UNCHANGED reads
       \/ /\ cache = None
          /\ Ask("count", c)
          /\ Goto(c, "counting")
    /\ UNCHANGED <<pollVars, limits, cache, stored, boot, history, crashes>>

-----------------------------------------------------------------------------
(***************************************************************************)
(* The user, and the handlers that clear the cache.                        *)
(***************************************************************************)
MarkUsed(m) ==
    /\ cache # None
    /\ \E x \in cache : x.msg = m /\ ~ x.used
    /\ UNCHANGED reads
    /\ Use(m, cache)
    /\ UNCHANGED <<pollVars, pc, limits, boot, acquired, takes, crashes>>

MarkSeen ==
    /\ cache # None
    /\ Save(cache)
    /\ UNCHANGED <<pollVars, pc, limits, reads, boot, history, crashes>>

\* The codes are cleared: first the stored list is removed.
Clear ==
    /\ stored # {}
    /\ stored' = {}
    /\ UNCHANGED <<pollVars, pc, limits, cache, reads, boot, history, crashes>>

\* Then, and when a mailbox was added or removed, warmCache gets an empty list.
Wipe ==
    /\ cache # {} \/ stored # {}
    /\ Save({})
    /\ UNCHANGED <<pollVars, pc, limits, reads, boot, history, crashes>>

\* The worker dies; the next one starts with an empty memory.
Crash ==
    /\ crashes < MaxCrashes
    /\ crashes' = crashes + 1
    /\ PollCrash
    /\ pc' = [c \in Clients |-> "idle"]
    /\ leader' = None
    /\ asked' = [c \in Autos |-> Never]
    /\ cache' = None
    /\ reads' = {}
    /\ boot' = "start"
    /\ UNCHANGED <<starts, lastAuto, lastSync, stored, history>>

World == Tick \/ \E m \in Messages : Arrive(m)

ClientStep(c) ==
    \/ AutoPoll(c) \/ AutoCheck(c) \/ AutoRecord(c)
    \/ Sync(c) \/ SyncRecord(c)
    \/ WatchPoll(c)
    \/ PollOnce(c) \/ PollAnswered(c)
    \/ Update(c) \/ UpdateFails(c) \/ CountBadge(c)

Next ==
    \/ World /\ UNCHANGED popupVars
    \/ \E c \in Clients : ClientStep(c)
    \/ \E m \in Messages : MarkUsed(m)
    \/ MarkSeen
    \/ Clear
    \/ Wipe
    \/ Crash
    \/ InitializeAsks
    \/ HandlerAsks
    \/ \E r \in reads : ReadAnswered(r)

Spec == Init /\ [][Next]_vars

-----------------------------------------------------------------------------
(***************************************************************************)
(* Safety.                                                                 *)
(***************************************************************************)
\* Polls that pages trigger are a cooldown apart, although their requests
\* are concurrent and the worker restarts.
AutoPollsApart ==
    \A t, u \in 0 .. MaxTime :
        /\ acquired[t] <= 1
        /\ t < u /\ u - t < Cooldown => acquired[t] + acquired[u] <= 1

\* What the popup is shown next.
Current == IF cache = None THEN stored ELSE cache

\* A code that was used does not come back as a new one, whatever polls, marks,
\* reads of the stored list and worker deaths come in between.  There are two
\* ways it can: its item was last marked while another handler, or a new
\* worker, was still reading the list; and its message was taken again, which
\* takes both seen stores, each of which overwrites the other's entries.
UsedStaysUsed ==
    \A x \in Current :
        x.msg \in used /\ ~ x.used =>
            x.msg \in raced \/ (x.msg \in retaken /\ writers = Stores)
=============================================================================
