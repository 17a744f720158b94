---------------------------- MODULE EmailPolling ----------------------------
(***************************************************************************)
(* Mailboxes, the adapters' batches and EmailPollingService.pollOnce       *)
(* (lib/services/email-polling-service.ts) over the seen-message store     *)
(* (lib/services/seen-message-store.ts).                                   *)
(*                                                                         *)
(* The session controller and the popup handler each own an instance of    *)
(* the store; both write the whole Map under one key of                    *)
(* chrome.storage.session.  A client polls: a watch session, which uses    *)
(* the controller's instance, or a sync of the popup handler.              *)
(***************************************************************************)
EXTENDS Naturals, FiniteSets

CONSTANTS
    Clients,     \* whoever polls: each has one poll at a time
    PopupClients,\* those of the popup handler, which has its own store
    Messages,    \* messages that may arrive
    Old,         \* those that were there, and read, from the start
    Kind,        \* Kind[m]: box, conversation, whether m has a receipt time,
                 \* whether the extractor finds a code in it, and the key of
                 \* that code: its value and sender, or the link
    Uid,         \* Uid[m]: numbers the messages of a mailbox as they come in
    SmsBox,      \* the Google Messages mailbox
    EmailBoxes,  \* the IMAP mailboxes
    Window,      \* age a message may have: timeWindowMin
    PerProviderMax, GlobalMax, KeepTopN,  \* caps of pollOnce
    HitTtl, MissTtl,                      \* of entries of the seen store
    MaxTime,     \* bound: the clock
    MaxFailures  \* bound: adapters that fail

Boxes == EmailBoxes \cup {SmsBox}

ASSUME BoxesAssumption == SmsBox \notin EmailBoxes
ASSUME OldAssumption == Old \subseteq Messages
\* The host gives every email a time: the server's, or that of the answer.
ASSUME KindAssumption ==
    \A m \in Messages : /\ Kind[m].box \in Boxes
                        /\ Kind[m].dated \in BOOLEAN
                        /\ Kind[m].hit \in BOOLEAN
                        /\ Kind[m].box # SmsBox => Kind[m].dated
ASSUME MessagesAssumption ==
    /\ IsFiniteSet(Messages)
    /\ \A m \in Messages : Uid[m] \in Nat
    /\ \A m, n \in Messages : Kind[m].box = Kind[n].box /\ Uid[m] = Uid[n] => m = n
ASSUME CapsAssumption ==
    /\ {PerProviderMax, GlobalMax, KeepTopN} \subseteq Nat \ {0}
    /\ {Window, HitTtl, MissTtl} \subseteq Nat \ {0}
    /\ MaxTime \in Nat /\ MaxFailures \in Nat

VARIABLES
    now,       \* the clock
    arrived,   \* arrived[m]: when m arrived, or Never
    unread,    \* SMS messages the user has not read
    mem,       \* entries of each store instance: when each expires, 0 for none
    loaded,    \* store instances that have read storage
    disk,      \* what chrome.storage.session holds under the key
    adapter,   \* adapter[c][b]: where c's adapter for b is
    todo,      \* todo[c][b]: the rest of the batch c works on
    batch,     \* batch[c][b]: what listRecent of this poll returned
    hits,      \* hits[c]: candidates of this poll so far
    since,     \* since[c]: the oldest receipt time this poll accepts
    failures

pollVars == <<now, arrived, unread, mem, loaded, disk, adapter, todo, batch,
              hits, since, failures>>

Never == MaxTime + 1
Stores == {"watch", "popup"}
StoreOf(c) == IF c \in PopupClients THEN "popup" ELSE "watch"

Sms(m) == Kind[m].box = SmsBox
BoxOf(m) == Kind[m].box
Here(m) == arrived[m] <= now

\* Whether m has a time of receipt: the list of conversations shows a text's
\* in words, which may be none the adapter knows.  The words are rounded ("5
\* min"); the model takes the time they give for the time of receipt, from
\* which it differs by less than the unit they name.
Dated(m) == Kind[m].dated

\* A message as an adapter sees it.
Sightings == [msg : Messages, unread : BOOLEAN]
Sight(m) == [msg |-> m, unread |-> m \in unread]
AdapterStates == {"none", "asked", "reading", "ok", "failed", "expired"}

PollTypeOK ==
    /\ now \in 0 .. MaxTime
    /\ arrived \in [Messages -> 0 .. Never]
    /\ unread \subseteq Messages
    /\ mem \in [Stores -> [Messages -> Nat]]
    /\ loaded \subseteq Stores
    /\ disk \in [Messages -> Nat]
    /\ adapter \in [Clients -> [Boxes -> AdapterStates]]
    /\ todo \in [Clients -> [Boxes -> SUBSET Sightings]]
    /\ batch \in [Clients -> [Boxes -> SUBSET Sightings]]
    /\ hits \in [Clients -> SUBSET Sightings]
    /\ since \in [Clients -> 0 .. MaxTime]
    /\ failures \in 0 .. MaxFailures

Empty == [m \in Messages |-> 0]
Quiet == [b \in Boxes |-> "none"]
NoBatch == [b \in Boxes |-> {}]

PollInit ==
    /\ now = 0
    /\ arrived = [m \in Messages |-> IF m \in Old THEN 0 ELSE Never]
    /\ unread = {}
    /\ mem = [st \in Stores |-> Empty]
    /\ loaded = {}
    /\ disk = Empty
    /\ adapter = [c \in Clients |-> Quiet]
    /\ todo = [c \in Clients |-> NoBatch]
    /\ batch = [c \in Clients |-> NoBatch]
    /\ hits = [c \in Clients |-> {}]
    /\ since = [c \in Clients |-> 0]
    /\ failures = 0

-----------------------------------------------------------------------------
(***************************************************************************)
(* The world.                                                              *)
(***************************************************************************)
Tick ==
    /\ now < MaxTime
    /\ now' = now + 1
    /\ UNCHANGED <<arrived, unread, mem, loaded, disk, adapter, todo, batch, hits,
                   since, failures>>

Arrive(m) ==
    /\ ~ Here(m)
    /\ \A n \in Messages : BoxOf(n) = BoxOf(m) /\ arrived[n] = now => Uid[n] < Uid[m]
    /\ arrived' = [arrived EXCEPT ![m] = now]
    /\ unread' = IF Sms(m) THEN unread \cup {m} ELSE unread
    /\ UNCHANGED <<now, mem, loaded, disk, adapter, todo, batch, hits, since, failures>>

\* The user reads m on the phone.
ReadByUser(m) ==
    /\ m \in unread
    /\ unread' = unread \ {m}
    /\ UNCHANGED <<now, arrived, mem, loaded, disk, adapter, todo, batch, hits,
                   since, failures>>

-----------------------------------------------------------------------------
(***************************************************************************)
(* The seen store.                                                         *)
(***************************************************************************)
Live(entries) == [m \in Messages |-> IF now < entries[m] THEN entries[m] ELSE 0]

\* load: once per instance, entries that have not expired.
Loaded(st) ==
    IF st \in loaded
    THEN mem[st]
    ELSE [m \in Messages |-> IF disk[m] > now THEN disk[m] ELSE mem[st][m]]

HasSeen(st, m) == now < Loaded(st)[m]

\* add: set the entry, drop what has expired and write the whole Map.
\* Variant: the entry is kept in memory and written with a later one.
BugAddUnwritten(st, m) ==
    LET ttl == IF Kind[m].hit THEN HitTtl ELSE MissTtl
        entries == [Loaded(st) EXCEPT ![m] = now + ttl]
    IN  /\ mem' = [mem EXCEPT ![st] = [x \in Messages |->
                                          IF now < entries[x] THEN entries[x] ELSE 0]]
        /\ loaded' = loaded \cup {st}
        /\ disk' = Live(mem[st])

Add(st, m) ==
    LET ttl == IF Kind[m].hit THEN HitTtl ELSE MissTtl
        entries == Live([Loaded(st) EXCEPT ![m] = now + ttl])
    IN  /\ mem' = [mem EXCEPT ![st] = entries]
        /\ loaded' = loaded \cup {st}
        /\ disk' = entries

-----------------------------------------------------------------------------
(***************************************************************************)
(* listRecent.                                                             *)
(***************************************************************************)
Newer(m, n) ==
    arrived[m] > arrived[n] \/ (arrived[m] = arrived[n] /\ Uid[m] > Uid[n])

\* Google Messages shows each conversation's last message; an IMAP mailbox
\* lists its newest messages, in the order of their UIDs.
IsListing(b, ms) ==
    IF b = SmsBox
    THEN /\ \A m \in ms : \A n \in Messages :
                Sms(n) /\ Here(n) /\ Kind[n].conv = Kind[m].conv => ~ Newer(n, m)
         /\ \A n \in Messages : Sms(n) /\ Here(n) =>
                Cardinality({m \in ms : Kind[m].conv = Kind[n].conv}) = 1
    ELSE /\ \A m \in ms, n \in Messages \ ms :
                BoxOf(n) = b /\ Here(n) => ~ Newer(n, m)
         /\ LET all == {n \in Messages : BoxOf(n) = b /\ Here(n)}
            IN  Cardinality(ms) = IF Cardinality(all) < PerProviderMax
                                  THEN Cardinality(all) ELSE PerProviderMax

Listings(b) == {ms \in SUBSET {n \in Messages : BoxOf(n) = b /\ Here(n)} : IsListing(b, ms)}

-----------------------------------------------------------------------------
(***************************************************************************)
(* pollOnce.                                                               *)
(***************************************************************************)
BeginPoll(c, boxes) ==
    /\ adapter' = [adapter EXCEPT ![c] =
                      [b \in Boxes |-> IF b \in boxes THEN "asked" ELSE "none"]]
    /\ todo' = [todo EXCEPT ![c] = NoBatch]
    /\ batch' = [batch EXCEPT ![c] = NoBatch]
    /\ hits' = [hits EXCEPT ![c] = {}]
    /\ since' = [since EXCEPT ![c] = IF now > Window THEN now - Window ELSE 0]
    /\ UNCHANGED <<now, arrived, unread, mem, loaded, disk, failures>>

\* listRecent answers: the whole batch is shown to onAdapterBatch.
BatchArrives(c, b) ==
    /\ adapter[c][b] = "asked"
    /\ \E ms \in Listings(b) :
          /\ batch' = [batch EXCEPT ![c][b] = {Sight(m) : m \in ms}]
          /\ todo' = [todo EXCEPT ![c][b] = {Sight(m) : m \in ms}]
    /\ adapter' = [adapter EXCEPT ![c][b] = "reading"]
    /\ UNCHANGED <<now, arrived, unread, mem, loaded, disk, hits, since, failures>>

AdapterFails(c, b) ==
    /\ adapter[c][b] = "asked"
    /\ failures < MaxFailures
    /\ failures' = failures + 1
    /\ \E how \in {"failed"} \cup (IF b = SmsBox THEN {"expired"} ELSE {}) :
          adapter' = [adapter EXCEPT ![c][b] = how]
    /\ UNCHANGED <<now, arrived, unread, mem, loaded, disk, todo, batch, hits, since>>

TooOld(c, m) == Dated(m) /\ arrived[m] < since[c]

\* Variant: the store is not asked.
BugNotAsked(c, x) == ~ TooOld(c, x.msg)

Unprocessed(c, x) == ~ TooOld(c, x.msg) /\ ~ HasSeen(StoreOf(c), x.msg)

\* The next message of the batch that is neither too old nor seen is
\* extracted and marked; the write of the mark is awaited.
Process(c, b) ==
    /\ adapter[c][b] = "reading"
    /\ Cardinality(hits[c]) < GlobalMax
    /\ \E x \in todo[c][b] :
          /\ Unprocessed(c, x)
          /\ Add(StoreOf(c), x.msg)
          /\ todo' = [todo EXCEPT ![c][b] = @ \ {x}]
          /\ hits' = IF Kind[x.msg].hit THEN [hits EXCEPT ![c] = @ \cup {x}] ELSE hits
    /\ UNCHANGED <<now, arrived, unread, adapter, batch, since, failures>>

\* Nothing of b's batch is left to process; the store was asked if a message
\* was recent enough.
Exhausted(c, b) ==
    \/ Cardinality(hits[c]) >= GlobalMax
    \/ \A x \in todo[c][b] : ~ Unprocessed(c, x)

Answered(c) ==
    \A b \in Boxes : /\ adapter[c][b] # "asked"
                     /\ adapter[c][b] = "reading" => Exhausted(c, b)

\* The store is loaded when it is asked about a message.
StoreAsked(c) ==
    /\ IF \E b \in Boxes : \E x \in todo[c][b] : ~ TooOld(c, x.msg)
       THEN /\ mem' = [mem EXCEPT ![StoreOf(c)] = Loaded(StoreOf(c))]
            /\ loaded' = loaded \cup {StoreOf(c)}
       ELSE UNCHANGED <<mem, loaded>>
    /\ UNCHANGED disk

\* The newest hit of each key, and of those the newest KeepTopN; an undated
\* one counts as the oldest.
Stamp(m) == IF Dated(m) THEN arrived[m] + 1 ELSE 0
KeyOf(x) == Kind[x.msg].key
Kept(c, top) ==
    /\ top \subseteq hits[c]
    /\ \A x, y \in top : KeyOf(x) = KeyOf(y) => x = y
    /\ LET keys == Cardinality({KeyOf(x) : x \in hits[c]})
       IN  Cardinality(top) = IF keys < KeepTopN THEN keys ELSE KeepTopN
    /\ \A y \in hits[c] \ top :
          LET twins == {x \in top : KeyOf(x) = KeyOf(y)}
          IN  \A x \in IF twins = {} THEN top ELSE twins : Stamp(x.msg) >= Stamp(y.msg)

EndPoll(c) ==
    /\ since' = [since EXCEPT ![c] = 0]
    /\ adapter' = [adapter EXCEPT ![c] = Quiet]
    /\ todo' = [todo EXCEPT ![c] = NoBatch]
    /\ batch' = [batch EXCEPT ![c] = NoBatch]
    /\ hits' = [hits EXCEPT ![c] = {}]

AdapterStep(c, b) ==
    BatchArrives(c, b) \/ AdapterFails(c, b) \/ Process(c, b)

PollCrash ==
    /\ mem' = [st \in Stores |-> Empty]
    /\ loaded' = {}
    /\ adapter' = [c \in Clients |-> Quiet]
    /\ todo' = [c \in Clients |-> NoBatch]
    /\ batch' = [c \in Clients |-> NoBatch]
    /\ hits' = [c \in Clients |-> {}]
    /\ since' = [c \in Clients |-> 0]
    /\ UNCHANGED <<now, arrived, unread, disk, failures>>
=============================================================================
