-------------------------- MODULE PopupInboxProofs --------------------------
(***************************************************************************)
(* What holds of the popup handler for every number of clients, messages   *)
(* and worker deaths: automatic polls are a cooldown apart, and a used     *)
(* code comes back as a new one only if its mark raced a read of the list  *)
(* or its message was taken twice, which needs both seen stores.           *)
(***************************************************************************)
EXTENDS PopupInbox, Integers, TLAPS

-----------------------------------------------------------------------------
(***************************************************************************)
(* The invariants.                                                         *)
(***************************************************************************)
\* An automatic poll that checks or records is the one that holds the promise.
Leads == \A c \in Autos : pc[c] \in {"check", "record"} => leader = c

\* What it was told of the last poll is still so.
Told == \A c \in Autos : pc[c] = "check" => asked[c] = lastAuto

\* The polls so far came before the last one, and a cooldown apart.
Before(t) == acquired[t] = 0 \/ (acquired[t] = 1 /\ lastAuto # Never /\ t <= lastAuto)
Spaced ==
    /\ lastAuto # Never => lastAuto <= now
    /\ \A t \in 0 .. MaxTime : Before(t)
    /\ \A t, u \in 0 .. MaxTime :
           t < u /\ acquired[t] = 1 /\ acquired[u] = 1 => u - t >= Cooldown

Rates == Leads /\ Told /\ Spaced

\* Everything that is shown or may be shown again.
ListOf(list) == IF list = None THEN {} ELSE list
Everywhere == ListOf(cache) \cup stored \cup UNION {r.list : r \in reads}
Shows(m) == \E x \in Everywhere : x.msg = m
Hit(c, m) == \E x \in hits[c] : x.msg = m

\* Whatever is shown, used or waiting to be shown was taken by a poll.
AllTaken ==
    \A m \in Messages : m \in used \/ Shows(m) \/ (\E c \in Clients : Hit(c, m)) => m \in taken

\* A message that was taken once is in one place: with the poll that took it,
\* or among the items.
HitOnce ==
    \A c \in Clients, m \in Messages :
        Hit(c, m) /\ m \notin retaken =>
            /\ m \notin used /\ ~ Shows(m)
            /\ \A d \in Clients : Hit(d, m) => d = c

\* No list of items, nor any that is being read, has forgotten a mark, unless
\* it was set during a read or the message was taken again.
MarksKept ==
    \A x \in Everywhere : x.msg \in used => x.used \/ x.msg \in raced \cup retaken

\* As long as one store writes, what was taken is marked there, to the end of
\* the run.
Marked(m) ==
    \E st \in Stores : /\ writers = {st}
                       /\ disk[m] > MaxTime
                       /\ st \in loaded => mem[st][m] > MaxTime
TakenMarked == writers # Stores => \A m \in taken : Marked(m)

\* So nothing is taken twice before the other store writes, too.
BothWrote == retaken # {} => writers = Stores

Singly == AllTaken /\ HitOnce /\ MarksKept /\ TakenMarked /\ BothWrote

-----------------------------------------------------------------------------
\* The filters, the groups and the order only leave items out.
LEMMA ReplacedByShown ==
    ASSUME NEW list, Replaced(list)
    PROVE  \E top \in SUBSET list : cache' = top /\ stored' = top
  BY DEF Replaced, Deduped, Save

-----------------------------------------------------------------------------
(***************************************************************************)
(* The types of a poll and of the store.                                   *)
(***************************************************************************)
LEMMA Numbers ==
    /\ MaxTime \in Nat /\ MaxFailures \in Nat /\ Never = MaxTime + 1
    /\ Window \in Nat /\ HitTtl \in Nat \ {0} /\ MissTtl \in Nat \ {0}
    /\ MaxStarts \in Nat /\ MaxCrashes \in Nat /\ Cooldown \in Nat \ {0}
    /\ \A c \in Clients : StoreOf(c) \in Stores
  BY CapsAssumption, LimitsAssumption DEF Never, StoreOf, Stores

\* What a store instance has after it was loaded.
LEMMA LoadedType ==
    ASSUME PollTypeOK, NEW st \in Stores
    PROVE  Loaded(st) \in [Messages -> Nat]
  BY DEF PollTypeOK, Loaded

LEMMA AddType ==
    ASSUME PollTypeOK, NEW st \in Stores, NEW m \in Messages, Add(st, m)
    PROVE  /\ mem' \in [Stores -> [Messages -> Nat]] /\ loaded' \subseteq Stores
           /\ disk' \in [Messages -> Nat]
<1> DEFINE ttl == IF Kind[m].hit THEN HitTtl ELSE MissTtl
           marked == [Loaded(st) EXCEPT ![m] = now + ttl]
<1>1. ttl \in Nat /\ now \in Nat /\ Loaded(st) \in [Messages -> Nat]
  BY Numbers, LoadedType DEF PollTypeOK
<1>2. marked \in [Messages -> Nat]
  BY <1>1
<1>3. Live(marked) \in [Messages -> Nat]
  BY <1>2 DEF Live
<1> QED
  BY <1>3 DEF Add, PollTypeOK

LEMMA BeginType ==
    ASSUME PollTypeOK, NEW c \in Clients, NEW boxes, BeginPoll(c, boxes)
    PROVE  PollTypeOK'
<1>1. (IF now > Window THEN now - Window ELSE 0) \in 0 .. MaxTime
  BY Numbers DEF PollTypeOK
<1>2. NoBatch \in [Boxes -> SUBSET Sightings]
  BY DEF NoBatch
<1>3. [b \in Boxes |-> IF b \in boxes THEN "asked" ELSE "none"] \in [Boxes -> AdapterStates]
  BY DEF AdapterStates
<1> QED
  BY <1>1, <1>2, <1>3 DEF PollTypeOK, BeginPoll

LEMMA ArrivesType ==
    ASSUME PollTypeOK, NEW c \in Clients, NEW b \in Boxes, BatchArrives(c, b)
    PROVE  PollTypeOK'
<1>1. PICK ms \in SUBSET Messages :
          /\ batch' = [batch EXCEPT ![c][b] = {Sight(m) : m \in ms}]
          /\ todo' = [todo EXCEPT ![c][b] = {Sight(m) : m \in ms}]
  BY DEF BatchArrives, Listings
<1>2. {Sight(m) : m \in ms} \in SUBSET Sightings
  <2>1. \A m \in ms : Sight(m) \in Sightings
    BY DEF Sight, Sightings
  <2> QED
    BY <2>1
<1>3. batch[c] \in [Boxes -> SUBSET Sightings] /\ todo[c] \in [Boxes -> SUBSET Sightings]
      /\ adapter[c] \in [Boxes -> AdapterStates]
  BY DEF PollTypeOK
<1>4. batch' \in [Clients -> [Boxes -> SUBSET Sightings]]
  BY <1>1, <1>2, <1>3 DEF PollTypeOK
<1>5. todo' \in [Clients -> [Boxes -> SUBSET Sightings]]
  BY <1>1, <1>2, <1>3 DEF PollTypeOK
<1>6. adapter' \in [Clients -> [Boxes -> AdapterStates]]
  BY <1>3 DEF PollTypeOK, BatchArrives, AdapterStates
<1> QED
  BY <1>4, <1>5, <1>6 DEF PollTypeOK, BatchArrives

LEMMA FailsType ==
    ASSUME PollTypeOK, NEW c \in Clients, NEW b \in Boxes, AdapterFails(c, b)
    PROVE  PollTypeOK'
<1>1. PICK how \in AdapterStates : adapter' = [adapter EXCEPT ![c][b] = how]
  BY DEF AdapterFails, AdapterStates
<1>2. adapter' \in [Clients -> [Boxes -> AdapterStates]]
  BY <1>1 DEF PollTypeOK
<1> QED
  BY <1>2, Numbers DEF PollTypeOK, AdapterFails

LEMMA ProcessType ==
    ASSUME PollTypeOK, NEW c \in Clients, NEW b \in Boxes, Process(c, b)
    PROVE  PollTypeOK'
<1>1. PICK x \in todo[c][b] :
          /\ Add(StoreOf(c), x.msg)
          /\ todo' = [todo EXCEPT ![c][b] = @ \ {x}]
          /\ hits' = IF Kind[x.msg].hit THEN [hits EXCEPT ![c] = @ \cup {x}] ELSE hits
  BY DEF Process
<1>2. x \in Sightings /\ x.msg \in Messages
  BY DEF PollTypeOK, Sightings
<1>3. /\ mem' \in [Stores -> [Messages -> Nat]] /\ loaded' \subseteq Stores
      /\ disk' \in [Messages -> Nat]
  BY <1>1, <1>2, AddType, Numbers
<1>4. todo' \in [Clients -> [Boxes -> SUBSET Sightings]]
  BY <1>1 DEF PollTypeOK
<1>5. hits' \in [Clients -> SUBSET Sightings]
  BY <1>1, <1>2 DEF PollTypeOK
<1> QED
  BY <1>3, <1>4, <1>5 DEF PollTypeOK, Process

LEMMA AnsweredType ==
    ASSUME PollTypeOK, NEW c \in Clients, PollAnswered(c)
    PROVE  PollTypeOK'
<1>1. Loaded(StoreOf(c)) \in [Messages -> Nat]
  BY LoadedType, Numbers
<1>2. mem' \in [Stores -> [Messages -> Nat]] /\ loaded' \subseteq Stores /\ disk' = disk
  <2>1. StoreAsked(c) /\ StoreOf(c) \in Stores
    BY Numbers DEF PollAnswered
  <2>2. disk' = disk /\ (loaded' = loaded \/ loaded' = loaded \cup {StoreOf(c)})
    BY <2>1 DEF StoreAsked
  <2>3. mem' = mem \/ mem' = [mem EXCEPT ![StoreOf(c)] = Loaded(StoreOf(c))]
    BY <2>1 DEF StoreAsked
  <2> QED
    BY <1>1, <2>1, <2>2, <2>3 DEF PollTypeOK
<1>3. hits' \in [Clients -> SUBSET Sightings]
  BY DEF PollTypeOK, PollAnswered, Kept
<1>4. todo' \in [Clients -> [Boxes -> SUBSET Sightings]]
  BY DEF PollTypeOK, PollAnswered, NoBatch
<1> QED
  BY <1>2, <1>3, <1>4 DEF PollTypeOK, PollAnswered

LEMMA EndType ==
    ASSUME PollTypeOK, NEW c \in Clients, EndPoll(c),
           UNCHANGED <<now, arrived, unread, mem, loaded, disk>>, failures' \in 0 .. MaxFailures
    PROVE  PollTypeOK'
  BY Numbers DEF PollTypeOK, EndPoll, Quiet, NoBatch, AdapterStates

LEMMA CrashType ==
    ASSUME PollTypeOK, PollCrash
    PROVE  PollTypeOK'
  BY Numbers DEF PollTypeOK, PollCrash, Empty, Quiet, NoBatch, AdapterStates, Stores

LEMMA WorldType ==
    ASSUME PollTypeOK, World
    PROVE  PollTypeOK'
<1>1. CASE Tick
  BY <1>1, Numbers DEF Tick, PollTypeOK
<1>2. ASSUME NEW m \in Messages, Arrive(m) PROVE PollTypeOK'
  BY <1>2, Numbers DEF Arrive, PollTypeOK
<1> QED
  BY <1>1, <1>2 DEF World

-----------------------------------------------------------------------------
(***************************************************************************)
(* The types of the popup handler.                                         *)
(***************************************************************************)
\* The types apart from those of the polls.
Own ==
    /\ pc \in [Clients -> Places]
    /\ starts \in 0 .. MaxStarts
    /\ leader \in Autos \cup {None}
    /\ asked \in [Autos -> 0 .. Never]
    /\ lastAuto \in 0 .. Never /\ lastSync \in 0 .. Never
    /\ cache \in (SUBSET Items) \cup {None}
    /\ stored \subseteq Items
    /\ reads \subseteq Reads
    /\ boot \in {"start", "wait", "up"}
    /\ used \subseteq Messages /\ raced \subseteq Messages
    /\ taken \subseteq Messages /\ retaken \subseteq Messages
    /\ writers \subseteq Stores
    /\ acquired \in [0 .. MaxTime -> Nat]
    /\ crashes \in 0 .. MaxCrashes

LEMMA Split == TypeOK <=> PollTypeOK /\ Own
  BY DEF TypeOK, Own

\* A mark on a list that may be shown.
LEMMA UseType ==
    ASSUME Own, NEW m, NEW list \in SUBSET Items, Use(m, list)
    PROVE  /\ cache' \in (SUBSET Items) \cup {None} /\ stored' \subseteq Items
           /\ used' \subseteq Messages /\ raced' \subseteq Messages
<1>1. CASE ~ Has(list, m)
  BY <1>1 DEF Use, Holds, Own
<1>2. CASE Has(list, m)
  <2>1. m \in Messages
    BY <1>2 DEF Has, Items
  <2>2. {IF x.msg = m THEN [x EXCEPT !.used = TRUE] ELSE x : x \in list} \in SUBSET Items
    <3>1. \A x \in list : (IF x.msg = m THEN [x EXCEPT !.used = TRUE] ELSE x) \in Items
      BY DEF Items
    <3> QED
      BY <3>1
  <2>3. raced' \subseteq Messages
    BY <1>2, <2>1 DEF Use, Own
  <2> QED
    BY <1>2, <2>1, <2>2, <2>3 DEF Use, Save, Own
<1> QED
  BY <1>1, <1>2

\* A read that is asked for.
LEMMA AskType ==
    ASSUME Own, NEW what \in {"start", "open", "seen", "mark", "count"},
           NEW who \in Clients \cup Messages \cup {None}, Ask(what, who)
    PROVE  reads' \subseteq Reads
  BY DEF Ask, Own, Reads

\* A read that is answered.
LEMMA AnswerType ==
    ASSUME PollTypeOK, Own, NEW r \in reads, ReadAnswered(r)
    PROVE  PollTypeOK' /\ Own'
<1>1. r.list \in SUBSET Items /\ reads' \subseteq Reads
  BY DEF ReadAnswered, Own, Reads
<1>2. PollTypeOK' /\ UNCHANGED <<limits, acquired, takes, crashes>>
  BY DEF ReadAnswered, pollVars, PollTypeOK
<1>3. /\ cache' \in (SUBSET Items) \cup {None} /\ stored' \subseteq Items
      /\ used' \subseteq Messages /\ raced' \subseteq Messages
  <2>1. CASE Initialize(r)
    BY <1>1, <2>1 DEF Initialize, Holds, Given, Own
  <2>2. CASE HandlerGoesOn(r)
    <3>1. CASE r.what = "mark" /\ Use(r.who, Given(r))
      BY <1>1, <3>1, UseType DEF Given
    <3>2. CASE (Holds(Given(r)) \/ SeeAll(Given(r))) /\ UNCHANGED <<used, raced>>
      BY <1>1, <3>2 DEF Holds, SeeAll, Save, Given, Own
    <3> QED
      BY <2>2, <3>1, <3>2 DEF HandlerGoesOn
  <2> QED
    BY <2>1, <2>2 DEF ReadAnswered
<1>4. pc' \in [Clients -> Places] /\ boot' \in {"start", "wait", "up"}
  BY DEF ReadAnswered, Initialize, HandlerGoesOn, Goto, Places, Own
<1> QED
  BY <1>1, <1>2, <1>3, <1>4 DEF limits, takes, Own

\* Every step of the handler, of its clients and of the world keeps the types.
LEMMA TypeStep == TypeOK /\ [Next]_vars => TypeOK'
<1> SUFFICES ASSUME PollTypeOK, Own, [Next]_vars PROVE PollTypeOK' /\ Own'
  BY Split, PTL
<1>n. /\ MaxTime \in Nat /\ Never = MaxTime + 1 /\ MaxStarts \in Nat /\ MaxCrashes \in Nat
      /\ now \in 0 .. MaxTime
  BY Numbers DEF PollTypeOK
<1>s. \A c \in Clients : StoreOf(c) \in Stores
  BY Numbers
<1>1. ASSUME NEW c \in Clients, AutoPoll(c) PROVE PollTypeOK' /\ Own'
  BY <1>1, <1>n DEF AutoPoll, Starts, Goto, Places, pollVars, items, history, takes, PollTypeOK, Own
<1>2. ASSUME NEW c \in Clients, AutoCheck(c) PROVE PollTypeOK' /\ Own'
  <2>1. /\ pc' \in [Clients -> Places] /\ asked' \in [Autos -> 0 .. Never]
        /\ leader' \in Autos \cup {None} /\ lastAuto' \in 0 .. Never
    BY <1>2, <1>n DEF AutoCheck, Goto, Places, Own
  <2>2. acquired' \in [0 .. MaxTime -> Nat]
    BY <1>2 DEF AutoCheck, Own
  <2> QED
    BY <1>2, <2>1, <2>2 DEF AutoCheck, pollVars, items, takes, PollTypeOK, Own
<1>3. ASSUME NEW c \in Clients, AutoRecord(c) PROVE PollTypeOK' /\ Own'
  <2>1. PollTypeOK'
    BY <1>3, BeginType DEF AutoRecord
  <2> QED
    BY <1>3, <1>n, <2>1 DEF AutoRecord, Goto, Places, items, history, takes, Own
<1>4. ASSUME NEW c \in Clients, Sync(c) PROVE PollTypeOK' /\ Own'
  BY <1>4, <1>n DEF Sync, Starts, Goto, Places, pollVars, items, history, takes, PollTypeOK, Own
<1>5. ASSUME NEW c \in Clients, SyncRecord(c) PROVE PollTypeOK' /\ Own'
  <2>1. PollTypeOK'
    BY <1>5, BeginType DEF SyncRecord
  <2> QED
    BY <1>5, <1>n, <2>1 DEF SyncRecord, Goto, Places, items, history, takes, Own
<1>6. ASSUME NEW c \in Clients, WatchPoll(c) PROVE PollTypeOK' /\ Own'
  <2>1. PollTypeOK'
    BY <1>6, BeginType DEF WatchPoll
  <2> QED
    BY <1>6, <1>n, <2>1 DEF WatchPoll, Starts, Goto, Places, items, history, takes, Own
<1>7. ASSUME NEW c \in Clients, PollOnce(c) PROVE PollTypeOK' /\ Own'
  <2>1. PollTypeOK'
    BY <1>7, ArrivesType, FailsType, ProcessType DEF PollOnce, AdapterStep
  <2>2. \A x \in hits'[c] : x.msg \in Messages
    BY <2>1 DEF PollTypeOK, Sightings
  <2>3. taken' \subseteq Messages /\ retaken' \subseteq Messages
    BY <1>7, <2>2 DEF PollOnce, Own
  <2>4. writers' \subseteq Stores
    BY <1>7, <1>s DEF PollOnce, Own
  <2> QED
    BY <1>7, <2>1, <2>3, <2>4 DEF PollOnce, limits, items, Own
<1>8. ASSUME NEW c \in Clients, PollAnswered(c) PROVE PollTypeOK' /\ Own'
  <2>1. PollTypeOK'
    BY <1>8, AnsweredType
  <2> QED
    BY <1>8, <2>1 DEF PollAnswered, Goto, Places, limits, items, history, takes, Own
<1>9. ASSUME NEW c \in Clients, Update(c) PROVE PollTypeOK' /\ Own'
  <2>1. PollTypeOK'
    BY <1>9, EndType DEF Update, PollTypeOK
  <2>2. Shown(c) \in SUBSET Items
    <3>1. \A x \in hits[c] : Item(x.msg) \in Items
      <4> SUFFICES ASSUME NEW x \in hits[c] PROVE Item(x.msg) \in Items
        OBVIOUS
      <4>1. x.msg \in Messages /\ arrived[x.msg] \in 0 .. Never /\ now \in 0 .. Never
        BY <1>n DEF PollTypeOK, Sightings
      <4> QED
        BY <4>1 DEF Item, Items
    <3> QED
      BY <3>1 DEF Shown
  <2>3. cache' \in (SUBSET Items) \cup {None} /\ stored' \subseteq Items
    BY <1>9, <2>2, ReplacedByShown DEF Update, Own
  <2> QED
    BY <1>9, <2>1, <2>3 DEF Update, Goto, Places, limits, history, takes, Own
<1>10. ASSUME NEW c \in Clients, UpdateFails(c) PROVE PollTypeOK' /\ Own'
  <2>1. failures' \in 0 .. MaxFailures
    BY <1>10, Numbers DEF UpdateFails, PollTypeOK
  <2>2. PollTypeOK'
    BY <1>10, <2>1, EndType DEF UpdateFails
  <2> QED
    BY <1>10, <2>2 DEF UpdateFails, Goto, Places, limits, items, history, takes, Own
<1>11. ASSUME NEW c \in Clients, CountBadge(c) PROVE PollTypeOK' /\ Own'
  <2>1. reads' \subseteq Reads
    BY <1>11, AskType DEF CountBadge, Own
  <2> QED
    BY <1>11, <2>1 DEF CountBadge, Goto, Places, pollVars, limits, history, takes, PollTypeOK, Own
<1>12. ASSUME NEW m \in Messages, MarkUsed(m) PROVE PollTypeOK' /\ Own'
  <2>1. cache \in SUBSET Items /\ Use(m, cache)
    BY <1>12 DEF MarkUsed, Own
  <2>2. /\ cache' \in (SUBSET Items) \cup {None} /\ stored' \subseteq Items
        /\ used' \subseteq Messages /\ raced' \subseteq Messages
    BY <2>1, UseType
  <2> QED
    BY <1>12, <2>2 DEF MarkUsed, pollVars, limits, takes, PollTypeOK, Own
<1>13. CASE MarkSeen
  BY <1>13 DEF MarkSeen, Save, pollVars, limits, history, takes, PollTypeOK, Own
<1>14. CASE Wipe \/ Clear
  BY <1>14 DEF Wipe, Clear, Save, pollVars, limits, history, takes, PollTypeOK, Own
<1>15. CASE Crash
  <2>1. PollTypeOK'
    BY <1>15, CrashType DEF Crash
  <2>2. asked' \in [Autos -> 0 .. Never]
    BY <1>15, <1>n DEF Crash
  <2> QED
    BY <1>15, <1>n, <2>1, <2>2 DEF Crash, Places, history, takes, Own
<1>16. CASE InitializeAsks \/ HandlerAsks
  <2>1. \A x \in stored : x.msg \in Messages
    BY DEF Own, Items
  <2>2. reads' \subseteq Reads
    BY <1>16, <2>1, AskType DEF InitializeAsks, HandlerAsks
  <2>3. boot' \in {"start", "wait", "up"}
    BY <1>16 DEF InitializeAsks, HandlerAsks, Own
  <2>4. UNCHANGED <<pollVars, pc, limits, cache, stored, history, crashes>>
    BY <1>16 DEF InitializeAsks, HandlerAsks
  <2> QED
    BY <2>2, <2>3, <2>4 DEF pollVars, limits, history, takes, PollTypeOK, Own
<1>19. ASSUME NEW r \in reads, ReadAnswered(r) PROVE PollTypeOK' /\ Own'
  BY <1>19, AnswerType
<1>17. CASE World /\ UNCHANGED popupVars
  <2>1. PollTypeOK'
    BY <1>17, WorldType
  <2> QED
    BY <1>17, <2>1 DEF popupVars, limits, items, history, takes, Own
<1>18. CASE UNCHANGED vars
  BY <1>18 DEF vars, pollVars, popupVars, limits, items, history, takes, PollTypeOK, Own
<1> QED
  BY <1>1, <1>2, <1>3, <1>4, <1>5, <1>6, <1>7, <1>8, <1>9, <1>10, <1>11, <1>12, <1>13, <1>14,
     <1>15, <1>16, <1>17, <1>18, <1>19 DEF Next, ClientStep

-----------------------------------------------------------------------------
(***************************************************************************)
(* Automatic polls.                                                        *)
(***************************************************************************)
\* What was a while ago still is.
LEMMA Later ==
    ASSUME NEW last \in Nat, NEW t \in Nat, NEW u \in Nat, NEW span \in Nat,
           t <= u, t - last >= span
    PROVE  u - last >= span
  OBVIOUS

\* A step that leaves the promise, the times and the automatic polls that check
\* or record alone, while time may pass.
LEMMA IdleKeepsRates ==
    ASSUME TypeOK, Rates, now \in Nat, now' \in Nat, now' >= now,
           UNCHANGED <<leader, asked, lastAuto, acquired>>,
           \A c \in Autos : pc'[c] \in {"check", "record"} => pc'[c] = pc[c]
    PROVE  Rates'
<1>t. /\ lastAuto \in Nat /\ Cooldown \in Nat /\ MaxTime \in Nat
      /\ acquired \in [0 .. MaxTime -> Nat]
  BY Numbers DEF TypeOK, Never
<1>1. Leads' /\ Told'
  BY DEF Rates, Leads, Told
<1>2. Spaced'
  BY <1>t DEF Rates, Spaced, Before
<1> QED
  BY <1>1, <1>2 DEF Rates

\* The leader finds the last poll recent, or lets itself through: it was told
\* of the last poll there was, and all others are a cooldown ago.
LEMMA CheckKeepsRates ==
    ASSUME TypeOK, Rates, NEW c \in Clients, AutoCheck(c)
    PROVE  Rates'
<1>1. /\ now' = now /\ now \in 0 .. MaxTime /\ pc \in [Clients -> Places]
      /\ Autos \subseteq Clients /\ c \in Autos /\ pc[c] = "check"
      /\ asked \in [Autos -> 0 .. Never]
  BY ClientsAssumption DEF AutoCheck, pollVars, TypeOK, PollTypeOK
<1>2. /\ lastAuto \in Nat /\ Cooldown \in Nat \ {0} /\ MaxTime \in Nat /\ Never = MaxTime + 1
      /\ acquired \in [0 .. MaxTime -> Nat]
  BY Numbers DEF TypeOK, Never
<1>3. leader = c /\ asked[c] = lastAuto
  BY <1>1 DEF Rates, Leads, Told
<1>4. \A d \in Autos : d # c => pc[d] \notin {"check", "record"} /\ pc'[d] = pc[d]
  BY <1>1, <1>3 DEF AutoCheck, Rates, Leads, Goto
<1>5. pc'[c] # "check" /\ (pc'[c] = "record" => leader' = c)
  BY <1>1, <1>3 DEF AutoCheck, Goto
<1>6. Leads' /\ Told'
  BY <1>4, <1>5 DEF Leads, Told
<1>7. CASE UNCHANGED <<lastAuto, acquired>>
  BY <1>1, <1>6, <1>7 DEF Rates, Spaced, Before
<1>8. CASE /\ ~ Recent(asked[c], Cooldown) /\ lastAuto' = now
           /\ acquired' = [acquired EXCEPT ![now] = acquired[now] + 1]
  <2>1. lastAuto = Never \/ now - lastAuto >= Cooldown
    BY <1>1, <1>2, <1>3, <1>8 DEF Recent
  <2>2. \A t \in 0 .. MaxTime : acquired[t] = 1 => t < now /\ now - t >= Cooldown
    BY <1>1, <1>2, <2>1 DEF Rates, Spaced, Before
  <2>3. acquired[now] = 0 /\ acquired'[now] = 1
    BY <1>1, <1>2, <1>8, <2>2 DEF Rates, Spaced, Before
  <2>4. \A t \in 0 .. MaxTime : t # now => acquired'[t] = acquired[t]
    BY <1>1, <1>2, <1>8
  <2>5. \A t \in 0 .. MaxTime : Before(t)'
    BY <1>1, <1>2, <1>8, <2>2, <2>3, <2>4 DEF Before, Rates, Spaced
  <2>6. \A t, u \in 0 .. MaxTime :
            t < u /\ acquired'[t] = 1 /\ acquired'[u] = 1 => u - t >= Cooldown
    BY <1>1, <1>2, <2>2, <2>3, <2>4 DEF Rates, Spaced
  <2>7. Spaced'
    BY <1>1, <1>8, <2>5, <2>6 DEF Spaced
  <2> QED
    BY <1>6, <2>7 DEF Rates
<1> QED
  BY <1>7, <1>8 DEF AutoCheck

LEMMA RatesStep == TypeOK /\ Rates /\ [Next]_vars => Rates'
<1> SUFFICES ASSUME TypeOK, Rates, [Next]_vars PROVE Rates'
  OBVIOUS
<1>t. now \in Nat /\ pc \in [Clients -> Places] /\ Autos \subseteq Clients
  BY Numbers, ClientsAssumption DEF TypeOK, PollTypeOK
<1>d. Autos \cap Manuals = {} /\ Autos \cap Watchers = {} /\ None \notin Autos
  BY ClientsAssumption
<1>1. ASSUME NEW c \in Clients, AutoPoll(c) PROVE Rates'
  <2>1. /\ UNCHANGED <<now, lastAuto, acquired>> /\ leader = None /\ leader' = c
        /\ pc' = [pc EXCEPT ![c] = "check"] /\ asked' = [asked EXCEPT ![c] = lastAuto]
        /\ c \in Autos /\ asked \in [Autos -> 0 .. Never]
    BY <1>1 DEF AutoPoll, MayLead, Goto, pollVars, history, TypeOK
  <2>2. \A d \in Autos : d # c => pc'[d] \notin {"check", "record"}
    BY <1>t, <1>d, <2>1 DEF Rates, Leads
  <2>3. Leads' /\ Told'
    BY <1>t, <2>1, <2>2 DEF Leads, Told
  <2> QED
    BY <2>1, <2>3 DEF Rates, Spaced, Before
<1>2. ASSUME NEW c \in Clients, AutoCheck(c) PROVE Rates'
  BY <1>2, CheckKeepsRates
<1>8. ASSUME NEW c \in Clients, AutoRecord(c) PROVE Rates'
  <2>1. /\ UNCHANGED <<now, asked, lastAuto, acquired>> /\ leader' = None
        /\ pc' = [pc EXCEPT ![c] = "polling"] /\ c \in Autos /\ pc[c] = "record"
    BY <1>8 DEF AutoRecord, BeginPoll, Goto, history
  <2>2. \A d \in Autos : pc'[d] \notin {"check", "record"}
    BY <1>t, <2>1 DEF Rates, Leads
  <2> QED
    BY <2>1, <2>2 DEF Rates, Leads, Told, Spaced, Before
<1>3. ASSUME NEW c \in Clients, Sync(c) \/ SyncRecord(c) \/ WatchPoll(c) PROVE Rates'
  <2>1. UNCHANGED <<now, leader, asked, lastAuto, acquired>> /\ c \notin Autos
    BY <1>3, <1>d DEF Sync, SyncRecord, WatchPoll, BeginPoll, pollVars, items, history
  <2>2. \A d \in Autos : pc'[d] = pc[d]
    BY <1>3, <1>t, <2>1 DEF Sync, SyncRecord, WatchPoll, Goto
  <2> QED
    BY <1>t, <2>1, <2>2, IdleKeepsRates
<1>4. ASSUME NEW c \in Clients,
             PollOnce(c) \/ PollAnswered(c) \/ Update(c) \/ UpdateFails(c) \/ CountBadge(c)
      PROVE Rates'
  <2>1. UNCHANGED <<now, leader, asked, lastAuto, acquired>>
    BY <1>4 DEF PollOnce, AdapterStep, BatchArrives, AdapterFails, Process, PollAnswered, Update,
       UpdateFails, CountBadge, pollVars, limits, history
  <2>2. \A d \in Autos : pc'[d] \in {"check", "record"} => pc'[d] = pc[d]
    BY <1>4, <1>t DEF PollOnce, PollAnswered, Update, UpdateFails, CountBadge, Goto
  <2> QED
    BY <1>t, <2>1, <2>2, IdleKeepsRates
<1>5. CASE \/ (\E m \in Messages : MarkUsed(m)) \/ MarkSeen \/ Clear \/ Wipe
           \/ InitializeAsks \/ HandlerAsks \/ UNCHANGED vars
  <2>1. UNCHANGED <<now, leader, asked, lastAuto, acquired, pc>>
    BY <1>5 DEF MarkUsed, MarkSeen, Clear, Wipe, InitializeAsks, HandlerAsks, vars, popupVars,
       pollVars, limits, history
  <2> QED
    BY <1>t, <2>1, IdleKeepsRates
<1>9. ASSUME NEW r \in reads, ReadAnswered(r) PROVE Rates'
  <2>1. UNCHANGED <<now, leader, asked, lastAuto, acquired>>
    BY <1>9 DEF ReadAnswered, pollVars, limits
  <2>2. \A d \in Autos : pc'[d] \in {"check", "record"} => pc'[d] = pc[d]
    BY <1>9, <1>t DEF ReadAnswered, Initialize, HandlerGoesOn, Goto
  <2> QED
    BY <1>t, <2>1, <2>2, IdleKeepsRates
<1>6. CASE Crash
  BY <1>6, <1>t DEF Crash, PollCrash, history, Rates, Leads, Told, Spaced, Before
<1>7. CASE World /\ UNCHANGED popupVars
  <2>1. now' \in Nat /\ now' >= now
    BY <1>7, <1>t DEF World, Tick, Arrive
  <2>2. UNCHANGED <<leader, asked, lastAuto, acquired, pc>>
    BY <1>7 DEF popupVars, limits, history
  <2> QED
    BY <1>t, <2>1, <2>2, IdleKeepsRates
<1> QED
  BY <1>1, <1>2, <1>3, <1>4, <1>5, <1>6, <1>7, <1>8, <1>9 DEF Next, ClientStep

-----------------------------------------------------------------------------
(***************************************************************************)
(* Used codes.                                                             *)
(***************************************************************************)
\* A step that takes no hit, shows no item and marks none.
LEMMA QuietKeepsMarks ==
    ASSUME TypeOK, Singly, UNCHANGED <<used, raced, takes>>,
           \A m \in Messages : Marked(m) => Marked(m)',
           \A c \in Clients : hits'[c] \subseteq hits[c],
           Everywhere' \subseteq Everywhere
    PROVE  Singly'
<1>1. UNCHANGED <<taken, retaken, writers>>
  BY DEF takes
<1>2. AllTaken'
  BY <1>1 DEF Singly, AllTaken, Shows, Hit
<1>3. HitOnce'
  BY <1>1 DEF Singly, HitOnce, Shows, Hit
<1>4. MarksKept'
  BY <1>1 DEF Singly, MarksKept
<1>5. TakenMarked'
  <2> SUFFICES ASSUME writers # Stores, NEW m \in taken PROVE Marked(m)'
    BY <1>1 DEF TakenMarked, Stores
  <2>1. m \in Messages /\ Marked(m)
    BY DEF TypeOK, Singly, TakenMarked
  <2> QED
    BY <2>1
<1>6. BothWrote'
  BY <1>1 DEF Singly, BothWrote, Stores
<1> QED
  BY <1>2, <1>3, <1>4, <1>5, <1>6 DEF Singly

\* A marked message has been seen by the store that writes.
LEMMA MarkedSeen ==
    ASSUME TypeOK, NEW m \in Messages, NEW st \in Stores, Marked(m), writers \subseteq {st}
    PROVE  Loaded(st)[m] > MaxTime /\ HasSeen(st, m)
<1>1. now \in 0 .. MaxTime /\ MaxTime \in Nat /\ disk[m] \in Nat /\ mem[st][m] \in Nat
  BY Numbers DEF TypeOK, PollTypeOK
<1>2. disk[m] > MaxTime /\ (st \in loaded => mem[st][m] > MaxTime)
  BY DEF Marked
<1>3. Loaded(st)[m] = IF st \in loaded \/ disk[m] <= now THEN mem[st][m] ELSE disk[m]
  BY <1>1 DEF Loaded, TypeOK, PollTypeOK
<1> QED
  BY <1>1, <1>2, <1>3 DEF HasSeen

\* A store that loads what was written keeps what is marked.
LEMMA LoadKeepsMarked ==
    ASSUME TypeOK, NEW c \in Clients, StoreAsked(c), writers' = writers,
           NEW m \in Messages, Marked(m)
    PROVE  Marked(m)'
<1>1. PICK st \in Stores :
          writers = {st} /\ disk[m] > MaxTime /\ (st \in loaded => mem[st][m] > MaxTime)
  BY DEF Marked
<1>2. Loaded(st)[m] > MaxTime
  BY <1>1, MarkedSeen
<1>3. disk' = disk
  BY DEF StoreAsked
<1>4. CASE mem' = mem /\ loaded' = loaded
  BY <1>1, <1>3, <1>4 DEF Marked
<1>5. CASE mem' = [mem EXCEPT ![StoreOf(c)] = Loaded(StoreOf(c))]
           /\ loaded' = loaded \cup {StoreOf(c)}
  <2>1. st \in loaded' => mem'[st][m] > MaxTime
    BY <1>1, <1>2, <1>5 DEF TypeOK, PollTypeOK
  <2> QED
    BY <1>1, <1>3, <2>1 DEF Marked
<1> QED
  BY <1>4, <1>5 DEF StoreAsked

\* The store adds a message it has not seen.
LEMMA AddMarks ==
    ASSUME TypeOK, NEW st \in Stores, NEW m \in Messages, Add(st, m), ~ HasSeen(st, m)
    PROVE  /\ mem' # mem
           /\ loaded' = loaded \cup {st}
           /\ mem'[st] = disk'
           /\ disk'[m] = now + (IF Kind[m].hit THEN HitTtl ELSE MissTtl)
           /\ \A n \in Messages : n # m /\ Loaded(st)[n] > MaxTime => disk'[n] = Loaded(st)[n]
<1> DEFINE ttl == IF Kind[m].hit THEN HitTtl ELSE MissTtl
           marked == [Loaded(st) EXCEPT ![m] = now + ttl]
<1>1. /\ ttl \in Nat \ {0} /\ now \in 0 .. MaxTime /\ MaxTime \in Nat
      /\ Loaded(st) \in [Messages -> Nat] /\ mem \in [Stores -> [Messages -> Nat]]
      /\ disk \in [Messages -> Nat]
  BY Numbers, LoadedType DEF TypeOK, PollTypeOK
<1>2. mem' = [mem EXCEPT ![st] = Live(marked)] /\ loaded' = loaded \cup {st}
      /\ disk' = Live(marked)
  BY DEF Add
<1>3. marked \in [Messages -> Nat] /\ marked[m] = now + ttl
      /\ \A n \in Messages : n # m => marked[n] = Loaded(st)[n]
  BY <1>1
<1> HIDE DEF ttl, marked
<1>4. \A n \in Messages : Live(marked)[n] = IF now < marked[n] THEN marked[n] ELSE 0
  BY DEF Live
<1>5. mem'[st] = Live(marked) /\ Live(marked)[m] = now + ttl
  BY <1>1, <1>2, <1>3, <1>4
<1>6. mem[st][m] <= now
  BY <1>1 DEF HasSeen, Loaded
<1>7. mem' # mem
  BY <1>1, <1>5, <1>6
<1>8. \A n \in Messages : n # m /\ Loaded(st)[n] > MaxTime => Live(marked)[n] = Loaded(st)[n]
  BY <1>1, <1>3, <1>4
<1> QED
  BY <1>2, <1>5, <1>7, <1>8 DEF ttl

\* A poll takes a message and the store it asked marks it.  If only this store
\* has written so far, it would have known a message that was taken before.
LEMMA ProcessKeepsMarks ==
    ASSUME HitTtl > MaxTime, TypeOK, Singly, NEW c \in Clients, NEW b \in Boxes,
           PollOnce(c), Process(c, b)
    PROVE  Singly'
<1> DEFINE st == StoreOf(c)
           new == {y.msg : y \in hits'[c] \ hits[c]}
<1>1. PICK x \in todo[c][b] :
          /\ Unprocessed(c, x) /\ Add(st, x.msg)
          /\ hits' = IF Kind[x.msg].hit THEN [hits EXCEPT ![c] = @ \cup {x}] ELSE hits
  BY DEF Process
<1>2. x.msg \in Messages /\ st \in Stores /\ writers \subseteq Stores
      /\ hits \in [Clients -> SUBSET Sightings] /\ taken \subseteq Messages
  BY Numbers DEF TypeOK, PollTypeOK, Sightings
<1>3. ~ HasSeen(st, x.msg)
  BY <1>1 DEF Unprocessed
<1>4. /\ UNCHANGED <<cache, stored, reads, used, raced>>
      /\ writers' = IF mem' = mem THEN writers ELSE writers \cup {st}
      /\ taken' = taken \cup new /\ retaken' = retaken \cup (new \cap taken)
  BY DEF PollOnce, items
<1>5. new \subseteq {x.msg} /\ (new # {} => Kind[x.msg].hit)
  BY <1>1, <1>2
<1>6. \A d \in Clients, m \in Messages :
          (\E y \in hits'[d] : y.msg = m) => Hit(d, m) \/ (d = c /\ m = x.msg /\ m \in new)
  BY <1>1, <1>2 DEF Hit
<1> HIDE DEF st, new
<1>7. /\ mem' # mem /\ loaded' = loaded \cup {st} /\ mem'[st] = disk'
      /\ disk'[x.msg] = now + (IF Kind[x.msg].hit THEN HitTtl ELSE MissTtl)
      /\ \A n \in Messages : n # x.msg /\ Loaded(st)[n] > MaxTime => disk'[n] = Loaded(st)[n]
  BY <1>1, <1>2, <1>3, AddMarks
<1>8. writers' = writers \cup {st}
  BY <1>4, <1>7
<1>9. ASSUME writers' # Stores
      PROVE  writers # Stores /\ writers \subseteq {st} /\ writers' = {st} /\ ~ Marked(x.msg)
  <2>1. writers # Stores /\ writers \subseteq {st} /\ writers' = {st}
    BY <1>2, <1>8, <1>9 DEF Stores
  <2> QED
    BY <1>2, <1>3, <2>1, MarkedSeen
<1>10. Everywhere' = Everywhere
  BY <1>4 DEF Everywhere, ListOf
<1>11. AllTaken'
  BY <1>4, <1>6, <1>10 DEF Singly, AllTaken, Shows, Hit
<1>12. HitOnce'
  <2> SUFFICES ASSUME NEW d \in Clients, NEW m \in Messages, Hit(d, m)', m \notin retaken'
               PROVE  /\ m \notin used' /\ ~ Shows(m)'
                      /\ \A e \in Clients : Hit(e, m)' => e = d
    BY DEF HitOnce
  <2>1. m \notin retaken /\ (m \in new => m \notin taken)
    BY <1>4
  <2>2. CASE m \in new
    <3>1. m \notin used /\ ~ Shows(m) /\ \A e \in Clients : ~ Hit(e, m)
      BY <2>1, <2>2 DEF Singly, AllTaken
    <3>2. \A e \in Clients : Hit(e, m)' => e = c
      BY <1>6, <3>1 DEF Hit
    <3> QED
      BY <1>4, <1>10, <3>1, <3>2 DEF Shows
  <2>3. CASE m \notin new
    <3>1. \A e \in Clients : Hit(e, m)' => Hit(e, m)
      BY <1>6, <2>3 DEF Hit
    <3> QED
      BY <1>4, <1>10, <2>1, <3>1 DEF Singly, HitOnce, Shows
  <2> QED
    BY <2>2, <2>3
<1>13. MarksKept'
  BY <1>4, <1>10 DEF Singly, MarksKept
<1>14. TakenMarked'
  <2> SUFFICES ASSUME writers' # Stores, NEW n \in taken' PROVE Marked(n)'
    BY DEF TakenMarked, Stores
  <2>1. writers' = {st}
    BY <1>9
  <2>2. CASE n \in taken
    <3>1. Marked(n) /\ n \in Messages /\ n # x.msg
      BY <1>2, <1>9, <2>2 DEF Singly, TakenMarked
    <3>2. Loaded(st)[n] > MaxTime
      BY <1>2, <1>9, <3>1, MarkedSeen
    <3>3. disk'[n] > MaxTime
      BY <1>7, <3>1, <3>2
    <3> QED
      BY <1>2, <1>7, <2>1, <3>3 DEF Marked
  <2>3. CASE n \in new
    <3>1. n = x.msg /\ Kind[x.msg].hit
      BY <1>5, <2>3
    <3>2. now \in Nat /\ HitTtl \in Nat /\ MaxTime \in Nat
      BY Numbers DEF TypeOK, PollTypeOK
    <3>3. disk'[n] > MaxTime
      BY <1>7, <3>1, <3>2
    <3> QED
      BY <1>2, <1>7, <2>1, <3>3 DEF Marked
  <2> QED
    BY <1>4, <2>2, <2>3
<1>15. BothWrote'
  <2> SUFFICES ASSUME writers' # Stores PROVE retaken' = {}
    BY DEF BothWrote, Stores
  <2>1. retaken = {} /\ x.msg \notin taken
    BY <1>9 DEF Singly, BothWrote, TakenMarked
  <2> QED
    BY <1>4, <1>5, <2>1
<1> QED
  BY <1>11, <1>12, <1>13, <1>14, <1>15 DEF Singly

\* The items of a poll are those only this poll has, and none was used.
LEMMA UpdateKeepsMarks ==
    ASSUME TypeOK, Singly, NEW c \in Clients, Update(c)
    PROVE  Singly'
<1>1. /\ hits \in [Clients -> SUBSET Sightings] /\ hits' = [hits EXCEPT ![c] = {}]
      /\ UNCHANGED <<used, raced, reads, taken, retaken, writers, disk, mem, loaded>>
  BY DEF Update, EndPoll, TypeOK, PollTypeOK, history, takes
<1>2. \A x \in Everywhere' : x \in Everywhere \/ \E y \in hits[c] : x = Item(y.msg)
  BY <1>1, ReplacedByShown DEF Update, Shown, Everywhere, ListOf
<1>3. \A x \in Everywhere' : x \in Everywhere \/ (Hit(c, x.msg) /\ ~ x.used /\ x.msg \in Messages)
  BY <1>1, <1>2 DEF Hit, Item, Sightings
<1>4. \A m \in Messages : Marked(m) => Marked(m)'
  BY <1>1 DEF Marked
<1>5. \A d \in Clients, m \in Messages : (\E y \in hits'[d] : y.msg = m) => Hit(d, m) /\ d # c
  BY <1>1 DEF Hit
<1>6. AllTaken'
  BY <1>1, <1>3, <1>5 DEF Singly, AllTaken, Shows, Hit
<1>7. HitOnce'
  <2> SUFFICES ASSUME NEW d \in Clients, NEW m \in Messages, Hit(d, m)', m \notin retaken'
               PROVE  /\ m \notin used' /\ ~ Shows(m)'
                      /\ \A e \in Clients : Hit(e, m)' => e = d
    BY DEF HitOnce
  <2>1. Hit(d, m) /\ d # c /\ m \notin retaken
    BY <1>1, <1>5 DEF Hit
  <2>2. ~ Hit(c, m)
    BY <2>1 DEF Singly, HitOnce
  <2>3. ~ Shows(m)'
    BY <1>3, <2>1, <2>2 DEF Singly, HitOnce, Shows
  <2> QED
    BY <1>1, <1>5, <2>1, <2>3 DEF Singly, HitOnce, Hit
<1>8. MarksKept'
  BY <1>1, <1>3 DEF Singly, MarksKept, HitOnce
<1>9. TakenMarked' /\ BothWrote'
  BY <1>1, <1>4 DEF TypeOK, Singly, TakenMarked, BothWrote, Stores
<1> QED
  BY <1>6, <1>7, <1>8, <1>9 DEF Singly

\* A mark on a list that was in memory or was read reaches both places; a read
\* that is still under way has the list without it.
LEMMA UseKeepsMarks ==
    ASSUME TypeOK, Singly, NEW m, NEW list \in SUBSET Items, Use(m, list),
           list \subseteq Everywhere, reads' \subseteq reads,
           UNCHANGED <<pollVars, takes>>
    PROVE  Singly'
<1>1. /\ UNCHANGED <<hits, taken, retaken, writers>>
      /\ \A n \in Messages : Marked(n) => Marked(n)'
  BY DEF pollVars, takes, Marked
<1>2. CASE ~ Has(list, m)
  <2>1. cache' = list /\ UNCHANGED <<stored, used, raced>>
    BY <1>2 DEF Use, Holds
  <2>2. Everywhere' \subseteq Everywhere
    BY <2>1 DEF Everywhere, ListOf
  <2> QED
    BY <1>1, <2>1, <2>2, QuietKeepsMarks
<1>3. CASE Has(list, m)
  <2> DEFINE marked == {IF x.msg = m THEN [x EXCEPT !.used = TRUE] ELSE x : x \in list}
  <2>1. /\ cache' = marked /\ stored' = marked /\ used' = used \cup {m}
        /\ raced' = IF reads' = {} THEN raced \ {m} ELSE raced \cup {m}
    BY <1>3 DEF Use, Save
  <2>2. Shows(m) /\ m \in Messages
    BY <1>3 DEF Has, Shows, Items
  <2>3. \A y \in marked : (y.msg = m /\ y.used) \/ (y \in list /\ y.msg # m)
    BY DEF Items
  <2> HIDE DEF marked
  <2>4. \A y \in Everywhere' : y \in marked \/ (reads' # {} /\ y \in Everywhere)
    BY <2>1 DEF Everywhere, ListOf
  <2>5. \A n \in Messages : Shows(n)' => Shows(n)
    BY <2>2, <2>3, <2>4 DEF Shows
  <2>6. AllTaken'
    BY <1>1, <2>1, <2>2, <2>5 DEF Singly, AllTaken, Hit
  <2>7. HitOnce'
    BY <1>1, <2>1, <2>2, <2>5 DEF Singly, HitOnce, Hit
  <2>8. MarksKept'
    <3> SUFFICES ASSUME NEW y \in Everywhere', y.msg \in used'
                 PROVE  y.used \/ y.msg \in raced' \cup retaken'
      BY DEF MarksKept
    <3>1. CASE y.msg = m
      BY <2>1, <2>3, <2>4, <3>1
    <3>2. CASE y.msg # m
      <4>1. y \in Everywhere /\ y.msg \in used
        BY <2>1, <2>3, <2>4, <3>2
      <4> QED
        BY <1>1, <2>1, <3>2, <4>1 DEF Singly, MarksKept
    <3> QED
      BY <3>1, <3>2
  <2>9. TakenMarked' /\ BothWrote'
    BY <1>1 DEF TypeOK, Singly, TakenMarked, BothWrote, Stores
  <2> QED
    BY <2>6, <2>7, <2>8, <2>9 DEF Singly
<1> QED
  BY <1>2, <1>3

\* A read of the stored list is answered.
LEMMA AnswerKeepsMarks ==
    ASSUME TypeOK, Singly, NEW r \in reads, ReadAnswered(r)
    PROVE  Singly'
<1>1. /\ reads' \subseteq reads /\ UNCHANGED <<pollVars, takes>>
      /\ r.list \in SUBSET Items /\ r.list \subseteq Everywhere
  BY DEF ReadAnswered, TypeOK, Reads, Everywhere
<1>2. CASE Use(r.who, Given(r))
  BY <1>1, <1>2, UseKeepsMarks DEF Given
<1>3. CASE (Holds(Given(r)) \/ SeeAll(Given(r))) /\ UNCHANGED <<used, raced>>
  <2>1. cache' = r.list /\ (stored' = stored \/ stored' = r.list)
    BY <1>3 DEF Holds, SeeAll, Save, Given
  <2>2. Everywhere' \subseteq Everywhere
    BY <1>1, <2>1 DEF Everywhere, ListOf
  <2>3. UNCHANGED <<used, raced, takes, hits>> /\ \A m \in Messages : Marked(m) => Marked(m)'
    BY <1>1, <1>3 DEF pollVars, takes, Marked
  <2> QED
    BY <2>2, <2>3, QuietKeepsMarks
<1> QED
  BY <1>2, <1>3 DEF ReadAnswered, Initialize, HandlerGoesOn

\* A read of the stored list is asked for.
LEMMA AskKeepsEverywhere ==
    ASSUME NEW what, NEW who, Ask(what, who), UNCHANGED <<cache, stored>>
    PROVE  Everywhere' \subseteq Everywhere
  BY DEF Ask, Everywhere, ListOf

LEMMA SinglyStep == ASSUME HitTtl > MaxTime, TypeOK, Singly, [Next]_vars PROVE Singly'
<1>t. hits \in [Clients -> SUBSET Sightings]
  BY DEF TypeOK, PollTypeOK
<1>m. ASSUME UNCHANGED <<mem, loaded, disk, writers>>
      PROVE  \A m \in Messages : Marked(m) => Marked(m)'
  BY <1>m DEF Marked
<1>e. ASSUME UNCHANGED items PROVE Everywhere' \subseteq Everywhere
  BY <1>e DEF items, Everywhere, ListOf
<1>1. ASSUME NEW c \in Clients, AutoPoll(c) \/ AutoCheck(c) \/ Sync(c) PROVE Singly'
  <2>1. UNCHANGED <<pollVars, items, used, takes, raced>>
    BY <1>1 DEF AutoPoll, AutoCheck, Sync, history
  <2> QED
    BY <1>m, <1>e, <2>1, QuietKeepsMarks DEF pollVars, takes
<1>2. ASSUME NEW c \in Clients, AutoRecord(c) \/ SyncRecord(c) \/ WatchPoll(c) PROVE Singly'
  <2>1. UNCHANGED <<mem, loaded, disk, items, used, takes, raced>>
    BY <1>2 DEF AutoRecord, SyncRecord, WatchPoll, BeginPoll, history
  <2>2. \A d \in Clients : hits'[d] \subseteq hits[d]
    BY <1>2, <1>t DEF AutoRecord, SyncRecord, WatchPoll, BeginPoll
  <2> QED
    BY <1>m, <1>e, <2>1, <2>2, QuietKeepsMarks DEF takes
<1>3. ASSUME NEW c \in Clients, PollOnce(c) PROVE Singly'
  <2>1. ASSUME NEW b \in Boxes, BatchArrives(c, b) \/ AdapterFails(c, b) PROVE Singly'
    <3>1. UNCHANGED <<mem, loaded, disk, hits>>
      BY <2>1 DEF BatchArrives, AdapterFails
    <3>2. UNCHANGED <<items, used, raced, takes>>
      BY <1>3, <3>1 DEF PollOnce, takes
    <3> QED
      BY <1>m, <1>e, <3>1, <3>2, QuietKeepsMarks DEF takes
  <2>2. ASSUME NEW b \in Boxes, Process(c, b) PROVE Singly'
    BY <1>3, <2>2, ProcessKeepsMarks
  <2> QED
    BY <1>3, <2>1, <2>2 DEF PollOnce, AdapterStep
<1>4. ASSUME NEW c \in Clients, PollAnswered(c) PROVE Singly'
  <2>1. UNCHANGED <<items, used, takes, raced>> /\ StoreAsked(c)
    BY <1>4 DEF PollAnswered, history
  <2>2. \A d \in Clients : hits'[d] \subseteq hits[d]
    BY <1>4, <1>t DEF PollAnswered, Kept
  <2>3. \A m \in Messages : Marked(m) => Marked(m)'
    BY <2>1, LoadKeepsMarked DEF takes
  <2> QED
    BY <1>e, <2>1, <2>2, <2>3, QuietKeepsMarks
<1>5. ASSUME NEW c \in Clients, UpdateFails(c) PROVE Singly'
  <2>1. UNCHANGED <<mem, loaded, disk, items, used, takes, raced>>
    BY <1>5 DEF UpdateFails, history
  <2>2. \A d \in Clients : hits'[d] \subseteq hits[d]
    BY <1>5, <1>t DEF UpdateFails, EndPoll
  <2> QED
    BY <1>m, <1>e, <2>1, <2>2, QuietKeepsMarks DEF takes
<1>6. ASSUME NEW c \in Clients, CountBadge(c) PROVE Singly'
  <2>1. UNCHANGED <<pollVars, cache, stored, history>>
    BY <1>6 DEF CountBadge
  <2>2. Everywhere' \subseteq Everywhere
    BY <1>6, <2>1, AskKeepsEverywhere DEF CountBadge, Everywhere, ListOf
  <2> QED
    BY <1>m, <2>1, <2>2, QuietKeepsMarks DEF pollVars, history, takes
<1>7. CASE InitializeAsks \/ HandlerAsks
  <2>1. UNCHANGED <<pollVars, cache, stored, history>>
    BY <1>7 DEF InitializeAsks, HandlerAsks
  <2>2. Everywhere' \subseteq Everywhere
    BY <1>7, <2>1, AskKeepsEverywhere DEF InitializeAsks, HandlerAsks
  <2> QED
    BY <1>m, <2>1, <2>2, QuietKeepsMarks DEF pollVars, history, takes
<1>8. CASE MarkSeen \/ Clear \/ Wipe
  <2>1. /\ UNCHANGED <<pollVars, reads, history>> /\ (cache' = cache \/ cache' = {})
        /\ (stored' = cache /\ cache # None) \/ stored' = {}
    BY <1>8 DEF MarkSeen, Clear, Wipe, Save, TypeOK
  <2>2. Everywhere' \subseteq Everywhere
    BY <2>1 DEF Everywhere, ListOf
  <2> QED
    BY <1>m, <2>1, <2>2, QuietKeepsMarks DEF pollVars, history, takes
<1>9. CASE Crash
  <2>1. /\ UNCHANGED <<disk, stored, history>> /\ cache' = None /\ reads' = {}
        /\ loaded' = {} /\ hits' = [c \in Clients |-> {}]
    BY <1>9 DEF Crash, PollCrash
  <2>2. Everywhere' \subseteq Everywhere
    BY <2>1 DEF Everywhere, ListOf
  <2>3. \A m \in Messages : Marked(m) => Marked(m)'
    BY <2>1 DEF Marked, history, takes
  <2> QED
    BY <2>1, <2>2, <2>3, QuietKeepsMarks DEF history
<1>10. CASE World /\ UNCHANGED popupVars
  <2>1. UNCHANGED <<mem, loaded, disk, hits, items, used, takes, raced>>
    BY <1>10 DEF World, Tick, Arrive, popupVars, history
  <2> QED
    BY <1>m, <1>e, <2>1, QuietKeepsMarks DEF takes
<1>11. CASE UNCHANGED vars
  BY <1>m, <1>e, <1>11, QuietKeepsMarks DEF vars, pollVars, popupVars, history, takes
<1>12. ASSUME NEW c \in Clients, Update(c) PROVE Singly'
  BY <1>12, UpdateKeepsMarks
<1>13. ASSUME NEW m \in Messages, MarkUsed(m) PROVE Singly'
  <2>1. /\ cache \in SUBSET Items /\ cache \subseteq Everywhere /\ Use(m, cache)
        /\ UNCHANGED <<pollVars, reads, takes>>
    BY <1>13 DEF MarkUsed, TypeOK, Everywhere, ListOf
  <2> QED
    BY <2>1, UseKeepsMarks
<1>14. ASSUME NEW r \in reads, ReadAnswered(r) PROVE Singly'
  BY <1>14, AnswerKeepsMarks
<1> QED
  BY <1>1, <1>2, <1>3, <1>4, <1>5, <1>6, <1>7, <1>8, <1>9, <1>10, <1>11, <1>12, <1>13, <1>14
     DEF Next, ClientStep

-----------------------------------------------------------------------------
(***************************************************************************)
(* What follows for the specification.                                     *)
(***************************************************************************)
LEMMA InitTypes == Init => TypeOK
<1> SUFFICES ASSUME Init PROVE TypeOK
  OBVIOUS
<1>n. /\ MaxTime \in Nat /\ MaxFailures \in Nat /\ Never = MaxTime + 1 /\ MaxStarts \in Nat
      /\ MaxCrashes \in Nat
  BY Numbers
<1>1. PollTypeOK
  BY <1>n DEF Init, PollInit, PollTypeOK, Empty, Quiet, NoBatch, Stores, AdapterStates
<1>2. Own
  <2>1. /\ pc \in [Clients -> Places] /\ starts \in 0 .. MaxStarts /\ leader \in Autos \cup {None}
        /\ asked \in [Autos -> 0 .. Never] /\ lastAuto \in 0 .. Never
        /\ lastSync \in 0 .. Never /\ crashes \in 0 .. MaxCrashes
    BY <1>n DEF Init, Places
  <2>2. /\ cache \in (SUBSET Items) \cup {None} /\ stored \subseteq Items /\ reads \subseteq Reads
        /\ boot \in {"start", "wait", "up"}
    BY DEF Init
  <2>3. /\ used \subseteq Messages /\ raced \subseteq Messages /\ taken \subseteq Messages
        /\ retaken \subseteq Messages /\ writers \subseteq Stores
        /\ acquired \in [0 .. MaxTime -> Nat]
    BY DEF Init
  <2> QED
    BY <2>1, <2>2, <2>3 DEF Own
<1> QED
  BY <1>1, <1>2, Split

LEMMA InitRest == Init => Rates /\ Singly
<1> SUFFICES ASSUME Init PROVE Rates /\ Singly
  OBVIOUS
<1>1. Rates
  <2>1. \A t \in 0 .. MaxTime : acquired[t] = 0
    BY DEF Init
  <2>2. Leads /\ Told
    BY ClientsAssumption DEF Init, Leads, Told
  <2>3. lastAuto = Never
    BY DEF Init
  <2>4. \A t \in 0 .. MaxTime : Before(t)
    BY <2>1 DEF Before
  <2>5. \A t \in 0 .. MaxTime : acquired[t] # 1
    BY <2>1
  <2>6. Spaced
    BY <2>3, <2>4, <2>5 DEF Spaced
  <2> QED
    BY <2>2, <2>6 DEF Rates
<1>2. Everywhere = {} /\ hits = [c \in Clients |-> {}] /\ used = {}
  BY DEF Init, PollInit, Everywhere, ListOf
<1>3. Singly
  BY <1>2 DEF Init, Singly, AllTaken, HitOnce, MarksKept, TakenMarked, BothWrote, Shows, Hit
<1> QED
  BY <1>1, <1>3

\* The popup handler, its clients and the polls keep their types.
THEOREM TypeCorrect == Spec => []TypeOK
<1>1. Init => TypeOK
  BY InitTypes
<1>2. TypeOK /\ [Next]_vars => TypeOK'
  BY TypeStep
<1> QED
  BY <1>1, <1>2, PTL DEF Spec

\* Automatic polls are a cooldown apart, however many pages ask for one at the
\* same time and whenever the worker dies.
THEOREM PollsApart == Spec => []AutoPollsApart
<1>1. Init => Rates
  BY InitRest
<1>2. TypeOK /\ Rates /\ [Next]_vars => Rates'
  BY RatesStep
<1>3. TypeOK /\ Rates => AutoPollsApart
  <2> SUFFICES ASSUME TypeOK, Rates, NEW t \in 0 .. MaxTime, NEW u \in 0 .. MaxTime
               PROVE  /\ acquired[t] <= 1
                      /\ t < u /\ u - t < Cooldown => acquired[t] + acquired[u] <= 1
    BY DEF AutoPollsApart
  <2>1. Before(t) /\ Before(u)
    BY DEF Rates, Spaced
  <2>2. t < u /\ acquired[t] = 1 /\ acquired[u] = 1 => u - t >= Cooldown
    BY DEF Rates, Spaced
  <2>3. t \in Nat /\ u \in Nat /\ Cooldown \in Nat
    BY Numbers
  <2> QED
    BY <2>1, <2>2, <2>3 DEF Before
<1> QED
  BY <1>1, <1>2, <1>3, TypeCorrect, PTL DEF Spec

\* For as long as a hit stays in the seen store, a used code comes back as a new
\* one only if its mark was set during a read of the list, or its message was
\* taken twice and both seen stores have written: across polls of every client,
\* worker deaths, and lists that are replaced, marked, cleared and read back by
\* any number of handlers at once.
THEOREM UsedForGood == ASSUME HitTtl > MaxTime PROVE Spec => []UsedStaysUsed
<1>1. Init => Singly
  BY InitRest
<1>2. TypeOK /\ Singly /\ [Next]_vars => Singly'
  BY SinglyStep
<1>3. TypeOK /\ Singly => UsedStaysUsed
  <2>1. ASSUME TypeOK PROVE Current \subseteq Everywhere
    BY DEF Current, Everywhere, ListOf
  <2> QED
    BY <2>1 DEF Singly, MarksKept, BothWrote, UsedStaysUsed
<1> QED
  BY <1>1, <1>2, <1>3, TypeCorrect, PTL DEF Spec
===============================================================================
