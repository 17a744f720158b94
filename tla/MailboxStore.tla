---------------------------- MODULE MailboxStore ----------------------------
(***************************************************************************)
(* PlaintextStorage (lib/storage/plaintext-storage.ts), its mutex, and the *)
(* handlers of background/index.ts that read and write mailboxes, domain   *)
(* preferences and settings, with the startup migration and the writes of  *)
(* the options page.                                                       *)
(*                                                                         *)
(* A JavaScript context runs one continuation at a time.  It issues its    *)
(* chrome.storage calls in order and they take effect in that order; calls *)
(* of the worker and of the options page interleave in any order.  A       *)
(* request is a sequence of stages; a stage reads, or writes, or reads and *)
(* then writes what it computed from what it read.                         *)
(***************************************************************************)
EXTENDS Naturals, FiniteSets, Sequences

CONSTANTS
    Requests,      \* messages, polls and options-page saves
    Ask,           \* Ask[h].op and Ask[h].arg: what h asks for
    Migration,     \* the outlookMigrationDone routine of a worker's start
    Ids, Domains, Values, Cap,
    Messages,      \* the Google Messages account
    Imap,          \* IMAP accounts
    Gmail, Outlook,\* accounts of legacy rows
    Start,         \* the stored value at first
    Default,       \* DEFAULT_SETTINGS
    None,          \* nobody
    MaxRequests,   \* bound: requests in a behaviour
    MaxCrashes     \* bound: service-worker deaths in a behaviour

Accounts == Imap \cup Gmail \cup Outlook \cup {Messages}
Handlers == Requests \cup {Migration}
Contexts == {"worker", "options"}
Ops == {"store", "remove", "disconnect", "sync", "connect", "repair",
        "enable", "disable", "ban", "unban", "level", "timeout", "reset"}

ASSUME RequestsAssumption ==
    /\ Migration \notin Requests /\ None \notin Handlers /\ Requests \subseteq Ids
    /\ \A h \in Requests : Ask[h].op \in Ops
ASSUME BoundsAssumption == {Cap, MaxRequests, MaxCrashes} \subseteq Nat
ASSUME ArgumentsAssumption ==
    /\ None \notin Ids
    /\ \A h \in Requests :
          /\ Ask[h].op = "store" => Ask[h].arg \in Imap
          /\ Ask[h].op \in {"remove", "disconnect", "sync"} => Ask[h].arg \in Ids
          /\ Ask[h].op \in {"enable", "disable", "ban", "unban"} => Ask[h].arg \in Domains
          /\ Ask[h].op \in {"level", "timeout"} => Ask[h].arg \in Values
ASSUME AccountsAssumption ==
    /\ Imap \cap (Gmail \cup Outlook) = {}
    /\ Messages \notin Imap \cup Gmail \cup Outlook

VARIABLES
    disk,      \* chrome.storage.local: mailboxes, prefs, settings
    at,        \* at[h]: the stage h is in, or how it ended
    io,        \* io[h]: the call h's stage makes next, "read" or "write"
    seen,      \* seen[h]: what that stage read
    target,    \* target[h]: the mailbox h removes or updates
    mutex,     \* mutex[c]: holder and queue of the mutex of context c
    pipe,      \* pipe[c]: handlers with an issued call, in the order of issue
    popupBoxes,\* the mailbox map of the popup cache
    crashes

vars == <<disk, at, io, seen, target, mutex, pipe, popupBoxes, crashes>>

MailboxRecords == [id : Ids, account : Accounts, synced : BOOLEAN]
SettingsRecords == [banned : SUBSET Domains, level : Values, timeout : Values]
StoreRecords == [mailboxes : SUBSET MailboxRecords,
                 prefs : [Domains -> {"unset", "on", "off"}],
                 settings : SettingsRecords]

\* A new mailbox gets an id that no mailbox has had; the limits hold at first.
Capped(s) == IsFiniteSet(s.banned) /\ Cardinality(s.banned) <= Cap
ASSUME StartAssumption ==
    /\ Start \in StoreRecords /\ Default \in SettingsRecords
    /\ \A m \in Start.mailboxes : m.id \notin Requests
    /\ \A m, n \in Start.mailboxes : m.id = n.id \/ m.account = n.account => m = n
    /\ Capped(Start.settings) /\ Capped(Default)

MailboxStages == {"find", "findMessages", "look", "add", "remove", "touch", "refresh"}
Locked == {"add", "remove", "touch", "pref", "ban", "unban", "timeout"}
Stages == MailboxStages \cup Locked \cup {"preview", "level", "reset", "migrate", "pairing"}
Ends == {"ok", "unpaired", "exists", "error", "lost"}

ContextOf(h) == IF h # Migration /\ Ask[h].op = "timeout" THEN "options" ELSE "worker"
Arg(h) == Ask[h].arg

TypeOK ==
    /\ disk \in StoreRecords
    /\ at \in [Handlers -> Stages \cup Ends \cup {"idle"}]
    /\ io \in [Handlers -> {"read", "write"}]
    /\ seen \in [Handlers -> StoreRecords]
    /\ target \in [Handlers -> Ids \cup {None}]
    /\ mutex \in [Contexts -> [holder : Handlers \cup {None}, queue : Seq(Handlers)]]
    /\ pipe \in [Contexts -> Seq(Handlers)]
    /\ popupBoxes \subseteq Ids
    /\ crashes \in 0 .. MaxCrashes

Free == [holder |-> None, queue |-> <<>>]

Legacy(m) == m.account \in Gmail \cup Outlook
IdsOf(ms) == {m.id : m \in ms}

\* The worker starts with its migration, which reads first of all, and the
\* popup cache's map is refreshed.
Init ==
    /\ disk = Start
    /\ at = [h \in Handlers |-> IF h = Migration THEN "migrate" ELSE "idle"]
    /\ io = [h \in Handlers |-> "read"]
    /\ seen = [h \in Handlers |-> Start]
    /\ target = [h \in Handlers |-> None]
    /\ mutex = [c \in Contexts |-> Free]
    /\ pipe = [c \in Contexts |-> IF c = "worker" THEN <<Migration>> ELSE <<>>]
    /\ popupBoxes = IdsOf({m \in Start.mailboxes : ~ Legacy(m)})
    /\ crashes = 0

-----------------------------------------------------------------------------
(***************************************************************************)
(* The mutex and the order of calls.  A run is the mutex and the pipe of   *)
(* one context.                                                            *)
(***************************************************************************)
Run(c) == [mutex |-> mutex[c], pipe |-> pipe[c]]
Issue(run, h) == [run EXCEPT !.pipe = Append(@, h)]

\* Variant: the mutex is never found locked.
BugLock(run, h) == Issue(run, h)

\* AsyncMutex.lock: first come, first served.
Lock(run, h) ==
    IF run.mutex.holder = None
    THEN Issue([run EXCEPT !.mutex.holder = h], h)
    ELSE [run EXCEPT !.mutex.queue = Append(@, h)]

\* AsyncMutex.unlock hands the mutex to the next in the queue, who then
\* issues its read.
Unlock(run) ==
    LET queue == run.mutex.queue
    IN  IF queue = <<>>
        THEN [run EXCEPT !.mutex.holder = None]
        ELSE Issue([run EXCEPT !.mutex = [holder |-> Head(queue), queue |-> Tail(queue)]],
                   Head(queue))

Enter(run, h, stage) ==
    IF stage \in Ends \cup {"pairing"} THEN run
    ELSE IF stage \in Locked THEN Lock(run, h) ELSE Issue(run, h)

SetRun(c, run) ==
    /\ mutex' = [mutex EXCEPT ![c] = run.mutex]
    /\ pipe' = [pipe EXCEPT ![c] = run.pipe]

\* Variant: a throw leaves the mutex locked.
BugLeave(run, stage, next) ==
    IF stage \in Locked /\ next # "error" THEN Unlock(run) ELSE run

\* runExclusive unlocks however its body ended.
Leave(run, stage, next) == IF stage \in Locked THEN Unlock(run) ELSE run

\* The stage of the head of c's pipe is over and next follows.
Proceed(c, next) ==
    LET h == Head(pipe[c])
        served == [Run(c) EXCEPT !.pipe = Tail(@)]
    IN  /\ at' = [at EXCEPT ![h] = next]
        /\ io' = [io EXCEPT ![h] = IF next = "reset" THEN "write" ELSE "read"]
        /\ seen' = [seen EXCEPT ![h] = Start]
        /\ SetRun(c, Enter(Leave(served, at[h], next), h, next))

-----------------------------------------------------------------------------
(***************************************************************************)
(* A message arrives, a poll has a result, the options page saves.         *)
(***************************************************************************)
First(op) ==
    CASE op = "store" -> "add"
      [] op = "remove" -> "find"
      [] op = "disconnect" -> "remove"
      [] op = "sync" -> "touch"
      [] op = "connect" -> "pairing"
      [] op = "repair" -> "findMessages"
      [] op \in {"enable", "disable"} -> "pref"
      [] OTHER -> op

Receive(h) ==
    /\ at[h] = "idle"
    /\ Cardinality({g \in Requests : at[g] # "idle"}) < MaxRequests
    /\ LET c == ContextOf(h)
           stage == First(Ask[h].op)
       IN  /\ at' = [at EXCEPT ![h] = stage]
           /\ io' = [io EXCEPT ![h] = IF stage = "reset" THEN "write" ELSE "read"]
           /\ target' = [target EXCEPT ![h] =
                            IF Ask[h].op \in {"remove", "disconnect", "sync"} THEN Arg(h) ELSE None]
           /\ SetRun(c, Enter(Run(c), h, stage))
    /\ UNCHANGED <<disk, seen, popupBoxes, crashes>>

\* The tab of the web client answers whether it is paired.  An unpaired one
\* ends the request: the page asks again.
Pairing(h) ==
    /\ at[h] = "pairing"
    /\ \/ /\ at' = [at EXCEPT ![h] = "look"]
          /\ SetRun("worker", Enter(Run("worker"), h, "look"))
       \/ /\ at' = [at EXCEPT ![h] = "unpaired"]
          /\ UNCHANGED <<mutex, pipe>>
    /\ UNCHANGED <<disk, io, seen, target, popupBoxes, crashes>>

-----------------------------------------------------------------------------
(***************************************************************************)
(* Reads.                                                                  *)
(***************************************************************************)
\* getMailboxes drops legacy Gmail rows and throws on an Outlook row.
Visible(d) == [d EXCEPT !.mailboxes = {m \in @ : m.account \notin Gmail}]
Unreadable(d) == \E m \in d.mailboxes : m.account \in Outlook

AccountOf(h) == IF Ask[h].op = "store" THEN Arg(h) ELSE Messages

\* Variant: only the id is compared.
BugTaken(h, d) == \E m \in d.mailboxes : m.id = h

Taken(h, d) == \E m \in d.mailboxes : m.id = h \/ m.account = AccountOf(h)
Absent(h, d) == target[h] \notin IdsOf(d.mailboxes)

\* The stage's call throws.
Throws(h) ==
    LET d == Visible(disk)
    IN  \/ at[h] \in MailboxStages /\ Unreadable(disk)
        \/ at[h] = "add" /\ Taken(h, d)
        \/ at[h] \in {"remove", "touch"} /\ Absent(h, d)

ReadFails(c) ==
    LET h == Head(pipe[c])
    IN  /\ pipe[c] # <<>> /\ io[h] = "read"
        /\ Throws(h)
        /\ Proceed(c, "error")
        /\ UNCHANGED <<disk, target, popupBoxes, crashes>>

\* A read whose answer only decides what comes next.
HasMessages(d) == \E m \in d.mailboxes : m.account = Messages
Full(d) == Cardinality(d.settings.banned) >= Cap

Look(c) ==
    LET h == Head(pipe[c])
        d == Visible(disk)
        found == {m \in d.mailboxes : m.account = Messages}
    IN  /\ pipe[c] # <<>> /\ io[h] = "read" /\ ~ Throws(h)
        /\ \/ /\ at[h] = "find"
              /\ Proceed(c, "remove")
              /\ UNCHANGED <<target, popupBoxes>>
           \/ /\ at[h] = "findMessages"
              /\ IF found = {}
                 THEN Proceed(c, "pairing") /\ UNCHANGED target
                 ELSE /\ Proceed(c, "remove")
                      /\ \E m \in found : target' = [target EXCEPT ![h] = m.id]
              /\ UNCHANGED popupBoxes
           \/ /\ at[h] = "look"
              /\ Proceed(c, IF HasMessages(d) THEN "exists" ELSE "add")
              /\ UNCHANGED <<target, popupBoxes>>
           \/ /\ at[h] = "preview"
              /\ Proceed(c, IF Arg(h) \in d.settings.banned \/ Full(d) THEN "ok" ELSE "ban")
              /\ UNCHANGED <<target, popupBoxes>>
           \/ /\ at[h] = "refresh"
              /\ Proceed(c, "ok")
              /\ popupBoxes' = IdsOf(d.mailboxes)
              /\ UNCHANGED target
           \/ /\ at[h] = "migrate" /\ ~ \E m \in disk.mailboxes : Legacy(m)
              /\ Proceed(c, "ok")
              /\ UNCHANGED <<target, popupBoxes>>
        /\ UNCHANGED <<disk, crashes>>

\* A read that a write follows.
Updates == Locked \cup {"level", "migrate"}

Read(c) ==
    LET h == Head(pipe[c])
    IN  /\ pipe[c] # <<>> /\ io[h] = "read"
        /\ at[h] \in Updates /\ ~ Throws(h)
        /\ at[h] = "migrate" => \E m \in disk.mailboxes : Legacy(m)
        /\ io' = [io EXCEPT ![h] = "write"]
        /\ seen' = [seen EXCEPT ![h] = IF at[h] = "migrate" THEN disk ELSE Visible(disk)]
        /\ pipe' = [pipe EXCEPT ![c] = Append(Tail(@), h)]
        /\ UNCHANGED <<disk, at, target, mutex, popupBoxes, crashes>>

-----------------------------------------------------------------------------
(***************************************************************************)
(* Writes: each replaces the whole value under its key.                    *)
(***************************************************************************)
WithMailbox(h, ms) ==
    CASE at[h] = "add" -> ms \cup {[id |-> h, account |-> AccountOf(h), synced |-> FALSE]}
      [] at[h] = "remove" -> {m \in ms : m.id # target[h]}
      [] at[h] = "touch" -> {IF m.id = target[h] THEN [m EXCEPT !.synced = TRUE] ELSE m : m \in ms}
      [] OTHER -> {m \in ms : ~ Legacy(m)}

\* Variant: the limit is that of the preview only.
BugBanned(d, s) == s.banned \cup {d}

\* settingsMutationToTransform checks the limit again, in the mutex.
Banned(d, s) == IF Cardinality(s.banned) < Cap THEN s.banned \cup {d} ELSE s.banned

WithSettings(h, s) ==
    CASE at[h] = "ban" -> [s EXCEPT !.banned = Banned(Arg(h), s)]
      [] at[h] = "unban" -> [s EXCEPT !.banned = @ \ {Arg(h)}]
      [] at[h] = "level" -> [s EXCEPT !.level = Arg(h)]
      [] at[h] = "timeout" -> [s EXCEPT !.timeout = Arg(h)]
      [] OTHER -> Default

\* Variant: a removal does not refresh the popup's map.
BugAfter(h) ==
    CASE at[h] = "remove" -> IF Ask[h].op = "repair" THEN "pairing" ELSE "ok"
      [] at[h] = "add" -> "refresh"
      [] at[h] = "pref" -> IF Ask[h].op = "enable" THEN "unban" ELSE "preview"
      [] OTHER -> "ok"

After(h) ==
    CASE at[h] = "add" -> "refresh"
      [] at[h] = "remove" -> IF Ask[h].op = "repair" THEN "pairing" ELSE "refresh"
      [] at[h] = "pref" -> IF Ask[h].op = "enable" THEN "unban" ELSE "preview"
      [] OTHER -> "ok"

Write(c) ==
    LET h == Head(pipe[c])
    IN  /\ pipe[c] # <<>> /\ io[h] = "write"
        /\ disk' =
              CASE at[h] \in {"add", "remove", "touch", "migrate"} ->
                      [disk EXCEPT !.mailboxes = WithMailbox(h, seen[h].mailboxes)]
                [] at[h] = "pref" ->
                      [disk EXCEPT !.prefs = [seen[h].prefs EXCEPT ![Arg(h)] =
                           IF Ask[h].op = "enable" THEN "on" ELSE "off"]]
                [] OTHER -> [disk EXCEPT !.settings = WithSettings(h, seen[h].settings)]
        /\ Proceed(c, After(h))
        /\ UNCHANGED <<target, popupBoxes, crashes>>

-----------------------------------------------------------------------------
\* The worker dies: its requests get no answer, calls it issued may not have
\* taken effect.  The next one starts with the migration and a fresh map.
Crash ==
    /\ crashes < MaxCrashes
    /\ crashes' = crashes + 1
    /\ LET dead == {h \in Handlers : ContextOf(h) = "worker"}
       IN  /\ at' = [h \in Handlers |->
                        IF h = Migration THEN "migrate"
                        ELSE IF h \in dead /\ at[h] \in Stages THEN "lost" ELSE at[h]]
           /\ io' = [h \in Handlers |-> IF h \in dead THEN "read" ELSE io[h]]
           /\ seen' = [h \in Handlers |-> IF h \in dead THEN Start ELSE seen[h]]
    /\ mutex' = [mutex EXCEPT !["worker"] = Free]
    /\ pipe' = [pipe EXCEPT !["worker"] = <<Migration>>]
    /\ popupBoxes' = IdsOf({m \in disk.mailboxes : ~ Legacy(m)})
    /\ UNCHANGED <<disk, target>>

Serve(c) == ReadFails(c) \/ Look(c) \/ Read(c) \/ Write(c)

Next ==
    \/ \E h \in Requests : Receive(h) \/ Pairing(h)
    \/ \E c \in Contexts : Serve(c)
    \/ Crash

Spec == Init /\ [][Next]_vars

\* Chrome answers the calls of a context that lives.
Fairness ==
    /\ \A c \in Contexts : WF_vars(Serve(c))
    /\ \A h \in Requests : WF_vars(Pairing(h))

FairSpec == Spec /\ Fairness

-----------------------------------------------------------------------------
(***************************************************************************)
(* Safety.                                                                 *)
(***************************************************************************)
\* The two Google Messages handlers look for a mailbox before they add one,
\* outside the mutex; still no two mailboxes share an id or an account.
UniqueAccounts ==
    \A m, n \in disk.mailboxes : m.id = n.id \/ m.account = n.account => m = n

\* The page was told that its account is stored or paired: it is, until a
\* request removes it, whatever polls, migrations and restarts wrote since.
Removers(id) ==
    {h \in Requests : \/ Ask[h].op \in {"remove", "disconnect"} /\ Arg(h) = id
                      \/ Ask[h].op = "repair" /\ id # h}

AddedStays ==
    \A h \in Requests :
        Ask[h].op \in {"store", "connect", "repair"} /\ at[h] = "ok"
        /\ (\A g \in Removers(h) : at[g] = "idle")
            => h \in IdsOf(disk.mailboxes)

\* The page was told that its account is removed: no stale copy of the list
\* brings it back.
RemovedStaysGone ==
    \A h \in Requests :
        \/ Ask[h].op \in {"remove", "disconnect"} /\ at[h] = "ok"
        \/ Ask[h].op = "repair" /\ at[h] \in {"pairing", "look", "add", "refresh", "ok"}
            => target[h] \notin IdsOf(disk.mailboxes)

MailboxesKept == AddedStays /\ RemovedStaysGone

\* The blacklist stays within its limit although the limit is checked first
\* on a copy that other requests make stale.
BansCapped == Cardinality(disk.settings.banned) <= Cap

\* A legacy row is not a mailbox.
Shown == [disk EXCEPT !.mailboxes = {m \in @ : ~ Legacy(m)}]
Atomic == INSTANCE AtomicStore WITH store <- Shown

\* Every step of the stored value is one operation on the current value: no
\* update is lost to a concurrent one.
AtomicSpec == Atomic!Spec

\* When no request is under way, the popup knows the stored mailboxes.  A
\* repair that finds the tab unpaired has removed one without a refresh.
PopupAgrees ==
    (\A h \in Requests : at[h] \in Ends \cup {"idle"}) /\ at[Migration] \in Ends
    /\ (\A h \in Requests : Ask[h].op = "repair" => at[h] = "idle")
        => popupBoxes = IdsOf({m \in disk.mailboxes : ~ Legacy(m)})

\* What lib/storage/settings-rpc.ts promises of a mutation the worker
\* acknowledged: no other writer of the settings clobbers it.
MutationKept ==
    \A h \in Requests :
        Ask[h].op = "ban" /\ at[h] = "ok"
        /\ ~ (\E g \in Requests : Ask[g].op \in {"unban", "enable", "reset"} /\ at[g] # "idle")
        /\ Cardinality(disk.settings.banned) < Cap
            => Arg(h) \in disk.settings.banned

-----------------------------------------------------------------------------
\* Liveness: every request is answered, also when a call inside the mutex
\* threw, or its worker died.
Answered == \A h \in Requests : at[h] # "idle" ~> at[h] \in Ends
=============================================================================
