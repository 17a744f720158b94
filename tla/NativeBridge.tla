---------------------------- MODULE NativeBridge ----------------------------
(***************************************************************************)
(* The native-messaging client (lib/native-messaging/client.ts) of each    *)
(* extension context, and the host it talks to (inboxbridge/src): its      *)
(* dispatches, the account file with its lock file, and the OS keychain.   *)
(*                                                                         *)
(* Every context that connects gets a host process of its own.  Dispatches *)
(* of one process, and processes, run concurrently; accounts.lock is what  *)
(* serializes them.  A process ends when its port does, wherever its       *)
(* dispatches are.                                                         *)
(***************************************************************************)
EXTENDS Naturals, FiniteSets

CONSTANTS
    Requests,  \* requests the extension may send, each once
    Contexts,  \* the service worker and extension pages
    Ctx,       \* Ctx[r]: who sends r
    Kind,      \* Kind[r]: "add", "remove", "fetch" or "uninstall"
    Target,    \* Target[r]: the account r is about; an add makes account r
    Held,      \* accounts that were there from the start
    Procs,     \* host processes
    None,      \* no process
    Torn,      \* the contents of a file whose write has not ended
    MaxFaults, \* bound: failures of the disk, the keychain or a process
    MaxCloses, \* bound: contexts that go away with their port
    MaxCalls   \* bound: requests that are sent

Adds == {r \in Requests : Kind[r] = "add"}
Removes == {r \in Requests : Kind[r] = "remove"}
Uninstalls == {r \in Requests : Kind[r] = "uninstall"}
Accounts == Held \cup Adds

ASSUME RequestsAssumption ==
    /\ Ctx \in [Requests -> Contexts]
    /\ Kind \in [Requests -> {"add", "remove", "fetch", "uninstall"}]
    /\ \A r \in Adds : Target[r] = r
    /\ \A r \in Requests \ Uninstalls : Target[r] \in Accounts
ASSUME HostAssumption ==
    /\ Held \cap Requests = {} /\ None \notin Procs
    /\ Torn \notin SUBSET Accounts
    /\ {MaxFaults, MaxCloses, MaxCalls} \subseteq Nat

VARIABLES
    port,      \* port[c]: the process behind c's port, or None
    cooling,   \* contexts whose port disconnected less than 5 s ago
    reply,     \* reply[r]: what the caller of r has got
    started,   \* processes that were spawned
    booted,    \* processes that have checked the file and read requests
    proc,      \* proc[r]: the process that works on r
    at,        \* at[r]: where the dispatch of r is
    inode,     \* inode[r]: the lock file r has open, 0 for none
    copy,      \* copy[r]: the accounts r has read
    verdict,   \* verdict[r]: how the dispatch of r ends
    path,      \* the lock file under its name, 0 for none
    made,      \* lock files made so far
    file,      \* accounts.json: a set of accounts, or Torn
    keychain,  \* accounts with a password in the keychain
    mailboxes, \* accounts the extension has a mailbox of
    hurt,      \* history: accounts a fault or a concurrent uninstall has hit
    split,     \* history: two dispatches held the lock on two lock files
    faults, closes, calls

clientVars == <<port, cooling, reply, mailboxes>>
procVars == <<started, booted, proc>>
diskVars == <<path, made, file, keychain>>
taskVars == <<at, inode, copy, verdict>>
history == <<hurt, split, faults, closes, calls>>
vars == <<clientVars, procVars, diskVars, taskVars, history>>

Places == {"idle", "look", "key", "lock", "writing", "store", "unlink",
           "done", "sent", "dead"}

TypeOK ==
    /\ port \in [Contexts -> Procs \cup {None}]
    /\ cooling \subseteq Contexts
    /\ reply \in [Requests -> {"none", "pending", "ok", "refused", "lost"}]
    /\ mailboxes \subseteq Accounts
    /\ started \subseteq Procs /\ booted \subseteq started
    /\ proc \in [Requests -> Procs \cup {None}]
    /\ at \in [Requests -> Places]
    /\ inode \in [Requests -> Nat] /\ path \in Nat /\ made \in Nat
    /\ copy \in [Requests -> SUBSET Accounts]
    /\ verdict \in [Requests -> {"none", "ok", "refused"}]
    /\ file \in (SUBSET Accounts) \cup {Torn}
    /\ keychain \subseteq Accounts /\ hurt \subseteq Accounts
    /\ split \in BOOLEAN
    /\ faults \in 0 .. MaxFaults /\ closes \in 0 .. MaxCloses
    /\ calls \in 0 .. MaxCalls

Init ==
    /\ port = [c \in Contexts |-> None] /\ cooling = {}
    /\ reply = [r \in Requests |-> "none"]
    /\ started = {} /\ booted = {}
    /\ proc = [r \in Requests |-> None]
    /\ at = [r \in Requests |-> "idle"]
    /\ inode = [r \in Requests |-> 0] /\ path = 0 /\ made = 0
    /\ copy = [r \in Requests |-> {}]
    /\ verdict = [r \in Requests |-> "none"]
    /\ file = Held /\ keychain = Held /\ mailboxes = Held
    /\ hurt = {} /\ split = FALSE /\ faults = 0 /\ closes = 0
    /\ calls = 0

-----------------------------------------------------------------------------
(***************************************************************************)
(* The client.                                                             *)
(***************************************************************************)
First(kind) == IF kind = "add" THEN "lock" ELSE "look"

\* The extension asks about accounts it has a mailbox of; REMOVE_MAILBOX
\* drops the mailbox first and asks the host afterwards.
MayAsk(r) == Kind[r] \in {"remove", "fetch"} => Target[r] \in mailboxes
MailboxesAfterCall(r) ==
    IF Kind[r] = "remove" THEN mailboxes \ {Target[r]} ELSE mailboxes

\* request: post on the port, after connecting when there is none.
Send(r, p) ==
    /\ proc' = [proc EXCEPT ![r] = p]
    /\ at' = [at EXCEPT ![r] = First(Kind[r])]
    /\ reply' = [reply EXCEPT ![r] = "pending"]

Call(r) ==
    /\ at[r] = "idle" /\ reply[r] = "none"
    /\ calls < MaxCalls /\ calls' = calls + 1
    /\ MayAsk(r)
    /\ mailboxes' = MailboxesAfterCall(r)
    /\ LET c == Ctx[r]
       IN  \/ /\ port[c] # None
              /\ Send(r, port[c])
              /\ UNCHANGED <<port, started>>
           \/ /\ port[c] = None /\ c \notin cooling
              /\ \E p \in Procs \ started :
                    /\ Send(r, p)
                    /\ port' = [port EXCEPT ![c] = p]
                    /\ started' = started \cup {p}
           \/ /\ port[c] = None /\ c \in cooling
              /\ reply' = [reply EXCEPT ![r] = "lost"]
              /\ UNCHANGED <<port, started, proc, at>>
    /\ UNCHANGED <<cooling, booted, diskVars, inode, copy, verdict, hurt, split, faults,
                   closes>>

\* setTimeout of request: 30 s, less than the host allows a dispatch.
TimesOut(r) ==
    /\ reply[r] = "pending"
    /\ reply' = [reply EXCEPT ![r] = "lost"]
    /\ UNCHANGED <<port, cooling, mailboxes, procVars, diskVars, taskVars, history>>

\* handleMessage: an answer nobody waits for is dropped.  The page stores the
\* mailbox of an account it has added, and drops those of an uninstalled host.
Deliver(r) ==
    /\ at[r] = "done" /\ port[Ctx[r]] = proc[r]
    /\ at' = [at EXCEPT ![r] = "sent"]
    /\ IF reply[r] = "pending"
       THEN /\ reply' = [reply EXCEPT ![r] = verdict[r]]
            /\ mailboxes' = IF verdict[r] = "refused" THEN mailboxes
                            ELSE CASE Kind[r] = "add" -> mailboxes \cup {r}
                                   [] Kind[r] = "uninstall" -> {}
                                   [] OTHER -> mailboxes
       ELSE UNCHANGED <<reply, mailboxes>>
    /\ UNCHANGED <<port, cooling, procVars, diskVars, inode, copy, verdict, history>>

Cool(c) ==
    /\ c \in cooling
    /\ cooling' = cooling \ {c}
    /\ UNCHANGED <<port, reply, mailboxes, procVars, diskVars, taskVars, history>>

\* Variant: the requests of a lost port are left to their timeouts.
BugRejected(cs) == reply
\* handleDisconnect and disconnect reject every pending request.
Rejected(cs) ==
    [r \in Requests |-> IF Ctx[r] \in cs /\ reply[r] = "pending" THEN "lost" ELSE reply[r]]

\* The context goes away and with it the client and the port.
Close(c) ==
    /\ port[c] # None
    /\ closes < MaxCloses /\ closes' = closes + 1
    /\ port' = [port EXCEPT ![c] = None]
    /\ reply' = Rejected({c})
    /\ cooling' = cooling \ {c}
    /\ UNCHANGED <<mailboxes, procVars, diskVars, taskVars, hurt, split, faults, calls>>

-----------------------------------------------------------------------------
(***************************************************************************)
(* Processes.                                                              *)
(***************************************************************************)
Fault == faults < MaxFaults /\ faults' = faults + 1
Works(r) == at[r] \notin {"idle", "sent", "dead"}
Runs(r) == Works(r) /\ proc[r] \in booted

\* AppState::new repairs a torn file under the lock; it keeps a backup nobody
\* reads.
Holders == {r \in Requests : at[r] = "writing"}
Free(i) == \A q \in Holders : inode[q] # i
\* Whoever holds lock file i now is not alone.
Splits(i) == split' = (split \/ \E q \in Holders : inode[q] # i)

Repaired == IF file = Torn THEN {} ELSE file

Boot(p) ==
    /\ p \in started \ booted
    /\ Free(path)
    /\ booted' = booted \cup {p}
    /\ file' = Repaired
    /\ path' = IF path = 0 THEN made + 1 ELSE path
    /\ made' = IF path = 0 THEN made + 1 ELSE made
    /\ Splits(path)
    /\ UNCHANGED <<clientVars, started, proc, keychain, taskVars, hurt, faults, closes,
                   calls>>

Peers(p) == {c \in Contexts : port[c] = p}
Ending(p, r) == proc[r] = p /\ Works(r)

\* The process ends: it crashes, or reads the end of its stdin.  An open port
\* disconnects and its client rejects what is pending.
Exit(p) ==
    /\ p \in started
    /\ \/ Peers(p) # {} /\ Fault
       \/ Peers(p) = {} /\ (\E r \in Requests : Ending(p, r)) /\ UNCHANGED faults
    /\ port' = [c \in Contexts |-> IF c \in Peers(p) THEN None ELSE port[c]]
    /\ cooling' = cooling \cup Peers(p)
    /\ reply' = Rejected(Peers(p))
    /\ at' = [r \in Requests |-> IF Ending(p, r) THEN "dead" ELSE at[r]]
    /\ inode' = [r \in Requests |-> IF Ending(p, r) THEN 0 ELSE inode[r]]
    /\ hurt' = hurt \cup UNION {copy[r] \cup {Target[r]} :
                                   r \in {q \in Requests : Ending(p, q) /\ at[q] = "writing"}}
    /\ UNCHANGED <<mailboxes, procVars, diskVars, copy, verdict, split, closes, calls>>

-----------------------------------------------------------------------------
(***************************************************************************)
(* A dispatch.                                                             *)
(***************************************************************************)
Goto(r, place) == at' = [at EXCEPT ![r] = place]
End(r, how) == Goto(r, "done") /\ verdict' = [verdict EXCEPT ![r] = how]
DropLock(r) == inode' = [inode EXCEPT ![r] = 0]

\* open_lock_file: create the file if there is none.
OpenLock(r) ==
    /\ Runs(r) /\ at[r] \in {"look", "lock"} /\ inode[r] = 0
    /\ made' = IF path = 0 THEN made + 1 ELSE made
    /\ path' = IF path = 0 THEN made + 1 ELSE path
    /\ inode' = [inode EXCEPT ![r] = path']
    /\ UNCHANGED <<clientVars, procVars, file, keychain, at, copy, verdict, history>>

\* Variant: nobody waits for the lock.
BugMayLock(r) == inode[r] # 0
MayLock(r) == inode[r] # 0 /\ Free(inode[r])

\* get_account, which repairs a torn file, and the snapshot of the uninstall,
\* which refuses it.
Look(r) ==
    /\ Runs(r) /\ at[r] = "look" /\ MayLock(r)
    /\ Splits(inode[r])
    /\ DropLock(r)
    /\ \/ /\ Kind[r] = "uninstall"
          /\ IF file = Torn
             THEN End(r, "refused") /\ UNCHANGED copy
             ELSE /\ copy' = [copy EXCEPT ![r] = file]
                  /\ Goto(r, "key")
                  /\ UNCHANGED verdict
          /\ UNCHANGED file
       \/ /\ Kind[r] \in {"remove", "fetch"}
          /\ file' = Repaired
          /\ IF Target[r] \in Repaired
             THEN Goto(r, "key") /\ UNCHANGED verdict
             ELSE End(r, "refused")
          /\ UNCHANGED copy
    /\ UNCHANGED <<clientVars, procVars, path, made, keychain, hurt, faults, closes, calls>>

\* The password of the account to remove, or of the next one of the snapshot,
\* is deleted; a failure is only reported.
Forget(r, a) ==
    \/ keychain' = keychain \ {a} /\ UNCHANGED <<hurt, faults>>
    \/ Fault /\ hurt' = hurt \cup {a} /\ UNCHANGED keychain

DeletePassword(r) ==
    /\ Runs(r) /\ at[r] = "key"
    /\ \/ Kind[r] = "remove" /\ Forget(r, Target[r]) /\ Goto(r, "lock") /\ UNCHANGED copy
       \/ /\ Kind[r] = "uninstall"
          /\ \E a \in copy[r] :
                Forget(r, a) /\ copy' = [copy EXCEPT ![r] = @ \ {a}]
          /\ UNCHANGED at
    /\ UNCHANGED <<clientVars, procVars, path, made, file, inode, verdict, split, closes, calls>>

\* Variant: the passwords are left for a later cleanup.
BugWiped(r) == TRUE
Wiped(r) == copy[r] = {}

AllDeleted(r) ==
    /\ Runs(r) /\ at[r] = "key" /\ Kind[r] = "uninstall" /\ Wiped(r)
    /\ Goto(r, "lock")
    /\ UNCHANGED <<clientVars, procVars, diskVars, inode, copy, verdict, history>>

\* mail.fetchRecent needs the password; the mail server is not modelled.
Fetch(r) ==
    /\ Runs(r) /\ at[r] = "key" /\ Kind[r] = "fetch"
    /\ \/ Target[r] \in keychain /\ End(r, "ok")
       \/ End(r, "refused")
    /\ UNCHANGED <<clientVars, procVars, diskVars, inode, copy, history>>

\* account.add inserts, unless it undoes that; account.remove removes.
Adding(r) == Kind[r] = "add" /\ verdict[r] = "none"
Changed(r) == IF Adding(r) THEN copy[r] \cup {r} ELSE copy[r] \ {Target[r]}

\* read_modify_write: lock, read (and repair), then truncate to write; the
\* file may fail to open.
Lock(r) ==
    /\ Runs(r) /\ at[r] = "lock" /\ Kind[r] # "uninstall" /\ MayLock(r)
    /\ copy' = [copy EXCEPT ![r] = Repaired]
    /\ file' = Torn
    /\ Goto(r, "writing")
    /\ Splits(inode[r])
    /\ UNCHANGED <<clientVars, procVars, path, made, keychain, inode, verdict, hurt,
                   faults, closes, calls>>

LockFails(r) ==
    /\ Runs(r) /\ at[r] = "lock" /\ MayLock(r)
    /\ Fault
    /\ DropLock(r)
    /\ End(r, "refused")
    /\ hurt' = IF Kind[r] = "uninstall" \/ Adding(r) THEN hurt ELSE hurt \cup {Target[r]}
    /\ UNCHANGED <<clientVars, procVars, diskVars, copy, split, closes, calls>>

Written(r) ==
    /\ Runs(r) /\ at[r] = "writing"
    /\ file' = Changed(r)
    /\ DropLock(r)
    /\ IF Adding(r)
       THEN Goto(r, "store") /\ UNCHANGED verdict
       ELSE End(r, IF Kind[r] = "add" THEN "refused" ELSE "ok")
    /\ UNCHANGED <<clientVars, procVars, path, made, keychain, copy, history>>

WriteFails(r) ==
    /\ Runs(r) /\ at[r] = "writing"
    /\ Fault
    /\ DropLock(r)
    /\ End(r, "refused")
    /\ hurt' = hurt \cup copy[r] \cup {Target[r]}
    /\ UNCHANGED <<clientVars, procVars, diskVars, copy, split, closes, calls>>

Listed == IF file # Torn THEN file
          ELSE UNION {copy[r] : r \in Holders}

\* An uninstall has taken its snapshot, or has already deleted r's account.
Wiping(r) ==
    \E u \in Uninstalls :
        at[u] \in {"key", "lock"} \/ (at[u] # "idle" /\ r \notin Listed)

\* store_password; the host answers.
Store(r) ==
    /\ Runs(r) /\ at[r] = "store"
    /\ keychain' = keychain \cup {r}
    /\ hurt' = IF Wiping(r) THEN hurt \cup {r} ELSE hurt
    /\ End(r, "ok")
    /\ UNCHANGED <<clientVars, procVars, path, made, file, inode, copy, split, faults, closes, calls>>

\* Variant: the account stays without a password.
BugUndo(r) == End(r, "refused")
Undo(r) == verdict' = [verdict EXCEPT ![r] = "refused"] /\ Goto(r, "lock")

StoreFails(r) ==
    /\ Runs(r) /\ at[r] = "store"
    /\ Fault
    /\ Undo(r)
    /\ UNCHANGED <<clientVars, procVars, diskVars, inode, copy, hurt, split, closes, calls>>

\* The last steps of run_full_cleanup: the file, then its lock.
DeleteFile(r) ==
    /\ Runs(r) /\ at[r] = "lock" /\ Kind[r] = "uninstall" /\ MayLock(r)
    /\ Splits(inode[r])
    /\ DropLock(r)
    /\ file' = {}
    /\ Goto(r, "unlink")
    /\ UNCHANGED <<clientVars, procVars, path, made, keychain, copy, verdict, hurt, faults,
                   closes, calls>>

Unlink(r) ==
    /\ Runs(r) /\ at[r] = "unlink"
    /\ path' = 0
    /\ End(r, "ok")
    /\ UNCHANGED <<clientVars, procVars, made, file, keychain, inode, copy, history>>

-----------------------------------------------------------------------------
Host(r) ==
    \/ OpenLock(r) \/ Look(r)
    \/ DeletePassword(r) \/ AllDeleted(r) \/ Fetch(r)
    \/ Lock(r) \/ LockFails(r) \/ Written(r) \/ WriteFails(r)
    \/ Store(r) \/ StoreFails(r)
    \/ DeleteFile(r) \/ Unlink(r)

Next ==
    \/ \E r \in Requests : Call(r) \/ TimesOut(r) \/ Deliver(r) \/ Host(r)
    \/ \E c \in Contexts : Cool(c) \/ Close(c)
    \/ \E p \in Procs : Boot(p) \/ Exit(p)

Spec == Init /\ [][Next]_vars

-----------------------------------------------------------------------------
(***************************************************************************)
(* Safety.  What a failure of the disk or keychain, a process that dies in *)
(* the middle of a write, or an uninstall at the same time has hit is      *)
(* exempt, and so is everything once the lock was split.                   *)
(***************************************************************************)
\* Nothing is left of an account alone, whichever step of an add, a remove or
\* an uninstall its process dies at: a password in the keychain belongs to an
\* account of the file, for nobody could find it otherwise to delete it, and
\* an add that the host refused, for the keychain did, leaves neither.
NothingOrphaned ==
    split \/ /\ keychain \ hurt \subseteq Listed
             /\ \A r \in Adds \ hurt : reply[r] = "refused" => r \notin Listed \cup keychain

\* An account whose mailbox the extension has is served by the host until the
\* user removes it: no other dispatch of any process undoes it.
Leaving(a) == \E r \in Removes \cup Uninstalls :
                  at[r] # "idle" /\ (r \in Uninstalls \/ Target[r] = a)
MailboxesServed ==
    split \/ \A a \in mailboxes \ hurt : Leaving(a) \/ a \in Listed \cap keychain

\* A caller waits only for the process its port is connected to.
WaitsOnPort == \A r \in Requests : reply[r] = "pending" => port[Ctx[r]] = proc[r]
=============================================================================
