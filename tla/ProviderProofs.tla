--------------------------- MODULE ProviderProofs ---------------------------
(***************************************************************************)
(* The providers that a poll asks.                                         *)
(*                                                                         *)
(* What holds of the native host for every number of contexts, processes   *)
(* and requests: no caller waits for a process it is not connected to, no  *)
(* password is left without its account, and the accounts the extension    *)
(* has mailboxes of are served.                                            *)
(*                                                                         *)
(* And of the Google Messages tab: closeIfOwned never closes a tab the     *)
(* user opened, and ensureTab opens no second one.  UserTabsKept says      *)
(* nothing of the owned flags, so it is not inductive; it is with          *)
(* OwnershipTrue, which follows the flag through memory, storage, recovery *)
(* and the calls under way.  OneOpenedTab needs what the query found when  *)
(* a tab is being created.                                                 *)
(***************************************************************************)
EXTENDS NativeBridge, MessagesTab, TLAPS

\* The places a dispatch of each kind comes to.
Routes ==
    \A r \in Requests :
        /\ at[r] \in {"look", "key"} => Kind[r] # "add"
        /\ at[r] = "lock" => Kind[r] # "fetch"
        /\ at[r] = "writing" => Kind[r] \in {"add", "remove"}
        /\ at[r] = "store" => Kind[r] = "add"
        /\ at[r] = "unlink" => Kind[r] = "uninstall"

\* When a dispatch has a verdict: at its end, and while an add is undone.
Decisions ==
    \A r \in Requests :
        /\ at[r] \in {"idle", "look", "key", "store", "unlink"} => verdict[r] = "none"
        /\ at[r] \in {"lock", "writing"} =>
              verdict[r] = "none" \/ (Kind[r] = "add" /\ verdict[r] = "refused")
        /\ at[r] \in {"done", "sent"} => verdict[r] # "none"

\* What a caller has got is what its dispatch decided; until then it waits for
\* the process its context is connected to.
Answers ==
    \A r \in Requests :
        /\ reply[r] = "none" => at[r] = "idle"
        /\ reply[r] \in {"ok", "refused"} => at[r] = "sent" /\ verdict[r] = reply[r]
        /\ reply[r] = "pending" =>
              at[r] # "idle" /\ proc[r] \in Procs /\ port[Ctx[r]] = proc[r]

\* Only an account whose add was answered has a mailbox or is removed.
Acknowledged(a) == a \in Adds => at[a] = "sent" /\ verdict[a] = "ok"
Asked ==
    /\ \A a \in mailboxes : Acknowledged(a)
    /\ \A r \in Removes : at[r] # "idle" => Acknowledged(Target[r])

\* Whose password may be in the keychain.
Passwords ==
    /\ \A r \in Adds \cap keychain : at[r] \in {"done", "sent", "dead"} /\ verdict[r] = "ok"
    /\ \A r \in Removes : at[r] \in {"lock", "writing"} => Target[r] \notin keychain \ hurt

\* Unless the lock was split, whoever writes is alone.
Alone ==
    /\ \A q, r \in Holders : q = r
    /\ Holders # {} => file = Torn

\* Every password has its account in the file.
Booked == keychain \ hurt \subseteq Listed

\* An add is in the file from its write to the end of its undoing.
Entered(r) == at[r] \in {"store", "done", "sent", "dead"} \/ verdict[r] = "refused"
Entries ==
    \A r \in Adds :
        /\ r \in Listed => Entered(r)
        /\ at[r] = "store" => r \in Listed \cup hurt \/ \E u \in Uninstalls : at[u] # "idle"
        /\ at[r] \in {"done", "sent"} /\ verdict[r] = "refused" => r \in hurt \/ r \notin Listed

\* What an uninstall has yet to delete.
Snapshots ==
    \A u \in Uninstalls :
        /\ at[u] = "key" => keychain \ hurt \subseteq copy[u]
        /\ at[u] = "lock" => keychain \subseteq hurt

\* An account that was added successfully is served.
Taken(a) == a \in mailboxes \/ (a \in Adds /\ at[a] \in {"done", "sent"} /\ verdict[a] = "ok")
Served == \A a \in Accounts \ hurt : Taken(a) => Leaving(a) \/ a \in Listed \cap keychain

Books == Alone /\ Booked /\ Entries /\ Snapshots /\ Served
Shape == TypeOK /\ Routes /\ Decisions /\ Answers /\ Asked /\ Passwords
IInv == Shape /\ (split \/ Books)

-----------------------------------------------------------------------------
(***************************************************************************)
(* The types.                                                              *)
(***************************************************************************)
\* What the kinds of the requests say about their targets.
LEMMA Kinds ==
    /\ Adds \subseteq Requests /\ Removes \subseteq Requests /\ Uninstalls \subseteq Requests
    /\ Accounts = Held \cup Adds
    /\ \A r \in Adds : Target[r] = r /\ r \in Accounts
    /\ \A r \in Requests : Kind[r] # "uninstall" => Target[r] \in Accounts
  BY RequestsAssumption DEF Adds, Removes, Uninstalls, Accounts

\* A repaired file is a set of accounts.
LEMMA RepairedType ==
    TypeOK => Repaired \in SUBSET Accounts /\ Repaired # Torn
<1>1. {} \in SUBSET Accounts
  OBVIOUS
<1> QED
  BY <1>1, HostAssumption DEF TypeOK, Repaired

\* Every step of every component keeps the types.
LEMMA TypeStep ==
    TypeOK /\ Routes /\ [Next]_vars => TypeOK'
<1> SUFFICES ASSUME TypeOK, Routes, [Next]_vars PROVE TypeOK'
  OBVIOUS
<1>k. /\ Adds \subseteq Requests /\ Accounts = Held \cup Adds
      /\ \A r \in Requests : Kind[r] # "uninstall" => Target[r] \in Accounts
  BY Kinds
<1>f. Repaired \in SUBSET Accounts
  BY RepairedType
<1>a. MaxFaults \in Nat /\ MaxCloses \in Nat /\ MaxCalls \in Nat /\ Ctx \in [Requests -> Contexts]
  BY HostAssumption, RequestsAssumption
<1> USE <1>k, <1>f, <1>a DEF TypeOK, Places
<1>1. ASSUME NEW r \in Requests, Call(r) PROVE TypeOK'
  BY <1>1 DEF Call, Send, First, MailboxesAfterCall, diskVars
<1>2. ASSUME NEW r \in Requests, TimesOut(r) PROVE TypeOK'
  BY <1>2 DEF TimesOut, procVars, diskVars, taskVars, history
<1>3. ASSUME NEW r \in Requests, Deliver(r) PROVE TypeOK'
  BY <1>3 DEF Deliver, Adds, procVars, diskVars, history
<1>4. ASSUME NEW c \in Contexts, Cool(c) PROVE TypeOK'
  BY <1>4 DEF Cool, procVars, diskVars, taskVars, history
<1>5. ASSUME NEW c \in Contexts, Close(c) PROVE TypeOK'
  BY <1>5 DEF Close, Rejected, procVars, diskVars, taskVars
<1>6. ASSUME NEW p \in Procs, Boot(p) PROVE TypeOK'
  BY <1>6 DEF Boot, Splits, clientVars, taskVars
<1>7. ASSUME NEW p \in Procs, Exit(p) PROVE TypeOK'
  BY <1>7 DEF Exit, Fault, Peers, Ending, Rejected, Routes, procVars, diskVars
<1>8. ASSUME NEW r \in Requests, OpenLock(r) PROVE TypeOK'
  BY <1>8 DEF OpenLock, clientVars, procVars, history
<1>9. ASSUME NEW r \in Requests, Look(r) PROVE TypeOK'
  <2>1. at' \in [Requests -> Places] /\ verdict' \in [Requests -> {"none", "ok", "refused"}]
    BY <1>9 DEF Look, End, Goto
  <2>2. copy' \in [Requests -> SUBSET Accounts] /\ file' \in (SUBSET Accounts) \cup {Torn}
    BY <1>9 DEF Look
  <2>3. split' \in BOOLEAN
    BY <1>9 DEF Look, Splits
  <2> QED
    BY <1>9, <2>1, <2>2, <2>3 DEF Look, DropLock, clientVars, procVars
<1>10. ASSUME NEW r \in Requests, DeletePassword(r) PROVE TypeOK'
  BY <1>10 DEF DeletePassword, Forget, Fault, Goto, clientVars, procVars
<1>11. ASSUME NEW r \in Requests, AllDeleted(r) PROVE TypeOK'
  BY <1>11 DEF AllDeleted, Goto, clientVars, procVars, diskVars, history
<1>12. ASSUME NEW r \in Requests, Fetch(r) PROVE TypeOK'
  BY <1>12 DEF Fetch, End, Goto, clientVars, procVars, diskVars, history
<1>13. ASSUME NEW r \in Requests, Lock(r) PROVE TypeOK'
  <2>1. at' \in [Requests -> Places]
    BY <1>13 DEF Lock, Goto
  <2>2. copy' \in [Requests -> SUBSET Accounts] /\ file' \in (SUBSET Accounts) \cup {Torn}
    BY <1>13 DEF Lock
  <2>3. split' \in BOOLEAN
    BY <1>13 DEF Lock, Splits
  <2> QED
    BY <1>13, <2>1, <2>2, <2>3 DEF Lock, clientVars, procVars
<1>14. ASSUME NEW r \in Requests, LockFails(r) PROVE TypeOK'
  BY <1>14 DEF LockFails, Fault, DropLock, End, Goto, clientVars, procVars, diskVars
<1>15. ASSUME NEW r \in Requests, Written(r) PROVE TypeOK'
  BY <1>15 DEF Written, Changed, Adding, Adds, DropLock, End, Goto, clientVars, procVars, history
<1>16. ASSUME NEW r \in Requests, WriteFails(r) PROVE TypeOK'
  BY <1>16 DEF WriteFails, Routes, Fault, DropLock, End, Goto, clientVars, procVars, diskVars
<1>17. ASSUME NEW r \in Requests, Store(r) PROVE TypeOK'
  BY <1>17 DEF Store, Routes, Adds, End, Goto, clientVars, procVars
<1>18. ASSUME NEW r \in Requests, StoreFails(r) PROVE TypeOK'
  BY <1>18 DEF StoreFails, Undo, Fault, Goto, clientVars, procVars, diskVars
<1>19. ASSUME NEW r \in Requests, DeleteFile(r) PROVE TypeOK'
  BY <1>19 DEF DeleteFile, Splits, DropLock, Goto, clientVars, procVars
<1>20. ASSUME NEW r \in Requests, Unlink(r) PROVE TypeOK'
  BY <1>20 DEF Unlink, End, Goto, clientVars, procVars, history
<1>21. CASE UNCHANGED vars
  BY <1>21 DEF vars, clientVars, procVars, diskVars, taskVars, history
<1> QED
  BY <1>1, <1>2, <1>3, <1>4, <1>5, <1>6, <1>7, <1>8, <1>9, <1>10, <1>11, <1>12, <1>13, <1>14,
     <1>15, <1>16, <1>17, <1>18, <1>19, <1>20, <1>21 DEF Next, Host

-----------------------------------------------------------------------------
(***************************************************************************)
(* The course of a dispatch and what its caller gets.                      *)
(***************************************************************************)
\* No dispatch comes to a place of another kind.
LEMMA RoutesStep ==
    TypeOK /\ Routes /\ Decisions /\ [Next]_vars => Routes'
<1> SUFFICES ASSUME TypeOK, Routes, Decisions, [Next]_vars PROVE Routes'
  OBVIOUS
<1>k. Kind \in [Requests -> {"add", "remove", "fetch", "uninstall"}]
  BY RequestsAssumption
<1> USE <1>k DEF TypeOK, Routes, Decisions
<1>1. ASSUME NEW r \in Requests, Call(r) PROVE Routes'
  BY <1>1 DEF Call, Send, First, MailboxesAfterCall, diskVars
<1>2. ASSUME NEW r \in Requests, TimesOut(r) PROVE Routes'
  BY <1>2 DEF TimesOut, procVars, diskVars, taskVars, history
<1>3. ASSUME NEW r \in Requests, Deliver(r) PROVE Routes'
  BY <1>3 DEF Deliver, procVars, diskVars, history
<1>4. ASSUME NEW c \in Contexts, Cool(c) PROVE Routes'
  BY <1>4 DEF Cool, procVars, diskVars, taskVars, history
<1>5. ASSUME NEW c \in Contexts, Close(c) PROVE Routes'
  BY <1>5 DEF Close, Rejected, procVars, diskVars, taskVars
<1>6. ASSUME NEW p \in Procs, Boot(p) PROVE Routes'
  BY <1>6 DEF Boot, clientVars, taskVars
<1>7. ASSUME NEW p \in Procs, Exit(p) PROVE Routes'
  BY <1>7 DEF Exit, Ending, Works, Peers, Rejected, procVars, diskVars
<1>8. ASSUME NEW r \in Requests, OpenLock(r) PROVE Routes'
  BY <1>8 DEF OpenLock, clientVars, procVars, history
<1>9. ASSUME NEW r \in Requests, Look(r) PROVE Routes'
  BY <1>9 DEF Look, End, Goto, clientVars, procVars
<1>10. ASSUME NEW r \in Requests, DeletePassword(r) PROVE Routes'
  BY <1>10 DEF DeletePassword, Forget, Goto, clientVars, procVars
<1>11. ASSUME NEW r \in Requests, AllDeleted(r) PROVE Routes'
  BY <1>11 DEF AllDeleted, Goto, clientVars, procVars, diskVars, history
<1>12. ASSUME NEW r \in Requests, Fetch(r) PROVE Routes'
  BY <1>12 DEF Fetch, End, Goto, clientVars, procVars, diskVars, history
<1>13. ASSUME NEW r \in Requests, Lock(r) PROVE Routes'
  BY <1>13 DEF Lock, Goto, clientVars, procVars
<1>14. ASSUME NEW r \in Requests, LockFails(r) PROVE Routes'
  BY <1>14 DEF LockFails, End, Goto, clientVars, procVars, diskVars
<1>15. ASSUME NEW r \in Requests, Written(r) PROVE Routes'
  BY <1>15 DEF Written, Adding, End, Goto, clientVars, procVars, history
<1>16. ASSUME NEW r \in Requests, WriteFails(r) PROVE Routes'
  BY <1>16 DEF WriteFails, End, Goto, clientVars, procVars, diskVars
<1>17. ASSUME NEW r \in Requests, Store(r) PROVE Routes'
  BY <1>17 DEF Store, End, Goto, clientVars, procVars
<1>18. ASSUME NEW r \in Requests, StoreFails(r) PROVE Routes'
  BY <1>18 DEF StoreFails, Undo, Goto, clientVars, procVars, diskVars
<1>19. ASSUME NEW r \in Requests, DeleteFile(r) PROVE Routes'
  BY <1>19 DEF DeleteFile, Goto, clientVars, procVars
<1>20. ASSUME NEW r \in Requests, Unlink(r) PROVE Routes'
  BY <1>20 DEF Unlink, End, Goto, clientVars, procVars, history
<1>21. CASE UNCHANGED vars
  BY <1>21 DEF vars, clientVars, procVars, diskVars, taskVars, history
<1> QED
  BY <1>1, <1>2, <1>3, <1>4, <1>5, <1>6, <1>7, <1>8, <1>9, <1>10, <1>11, <1>12, <1>13, <1>14,
     <1>15, <1>16, <1>17, <1>18, <1>19, <1>20, <1>21 DEF Next, Host

\* Every dispatch decides once, at its end or when an add fails.
LEMMA DecisionsStep ==
    TypeOK /\ Routes /\ Decisions /\ [Next]_vars => Decisions'
<1> SUFFICES ASSUME TypeOK, Routes, Decisions, [Next]_vars PROVE Decisions'
  OBVIOUS
<1> USE DEF TypeOK, Routes, Decisions
<1>1. ASSUME NEW r \in Requests, Call(r) PROVE Decisions'
  BY <1>1 DEF Call, Send, First, MailboxesAfterCall, diskVars
<1>2. ASSUME NEW r \in Requests, TimesOut(r) PROVE Decisions'
  BY <1>2 DEF TimesOut, procVars, diskVars, taskVars, history
<1>3. ASSUME NEW r \in Requests, Deliver(r) PROVE Decisions'
  BY <1>3 DEF Deliver, procVars, diskVars, history
<1>4. ASSUME NEW c \in Contexts, Cool(c) PROVE Decisions'
  BY <1>4 DEF Cool, procVars, diskVars, taskVars, history
<1>5. ASSUME NEW c \in Contexts, Close(c) PROVE Decisions'
  BY <1>5 DEF Close, Rejected, procVars, diskVars, taskVars
<1>6. ASSUME NEW p \in Procs, Boot(p) PROVE Decisions'
  BY <1>6 DEF Boot, clientVars, taskVars
<1>7. ASSUME NEW p \in Procs, Exit(p) PROVE Decisions'
  BY <1>7 DEF Exit, Ending, Works, Peers, Rejected, procVars, diskVars
<1>8. ASSUME NEW r \in Requests, OpenLock(r) PROVE Decisions'
  BY <1>8 DEF OpenLock, clientVars, procVars, history
<1>9. ASSUME NEW r \in Requests, Look(r) PROVE Decisions'
  BY <1>9 DEF Look, End, Goto, clientVars, procVars
<1>10. ASSUME NEW r \in Requests, DeletePassword(r) PROVE Decisions'
  BY <1>10 DEF DeletePassword, Forget, Goto, clientVars, procVars
<1>11. ASSUME NEW r \in Requests, AllDeleted(r) PROVE Decisions'
  BY <1>11 DEF AllDeleted, Goto, clientVars, procVars, diskVars, history
<1>12. ASSUME NEW r \in Requests, Fetch(r) PROVE Decisions'
  BY <1>12 DEF Fetch, End, Goto, clientVars, procVars, diskVars, history
<1>13. ASSUME NEW r \in Requests, Lock(r) PROVE Decisions'
  BY <1>13 DEF Lock, Goto, clientVars, procVars
<1>14. ASSUME NEW r \in Requests, LockFails(r) PROVE Decisions'
  BY <1>14 DEF LockFails, End, Goto, clientVars, procVars, diskVars
<1>15. ASSUME NEW r \in Requests, Written(r) PROVE Decisions'
  BY <1>15 DEF Written, Adding, End, Goto, clientVars, procVars, history
<1>16. ASSUME NEW r \in Requests, WriteFails(r) PROVE Decisions'
  BY <1>16 DEF WriteFails, End, Goto, clientVars, procVars, diskVars
<1>17. ASSUME NEW r \in Requests, Store(r) PROVE Decisions'
  BY <1>17 DEF Store, End, Goto, clientVars, procVars
<1>18. ASSUME NEW r \in Requests, StoreFails(r) PROVE Decisions'
  BY <1>18 DEF StoreFails, Undo, Goto, clientVars, procVars, diskVars
<1>19. ASSUME NEW r \in Requests, DeleteFile(r) PROVE Decisions'
  BY <1>19 DEF DeleteFile, Goto, clientVars, procVars
<1>20. ASSUME NEW r \in Requests, Unlink(r) PROVE Decisions'
  BY <1>20 DEF Unlink, End, Goto, clientVars, procVars, history
<1>21. CASE UNCHANGED vars
  BY <1>21 DEF vars, clientVars, procVars, diskVars, taskVars, history
<1> QED
  BY <1>1, <1>2, <1>3, <1>4, <1>5, <1>6, <1>7, <1>8, <1>9, <1>10, <1>11, <1>12, <1>13, <1>14,
     <1>15, <1>16, <1>17, <1>18, <1>19, <1>20, <1>21 DEF Next, Host

\* Every way a port is lost rejects who waits on it.
LEMMA AnswersStep ==
    TypeOK /\ Decisions /\ Answers /\ [Next]_vars => Answers'
<1> SUFFICES ASSUME TypeOK, Decisions, Answers, [Next]_vars PROVE Answers'
  OBVIOUS
<1>a. Ctx \in [Requests -> Contexts] /\ None \notin Procs
  BY RequestsAssumption, HostAssumption
<1> USE <1>a DEF TypeOK, Decisions, Answers
<1>1. ASSUME NEW r \in Requests, Call(r) PROVE Answers'
  BY <1>1 DEF Call, Send, First, MailboxesAfterCall, diskVars
<1>2. ASSUME NEW r \in Requests, TimesOut(r) PROVE Answers'
  BY <1>2 DEF TimesOut, procVars, diskVars, taskVars, history
<1>3. ASSUME NEW r \in Requests, Deliver(r) PROVE Answers'
  BY <1>3 DEF Deliver, procVars, diskVars, history
<1>4. ASSUME NEW c \in Contexts, Cool(c) PROVE Answers'
  BY <1>4 DEF Cool, procVars, diskVars, taskVars, history
<1>5. ASSUME NEW c \in Contexts, Close(c) PROVE Answers'
  BY <1>5 DEF Close, Rejected, procVars, diskVars, taskVars
<1>6. ASSUME NEW p \in Procs, Boot(p) PROVE Answers'
  BY <1>6 DEF Boot, clientVars, taskVars
<1>7. ASSUME NEW p \in Procs, Exit(p) PROVE Answers'
  BY <1>7 DEF Exit, Ending, Works, Peers, Rejected, procVars, diskVars
<1>8. ASSUME NEW r \in Requests, OpenLock(r) PROVE Answers'
  BY <1>8 DEF OpenLock, clientVars, procVars, history
<1>9. ASSUME NEW r \in Requests, Look(r) PROVE Answers'
  BY <1>9 DEF Look, End, Goto, clientVars, procVars
<1>10. ASSUME NEW r \in Requests, DeletePassword(r) PROVE Answers'
  BY <1>10 DEF DeletePassword, Forget, Goto, clientVars, procVars
<1>11. ASSUME NEW r \in Requests, AllDeleted(r) PROVE Answers'
  BY <1>11 DEF AllDeleted, Goto, clientVars, procVars, diskVars, history
<1>12. ASSUME NEW r \in Requests, Fetch(r) PROVE Answers'
  BY <1>12 DEF Fetch, End, Goto, clientVars, procVars, diskVars, history
<1>13. ASSUME NEW r \in Requests, Lock(r) PROVE Answers'
  BY <1>13 DEF Lock, Goto, clientVars, procVars
<1>14. ASSUME NEW r \in Requests, LockFails(r) PROVE Answers'
  BY <1>14 DEF LockFails, End, Goto, clientVars, procVars, diskVars
<1>15. ASSUME NEW r \in Requests, Written(r) PROVE Answers'
  BY <1>15 DEF Written, Adding, End, Goto, clientVars, procVars, history
<1>16. ASSUME NEW r \in Requests, WriteFails(r) PROVE Answers'
  BY <1>16 DEF WriteFails, End, Goto, clientVars, procVars, diskVars
<1>17. ASSUME NEW r \in Requests, Store(r) PROVE Answers'
  BY <1>17 DEF Store, End, Goto, clientVars, procVars
<1>18. ASSUME NEW r \in Requests, StoreFails(r) PROVE Answers'
  BY <1>18 DEF StoreFails, Undo, Goto, clientVars, procVars, diskVars
<1>19. ASSUME NEW r \in Requests, DeleteFile(r) PROVE Answers'
  BY <1>19 DEF DeleteFile, Goto, clientVars, procVars
<1>20. ASSUME NEW r \in Requests, Unlink(r) PROVE Answers'
  BY <1>20 DEF Unlink, End, Goto, clientVars, procVars, history
<1>21. CASE UNCHANGED vars
  BY <1>21 DEF vars, clientVars, procVars, diskVars, taskVars, history
<1> QED
  BY <1>1, <1>2, <1>3, <1>4, <1>5, <1>6, <1>7, <1>8, <1>9, <1>10, <1>11, <1>12, <1>13, <1>14,
     <1>15, <1>16, <1>17, <1>18, <1>19, <1>20, <1>21 DEF Next, Host

-----------------------------------------------------------------------------
(***************************************************************************)
(* Mailboxes and passwords.                                                *)
(***************************************************************************)
\* A mailbox, and a request to remove one, follows the answer to its add.
LEMMA AskedStep ==
    TypeOK /\ Routes /\ Decisions /\ Asked /\ [Next]_vars => Asked'
<1> SUFFICES ASSUME TypeOK, Routes, Decisions, Asked, [Next]_vars PROVE Asked'
  OBVIOUS
<1>k. /\ Held \cap Requests = {} /\ Adds \subseteq Requests /\ Removes \subseteq Requests
      /\ \A r \in Requests : /\ (r \in Adds) = (Kind[r] = "add")
                             /\ (r \in Removes) = (Kind[r] = "remove")
      /\ \A r \in Adds : Target[r] = r
  BY RequestsAssumption, HostAssumption DEF Adds, Removes
<1> USE <1>k DEF TypeOK, Routes, Decisions, Asked, Acknowledged
<1>1. ASSUME NEW r \in Requests, Call(r) PROVE Asked'
  BY <1>1 DEF Call, Send, First, MailboxesAfterCall, diskVars, MayAsk
<1>2. ASSUME NEW r \in Requests, TimesOut(r) PROVE Asked'
  BY <1>2 DEF TimesOut, procVars, diskVars, taskVars, history
<1>3. ASSUME NEW r \in Requests, Deliver(r) PROVE Asked'
  BY <1>3 DEF Deliver, procVars, diskVars, history
<1>4. ASSUME NEW c \in Contexts, Cool(c) PROVE Asked'
  BY <1>4 DEF Cool, procVars, diskVars, taskVars, history
<1>5. ASSUME NEW c \in Contexts, Close(c) PROVE Asked'
  BY <1>5 DEF Close, Rejected, procVars, diskVars, taskVars
<1>6. ASSUME NEW p \in Procs, Boot(p) PROVE Asked'
  BY <1>6 DEF Boot, clientVars, taskVars
<1>7. ASSUME NEW p \in Procs, Exit(p) PROVE Asked'
  BY <1>7 DEF Exit, Ending, Works, Peers, Rejected, procVars, diskVars
<1>8. ASSUME NEW r \in Requests, OpenLock(r) PROVE Asked'
  BY <1>8 DEF OpenLock, clientVars, procVars, history
<1>9. ASSUME NEW r \in Requests, Look(r) PROVE Asked'
  BY <1>9 DEF Look, End, Goto, clientVars, procVars
<1>10. ASSUME NEW r \in Requests, DeletePassword(r) PROVE Asked'
  BY <1>10 DEF DeletePassword, Forget, Goto, clientVars, procVars
<1>11. ASSUME NEW r \in Requests, AllDeleted(r) PROVE Asked'
  BY <1>11 DEF AllDeleted, Goto, clientVars, procVars, diskVars, history
<1>12. ASSUME NEW r \in Requests, Fetch(r) PROVE Asked'
  BY <1>12 DEF Fetch, End, Goto, clientVars, procVars, diskVars, history
<1>13. ASSUME NEW r \in Requests, Lock(r) PROVE Asked'
  BY <1>13 DEF Lock, Goto, clientVars, procVars
<1>14. ASSUME NEW r \in Requests, LockFails(r) PROVE Asked'
  BY <1>14 DEF LockFails, End, Goto, clientVars, procVars, diskVars
<1>15. ASSUME NEW r \in Requests, Written(r) PROVE Asked'
  BY <1>15 DEF Written, Adding, End, Goto, clientVars, procVars, history
<1>16. ASSUME NEW r \in Requests, WriteFails(r) PROVE Asked'
  BY <1>16 DEF WriteFails, End, Goto, clientVars, procVars, diskVars
<1>17. ASSUME NEW r \in Requests, Store(r) PROVE Asked'
  BY <1>17 DEF Store, End, Goto, clientVars, procVars
<1>18. ASSUME NEW r \in Requests, StoreFails(r) PROVE Asked'
  BY <1>18 DEF StoreFails, Undo, Goto, clientVars, procVars, diskVars
<1>19. ASSUME NEW r \in Requests, DeleteFile(r) PROVE Asked'
  BY <1>19 DEF DeleteFile, Goto, clientVars, procVars
<1>20. ASSUME NEW r \in Requests, Unlink(r) PROVE Asked'
  BY <1>20 DEF Unlink, End, Goto, clientVars, procVars, history
<1>21. CASE UNCHANGED vars
  BY <1>21 DEF vars, clientVars, procVars, diskVars, taskVars, history
<1> QED
  BY <1>1, <1>2, <1>3, <1>4, <1>5, <1>6, <1>7, <1>8, <1>9, <1>10, <1>11, <1>12, <1>13, <1>14,
     <1>15, <1>16, <1>17, <1>18, <1>19, <1>20, <1>21 DEF Next, Host

\* A password is stored by the last step of its add, and deleted first.
LEMMA PasswordsStep ==
    TypeOK /\ Routes /\ Decisions /\ Asked /\ Passwords /\ [Next]_vars => Passwords'
<1> SUFFICES ASSUME TypeOK, Routes, Decisions, Asked, Passwords, [Next]_vars PROVE Passwords'
  OBVIOUS
<1>k. /\ Held \cap Requests = {} /\ Adds \subseteq Requests /\ Removes \subseteq Requests
      /\ \A r \in Requests : /\ (r \in Adds) = (Kind[r] = "add")
                             /\ (r \in Removes) = (Kind[r] = "remove")
      /\ \A r \in Adds : Target[r] = r
  BY RequestsAssumption, HostAssumption DEF Adds, Removes
<1> USE <1>k DEF TypeOK, Routes, Decisions, Asked, Acknowledged, Passwords
<1>1. ASSUME NEW r \in Requests, Call(r) PROVE Passwords'
  BY <1>1 DEF Call, Send, First, MailboxesAfterCall, diskVars
<1>2. ASSUME NEW r \in Requests, TimesOut(r) PROVE Passwords'
  BY <1>2 DEF TimesOut, procVars, diskVars, taskVars, history
<1>3. ASSUME NEW r \in Requests, Deliver(r) PROVE Passwords'
  BY <1>3 DEF Deliver, procVars, diskVars, history
<1>4. ASSUME NEW c \in Contexts, Cool(c) PROVE Passwords'
  BY <1>4 DEF Cool, procVars, diskVars, taskVars, history
<1>5. ASSUME NEW c \in Contexts, Close(c) PROVE Passwords'
  BY <1>5 DEF Close, Rejected, procVars, diskVars, taskVars
<1>6. ASSUME NEW p \in Procs, Boot(p) PROVE Passwords'
  BY <1>6 DEF Boot, clientVars, taskVars
<1>7. ASSUME NEW p \in Procs, Exit(p) PROVE Passwords'
  BY <1>7 DEF Exit, Ending, Works, Peers, Rejected, procVars, diskVars
<1>8. ASSUME NEW r \in Requests, OpenLock(r) PROVE Passwords'
  BY <1>8 DEF OpenLock, clientVars, procVars, history
<1>9. ASSUME NEW r \in Requests, Look(r) PROVE Passwords'
  BY <1>9 DEF Look, End, Goto, clientVars, procVars
<1>10. ASSUME NEW r \in Requests, DeletePassword(r) PROVE Passwords'
  BY <1>10 DEF DeletePassword, Forget, Goto, clientVars, procVars
<1>11. ASSUME NEW r \in Requests, AllDeleted(r) PROVE Passwords'
  BY <1>11 DEF AllDeleted, Goto, clientVars, procVars, diskVars, history
<1>12. ASSUME NEW r \in Requests, Fetch(r) PROVE Passwords'
  BY <1>12 DEF Fetch, End, Goto, clientVars, procVars, diskVars, history
<1>13. ASSUME NEW r \in Requests, Lock(r) PROVE Passwords'
  BY <1>13 DEF Lock, Goto, clientVars, procVars
<1>14. ASSUME NEW r \in Requests, LockFails(r) PROVE Passwords'
  BY <1>14 DEF LockFails, End, Goto, clientVars, procVars, diskVars
<1>15. ASSUME NEW r \in Requests, Written(r) PROVE Passwords'
  BY <1>15 DEF Written, Adding, End, Goto, clientVars, procVars, history
<1>16. ASSUME NEW r \in Requests, WriteFails(r) PROVE Passwords'
  BY <1>16 DEF WriteFails, End, Goto, clientVars, procVars, diskVars
<1>17. ASSUME NEW r \in Requests, Store(r) PROVE Passwords'
  BY <1>17 DEF Store, End, Goto, clientVars, procVars
<1>18. ASSUME NEW r \in Requests, StoreFails(r) PROVE Passwords'
  BY <1>18 DEF StoreFails, Undo, Goto, clientVars, procVars, diskVars
<1>19. ASSUME NEW r \in Requests, DeleteFile(r) PROVE Passwords'
  BY <1>19 DEF DeleteFile, Goto, clientVars, procVars
<1>20. ASSUME NEW r \in Requests, Unlink(r) PROVE Passwords'
  BY <1>20 DEF Unlink, End, Goto, clientVars, procVars, history
<1>21. CASE UNCHANGED vars
  BY <1>21 DEF vars, clientVars, procVars, diskVars, taskVars, history
<1> QED
  BY <1>1, <1>2, <1>3, <1>4, <1>5, <1>6, <1>7, <1>8, <1>9, <1>10, <1>11, <1>12, <1>13, <1>14,
     <1>15, <1>16, <1>17, <1>18, <1>19, <1>20, <1>21 DEF Next, Host

-----------------------------------------------------------------------------
(***************************************************************************)
(* The file.                                                               *)
(***************************************************************************)
\* Who takes the lock and does not split it finds nobody writing.
LEMMA Sole ==
    ASSUME TypeOK, NEW i, Free(i), Splits(i), ~split'
    PROVE  Holders = {} /\ ~split
  BY DEF TypeOK, Free, Splits

\* A split of the lock is not forgotten.
LEMMA SplitStays ==
    TypeOK /\ [Next]_vars /\ ~split' => ~split
<1> SUFFICES ASSUME TypeOK, [Next]_vars, ~split' PROVE ~split
  OBVIOUS
<1>1. (split' = split) \/ \E i : Splits(i)
  BY DEF Next, Host, Call, TimesOut, Deliver, Cool, Close, Boot, Exit, OpenLock, Look,
     DeletePassword, AllDeleted, Fetch, Lock, LockFails, Written, WriteFails, Store,
     StoreFails, DeleteFile, Unlink, history, vars
<1> QED
  BY <1>1 DEF Splits, TypeOK

\* The listed accounts are those the writer has read, or those of the file.
LEMMA ListedIs ==
    ASSUME TypeOK, Alone
    PROVE  /\ Holders = {} => Listed = Repaired
           /\ \A r \in Holders : file = Torn /\ Listed = copy[r]
<1>1. ASSUME Holders = {} PROVE Listed = Repaired
  BY <1>1 DEF Listed, Repaired
<1>2. ASSUME NEW r \in Holders PROVE file = Torn /\ Listed = copy[r]
  <2>1. Holders = {r} /\ file = Torn
    BY DEF Alone
  <2> QED
    BY <2>1 DEF Listed
<1> QED
  BY <1>1, <1>2

\* A step after which the file, its writers and what they have read are the
\* same leaves the listed accounts as they are.
LEMMA ListedStays ==
    ASSUME file' = file, Holders' = Holders, \A q \in Holders : copy'[q] = copy[q], Alone
    PROVE  Listed' = Listed /\ Alone'
  BY DEF Listed, Alone

-----------------------------------------------------------------------------
(***************************************************************************)
(* The books: one step per action, on a lock that was not split.           *)
(***************************************************************************)
\* A step that touches neither file nor passwords keeps the books: a call, the
\* client's timers, the opening of the lock file.
LEMMA QuietKeepsBooks ==
    ASSUME Shape, Books, UNCHANGED <<file, keychain, copy, verdict, hurt>>,
           mailboxes' \subseteq mailboxes,
           \A q \in Requests :
               at'[q] = at[q] \/ (at[q] = "idle" /\ at'[q] = First(Kind[q]))
    PROVE  Books'
<1> USE DEF Shape
<1>k. /\ Held \cap Requests = {} /\ Adds \subseteq Requests
      /\ Removes \subseteq Requests /\ Uninstalls \subseteq Requests
      /\ \A r \in Requests : /\ (r \in Adds) = (Kind[r] = "add")
                             /\ (r \in Removes) = (Kind[r] = "remove")
                             /\ (r \in Uninstalls) = (Kind[r] = "uninstall")
      /\ \A r \in Adds : Target[r] = r
      /\ Torn \notin SUBSET Accounts
  BY RequestsAssumption, HostAssumption DEF Adds, Removes, Uninstalls
<1>1. Listed' = Listed /\ Alone'
  <2>1. Holders' = Holders
    BY DEF Holders, First
  <2> QED
    BY <2>1, ListedStays DEF Books
<1>2. Booked'
  BY <1>1 DEF Books, Booked
<1>3. Entries'
  BY <1>1, <1>k DEF Books, Entries, Entered, Decisions, First
<1>4. Snapshots'
  BY <1>k DEF Books, Snapshots, First
<1>5. Served'
  BY <1>1, <1>k DEF Books, Served, Taken, Leaving, First
<1> QED
  BY <1>1, <1>2, <1>3, <1>4, <1>5 DEF Books

\* Every step keeps the books: a dispatch that changes the file holds the lock
\* alone, and what a fault or an uninstall takes away is hurt.
LEMMA BooksStep ==
    ASSUME Shape, Books, [Next]_vars, ~split'
    PROVE  Books'
<1>k. /\ Held \cap Requests = {} /\ Adds \subseteq Requests
      /\ Removes \subseteq Requests /\ Uninstalls \subseteq Requests
      /\ \A r \in Requests : /\ (r \in Adds) = (Kind[r] = "add")
                             /\ (r \in Removes) = (Kind[r] = "remove")
                             /\ (r \in Uninstalls) = (Kind[r] = "uninstall")
      /\ \A r \in Adds : Target[r] = r
      /\ Torn \notin SUBSET Accounts
  BY RequestsAssumption, HostAssumption DEF Adds, Removes, Uninstalls
<1>s. TypeOK /\ Routes /\ Decisions /\ Asked /\ Passwords
  BY DEF Shape
<1>q. CASE UNCHANGED vars \/ (\E c \in Contexts : Cool(c) \/ Close(c))
            \/ \E r \in Requests : Call(r) \/ TimesOut(r) \/ OpenLock(r)
  <2>1. UNCHANGED <<file, keychain, copy, verdict, hurt>> /\ mailboxes' \subseteq mailboxes
    BY <1>q DEF vars, Cool, Close, Call, MailboxesAfterCall, TimesOut, OpenLock,
       clientVars, procVars, diskVars, taskVars, history
  <2>2. \A q \in Requests : at'[q] = at[q] \/ (at[q] = "idle" /\ at'[q] = First(Kind[q]))
    <3>1. ASSUME NEW r \in Requests, Call(r)
          PROVE  at' = at \/ (at[r] = "idle" /\ at' = [at EXCEPT ![r] = First(Kind[r])])
      BY <3>1 DEF Call, Send
    <3>2. (\E r \in Requests : Call(r)) \/ at' = at
      BY <1>q DEF vars, Cool, Close, TimesOut, OpenLock, taskVars
    <3> QED
      BY <3>1, <3>2, <1>s DEF TypeOK
  <2> QED
    BY <2>1, <2>2, QuietKeepsBooks
<1>r. Repaired # Torn
  BY <1>s, RepairedType
<1> USE <1>s, <1>k DEF Books, TypeOK, Routes, Decisions, Asked, Acknowledged, Passwords
<1>1. ASSUME NEW r \in Requests, Deliver(r) PROVE Books'
  <2> USE DEF Deliver, procVars, diskVars, history
  <2>1. Listed' = Listed /\ Alone'
    <3>1. Holders' = Holders
      BY <1>1 DEF Holders
    <3> QED
      BY <1>1, <3>1, ListedStays DEF Holders
  <2>2. Booked'
    BY <1>1, <2>1 DEF Booked
  <2>3. Entries'
    BY <1>1, <2>1 DEF Entries, Entered
  <2>4. Snapshots'
    BY <1>1, <2>1 DEF Snapshots
  <2>5. Served'
    BY <1>1, <2>1 DEF Served, Taken, Leaving
  <2> QED
    BY <2>1, <2>2, <2>3, <2>4, <2>5
<1>2. ASSUME NEW p \in Procs, Boot(p) PROVE Books'
  <2> USE DEF Boot, clientVars, taskVars
  <2>0. Holders = {}
    BY <1>2, Sole DEF Free
  <2>1. Listed' = Repaired /\ Listed = Repaired /\ Alone'
    <3>1. Holders' = {}
      BY <1>2, <2>0 DEF Holders
    <3>2. file' = Repaired \/ (file = Torn /\ file' = Torn)
      BY <1>2 DEF Repaired
    <3>3. Listed' = Repaired
      <4>1. UNION {copy'[q] : q \in Holders'} = {}
        BY <3>1
      <4> QED
        BY <1>r, <3>2, <4>1 DEF Listed, Repaired
    <3> QED
      BY <2>0, <3>1, <3>3, ListedIs DEF Alone
  <2>2. Booked'
    BY <1>2, <2>1 DEF Booked
  <2>3. Entries'
    BY <1>2, <2>1 DEF Entries, Entered
  <2>4. Snapshots'
    BY <1>2, <2>1 DEF Snapshots
  <2>5. Served'
    BY <1>2, <2>1 DEF Served, Taken, Leaving
  <2> QED
    BY <2>1, <2>2, <2>3, <2>4, <2>5
<1>3. ASSUME NEW r \in Requests, Look(r) PROVE Books'
  <2> USE DEF Look, End, Goto, clientVars, procVars
  <2>0. Holders = {}
    BY <1>3, Sole DEF MayLock
  <2>1. Listed' = Repaired /\ Listed = Repaired /\ Alone'
    <3>1. Holders' = {}
      BY <1>3, <2>0 DEF Holders
    <3>2. file' = Repaired \/ (file = Torn /\ file' = Torn)
      BY <1>3 DEF Repaired
    <3>3. Listed' = Repaired
      <4>1. UNION {copy'[q] : q \in Holders'} = {}
        BY <3>1
      <4> QED
        BY <1>r, <3>2, <4>1 DEF Listed, Repaired
    <3> QED
      BY <2>0, <3>1, <3>3, ListedIs DEF Alone
  <2>2. Booked'
    BY <1>3, <2>1 DEF Booked
  <2>3. Entries'
    BY <1>3, <2>1 DEF Entries, Entered
  <2>4. Snapshots'
    <3>1. CASE Kind[r] = "uninstall" /\ file # Torn
      <4>1. keychain' \ hurt' \subseteq copy'[r]
        BY <1>3, <2>1, <3>1 DEF Booked, Repaired
      <4>2. \A u \in Requests : u # r => at'[u] = at[u] /\ copy'[u] = copy[u]
        BY <1>3
      <4>3. at'[r] = "key" /\ keychain' = keychain /\ hurt' = hurt
        BY <1>3, <3>1
      <4> QED
        BY <4>1, <4>2, <4>3 DEF Snapshots
    <3>2. CASE ~(Kind[r] = "uninstall" /\ file # Torn)
      BY <1>3, <3>2 DEF Snapshots
    <3> QED
      BY <3>1, <3>2
  <2>5. Served'
    BY <1>3, <2>1 DEF Served, Taken, Leaving
  <2> QED
    BY <2>1, <2>2, <2>3, <2>4, <2>5
<1>4. ASSUME NEW r \in Requests, DeletePassword(r) PROVE Books'
  <2> USE DEF DeletePassword, Forget, Goto, clientVars, procVars
  <2>1. Listed' = Listed /\ Alone'
    <3>1. Holders' = Holders
      BY <1>4 DEF Holders
    <3> QED
      BY <1>4, <3>1, ListedStays DEF Holders
  <2>2. Booked'
    BY <1>4, <2>1 DEF Booked
  <2>3. Entries'
    BY <1>4, <2>1 DEF Entries, Entered
  <2>4. Snapshots'
    BY <1>4, <2>1 DEF Snapshots
  <2>5. Served'
    BY <1>4, <2>1 DEF Served, Taken, Leaving
  <2> QED
    BY <2>1, <2>2, <2>3, <2>4, <2>5
<1>5. ASSUME NEW r \in Requests, AllDeleted(r) PROVE Books'
  <2> USE DEF AllDeleted, Wiped, Goto, clientVars, procVars, diskVars, history
  <2>1. Listed' = Listed /\ Alone'
    <3>1. Holders' = Holders
      BY <1>5 DEF Holders
    <3> QED
      BY <1>5, <3>1, ListedStays DEF Holders
  <2>2. Booked'
    BY <1>5, <2>1 DEF Booked
  <2>3. Entries'
    BY <1>5, <2>1 DEF Entries, Entered
  <2>4. Snapshots'
    BY <1>5, <2>1 DEF Snapshots
  <2>5. Served'
    BY <1>5, <2>1 DEF Served, Taken, Leaving
  <2> QED
    BY <2>1, <2>2, <2>3, <2>4, <2>5
<1>6. ASSUME NEW r \in Requests, Fetch(r) PROVE Books'
  <2> USE DEF Fetch, End, Goto, clientVars, procVars, diskVars, history
  <2>1. Listed' = Listed /\ Alone'
    <3>1. Holders' = Holders
      BY <1>6 DEF Holders
    <3> QED
      BY <1>6, <3>1, ListedStays DEF Holders
  <2>2. Booked'
    BY <1>6, <2>1 DEF Booked
  <2>3. Entries'
    BY <1>6, <2>1 DEF Entries, Entered
  <2>4. Snapshots'
    BY <1>6, <2>1 DEF Snapshots
  <2>5. Served'
    BY <1>6, <2>1 DEF Served, Taken, Leaving
  <2> QED
    BY <2>1, <2>2, <2>3, <2>4, <2>5
<1>7. ASSUME NEW r \in Requests, Lock(r) PROVE Books'
  <2> USE DEF Lock, Goto, clientVars, procVars
  <2>0. Holders = {}
    BY <1>7, Sole DEF MayLock
  <2>1. Listed' = Repaired /\ Listed = Repaired /\ Alone'
    <3>1. Holders' = {r} /\ copy'[r] = Repaired /\ file' = Torn
      BY <1>7, <2>0 DEF Holders
    <3> QED
      BY <2>0, <3>1, ListedIs DEF Listed, Alone
  <2>2. Booked'
    BY <1>7, <2>1 DEF Booked
  <2>3. Entries'
    BY <1>7, <2>1 DEF Entries, Entered
  <2>4. Snapshots'
    BY <1>7, <2>1 DEF Snapshots
  <2>5. Served'
    BY <1>7, <2>1 DEF Served, Taken, Leaving
  <2> QED
    BY <2>1, <2>2, <2>3, <2>4, <2>5
<1>8. ASSUME NEW r \in Requests, LockFails(r) PROVE Books'
  <2> USE DEF LockFails, Adding, End, Goto, clientVars, procVars, diskVars
  <2>1. Listed' = Listed /\ Alone'
    <3>1. Holders' = Holders
      BY <1>8 DEF Holders
    <3> QED
      BY <1>8, <3>1, ListedStays DEF Holders
  <2>2. Booked'
    BY <1>8, <2>1 DEF Booked
  <2>3. Entries'
    BY <1>8, <2>1 DEF Entries, Entered
  <2>4. Snapshots'
    BY <1>8, <2>1 DEF Snapshots
  <2>5. Served'
    BY <1>8, <2>1 DEF Served, Taken, Leaving
  <2> QED
    BY <2>1, <2>2, <2>3, <2>4, <2>5
<1>9. ASSUME NEW r \in Requests, Written(r) PROVE Books'
  <2> USE DEF Written, Changed, Adding, End, Goto, clientVars, procVars, history
  <2>1. /\ Listed' = Changed(r) /\ Listed = copy[r] /\ Alone'
    <3>1. r \in Holders /\ Holders = {r} /\ Holders' = {}
      BY <1>9 DEF Holders, Alone
    <3>2. file' = Changed(r) /\ Changed(r) # Torn
      BY <1>9, <1>k DEF Changed, TypeOK, Accounts
    <3> QED
      BY <3>1, <3>2, ListedIs DEF Listed, Alone
  <2>2. Booked'
    BY <1>9, <2>1 DEF Booked
  <2>3. Entries'
    BY <1>9, <2>1 DEF Entries, Entered
  <2>4. Snapshots'
    BY <1>9, <2>1 DEF Snapshots
  <2>5. Served'
    BY <1>9, <2>1 DEF Served, Taken, Leaving
  <2> QED
    BY <2>1, <2>2, <2>3, <2>4, <2>5
<1>10. ASSUME NEW r \in Requests, WriteFails(r) PROVE Books'
  <2> USE DEF WriteFails, End, Goto, clientVars, procVars, diskVars
  <2>1. Listed' \subseteq Listed /\ Listed \subseteq Listed' \cup hurt' /\ Alone'
    <3>1. r \in Holders /\ Holders = {r} /\ Holders' = {}
      BY <1>10 DEF Holders, Alone
    <3> QED
      BY <1>10, <3>1, ListedIs DEF Listed, Alone
  <2>2. Booked'
    BY <1>10, <2>1 DEF Booked
  <2>3. Entries'
    BY <1>10, <2>1 DEF Entries, Entered
  <2>4. Snapshots'
    BY <1>10, <2>1 DEF Snapshots
  <2>5. Served'
    BY <1>10, <2>1 DEF Served, Taken, Leaving
  <2> QED
    BY <2>1, <2>2, <2>3, <2>4, <2>5
<1>11. ASSUME NEW p \in Procs, Exit(p) PROVE Books'
  <2> USE DEF Exit, Ending, Works, procVars, diskVars
  <2>1. Listed' \subseteq Listed /\ Listed \subseteq Listed' \cup hurt' /\ Alone'
    <3>1. Holders' = {q \in Holders : ~Ending(p, q)}
      BY <1>11 DEF Holders
    <3>2. \A q \in Holders : Ending(p, q) => copy[q] \subseteq hurt'
      BY <1>11 DEF Holders
    <3>3. file' = file /\ copy' = copy
      BY <1>11
    <3> QED
      BY <3>1, <3>2, <3>3 DEF Listed, Alone
  <2>2. Booked'
    BY <1>11, <2>1 DEF Booked
  <2>3. Entries'
    BY <1>11, <2>1 DEF Entries, Entered
  <2>4. Snapshots'
    BY <1>11, <2>1 DEF Snapshots
  <2>5. Served'
    <3>1. \A a \in Accounts : Leaving(a) => Leaving(a)'
      BY <1>11 DEF Leaving
    <3>2. \A a \in Accounts : Taken(a)' => Taken(a)
      BY <1>11 DEF Taken
    <3>3. keychain' = keychain /\ hurt \subseteq hurt'
      BY <1>11
    <3> QED
      BY <2>1, <3>1, <3>2, <3>3 DEF Served
  <2> QED
    BY <2>1, <2>2, <2>3, <2>4, <2>5
<1>12. ASSUME NEW r \in Requests, Store(r) PROVE Books'
  <2> USE DEF Store, Wiping, End, Goto, clientVars, procVars
  <2>1. Listed' = Listed /\ Alone'
    <3>1. Holders' = Holders
      BY <1>12 DEF Holders
    <3> QED
      BY <1>12, <3>1, ListedStays DEF Holders
  <2>2. Booked'
    <3>1. r \in Listed \cup hurt'
      BY <1>12 DEF Entries
    <3> QED
      BY <1>12, <2>1, <3>1 DEF Booked
  <2>3. Entries'
    BY <1>12, <2>1 DEF Entries, Entered
  <2>4. Snapshots'
    BY <1>12, <2>1 DEF Snapshots
  <2>5. Served'
    <3>1. r \in hurt' \/ Leaving(r)' \/ r \in Listed
      BY <1>12 DEF Entries, Leaving
    <3>2. \A a \in Accounts : Leaving(a) => Leaving(a)'
      BY <1>12 DEF Leaving
    <3>3. \A a \in Accounts : a # r /\ Taken(a)' => Taken(a)
      BY <1>12 DEF Taken
    <3> QED
      BY <1>12, <2>1, <3>1, <3>2, <3>3 DEF Served
  <2> QED
    BY <2>1, <2>2, <2>3, <2>4, <2>5
<1>13. ASSUME NEW r \in Requests, StoreFails(r) PROVE Books'
  <2> USE DEF StoreFails, Undo, Goto, clientVars, procVars, diskVars
  <2>1. Listed' = Listed /\ Alone'
    <3>1. Holders' = Holders
      BY <1>13 DEF Holders
    <3> QED
      BY <1>13, <3>1, ListedStays DEF Holders
  <2>2. Booked'
    BY <1>13, <2>1 DEF Booked
  <2>3. Entries'
    BY <1>13, <2>1 DEF Entries, Entered
  <2>4. Snapshots'
    BY <1>13, <2>1 DEF Snapshots
  <2>5. Served'
    BY <1>13, <2>1 DEF Served, Taken, Leaving
  <2> QED
    BY <2>1, <2>2, <2>3, <2>4, <2>5
<1>14. ASSUME NEW r \in Requests, DeleteFile(r) PROVE Books'
  <2> USE DEF DeleteFile, Goto, clientVars, procVars
  <2>0. Holders = {}
    BY <1>14, Sole DEF MayLock
  <2>1. Listed' = {} /\ Alone'
    <3>1. Holders' = {} /\ file' = {}
      BY <1>14, <2>0 DEF Holders
    <3> QED
      BY <3>1 DEF Listed, Alone
  <2>2. Booked'
    BY <1>14 DEF Booked, Snapshots
  <2>3. Entries'
    BY <1>14, <2>1 DEF Entries, Entered
  <2>4. Snapshots'
    BY <1>14, <2>1 DEF Snapshots
  <2>5. Served'
    BY <1>14, <2>1 DEF Served, Taken, Leaving
  <2> QED
    BY <2>1, <2>2, <2>3, <2>4, <2>5
<1>15. ASSUME NEW r \in Requests, Unlink(r) PROVE Books'
  <2> USE DEF Unlink, End, Goto, clientVars, procVars, history
  <2>1. Listed' = Listed /\ Alone'
    <3>1. Holders' = Holders
      BY <1>15 DEF Holders
    <3> QED
      BY <1>15, <3>1, ListedStays DEF Holders
  <2>2. Booked'
    BY <1>15, <2>1 DEF Booked
  <2>3. Entries'
    BY <1>15, <2>1 DEF Entries, Entered
  <2>4. Snapshots'
    BY <1>15, <2>1 DEF Snapshots
  <2>5. Served'
    BY <1>15, <2>1 DEF Served, Taken, Leaving
  <2> QED
    BY <2>1, <2>2, <2>3, <2>4, <2>5
<1> QED
  BY <1>q, <1>1, <1>2, <1>3, <1>4, <1>5, <1>6, <1>7, <1>8, <1>9, <1>10, <1>11, <1>12,
     <1>13, <1>14, <1>15 DEF Next, Host

-----------------------------------------------------------------------------
(***************************************************************************)
(* The invariant and what follows from it.                                 *)
(***************************************************************************)
LEMMA InitIInv == Init => IInv
<1> SUFFICES ASSUME Init PROVE IInv
  OBVIOUS
<1>h. {MaxFaults, MaxCloses, MaxCalls} \subseteq Nat
  BY HostAssumption
<1>k. /\ Held \subseteq Accounts /\ Held \cap Adds = {}
      /\ \A r \in Removes \cup Adds \cup Uninstalls : r \in Requests
  BY HostAssumption DEF Accounts, Adds, Removes, Uninstalls
<1> USE DEF Init
<1>1. TypeOK
  <2>1. /\ file \in SUBSET Accounts /\ keychain \subseteq Accounts /\ mailboxes \subseteq Accounts
        /\ {} \in SUBSET Accounts
    BY <1>k
  <2>2. copy \in [Requests -> SUBSET Accounts] /\ hurt \subseteq Accounts
    BY <2>1
  <2>3. faults \in 0 .. MaxFaults /\ closes \in 0 .. MaxCloses /\ calls \in 0 .. MaxCalls
    BY <1>h
  <2> QED
    BY <2>1, <2>2, <2>3 DEF TypeOK, Places
<1>2. Routes /\ Decisions /\ Answers
  BY DEF Routes, Decisions, Answers
<1>3. Asked /\ Passwords
  BY <1>k DEF Asked, Acknowledged, Passwords
<1>4. Listed = Held /\ Holders = {}
  <2>1. file # Torn
    BY <1>k, HostAssumption
  <2> QED
    BY <2>1 DEF Listed, Holders
<1>5. Books
  BY <1>k, <1>4 DEF Books, Alone, Booked, Entries, Snapshots, Served, Taken
<1> QED
  BY <1>1, <1>2, <1>3, <1>5 DEF IInv, Shape

LEMMA NextIInv == IInv /\ [Next]_vars => IInv'
<1> SUFFICES ASSUME IInv, [Next]_vars PROVE IInv'
  OBVIOUS
<1>1. Shape'
  BY TypeStep, RoutesStep, DecisionsStep, AnswersStep, AskedStep, PasswordsStep DEF IInv, Shape
<1>2. ASSUME ~split' PROVE Books'
  BY <1>2, SplitStays, BooksStep DEF IInv, Shape
<1> QED
  BY <1>1, <1>2 DEF IInv

LEMMA Invariance == Spec => []IInv
<1>1. Init => IInv
  BY InitIInv
<1>2. IInv /\ [Next]_vars => IInv'
  BY NextIInv
<1> QED
  BY <1>1, <1>2, PTL DEF Spec

\* The state of the clients, of every host process and of the disk keeps its
\* types, whatever the kinds and targets of the requests.
THEOREM TypeCorrect == Spec => []TypeOK
<1>1. IInv => TypeOK
  BY DEF IInv, Shape
<1> QED
  BY <1>1, Invariance, PTL

\* Of any number of contexts and processes, a caller waits only for the process
\* its port is connected to: every way a port is lost rejects its requests.
THEOREM CallersConnected == Spec => []WaitsOnPort
<1>1. IInv => WaitsOnPort
  BY DEF IInv, Shape, Answers, WaitsOnPort
<1> QED
  BY <1>1, Invariance, PTL

\* No password is left without its account in the file, and a refused add
\* leaves neither, however many dispatches of however many processes interleave
\* and die.
THEOREM NoneOrphaned == Spec => []NothingOrphaned
<1>1. IInv => NothingOrphaned
  <2> SUFFICES ASSUME IInv, ~split PROVE NothingOrphaned
    BY DEF NothingOrphaned
  <2>1. keychain \ hurt \subseteq Listed
    BY DEF IInv, Books, Booked
  <2>2. ASSUME NEW r \in Adds \ hurt, reply[r] = "refused" PROVE r \notin Listed \cup keychain
    <3>1. r \in Requests
      BY DEF Adds
    <3>2. at[r] = "sent" /\ verdict[r] = "refused"
      BY <2>2, <3>1 DEF IInv, Shape, Answers
    <3> QED
      BY <3>2 DEF IInv, Shape, Books, Entries, Passwords
  <2> QED
    BY <2>1, <2>2 DEF NothingOrphaned
<1> QED
  BY <1>1, Invariance, PTL

\* Every account with a mailbox is in the file and has its password until the
\* user removes it: no other dispatch of any process undoes an add.
THEOREM AccountsServed == Spec => []MailboxesServed
<1>1. IInv => MailboxesServed
  BY DEF IInv, Shape, Books, Served, Taken, TypeOK, MailboxesServed
<1> QED
  BY <1>1, Invariance, PTL

-----------------------------------------------------------------------------
(***************************************************************************)
(* The Google Messages tab.                                                *)
(***************************************************************************)
Owned == OwnershipTrue /\ UserTabsKept

\* The manager's own variables, without those of its clients.
ownership == <<opened, tabState, stored, recovering, removed, closing>>

LEMMA UnchangedOwned == Owned /\ UNCHANGED ownership => Owned'
    BY DEF Owned, OwnershipTrue, UserTabsKept, ownership

(***************************************************************************)
(* A new closeIfOwned call closes the manager's own tab.                   *)
(***************************************************************************)
LEMMA ClosesOwned ==
    ASSUME Owned, NEW c, NEW why, CloseIfOwned(c, why),
           UNCHANGED <<opened, tabState, stored, recovering, removed>>
    PROVE  Owned'
<1>1. \A call \in closing' : call.tab \in opened'
    BY DEF CloseIfOwned, Closable, Owned, OwnershipTrue
<1> QED
    BY <1>1 DEF Owned, OwnershipTrue, UserTabsKept

LEMMA OwnedStep == Owned /\ [TabNext]_tabVars => Owned'
<1> SUFFICES ASSUME Owned, [TabNext]_tabVars PROVE Owned'
    OBVIOUS
<1>1. ASSUME NEW c \in Clients, Asks(c) PROVE Owned'
    BY <1>1, UnchangedOwned DEF Asks, browser, ownership
<1>2. CASE Revalidates
    BY <1>2 DEF Revalidates, browser, NoState, Owned, OwnershipTrue, UserTabsKept
<1>3. CASE Queries
    BY <1>3 DEF Queries, browser, UsesFound, Uses, NoState, Owned, OwnershipTrue, UserTabsKept
<1>4. CASE Creates
    BY <1>4 DEF Creates, Uses, Owned, OwnershipTrue, UserTabsKept
<1>5. CASE Persisted
    BY <1>5, UnchangedOwned DEF Persisted, browser, ownership
<1>6. ASSUME NEW s \in Sessions, Scraped(s) PROVE Owned'
    <2>1. CASE CloseIfOwned(s, "poll")
        BY <1>6, <2>1, ClosesOwned DEF Scraped, browser
    <2>2. CASE UNCHANGED closing
        BY <1>6, <2>2, UnchangedOwned DEF Scraped, browser, ownership
    <2> QED
        BY <1>6, <2>1, <2>2 DEF Scraped
<1>7. ASSUME NEW s \in Sessions, ScrapeFails(s) PROVE Owned'
    BY <1>7, UnchangedOwned DEF ScrapeFails, browser, manager, ownership
<1>8. ASSUME NEW s \in Sessions, Ends(s) PROVE Owned'
    BY <1>8, ClosesOwned DEF Ends, browser
<1>9. CASE Tested
    BY <1>9, ClosesOwned DEF Tested, browser
<1>10. ASSUME NEW call \in closing, RemovesTab(call) PROVE Owned'
    BY <1>10 DEF RemovesTab, Owned, OwnershipTrue, UserTabsKept
<1>11. ASSUME NEW call \in closing, CloseEnds(call) PROVE Owned'
    BY <1>11 DEF CloseEnds, browser, NoState, Owned, OwnershipTrue, UserTabsKept
<1>12. CASE User
    BY <1>12, UnchangedOwned DEF User, manager, ownership
<1>13. CASE Crash
    BY <1>13 DEF Crash, browser, NoState, Owned, OwnershipTrue, UserTabsKept
<1>14. CASE Recovers
    BY <1>14 DEF Recovers, browser, NoState, Owned, OwnershipTrue, UserTabsKept
<1>15. CASE UNCHANGED tabVars
    BY <1>15, UnchangedOwned DEF tabVars, browser, manager, ownership
<1> QED
    BY <1>1, <1>2, <1>3, <1>4, <1>5, <1>6, <1>7, <1>8, <1>9, <1>10, <1>11, <1>12, <1>13,
       <1>14, <1>15 DEF TabNext

(***************************************************************************)
(* For every number of sessions, tabs, polls and worker deaths, the owned  *)
(* flags and the calls they lead to name only tabs the extension opened,   *)
(* and closeIfOwned has closed no other tab.                               *)
(***************************************************************************)
THEOREM OwnedInvariant == TabSpec => []Owned
<1>1. TabInit => Owned
    BY DEF TabInit, NoState, Owned, OwnershipTrue, UserTabsKept
<1> QED
    BY <1>1, OwnedStep, PTL DEF TabSpec

(***************************************************************************)
(* closeIfOwned never closes a tab that the user opened.                   *)
(***************************************************************************)
THEOREM UserTabsSafe == TabSpec => []UserTabsKept
<1>1. Owned => UserTabsKept
    BY DEF Owned
<1> QED
    BY <1>1, OwnedInvariant, PTL

-----------------------------------------------------------------------------
(***************************************************************************)
(* Types.  The poll counter stays within its budget because a session only *)
(* asks while it has polls left, and has one listRecent call at a time.    *)
(***************************************************************************)
PollsFit ==
    \A s \in Sessions : listing[s] \in {"ensuring", "scraping"} => InBudget(s)

Typed == TabTypes /\ PollsFit

LEMMA EnsureEndsTypes ==
    ASSUME Typed, EnsureEnds, UNCHANGED pollCounts
    PROVE  /\ ensuring' \in EnsureSteps
           /\ listing' \in [Clients -> {"idle", "ensuring", "scraping", "closing"}]
           /\ PollsFit'
<1>1. /\ ensuring' = "idle"
      /\ \A c \in Clients : listing'[c] = IF listing[c] # "ensuring" THEN listing[c]
                                          ELSE IF tabState.tab = NoTab THEN "idle" ELSE "scraping"
      /\ listing' = [c \in Clients |-> listing'[c]]
    BY DEF EnsureEnds
<1>2. \A c \in Clients : /\ listing[c] \in {"idle", "ensuring", "scraping", "closing"}
                         /\ listing'[c] \in {"idle", "ensuring", "scraping", "closing"}
                         /\ listing'[c] \in {"ensuring", "scraping"} =>
                               listing[c] \in {"ensuring", "scraping"}
    BY <1>1 DEF Typed, TabTypes
<1>3. PollsFit'
    BY <1>2 DEF Typed, PollsFit, InBudget, Clients
<1> QED BY <1>1, <1>2, <1>3 DEF EnsureSteps

LEMMA CloseIfOwnedTypes ==
    ASSUME Typed, NEW c \in Clients, NEW why \in {"poll", "end"}, CloseIfOwned(c, why)
    PROVE  closing' \subseteq Closings
<1>1. Closable => tabState.tab \in Tabs
    BY DEF Typed, TabTypes, TabStates, Closable
<1> QED BY <1>1 DEF CloseIfOwned, Typed, TabTypes, Closings

LEMMA TypedStep == Typed /\ [TabNext]_tabVars => Typed'
<1> SUFFICES ASSUME Typed, [TabNext]_tabVars PROVE Typed'
    OBVIOUS
<1> USE DEF Typed
<1>1. ASSUME NEW c \in Clients, Asks(c) PROVE Typed'
    <2>1. ensuring' \in EnsureSteps
        BY <1>1 DEF Asks, EnsureMutex, TabTypes, EnsureSteps
    <2>2. listing' = [listing EXCEPT ![c] = "ensuring"] /\ (c \in Sessions => InBudget(c))
        BY <1>1 DEF Asks
    <2>3. PollsFit'
        BY <1>1, <2>2 DEF Asks, TabTypes, PollsFit, InBudget, Clients
    <2> QED BY <1>1, <2>1, <2>2, <2>3 DEF Asks, TabTypes, browser
<1>2. CASE Revalidates
    <2>1. CASE EnsureEnds /\ UNCHANGED tabState
        BY <1>2, <2>1, EnsureEndsTypes DEF Revalidates, TabTypes, browser
    <2>2. CASE tabState' = NoState /\ ensuring' = "querying" /\ UNCHANGED listing
        BY <1>2, <2>2 DEF Revalidates, TabTypes, browser, NoState, TabStates, EnsureSteps,
                          PollsFit, InBudget
    <2> QED BY <1>2, <2>1, <2>2 DEF Revalidates
<1>3. CASE Queries
    <2>1. CASE \E t \in OnMessages : UsesFound(t)
        <3>1. PICK t \in Tabs : UsesFound(t)
            BY <2>1 DEF OnMessages
        <3> QED BY <1>3, <3>1 DEF Queries, UsesFound, Uses, TabTypes, browser, TabStates,
                                  EnsureSteps, PollsFit, InBudget
    <2>2. CASE OnMessages = {} /\ ensuring' = "creating" /\ UNCHANGED <<tabState, stored>>
        BY <1>3, <2>2 DEF Queries, TabTypes, browser, EnsureSteps, PollsFit, InBudget
    <2> QED BY <1>3, <2>1, <2>2 DEF Queries
<1>4. CASE Creates
    BY <1>4 DEF Creates, Uses, TabTypes, TabStates, EnsureSteps, PollsFit, InBudget
<1>5. CASE Persisted
    BY <1>5, EnsureEndsTypes DEF Persisted, TabTypes, browser
<1>6. ASSUME NEW s \in Sessions, Scraped(s) PROVE Typed'
    <2>1. s \in Clients /\ pollCounts[s] \in Nat /\ pollCounts[s] < MAX_POLLS_PER_SESSION
        BY <1>6, PollsAssumption DEF Scraped, PollsFit, InBudget, TabTypes, Clients
    <2>2. pollCounts' \in [Sessions -> 0 .. MAX_POLLS_PER_SESSION]
        BY <1>6, <2>1, PollsAssumption DEF Scraped, IncrementPollCount, TabTypes
    <2>3. closing' \subseteq Closings
        BY <1>6, <2>1, CloseIfOwnedTypes DEF Scraped, TabTypes
    <2>4. /\ listing' \in [Clients -> {"idle", "ensuring", "scraping", "closing"}]
          /\ listing'[s] \in {"idle", "closing"}
          /\ \A c \in Clients \ {s} : listing'[c] = listing[c]
        BY <1>6, <2>1 DEF Scraped, AfterClose, TabTypes
    <2>5. \A r \in Sessions \ {s} : pollCounts'[r] = pollCounts[r]
        BY <1>6 DEF Scraped, IncrementPollCount, TabTypes
    <2>6. PollsFit'
        BY <2>4, <2>5 DEF PollsFit, InBudget, Clients
    <2> QED BY <1>6, <2>2, <2>3, <2>4, <2>6 DEF Scraped, TabTypes, browser
<1>7. ASSUME NEW s \in Sessions, ScrapeFails(s) PROVE Typed'
    BY <1>7 DEF ScrapeFails, TabTypes, browser, manager, PollsFit, InBudget, Clients
<1>8. ASSUME NEW s \in Sessions, Ends(s) PROVE Typed'
    <2>1. closing' \subseteq Closings
        BY <1>8, CloseIfOwnedTypes DEF Ends, Clients
    <2>2. pollCounts' = [pollCounts EXCEPT ![s] = 0] /\ listing' = listing
        BY <1>8 DEF Ends
    <2>3. pollCounts' \in [Sessions -> 0 .. MAX_POLLS_PER_SESSION]
        BY <2>2, PollsAssumption DEF TabTypes
    <2>4. PollsFit'
        BY <2>2, PollsAssumption DEF PollsFit, InBudget, TabTypes
    <2> QED BY <1>8, <2>1, <2>3, <2>4 DEF Ends, TabTypes, browser
<1>9. CASE Tested
    <2>1. closing' \subseteq Closings
        BY <1>9, CloseIfOwnedTypes DEF Tested, Clients
    <2>2. listing' \in [Clients -> {"idle", "ensuring", "scraping", "closing"}]
        BY <1>9 DEF Tested, AfterClose, TabTypes
    <2>3. \A s \in Sessions : listing'[s] = listing[s]
        BY <1>9, PopupAssumption DEF Tested, AfterClose, TabTypes, Clients
    <2> QED BY <1>9, <2>1, <2>2, <2>3 DEF Tested, TabTypes, browser, PollsFit, InBudget
<1>10. ASSUME NEW call \in closing, RemovesTab(call) PROVE Typed'
    <2>1. call \in Closings
        BY DEF TabTypes
    <2>2. closing' \subseteq Closings
        BY <1>10, <2>1 DEF RemovesTab, TabTypes, Closings
    <2>3. /\ tab' \in [Tabs -> {"unborn", "messages", "away", "back", "closed"}]
          /\ removed' \subseteq Tabs
        BY <1>10, <2>1 DEF RemovesTab, TabTypes, Closings, Open
    <2> QED BY <1>10, <2>2, <2>3 DEF RemovesTab, TabTypes, PollsFit, InBudget
<1>11. ASSUME NEW call \in closing, CloseEnds(call) PROVE Typed'
    <2>1. closing' \subseteq Closings
        BY <1>11 DEF CloseEnds, TabTypes
    <2>2. listing' \in [Clients -> {"idle", "ensuring", "scraping", "closing"}]
        BY <1>11 DEF CloseEnds, TabTypes
    <2>3. \A c \in Clients : listing'[c] = listing[c] \/ listing'[c] = "idle"
        BY <1>11 DEF CloseEnds, TabTypes
    <2>4. PollsFit'
        BY <1>11, <2>3 DEF CloseEnds, PollsFit, InBudget, Clients
    <2> QED BY <1>11, <2>1, <2>2, <2>4 DEF CloseEnds, TabTypes, browser, NoState, TabStates
<1>12. CASE User
    <2>1. tab' \in [Tabs -> {"unborn", "messages", "away", "back", "closed"}]
        BY <1>12 DEF User, TabTypes
    <2> QED BY <1>12, <2>1 DEF User, TabTypes, manager, PollsFit, InBudget
<1>13. CASE Crash
    BY <1>13, PollsAssumption, CrashesAssumption
       DEF Crash, TabTypes, browser, NoState, TabStates, EnsureSteps, PollsFit, InBudget, Clients
<1>14. CASE Recovers
    <2>1. tabState' \in TabStates /\ stored' \in TabStates /\ recovering' \in TabStates
        <3>1. NoState \in TabStates
            BY DEF NoState, TabStates
        <3>2. tabState \in TabStates /\ stored \in TabStates /\ recovering \in TabStates
            BY DEF TabTypes
        <3>3. recovering' = NoState
            BY <1>14 DEF Recovers
        <3>4. tabState' \in {tabState, recovering} /\ stored' \in {stored, NoState}
            BY <1>14 DEF Recovers
        <3> QED BY <3>1, <3>2, <3>3, <3>4
    <2>2. PollsFit'
        BY <1>14 DEF Recovers, PollsFit, InBudget
    <2> QED BY <1>14, <2>1, <2>2 DEF Recovers, TabTypes, browser
<1>15. CASE UNCHANGED tabVars
    BY <1>15 DEF tabVars, TabTypes, browser, manager, PollsFit, InBudget
<1> QED
    BY <1>1, <1>2, <1>3, <1>4, <1>5, <1>6, <1>7, <1>8, <1>9, <1>10, <1>11, <1>12, <1>13,
       <1>14, <1>15 DEF TabNext

(***************************************************************************)
(* TabTypes holds, and a session that waits for the tab or reads it has a    *)
(* poll of its budget left (listRecent, tab-manager.ts).                   *)
(***************************************************************************)
THEOREM TabTypeCorrect == TabSpec => []Typed
<1>1. TabInit => Typed
    BY PollsAssumption, CrashesAssumption
       DEF TabInit, Typed, TabTypes, NoState, TabStates, EnsureSteps, PollsFit, Clients
<1> QED
    BY <1>1, TypedStep, PTL DEF TabSpec

-----------------------------------------------------------------------------
(***************************************************************************)
(* One tab.  While a tab is being created, no tab the extension opened is  *)
(* on Google Messages as it was opened: the query before it found none,    *)
(* and the user can only come back to one.                                 *)
(***************************************************************************)
OneTab ==
    /\ OneOpenedTab
    /\ \A t \in opened : tab[t] # "unborn"
    /\ ensuring = "creating" => \A t \in opened : tab[t] # "messages"

LEMMA OneTabStep == Typed /\ OneTab /\ [TabNext]_tabVars => OneTab'
<1> SUFFICES ASSUME Typed, OneTab, [TabNext]_tabVars PROVE OneTab'
    OBVIOUS
<1> USE DEF OneTab, OneOpenedTab
<1>t. opened \subseteq Tabs /\ tab = [t \in Tabs |-> tab[t]]
    BY DEF Typed, TabTypes
<1>1. ASSUME UNCHANGED browser, ensuring' = "creating" => ensuring = "creating"
      PROVE  OneTab'
    BY <1>1 DEF browser
<1>2. ASSUME UNCHANGED opened, ensuring' = ensuring,
             \A t \in opened : tab'[t] = tab[t] \/ tab'[t] \in {"closed", "away", "back"}
      PROVE  OneTab'
    BY <1>2
<1>3. ASSUME NEW c \in Clients, Asks(c) PROVE OneTab'
    BY <1>1, <1>3 DEF Asks, EnsureMutex
<1>4. CASE Revalidates
    BY <1>1, <1>4 DEF Revalidates, EnsureEnds
<1>5. CASE Queries
    <2>1. CASE \E t \in OnMessages : UsesFound(t)
        BY <1>1, <1>5, <2>1 DEF Queries, UsesFound, Uses
    <2>2. CASE OnMessages = {} /\ ensuring' = "creating"
        <3>1. \A t \in opened : tab[t] # "messages"
            BY <1>t, <2>2 DEF OnMessages
        <3> QED BY <1>5, <3>1 DEF Queries, browser
    <2> QED BY <1>5, <2>1, <2>2 DEF Queries
<1>6. CASE Creates
    <2>1. PICK t \in Tabs : /\ tab[t] = "unborn" /\ tab' = [tab EXCEPT ![t] = "messages"]
                            /\ opened' = opened \cup {t} /\ Uses(t, TRUE)
        BY <1>6 DEF Creates
    <2>2. ensuring = "creating" /\ ensuring' = "persisting"
        BY <1>6, <2>1 DEF Creates, Uses
    <2>3. \A u \in opened : tab'[u] = tab[u] /\ tab[u] # "messages" /\ tab[u] # "unborn"
        BY <1>t, <2>1, <2>2
    <2>4. tab'[t] = "messages"
        BY <1>t, <2>1
    <2> QED BY <2>1, <2>2, <2>3, <2>4
<1>7. CASE Persisted
    BY <1>1, <1>7 DEF Persisted, EnsureEnds
<1>8. ASSUME NEW s \in Sessions, Scraped(s) \/ ScrapeFails(s) \/ Ends(s) PROVE OneTab'
    BY <1>1, <1>8 DEF Scraped, ScrapeFails, Ends, manager
<1>9. CASE Tested
    BY <1>1, <1>9 DEF Tested
<1>10. ASSUME NEW call \in closing, RemovesTab(call) PROVE OneTab'
    <2>1. \A t \in opened : tab'[t] = tab[t] \/ tab'[t] \in {"closed", "away", "back"}
        BY <1>10, <1>t DEF RemovesTab
    <2> QED BY <1>2, <1>10, <2>1 DEF RemovesTab
<1>11. ASSUME NEW call \in closing, CloseEnds(call) PROVE OneTab'
    BY <1>1, <1>11 DEF CloseEnds
<1>12. CASE User
    <2>1. \A t \in opened : tab'[t] = tab[t] \/ tab'[t] \in {"closed", "away", "back"}
        BY <1>12, <1>t DEF User
    <2> QED BY <1>2, <1>12, <2>1 DEF User, manager
<1>13. CASE Crash
    BY <1>1, <1>13 DEF Crash
<1>14. CASE Recovers
    BY <1>1, <1>14 DEF Recovers
<1>15. CASE UNCHANGED tabVars
    BY <1>1, <1>15 DEF tabVars, manager
<1> QED
    BY <1>3, <1>4, <1>5, <1>6, <1>7, <1>8, <1>9, <1>10, <1>11, <1>12, <1>13, <1>14, <1>15
       DEF TabNext

(***************************************************************************)
(* ensureTab never opens a second tab beside one it opened: for any number *)
(* of sessions, tabs and worker deaths, two tabs of the extension are not  *)
(* both on Google Messages unless the user came back to one.               *)
(***************************************************************************)
THEOREM NoSecondTab == TabSpec => []OneOpenedTab
<1>1. TabInit => OneTab
    BY DEF TabInit, OneTab, OneOpenedTab
<1>2. TabSpec => []OneTab
    BY <1>1, OneTabStep, TabTypeCorrect, PTL DEF TabSpec
<1>3. OneTab => OneOpenedTab
    BY DEF OneTab
<1> QED
    BY <1>2, <1>3, PTL
===============================================================================
