-------------------------- MODULE MailboxStoreProofs --------------------------
(***************************************************************************)
(* The safety invariants of MailboxStore from the mutual exclusion of its  *)
(* mutex, and the refinement of AtomicStore.                               *)
(***************************************************************************)
EXTENDS MailboxStore, SequenceTheorems, FiniteSetTheorems, TLAPS

-----------------------------------------------------------------------------
(***************************************************************************)
(* The inductive invariant.                                                *)
(***************************************************************************)
\* The stages a request of each kind goes through.
Path(op) ==
    CASE op = "store" -> {"add", "refresh"}
      [] op = "remove" -> {"find", "remove", "refresh"}
      [] op = "disconnect" -> {"remove", "refresh"}
      [] op = "sync" -> {"touch"}
      [] op = "connect" -> {"pairing", "look", "add", "refresh"}
      [] op = "repair" -> {"findMessages", "remove", "pairing", "look", "add", "refresh"}
      [] op = "enable" -> {"pref", "unban"}
      [] op = "disable" -> {"pref", "preview", "ban"}
      [] OTHER -> {op}

OnPath ==
    /\ \A h \in Requests : at[h] \in Path(Ask[h].op) \cup Ends \cup {"idle"}
    /\ at[Migration] \in {"migrate"} \cup Ends

\* The mutex and the pipe of context c: who has issued a call and is in a stage
\* of the mutex holds it, and nobody is there twice.
Issued(run) == {run.pipe[i] : i \in 1 .. Len(run.pipe)}
Queued(run) == {run.mutex.queue[i] : i \in 1 .. Len(run.mutex.queue)}
Distinct(seq) == \A i, j \in 1 .. Len(seq) : seq[i] = seq[j] => i = j

Orderly(c, run, stage) ==
    /\ \A h \in Issued(run) :
          /\ ContextOf(h) = c /\ stage[h] \in Stages \ {"pairing"}
          /\ stage[h] \in Locked => h = run.mutex.holder
    /\ \A h \in Queued(run) \cup ({run.mutex.holder} \ {None}) :
          ContextOf(h) = c /\ stage[h] \in Locked
    /\ run.mutex.holder \notin Queued(run)
    /\ run.mutex.holder = None => run.mutex.queue = <<>>
    /\ Distinct(run.pipe) /\ Distinct(run.mutex.queue)

InOrder == \A c \in Contexts : Orderly(c, Run(c), at)

\* Between its read and its write a stage of the mutex has it to itself.
Exclusive ==
    \A h \in Handlers : io[h] = "write" =>
        /\ at[h] \in Updates \cup {"reset"}
        /\ at[h] \in Locked => mutex[ContextOf(h)].holder = h

\* The migration reads before any request and writes before any of them does.
Yet(h) == io[h] = "read" \/ at[h] = "reset"

MigratesFirst ==
    at[Migration] = "migrate" =>
        \E k \in 1 .. Len(pipe["worker"]) :
            /\ pipe["worker"][k] = Migration
            /\ \A j \in 1 .. k - 1 : Yet(pipe["worker"][j])
            /\ io[Migration] = "read" =>
                  k = 1 /\ \A j \in 1 .. Len(pipe["worker"]) : Yet(pipe["worker"][j])

\* Rows that are mailboxes.
Proper(ms) == {m \in ms : ~ Legacy(m)}

\* Nobody writes the settings outside the worker's mutex.
Disciplined == \A h \in Requests : Ask[h].op \notin {"level", "timeout", "reset"}

\* What is about to be written was computed from what is stored.
Current ==
    \A h \in Handlers : io[h] = "write" =>
        /\ at[h] \in {"add", "remove", "touch"} => seen[h].mailboxes = Proper(disk.mailboxes)
        /\ at[h] = "migrate" => seen[h].mailboxes = disk.mailboxes
        /\ at[h] = "add" => ~ Taken(h, seen[h])
        /\ at[h] \in {"remove", "touch"} => ~ Absent(h, seen[h])
        /\ at[h] = "pref" => seen[h].prefs = disk.prefs
        /\ at[h] \in {"ban", "unban"} /\ Disciplined => seen[h].settings = disk.settings

\* A request that adds a mailbox has it, and it is there, unless one that
\* removes it was received.
Adders == {h \in Requests : Ask[h].op \in {"store", "connect", "repair"}}

Born ==
    /\ \A h \in Requests : h \in IdsOf(disk.mailboxes) => at[h] \in {"refresh"} \cup Ends
    /\ \A h \in Adders :
          /\ at[h] \in {"refresh", "ok"}
          /\ \A g \in Removers(h) : at[g] = "idle"
          => h \in IdsOf(Proper(disk.mailboxes))

\* A request that removes a mailbox names it all the while, and once it is
\* removed nobody adds it again.
Targets ==
    \A h \in Requests :
        /\ Ask[h].op \in {"remove", "disconnect"} /\ at[h] # "idle" => target[h] = Arg(h)
        /\ Ask[h].op = "repair" /\ at[h] = "findMessages" => target[h] = None

Removed(h) ==
    \/ Ask[h].op \in {"remove", "disconnect"} /\ at[h] \in {"refresh", "ok"}
    \/ Ask[h].op = "repair" /\ at[h] \in {"pairing", "look", "add", "refresh", "ok"}

Gone ==
    \A h \in Requests : Removed(h) =>
        /\ target[h] \notin IdsOf(disk.mailboxes)
        /\ target[h] \in Requests => at[target[h]] \in {"refresh"} \cup Ends

\* The popup's map is right, or a refresh that will not fail is to come.
PopupKnows ==
    (\A h \in Requests : Ask[h].op = "repair" => at[h] = "idle") =>
        \/ popupBoxes = IdsOf(Proper(disk.mailboxes))
        \/ /\ \E h \in Requests : at[h] = "refresh"
           /\ disk.mailboxes = Proper(disk.mailboxes)

Limited == \A d \in {disk} \cup {seen[h] : h \in Handlers} : Capped(d.settings)

\* The order of the calls, and what it is for.
CallsInOrder == TypeOK /\ OnPath /\ InOrder /\ Exclusive /\ MigratesFirst
StoreSafe ==
    /\ Current /\ UniqueAccounts /\ Born /\ Targets /\ Gone /\ PopupKnows /\ Limited
IInv == CallsInOrder /\ StoreSafe

-----------------------------------------------------------------------------
(***************************************************************************)
(* The mutex and the pipe.                                                 *)
(***************************************************************************)
LEMMA Appended ==
    ASSUME NEW S, NEW q \in Seq(S), NEW e \in S
    PROVE  /\ Append(q, e) \in Seq(S) /\ Len(Append(q, e)) = Len(q) + 1
           /\ \A i \in 1 .. Len(q) : Append(q, e)[i] = q[i]
           /\ Append(q, e)[Len(q) + 1] = e
    BY SMT

LEMMA Tailed ==
    ASSUME NEW S, NEW q \in Seq(S), q # <<>>
    PROVE  /\ Tail(q) \in Seq(S) /\ Len(q) \in Nat \ {0} /\ Len(Tail(q)) = Len(q) - 1
           /\ \A i \in 1 .. Len(q) - 1 : Tail(q)[i] = q[i + 1]
           /\ Head(q) = q[1] /\ Head(q) \in S
    BY SMT

RunRecords == [mutex : [holder : Handlers \cup {None}, queue : Seq(Handlers)],
               pipe : Seq(Handlers)]

\* h is nowhere in the run.
Absentee(run, h) == h \notin Issued(run) \cup Queued(run) \cup {run.mutex.holder}

\* The pipe got longer at its end, and by which handlers.
Longer(p, q, new) ==
    /\ Len(p) <= Len(q)
    /\ \A i \in 1 .. Len(p) : q[i] = p[i]
    /\ \A i \in Len(p) + 1 .. Len(q) : q[i] \in new

LEMMA IssueRun ==
    ASSUME NEW run \in RunRecords, NEW h \in Handlers
    PROVE  /\ Issue(run, h) \in RunRecords
           /\ Issued(Issue(run, h)) = Issued(run) \cup {h}
           /\ Issue(run, h).mutex = run.mutex
           /\ h \notin Issued(run) /\ Distinct(run.pipe) => Distinct(Issue(run, h).pipe)
           /\ Longer(run.pipe, Issue(run, h).pipe, {h})
<1>1. /\ run.pipe \in Seq(Handlers) /\ Issue(run, h).pipe = Append(run.pipe, h)
      /\ Issue(run, h).mutex = run.mutex
    BY DEF Issue, RunRecords
<1>2. Len(run.pipe) \in Nat
    BY <1>1
<1>3. Issue(run, h) \in RunRecords
    BY <1>1, Appended DEF Issue, RunRecords
<1>4. Issued(Issue(run, h)) = Issued(run) \cup {h}
    BY <1>1, <1>2, Appended DEF Issued
<1>5. h \notin Issued(run) /\ Distinct(run.pipe) => Distinct(Issue(run, h).pipe)
    BY <1>1, <1>2, Appended DEF Issued, Distinct
<1>6. Longer(run.pipe, Issue(run, h).pipe, {h})
    BY <1>1, <1>2, Appended DEF Longer
<1> QED
    BY <1>1, <1>3, <1>4, <1>5, <1>6

\* The run once the head's call has been served.
Served(run) == [run EXCEPT !.pipe = Tail(@)]

LEMMA ServedRun ==
    ASSUME NEW run \in RunRecords, run.pipe # <<>>, NEW c, NEW stage, Orderly(c, run, stage)
    PROVE  /\ Served(run) \in RunRecords /\ Orderly(c, Served(run), stage)
           /\ Issued(Served(run)) = Issued(run) \ {Head(run.pipe)}
           /\ Head(run.pipe) \in Issued(run) /\ Head(run.pipe) \in Handlers
           /\ Served(run).mutex = run.mutex
<1>1. /\ run.pipe \in Seq(Handlers) /\ Served(run).pipe = Tail(run.pipe)
      /\ Served(run).mutex = run.mutex
    BY DEF Served, RunRecords
<1> DEFINE p == run.pipe
<1>2. /\ Tail(p) \in Seq(Handlers) /\ Len(p) \in Nat \ {0} /\ Len(Tail(p)) = Len(p) - 1
      /\ \A i \in 1 .. Len(p) - 1 : Tail(p)[i] = p[i + 1]
      /\ Head(p) = p[1] /\ Head(p) \in Handlers
    BY <1>1, Tailed
<1>3. Served(run) \in RunRecords
    BY <1>1, <1>2 DEF Served, RunRecords
<1>4. Distinct(p)
    BY DEF Orderly
<1>5. Issued(Served(run)) = Issued(run) \ {Head(p)}
    <2>1. ASSUME NEW h \in Issued(Served(run)) PROVE h \in Issued(run) \ {Head(p)}
        <3>1. PICK i \in 1 .. Len(p) - 1 : h = p[i + 1]
            BY <1>1, <1>2, <2>1 DEF Issued
        <3> QED
            BY <3>1, <1>2, <1>4 DEF Issued, Distinct
    <2>2. ASSUME NEW h \in Issued(run) \ {Head(p)} PROVE h \in Issued(Served(run))
        <3>1. PICK i \in 1 .. Len(p) : h = p[i]
            BY <2>2 DEF Issued
        <3>2. i - 1 \in 1 .. Len(p) - 1 /\ Tail(p)[i - 1] = h
            BY <3>1, <2>2, <1>2
        <3> QED
            BY <3>2, <1>1, <1>2 DEF Issued
    <2> QED
        BY <2>1, <2>2
<1>6. Distinct(Tail(p))
    BY <1>2, <1>4 DEF Distinct
<1>7. Head(p) \in Issued(run)
    BY <1>2 DEF Issued
<1>8. Orderly(c, Served(run), stage)
    BY <1>1, <1>5, <1>6 DEF Orderly, Queued
<1> QED
    BY <1>1, <1>2, <1>3, <1>5, <1>7, <1>8

LEMMA UnlockRun ==
    ASSUME NEW run \in RunRecords, NEW c, NEW stage, Orderly(c, run, stage),
           run.mutex.holder # None, run.mutex.holder \notin Issued(run)
    PROVE  /\ Unlock(run) \in RunRecords /\ Orderly(c, Unlock(run), stage)
           /\ Absentee(Unlock(run), run.mutex.holder)
           /\ Issued(Unlock(run)) \subseteq Issued(run) \cup Queued(run)
           /\ Queued(Unlock(run)) \subseteq Queued(run)
           /\ Longer(run.pipe, Unlock(run).pipe, Queued(run))
<1> DEFINE q == run.mutex.queue
           h == run.mutex.holder
<1>1. /\ run.pipe \in Seq(Handlers) /\ q \in Seq(Handlers) /\ h \in Handlers
      /\ Len(run.pipe) \in Nat /\ Len(q) \in Nat
    BY DEF RunRecords
<1>2. CASE q = <<>>
    <2> DEFINE free == [run EXCEPT !.mutex.holder = None]
    <2>1. /\ Unlock(run) = free /\ free.pipe = run.pipe
          /\ free.mutex.queue = q /\ free.mutex.holder = None
        BY <1>2 DEF Unlock, RunRecords
    <2>2. free \in RunRecords
        BY DEF RunRecords
    <2>3. Queued(run) = {} /\ Queued(free) = {} /\ Issued(free) = Issued(run)
        BY <1>2, <2>1 DEF Queued, Issued
    <2>4. Orderly(c, free, stage)
        BY <2>1, <2>3, <1>2 DEF Orderly, Issued, Queued
    <2>5. Longer(run.pipe, free.pipe, Queued(run))
        BY <2>1, <1>1 DEF Longer
    <2>6. Absentee(free, h)
        BY <2>1, <2>3 DEF Absentee
    <2> QED
        BY <2>1, <2>2, <2>3, <2>4, <2>5, <2>6
<1>3. CASE q # <<>>
    <2> DEFINE g == Head(q)
               handed == [run EXCEPT !.mutex = [holder |-> g, queue |-> Tail(q)]]
               out == Issue(handed, g)
    <2>1. /\ Tail(q) \in Seq(Handlers) /\ Len(q) \in Nat \ {0} /\ Len(Tail(q)) = Len(q) - 1
          /\ \A i \in 1 .. Len(q) - 1 : Tail(q)[i] = q[i + 1]
          /\ g = q[1] /\ g \in Handlers
        BY <1>1, <1>3, Tailed
    <2>2. /\ handed \in RunRecords /\ handed.pipe = run.pipe
          /\ handed.mutex = [holder |-> g, queue |-> Tail(q)]
        BY <2>1 DEF RunRecords
    <2>3. Unlock(run) = out
        BY <1>3 DEF Unlock
    <2>4. Distinct(q)
        BY DEF Orderly
    <2>5. g \in Queued(run) /\ Distinct(Tail(q))
        BY <2>1, <2>4 DEF Queued, Distinct
    <2>6. Issued(handed) = Issued(run) /\ Distinct(handed.pipe)
        BY <2>2 DEF Issued, Orderly
    <2>7. ContextOf(g) = c /\ stage[g] \in Locked /\ g # h
        BY <2>5 DEF Orderly
    <2>8. g \notin Issued(run) /\ g # None
        BY <2>1, <2>7, RequestsAssumption DEF Orderly
    <2>9. /\ out \in RunRecords /\ Issued(out) = Issued(run) \cup {g}
          /\ out.mutex.holder = g /\ out.mutex.queue = Tail(q)
          /\ Longer(run.pipe, out.pipe, {g})
          /\ Distinct(out.pipe)
        <3>1. /\ out \in RunRecords /\ Issued(out) = Issued(handed) \cup {g}
              /\ out.mutex = handed.mutex
              /\ Longer(handed.pipe, out.pipe, {g})
              /\ g \notin Issued(handed) /\ Distinct(handed.pipe) => Distinct(out.pipe)
            BY <2>1, <2>2, IssueRun
        <3> HIDE DEF out, handed
        <3> QED
            BY <3>1, <2>2, <2>6, <2>8
    <2> HIDE DEF out, handed
    <2>10. Queued(out) \subseteq Queued(run) \ {g}
        <3>1. ASSUME NEW i \in 1 .. Len(Tail(q)) PROVE Tail(q)[i] \in Queued(run) \ {g}
            BY <2>1, <2>4 DEF Queued, Distinct
        <3> QED
            BY <3>1, <2>9 DEF Queued
    <2>11. \A x \in Issued(run) : stage[x] \notin Locked
        <3>1. ASSUME NEW x \in Issued(run), stage[x] \in Locked PROVE FALSE
            BY <3>1 DEF Orderly
        <3> QED
            BY <3>1
    <2>12. Orderly(c, out, stage)
        <3>1. \A x \in Issued(out) : /\ ContextOf(x) = c /\ stage[x] \in Stages \ {"pairing"}
                                     /\ stage[x] \in Locked => x = out.mutex.holder
            BY <2>7, <2>9, <2>11 DEF Orderly, Locked, Stages
        <3>2. \A x \in Queued(out) \cup ({out.mutex.holder} \ {None}) :
                  ContextOf(x) = c /\ stage[x] \in Locked
            BY <2>7, <2>9, <2>10 DEF Orderly
        <3> QED
            BY <3>1, <3>2, <2>5, <2>8, <2>9, <2>10 DEF Orderly
    <2>13. Absentee(out, h)
        BY <2>7, <2>9, <2>10 DEF Absentee, Orderly
    <2>14. Longer(run.pipe, out.pipe, Queued(run))
        BY <2>5, <2>9 DEF Longer
    <2> QED
        BY <2>3, <2>5, <2>9, <2>10, <2>12, <2>13, <2>14
<1> QED
    BY <1>2, <1>3

(***************************************************************************)
(* The head of the pipe leaves its stage: if that is one of the mutex, the *)
(* next in the queue gets it.                                              *)
(***************************************************************************)
LEMMA LeaveRun ==
    ASSUME NEW run \in RunRecords, run.pipe # <<>>, NEW c, NEW stage, Orderly(c, run, stage),
           NEW next
    PROVE  LET h == Head(run.pipe)
               out == Leave(Served(run), stage[h], next)
           IN  /\ out \in RunRecords /\ Orderly(c, out, stage) /\ Absentee(out, h)
               /\ stage[h] \notin Locked => out = Served(run)
               /\ stage[h] \in Locked => run.mutex.holder = h
               /\ Longer(Served(run).pipe, out.pipe, Queued(run))
<1> DEFINE h == Head(run.pipe)
           served == Served(run)
           out == Leave(served, stage[h], next)
<1>1. /\ served \in RunRecords /\ Orderly(c, served, stage)
      /\ Issued(served) = Issued(run) \ {h} /\ h \in Issued(run) /\ h \in Handlers
      /\ served.mutex = run.mutex
    BY ServedRun
<1>2. Queued(served) = Queued(run)
    BY <1>1 DEF Queued
<1>3. h # None
    BY <1>1, RequestsAssumption
<1> HIDE DEF h, served
<1>4. CASE stage[h] \in Locked
    <2>1. run.mutex.holder = h
        BY <1>1, <1>4 DEF Orderly
    <2>2. out = Unlock(served)
        BY <1>4 DEF Leave
    <2>3. /\ Unlock(served) \in RunRecords /\ Orderly(c, Unlock(served), stage)
          /\ Absentee(Unlock(served), served.mutex.holder)
          /\ Longer(served.pipe, Unlock(served).pipe, Queued(served))
        BY <1>1, <1>3, <2>1, UnlockRun
    <2> QED
        BY <1>1, <1>2, <1>4, <2>1, <2>2, <2>3 DEF h, served
<1>5. CASE stage[h] \notin Locked
    <2>1. out = served
        BY <1>5 DEF Leave
    <2>2. h \notin Queued(run) /\ h # run.mutex.holder
        BY <1>3, <1>5 DEF Orderly
    <2>3. Absentee(served, h)
        BY <1>1, <1>2, <2>2 DEF Absentee
    <2>4. Longer(served.pipe, served.pipe, Queued(run))
        BY <1>1 DEF Longer, RunRecords
    <2> QED
        BY <1>1, <1>5, <2>1, <2>3, <2>4 DEF h, served
<1> QED
    BY <1>4, <1>5

(***************************************************************************)
(* A handler that is nowhere in the run enters a stage.                    *)
(***************************************************************************)
LEMMA EnterRun ==
    ASSUME NEW run \in RunRecords, NEW c, NEW stage \in [Handlers -> Stages \cup Ends \cup {"idle"}],
           Orderly(c, run, stage),
           NEW h \in Handlers, ContextOf(h) = c, Absentee(run, h),
           NEW next \in Stages \cup Ends
    PROVE  LET out == Enter(run, h, next)
           IN  /\ out \in RunRecords /\ Orderly(c, out, [stage EXCEPT ![h] = next])
               /\ out.mutex.holder = run.mutex.holder \/ run.mutex.holder = None
               /\ Longer(run.pipe, out.pipe, {h})
<1> DEFINE then == [stage EXCEPT ![h] = next]
           out == Enter(run, h, next)
<1>1. /\ run.pipe \in Seq(Handlers) /\ run.mutex.queue \in Seq(Handlers)
      /\ Len(run.pipe) \in Nat /\ Len(run.mutex.queue) \in Nat
      /\ run.mutex.holder \in Handlers \cup {None} /\ h # None
    BY RequestsAssumption DEF RunRecords
<1>2. then[h] = next /\ \A g \in Handlers \ {h} : then[g] = stage[g]
    OBVIOUS
<1>3. Issued(run) \subseteq Handlers /\ Queued(run) \subseteq Handlers
    BY <1>1 DEF Issued, Queued
<1> HIDE DEF then
<1>4. Orderly(c, run, then)
    BY <1>1, <1>2, <1>3 DEF Orderly, Absentee
<1>5. Longer(run.pipe, run.pipe, {h})
    BY <1>1 DEF Longer
<1>6. /\ Issue(run, h) \in RunRecords
      /\ Issued(Issue(run, h)) = Issued(run) \cup {h}
      /\ Issue(run, h).mutex = run.mutex
      /\ Distinct(Issue(run, h).pipe)
      /\ Longer(run.pipe, Issue(run, h).pipe, {h})
    BY IssueRun DEF Orderly, Absentee
<1>7. CASE next \in Ends \cup {"pairing"}
    BY <1>4, <1>5, <1>7 DEF Enter, then
<1>8. CASE next \in Locked
    <2>1. next \notin Ends \cup {"pairing"}
        BY <1>8 DEF Ends, Locked
    <2>2. out = Lock(run, h)
        BY <1>8, <2>1 DEF Enter
    <2>3. CASE run.mutex.holder = None
        <3> DEFINE locked == [run EXCEPT !.mutex.holder = h]
        <3>1. /\ locked \in RunRecords /\ locked.pipe = run.pipe
              /\ locked.mutex.holder = h /\ locked.mutex.queue = <<>>
            BY <2>3 DEF RunRecords, Orderly
        <3>2. out = Issue(locked, h)
            BY <2>2, <2>3 DEF Lock
        <3> HIDE DEF locked
        <3>3. Issued(locked) = Issued(run) /\ Queued(locked) = {}
            BY <3>1 DEF Issued, Queued
        <3>4. /\ Issue(locked, h) \in RunRecords
              /\ Issued(Issue(locked, h)) = Issued(run) \cup {h}
              /\ Issue(locked, h).mutex = locked.mutex
              /\ Distinct(Issue(locked, h).pipe)
              /\ Longer(run.pipe, Issue(locked, h).pipe, {h})
            <4>1. h \notin Issued(locked) /\ Distinct(locked.pipe)
                BY <3>1, <3>3 DEF Orderly, Absentee
            <4> QED
                BY <3>1, <3>3, <4>1, IssueRun
        <3>5. Queued(Issue(locked, h)) = {}
            <4>1. Issue(locked, h).mutex.queue = locked.mutex.queue
                BY <3>4
            <4> QED
                BY <3>3, <4>1 DEF Queued
        <3>6. \A g \in Issued(run) : then[g] \notin Locked
            <4>1. ASSUME NEW g \in Issued(run), then[g] \in Locked PROVE FALSE
                BY <4>1, <1>1, <1>3, <1>4, <2>3, RequestsAssumption DEF Orderly
            <4> QED
                BY <4>1
        <3>7. next \in Stages \ {"pairing"}
            BY <1>8, <2>1 DEF Stages
        <3>8. Distinct(Issue(locked, h).mutex.queue)
            BY <3>1, <3>4 DEF Distinct
        <3>9. Orderly(c, Issue(locked, h), then)
            BY <1>1, <1>2, <1>4, <1>8, <3>1, <3>4, <3>5, <3>6, <3>7, <3>8 DEF Orderly
        <3> QED
            BY <2>3, <3>2, <3>4, <3>9 DEF then
    <2>4. CASE run.mutex.holder # None
        <3> DEFINE waits == [run EXCEPT !.mutex.queue = Append(@, h)]
        <3>1. out = waits
            BY <2>2, <2>4 DEF Lock
        <3>2. /\ waits.pipe = run.pipe /\ waits.mutex.holder = run.mutex.holder
              /\ waits.mutex.queue = Append(run.mutex.queue, h)
            BY DEF RunRecords
        <3>3. waits \in RunRecords
            BY <1>1, Appended DEF RunRecords
        <3> HIDE DEF waits
        <3>4. /\ Issued(waits) = Issued(run) /\ Queued(waits) = Queued(run) \cup {h}
              /\ Distinct(waits.mutex.queue) /\ waits.mutex.queue # <<>>
            <4> DEFINE q == run.mutex.queue
            <4>1. /\ Len(Append(q, h)) = Len(q) + 1
                  /\ \A i \in 1 .. Len(q) : Append(q, h)[i] = q[i]
                  /\ Append(q, h)[Len(q) + 1] = h
                BY <1>1, Appended
            <4>2. /\ waits.mutex.queue = Append(q, h) /\ Len(q) \in Nat
                  /\ h \notin Queued(run) /\ Distinct(q)
                BY <1>1, <3>2 DEF Orderly, Absentee
            <4>3. Append(q, h) # <<>>
                <5>1. Len(Append(q, h)) # 0 /\ Len(<<>>) = 0
                    BY <4>1, <4>2
                <5> QED
                    BY <5>1
            <4>4. Issued(waits) = Issued(run)
                BY <3>2 DEF Issued
            <4> HIDE DEF q
            <4>5. {Append(q, h)[i] : i \in 1 .. Len(q) + 1} = {q[i] : i \in 1 .. Len(q)} \cup {h}
                BY <4>1, <4>2
            <4>6. Queued(waits) = Queued(run) \cup {h}
                BY <4>1, <4>2, <4>5 DEF Queued, q
            <4>7. h \notin {q[i] : i \in 1 .. Len(q)}
                BY <4>2 DEF Queued, q
            <4>8. Distinct(Append(q, h))
                BY <4>1, <4>2, <4>7 DEF Distinct
            <4> QED
                BY <4>2, <4>3, <4>4, <4>6, <4>8
        <3>5. Longer(run.pipe, waits.pipe, {h})
            BY <3>2, <1>5
        <3>6. Orderly(c, waits, then)
            BY <1>2, <1>4, <1>8, <2>4, <3>2, <3>4 DEF Orderly, Absentee
        <3> QED
            BY <3>1, <3>2, <3>3, <3>5, <3>6 DEF then
    <2> QED
        BY <2>3, <2>4
<1>9. CASE next \notin Ends \cup {"pairing"} \cup Locked
    <2>1. out = Issue(run, h)
        BY <1>9 DEF Enter
    <2>2. Queued(Issue(run, h)) = Queued(run)
        BY <1>6 DEF Queued
    <2>3. Orderly(c, Issue(run, h), then)
        BY <1>2, <1>4, <1>6, <1>9, <2>2 DEF Orderly
    <2> QED
        BY <1>6, <2>1, <2>3 DEF then
<1> QED
    BY <1>7, <1>8, <1>9

-----------------------------------------------------------------------------
(***************************************************************************)
(* CallsInOrder is inductive.                                              *)
(***************************************************************************)
LEMMA RunTyped ==
    ASSUME TypeOK, NEW c \in Contexts
    PROVE  /\ Run(c) \in RunRecords /\ Run(c).pipe = pipe[c] /\ Run(c).mutex = mutex[c]
           /\ pipe[c] \in Seq(Handlers) /\ Len(pipe[c]) \in Nat
    BY DEF TypeOK, Run, RunRecords

LEMMA PathStages == \A op \in Ops : Path(op) \subseteq Stages
    BY DEF Path, Ops, Stages, MailboxStages, Locked

\* Who is in a stage of the worker's mutex.
Exclusives == Locked \ {"timeout"}

LEMMA InWorker ==
    ASSUME OnPath, NEW h \in Handlers, at[h] \in Exclusives
    PROVE  h \in Requests /\ ContextOf(h) = "worker"
<1>1. h \in Requests
    BY DEF Handlers, OnPath, Exclusives, Locked, Ends
<1>2. Ask[h].op = "timeout" => at[h] \in {"timeout"} \cup Ends \cup {"idle"}
    BY <1>1 DEF OnPath, Path
<1> QED
    BY <1>1, <1>2 DEF ContextOf, Exclusives, Locked, Ends

(***************************************************************************)
(* What the end of a stage does to the queues.                             *)
(***************************************************************************)
LEMMA ProceedOrder ==
    ASSUME TypeOK, InOrder, NEW c \in Contexts, pipe[c] # <<>>,
           NEW next \in Stages \cup Ends, Proceed(c, next)
    PROVE  LET h == Head(pipe[c])
           IN  /\ h \in Handlers /\ ContextOf(h) = c /\ at[h] \in Stages \ {"pairing"}
               /\ h = pipe[c][1]
               /\ at' = [at EXCEPT ![h] = next]
               /\ mutex' \in [Contexts -> [holder : Handlers \cup {None}, queue : Seq(Handlers)]]
               /\ pipe' \in [Contexts -> Seq(Handlers)]
               /\ InOrder'
               /\ \A g \in Handlers \ {h} :
                     mutex[ContextOf(g)].holder = g => mutex'[ContextOf(g)].holder = g
               /\ Longer(Tail(pipe[c]), pipe'[c], Handlers)
               /\ \A d \in Contexts \ {c} : pipe'[d] = pipe[d]
<1> DEFINE h == Head(pipe[c])
           left == Leave(Served(Run(c)), at[h], next)
           out == Enter(left, h, next)
<1>1. /\ Run(c) \in RunRecords /\ Run(c).pipe = pipe[c] /\ Run(c).mutex = mutex[c]
      /\ pipe[c] \in Seq(Handlers) /\ Orderly(c, Run(c), at)
    BY RunTyped DEF InOrder
<1>2. h \in Issued(Run(c)) /\ h \in Handlers /\ Served(Run(c)) \in RunRecords
    BY <1>1, ServedRun
<1>3. ContextOf(h) = c /\ at[h] \in Stages \ {"pairing"}
    BY <1>1, <1>2 DEF Orderly
<1>4. h = pipe[c][1]
    BY <1>1, Tailed
<1>5. at' = [at EXCEPT ![h] = next] /\ SetRun(c, out)
    BY DEF Proceed, Served
<1>6. /\ left \in RunRecords /\ Orderly(c, left, at) /\ Absentee(left, h)
      /\ at[h] \notin Locked => left = Served(Run(c))
      /\ at[h] \in Locked => mutex[c].holder = h
      /\ Longer(Served(Run(c)).pipe, left.pipe, Queued(Run(c)))
    BY <1>1, LeaveRun
<1>7. Served(Run(c)).pipe = Tail(pipe[c]) /\ Served(Run(c)).mutex = mutex[c]
    BY <1>1 DEF Served, RunRecords
<1>8. at \in [Handlers -> Stages \cup Ends \cup {"idle"}]
    BY DEF TypeOK
<1> HIDE DEF h, left
<1>9. /\ out \in RunRecords /\ Orderly(c, out, [at EXCEPT ![h] = next])
      /\ out.mutex.holder = left.mutex.holder \/ left.mutex.holder = None
      /\ Longer(left.pipe, out.pipe, {h})
    BY <1>2, <1>3, <1>6, <1>8, EnterRun
<1> HIDE DEF out
<1>10. /\ mutex' = [mutex EXCEPT ![c] = out.mutex] /\ pipe' = [pipe EXCEPT ![c] = out.pipe]
       /\ mutex' \in [Contexts -> [holder : Handlers \cup {None}, queue : Seq(Handlers)]]
       /\ pipe' \in [Contexts -> Seq(Handlers)]
       /\ mutex'[c] = out.mutex /\ pipe'[c] = out.pipe
       /\ \A d \in Contexts \ {c} : mutex'[d] = mutex[d] /\ pipe'[d] = pipe[d]
    BY <1>5, <1>9 DEF SetRun, RunRecords, TypeOK
<1>11. InOrder'
    <2>1. Run(c)' = out
        BY <1>9, <1>10 DEF Run, RunRecords
    <2>2. Orderly(c, Run(c), at)'
        BY <2>1, <1>5, <1>9 DEF Orderly
    <2>3. ASSUME NEW d \in Contexts \ {c} PROVE Orderly(d, Run(d), at)'
        <3>1. Run(d)' = Run(d) /\ Orderly(d, Run(d), at) /\ Run(d) \in RunRecords
            BY <1>10, RunTyped DEF Run, InOrder
        <3>2. /\ Issued(Run(d)) \subseteq Handlers /\ Queued(Run(d)) \subseteq Handlers
              /\ Run(d).mutex.holder \in Handlers \cup {None}
            BY <3>1 DEF Issued, Queued, RunRecords
        <3>3. \A g \in Handlers : ContextOf(g) = d => at'[g] = at[g]
            BY <1>3, <1>5, <1>8
        <3> QED
            BY <3>1, <3>2, <3>3 DEF Orderly
    <2> QED
        BY <2>2, <2>3 DEF InOrder
<1>12. ASSUME NEW g \in Handlers \ {h}, mutex[ContextOf(g)].holder = g
       PROVE  mutex'[ContextOf(g)].holder = g
    <2>1. ContextOf(g) \in Contexts /\ g # None
        BY RequestsAssumption DEF ContextOf, Contexts
    <2>2. CASE ContextOf(g) = c
        <3>1. left.mutex = mutex[c]
            BY <1>6, <1>7, <1>12, <2>2
        <3> QED
            BY <3>1, <1>9, <1>10, <1>12, <2>1, <2>2
    <2>3. CASE ContextOf(g) # c
        BY <1>10, <1>12, <2>1, <2>3
    <2> QED
        BY <2>2, <2>3
<1>13. Longer(Tail(pipe[c]), pipe'[c], Handlers)
    <2>1. Queued(Run(c)) \subseteq Handlers
        BY <1>1 DEF Queued, RunRecords
    <2>2. /\ Len(Tail(pipe[c])) \in Nat /\ Len(left.pipe) \in Nat /\ Len(out.pipe) \in Nat
          /\ out.pipe \in Seq(Handlers)
        BY <1>6, <1>7, <1>9, <1>1, <1>2 DEF RunRecords
    <2> QED
        BY <2>1, <2>2, <1>2, <1>6, <1>7, <1>9, <1>10 DEF Longer
<1> QED
    BY <1>2, <1>3, <1>4, <1>5, <1>10, <1>11, <1>12, <1>13 DEF h

(***************************************************************************)
(* The rest of CallsInOrder after a stage: the head of the pipe, which is  *)
(* not the migration unless that is over, has left.                        *)
(***************************************************************************)
LEMMA ProceedKeeps ==
    ASSUME CallsInOrder, NEW c \in Contexts, pipe[c] # <<>>,
           NEW next \in Stages \cup Ends, Proceed(c, next),
           LET h == Head(pipe[c])
           IN  IF h = Migration THEN next \in Ends ELSE next \in Path(Ask[h].op) \cup Ends
    PROVE  OnPath' /\ InOrder' /\ Exclusive' /\ MigratesFirst'
<1> DEFINE h == Head(pipe[c])
<1>1. /\ h \in Handlers /\ ContextOf(h) = c
      /\ h = pipe[c][1]
      /\ at' = [at EXCEPT ![h] = next]
      /\ pipe' \in [Contexts -> Seq(Handlers)]
      /\ InOrder'
      /\ \A g \in Handlers \ {h} :
            mutex[ContextOf(g)].holder = g => mutex'[ContextOf(g)].holder = g
      /\ Longer(Tail(pipe[c]), pipe'[c], Handlers)
      /\ \A d \in Contexts \ {c} : pipe'[d] = pipe[d]
    BY ProceedOrder DEF CallsInOrder
<1>2. /\ io' = [io EXCEPT ![h] = IF next = "reset" THEN "write" ELSE "read"]
      /\ IF h = Migration THEN next \in Ends ELSE next \in Path(Ask[h].op) \cup Ends
    BY DEF Proceed
<1>3. /\ at \in [Handlers -> Stages \cup Ends \cup {"idle"}] /\ io \in [Handlers -> {"read", "write"}]
      /\ pipe[c] \in Seq(Handlers)
    BY DEF CallsInOrder, TypeOK
<1> HIDE DEF h
<1>4. \A g \in Handlers \ {h} : at'[g] = at[g] /\ io'[g] = io[g]
    BY <1>1, <1>2, <1>3
<1>5. at'[h] = next /\ io'[h] = IF next = "reset" THEN "write" ELSE "read"
    BY <1>1, <1>2, <1>3
<1>6. OnPath'
    BY <1>1, <1>2, <1>4, <1>5 DEF OnPath, CallsInOrder, Handlers
<1>7. Exclusive'
    <2>1. ASSUME NEW g \in Handlers, io'[g] = "write"
          PROVE  /\ at'[g] \in Updates \cup {"reset"}
                 /\ at'[g] \in Locked => mutex'[ContextOf(g)].holder = g
        <3>1. CASE g = h
            BY <1>5, <2>1, <3>1 DEF Locked
        <3>2. CASE g # h
            BY <1>1, <1>4, <2>1, <3>2 DEF Exclusive, CallsInOrder
        <3> QED
            BY <3>1, <3>2
    <2> QED
        BY <2>1 DEF Exclusive
<1>8. MigratesFirst'
    <2> SUFFICES ASSUME at'[Migration] = "migrate" PROVE MigratesFirst'
        BY DEF MigratesFirst
    <2>1. h # Migration /\ Migration \in Handlers
        BY <1>2, <1>5 DEF Ends, Handlers
    <2>2. at[Migration] = "migrate" /\ io'[Migration] = io[Migration]
        BY <1>4, <2>1
    <2> DEFINE p == pipe["worker"]
    <2>3. PICK k \in 1 .. Len(p) :
              /\ p[k] = Migration /\ \A j \in 1 .. k - 1 : Yet(p[j])
              /\ io[Migration] = "read" => k = 1 /\ \A j \in 1 .. Len(p) : Yet(p[j])
        BY <2>2 DEF MigratesFirst, CallsInOrder
    <2>4. \A g \in Handlers \ {h} : Yet(g) => Yet(g)'
        BY <1>4 DEF Yet
    <2>5. CASE c = "worker"
        <3>1. k # 1
            BY <1>1, <2>1, <2>3, <2>5
        <3>2. /\ Len(p) \in Nat \ {0} /\ Len(Tail(p)) = Len(p) - 1
              /\ \A i \in 1 .. Len(p) - 1 : Tail(p)[i] = p[i + 1]
              /\ \A i \in 1 .. Len(p) : p[i] \in Handlers
            BY <1>3, <2>5, Tailed
        <3>3. Distinct(p)
            BY <2>5 DEF CallsInOrder, InOrder, Orderly, Run
        <3>4. \A i \in 1 .. Len(p) - 1 : p[i + 1] # h
            BY <1>1, <2>5, <3>2, <3>3 DEF Distinct
        <3>5. \A i \in 1 .. Len(p) - 1 : p'[i] = p[i + 1]
            BY <1>1, <2>5, <3>2 DEF Longer
        <3>6. Len(p) - 1 <= Len(p') /\ Len(p') \in Nat
            BY <1>1, <2>5, <3>2 DEF Longer
        <3>7. k - 1 \in 1 .. Len(p') /\ p'[k - 1] = Migration
            BY <2>3, <3>1, <3>2, <3>5, <3>6
        <3>8. ASSUME NEW j \in 1 .. k - 2 PROVE Yet(p[j])'
            <4>1. j + 1 \in 1 .. k - 1 /\ j \in 1 .. Len(p) - 1 /\ j + 1 \in 1 .. Len(p)
                BY <2>3, <3>2
            <4>2. p'[j] = p[j + 1] /\ p[j + 1] \in Handlers \ {h}
                BY <4>1, <3>2, <3>4, <3>5
            <4> QED
                BY <4>1, <4>2, <2>3, <2>4
        <3>9. io'[Migration] # "read"
            BY <2>2, <2>3, <3>1
        <3> QED
            BY <3>7, <3>8, <3>9 DEF MigratesFirst
    <2>6. CASE c # "worker"
        <3>1. p' = p
            BY <1>1, <2>6 DEF Contexts
        <3>2. \A i \in 1 .. Len(p) : p[i] \in Handlers \ {h}
            <4>1. \A i \in 1 .. Len(p) : p[i] \in Issued(Run("worker"))
                BY DEF Issued, Run
            <4>2. p \in Seq(Handlers)
                BY DEF CallsInOrder, TypeOK, Contexts
            <4>3. \A g \in Issued(Run("worker")) : ContextOf(g) = "worker"
                BY DEF CallsInOrder, InOrder, Orderly, Contexts
            <4> QED
                BY <4>1, <4>2, <4>3, <1>1, <2>6
        <3> QED
            BY <3>1, <3>2, <2>2, <2>3, <2>4 DEF MigratesFirst
    <2> QED
        BY <2>5, <2>6
<1> QED
    BY <1>1, <1>6, <1>7, <1>8

(***************************************************************************)
(* A handler that was nowhere enters its next stage (Receive, Pairing).    *)
(***************************************************************************)
LEMMA EnterKeeps ==
    ASSUME CallsInOrder, NEW h \in Requests, at[h] \in {"idle", "pairing"},
           NEW next \in Path(Ask[h].op), next \in Stages,
           at' = [at EXCEPT ![h] = next],
           io' = [io EXCEPT ![h] = IF next = "reset" THEN "write" ELSE "read"],
           SetRun(ContextOf(h), Enter(Run(ContextOf(h)), h, next))
    PROVE  /\ OnPath' /\ InOrder' /\ Exclusive' /\ MigratesFirst'
           /\ mutex' \in [Contexts -> [holder : Handlers \cup {None}, queue : Seq(Handlers)]]
           /\ pipe' \in [Contexts -> Seq(Handlers)]
<1> DEFINE c == ContextOf(h)
           out == Enter(Run(c), h, next)
<1>1. /\ c \in Contexts /\ h \in Handlers /\ h # Migration /\ h # None
      /\ Migration \in Handlers /\ ContextOf(Migration) = "worker"
    BY RequestsAssumption DEF ContextOf, Contexts, Handlers
<1>2. /\ at \in [Handlers -> Stages \cup Ends \cup {"idle"}] /\ io \in [Handlers -> {"read", "write"}]
    BY DEF CallsInOrder, TypeOK
<1> HIDE DEF c
<1>3. /\ Run(c) \in RunRecords /\ Run(c).pipe = pipe[c] /\ Run(c).mutex = mutex[c]
      /\ pipe[c] \in Seq(Handlers) /\ Orderly(c, Run(c), at) /\ Len(pipe[c]) \in Nat
    BY <1>1, RunTyped DEF CallsInOrder, InOrder
<1>4. Absentee(Run(c), h)
    BY <1>1, <1>3 DEF Orderly, Absentee, Stages, Locked, MailboxStages
<1>5. /\ out \in RunRecords /\ Orderly(c, out, [at EXCEPT ![h] = next])
      /\ out.mutex.holder = mutex[c].holder \/ mutex[c].holder = None
      /\ Longer(pipe[c], out.pipe, {h})
    <2>1. ContextOf(h) = c
        BY DEF c
    <2> DEFINE run == Run(c)
    <2>2. run \in RunRecords /\ Orderly(c, run, at) /\ Absentee(run, h)
        BY <1>3, <1>4
    <2> HIDE DEF run
    <2>3. next \in Stages \cup Ends
        OBVIOUS
    <2>4. /\ Enter(run, h, next) \in RunRecords
          /\ Orderly(c, Enter(run, h, next), [at EXCEPT ![h] = next])
          /\ Enter(run, h, next).mutex.holder = run.mutex.holder \/ run.mutex.holder = None
          /\ Longer(run.pipe, Enter(run, h, next).pipe, {h})
        BY <1>1, <1>2, <2>1, <2>2, <2>3, EnterRun
    <2> QED
        BY <1>3, <2>4 DEF run
<1> HIDE DEF out
<1>6. /\ mutex' \in [Contexts -> [holder : Handlers \cup {None}, queue : Seq(Handlers)]]
      /\ pipe' \in [Contexts -> Seq(Handlers)]
      /\ mutex'[c] = out.mutex /\ pipe'[c] = out.pipe
      /\ \A d \in Contexts \ {c} : mutex'[d] = mutex[d] /\ pipe'[d] = pipe[d]
    BY <1>1, <1>5 DEF SetRun, RunRecords, TypeOK, CallsInOrder, c, out
<1>7. \A g \in Handlers \ {h} : at'[g] = at[g] /\ io'[g] = io[g]
    BY <1>2
<1>8. at'[h] = next /\ io'[h] = IF next = "reset" THEN "write" ELSE "read"
    BY <1>1, <1>2
<1>9. OnPath'
    BY <1>1, <1>7, <1>8 DEF OnPath, CallsInOrder, Handlers
<1>10. InOrder'
    <2>1. Run(c)' = out
        BY <1>5, <1>6 DEF Run, RunRecords
    <2>2. Orderly(c, Run(c), at)'
        BY <2>1, <1>5 DEF Orderly
    <2>3. ASSUME NEW d \in Contexts \ {c} PROVE Orderly(d, Run(d), at)'
        <3>1. Run(d)' = Run(d) /\ Orderly(d, Run(d), at) /\ Run(d) \in RunRecords
            BY <1>6, RunTyped DEF Run, InOrder, CallsInOrder
        <3>2. /\ Issued(Run(d)) \subseteq Handlers /\ Queued(Run(d)) \subseteq Handlers
              /\ Run(d).mutex.holder \in Handlers \cup {None}
            BY <3>1 DEF Issued, Queued, RunRecords
        <3>3. \A g \in Handlers : ContextOf(g) = d => at'[g] = at[g]
            BY <1>7 DEF c
        <3> QED
            BY <3>1, <3>2, <3>3 DEF Orderly
    <2> QED
        BY <2>2, <2>3 DEF InOrder
<1>11. Exclusive'
    <2>1. ASSUME NEW g \in Handlers, io'[g] = "write"
          PROVE  /\ at'[g] \in Updates \cup {"reset"}
                 /\ at'[g] \in Locked => mutex'[ContextOf(g)].holder = g
        <3>1. CASE g = h
            BY <1>8, <2>1, <3>1 DEF Locked
        <3>2. CASE g # h
            <4>1. ContextOf(g) \in Contexts /\ g # None
                BY RequestsAssumption DEF ContextOf, Contexts
            <4>2. at'[g] = at[g] /\ io[g] = "write"
                BY <1>7, <2>1, <3>2
            <4>3. /\ at[g] \in Updates \cup {"reset"}
                  /\ at[g] \in Locked => mutex[ContextOf(g)].holder = g
                BY <4>2 DEF Exclusive, CallsInOrder
            <4>4. CASE ContextOf(g) = c
                BY <1>5, <1>6, <4>1, <4>2, <4>3, <4>4
            <4>5. CASE ContextOf(g) # c
                BY <1>6, <4>1, <4>2, <4>3, <4>5
            <4> QED
                BY <4>4, <4>5
        <3> QED
            BY <3>1, <3>2
    <2> QED
        BY <2>1 DEF Exclusive
<1>12. MigratesFirst'
    <2> SUFFICES ASSUME at'[Migration] = "migrate" PROVE MigratesFirst'
        BY DEF MigratesFirst
    <2> DEFINE p == pipe["worker"]
    <2>1. at[Migration] = "migrate" /\ io'[Migration] = io[Migration]
        BY <1>1, <1>7
    <2>2. PICK k \in 1 .. Len(p) :
              /\ p[k] = Migration /\ \A j \in 1 .. k - 1 : Yet(p[j])
              /\ io[Migration] = "read" => k = 1 /\ \A j \in 1 .. Len(p) : Yet(p[j])
        BY <2>1 DEF MigratesFirst, CallsInOrder
    <2>3. p \in Seq(Handlers) /\ Len(p) \in Nat
        BY DEF CallsInOrder, TypeOK, Contexts
    <2>4. \A g \in Handlers : Yet(g) \/ g = h => Yet(g)'
        BY <1>7, <1>8 DEF Yet
    <2>5. Longer(p, p', {h}) /\ Len(p') \in Nat
        <3>1. CASE c = "worker"
            BY <1>5, <1>6, <3>1
        <3>2. CASE c # "worker"
            BY <1>6, <2>3, <3>2 DEF Longer, Contexts
        <3>3. p' \in Seq(Handlers)
            BY <1>6 DEF Contexts
        <3> QED
            BY <3>1, <3>2, <3>3
    <2>6. k \in 1 .. Len(p') /\ p'[k] = Migration
        BY <2>2, <2>3, <2>5 DEF Longer
    <2>7. \A j \in 1 .. k - 1 : Yet(p[j])'
        BY <2>2, <2>3, <2>4, <2>5 DEF Longer
    <2>8. ASSUME io[Migration] = "read", NEW j \in 1 .. Len(p') PROVE Yet(p[j])'
        <3>1. CASE j \in 1 .. Len(p)
            BY <2>2, <2>3, <2>4, <2>5, <2>8, <3>1 DEF Longer
        <3>2. CASE j \notin 1 .. Len(p)
            <4>1. j \in Len(p) + 1 .. Len(p')
                BY <2>3, <2>5, <3>2
            <4>2. p'[j] = h
                BY <4>1, <2>5 DEF Longer
            <4> QED
                BY <1>1, <4>2, <2>4
        <3> QED
            BY <3>1, <3>2
    <2> QED
        BY <2>1, <2>2, <2>6, <2>7, <2>8 DEF MigratesFirst
<1> QED
    BY <1>6, <1>9, <1>10, <1>11, <1>12

\* The queues and the state of the handlers are typed after a stage.
QueuesTyped ==
    /\ at \in [Handlers -> Stages \cup Ends \cup {"idle"}]
    /\ io \in [Handlers -> {"read", "write"}]
    /\ seen \in [Handlers -> StoreRecords]
    /\ mutex \in [Contexts -> [holder : Handlers \cup {None}, queue : Seq(Handlers)]]
    /\ pipe \in [Contexts -> Seq(Handlers)]

LEMMA ProceedTyped ==
    ASSUME CallsInOrder, NEW c \in Contexts, pipe[c] # <<>>,
           NEW next \in Stages \cup Ends, Proceed(c, next)
    PROVE  QueuesTyped'
<1>1. /\ mutex' \in [Contexts -> [holder : Handlers \cup {None}, queue : Seq(Handlers)]]
      /\ pipe' \in [Contexts -> Seq(Handlers)]
    BY ProceedOrder DEF CallsInOrder
<1>2. /\ at' \in [Handlers -> Stages \cup Ends \cup {"idle"}]
      /\ io' \in [Handlers -> {"read", "write"}]
      /\ seen' \in [Handlers -> StoreRecords]
    BY StartAssumption DEF CallsInOrder, TypeOK, Proceed
<1> QED
    BY <1>1, <1>2 DEF QueuesTyped

\* The head of a pipe, where it is and what it asks for.
LEMMA HeadOfPipe ==
    ASSUME CallsInOrder, NEW c \in Contexts, pipe[c] # <<>>
    PROVE  LET h == Head(pipe[c])
           IN  /\ h \in Handlers /\ h = pipe[c][1] /\ ContextOf(h) = c
               /\ at[h] \in Stages \ {"pairing"}
               /\ h = Migration => at[h] = "migrate"
               /\ h # Migration => h \in Requests /\ at[h] \in Path(Ask[h].op) /\ Ask[h].op \in Ops
<1> DEFINE h == Head(pipe[c])
<1>1. /\ Run(c) \in RunRecords /\ Run(c).pipe = pipe[c] /\ pipe[c] \in Seq(Handlers)
      /\ Orderly(c, Run(c), at)
    BY RunTyped DEF CallsInOrder, InOrder
<1>2. h \in Issued(Run(c)) /\ h \in Handlers
    BY <1>1, ServedRun
<1>3. ContextOf(h) = c /\ at[h] \in Stages \ {"pairing"}
    BY <1>1, <1>2 DEF Orderly
<1>4. h = pipe[c][1]
    BY <1>1, Tailed
<1>5. Ends \cap Stages = {} /\ "idle" \notin Stages
    BY DEF Ends, Stages, MailboxStages, Locked
<1> HIDE DEF h
<1>6. h = Migration => at[h] = "migrate"
    BY <1>3, <1>5 DEF CallsInOrder, OnPath
<1>7. h # Migration => h \in Requests /\ at[h] \in Path(Ask[h].op) /\ Ask[h].op \in Ops
    BY <1>2, <1>3, <1>5, RequestsAssumption DEF CallsInOrder, OnPath, Handlers
<1> QED
    BY <1>2, <1>3, <1>4, <1>6, <1>7 DEF h

\* What the stage of the head tells of what it asks for.
Asks(stage, op) ==
    /\ stage = "find" => op = "remove"
    /\ stage = "findMessages" => op = "repair"
    /\ stage = "look" => op \in {"connect", "repair"}
    /\ stage = "add" => op \in {"store", "connect", "repair"}
    /\ stage = "remove" => op \in {"remove", "disconnect", "repair"}
    /\ stage = "touch" => op = "sync"
    /\ stage = "refresh" => op \in {"store", "connect", "remove", "disconnect", "repair"}
    /\ stage = "pref" => op \in {"enable", "disable"}
    /\ stage = "preview" => op = "disable"
    /\ stage = "ban" => op \in {"ban", "disable"}
    /\ stage = "unban" => op \in {"unban", "enable"}
    /\ stage \in {"level", "timeout", "reset"} => op = stage

LEMMA PathAsks == \A op \in Ops : \A stage \in Path(op) : Asks(stage, op) /\ stage # "migrate"
    BY DEF Path, Ops, Asks

LEMMA HeadAsks ==
    ASSUME CallsInOrder, NEW c \in Contexts, pipe[c] # <<>>
    PROVE  LET h == Head(pipe[c])
           IN  /\ at[h] = "migrate" => h = Migration
               /\ at[h] # "migrate" => h \in Requests /\ Asks(at[h], Ask[h].op)
    BY HeadOfPipe, PathAsks

LEMMA ReceiveInOrder ==
    ASSUME CallsInOrder, NEW h \in Requests, Receive(h)
    PROVE  CallsInOrder'
<1>1. Ask[h].op \in Ops /\ h \in Handlers
    BY RequestsAssumption DEF Handlers
<1>2. First(Ask[h].op) \in Path(Ask[h].op) /\ First(Ask[h].op) \in Stages
    BY <1>1 DEF First, Path, Ops, Stages, MailboxStages, Locked
<1>3. /\ OnPath' /\ InOrder' /\ Exclusive' /\ MigratesFirst'
      /\ mutex' \in [Contexts -> [holder : Handlers \cup {None}, queue : Seq(Handlers)]]
      /\ pipe' \in [Contexts -> Seq(Handlers)]
    BY <1>2, EnterKeeps DEF Receive
<1>4. target' \in [Handlers -> Ids \cup {None}]
    BY <1>1, ArgumentsAssumption DEF Receive, Arg, CallsInOrder, TypeOK
<1>5. TypeOK'
    BY <1>2, <1>3, <1>4 DEF Receive, CallsInOrder, TypeOK
<1> QED
    BY <1>3, <1>5 DEF CallsInOrder

\* An answer of the tab: the request goes on, or ends where it was.
LEMMA PairingInOrder ==
    ASSUME CallsInOrder, NEW h \in Requests, Pairing(h)
    PROVE  CallsInOrder'
<1>1. /\ Ask[h].op \in {"connect", "repair"} /\ h \in Handlers /\ ContextOf(h) = "worker"
      /\ "worker" \in Contexts
    <2>1. at[h] \in Path(Ask[h].op) /\ Ask[h].op \in Ops
        BY RequestsAssumption DEF Pairing, CallsInOrder, OnPath, Ends
    <2> QED
        BY <2>1, RequestsAssumption DEF Pairing, Path, Ops, ContextOf, Handlers, Contexts
<1>2. io[h] = "read"
    BY <1>1 DEF Pairing, CallsInOrder, Exclusive, Updates, Locked, TypeOK
<1>3. CASE at' = [at EXCEPT ![h] = "look"] /\ SetRun("worker", Enter(Run("worker"), h, "look"))
    <2>1. "look" \in Path(Ask[h].op) /\ "look" \in Stages
        BY <1>1 DEF Path, Stages, MailboxStages
    <2>2. io' = [io EXCEPT ![h] = IF "look" = "reset" THEN "write" ELSE "read"]
        BY <1>1, <1>2 DEF Pairing, CallsInOrder, TypeOK
    <2>3. /\ OnPath' /\ InOrder' /\ Exclusive' /\ MigratesFirst'
          /\ mutex' \in [Contexts -> [holder : Handlers \cup {None}, queue : Seq(Handlers)]]
          /\ pipe' \in [Contexts -> Seq(Handlers)]
        <3>1. at[h] \in {"idle", "pairing"}
            BY DEF Pairing
        <3>2. SetRun(ContextOf(h), Enter(Run(ContextOf(h)), h, "look"))
            BY <1>1, <1>3
        <3>3. at' = [at EXCEPT ![h] = "look"]
            BY <1>3
        <3> QED
            BY <2>1, <2>2, <3>1, <3>2, <3>3, EnterKeeps
    <2>4. TypeOK'
        BY <1>3, <2>1, <2>2, <2>3 DEF Pairing, CallsInOrder, TypeOK
    <2> QED
        BY <2>3, <2>4 DEF CallsInOrder
<1>4. CASE at' = [at EXCEPT ![h] = "unpaired"] /\ UNCHANGED <<mutex, pipe>>
    <2>1. TypeOK'
        BY <1>4 DEF Pairing, CallsInOrder, TypeOK, Ends
    <2>2. /\ at'[h] = "unpaired" /\ h # Migration
          /\ \A g \in Handlers \ {h} : at'[g] = at[g]
        BY <1>1, <1>4, RequestsAssumption DEF CallsInOrder, TypeOK
    <2>3. OnPath'
        BY <2>2 DEF CallsInOrder, OnPath, Handlers, Ends
    <2>4. \A c \in Contexts : h \notin Issued(Run(c)) \cup Queued(Run(c)) \cup {mutex[c].holder}
        BY <1>1, RequestsAssumption DEF Pairing, CallsInOrder, InOrder, Orderly, Locked, Run
    <2>5. InOrder'
        <3>1. ASSUME NEW c \in Contexts PROVE Orderly(c, Run(c), at)'
            <4>1. Run(c)' = Run(c) /\ Orderly(c, Run(c), at) /\ Run(c) \in RunRecords
                BY <1>4, RunTyped DEF Run, InOrder, CallsInOrder
            <4>2. /\ Issued(Run(c)) \subseteq Handlers \ {h} /\ Queued(Run(c)) \subseteq Handlers \ {h}
                  /\ Run(c).mutex.holder \in (Handlers \cup {None}) \ {h}
                BY <2>4, <4>1 DEF Issued, Queued, RunRecords, Run
            <4> QED
                BY <2>2, <4>1, <4>2 DEF Orderly
        <3> QED
            BY <3>1 DEF InOrder
    <2>6. Exclusive' /\ MigratesFirst'
        <3>1. UNCHANGED <<io, mutex, pipe>>
            BY <1>4 DEF Pairing
        <3>2. \A g \in Handlers : Yet(g) => Yet(g)'
            BY <1>2, <2>2, <3>1 DEF Yet
        <3>3. Exclusive'
            BY <1>2, <2>2, <3>1 DEF CallsInOrder, Exclusive
        <3>4. \A i \in 1 .. Len(pipe["worker"]) : pipe["worker"][i] \in Handlers
            BY DEF CallsInOrder, TypeOK, Contexts
        <3>5. MigratesFirst'
            BY <2>2, <3>1, <3>2, <3>4 DEF CallsInOrder, MigratesFirst, Handlers
        <3> QED
            BY <3>3, <3>5
    <2> QED
        BY <2>1, <2>3, <2>5, <2>6 DEF CallsInOrder
<1> QED
    BY <1>3, <1>4 DEF Pairing

\* The stage that follows lies on the path of the request.
LEMMA ReadFailsInOrder ==
    ASSUME CallsInOrder, NEW c \in Contexts, ReadFails(c)
    PROVE  CallsInOrder'
<1>1. pipe[c] # <<>> /\ Proceed(c, "error") /\ "error" \in Ends /\ "error" \in Stages \cup Ends
    BY DEF ReadFails, Ends
<1>2. OnPath' /\ InOrder' /\ Exclusive' /\ MigratesFirst'
    BY <1>1, ProceedKeeps
<1>3. QueuesTyped'
    BY <1>1, ProceedTyped
<1> QED
    BY <1>2, <1>3 DEF ReadFails, CallsInOrder, TypeOK, QueuesTyped

LEMMA LookInOrder ==
    ASSUME CallsInOrder, NEW c \in Contexts, Look(c)
    PROVE  CallsInOrder'
<1> DEFINE h == Head(pipe[c])
           d == Visible(disk)
<1>1. pipe[c] # <<>>
    BY DEF Look
<1>2. /\ at[h] = "migrate" => h = Migration
      /\ at[h] # "migrate" => h \in Requests /\ Asks(at[h], Ask[h].op)
      /\ h = Migration => at[h] = "migrate"
      /\ h \in Handlers
    BY <1>1, HeadAsks, HeadOfPipe
<1>3. \A m \in d.mailboxes : m.id \in Ids
    BY DEF CallsInOrder, TypeOK, StoreRecords, MailboxRecords, Visible
<1>4. IdsOf(d.mailboxes) \subseteq Ids
    BY <1>3 DEF IdsOf
<1>5. ASSUME NEW next \in Stages \cup Ends, Proceed(c, next),
             IF h = Migration THEN next \in Ends ELSE next \in Path(Ask[h].op) \cup Ends,
             target' \in [Handlers -> Ids \cup {None}], popupBoxes' \subseteq Ids
      PROVE  CallsInOrder'
    <2>1. OnPath' /\ InOrder' /\ Exclusive' /\ MigratesFirst'
        BY <1>1, <1>5, ProceedKeeps
    <2>2. QueuesTyped'
        BY <1>1, <1>5, ProceedTyped
    <2> QED
        BY <1>5, <2>1, <2>2 DEF Look, CallsInOrder, TypeOK, QueuesTyped
<1>6. target \in [Handlers -> Ids \cup {None}] /\ popupBoxes \subseteq Ids
    BY DEF CallsInOrder, TypeOK
<1>7. /\ {"remove", "add", "ban", "pairing"} \subseteq Stages
      /\ {"ok", "exists"} \subseteq Ends
    BY DEF Stages, MailboxStages, Locked, Ends
<1>8. CASE at[h] = "find" /\ Proceed(c, "remove") /\ UNCHANGED <<target, popupBoxes>>
    <2>1. "remove" \in Path(Ask[h].op) /\ h # Migration
        BY <1>2, <1>8, RequestsAssumption DEF Asks, Path
    <2> QED
        BY <1>5, <1>6, <1>7, <1>8, <2>1
<1>9. CASE at[h] = "findMessages" /\ Proceed(c, "pairing") /\ UNCHANGED <<target, popupBoxes>>
    <2>1. "pairing" \in Path(Ask[h].op) /\ h # Migration
        BY <1>2, <1>9, RequestsAssumption DEF Asks, Path
    <2> QED
        BY <1>5, <1>6, <1>7, <1>9, <2>1
<1>10. ASSUME at[h] = "findMessages", Proceed(c, "remove"), UNCHANGED popupBoxes,
              NEW m \in d.mailboxes, target' = [target EXCEPT ![h] = m.id]
       PROVE  CallsInOrder'
    <2>1. "remove" \in Path(Ask[h].op) /\ h # Migration
        BY <1>2, <1>10, RequestsAssumption DEF Asks, Path
    <2>2. target' \in [Handlers -> Ids \cup {None}]
        BY <1>3, <1>6, <1>10
    <2> QED
        BY <1>5, <1>6, <1>7, <1>10, <2>1, <2>2
<1>11. ASSUME at[h] = "look", NEW next \in {"exists", "add"}, Proceed(c, next),
              UNCHANGED <<target, popupBoxes>>
       PROVE  CallsInOrder'
    <2>1. next \in Path(Ask[h].op) \cup Ends /\ h # Migration /\ next \in Stages \cup Ends
        BY <1>2, <1>7, <1>11, RequestsAssumption DEF Asks, Path
    <2> QED
        BY <1>5, <1>6, <1>11, <2>1
<1>12. ASSUME at[h] = "preview", NEW next \in {"ok", "ban"}, Proceed(c, next),
              UNCHANGED <<target, popupBoxes>>
       PROVE  CallsInOrder'
    <2>1. next \in Path(Ask[h].op) \cup Ends /\ h # Migration /\ next \in Stages \cup Ends
        BY <1>2, <1>7, <1>12, RequestsAssumption DEF Asks, Path
    <2> QED
        BY <1>5, <1>6, <1>12, <2>1
<1>13. CASE /\ at[h] = "refresh" /\ Proceed(c, "ok") /\ UNCHANGED target
            /\ popupBoxes' = IdsOf(d.mailboxes)
    BY <1>4, <1>5, <1>6, <1>7, <1>13
<1>14. CASE at[h] = "migrate" /\ Proceed(c, "ok") /\ UNCHANGED <<target, popupBoxes>>
    BY <1>5, <1>6, <1>7, <1>14
<1> QED
    BY <1>8, <1>9, <1>10, <1>11, <1>12, <1>13, <1>14 DEF Look

\* A read moves its handler to the end of the pipe.
LEMMA ReadInOrder ==
    ASSUME CallsInOrder, NEW c \in Contexts, Read(c)
    PROVE  CallsInOrder'
<1> DEFINE h == Head(pipe[c])
           p == pipe[c]
           q == Append(Tail(p), h)
<1>1. /\ h \in Handlers /\ h = p[1] /\ ContextOf(h) = c /\ at[h] \in Stages \ {"pairing"}
      /\ h = Migration => at[h] = "migrate"
    BY HeadOfPipe DEF Read
<1>2. /\ p \in Seq(Handlers) /\ p # <<>> /\ Orderly(c, Run(c), at)
      /\ Run(c) \in RunRecords /\ Run(c).pipe = p /\ Run(c).mutex = mutex[c]
    BY RunTyped DEF CallsInOrder, InOrder, Read
<1>3. /\ Tail(p) \in Seq(Handlers) /\ Len(p) \in Nat \ {0} /\ Len(Tail(p)) = Len(p) - 1
      /\ \A i \in 1 .. Len(p) - 1 : Tail(p)[i] = p[i + 1]
    BY <1>2, Tailed
<1>4. /\ q \in Seq(Handlers) /\ Len(q) = Len(p)
      /\ \A i \in 1 .. Len(p) - 1 : q[i] = p[i + 1]
      /\ q[Len(p)] = h
    BY <1>1, <1>3, Appended
<1>5. /\ io[h] = "read" /\ at[h] \in Updates
      /\ io' = [io EXCEPT ![h] = "write"]
      /\ seen' = [seen EXCEPT ![h] = IF at[h] = "migrate" THEN disk ELSE Visible(disk)]
      /\ pipe' = [pipe EXCEPT ![c] = q]
      /\ UNCHANGED <<disk, at, target, mutex, popupBoxes, crashes>>
    BY DEF Read
<1> HIDE DEF h, q
<1>6. Visible(disk) \in StoreRecords
    BY DEF CallsInOrder, TypeOK, StoreRecords, Visible
<1>7. TypeOK'
    BY <1>1, <1>4, <1>5, <1>6 DEF CallsInOrder, TypeOK
<1>8. OnPath'
    BY <1>5 DEF CallsInOrder, OnPath
<1>9. pipe'[c] = q /\ \A d \in Contexts \ {c} : pipe'[d] = pipe[d]
    BY <1>5 DEF CallsInOrder, TypeOK
<1>10. Distinct(p)
    BY <1>2 DEF Orderly
<1>11. InOrder'
    <2>1. ASSUME NEW d \in Contexts PROVE Orderly(d, Run(d), at)'
        <3>1. Orderly(d, Run(d), at) /\ Run(d)'.mutex = Run(d).mutex /\ Run(d)'.pipe = pipe'[d]
            BY <1>5, RunTyped DEF CallsInOrder, InOrder, Run
        <3>2. CASE d # c
            <4>1. Run(d)' = Run(d)
                BY <1>5, <1>9, <3>2 DEF Run
            <4> QED
                BY <1>5, <3>1, <4>1 DEF Orderly
        <3>3. CASE d = c
            <4>1. Issued(Run(c)') \subseteq Issued(Run(c))
                <5>1. ASSUME NEW i \in 1 .. Len(q) PROVE q[i] \in Issued(Run(c))
                    <6>1. CASE i = Len(p)
                        BY <1>1, <1>2, <1>3, <1>4, <6>1 DEF Issued
                    <6>2. CASE i # Len(p)
                        <7>1. i + 1 \in 1 .. Len(p) /\ q[i] = p[i + 1]
                            BY <1>3, <1>4, <6>2
                        <7> QED
                            BY <7>1, <1>2 DEF Issued
                    <6> QED
                        BY <6>1, <6>2
                <5> QED
                    BY <5>1, <1>9, <3>1, <3>3 DEF Issued
            <4>2. Distinct(q)
                BY <1>1, <1>3, <1>4, <1>10 DEF Distinct
            <4>3. Queued(Run(c)') = Queued(Run(c))
                BY <3>1, <3>3 DEF Queued
            <4> QED
                BY <1>5, <1>9, <3>1, <3>3, <4>1, <4>2, <4>3 DEF Orderly
        <3> QED
            BY <3>2, <3>3
    <2> QED
        BY <2>1 DEF InOrder
<1>12. Exclusive'
    <2>1. at[h] \in Locked => mutex[c].holder = h
        <3>1. h \in Issued(Run(c))
            BY <1>1, <1>2, <1>3 DEF Issued
        <3> QED
            BY <1>2, <3>1 DEF Orderly
    <2> QED
        BY <1>1, <1>5, <2>1 DEF CallsInOrder, Exclusive, TypeOK
<1>13. MigratesFirst'
    <2> SUFFICES ASSUME at[Migration] = "migrate" PROVE MigratesFirst'
        BY <1>5 DEF MigratesFirst
    <2> DEFINE w == pipe["worker"]
    <2>1. PICK k \in 1 .. Len(w) :
              /\ w[k] = Migration /\ \A j \in 1 .. k - 1 : Yet(w[j])
              /\ io[Migration] = "read" => k = 1 /\ \A j \in 1 .. Len(w) : Yet(w[j])
        BY DEF MigratesFirst, CallsInOrder
    <2>2. /\ Migration \in Handlers /\ ContextOf(Migration) = "worker"
          /\ io \in [Handlers -> {"read", "write"}]
        BY DEF Handlers, ContextOf, CallsInOrder, TypeOK
    <2>3. \A g \in Handlers \ {h} : io'[g] = io[g] /\ (Yet(g) => Yet(g)')
        BY <1>5, <2>2 DEF Yet
    <2>4. CASE c # "worker"
        <3>1. w' = w
            BY <1>9, <2>4 DEF Contexts
        <3>2. \A i \in 1 .. Len(w) : w[i] \in Handlers \ {h}
            <4>1. \A i \in 1 .. Len(w) : w[i] \in Issued(Run("worker"))
                BY DEF Issued, Run
            <4>2. w \in Seq(Handlers)
                BY DEF CallsInOrder, TypeOK, Contexts
            <4>3. \A g \in Issued(Run("worker")) : ContextOf(g) = "worker"
                BY DEF CallsInOrder, InOrder, Orderly, Contexts
            <4> QED
                BY <4>1, <4>2, <4>3, <1>1, <2>4
        <3>3. Migration # h
            BY <1>1, <2>2, <2>4
        <3> QED
            BY <3>1, <3>2, <3>3, <2>1, <2>2, <2>3 DEF MigratesFirst
    <2>5. CASE c = "worker" /\ h = Migration
        <3>1. k = 1 /\ \A j \in 1 .. Len(w) : Yet(w[j])
            BY <1>5, <2>1, <2>5
        <3>2. \A i \in 1 .. Len(p) - 1 : q[i] \in Handlers \ {h} /\ Yet(q[i])
            <4>1. ASSUME NEW i \in 1 .. Len(p) - 1 PROVE q[i] \in Handlers \ {h} /\ Yet(q[i])
                <5>1. i + 1 \in 1 .. Len(p) /\ i + 1 # 1 /\ 1 \in 1 .. Len(p) /\ q[i] = p[i + 1]
                    BY <1>3, <1>4
                <5>2. p[i + 1] # h
                    BY <1>1, <1>10, <5>1 DEF Distinct
                <5>3. p[i + 1] \in Handlers
                    BY <1>2, <5>1
                <5> QED
                    BY <2>5, <3>1, <5>1, <5>2, <5>3
            <4> QED
                BY <4>1
        <3>3. w' = q /\ Len(q) \in 1 .. Len(q) /\ q[Len(q)] = Migration
            BY <1>3, <1>4, <1>9, <2>5
        <3>4. ASSUME NEW j \in 1 .. Len(q) - 1 PROVE Yet(w[j])'
            <4>1. w'[j] = q[j] /\ q[j] \in Handlers \ {h} /\ Yet(q[j])
                BY <1>3, <1>4, <3>2, <3>3
            <4>2. io'[w'[j]] = io[q[j]] /\ at'[w'[j]] = at[q[j]]
                BY <1>5, <2>3, <4>1
            <4> QED
                BY <4>1, <4>2 DEF Yet
        <3>5. io'[Migration] # "read"
            BY <1>5, <2>2, <2>5
        <3>6. /\ Len(q) \in 1 .. Len(w') /\ w'[Len(q)] = Migration
              /\ \A j \in 1 .. Len(q) - 1 : Yet(w[j])'
            BY <3>3, <3>4
        <3> QED
            BY <3>5, <3>6 DEF MigratesFirst
    <2>6. CASE c = "worker" /\ h # Migration
        <3>1. k # 1 /\ io[Migration] # "read"
            BY <1>1, <2>1, <2>6
        <3>2. w' = q /\ k - 1 \in 1 .. Len(q) /\ q[k - 1] = Migration
            BY <1>3, <1>4, <1>9, <2>1, <2>6, <3>1
        <3>3. ASSUME NEW j \in 1 .. k - 2 PROVE Yet(w[j])'
            <4>1. /\ j \in 1 .. Len(p) - 1 /\ j + 1 \in 1 .. k - 1 /\ j + 1 \in 1 .. Len(p)
                  /\ j + 1 # 1 /\ 1 \in 1 .. Len(p)
                BY <1>3, <2>1, <2>6
            <4>2. q[j] = p[j + 1] /\ Yet(p[j + 1]) /\ p[j + 1] # h /\ p[j + 1] \in Handlers
                BY <1>1, <1>2, <1>4, <1>10, <2>1, <2>6, <4>1 DEF Distinct
            <4>3. w'[j] = q[j] /\ io'[w'[j]] = io[q[j]] /\ at'[w'[j]] = at[q[j]]
                BY <1>5, <2>3, <3>2, <4>2
            <4> QED
                BY <4>2, <4>3 DEF Yet
        <3>4. io'[Migration] # "read"
            BY <2>2, <2>3, <2>6, <3>1
        <3>5. k - 1 \in 1 .. Len(w') /\ w'[k - 1] = Migration /\ k - 1 - 1 = k - 2
            BY <3>2, <2>1
        <3> QED
            BY <3>3, <3>4, <3>5 DEF MigratesFirst
    <2> QED
        BY <2>4, <2>5, <2>6
<1> QED
    BY <1>7, <1>8, <1>11, <1>12, <1>13 DEF CallsInOrder

\* What a write leaves is a store.
LEMMA WriteTyped ==
    ASSUME CallsInOrder, NEW c \in Contexts, Write(c)
    PROVE  disk' \in StoreRecords
<1> DEFINE h == Head(pipe[c])
<1>1. /\ pipe[c] # <<>> /\ io[h] = "write"
      /\ disk' = CASE at[h] \in {"add", "remove", "touch", "migrate"} ->
                         [disk EXCEPT !.mailboxes = WithMailbox(h, seen[h].mailboxes)]
                   [] at[h] = "pref" ->
                         [disk EXCEPT !.prefs = [seen[h].prefs EXCEPT ![Arg(h)] =
                              IF Ask[h].op = "enable" THEN "on" ELSE "off"]]
                   [] OTHER -> [disk EXCEPT !.settings = WithSettings(h, seen[h].settings)]
    BY DEF Write
<1>2. /\ h \in Handlers
      /\ at[h] = "migrate" => h = Migration
      /\ at[h] # "migrate" => h \in Requests /\ Asks(at[h], Ask[h].op)
    BY <1>1, HeadOfPipe, HeadAsks
<1>3. at[h] \in Updates \cup {"reset"}
    BY <1>1, <1>2 DEF CallsInOrder, Exclusive
<1> HIDE DEF h
<1>4. disk \in StoreRecords /\ seen[h] \in StoreRecords
    BY <1>2 DEF CallsInOrder, TypeOK
<1>5. CASE at[h] \in {"add", "remove", "touch", "migrate"}
    <2> DEFINE ms == seen[h].mailboxes
    <2>1. ms \subseteq MailboxRecords
        BY <1>4 DEF StoreRecords
    <2>2. CASE at[h] = "add"
        <3>1. h \in Ids /\ AccountOf(h) \in Accounts
            BY <1>2, <2>2, RequestsAssumption, ArgumentsAssumption DEF AccountOf, Arg, Accounts
        <3>2. [id |-> h, account |-> AccountOf(h), synced |-> FALSE] \in MailboxRecords
            BY <3>1 DEF MailboxRecords
        <3> QED
            BY <1>1, <1>4, <2>1, <2>2, <3>2 DEF WithMailbox, StoreRecords
    <2>3. CASE at[h] = "touch"
        <3>1. ASSUME NEW m \in ms
              PROVE (IF m.id = target[h] THEN [m EXCEPT !.synced = TRUE] ELSE m) \in MailboxRecords
            BY <2>1 DEF MailboxRecords
        <3>2. WithMailbox(h, ms) = {IF m.id = target[h] THEN [m EXCEPT !.synced = TRUE] ELSE m : m \in ms}
            BY <2>3 DEF WithMailbox
        <3>3. WithMailbox(h, ms) \subseteq MailboxRecords
            BY <3>1, <3>2
        <3> QED
            BY <1>1, <1>4, <1>5, <3>3 DEF StoreRecords
    <2>4. CASE at[h] \in {"remove", "migrate"}
        <3>1. WithMailbox(h, ms) \subseteq MailboxRecords
            BY <2>1, <2>4 DEF WithMailbox
        <3> QED
            BY <1>1, <1>4, <1>5, <3>1 DEF StoreRecords
    <2> QED
        BY <1>5, <2>2, <2>3, <2>4
<1>6. CASE at[h] = "pref"
    BY <1>1, <1>2, <1>4, <1>6, ArgumentsAssumption DEF StoreRecords, Asks, Arg
<1>7. CASE at[h] \notin {"add", "remove", "touch", "migrate", "pref"}
    <2> DEFINE s == seen[h].settings
    <2>1. s \in SettingsRecords /\ Default \in SettingsRecords
        BY <1>4, StartAssumption DEF StoreRecords
    <2>2. at[h] \in {"ban", "unban", "level", "timeout", "reset"}
        BY <1>3, <1>7 DEF Updates, Locked
    <2>3. h \in Requests /\ Asks(at[h], Ask[h].op)
        BY <1>2, <1>7
    <2>4. /\ at[h] \in {"ban", "unban"} => Arg(h) \in Domains
          /\ at[h] \in {"level", "timeout"} => Arg(h) \in Values
        <3>1. at[h] = "ban" => Ask[h].op \in {"ban", "disable"}
            BY <2>3 DEF Asks
        <3>2. at[h] = "unban" => Ask[h].op \in {"unban", "enable"}
            BY <2>3 DEF Asks
        <3>3. at[h] \in {"level", "timeout"} => Ask[h].op = at[h]
            BY <2>3 DEF Asks
        <3> QED
            BY <2>3, <3>1, <3>2, <3>3, ArgumentsAssumption DEF Arg
    <2> HIDE DEF s
    <2>5. WithSettings(h, s) \in SettingsRecords
        BY <2>1, <2>2, <2>4 DEF WithSettings, Banned, SettingsRecords
    <2> QED
        BY <1>1, <1>4, <1>7, <2>5 DEF StoreRecords, s
<1> QED
    BY <1>5, <1>6, <1>7

LEMMA WriteInOrder ==
    ASSUME CallsInOrder, NEW c \in Contexts, Write(c)
    PROVE  CallsInOrder'
<1> DEFINE h == Head(pipe[c])
<1>1. pipe[c] # <<>> /\ io[h] = "write" /\ Proceed(c, After(h))
    BY DEF Write
<1>2. /\ h \in Handlers
      /\ at[h] = "migrate" => h = Migration
      /\ h = Migration => at[h] = "migrate"
      /\ at[h] # "migrate" => h \in Requests /\ Asks(at[h], Ask[h].op)
    BY <1>1, HeadOfPipe, HeadAsks
<1>3. /\ After(h) \in Stages \cup Ends
      /\ IF h = Migration THEN After(h) \in Ends ELSE After(h) \in Path(Ask[h].op) \cup Ends
    BY <1>2 DEF After, Asks, Path, Stages, MailboxStages, Locked, Ends
<1>4. OnPath' /\ InOrder' /\ Exclusive' /\ MigratesFirst'
    BY <1>1, <1>3, ProceedKeeps
<1>5. QueuesTyped'
    BY <1>1, <1>3, ProceedTyped
<1>6. disk' \in StoreRecords
    BY WriteTyped
<1> QED
    BY <1>4, <1>5, <1>6 DEF Write, CallsInOrder, TypeOK, QueuesTyped

\* A new worker has only its migration; the options page lives on.
LEMMA CrashInOrder ==
    ASSUME CallsInOrder, Crash
    PROVE  CallsInOrder'
<1>1. /\ at \in [Handlers -> Stages \cup Ends \cup {"idle"}] /\ Migration \in Handlers
      /\ io \in [Handlers -> {"read", "write"}] /\ seen \in [Handlers -> StoreRecords]
      /\ ContextOf(Migration) = "worker" /\ Contexts = {"worker", "options"}
    BY DEF CallsInOrder, TypeOK, Handlers, ContextOf, Contexts
<1>2. /\ \A g \in Handlers \ {Migration} :
            at'[g] = IF ContextOf(g) = "worker" /\ at[g] \in Stages THEN "lost" ELSE at[g]
      /\ at'[Migration] = "migrate" /\ io'[Migration] = "read"
      /\ \A g \in Handlers : io'[g] = IF ContextOf(g) = "worker" THEN "read" ELSE io[g]
      /\ \A g \in Handlers : seen'[g] = IF ContextOf(g) = "worker" THEN Start ELSE seen[g]
    BY <1>1 DEF Crash
<1>3. /\ at' \in [Handlers -> Stages \cup Ends \cup {"idle"}]
      /\ io' \in [Handlers -> {"read", "write"}] /\ seen' \in [Handlers -> StoreRecords]
    BY <1>1, StartAssumption DEF Crash, Stages, Ends
<1>4. /\ mutex' = [mutex EXCEPT !["worker"] = Free] /\ pipe' = [pipe EXCEPT !["worker"] = <<Migration>>]
      /\ disk' = disk /\ target' = target
    BY DEF Crash
<1>5. <<Migration>> \in Seq(Handlers) /\ Len(<<Migration>>) = 1 /\ <<Migration>>[1] = Migration
    BY <1>1
<1>6. Free \in [holder : Handlers \cup {None}, queue : Seq(Handlers)]
    BY DEF Free
<1>7. /\ pipe' \in [Contexts -> Seq(Handlers)]
      /\ mutex' \in [Contexts -> [holder : Handlers \cup {None}, queue : Seq(Handlers)]]
      /\ pipe'["worker"] = <<Migration>> /\ mutex'["worker"] = Free
      /\ pipe'["options"] = pipe["options"] /\ mutex'["options"] = mutex["options"]
    BY <1>1, <1>4, <1>5, <1>6 DEF CallsInOrder, TypeOK
<1>8. popupBoxes' \subseteq Ids /\ crashes' \in 0 .. MaxCrashes
    <2>1. \A m \in disk.mailboxes : m.id \in Ids
        BY DEF CallsInOrder, TypeOK, StoreRecords, MailboxRecords
    <2>2. popupBoxes' \subseteq Ids
        BY <2>1 DEF Crash, IdsOf
    <2>3. crashes' \in 0 .. MaxCrashes
        BY BoundsAssumption DEF Crash, CallsInOrder, TypeOK
    <2> QED
        BY <2>2, <2>3
<1>9. TypeOK'
    BY <1>3, <1>4, <1>7, <1>8 DEF CallsInOrder, TypeOK
<1>10. OnPath'
    <2>1. \A g \in Requests : g \in Handlers \ {Migration}
        BY RequestsAssumption DEF Handlers
    <2> QED
        BY <1>2, <2>1 DEF CallsInOrder, OnPath, Ends
<1>11. InOrder'
    <2>1. Orderly("worker", Run("worker"), at)'
        <3>1. Run("worker")' = [mutex |-> Free, pipe |-> <<Migration>>]
            BY <1>7 DEF Run
        <3>2. Issued(Run("worker")') = {Migration}
            <4> DEFINE run == Run("worker")'
            <4>1. run.pipe = <<Migration>>
                BY <3>1
            <4>2. Issued(run) = {run.pipe[i] : i \in 1 .. Len(run.pipe)}
                BY DEF Issued
            <4> HIDE DEF run
            <4>3. \A i : i \in 1 .. Len(run.pipe) <=> i = 1
                BY <4>1, <1>5
            <4>4. run.pipe[1] = Migration
                BY <4>1, <1>5
            <4>5. Issued(run) = {Migration}
                BY <4>2, <4>3, <4>4
            <4> QED
                BY <4>5 DEF run
        <3>3. Queued(Run("worker")') = {} /\ Run("worker")'.mutex.holder = None
            BY <3>1 DEF Queued, Free
        <3>4. Distinct(Run("worker")'.pipe) /\ Distinct(Run("worker")'.mutex.queue)
            BY <3>1, <1>5 DEF Distinct, Free
        <3>5. "migrate" \in Stages \ {"pairing"} /\ "migrate" \notin Locked
            BY DEF Stages, Locked
        <3> QED
            BY <1>1, <1>2, <3>1, <3>2, <3>3, <3>4, <3>5 DEF Orderly, Free
    <2>2. Orderly("options", Run("options"), at)'
        <3>1. Run("options")' = Run("options") /\ Orderly("options", Run("options"), at)
              /\ Run("options") \in RunRecords
            BY <1>1, <1>7, RunTyped DEF Run, CallsInOrder, InOrder
        <3>2. /\ Issued(Run("options")) \subseteq Handlers /\ Queued(Run("options")) \subseteq Handlers
              /\ Run("options").mutex.holder \in Handlers \cup {None}
            BY <3>1 DEF Issued, Queued, RunRecords
        <3>3. \A g \in Handlers : ContextOf(g) = "options" => at'[g] = at[g]
            BY <1>1, <1>2
        <3> QED
            BY <3>1, <3>2, <3>3 DEF Orderly
    <2> QED
        BY <1>1, <2>1, <2>2 DEF InOrder
<1>12. Exclusive'
    <2>1. ASSUME NEW g \in Handlers, io'[g] = "write"
          PROVE  /\ at'[g] \in Updates \cup {"reset"}
                 /\ at'[g] \in Locked => mutex'[ContextOf(g)].holder = g
        <3>1. ContextOf(g) = "options" /\ io[g] = "write"
            BY <1>2, <2>1 DEF ContextOf
        <3>2. g # Migration /\ at'[g] = at[g] /\ mutex'[ContextOf(g)] = mutex[ContextOf(g)]
            BY <1>1, <1>2, <1>7, <3>1
        <3> QED
            BY <3>1, <3>2 DEF CallsInOrder, Exclusive
    <2> QED
        BY <2>1 DEF Exclusive
<1>13. MigratesFirst'
    <2>1. Len(pipe'["worker"]) = 1 /\ pipe'["worker"][1] = Migration
        BY <1>5, <1>7
    <2>2. \A j \in 1 .. Len(pipe'["worker"]) : Yet(pipe["worker"][j])'
        BY <2>1, <1>2 DEF Yet
    <2> QED
        BY <2>1, <2>2 DEF MigratesFirst
<1> QED
    BY <1>9, <1>10, <1>11, <1>12, <1>13 DEF CallsInOrder

LEMMA InitInOrder ==
    ASSUME Init
    PROVE  CallsInOrder
<1>1. /\ Migration \in Handlers /\ ContextOf(Migration) = "worker" /\ Contexts = {"worker", "options"}
      /\ Migration \notin Requests /\ Requests \subseteq Handlers
    BY RequestsAssumption DEF Handlers, ContextOf, Contexts
<1>2. <<Migration>> \in Seq(Handlers) /\ Len(<<Migration>>) = 1 /\ <<Migration>>[1] = Migration
    BY <1>1
<1>3. \A m \in Start.mailboxes : m.id \in Ids
    BY StartAssumption DEF StoreRecords, MailboxRecords
<1>4. pipe["worker"] = <<Migration>> /\ pipe["options"] = <<>> /\ pipe \in [Contexts -> Seq(Handlers)]
    BY <1>1, <1>2 DEF Init
<1>5. /\ mutex = [c \in Contexts |-> Free]
      /\ Free \in [holder : Handlers \cup {None}, queue : Seq(Handlers)]
      /\ Free.holder = None /\ Free.queue = <<>>
    BY DEF Init, Free
<1>6. "migrate" \in Stages \ {"pairing"} /\ "migrate" \notin Locked
    BY DEF Stages, Locked
<1>7. TypeOK
    <2>1. popupBoxes \subseteq Ids
        BY <1>3 DEF Init, IdsOf
    <2>2. at \in [Handlers -> Stages \cup Ends \cup {"idle"}]
        BY <1>6 DEF Init
    <2>3. mutex \in [Contexts -> [holder : Handlers \cup {None}, queue : Seq(Handlers)]]
        BY <1>5
    <2> QED
        BY <1>4, <2>1, <2>2, <2>3, StartAssumption, BoundsAssumption DEF Init, TypeOK
<1>8. OnPath
    BY <1>1 DEF Init, OnPath
<1>9. InOrder
    <2>1. Orderly("worker", Run("worker"), at)
        <3>1. Run("worker") = [mutex |-> Free, pipe |-> <<Migration>>]
            BY <1>1, <1>4, <1>5 DEF Run
        <3>2. Issued(Run("worker")) = {Migration}
            <4>1. Run("worker").pipe = <<Migration>>
                BY <3>1
            <4>2. /\ 1 .. Len(<<Migration>>) = {1}
                  /\ \A i \in 1 .. Len(<<Migration>>) : <<Migration>>[i] = Migration
                BY <1>2
            <4> HIDE <3>1
            <4> QED
                BY <4>1, <4>2 DEF Issued
        <3>3. Queued(Run("worker")) = {} /\ Run("worker").mutex.holder = None
            BY <3>1 DEF Queued, Free
        <3>4. Distinct(Run("worker").pipe) /\ Distinct(Run("worker").mutex.queue)
            BY <3>1, <1>2 DEF Distinct, Free
        <3> QED
            BY <1>1, <1>6, <3>1, <3>2, <3>3, <3>4 DEF Init, Orderly, Free
    <2>2. Orderly("options", Run("options"), at)
        <3>1. Run("options") = [mutex |-> Free, pipe |-> <<>>]
            BY <1>1, <1>4, <1>5 DEF Run
        <3> QED
            BY <3>1 DEF Orderly, Issued, Queued, Free, Distinct
    <2> QED
        BY <1>1, <2>1, <2>2 DEF InOrder
<1>10. Exclusive
    BY DEF Init, Exclusive
<1>11. MigratesFirst
    <2>1. \A j \in 1 .. Len(pipe["worker"]) : Yet(pipe["worker"][j])
        BY <1>1, <1>2, <1>4 DEF Init, Yet
    <2> QED
        BY <1>2, <1>4, <2>1 DEF MigratesFirst
<1> QED
    BY <1>7, <1>8, <1>9, <1>10, <1>11 DEF CallsInOrder

LEMMA CallsInOrderStep ==
    ASSUME CallsInOrder, [Next]_vars
    PROVE  CallsInOrder'
<1>1. CASE UNCHANGED vars
    BY <1>1 DEF vars, CallsInOrder, TypeOK, OnPath, InOrder, Orderly, Issued, Queued, Run,
                Exclusive, MigratesFirst, Yet
<1>2. CASE Next
    BY <1>2, ReceiveInOrder, PairingInOrder, ReadFailsInOrder, LookInOrder, ReadInOrder,
       WriteInOrder, CrashInOrder DEF Next, Serve
<1> QED
    BY <1>1, <1>2

\* plaintext-storage.ts: a context has one holder of its mutex at a time, first
\* come first served; the calls of a stage that is in the mutex are issued by
\* its holder; the migration of a worker reads before any request does and
\* writes before any of them.
THEOREM Ordering == Spec => []CallsInOrder
<1>1. Init => CallsInOrder
    BY InitInOrder
<1>2. CallsInOrder /\ [Next]_vars => CallsInOrder'
    BY CallsInOrderStep
<1> QED
    BY <1>1, <1>2, PTL DEF Spec

-----------------------------------------------------------------------------
(***************************************************************************)
(* StoreSafe is inductive, the calls being in order.                       *)
(***************************************************************************)
LEMMA ProceedMoves ==
    ASSUME CallsInOrder, NEW c \in Contexts, pipe[c] # <<>>,
           NEW next, Proceed(c, next)
    PROVE  LET h == Head(pipe[c])
           IN  /\ h \in Handlers /\ at'[h] = next /\ seen'[h] = Start
               /\ io'[h] = IF next = "reset" THEN "write" ELSE "read"
               /\ \A g \in Handlers \ {h} : at'[g] = at[g] /\ io'[g] = io[g] /\ seen'[g] = seen[g]
    BY HeadOfPipe DEF CallsInOrder, TypeOK, Proceed

\* The head that is about to write in the worker's mutex is the only one about
\* to write there, and the migration is over.
LEMMA WriterAlone ==
    ASSUME CallsInOrder, NEW c \in Contexts, pipe[c] # <<>>,
           NEW h, h = Head(pipe[c]), io[h] = "write", at[h] \in Exclusives
    PROVE  \A g \in Handlers \ {h} : io[g] = "write" => at[g] \notin Exclusives \cup {"migrate"}
<1>1. h \in Handlers /\ ContextOf(h) = c /\ h = pipe[c][1]
    BY HeadOfPipe
<1>2. h \in Requests /\ c = "worker" /\ h # Migration
    BY <1>1, InWorker, RequestsAssumption DEF CallsInOrder
<1>3. mutex["worker"].holder = h
    BY <1>1, <1>2 DEF CallsInOrder, Exclusive, Exclusives
<1>4. ASSUME NEW g \in Handlers \ {h}, io[g] = "write", at[g] \in Exclusives PROVE FALSE
    <2>1. ContextOf(g) = "worker"
        BY <1>4, InWorker DEF CallsInOrder
    <2> QED
        BY <1>3, <1>4, <2>1 DEF CallsInOrder, Exclusive, Exclusives
<1>5. at[Migration] # "migrate"
    <2> SUFFICES ASSUME at[Migration] = "migrate" PROVE FALSE
        OBVIOUS
    <2>1. PICK k \in 1 .. Len(pipe["worker"]) :
              pipe["worker"][k] = Migration /\ \A j \in 1 .. k - 1 : Yet(pipe["worker"][j])
        BY DEF CallsInOrder, MigratesFirst
    <2>2. k # 1
        BY <1>1, <1>2, <2>1
    <2>3. Yet(h)
        BY <1>1, <1>2, <2>1, <2>2
    <2> QED
        BY <2>3 DEF Yet, Exclusives, Locked
<1>6. \A g \in Handlers : at[g] = "migrate" => g = Migration
    BY PathAsks, RequestsAssumption DEF CallsInOrder, OnPath, Handlers, Ends
<1> QED
    BY <1>4, <1>5, <1>6

\* What getMailboxes returns when it does not throw.
LEMMA VisibleStore ==
    ASSUME NEW d \in StoreRecords
    PROVE  /\ Visible(d) \in StoreRecords
           /\ Visible(d).prefs = d.prefs /\ Visible(d).settings = d.settings
           /\ ~ Unreadable(d) => Visible(d).mailboxes = Proper(d.mailboxes)
    BY DEF StoreRecords, Visible, Unreadable, Proper, Legacy

LEMMA ReceiveCurrent ==
    ASSUME CallsInOrder, Current, NEW h \in Requests, Receive(h) \/ Pairing(h)
    PROVE  Current'
<1>1. /\ disk' = disk /\ seen' = seen /\ h \in Handlers
      /\ at'[h] \notin {"migrate"} /\ (at'[h] \in Locked => io'[h] = "read")
      /\ \A g \in Handlers \ {h} : at'[g] = at[g] /\ io'[g] = io[g] /\ target'[g] = target[g]
    <2>1. CASE Receive(h)
        <3>1. /\ h \in Handlers /\ First(Ask[h].op) # "migrate"
              /\ (First(Ask[h].op) \in Locked => First(Ask[h].op) # "reset")
            BY RequestsAssumption DEF Handlers, First, Ops, Locked
        <3> QED
            BY <2>1, <3>1 DEF Receive, CallsInOrder, TypeOK
    <2>2. CASE Pairing(h)
        BY <2>2 DEF Pairing, CallsInOrder, TypeOK, Handlers, Locked
    <2> QED
        BY <2>1, <2>2
<1>2. ASSUME NEW g \in Handlers, io'[g] = "write", g # h
      PROVE  at'[g] = at[g] /\ io[g] = "write" /\ target'[g] = target[g]
    BY <1>1, <1>2
<1>3. io'[h] = "write" => at'[h] \notin Locked \cup {"migrate"}
    BY <1>1
<1>4. {"add", "remove", "touch", "pref", "ban", "unban"} \subseteq Locked
    BY DEF Locked
<1> QED
    BY <1>1, <1>2, <1>3, <1>4 DEF Current, Absent, Taken, AccountOf, Arg

\* A head that goes on without writing: nobody else's copy changes.
LEMMA ProceedCurrent ==
    ASSUME CallsInOrder, Current, NEW c \in Contexts, pipe[c] # <<>>,
           NEW next \in Stages \cup Ends, Proceed(c, next), disk' = disk,
           \A g \in Handlers \ {Head(pipe[c])} : target'[g] = target[g]
    PROVE  Current'
<1> DEFINE h == Head(pipe[c])
<1>1. /\ h \in Handlers /\ at'[h] = next
      /\ io'[h] = IF next = "reset" THEN "write" ELSE "read"
      /\ \A g \in Handlers \ {h} : /\ at'[g] = at[g] /\ io'[g] = io[g] /\ seen'[g] = seen[g]
                                   /\ target'[g] = target[g]
    BY ProceedMoves
<1> HIDE DEF h
<1> QED
    BY <1>1 DEF Current, Absent, Taken, AccountOf, Arg

LEMMA ReadCurrent ==
    ASSUME CallsInOrder, Current, NEW c \in Contexts, Read(c)
    PROVE  Current'
<1> DEFINE h == Head(pipe[c])
<1>1. /\ h \in Handlers /\ io \in [Handlers -> {"read", "write"}] /\ disk \in StoreRecords
      /\ seen \in [Handlers -> StoreRecords]
    BY HeadOfPipe DEF Read, CallsInOrder, TypeOK
<1>2. /\ ~ Throws(h)
      /\ UNCHANGED <<disk, at, target>>
      /\ io'[h] = "write" /\ seen'[h] = IF at[h] = "migrate" THEN disk ELSE Visible(disk)
      /\ \A g \in Handlers \ {h} : io'[g] = io[g] /\ seen'[g] = seen[g]
    BY <1>1 DEF Read
<1>3. /\ Visible(disk).prefs = disk.prefs /\ Visible(disk).settings = disk.settings
      /\ ~ Unreadable(disk) => Visible(disk).mailboxes = Proper(disk.mailboxes)
    BY <1>1, VisibleStore
<1> HIDE DEF h
<1>4. /\ at[h] \in {"add", "remove", "touch"} => seen'[h].mailboxes = Proper(disk.mailboxes)
      /\ at[h] = "migrate" => seen'[h].mailboxes = disk.mailboxes
      /\ at[h] = "add" => ~ Taken(h, seen'[h])
      /\ at[h] \in {"remove", "touch"} => ~ Absent(h, seen'[h])
      /\ at[h] = "pref" => seen'[h].prefs = disk.prefs
      /\ at[h] \in {"ban", "unban"} => seen'[h].settings = disk.settings
    BY <1>2, <1>3 DEF Throws, MailboxStages
<1> QED
    BY <1>1, <1>2, <1>4 DEF Current, Absent, Taken, AccountOf, Arg

LEMMA CrashCurrent ==
    ASSUME CallsInOrder, Current, Crash
    PROVE  Current'
<1>1. disk' = disk /\ target' = target
    BY DEF Crash
<1>2. ASSUME NEW g \in Handlers, io'[g] = "write"
      PROVE  io[g] = "write" /\ at'[g] = at[g] /\ seen'[g] = seen[g]
    BY <1>2 DEF Crash, ContextOf
<1> QED
    BY <1>1, <1>2 DEF Current, Absent, Taken, AccountOf, Arg

\* A write in the worker's mutex acts on what is stored.
New(h) == [id |-> h, account |-> AccountOf(h), synced |-> FALSE]
Touched(h, ms) == {IF m.id = target[h] THEN [m EXCEPT !.synced = TRUE] ELSE m : m \in ms}

LEMMA WriteActs ==
    ASSUME CallsInOrder, Current, NEW c \in Contexts, Write(c)
    PROVE  LET h == Head(pipe[c])
               ms == Proper(disk.mailboxes)
           IN  /\ h \in Handlers /\ target' = target /\ popupBoxes' = popupBoxes
               /\ at[h] \in Updates \cup {"reset"} /\ at'[h] = After(h) /\ io'[h] = "read"
               /\ seen'[h] = Start
               /\ \A g \in Handlers \ {h} : at'[g] = at[g] /\ io'[g] = io[g] /\ seen'[g] = seen[g]
               /\ at[h] = "migrate" => h = Migration
               /\ at[h] # "migrate" => h \in Requests /\ Asks(at[h], Ask[h].op)
               /\ at[h] = "add" =>
                     disk' = [disk EXCEPT !.mailboxes = ms \cup {New(h)}]
                     /\ \A m \in ms : m.id # h /\ m.account # AccountOf(h)
               /\ at[h] = "remove" =>
                     disk' = [disk EXCEPT !.mailboxes = {m \in ms : m.id # target[h]}]
                     /\ target[h] \in IdsOf(ms)
               /\ at[h] = "touch" =>
                     disk' = [disk EXCEPT !.mailboxes = Touched(h, ms)] /\ target[h] \in IdsOf(ms)
               /\ at[h] = "migrate" => disk' = [disk EXCEPT !.mailboxes = ms]
               /\ at[h] = "pref" =>
                     disk' = [disk EXCEPT !.prefs = [@ EXCEPT ![Arg(h)] =
                                  IF Ask[h].op = "enable" THEN "on" ELSE "off"]]
               /\ at[h] \notin {"add", "remove", "touch", "migrate", "pref"} =>
                     disk' = [disk EXCEPT !.settings = WithSettings(h, seen[h].settings)]
<1> DEFINE h == Head(pipe[c])
           ms == Proper(disk.mailboxes)
<1>1. /\ pipe[c] # <<>> /\ io[h] = "write" /\ Proceed(c, After(h))
      /\ disk' = CASE at[h] \in {"add", "remove", "touch", "migrate"} ->
                         [disk EXCEPT !.mailboxes = WithMailbox(h, seen[h].mailboxes)]
                   [] at[h] = "pref" ->
                         [disk EXCEPT !.prefs = [seen[h].prefs EXCEPT ![Arg(h)] =
                              IF Ask[h].op = "enable" THEN "on" ELSE "off"]]
                   [] OTHER -> [disk EXCEPT !.settings = WithSettings(h, seen[h].settings)]
      /\ target' = target /\ popupBoxes' = popupBoxes
    BY DEF Write
<1>2. /\ h \in Handlers
      /\ at[h] = "migrate" => h = Migration
      /\ at[h] # "migrate" => h \in Requests /\ Asks(at[h], Ask[h].op)
      /\ at'[h] = After(h) /\ seen'[h] = Start
      /\ io'[h] = IF After(h) = "reset" THEN "write" ELSE "read"
      /\ \A g \in Handlers \ {h} : at'[g] = at[g] /\ io'[g] = io[g] /\ seen'[g] = seen[g]
    BY <1>1, HeadOfPipe, HeadAsks, ProceedMoves
<1>3. /\ at[h] \in Updates \cup {"reset"} /\ After(h) # "reset"
      /\ disk \in StoreRecords
    BY <1>1, <1>2 DEF CallsInOrder, Exclusive, After, TypeOK
<1>4. /\ at[h] \in {"add", "remove", "touch"} => seen[h].mailboxes = ms
      /\ at[h] = "migrate" => seen[h].mailboxes = disk.mailboxes
      /\ at[h] = "add" => ~ Taken(h, seen[h])
      /\ at[h] \in {"remove", "touch"} => ~ Absent(h, seen[h])
      /\ at[h] = "pref" => seen[h].prefs = disk.prefs
    BY <1>1, <1>2 DEF Current
<1> HIDE DEF h, ms
<1>5. CASE at[h] = "add"
    <2>1. WithMailbox(h, ms) = ms \cup {New(h)}
        BY <1>5 DEF WithMailbox, New
    <2>2. disk' = [disk EXCEPT !.mailboxes = ms \cup {New(h)}]
        BY <1>1, <1>4, <1>5, <2>1
    <2>3. \A m \in ms : m.id # h /\ m.account # AccountOf(h)
        BY <1>4, <1>5 DEF Taken
    <2> QED
        BY <1>1, <1>2, <1>3, <1>5, <2>2, <2>3 DEF h, ms
<1>6. CASE at[h] = "remove"
    <2>1. WithMailbox(h, ms) = {m \in ms : m.id # target[h]}
        BY <1>6 DEF WithMailbox
    <2>2. disk' = [disk EXCEPT !.mailboxes = {m \in ms : m.id # target[h]}]
        BY <1>1, <1>4, <1>6, <2>1
    <2>3. target[h] \in IdsOf(ms)
        BY <1>4, <1>6 DEF Absent
    <2> QED
        BY <1>1, <1>2, <1>3, <1>6, <2>2, <2>3 DEF h, ms
<1>7. CASE at[h] = "touch"
    <2>1. WithMailbox(h, ms) = Touched(h, ms)
        BY <1>7 DEF WithMailbox, Touched
    <2>2. disk' = [disk EXCEPT !.mailboxes = Touched(h, ms)]
        BY <1>1, <1>4, <1>7, <2>1
    <2>3. target[h] \in IdsOf(ms)
        BY <1>4, <1>7 DEF Absent
    <2> QED
        BY <1>1, <1>2, <1>3, <1>7, <2>2, <2>3 DEF h, ms
<1>8. CASE at[h] = "migrate"
    <2>1. WithMailbox(h, disk.mailboxes) = ms
        BY <1>8 DEF WithMailbox, Proper, ms
    <2>2. disk' = [disk EXCEPT !.mailboxes = ms]
        BY <1>1, <1>4, <1>8, <2>1
    <2> QED
        BY <1>1, <1>2, <1>3, <1>8, <2>2 DEF h, ms
<1>9. CASE at[h] = "pref"
    BY <1>1, <1>2, <1>3, <1>4, <1>9 DEF h, ms
<1>10. CASE at[h] \notin {"add", "remove", "touch", "migrate", "pref"}
    BY <1>1, <1>2, <1>3, <1>10 DEF h, ms
<1> QED
    BY <1>5, <1>6, <1>7, <1>8, <1>9, <1>10

LEMMA WriteCurrent ==
    ASSUME CallsInOrder, Current, NEW c \in Contexts, Write(c)
    PROVE  Current'
<1> DEFINE h == Head(pipe[c])
           ms == Proper(disk.mailboxes)
<1>1. /\ h \in Handlers /\ target' = target /\ io'[h] = "read"
      /\ at[h] \in Updates \cup {"reset"}
      /\ \A g \in Handlers \ {h} : at'[g] = at[g] /\ io'[g] = io[g] /\ seen'[g] = seen[g]
    BY WriteActs
<1>2. /\ at[h] = "migrate" => disk' = [disk EXCEPT !.mailboxes = ms]
      /\ at[h] \notin {"add", "remove", "touch", "migrate", "pref"} =>
            /\ disk' = [disk EXCEPT !.settings = WithSettings(h, seen[h].settings)]
            /\ h \in Requests /\ Asks(at[h], Ask[h].op)
    BY WriteActs
<1>3. /\ io[h] = "write" /\ pipe[c] # <<>> /\ disk \in StoreRecords
    BY DEF Write, CallsInOrder, TypeOK
<1>4. at[h] \in Exclusives => \A g \in Handlers \ {h} : io[g] = "write" =>
                                  at[g] \notin Exclusives \cup {"migrate"}
    BY <1>3, WriterAlone
<1>5. Exclusives = {"add", "remove", "touch", "pref", "ban", "unban"}
    BY DEF Exclusives, Locked
<1> HIDE DEF h
<1>6. CASE at[h] \in Exclusives
    <2>1. ASSUME NEW g \in Handlers, io'[g] = "write" PROVE at'[g] \notin Exclusives \cup {"migrate"}
        BY <1>1, <1>4, <1>6, <2>1
    <2> QED
        BY <2>1, <1>5 DEF Current
<1>7. CASE at[h] = "migrate"
    <2>1. /\ Proper(ms) = ms /\ disk'.mailboxes = ms /\ disk'.prefs = disk.prefs
          /\ disk'.settings = disk.settings
        BY <1>2, <1>3, <1>7 DEF Proper, StoreRecords
    <2>2. \A g \in Handlers : io'[g] = "write" => g # h /\ at[g] # "migrate" /\ io[g] = "write"
        <3>1. h = Migration
            BY <1>7, WriteActs DEF h
        <3>2. \A g \in Handlers : at[g] = "migrate" => g = Migration
            BY PathAsks, RequestsAssumption DEF CallsInOrder, OnPath, Handlers, Ends
        <3> QED
            BY <1>1, <3>1, <3>2
    <2>3. Proper(disk'.mailboxes) = ms
        BY <2>1
    <2> QED
        BY <1>1, <2>1, <2>2, <2>3 DEF Current, Absent, Taken, AccountOf, Arg, ms
<1>8. CASE at[h] \in {"level", "timeout", "reset"}
    <2>1. /\ disk'.mailboxes = disk.mailboxes /\ disk'.prefs = disk.prefs
        BY <1>2, <1>3, <1>8 DEF StoreRecords
    <2>2. ~ Disciplined
        BY <1>2, <1>8 DEF Disciplined, Asks
    <2>3. \A g \in Handlers : io'[g] = "write" => g # h /\ io[g] = "write"
        BY <1>1
    <2>4. Proper(disk'.mailboxes) = Proper(disk.mailboxes)
        BY <2>1
    <2> QED
        BY <1>1, <2>1, <2>2, <2>3, <2>4 DEF Current, Absent, Taken, AccountOf, Arg
<1> QED
    BY <1>1, <1>5, <1>6, <1>7, <1>8 DEF Updates, Locked

LEMMA WriteUnique ==
    ASSUME CallsInOrder, Current, UniqueAccounts, NEW c \in Contexts, Write(c)
    PROVE  UniqueAccounts'
<1> DEFINE h == Head(pipe[c])
           ms == Proper(disk.mailboxes)
<1>1. /\ at[h] = "add" => disk' = [disk EXCEPT !.mailboxes = ms \cup {New(h)}]
                          /\ \A m \in ms : m.id # h /\ m.account # AccountOf(h)
      /\ at[h] = "remove" => disk' = [disk EXCEPT !.mailboxes = {m \in ms : m.id # target[h]}]
      /\ at[h] = "touch" => disk' = [disk EXCEPT !.mailboxes = Touched(h, ms)]
      /\ at[h] = "migrate" => disk' = [disk EXCEPT !.mailboxes = ms]
      /\ at[h] = "pref" => disk' = [disk EXCEPT !.prefs = [@ EXCEPT ![Arg(h)] =
                                        IF Ask[h].op = "enable" THEN "on" ELSE "off"]]
      /\ at[h] \notin {"add", "remove", "touch", "migrate", "pref"} =>
            disk' = [disk EXCEPT !.settings = WithSettings(h, seen[h].settings)]
    BY WriteActs
<1>2. disk \in StoreRecords /\ ms \subseteq disk.mailboxes
    BY DEF CallsInOrder, TypeOK, Proper
<1> HIDE DEF h, ms
<1>3. \A m, n \in ms : m.id = n.id \/ m.account = n.account => m = n
    BY <1>2 DEF UniqueAccounts
<1>4. CASE at[h] = "add"
    <2>1. disk'.mailboxes = ms \cup {New(h)}
        BY <1>1, <1>2, <1>4 DEF StoreRecords
    <2>2. New(h).id = h /\ New(h).account = AccountOf(h)
        BY DEF New
    <2>3. \A m \in ms : m.id # h /\ m.account # AccountOf(h)
        BY <1>1, <1>4
    <2> HIDE DEF New
    <2> QED
        BY <1>3, <2>1, <2>2, <2>3 DEF UniqueAccounts
<1>5. CASE at[h] = "touch"
    <2>1. disk'.mailboxes = Touched(h, ms)
        BY <1>1, <1>2, <1>5 DEF StoreRecords
    <2>2. ASSUME NEW m \in Touched(h, ms)
          PROVE  \E n \in ms : /\ m.id = n.id /\ m.account = n.account
                               /\ m = IF n.id = target[h] THEN [n EXCEPT !.synced = TRUE] ELSE n
        <3>1. PICK n \in ms : m = IF n.id = target[h] THEN [n EXCEPT !.synced = TRUE] ELSE n
            BY DEF Touched
        <3>2. n \in MailboxRecords
            BY <1>2 DEF StoreRecords
        <3> QED
            BY <3>1, <3>2 DEF MailboxRecords
    <2>3. ASSUME NEW m \in Touched(h, ms), NEW n \in Touched(h, ms),
                 m.id = n.id \/ m.account = n.account
          PROVE  m = n
        <3>1. PICK a \in ms : /\ m.id = a.id /\ m.account = a.account
                               /\ m = IF a.id = target[h] THEN [a EXCEPT !.synced = TRUE] ELSE a
            BY <2>2
        <3>2. PICK b \in ms : /\ n.id = b.id /\ n.account = b.account
                               /\ n = IF b.id = target[h] THEN [b EXCEPT !.synced = TRUE] ELSE b
            BY <2>2
        <3>3. a = b
            BY <1>3, <2>3, <3>1, <3>2
        <3> QED
            BY <3>1, <3>2, <3>3
    <2> QED
        BY <2>1, <2>3 DEF UniqueAccounts
<1>6. CASE at[h] = "remove"
    <2>1. disk'.mailboxes \subseteq ms
        BY <1>1, <1>2, <1>6 DEF StoreRecords
    <2> QED
        BY <1>3, <2>1 DEF UniqueAccounts
<1>7. CASE at[h] = "migrate"
    <2>1. disk'.mailboxes = ms
        BY <1>1, <1>2, <1>7 DEF StoreRecords
    <2> QED
        BY <1>3, <2>1 DEF UniqueAccounts
<1>8. CASE at[h] \notin {"add", "remove", "touch", "migrate"}
    <2>1. disk'.mailboxes = disk.mailboxes
        BY <1>1, <1>2, <1>8 DEF StoreRecords
    <2> QED
        BY <2>1 DEF UniqueAccounts
<1> QED
    BY <1>4, <1>5, <1>6, <1>7, <1>8

\* What a write does to the ids that are stored.
LEMMA WriteIds ==
    ASSUME CallsInOrder, Current, NEW c \in Contexts, Write(c)
    PROVE  LET h == Head(pipe[c])
               old == IdsOf(Proper(disk.mailboxes))
               new == disk'.mailboxes
           IN  /\ at[h] \in {"add", "remove", "touch", "migrate"} => Proper(new) = new
               /\ at[h] = "add" => IdsOf(new) = old \cup {h}
               /\ at[h] = "remove" => IdsOf(new) = old \ {target[h]}
               /\ at[h] \in {"touch", "migrate"} => IdsOf(new) = old
               /\ at[h] \notin {"add", "remove", "touch", "migrate"} => new = disk.mailboxes
<1> DEFINE h == Head(pipe[c])
           ms == Proper(disk.mailboxes)
<1>1. /\ at[h] = "add" => disk' = [disk EXCEPT !.mailboxes = ms \cup {New(h)}]
      /\ at[h] = "remove" => disk' = [disk EXCEPT !.mailboxes = {m \in ms : m.id # target[h]}]
      /\ at[h] = "touch" => disk' = [disk EXCEPT !.mailboxes = Touched(h, ms)]
      /\ at[h] = "migrate" => disk' = [disk EXCEPT !.mailboxes = ms]
      /\ at[h] = "pref" => disk' = [disk EXCEPT !.prefs = [@ EXCEPT ![Arg(h)] =
                                        IF Ask[h].op = "enable" THEN "on" ELSE "off"]]
      /\ at[h] \notin {"add", "remove", "touch", "migrate", "pref"} =>
            disk' = [disk EXCEPT !.settings = WithSettings(h, seen[h].settings)]
      /\ at[h] # "migrate" => h \in Requests
    BY WriteActs
<1>2. /\ disk \in StoreRecords /\ ms \subseteq MailboxRecords
      /\ \A m \in ms : m.account \notin Gmail \cup Outlook
    BY DEF CallsInOrder, TypeOK, Proper, StoreRecords, Legacy
<1> HIDE DEF h, ms
<1>3. ASSUME NEW ns, \A m \in ns : m.account \notin Gmail \cup Outlook PROVE Proper(ns) = ns
    BY <1>3 DEF Proper, Legacy
<1>4. CASE at[h] = "add"
    <2>1. disk'.mailboxes = ms \cup {New(h)}
        BY <1>1, <1>2, <1>4 DEF StoreRecords
    <2>2. New(h).id = h /\ New(h).account = AccountOf(h)
        BY DEF New
    <2>3. AccountOf(h) \notin Gmail \cup Outlook
        BY <1>1, <1>4, ArgumentsAssumption, AccountsAssumption DEF AccountOf, Arg
    <2> HIDE DEF New
    <2>4. \A m \in ms \cup {New(h)} : m.account \notin Gmail \cup Outlook
        BY <1>2, <2>2, <2>3
    <2>5. Proper(ms \cup {New(h)}) = ms \cup {New(h)}
        BY <1>3, <2>4
    <2>6. IdsOf(ms \cup {New(h)}) = IdsOf(ms) \cup {h}
        BY <2>2 DEF IdsOf
    <2> QED
        BY <1>4, <2>1, <2>5, <2>6 DEF h, ms
<1>5. CASE at[h] = "touch"
    <2>1. disk'.mailboxes = Touched(h, ms)
        BY <1>1, <1>2, <1>5 DEF StoreRecords
    <2>2. ASSUME NEW m \in Touched(h, ms)
          PROVE  \E n \in ms : m.id = n.id /\ m.account = n.account
        <3>1. PICK n \in ms : m = IF n.id = target[h] THEN [n EXCEPT !.synced = TRUE] ELSE n
            BY DEF Touched
        <3>2. n \in MailboxRecords
            BY <1>2
        <3> QED
            BY <3>1, <3>2 DEF MailboxRecords
    <2>3. ASSUME NEW n \in ms PROVE \E m \in Touched(h, ms) : m.id = n.id
        <3> DEFINE m == IF n.id = target[h] THEN [n EXCEPT !.synced = TRUE] ELSE n
        <3>1. m \in Touched(h, ms)
            BY DEF Touched
        <3>2. n \in MailboxRecords
            BY <1>2
        <3>3. m.id = n.id
            BY <3>2 DEF MailboxRecords
        <3> QED
            BY <3>1, <3>3
    <2>4. Proper(Touched(h, ms)) = Touched(h, ms)
        <3>1. \A m \in Touched(h, ms) : m.account \notin Gmail \cup Outlook
            BY <1>2, <2>2
        <3> QED
            BY <1>3, <3>1
    <2>5. IdsOf(Touched(h, ms)) = IdsOf(ms)
        BY <2>2, <2>3 DEF IdsOf
    <2> QED
        BY <1>5, <2>1, <2>4, <2>5 DEF h, ms
<1>6. CASE at[h] = "remove"
    <2>1. disk'.mailboxes = {m \in ms : m.id # target[h]}
        BY <1>1, <1>2, <1>6 DEF StoreRecords
    <2>2. Proper(disk'.mailboxes) = disk'.mailboxes
        BY <1>2, <2>1 DEF Proper, Legacy
    <2>3. IdsOf(disk'.mailboxes) = IdsOf(ms) \ {target[h]}
        BY <2>1 DEF IdsOf
    <2> QED
        BY <1>6, <2>2, <2>3 DEF h, ms
<1>7. CASE at[h] = "migrate"
    <2>1. disk'.mailboxes = ms
        BY <1>1, <1>2, <1>7 DEF StoreRecords
    <2>2. Proper(ms) = ms
        BY <1>2, <1>3
    <2> QED
        BY <1>7, <2>1, <2>2 DEF h, ms
<1>8. CASE at[h] \notin {"add", "remove", "touch", "migrate"}
    <2>1. disk'.mailboxes = disk.mailboxes
        BY <1>1, <1>2, <1>8 DEF StoreRecords
    <2> QED
        BY <1>8, <2>1 DEF h
<1> QED
    BY <1>4, <1>5, <1>6, <1>7, <1>8

(***************************************************************************)
(* The steps that neither add nor remove a mailbox.                        *)
(***************************************************************************)
BoxOps == {"store", "connect", "repair", "remove", "disconnect"}

Quietly(op, from, to) ==
    \/ to = from
    \/ from = "idle" /\ to = First(op)
    \/ from \in Stages /\ to \in {"error", "lost"}
    \/ from = "pairing" /\ to \in {"look", "unpaired"}
    \/ from = "find" /\ to = "remove"
    \/ from = "findMessages" /\ to \in {"pairing", "remove"}
    \/ from = "look" /\ to \in {"exists", "add"}
    \/ from = "refresh" /\ to = "ok"
    \/ op \notin BoxOps /\ from \in Stages \ {"refresh"} /\ to \in Stages \cup {"ok"}

\* How a request comes by the mailbox it names.
Aims(g) ==
    \/ target'[g] = target[g] /\ (at[g] = "idle" => at'[g] = "idle")
    \/ /\ at[g] = "idle" /\ at'[g] = First(Ask[g].op)
       /\ target'[g] = IF Ask[g].op \in {"remove", "disconnect", "sync"} THEN Arg(g) ELSE None
    \/ at[g] = "findMessages" /\ at'[g] = "remove" /\ Ask[g].op = "repair"

Quiet == \A g \in Requests : Quietly(Ask[g].op, at[g], at'[g]) /\ Aims(g)

LEMMA QuietMoves ==
    ASSUME NEW op \in Ops, NEW from, NEW to, Quietly(op, from, to)
    PROVE  /\ from \in {"refresh"} \cup Ends /\ from \notin Stages \ {"refresh"}
                 => to \in {"refresh"} \cup Ends
           /\ to = "idle" => from = "idle"
           /\ op \in BoxOps /\ to \in {"refresh", "ok"} => from \in {"refresh", "ok"}
           /\ op = "repair" /\ to \in {"pairing", "look", "add", "refresh", "ok"} =>
                 \/ from \in {"pairing", "look", "add", "refresh", "ok"}
                 \/ from = "findMessages" /\ to = "pairing"
           /\ op = "repair" /\ to = "findMessages" => from \in {"findMessages", "idle"}
<1>1. /\ First(op) \in Stages \ {"refresh"}
      /\ op = "repair" => First(op) = "findMessages"
    BY DEF First, Ops, Stages, MailboxStages, Locked
<1> QED
    BY <1>1 DEF Quietly, BoxOps, Stages, MailboxStages, Locked, Ends

LEMMA QuietKeeps ==
    ASSUME CallsInOrder, Born, Targets, Gone, Quiet,
           IdsOf(disk'.mailboxes) \subseteq IdsOf(disk.mailboxes),
           IdsOf(Proper(disk.mailboxes)) \subseteq IdsOf(Proper(disk'.mailboxes))
    PROVE  Born' /\ Targets' /\ Gone'
<1>1. ASSUME NEW g \in Requests
      PROVE  /\ at[g] \in {"refresh"} \cup Ends => at'[g] \in {"refresh"} \cup Ends
             /\ at'[g] = "idle" => at[g] = "idle"
             /\ Ask[g].op \in BoxOps /\ at'[g] \in {"refresh", "ok"} => at[g] \in {"refresh", "ok"}
             /\ Ask[g].op = "repair" /\ at'[g] \in {"pairing", "look", "add", "refresh", "ok"} =>
                   \/ at[g] \in {"pairing", "look", "add", "refresh", "ok"}
                   \/ at[g] = "findMessages" /\ at'[g] = "pairing"
             /\ Ask[g].op = "repair" /\ at'[g] = "findMessages" => at[g] \in {"findMessages", "idle"}
             /\ Aims(g) /\ Ask[g].op \in Ops
    <2>1. Quietly(Ask[g].op, at[g], at'[g]) /\ Ask[g].op \in Ops /\ Aims(g)
        BY RequestsAssumption DEF Quiet
    <2>2. Ends \cap Stages = {}
        BY DEF Ends, Stages, MailboxStages, Locked
    <2> QED
        BY <2>1, <2>2, QuietMoves
<1>2. Born'
    <2>1. ASSUME NEW h \in Requests, h \in IdsOf(disk'.mailboxes)
          PROVE  at'[h] \in {"refresh"} \cup Ends
        BY <1>1, <2>1 DEF Born
    <2>2. ASSUME NEW h \in Adders, at'[h] \in {"refresh", "ok"},
                 \A g \in Removers(h) : at'[g] = "idle"
          PROVE  h \in IdsOf(Proper(disk'.mailboxes))
        <3>1. h \in Requests /\ Ask[h].op \in BoxOps /\ Removers(h) \subseteq Requests
            BY DEF Adders, BoxOps, Removers
        <3> QED
            BY <1>1, <2>2, <3>1 DEF Born
    <2> QED
        BY <2>1, <2>2 DEF Born
<1>3. Targets'
    <2>1. ASSUME NEW h \in Requests, Ask[h].op \in {"remove", "disconnect"}, at'[h] # "idle"
          PROVE  target'[h] = Arg(h)
        BY <1>1, <2>1 DEF Targets, Aims
    <2>2. ASSUME NEW h \in Requests, Ask[h].op = "repair", at'[h] = "findMessages"
          PROVE  target'[h] = None
        BY <1>1, <2>2 DEF Targets, Aims
    <2> QED
        BY <2>1, <2>2 DEF Targets, Arg
<1>4. Gone'
    <2> SUFFICES ASSUME NEW h \in Requests, Removed(h)'
                 PROVE  /\ target'[h] \notin IdsOf(disk'.mailboxes)
                        /\ target'[h] \in Requests => at'[target'[h]] \in {"refresh"} \cup Ends
        BY DEF Gone
    <2>1. CASE Removed(h)
        <3>1. target'[h] = target[h]
            BY <1>1, <2>1 DEF Removed, Aims, Ends, Ops
        <3> QED
            BY <1>1, <2>1, <3>1 DEF Gone
    <2>2. CASE ~ Removed(h)
        <3>1. Ask[h].op = "repair" /\ at[h] = "findMessages" /\ at'[h] = "pairing"
            BY <1>1, <2>2 DEF Removed, BoxOps
        <3>2. target'[h] = None
            BY <1>1, <3>1 DEF Targets, Aims
        <3>3. None \notin IdsOf(disk.mailboxes)
            BY ArgumentsAssumption DEF CallsInOrder, TypeOK, StoreRecords, MailboxRecords, IdsOf
        <3>4. None \notin Requests
            BY RequestsAssumption DEF Handlers
        <3> QED
            BY <3>2, <3>3, <3>4
    <2> QED
        BY <2>1, <2>2
<1> QED
    BY <1>2, <1>3, <1>4

LEMMA ReceiveQuiet ==
    ASSUME CallsInOrder, NEW h \in Requests, Receive(h) \/ Pairing(h)
    PROVE  Quiet
<1>1. /\ at \in [Handlers -> Stages \cup Ends \cup {"idle"}] /\ target \in [Handlers -> Ids \cup {None}]
      /\ Requests \subseteq Handlers
    BY DEF CallsInOrder, TypeOK, Handlers
<1>2. CASE Receive(h)
    BY <1>1, <1>2 DEF Receive, Quiet, Quietly, Aims
<1>3. CASE Pairing(h)
    BY <1>1, <1>3 DEF Pairing, Quiet, Quietly, Aims
<1> QED
    BY <1>2, <1>3

LEMMA CrashQuiet ==
    ASSUME CallsInOrder, Crash
    PROVE  Quiet
<1>1. \A g \in Requests : g \in Handlers /\ g # Migration
    BY RequestsAssumption DEF Handlers
<1>2. \A g \in Requests : at'[g] = at[g] \/ (at[g] \in Stages /\ at'[g] = "lost")
    BY <1>1 DEF Crash
<1>3. target' = target /\ "idle" \notin Stages
    BY DEF Crash, Stages, MailboxStages, Locked
<1> QED
    BY <1>2, <1>3 DEF Quiet, Quietly, Aims

\* The head's stage ends quietly.
LEMMA ProceedQuiet ==
    ASSUME CallsInOrder, NEW c \in Contexts, pipe[c] # <<>>, NEW next, Proceed(c, next),
           LET h == Head(pipe[c])
           IN  /\ h \in Requests => Quietly(Ask[h].op, at[h], next)
               /\ \/ target' = target
                  \/ /\ at[h] = "findMessages" /\ next = "remove"
                     /\ \A g \in Handlers \ {h} : target'[g] = target[g]
    PROVE  Quiet
<1> DEFINE h == Head(pipe[c])
<1>1. /\ h \in Handlers /\ at'[h] = next /\ \A g \in Handlers \ {h} : at'[g] = at[g]
    BY ProceedMoves
<1>2. /\ at[h] \in Stages
      /\ at[h] = "findMessages" => h \in Requests /\ Ask[h].op = "repair"
    BY HeadOfPipe, HeadAsks DEF Asks
<1>3. /\ h \in Requests => Quietly(Ask[h].op, at[h], next)
      /\ \/ target' = target
         \/ /\ at[h] = "findMessages" /\ next = "remove"
            /\ \A g \in Handlers \ {h} : target'[g] = target[g]
    OBVIOUS
<1>4. "idle" \notin Stages
    BY DEF Stages, MailboxStages, Locked
<1> HIDE DEF h
<1>5. ASSUME NEW g \in Requests PROVE Quietly(Ask[g].op, at[g], at'[g]) /\ Aims(g)
    <2>1. g \in Handlers
        BY DEF Handlers
    <2>2. CASE g = h
        BY <1>1, <1>2, <1>3, <1>4, <2>2 DEF Aims
    <2>3. CASE g # h
        BY <1>1, <1>3, <2>1, <2>3 DEF Aims, Quietly
    <2> QED
        BY <2>2, <2>3
<1> QED
    BY <1>5 DEF Quiet

LEMMA ReadFailsQuiet ==
    ASSUME CallsInOrder, NEW c \in Contexts, ReadFails(c)
    PROVE  Quiet
<1>1. pipe[c] # <<>> /\ Proceed(c, "error") /\ target' = target
    BY DEF ReadFails
<1>2. at[Head(pipe[c])] \in Stages
    BY <1>1, HeadOfPipe
<1> QED
    BY <1>1, <1>2, ProceedQuiet DEF Quietly

LEMMA LookQuiet ==
    ASSUME CallsInOrder, NEW c \in Contexts, Look(c)
    PROVE  Quiet
<1> DEFINE h == Head(pipe[c])
<1>1. /\ pipe[c] # <<>>
      /\ at[h] = "migrate" => h = Migration
      /\ at[h] # "migrate" => h \in Requests /\ Asks(at[h], Ask[h].op)
      /\ Migration \notin Requests
    BY HeadAsks, RequestsAssumption DEF Look
<1>2. target \in [Handlers -> Ids \cup {None}]
    BY DEF CallsInOrder, TypeOK
<1>3. CASE at[h] = "find" /\ Proceed(c, "remove") /\ target' = target
    BY <1>1, <1>3, ProceedQuiet DEF Quietly
<1>4. CASE at[h] = "findMessages" /\ Proceed(c, "pairing") /\ target' = target
    BY <1>1, <1>4, ProceedQuiet DEF Quietly
<1>5. ASSUME at[h] = "findMessages", Proceed(c, "remove"),
             NEW id, target' = [target EXCEPT ![h] = id]
      PROVE  Quiet
    <2>1. \A g \in Handlers \ {h} : target'[g] = target[g]
        BY <1>2, <1>5
    <2> QED
        BY <1>1, <1>5, <2>1, ProceedQuiet DEF Quietly
<1>6. ASSUME at[h] = "look", NEW next \in {"exists", "add"}, Proceed(c, next), target' = target
      PROVE  Quiet
    BY <1>1, <1>6, ProceedQuiet DEF Quietly
<1>7. ASSUME at[h] = "preview", NEW next \in {"ok", "ban"}, Proceed(c, next), target' = target
      PROVE  Quiet
    <2>1. /\ Ask[h].op \notin BoxOps /\ "preview" \in Stages \ {"refresh"}
          /\ next \in Stages \cup {"ok"}
        BY <1>1, <1>7 DEF Asks, BoxOps, Stages, Locked
    <2> QED
        BY <1>1, <1>7, <2>1, ProceedQuiet DEF Quietly
<1>8. CASE at[h] = "refresh" /\ Proceed(c, "ok") /\ target' = target
    BY <1>1, <1>8, ProceedQuiet DEF Quietly
<1>9. CASE at[h] = "migrate" /\ Proceed(c, "ok") /\ target' = target
    BY <1>1, <1>9, ProceedQuiet
<1> QED
    BY <1>3, <1>4, <1>5, <1>6, <1>7, <1>8, <1>9 DEF Look

LEMMA ReadQuiet ==
    ASSUME NEW c, Read(c)
    PROVE  Quiet
    BY DEF Read, Quiet, Quietly, Aims

LEMMA WriteQuiet ==
    ASSUME CallsInOrder, Current, NEW c \in Contexts, Write(c), at[Head(pipe[c])] \notin {"add", "remove"}
    PROVE  Quiet
<1> DEFINE h == Head(pipe[c])
<1>1. /\ pipe[c] # <<>> /\ Proceed(c, After(h)) /\ target' = target
      /\ at[h] \in Updates \cup {"reset"}
      /\ at[h] = "migrate" => h = Migration
      /\ at[h] # "migrate" => h \in Requests /\ Asks(at[h], Ask[h].op)
      /\ Migration \notin Requests
    BY WriteActs, RequestsAssumption DEF Write
<1>2. h \in Requests => Quietly(Ask[h].op, at[h], After(h))
    <2> SUFFICES ASSUME h \in Requests PROVE Quietly(Ask[h].op, at[h], After(h))
        OBVIOUS
    <2>1. at[h] \in {"touch", "pref", "ban", "unban", "timeout", "level", "reset"}
        BY <1>1 DEF Updates, Locked
    <2>2. Ask[h].op \notin BoxOps
        BY <1>1, <2>1 DEF Asks, BoxOps
    <2>3. at[h] \in Stages \ {"refresh"} /\ After(h) \in Stages \cup {"ok"}
        BY <2>1 DEF After, Stages, MailboxStages, Locked
    <2> QED
        BY <2>2, <2>3 DEF Quietly
<1> QED
    BY <1>1, <1>2, ProceedQuiet

(***************************************************************************)
(* The writes that add and remove.                                         *)
(***************************************************************************)
LEMMA AddKeeps ==
    ASSUME CallsInOrder, Current, Born, Targets, Gone, NEW c \in Contexts, Write(c),
           at[Head(pipe[c])] = "add"
    PROVE  Born' /\ Targets' /\ Gone'
<1> DEFINE h == Head(pipe[c])
           old == IdsOf(Proper(disk.mailboxes))
           new == disk'.mailboxes
<1>1. /\ h \in Requests /\ Ask[h].op \in {"store", "connect", "repair"} /\ at[h] = "add"
      /\ target' = target /\ at'[h] = "refresh"
      /\ \A g \in Requests \ {h} : at'[g] = at[g]
    BY WriteActs DEF Asks, After, Handlers
<1>2. Proper(new) = new /\ IdsOf(new) = old \cup {h}
    BY WriteIds
<1>3. old \subseteq IdsOf(disk.mailboxes)
    BY DEF IdsOf, Proper
<1>4. h \notin IdsOf(disk.mailboxes)
    BY <1>1 DEF Born, Ends
<1> HIDE DEF h, old, new
<1>5. ASSUME NEW g \in Requests, Removed(g)' PROVE Removed(g)
    BY <1>1, <1>5 DEF Removed
<1>6. Born'
    <2>1. ASSUME NEW g \in Requests, g \in IdsOf(new) PROVE at'[g] \in {"refresh"} \cup Ends
        BY <1>1, <1>2, <1>3, <2>1 DEF Born
    <2>2. ASSUME NEW g \in Adders, at'[g] \in {"refresh", "ok"}, \A r \in Removers(g) : at'[r] = "idle"
          PROVE  g \in IdsOf(new)
        <3>1. CASE g = h
            BY <1>2, <3>1
        <3>2. CASE g # h
            <4>1. \A r \in Removers(g) : at[r] = "idle"
                BY <1>1, <2>2 DEF Removers
            <4> QED
                BY <1>1, <1>2, <2>2, <3>2, <4>1 DEF Born, Adders, old
        <3> QED
            BY <3>1, <3>2
    <2> QED
        BY <2>1, <2>2, <1>2 DEF Born, new
<1>7. Targets'
    BY <1>1 DEF Targets, Arg
<1>8. Gone'
    <2> SUFFICES ASSUME NEW g \in Requests, Removed(g)'
                 PROVE  /\ target'[g] \notin IdsOf(new)
                        /\ target'[g] \in Requests => at'[target'[g]] \in {"refresh"} \cup Ends
        BY DEF Gone, new
    <2>1. /\ target[g] \notin IdsOf(disk.mailboxes)
          /\ target[g] \in Requests => at[target[g]] \in {"refresh"} \cup Ends
        BY <1>5 DEF Gone
    <2>2. target[g] # h
        BY <1>1, <2>1 DEF Ends
    <2> QED
        BY <1>1, <1>2, <1>3, <2>1, <2>2
<1> QED
    BY <1>6, <1>7, <1>8

LEMMA RemoveKeeps ==
    ASSUME CallsInOrder, Current, Born, Targets, Gone, NEW c \in Contexts, Write(c),
           at[Head(pipe[c])] = "remove"
    PROVE  Born' /\ Targets' /\ Gone'
<1> DEFINE h == Head(pipe[c])
           old == IdsOf(Proper(disk.mailboxes))
           new == disk'.mailboxes
<1>1. /\ h \in Requests /\ Ask[h].op \in {"remove", "disconnect", "repair"} /\ at[h] = "remove"
      /\ target' = target /\ at'[h] = IF Ask[h].op = "repair" THEN "pairing" ELSE "refresh"
      /\ \A g \in Requests \ {h} : at'[g] = at[g]
      /\ target[h] \in old
    <2>1. /\ at[h] = "remove" /\ h \in Requests /\ Asks(at[h], Ask[h].op)
          /\ target' = target /\ at'[h] = After(h) /\ target[h] \in old
          /\ \A g \in Handlers \ {h} : at'[g] = at[g]
        BY WriteActs
    <2> HIDE DEF h, old
    <2>2. Ask[h].op \in {"remove", "disconnect", "repair"}
        BY <2>1 DEF Asks
    <2>3. CASE Ask[h].op = "repair"
        BY <2>1, <2>3 DEF After, Handlers
    <2>4. CASE Ask[h].op # "repair"
        BY <2>1, <2>2, <2>4 DEF After, Handlers
    <2> QED
        BY <2>3, <2>4
<1>2. Proper(new) = new /\ IdsOf(new) = old \ {target[h]}
    BY WriteIds
<1>3. old \subseteq IdsOf(disk.mailboxes)
    BY DEF IdsOf, Proper
<1>4. h \notin IdsOf(disk.mailboxes)
    BY <1>1 DEF Born, Ends
<1> HIDE DEF h, old, new
<1>5. Born'
    <2>1. ASSUME NEW g \in Requests, g \in IdsOf(new) PROVE at'[g] \in {"refresh"} \cup Ends
        BY <1>1, <1>2, <1>3, <1>4, <2>1 DEF Born
    <2>2. ASSUME NEW g \in Adders, at'[g] \in {"refresh", "ok"}, \A r \in Removers(g) : at'[r] = "idle"
          PROVE  g \in IdsOf(new)
        <3>1. g # h
            BY <1>1, <2>2 DEF Adders
        <3>2. \A r \in Removers(g) : at[r] = "idle"
            BY <1>1, <2>2 DEF Removers
        <3>3. g \in old
            BY <1>1, <2>2, <3>1, <3>2 DEF Born, Adders, old
        <3>4. h \notin Removers(g)
            BY <1>1, <2>2
        <3>5. target[h] # g
            BY <1>1, <3>1, <3>4 DEF Targets, Removers
        <3> QED
            BY <1>2, <3>3, <3>5
    <2> QED
        BY <2>1, <2>2, <1>2 DEF Born, new
<1>6. Targets'
    BY <1>1 DEF Targets, Arg
<1>7. Gone'
    <2> SUFFICES ASSUME NEW g \in Requests, Removed(g)'
                 PROVE  /\ target'[g] \notin IdsOf(new)
                        /\ target'[g] \in Requests => at'[target'[g]] \in {"refresh"} \cup Ends
        BY DEF Gone, new
    <2>1. CASE g = h
        <3>1. target[h] \in Requests => at[target[h]] \in {"refresh"} \cup Ends
            BY <1>1, <1>3 DEF Born
        <3>2. target[h] # h
            BY <1>1, <1>3, <1>4
        <3> QED
            BY <1>1, <1>2, <2>1, <3>1, <3>2
    <2>2. CASE g # h
        <3>1. Removed(g)
            BY <1>1, <2>2 DEF Removed
        <3>2. /\ target[g] \notin IdsOf(disk.mailboxes)
              /\ target[g] \in Requests => at[target[g]] \in {"refresh"} \cup Ends
            BY <3>1 DEF Gone
        <3>3. target[g] # h
            BY <1>1, <3>2 DEF Ends
        <3> QED
            BY <1>1, <1>2, <1>3, <3>2, <3>3
    <2> QED
        BY <2>1, <2>2
<1> QED
    BY <1>5, <1>6, <1>7

LEMMA BoxesKept ==
    ASSUME CallsInOrder, Current, Born, Targets, Gone, Next
    PROVE  Born' /\ Targets' /\ Gone'
<1>1. ASSUME Quiet, disk' = disk PROVE Born' /\ Targets' /\ Gone'
    BY <1>1, QuietKeeps
<1>2. ASSUME NEW h \in Requests, Receive(h) \/ Pairing(h) PROVE Born' /\ Targets' /\ Gone'
    <2>1. Quiet
        BY <1>2, ReceiveQuiet
    <2>2. disk' = disk
        BY <1>2 DEF Receive, Pairing
    <2> QED
        BY <1>1, <2>1, <2>2
<1>3. ASSUME NEW c \in Contexts, ReadFails(c) \/ Look(c) \/ Read(c) PROVE Born' /\ Targets' /\ Gone'
    <2>1. Quiet
        BY <1>3, ReadFailsQuiet, LookQuiet, ReadQuiet
    <2>2. disk' = disk
        BY <1>3 DEF ReadFails, Look, Read
    <2> QED
        BY <1>1, <2>1, <2>2
<1>4. ASSUME NEW c \in Contexts, Write(c) PROVE Born' /\ Targets' /\ Gone'
    <2> DEFINE h == Head(pipe[c])
    <2>1. CASE at[h] = "add"
        BY <1>4, <2>1, AddKeeps
    <2>2. CASE at[h] = "remove"
        BY <1>4, <2>2, RemoveKeeps
    <2>3. CASE at[h] \notin {"add", "remove"}
        <3>1. Quiet
            BY <1>4, <2>3, WriteQuiet
        <3>2. IdsOf(Proper(disk.mailboxes)) \subseteq IdsOf(disk.mailboxes)
            BY DEF IdsOf, Proper
        <3>3. /\ IdsOf(disk'.mailboxes) \subseteq IdsOf(disk.mailboxes)
              /\ IdsOf(Proper(disk.mailboxes)) \subseteq IdsOf(Proper(disk'.mailboxes))
            <4>1. CASE at[h] \in {"touch", "migrate"}
                <5>1. /\ Proper(disk'.mailboxes) = disk'.mailboxes
                      /\ IdsOf(disk'.mailboxes) = IdsOf(Proper(disk.mailboxes))
                    BY <1>4, <4>1, WriteIds
                <5> QED
                    BY <3>2, <5>1
            <4>2. CASE at[h] \notin {"touch", "migrate"}
                <5>1. disk'.mailboxes = disk.mailboxes
                    BY <1>4, <2>3, <4>2, WriteIds
                <5> QED
                    BY <5>1
            <4> QED
                BY <4>1, <4>2
        <3> QED
            BY <3>1, <3>3, QuietKeeps
    <2> QED
        BY <2>1, <2>2, <2>3
<1>5. ASSUME Crash PROVE Born' /\ Targets' /\ Gone'
    BY <1>1, <1>5, CrashQuiet DEF Crash
<1> QED
    BY <1>2, <1>3, <1>4, <1>5 DEF Next, Serve

(***************************************************************************)
(* The popup's map.                                                        *)
(***************************************************************************)
\* A step that changes no id and ends no refresh.
LEMMA MapKept ==
    ASSUME PopupKnows, popupBoxes' = popupBoxes,
           \A g \in Requests : at'[g] = "idle" => at[g] = "idle",
           \A g \in Requests : at[g] = "refresh" /\ disk.mailboxes = Proper(disk.mailboxes)
                                   => at'[g] = "refresh",
           IdsOf(Proper(disk'.mailboxes)) = IdsOf(Proper(disk.mailboxes)),
           disk.mailboxes = Proper(disk.mailboxes) => disk'.mailboxes = Proper(disk'.mailboxes)
    PROVE  PopupKnows'
    BY DEF PopupKnows

LEMMA MapRight ==
    ASSUME popupBoxes' = IdsOf(Proper(disk'.mailboxes))
    PROVE  PopupKnows'
    BY DEF PopupKnows

LEMMA PopupKept ==
    ASSUME CallsInOrder, Current, PopupKnows, Next
    PROVE  PopupKnows'
<1>1. \A m \in disk.mailboxes : m.account \in Outlook => ~ (disk.mailboxes = Proper(disk.mailboxes))
    BY DEF Proper, Legacy
<1>2. ASSUME NEW h \in Requests, Receive(h) \/ Pairing(h) PROVE PopupKnows'
    <2>1. at \in [Handlers -> Stages \cup Ends \cup {"idle"}] /\ h \in Handlers
        BY DEF CallsInOrder, TypeOK, Handlers
    <2>2. /\ popupBoxes' = popupBoxes /\ disk' = disk /\ at[h] \in {"idle", "pairing"}
          /\ at'[h] # "idle" /\ \A g \in Handlers \ {h} : at'[g] = at[g]
        <3>1. First(Ask[h].op) # "idle"
            BY RequestsAssumption DEF First, Ops
        <3> QED
            BY <1>2, <2>1, <3>1 DEF Receive, Pairing
    <2> QED
        BY <2>2, MapKept DEF Handlers
<1>3. ASSUME NEW c \in Contexts, ReadFails(c) PROVE PopupKnows'
    <2> DEFINE h == Head(pipe[c])
    <2>1. /\ pipe[c] # <<>> /\ Throws(h) /\ Proceed(c, "error")
          /\ disk' = disk /\ popupBoxes' = popupBoxes
        BY <1>3 DEF ReadFails
    <2>2. at'[h] = "error" /\ \A g \in Handlers \ {h} : at'[g] = at[g]
        BY <2>1, ProceedMoves
    <2>3. at[h] = "refresh" => ~ (disk.mailboxes = Proper(disk.mailboxes))
        BY <1>1, <2>1 DEF Throws, Unreadable
    <2> QED
        BY <2>1, <2>2, <2>3, MapKept DEF Handlers
<1>4. ASSUME NEW c \in Contexts, Look(c) PROVE PopupKnows'
    <2> DEFINE h == Head(pipe[c])
    <2>1. CASE at[h] = "refresh"
        <3>1. popupBoxes' = IdsOf(Visible(disk).mailboxes) /\ disk' = disk /\ ~ Throws(h)
            BY <1>4, <2>1 DEF Look
        <3>2. ~ Unreadable(disk)
            BY <2>1, <3>1 DEF Throws, MailboxStages
        <3>3. Visible(disk).mailboxes = Proper(disk.mailboxes)
            BY <3>2, VisibleStore DEF CallsInOrder, TypeOK
        <3> QED
            BY <3>1, <3>3, MapRight
    <2>2. ASSUME at[h] # "refresh", NEW next, next # "idle", Proceed(c, next) PROVE PopupKnows'
        <3>1. pipe[c] # <<>> /\ disk' = disk /\ popupBoxes' = popupBoxes
            BY <1>4, <2>2 DEF Look
        <3>2. at'[h] = next /\ \A g \in Handlers \ {h} : at'[g] = at[g]
            BY <2>2, <3>1, ProceedMoves
        <3> QED
            BY <2>2, <3>1, <3>2, MapKept DEF Handlers
    <2>3. at[h] # "refresh" => \E next \in {"remove", "pairing", "exists", "add", "ok", "ban"} : Proceed(c, next)
        BY <1>4 DEF Look
    <2> QED
        BY <2>1, <2>2, <2>3
<1>5. ASSUME NEW c \in Contexts, Read(c) PROVE PopupKnows'
    BY <1>5, MapKept DEF Read
<1>6. ASSUME NEW c \in Contexts, Write(c) PROVE PopupKnows'
    <2> DEFINE h == Head(pipe[c])
               old == IdsOf(Proper(disk.mailboxes))
               new == disk'.mailboxes
    <2>1. /\ h \in Handlers /\ popupBoxes' = popupBoxes /\ at'[h] = After(h)
          /\ at[h] \in Updates \cup {"reset"} /\ After(h) # "idle"
          /\ \A g \in Handlers \ {h} : at'[g] = at[g]
          /\ at[h] = "remove" => Ask[h].op \in BoxOps
          /\ at[h] # "migrate" => h \in Requests
        BY <1>6, WriteActs DEF Asks, After, BoxOps
    <2>2. /\ at[h] \in {"add", "remove", "touch", "migrate"} => Proper(new) = new
          /\ at[h] \in {"touch", "migrate"} => IdsOf(new) = old
          /\ at[h] \notin {"add", "remove", "touch", "migrate"} => new = disk.mailboxes
        BY <1>6, WriteIds
    <2> HIDE DEF h, old, new
    <2>3. CASE at[h] \in {"add", "remove"}
        <3>1. at'[h] = "refresh" \/ (Ask[h].op = "repair" /\ at'[h] # "idle")
            BY <2>1, <2>3 DEF After
        <3> QED
            BY <2>1, <2>2, <2>3, <3>1 DEF PopupKnows, new
    <2>4. CASE at[h] \notin {"add", "remove"}
        <3>1. at[h] # "refresh"
            BY <2>1 DEF Updates, Locked
        <3>2. /\ IdsOf(Proper(new)) = old
              /\ disk.mailboxes = Proper(disk.mailboxes) => new = Proper(new)
            BY <2>2, <2>4 DEF old
        <3> QED
            BY <2>1, <3>1, <3>2, MapKept DEF Handlers, old, new
    <2> QED
        BY <2>3, <2>4
<1>7. ASSUME Crash PROVE PopupKnows'
    BY <1>7, MapRight DEF Crash, Proper
<1> QED
    BY <1>2, <1>3, <1>4, <1>5, <1>6, <1>7 DEF Next, Serve

(***************************************************************************)
(* The limit of the blacklist.                                             *)
(***************************************************************************)
LEMMA CappedWrite ==
    ASSUME NEW h, NEW s, Capped(s), s \in SettingsRecords, Capped(Default)
    PROVE  Capped(WithSettings(h, s))
<1>1. Cardinality(s.banned) \in Nat /\ Cap \in Nat /\ IsFiniteSet(s.banned)
    BY FS_CardinalityType, BoundsAssumption DEF Capped
<1>2. Capped([s EXCEPT !.banned = Banned(Arg(h), s)])
    <2>1. CASE Cardinality(s.banned) < Cap
        <3>1. /\ IsFiniteSet(s.banned \cup {Arg(h)})
              /\ Cardinality(s.banned \cup {Arg(h)}) =
                     IF Arg(h) \in s.banned THEN Cardinality(s.banned) ELSE Cardinality(s.banned) + 1
            BY <1>1, FS_AddElement
        <3>2. Cardinality(s.banned \cup {Arg(h)}) <= Cap
            BY <1>1, <2>1, <3>1
        <3>3. [s EXCEPT !.banned = Banned(Arg(h), s)].banned = s.banned \cup {Arg(h)}
            BY <2>1 DEF Banned, SettingsRecords
        <3> QED
            BY <3>1, <3>2, <3>3 DEF Capped
    <2>2. CASE ~ (Cardinality(s.banned) < Cap)
        BY <2>2 DEF Banned, SettingsRecords, Capped
    <2> QED
        BY <2>1, <2>2
<1>3. Capped([s EXCEPT !.banned = @ \ {Arg(h)}])
    <2>1. /\ IsFiniteSet(s.banned \ {Arg(h)})
          /\ Cardinality(s.banned \ {Arg(h)}) =
                 IF Arg(h) \in s.banned THEN Cardinality(s.banned) - 1 ELSE Cardinality(s.banned)
        BY <1>1, FS_RemoveElement
    <2>2. Cardinality(s.banned \ {Arg(h)}) <= Cap
        BY <1>1, <2>1 DEF Capped
    <2>3. [s EXCEPT !.banned = @ \ {Arg(h)}].banned = s.banned \ {Arg(h)}
        BY DEF SettingsRecords
    <2> QED
        BY <2>1, <2>2, <2>3 DEF Capped
<1>4. /\ [s EXCEPT !.level = Arg(h)].banned = s.banned
      /\ [s EXCEPT !.timeout = Arg(h)].banned = s.banned
    BY DEF SettingsRecords
<1>5. /\ Capped([s EXCEPT !.level = Arg(h)])
      /\ Capped([s EXCEPT !.timeout = Arg(h)])
    BY <1>4 DEF Capped
<1> QED
    BY <1>2, <1>3, <1>5 DEF WithSettings

LEMMA LimitKept ==
    ASSUME CallsInOrder, Current, Limited, Next
    PROVE  Limited'
<1>1. Capped(Start.settings) /\ Capped(Default)
    BY StartAssumption
<1>2. disk \in StoreRecords /\ seen \in [Handlers -> StoreRecords]
    BY DEF CallsInOrder, TypeOK
<1>3. ASSUME Capped(disk'.settings), \A g \in Handlers : seen'[g] \in {seen[g], Start, disk, Visible(disk)}
      PROVE  Limited'
    <2>1. Visible(disk).settings = disk.settings
        BY <1>2, VisibleStore
    <2>2. \A g \in Handlers : Capped(seen'[g].settings)
        BY <1>1, <1>3, <2>1 DEF Limited
    <2> QED
        BY <1>3, <2>2 DEF Limited
<1>4. Capped(disk.settings)
    BY DEF Limited
<1>5. ASSUME NEW h \in Requests, Receive(h) \/ Pairing(h) PROVE Limited'
    BY <1>3, <1>4, <1>5 DEF Receive, Pairing
<1>6. ASSUME NEW c \in Contexts, pipe[c] # <<>>, NEW next, Proceed(c, next), disk' = disk PROVE Limited'
    <2>1. /\ seen'[Head(pipe[c])] = Start
          /\ \A g \in Handlers \ {Head(pipe[c])} : seen'[g] = seen[g]
        BY <1>6, ProceedMoves
    <2> QED
        BY <1>3, <1>4, <1>6, <2>1
<1>7. ASSUME NEW c \in Contexts, ReadFails(c) PROVE Limited'
    BY <1>6, <1>7 DEF ReadFails
<1>8. ASSUME NEW c \in Contexts, Look(c) PROVE Limited'
    <2>1. \E next \in {"remove", "pairing", "exists", "add", "ok", "ban"} : Proceed(c, next)
        BY <1>8 DEF Look
    <2> QED
        BY <1>6, <1>8, <2>1 DEF Look
<1>9. ASSUME NEW c \in Contexts, Read(c) PROVE Limited'
    <2>1. disk' = disk /\ \A g \in Handlers : seen'[g] \in {seen[g], disk, Visible(disk)}
        BY <1>2, <1>9 DEF Read
    <2> QED
        BY <1>3, <1>4, <2>1
<1>10. ASSUME NEW c \in Contexts, Write(c) PROVE Limited'
    <2> DEFINE h == Head(pipe[c])
               ms == Proper(disk.mailboxes)
    <2>1. /\ h \in Handlers /\ seen'[h] = Start
          /\ \A g \in Handlers \ {h} : seen'[g] = seen[g]
          /\ at[h] = "add" => disk' = [disk EXCEPT !.mailboxes = ms \cup {New(h)}]
          /\ at[h] = "remove" => disk' = [disk EXCEPT !.mailboxes = {m \in ms : m.id # target[h]}]
          /\ at[h] = "touch" => disk' = [disk EXCEPT !.mailboxes = Touched(h, ms)]
          /\ at[h] = "migrate" => disk' = [disk EXCEPT !.mailboxes = ms]
          /\ at[h] = "pref" => disk' = [disk EXCEPT !.prefs = [@ EXCEPT ![Arg(h)] =
                                            IF Ask[h].op = "enable" THEN "on" ELSE "off"]]
          /\ at[h] \notin {"add", "remove", "touch", "migrate", "pref"} =>
                disk' = [disk EXCEPT !.settings = WithSettings(h, seen[h].settings)]
        BY <1>10, WriteActs
    <2> HIDE DEF h, ms
    <2>2. CASE at[h] \in {"add", "remove", "touch", "migrate", "pref"}
        <3>1. disk'.settings = disk.settings
            BY <1>2, <2>1, <2>2 DEF StoreRecords
        <3> QED
            BY <1>3, <1>4, <2>1, <3>1
    <2>3. CASE at[h] \notin {"add", "remove", "touch", "migrate", "pref"}
        <3>1. disk'.settings = WithSettings(h, seen[h].settings)
            BY <1>2, <2>1, <2>3 DEF StoreRecords
        <3>2. Capped(seen[h].settings) /\ seen[h].settings \in SettingsRecords
            BY <1>2, <2>1 DEF Limited, StoreRecords
        <3>3. Capped(disk'.settings)
            BY <1>1, <3>1, <3>2, CappedWrite
        <3> QED
            BY <1>3, <2>1, <3>3
    <2> QED
        BY <2>2, <2>3
<1>11. ASSUME Crash PROVE Limited'
    <2>1. disk' = disk /\ \A g \in Handlers : seen'[g] \in {seen[g], Start}
        BY <1>11 DEF Crash
    <2> QED
        BY <1>3, <1>4, <2>1
<1> QED
    BY <1>5, <1>7, <1>8, <1>9, <1>10, <1>11 DEF Next, Serve

-----------------------------------------------------------------------------
(***************************************************************************)
(* The theorems.                                                           *)
(***************************************************************************)
LEMMA InitSafe ==
    ASSUME Init
    PROVE  IInv
<1>1. CallsInOrder
    BY InitInOrder
<1>2. Requests \subseteq Handlers /\ Migration \notin Requests
    BY RequestsAssumption DEF Handlers
<1>3. disk = Start /\ \A h \in Requests : at[h] = "idle" /\ io[h] = "read"
    BY <1>2 DEF Init
<1>4. \A h \in Handlers : io[h] = "read" /\ seen[h] = Start
    BY DEF Init
<1>5. Current /\ UniqueAccounts
    BY <1>3, <1>4, StartAssumption DEF Current, UniqueAccounts
<1>6. Born
    <2>1. \A h \in Requests : h \notin IdsOf(disk.mailboxes)
        BY <1>3, StartAssumption DEF IdsOf
    <2> QED
        BY <1>3, <2>1 DEF Born, Adders
<1>7. Targets /\ Gone
    BY <1>3 DEF Targets, Gone, Removed
<1>8. PopupKnows
    BY <1>3 DEF Init, PopupKnows, Proper
<1>9. Limited
    BY <1>3, <1>4, StartAssumption DEF Limited
<1> QED
    BY <1>1, <1>5, <1>6, <1>7, <1>8, <1>9 DEF IInv, StoreSafe

LEMMA SafeStep ==
    ASSUME IInv, [Next]_vars
    PROVE  IInv'
<1>1. CallsInOrder'
    BY CallsInOrderStep DEF IInv
<1>2. CASE UNCHANGED vars
    BY <1>1, <1>2 DEF vars, IInv, StoreSafe, Current, Taken, Absent, UniqueAccounts, Born, Targets,
                      Gone, Removed, PopupKnows, Limited
<1>3. CASE Next
    <2>1. Current'
        <3>1. ASSUME NEW c \in Contexts, ReadFails(c) PROVE Current'
            BY <3>1, ProceedCurrent DEF IInv, StoreSafe, ReadFails, Ends
        <3>2. ASSUME NEW c \in Contexts, Look(c) PROVE Current'
            <4> DEFINE h == Head(pipe[c])
            <4>1. \E next \in {"remove", "pairing", "exists", "add", "ok", "ban"} : Proceed(c, next)
                BY <3>2 DEF Look
            <4>2. {"remove", "pairing", "exists", "add", "ok", "ban"} \subseteq Stages \cup Ends
                BY DEF Stages, MailboxStages, Locked, Ends
            <4>3. /\ pipe[c] # <<>> /\ disk' = disk
                  /\ \A g \in Handlers \ {h} : target'[g] = target[g]
                BY <3>2 DEF Look, IInv, CallsInOrder, TypeOK
            <4> QED
                BY <4>1, <4>2, <4>3, ProceedCurrent DEF IInv, StoreSafe
        <3> QED
            BY <1>3, <3>1, <3>2, ReceiveCurrent, ReadCurrent, WriteCurrent, CrashCurrent
               DEF IInv, StoreSafe, Next, Serve
    <2>2. UniqueAccounts'
        <3>1. ASSUME disk' = disk PROVE UniqueAccounts'
            BY <3>1 DEF IInv, StoreSafe, UniqueAccounts
        <3>2. disk' = disk \/ \E c \in Contexts : Write(c)
            BY <1>3 DEF Next, Serve, Receive, Pairing, ReadFails, Look, Read, Crash
        <3> QED
            BY <3>1, <3>2, WriteUnique DEF IInv, StoreSafe
    <2>3. Born' /\ Targets' /\ Gone' /\ PopupKnows' /\ Limited'
        BY <1>3, BoxesKept, PopupKept, LimitKept DEF IInv, StoreSafe
    <2> QED
        BY <1>1, <2>1, <2>2, <2>3 DEF IInv, StoreSafe
<1> QED
    BY <1>2, <1>3

\* Everything the handlers rely on, in every reachable state.
THEOREM Safety == Spec => []IInv
<1>1. Init => IInv
    BY InitSafe
<1>2. IInv /\ [Next]_vars => IInv'
    BY SafeStep
<1> QED
    BY <1>1, <1>2, PTL DEF Spec

\* background/index.ts looks for a Google Messages mailbox before it adds one,
\* outside the mutex: no two stored mailboxes ever share an id or an account.
THEOREM OneMailboxPerAccount == Spec => []UniqueAccounts
<1>1. IInv => UniqueAccounts
    BY DEF IInv, StoreSafe
<1> QED
    BY <1>1, Safety, PTL

\* A mailbox whose request ended well is stored until a request removes it, and
\* one that was removed is not stored again by a writer with an older copy.
THEOREM NothingLostOrRevived == Spec => []MailboxesKept
<1>1. IInv => MailboxesKept
    <2> SUFFICES ASSUME IInv PROVE MailboxesKept
        OBVIOUS
    <2>1. IdsOf(Proper(disk.mailboxes)) \subseteq IdsOf(disk.mailboxes)
        BY DEF IdsOf, Proper
    <2>2. AddedStays
        BY <2>1 DEF IInv, StoreSafe, Born, Adders, AddedStays
    <2>3. RemovedStaysGone
        BY DEF IInv, StoreSafe, Gone, Removed, RemovedStaysGone
    <2> QED
        BY <2>2, <2>3 DEF MailboxesKept
<1> QED
    BY <1>1, Safety, PTL

\* refreshPopupMailboxMap runs after every handler that adds or removes: when
\* none is under way the popup's map is that of the stored mailboxes.
THEOREM PopupFollows == Spec => []PopupAgrees
<1>1. IInv => PopupAgrees
    BY DEF IInv, StoreSafe, PopupKnows, PopupAgrees, Proper, Ends
<1> QED
    BY <1>1, Safety, PTL

\* settingsMutationToTransform checks MAX_BLACKLIST_ENTRIES again inside the
\* mutex: no interleaving of previews and writes exceeds it.
THEOREM BlacklistCapped == Spec => []BansCapped
<1>1. IInv => BansCapped
    BY DEF IInv, StoreSafe, Limited, Capped, BansCapped
<1> QED
    BY <1>1, Safety, PTL

-----------------------------------------------------------------------------
(***************************************************************************)
(* The refinement of AtomicStore, for requests that use the mutex.         *)
(***************************************************************************)
LEMMA ShownStore ==
    /\ Shown = [disk EXCEPT !.mailboxes = Proper(@)]
    /\ Atomic!StoreRecords = StoreRecords /\ Atomic!MailboxRecords = MailboxRecords
    BY DEF Shown, Proper, Atomic!StoreRecords, StoreRecords, Atomic!MailboxRecords, MailboxRecords,
           Atomic!SettingsRecords, SettingsRecords

\* The instance takes its own copy of the operators of FiniteSets.
LEMMA SameCardinality == \A S : Atomic!Cardinality(S) = Cardinality(S)
    BY DEF Atomic!Cardinality, Cardinality

\* Only one mailbox has a given id.
LEMMA OneOfId ==
    ASSUME UniqueAccounts, NEW id \in IdsOf(Proper(disk.mailboxes))
    PROVE  \E m \in Proper(disk.mailboxes) :
               /\ m.id = id /\ \A n \in Proper(disk.mailboxes) : n.id = id => n = m
    BY DEF UniqueAccounts, IdsOf, Proper

LEMMA WriteIsAtomic ==
    ASSUME IInv, Disciplined, NEW c \in Contexts, Write(c)
    PROVE  [Atomic!Next]_Shown
<1> DEFINE h == Head(pipe[c])
           ms == Proper(disk.mailboxes)
           new == disk'.mailboxes
<1>1. /\ h \in Handlers /\ at[h] \in Updates \cup {"reset"}
      /\ at[h] # "migrate" => h \in Requests /\ Asks(at[h], Ask[h].op)
      /\ at[h] = "add" =>
            disk' = [disk EXCEPT !.mailboxes = ms \cup {New(h)}]
            /\ \A m \in ms : m.id # h /\ m.account # AccountOf(h)
      /\ at[h] = "remove" =>
            disk' = [disk EXCEPT !.mailboxes = {m \in ms : m.id # target[h]}]
            /\ target[h] \in IdsOf(ms)
      /\ at[h] = "touch" =>
            disk' = [disk EXCEPT !.mailboxes = Touched(h, ms)] /\ target[h] \in IdsOf(ms)
      /\ at[h] = "migrate" => disk' = [disk EXCEPT !.mailboxes = ms]
      /\ at[h] = "pref" =>
            disk' = [disk EXCEPT !.prefs = [@ EXCEPT ![Arg(h)] =
                         IF Ask[h].op = "enable" THEN "on" ELSE "off"]]
      /\ at[h] \notin {"add", "remove", "touch", "migrate", "pref"} =>
            disk' = [disk EXCEPT !.settings = WithSettings(h, seen[h].settings)]
    BY WriteActs DEF IInv, StoreSafe
<1>2. /\ at[h] \in {"add", "remove", "touch", "migrate"} => Proper(new) = new
      /\ at[h] \notin {"add", "remove", "touch", "migrate"} => new = disk.mailboxes
    BY WriteIds DEF IInv, StoreSafe
<1>3. io[h] = "write" /\ disk \in StoreRecords /\ ms \subseteq MailboxRecords
    BY DEF Write, IInv, CallsInOrder, TypeOK, Proper, StoreRecords
<1>4. /\ Shown.mailboxes = ms /\ Shown.prefs = disk.prefs /\ Shown.settings = disk.settings
      /\ Shown \in StoreRecords
    BY <1>3 DEF Shown, Proper, StoreRecords
<1>5. Shown' = [disk' EXCEPT !.mailboxes = Proper(new)]
    BY DEF Shown, Proper, new
<1>6. UniqueAccounts
    BY DEF IInv, StoreSafe
<1> HIDE DEF h, new
<1>7. ASSUME NEW boxes, disk' = [disk EXCEPT !.mailboxes = boxes], Proper(new) = new
      PROVE  Shown' = [Shown EXCEPT !.mailboxes = boxes]
    BY <1>3, <1>5, <1>7 DEF Shown, StoreRecords, new
<1>8. CASE at[h] = "add"
    <2>1. h \in Ids /\ AccountOf(h) \in Accounts
        BY <1>1, <1>8, RequestsAssumption, ArgumentsAssumption DEF AccountOf, Arg, Accounts
    <2>2. New(h) \in MailboxRecords /\ New(h).id = h /\ New(h).account = AccountOf(h)
        BY <2>1 DEF New, MailboxRecords
    <2> HIDE DEF New, ms
    <2>3. Shown' = [Shown EXCEPT !.mailboxes = ms \cup {New(h)}]
        BY <1>1, <1>2, <1>7, <1>8
    <2>4. \A n \in Shown.mailboxes : n.id # New(h).id /\ n.account # New(h).account
        BY <1>1, <1>4, <1>8, <2>2
    <2>5. Shown' = [Shown EXCEPT !.mailboxes = @ \cup {New(h)}]
        BY <1>4, <2>3
    <2>6. Atomic!Add
        BY <2>2, <2>4, <2>5, ShownStore DEF Atomic!Add
    <2> QED
        BY <2>6 DEF Atomic!Next
<1>9. CASE at[h] = "remove"
    <2>1. PICK m \in ms : m.id = target[h] /\ \A n \in ms : n.id = target[h] => n = m
        BY <1>1, <1>6, <1>9, OneOfId
    <2> HIDE DEF ms
    <2>2. Shown' = [Shown EXCEPT !.mailboxes = {n \in ms : n.id # target[h]}]
        BY <1>1, <1>2, <1>7, <1>9
    <2>3. {n \in ms : n.id # target[h]} = ms \ {m}
        BY <2>1
    <2>4. Shown' = [Shown EXCEPT !.mailboxes = @ \ {m}]
        BY <1>4, <2>2, <2>3
    <2>5. Atomic!Remove
        BY <1>4, <2>1, <2>4, ShownStore DEF Atomic!Remove
    <2> QED
        BY <2>5 DEF Atomic!Next
<1>10. CASE at[h] = "touch"
    <2>1. PICK m \in ms : m.id = target[h] /\ \A n \in ms : n.id = target[h] => n = m
        BY <1>1, <1>6, <1>10, OneOfId
    <2> HIDE DEF ms
    <2>2. Shown' = [Shown EXCEPT !.mailboxes = Touched(h, ms)]
        BY <1>1, <1>2, <1>7, <1>10
    <2>3. Touched(h, ms) = (ms \ {m}) \cup {[m EXCEPT !.synced = TRUE]}
        <3>1. \A n \in ms \ {m} : n.id # target[h]
            BY <2>1
        <3>2. ASSUME NEW x \in Touched(h, ms) PROVE x \in (ms \ {m}) \cup {[m EXCEPT !.synced = TRUE]}
            <4>1. PICK n \in ms : x = IF n.id = target[h] THEN [n EXCEPT !.synced = TRUE] ELSE n
                BY DEF Touched
            <4>2. CASE n = m
                BY <2>1, <4>1, <4>2
            <4>3. CASE n # m
                BY <3>1, <4>1, <4>3
            <4> QED
                BY <4>2, <4>3
        <3>3. ASSUME NEW n \in ms \ {m} PROVE n \in Touched(h, ms)
            <4>1. n = IF n.id = target[h] THEN [n EXCEPT !.synced = TRUE] ELSE n
                BY <3>1
            <4> QED
                BY <4>1 DEF Touched
        <3>4. [m EXCEPT !.synced = TRUE] \in Touched(h, ms)
            <4>1. [m EXCEPT !.synced = TRUE] =
                      IF m.id = target[h] THEN [m EXCEPT !.synced = TRUE] ELSE m
                BY <2>1
            <4> QED
                BY <4>1 DEF Touched
        <3> QED
            BY <3>2, <3>3, <3>4
    <2>4. Shown' = [Shown EXCEPT !.mailboxes = (@ \ {m}) \cup {[m EXCEPT !.synced = TRUE]}]
        BY <1>4, <2>2, <2>3
    <2>5. Atomic!Touch
        BY <1>4, <2>1, <2>4, ShownStore DEF Atomic!Touch
    <2> QED
        BY <2>5 DEF Atomic!Next
<1>11. CASE at[h] = "migrate"
    <2>1. Shown' = [Shown EXCEPT !.mailboxes = ms]
        BY <1>1, <1>2, <1>7, <1>11
    <2>2. Shown' = Shown
        BY <1>4, <2>1 DEF StoreRecords
    <2> QED
        BY <2>2
<1>12. CASE at[h] = "pref"
    <2> DEFINE v == IF Ask[h].op = "enable" THEN "on" ELSE "off"
    <2>1. h \in Requests /\ Arg(h) \in Domains /\ v \in {"on", "off"}
        BY <1>1, <1>12, ArgumentsAssumption DEF Asks, Arg
    <2>2. disk' = [disk EXCEPT !.prefs = [@ EXCEPT ![Arg(h)] = v]]
        BY <1>1, <1>12
    <2> HIDE DEF v
    <2>3. Shown' = [Shown EXCEPT !.prefs[Arg(h)] = v]
        BY <1>3, <1>5, <2>2 DEF Shown, StoreRecords, new
    <2>4. Atomic!Prefer
        BY <2>1, <2>3, ShownStore DEF Atomic!Prefer
    <2> QED
        BY <2>4 DEF Atomic!Next
<1>13. CASE at[h] \in {"ban", "unban"}
    <2> DEFINE s == disk.settings
    <2>1. h \in Requests /\ Arg(h) \in Domains
        BY <1>1, <1>13, ArgumentsAssumption DEF Asks, Arg
    <2>2. seen[h].settings = s
        BY <1>1, <1>3, <1>13 DEF IInv, StoreSafe, Current
    <2>3. disk' = [disk EXCEPT !.settings = WithSettings(h, s)]
        BY <1>1, <1>13, <2>2
    <2>4. Shown' = [Shown EXCEPT !.settings = WithSettings(h, s)]
        BY <1>3, <1>5, <2>3 DEF Shown, StoreRecords, new
    <2>5. CASE at[h] = "unban"
        <3>1. WithSettings(h, s) = [s EXCEPT !.banned = @ \ {Arg(h)}]
            BY <2>5 DEF WithSettings
        <3>2. Shown' = [Shown EXCEPT !.settings.banned = @ \ {Arg(h)}]
            BY <1>4, <2>4, <3>1
        <3>3. Atomic!Unban
            BY <2>1, <3>2, ShownStore DEF Atomic!Unban
        <3> QED
            BY <3>3 DEF Atomic!Next
    <2>6. CASE at[h] = "ban" /\ Cardinality(s.banned) < Cap
        <3>1. WithSettings(h, s) = [s EXCEPT !.banned = @ \cup {Arg(h)}]
            BY <2>6 DEF WithSettings, Banned
        <3>2. Shown' = [Shown EXCEPT !.settings.banned = @ \cup {Arg(h)}]
            BY <1>4, <2>4, <3>1
        <3>3. Cardinality(Shown.settings.banned) < Cap /\ Arg(h) \in Domains
            BY <1>4, <2>1, <2>6
        <3>4. Atomic!Ban
            BY <3>2, <3>3, SameCardinality DEF Atomic!Ban
        <3> QED
            BY <3>4 DEF Atomic!Next
    <2>7. CASE at[h] = "ban" /\ ~ (Cardinality(s.banned) < Cap)
        <3>1. WithSettings(h, s) = [s EXCEPT !.banned = s.banned]
            BY <2>7 DEF WithSettings, Banned
        <3>2. WithSettings(h, s) = s
            BY <1>3, <3>1 DEF StoreRecords, SettingsRecords
        <3>3. Shown' = Shown
            BY <1>4, <2>4, <3>2 DEF StoreRecords
        <3> QED
            BY <3>3
    <2> QED
        BY <1>13, <2>5, <2>6, <2>7
<1>14. at[h] \notin {"level", "timeout", "reset"}
    BY <1>1 DEF Disciplined, Asks
<1> QED
    BY <1>1, <1>8, <1>9, <1>10, <1>11, <1>12, <1>13, <1>14 DEF Updates, Locked

LEMMA InitIsAtomic == Init => Atomic!Init
<1> SUFFICES ASSUME Init PROVE Atomic!Init
    OBVIOUS
<1>1. disk = Start /\ Start \in StoreRecords /\ UniqueAccounts
    BY StartAssumption DEF Init, UniqueAccounts
<1>2. Shown \in StoreRecords /\ Shown.mailboxes = Proper(disk.mailboxes)
    BY <1>1 DEF Shown, StoreRecords, Proper
<1>3. \A m, n \in Shown.mailboxes : m.id = n.id \/ m.account = n.account => m = n
    BY <1>1, <1>2 DEF UniqueAccounts, Proper
<1> QED
    BY <1>2, <1>3, ShownStore DEF Atomic!Init, Atomic!Unique

LEMMA StepIsAtomic ==
    ASSUME Disciplined, IInv, [Next]_vars
    PROVE  [Atomic!Next]_Shown
<1>1. ASSUME disk' = disk PROVE Shown' = Shown
    BY <1>1 DEF Shown
<1>2. disk' = disk \/ \E c \in Contexts : Write(c)
    BY DEF vars, Next, Serve, Receive, Pairing, ReadFails, Look, Read, Crash
<1> QED
    BY <1>1, <1>2, WriteIsAtomic

\* AsyncMutex makes the read-modify-write routines of plaintext-storage.ts
\* atomic: unless a request writes the settings outside the worker's mutex, as
\* SettingsLost has them do, every change of the stored value is one operation
\* on the current value, whatever the interleaving and the restarts.
THEOREM Refinement ==
    ASSUME Disciplined
    PROVE  Spec => AtomicSpec
<1>1. Init => Atomic!Init
    BY InitIsAtomic
<1>2. IInv /\ [Next]_vars => [Atomic!Next]_Shown
    BY StepIsAtomic
<1> QED
    BY <1>1, <1>2, Safety, PTL DEF Spec, AtomicSpec, Atomic!Spec
===============================================================================
