----------------------------- MODULE WatchPort -----------------------------
(***************************************************************************)
(* The watch port between the page and the service worker: the             *)
(* WatchSession objects of one tab's pages (contents/watch-session.ts),    *)
(* the port handlers and per-tab context of background/index.ts, and the   *)
(* sessions the port handlers drive.                                       *)
(*                                                                         *)
(* Sessions are those of SessionController seen from outside: polls are    *)
(* left out, an active session may be decided at any time, unless it is    *)
(* adrift it is decided some time, and storage writes succeed.  Watch w    *)
(* has one port and sends one START_SESSION, so w also names its port and  *)
(* its session.                                                            *)
(***************************************************************************)
EXTENDS Naturals, Sequences, FiniteSets

CONSTANTS
    Watches,      \* WatchSession objects the tab's pages may create
    None,         \* undefined / null
    Sms,          \* whether the sessions ask for SMS: cancelSession then has
                  \* an await before the session leaves the Map
    InOrder,      \* whether messages of different ports keep their order;
                  \* those of one port always do
    MaxCrashes    \* bound: service-worker deaths in a behaviour

ASSUME WatchesAssumption == IsFiniteSet(Watches) /\ None \notin Watches
ASSUME FlagsAssumption == Sms \in BOOLEAN /\ InOrder \in BOOLEAN
ASSUME CrashesAssumption == MaxCrashes \in Nat

VARIABLES
    \* the page
    watch,            \* where each WatchSession stands
    sent,             \* watches that have posted START_SESSION
    known,            \* watches whose sessionId field is set
    activeWatch,
    \* messages to the service worker, and to each port's page end
    up, down,
    \* the service worker
    attached,         \* ports connected, no onDisconnect yet
    port,             \* context.port of the tab
    sessionId,        \* context.sessionId of the tab
    sessionContexts,  \* keys of the sessionContexts Map
    starting,         \* where the START_SESSION handler of each port is
    sessions,         \* keys of the controller's Map
    status,           \* status of each session object; "adrift" is an active
                      \* session that has lost a poll
    deciding,         \* sessions whose verdict is being persisted
    cancels,          \* cancelSession calls that are awaiting something
    \* history
    answers,          \* results each watch acted on
    orphaned,         \* results sent with chrome.tabs.sendMessage
    crashes

page == <<watch, sent, known, activeWatch, answers>>
context == <<attached, port, sessionId, sessionContexts>>
controller == <<starting, sessions, status, deciding, cancels>>
vars == <<page, up, down, context, controller, orphaned, crashes>>

Verdicts == {"filled", "timedout"}
Results == [type : Verdicts \cup {"canceled"}, sid : Watches]
DownMessages == [type : Verdicts \cup {"canceled", "started", "gone"}, sid : Watches]
UpMessages == [from : Watches,
               type : {"connect", "START_SESSION", "STOP_SESSION", "disconnect"}]
Listening == {"open", "filling"}
Running == {"active", "adrift"}
CancelOps == [sid : Watches, kind : {"start", "stop", "disconnect"}, by : Watches,
              at : {"closing", "saving"}]

TypeOK ==
    /\ watch \in [Watches -> {"unborn", "checking", "over"} \cup Listening]
    /\ sent \subseteq Watches
    /\ known \subseteq Watches
    /\ activeWatch \in Watches \cup {None}
    /\ up \in Seq(UpMessages)
    /\ down \in [Watches -> Seq(DownMessages)]
    /\ attached \subseteq Watches
    /\ port \in Watches \cup {None}
    /\ sessionId \in Watches \cup {None}
    /\ sessionContexts \subseteq Watches
    /\ starting \in [Watches -> {"no", "scanning", "saving", "done"}]
    /\ sessions \subseteq Watches
    /\ status \in [Watches -> {"none", "canceled"} \cup Running \cup Verdicts]
    /\ deciding \subseteq Watches
    /\ cancels \subseteq CancelOps
    /\ answers \in [Watches -> SUBSET Results]
    /\ orphaned \subseteq Results
    /\ crashes \in 0 .. MaxCrashes

Init ==
    /\ watch = [w \in Watches |-> "unborn"]
    /\ sent = {}
    /\ known = {}
    /\ activeWatch = None
    /\ up = <<>>
    /\ down = [w \in Watches |-> <<>>]
    /\ attached = {}
    /\ port = None
    /\ sessionId = None
    /\ sessionContexts = {}
    /\ starting = [w \in Watches |-> "no"]
    /\ sessions = {}
    /\ status = [w \in Watches |-> "none"]
    /\ deciding = {}
    /\ cancels = {}
    /\ answers = [w \in Watches |-> {}]
    /\ orphaned = {}
    /\ crashes = 0

Active(s) == s \in sessions /\ status[s] \in Running

-----------------------------------------------------------------------------
(***************************************************************************)
(* The page.                                                               *)
(***************************************************************************)
Says(w, type) == <<[from |-> w, type |-> type]>>

\* cleanup(): the listeners go first, so nothing posted to w is seen any more.
Cleanup(w, messages) ==
    /\ watch' = [watch EXCEPT ![w] = "over"]
    /\ known' = known \ {w}
    /\ up' = up \o messages \o Says(w, "disconnect")
    /\ down' = [down EXCEPT ![w] = <<>>]

\* stop() names no session; before SESSION_STARTED there is none to stop.
StopMessages(w) == IF w \in known THEN Says(w, "STOP_SESSION") ELSE <<>>

\* stop() has nothing to do unless the watch has its port.
Stoppable == activeWatch # None /\ watch[activeWatch] \in Listening

\* startWatch for a field that has no watch: the previous one is stopped.
StartWatch(w) ==
    /\ watch[w] = "unborn"
    /\ \/ /\ Stoppable
          /\ watch' = [watch EXCEPT ![activeWatch] = "over", ![w] = "checking"]
          /\ known' = known \ {activeWatch}
          /\ up' = up \o StopMessages(activeWatch) \o Says(activeWatch, "disconnect")
          /\ down' = [down EXCEPT ![activeWatch] = <<>>]
       \/ /\ ~ Stoppable
          /\ watch' = [watch EXCEPT ![w] = "checking"]
          /\ UNCHANGED <<known, up, down>>
    /\ activeWatch' = w
    /\ UNCHANGED <<sent, answers, context, controller, orphaned, crashes>>

\* stopActiveWatch, when the watched field leaves the document.
StopActiveWatch ==
    /\ activeWatch # None
    /\ IF Stoppable
       THEN Cleanup(activeWatch, StopMessages(activeWatch))
       ELSE UNCHANGED <<watch, known, up, down>>
    /\ activeWatch' = None
    /\ UNCHANGED <<sent, answers, context, controller, orphaned, crashes>>

\* The user closes the chip, which calls stop() on its own watch.
ChipClosed(w) ==
    /\ watch[w] \in Listening
    /\ w \in known
    /\ Cleanup(w, StopMessages(w))
    /\ activeWatch' = IF activeWatch = w THEN None ELSE activeWatch
    /\ UNCHANGED <<sent, answers, context, controller, orphaned, crashes>>

Orders(S) == {q \in [1 .. Cardinality(S) -> S] : \A x \in S : \E i \in DOMAIN q : q[i] = x}

\* beforeunload stops the active watch; the document takes every other along.
PageLeaves ==
    /\ \E w \in Watches : watch[w] \in Listening \cup {"checking"}
    /\ \E q \in Orders({w \in Watches : watch[w] \in Listening}) :
          up' = up \o (IF Stoppable THEN StopMessages(activeWatch) ELSE <<>>)
                   \o [i \in DOMAIN q |-> [from |-> q[i], type |-> "disconnect"]]
    /\ watch' = [w \in Watches |-> IF watch[w] = "unborn" THEN "unborn" ELSE "over"]
    /\ known' = {}
    /\ down' = [w \in Watches |-> <<>>]
    /\ activeWatch' = None
    /\ UNCHANGED <<sent, answers, context, controller, orphaned, crashes>>

Forgets(w) == activeWatch' = IF activeWatch = w THEN None ELSE activeWatch

\* start(): a guardrail vetoes the watch.
Veto(w) ==
    /\ watch[w] = "checking"
    /\ watch' = [watch EXCEPT ![w] = "over"]
    /\ Forgets(w)
    /\ UNCHANGED <<sent, known, answers, up, down, context, controller, orphaned, crashes>>

\* start(): the guardrails pass and the port is opened, whatever stop() was told.
Connects(w) ==
    /\ watch[w] = "checking"
    /\ watch' = [watch EXCEPT ![w] = "open"]
    /\ up' = up \o Says(w, "connect")
    /\ UNCHANGED <<sent, known, activeWatch, answers, down, context, controller,
                   orphaned, crashes>>

\* start(): the settings have been read; a watch that is over has no port.
SettingsLoaded(w) ==
    /\ watch[w] \in Listening
    /\ w \notin sent
    /\ sent' = sent \cup {w}
    /\ up' = up \o Says(w, "START_SESSION")
    /\ UNCHANGED <<watch, known, activeWatch, answers, down, context, controller,
                   orphaned, crashes>>

\* Variant: a disconnected port leaves the watch as it was.
BugDisconnectIgnored(w) == UNCHANGED <<watch, known, activeWatch>>

\* handlePortDisconnect, when the service worker is gone.
PortGone(w) ==
    /\ watch' = [watch EXCEPT ![w] = "over"]
    /\ known' = known \ {w}
    /\ Forgets(w)

\* handlePortMessage.  A result is taken whatever session it names.
Receive(w) ==
    /\ watch[w] \in Listening
    /\ down[w] # <<>>
    /\ LET m == Head(down[w])
           Takes == down' = [down EXCEPT ![w] = Tail(@)]
           Answers == answers' = [answers EXCEPT ![w] = @ \cup {m}]
       IN  \/ /\ m.type = "started"
              /\ known' = known \cup {w}
              /\ Takes
              /\ UNCHANGED <<watch, up, activeWatch, answers>>
           \/ /\ m.type \in Verdicts \cup {"canceled"}
              /\ watch[w] = "filling"
              /\ Takes
              /\ UNCHANGED <<watch, known, up, activeWatch, answers>>
           \/ /\ m.type = "filled"
              /\ watch[w] = "open"
              /\ watch' = [watch EXCEPT ![w] = "filling"]
              /\ Takes
              /\ Answers
              /\ UNCHANGED <<known, up, activeWatch>>
           \/ /\ m.type \in {"timedout", "canceled"}
              /\ watch[w] = "open"
              /\ Cleanup(w, <<>>)
              /\ Forgets(w)
              /\ Answers
           \/ /\ m.type = "gone"
              /\ PortGone(w)
              /\ down' = [down EXCEPT ![w] = <<>>]
              /\ UNCHANGED <<up, answers>>
    /\ UNCHANGED <<sent, context, controller, orphaned, crashes>>

\* handleCodeFoundWithAutofill has settled.
FillEnds(w) ==
    /\ watch[w] = "filling"
    /\ Cleanup(w, <<>>)
    /\ Forgets(w)
    /\ UNCHANGED <<sent, answers, context, controller, orphaned, crashes>>

-----------------------------------------------------------------------------
(***************************************************************************)
(* The service worker: results on their way to the page.                   *)
(***************************************************************************)
\* postMessage on the port of w: an end that is gone receives nothing.
Delivered(w, m) ==
    IF w # None /\ watch[w] \in Listening
    THEN [down EXCEPT ![w] = Append(@, m)]
    ELSE down

\* Variant: the port is not used.
BugTellsTab(s, type) ==
    /\ orphaned' = orphaned \cup {[type |-> type, sid |-> s]}
    /\ UNCHANGED down

\* deliverSessionCompletion: to the port the tab's context has now; without a
\* context or a port to the tab, where the content script has no listener.
Deliver(s, type) ==
    LET m == [type |-> type, sid |-> s]
    IN  IF s \in sessionContexts /\ port # None
        THEN down' = Delivered(port, m) /\ UNCHANGED orphaned
        ELSE orphaned' = orphaned \cup {m} /\ UNCHANGED down

\* Variant: the Map entry goes, the context keeps naming the session.
BugContextKept(s) == sessionContexts' = sessionContexts \ {s} /\ UNCHANGED sessionId

\* cleanupSessionContext
CleanupContext(s) ==
    /\ sessionContexts' = sessionContexts \ {s}
    /\ sessionId' = IF sessionId = s THEN None ELSE sessionId

\* cancelSession up to its first await, for a session in the Map.
BeginCancel(s, kind, by) ==
    LET Call(step) == [sid |-> s, kind |-> kind, by |-> by, at |-> step]
    IN  /\ s \in sessions
        /\ status' = IF status[s] \in Running THEN [status EXCEPT ![s] = "canceled"] ELSE status
        /\ IF Sms
           THEN cancels' = cancels \cup {Call("closing")} /\ UNCHANGED sessions
           ELSE cancels' = cancels \cup {Call("saving")} /\ sessions' = sessions \ {s}

CancelCloses(c) ==
    /\ c.at = "closing"
    /\ sessions' = sessions \ {c.sid}
    /\ cancels' = (cancels \ {c}) \cup {[sid |-> c.sid, kind |-> c.kind, by |-> c.by, at |-> "saving"]}
    /\ UNCHANGED <<page, up, down, context, starting, status, deciding, orphaned, crashes>>

\* The STOP_SESSION handler then drops whatever session the context names.
CancelSaved(c) ==
    /\ c.at = "saving"
    /\ cancels' = cancels \ {c}
    /\ Deliver(c.sid, "canceled")
    /\ \/ /\ c.kind = "stop"
          /\ sessionContexts' = sessionContexts \ {c.sid, sessionId}
          /\ sessionId' = None
       \/ /\ c.kind # "stop"
          /\ CleanupContext(c.sid)
    /\ UNCHANGED <<page, up, attached, port, starting, sessions, status, deciding, crashes>>

\* A poll is skipped, because another one is capturing a baseline, or claimed
\* before initialize has loaded its session: its index is never completed, so
\* the polls that are left need not decide the session.  The next worker
\* schedules the poll again.
LosePoll(s) ==
    /\ s \in sessions /\ status[s] = "active"
    /\ starting[s] = "done"
    /\ status' = [status EXCEPT ![s] = "adrift"]
    /\ UNCHANGED <<page, up, down, context, starting, sessions, deciding, cancels, orphaned,
                   crashes>>

\* A poll reaches a verdict and persists it; then it is reported.
Decide(s, verdict) ==
    /\ Active(s)
    /\ starting[s] = "done"
    /\ status' = [status EXCEPT ![s] = verdict]
    /\ deciding' = deciding \cup {s}
    /\ UNCHANGED <<page, up, down, context, starting, sessions, cancels, orphaned, crashes>>

VerdictSaved(s) ==
    /\ s \in deciding
    /\ deciding' = deciding \ {s}
    /\ Deliver(s, status[s])
    /\ CleanupContext(s)
    /\ UNCHANGED <<page, up, attached, port, starting, sessions, status, cancels, crashes>>

-----------------------------------------------------------------------------
(***************************************************************************)
(* The service worker: messages of the page.                               *)
(***************************************************************************)
\* The next message from w, with InOrder the next message of all.
Takes(w, type) ==
    \E i \in DOMAIN up :
        /\ up[i] = [from |-> w, type |-> type]
        /\ \A j \in 1 .. i - 1 : ~ InOrder /\ up[j].from # w
        /\ up' = SubSeq(up, 1, i - 1) \o SubSeq(up, i + 1, Len(up))

ConnectArrives(w) ==
    /\ Takes(w, "connect")
    /\ attached' = attached \cup {w}
    /\ port' = w
    /\ UNCHANGED <<page, down, sessionId, sessionContexts, controller, orphaned, crashes>>

\* startSession's loop over the tab's active sessions, then the new session.
CancelsOrCreates(w) ==
    \/ /\ \E e \in sessions : Active(e) /\ BeginCancel(e, "start", w)
       /\ starting' = [starting EXCEPT ![w] = "scanning"]
    \/ /\ ~ \E e \in sessions : Active(e)
       /\ sessions' = sessions \cup {w}
       /\ status' = [status EXCEPT ![w] = "active"]
       /\ starting' = [starting EXCEPT ![w] = "saving"]
       /\ UNCHANGED cancels

StartArrives(w) ==
    /\ Takes(w, "START_SESSION")
    /\ CancelsOrCreates(w)
    /\ UNCHANGED <<page, down, context, deciding, orphaned, crashes>>

ScanResumes(w) ==
    /\ starting[w] = "scanning"
    /\ ~ \E c \in cancels : c.kind = "start" /\ c.by = w
    /\ CancelsOrCreates(w)
    /\ UNCHANGED <<page, up, down, context, deciding, orphaned, crashes>>

\* Variant: the context is not told its session.
BugNotNamed(w) ==
    /\ sessionContexts' = (sessionContexts \ {sessionId}) \cup {w}
    /\ UNCHANGED sessionId

\* "Replace existing session mapping if necessary"
ReplaceMapping(w) ==
    /\ sessionContexts' = (sessionContexts \ {sessionId}) \cup {w}
    /\ sessionId' = w

\* startSession returns to the handler, which renames the tab's session and
\* answers on the port the request came from.
StartSaved(w) ==
    /\ starting[w] = "saving"
    /\ starting' = [starting EXCEPT ![w] = "done"]
    /\ ReplaceMapping(w)
    /\ down' = Delivered(w, [type |-> "started", sid |-> w])
    /\ UNCHANGED <<page, up, attached, port, sessions, status, deciding, cancels,
                   orphaned, crashes>>

StopArrives(w) ==
    /\ Takes(w, "STOP_SESSION")
    /\ \/ /\ BeginCancel(sessionId, "stop", w)
          /\ UNCHANGED <<sessionId, sessionContexts>>
       \/ /\ sessionId \notin sessions
          /\ sessionContexts' = sessionContexts \ {sessionId}
          /\ sessionId' = None
          /\ UNCHANGED <<sessions, status, cancels>>
    /\ UNCHANGED <<page, down, attached, port, starting, deciding, orphaned, crashes>>

\* Variant: the port is only dropped along with a session.
BugPortKept == port' = IF sessionId = None THEN port ELSE None

DropPort == port' = None

\* onDisconnect: only the tab's current port cancels the tab's session.
DisconnectArrives(w) ==
    /\ Takes(w, "disconnect")
    /\ attached' = attached \ {w}
    /\ \/ /\ port = w
          /\ DropPort
          /\ \/ BeginCancel(sessionId, "disconnect", w)
             \/ sessionId \notin sessions /\ UNCHANGED <<sessions, status, cancels>>
       \/ port # w /\ UNCHANGED <<port, sessions, status, cancels>>
    /\ UNCHANGED <<page, down, sessionId, sessionContexts, starting, deciding, orphaned,
                   crashes>>

(***************************************************************************)
(* The worker dies: its ports disconnect, its Maps and calls are gone, and *)
(* the next worker, woken by an alarm or a connect under way, resumes the  *)
(* sessions that storage holds as active.  A write under way may or may    *)
(* not have been made.                                                     *)
(***************************************************************************)
Unsaved == deciding \cup {c.sid : c \in cancels} \cup {w \in sessions : starting[w] = "saving"}

\* The next worker schedules the polls of what it resumes, lost ones again.
Resumed(resumed) == [w \in Watches |-> IF w \in resumed THEN "done" ELSE "no"]

Crash ==
    /\ crashes < MaxCrashes
    /\ crashes' = crashes + 1
    /\ up' = SelectSeq(up, LAMBDA m : m.from \notin attached)
    /\ down' = [w \in Watches |->
                   IF w \in attached /\ watch[w] \in Listening
                   THEN Append(down[w], [type |-> "gone", sid |-> w])
                   ELSE down[w]]
    /\ attached' = {}
    /\ port' = None
    /\ sessionId' = None
    /\ sessionContexts' = {}
    /\ \E lucky \in SUBSET Unsaved :
          LET resumed == {s \in sessions : Active(s) /\ s \notin Unsaved} \cup lucky
          IN  /\ sessions' = resumed
              /\ status' = [s \in Watches |-> IF s \in resumed THEN "active" ELSE "none"]
              /\ starting' = Resumed(resumed)
    /\ deciding' = {}
    /\ cancels' = {}
    /\ UNCHANGED <<page, orphaned>>

-----------------------------------------------------------------------------
PageStep(w) ==
    Veto(w) \/ Connects(w) \/ SettingsLoaded(w) \/ Receive(w) \/ FillEnds(w)

WorkerStep(w) ==
    \/ ConnectArrives(w)
    \/ StartArrives(w)
    \/ ScanResumes(w)
    \/ StartSaved(w)
    \/ StopArrives(w)
    \/ DisconnectArrives(w)
    \/ VerdictSaved(w)

CancelStep(c) == CancelCloses(c) \/ CancelSaved(c)

Next ==
    \/ \E w \in Watches : StartWatch(w) \/ ChipClosed(w)
    \/ StopActiveWatch
    \/ PageLeaves
    \/ \E w \in Watches : PageStep(w)
    \/ \E w \in Watches : WorkerStep(w)
    \/ \E c \in cancels : CancelStep(c)
    \/ \E s \in Watches : LosePoll(s) \/ \E verdict \in Verdicts : Decide(s, verdict)
    \/ Crash

Spec == Init /\ [][Next]_vars

\* Messages arrive, promises settle, and a session that has lost no poll is
\* decided by its last one at the latest (EndsUnlessPollLost of
\* SessionController).  No user has to start or stop anything.
Fairness ==
    /\ \A w \in Watches : WF_vars(PageStep(w)) /\ WF_vars(WorkerStep(w))
    /\ \A c \in CancelOps : WF_vars(c \in cancels /\ CancelStep(c))
    /\ \A s \in Watches : WF_vars(status[s] = "active" /\ Decide(s, "timedout"))

FairSpec == Spec /\ Fairness

-----------------------------------------------------------------------------
(***************************************************************************)
(* What holds.                                                             *)
(***************************************************************************)
\* The sessionContexts Map and context.sessionId, which five handlers update
\* separately, always name the same session of the tab (one context per tab).
MapsAgree == sessionContexts = {sessionId} \ {None}

\* The context never points at a port that has disconnected, so a result is
\* never posted into a closed port (attachPort, onDisconnect).
PortIsOpen == port # None => port \in attached

Alone(w) == \A v \in Watches \ {w} : watch[v] = "unborn"

\* chrome.tabs.sendMessage is only tried for a result when the watch is over,
\* the worker that knew its port has died, or the tab has had another watch.
FallbackJustified ==
    \A m \in orphaned : crashes > 0 \/ watch[m.sid] = "over" \/ ~ Alone(m.sid)

\* A session that was started on the tab's port and whose watch is over ends by
\* the port's disconnect, also if it has lost a poll and no timeout ends it;
\* unless the worker dies, with the context that names the session, or the tab
\* has another watch.
AbandonedEnds ==
    \A s \in Watches :
        watch[s] = "over" /\ port = s /\ starting[s] = "done" /\ Active(s)
            ~> (~ Active(s) \/ crashes > 0 \/ ~ Alone(s))

\* A watch that runs its guardrails ends by itself, even when the worker dies
\* under it, unless its session loses a poll or the tab starts another watch.
WatchEnds ==
    \A w \in Watches :
        watch[w] = "checking" ~> (watch[w] = "over" \/ status[w] = "adrift" \/ ~ Alone(w))
=============================================================================
