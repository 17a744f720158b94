------------------------- MODULE SessionController -------------------------
(***************************************************************************)
(* The watch-session state machine of the background service worker        *)
(* (extension/src/background/session-controller.ts), on top of the         *)
(* dual-timer scheduler of SessionPoller.                                  *)
(*                                                                         *)
(* JavaScript runs one turn at a time: an action is the code between two   *)
(* awaits that leave the event loop (storage, adapters, chrome.tabs), with *)
(* every synchronous call it makes.  A worker may be killed between any    *)
(* two actions; chrome.storage.session and chrome.alarms survive that.     *)
(***************************************************************************)
EXTENDS SessionPoller, Sequences

CONSTANTS
    Tabs,          \* browser tabs that ask for a watch
    NoTab,         \* the tab of a session id that is not handed out yet
    SmsDetected,   \* whether the watched fields ask for SMS: a set of Booleans
    Deadline,      \* first elapsed[s] at or past startedAt + effectiveTimeout
    MaxCrashes,    \* bound: service-worker deaths in a behaviour
    MaxFailures    \* bound: rejected chrome.storage.session writes

ASSUME SessionsAssumption == Sessions \cap {"stop", "disconnect"} = {}
ASSUME TabsAssumption == NoTab \notin Tabs
ASSUME SmsAssumption == SmsDetected \subseteq BOOLEAN
ASSUME DeadlineAssumption == Deadline \in {LastIndex, NPolls}
ASSUME BoundsAssumption == MaxCrashes \in Nat /\ MaxFailures \in Nat

VARIABLES
    worker,      \* the service worker: "down", "loading" (initialize is awaiting storage), "up"
    sessions,    \* keys of the sessions Map
    session,     \* the SessionState objects: status and pollsCompleted
    stored,      \* chrome.storage.session
    booting,     \* what initialize has read from storage and not merged yet
    request,     \* tab and channel of each startSession call
    start,       \* where each startSession call is
    cancels,     \* cancelSession calls that are awaiting something
    handler,     \* where the handlePoll call of each poll is
    baselineCapturing,  \* the in-flight poll sentinel
    reports,     \* results given to onSessionCompleted, in order
    crashes, failures

controllerVars == <<worker, sessions, session, stored, booting, request, start,
                    cancels, handler, baselineCapturing, reports, crashes, failures>>
vars == <<pollerVars, controllerVars>>

Ended == {"filled", "timedout", "canceled"}

\* pollsCompleted is an array that may hold an index twice: the set of its
\* members (what includes() sees) and its length are all the code looks at.
SessionState == [status : {"none", "active"} \cup Ended,
                 completed : SUBSET Index,
                 count : Nat]
NoSession == [status |-> "none", completed |-> {}, count |-> 0]
NewSession == [status |-> "active", completed |-> {}, count |-> 0]

NoRequest == [tab |-> NoTab, sms |-> FALSE]
StartSteps == {"idle", "scanning", "saving", "done", "failed", "over"}
UserCancels == {"stop", "disconnect"}
CancelOps == [sid : Sessions, by : Sessions \cup UserCancels,
              at : {"closing", "saving", "failing"}]
PollVerdicts == {"filled", "timedout"}
HandlerStates ==
    [at : {"idle", "fetching", "polling", "failing", "done"}, verdict : {"none"}]
    \cup [at : {"closing", "ending"}, verdict : PollVerdicts]
At(step, verdict) == [at |-> step, verdict |-> verdict]
Idle == At("idle", "none")

TypeOK ==
    /\ PollerTypeOK
    /\ worker \in {"down", "loading", "up"}
    /\ sessions \subseteq Sessions
    /\ session \in [Sessions -> SessionState]
    /\ stored \in [Sessions -> SessionState]
    /\ booting \in [Sessions -> SessionState]
    /\ request \in [Sessions -> [tab : Tabs \cup {NoTab}, sms : BOOLEAN]]
    /\ start \in [Sessions -> StartSteps]
    /\ cancels \subseteq CancelOps
    /\ handler \in [Polls -> HandlerStates]
    /\ baselineCapturing \subseteq Sessions
    /\ reports \in [Sessions -> Seq(Ended)]
    /\ crashes \in 0 .. MaxCrashes
    /\ failures \in 0 .. MaxFailures

Init ==
    /\ PollerInit
    /\ worker = "loading"
    /\ sessions = {}
    /\ session = [s \in Sessions |-> NoSession]
    /\ stored = [s \in Sessions |-> NoSession]
    /\ booting = [s \in Sessions |-> NoSession]
    /\ request = [s \in Sessions |-> NoRequest]
    /\ start = [s \in Sessions |-> "idle"]
    /\ cancels = {}
    /\ handler = [p \in Polls |-> Idle]
    /\ baselineCapturing = {}
    /\ reports = [s \in Sessions |-> <<>>]
    /\ crashes = 0
    /\ failures = 0

Active(s) == s \in sessions /\ session[s].status = "active"

Report(s, verdict) == reports' = [reports EXCEPT ![s] = Append(@, verdict)]

\* persistSessions: the whole Map as it is at the call, or a rejected write.
Snapshot(members, objects) ==
    [s \in Sessions |-> IF s \in members THEN objects[s] ELSE NoSession]

Persist(ok) ==
    IF ok
    THEN stored' = Snapshot(sessions', session') /\ UNCHANGED failures
    ELSE /\ failures < MaxFailures
         /\ failures' = failures + 1
         /\ UNCHANGED stored

-----------------------------------------------------------------------------
(***************************************************************************)
(* cancelSession.  An SMS session first awaits closeIfOwned, still in the  *)
(* Map; then it leaves the poller, the Map and the storage, and the cancel *)
(* is reported whatever the status was.                                    *)
(***************************************************************************)
Forget(s, by) ==
    /\ CancelPolls(s)
    /\ sessions' = sessions \ {s}
    /\ \E ok \in BOOLEAN :
          /\ Persist(ok)
          /\ cancels' = (cancels \ {[sid |-> s, by |-> by, at |-> "closing"]})
                \cup {[sid |-> s, by |-> by, at |-> IF ok THEN "saving" ELSE "failing"]}

\* Variant: the status is overwritten whatever it was.
BugCancelOverwrites(s, by) ==
    /\ s \in sessions
    /\ session' = [session EXCEPT ![s].status = "canceled"]
    /\ IF request[s].sms
       THEN /\ cancels' = cancels \cup {[sid |-> s, by |-> by, at |-> "closing"]}
            /\ UNCHANGED <<pollerVars, sessions, stored, failures>>
       ELSE Forget(s, by)
    /\ UNCHANGED <<worker, booting, handler, baselineCapturing, reports, crashes>>

BeginCancel(s, by) ==
    /\ s \in sessions
    /\ session' = IF session[s].status = "active"
                  THEN [session EXCEPT ![s].status = "canceled"]
                  ELSE session
    /\ IF request[s].sms
       THEN /\ cancels' = cancels \cup {[sid |-> s, by |-> by, at |-> "closing"]}
            /\ UNCHANGED <<pollerVars, sessions, stored, failures>>
       ELSE Forget(s, by)
    /\ UNCHANGED <<worker, booting, handler, baselineCapturing, reports, crashes>>

CancelCloses(c) ==
    /\ UNCHANGED <<worker, session, booting, request, start, handler,
                   baselineCapturing, reports, crashes>>
    /\ c.at = "closing"
    /\ Forget(c.sid, c.by)

CancelSaved(c) ==
    /\ c.at = "saving"
    /\ cancels' = cancels \ {c}
    /\ Report(c.sid, "canceled")
    /\ UNCHANGED <<pollerVars, worker, sessions, session, stored, booting, request,
                   start, handler, baselineCapturing, crashes, failures>>

\* The rejection reaches the caller: a startSession rejects with it, before
\* it has made an id.
CancelFails(c) ==
    /\ c.at = "failing"
    /\ cancels' = cancels \ {c}
    /\ start' = [s \in Sessions |-> IF s = c.by THEN "idle" ELSE start[s]]
    /\ request' = [s \in Sessions |-> IF s = c.by THEN NoRequest ELSE request[s]]
    /\ UNCHANGED <<pollerVars, worker, sessions, session, stored, booting,
                   handler, baselineCapturing, reports, crashes, failures>>

\* STOP_SESSION, or the watch port going away, for the session the tab's
\* context names: from SESSION_STARTED until its first result is delivered.
UserCancel(s, by) ==
    /\ worker # "down"
    /\ start[s] = "done"
    /\ reports[s] = <<>>
    /\ ~ \E c \in cancels : c.sid = s /\ c.by \in {by, "disconnect"}
    /\ BeginCancel(s, by)
    /\ UNCHANGED <<request, start>>

-----------------------------------------------------------------------------
(***************************************************************************)
(* startSession(s) for a tab: cancel the tab's active sessions one by one, *)
(* awaiting each, then create s, persist it and arm its polls.  The loop   *)
(* iterates over the live Map: an entry added while a cancel is awaited is *)
(* visited too.                                                            *)
(***************************************************************************)
\* Variant: a session becomes visible to the loop once its start is persisted.
BugVictimsPersisted(tab) ==
    {e \in sessions : Active(e) /\ request[e].tab = tab /\ start[e] # "saving"}

Victims(tab) == {e \in sessions : Active(e) /\ request[e].tab = tab}

CancelVictim(s, tab) ==
    /\ \E e \in Victims(tab) : BeginCancel(e, s)
    /\ start' = [start EXCEPT ![s] = "scanning"]

CreateSession(s, tab) ==
    /\ Victims(tab) = {}
    /\ sessions' = sessions \cup {s}
    /\ session' = [session EXCEPT ![s] = NewSession]
    /\ \E ok \in BOOLEAN :
          /\ Persist(ok)
          /\ start' = [start EXCEPT ![s] = IF ok THEN "saving" ELSE "failed"]
    /\ UNCHANGED <<pollerVars, worker, booting, cancels, handler, baselineCapturing,
                   reports, crashes>>

StartSession(s, tab, sms) ==
    /\ worker # "down"
    /\ start[s] = "idle"
    /\ request' = [request EXCEPT ![s] = [tab |-> tab, sms |-> sms]]
    /\ CancelVictim(s, tab) \/ CreateSession(s, tab)

\* The cancel the loop was awaiting has settled.
ScanResumes(s) ==
    /\ start[s] = "scanning"
    /\ ~ \E c \in cancels : c.by = s
    /\ CancelVictim(s, request[s].tab) \/ CreateSession(s, request[s].tab)
    /\ UNCHANGED request

StartSaved(s) ==
    /\ start[s] = "saving"
    /\ start' = [start EXCEPT ![s] = "done"]
    /\ SchedulePolls({s})
    /\ UNCHANGED <<worker, sessions, session, stored, booting, request, cancels,
                   handler, baselineCapturing, reports, crashes, failures>>

-----------------------------------------------------------------------------
(***************************************************************************)
(* handlePoll, up to its first await.                                      *)
(***************************************************************************)
\* Variant: pollsCompleted is not consulted.
BugPollableAgain(p) == Active(p[1])

Pollable(p) == Active(p[1]) /\ p[2] \notin session[p[1]].completed

HandlePoll(p) ==
    handler' = IF Pollable(p)
               THEN [handler EXCEPT ![p] = At("fetching", "none")]
               ELSE handler

TimeoutFires(p) ==
    /\ worker # "down"
    /\ TimeoutDue(p)
    /\ \/ ClaimByTimeout(p) /\ HandlePoll(p)
       \/ DropTimeout(p) /\ UNCHANGED handler
    /\ UNCHANGED <<worker, sessions, session, stored, booting, request, start,
                   cancels, baselineCapturing, reports, crashes, failures>>

\* The event also wakes the worker, and then arrives before initialize has
\* its sessions: the listener is registered first.
AlarmFires(p) ==
    /\ worker # "down"
    /\ p \in alarms
    /\ Due(p)
    /\ \/ ClaimByAlarm(p) /\ HandlePoll(p)
       \/ DropAlarm(p) /\ UNCHANGED handler
    /\ UNCHANGED <<worker, sessions, session, stored, booting, request, start,
                   cancels, baselineCapturing, reports, crashes, failures>>

-----------------------------------------------------------------------------
(***************************************************************************)
(* handlePoll after the await of pollForCode.                              *)
(***************************************************************************)
Goto(p, step, verdict) == handler' = [handler EXCEPT ![p] = At(step, verdict)]

\* handlePoll returns without another effect.
Leave(p) == Goto(p, "done", "none") /\ UNCHANGED <<session, stored, failures>>

\* pollsCompleted.push(pollIndex)
Mark(state, i) == [status |-> state.status,
                   completed |-> state.completed \cup {i},
                   count |-> state.count + 1]

\* Variant: the rejection is swallowed and the verdict reported.
BugSaveIgnored(p, verdict) ==
    \E ok \in BOOLEAN : Persist(ok) /\ Goto(p, "ending", verdict)

\* Persist the verdict; a rejected write ends in the catch block, which
\* returns because the status is no longer "active".
SaveVerdict(p, verdict) ==
    \E ok \in BOOLEAN :
        /\ Persist(ok)
        /\ IF ok THEN Goto(p, "ending", verdict) ELSE Goto(p, "done", "none")

\* Decide the verdict; an SMS session awaits closeIfOwned before persisting.
Conclude(p, verdict, state) ==
    /\ session' = [session EXCEPT ![p[1]] = [state EXCEPT !.status = verdict]]
    /\ IF request[p[1]].sms
       THEN Goto(p, "closing", verdict) /\ UNCHANGED <<stored, failures>>
       ELSE SaveVerdict(p, verdict)

\* Variants: the remaining polls are counted one short, and one too many.
BugGivesUpEarly(p, failing) ==
    LET state == Mark(session[p[1]], p[2])
    IN  IF state.count >= NPolls - 1
        THEN Conclude(p, "timedout", state)
        ELSE /\ session' = [session EXCEPT ![p[1]] = state]
             /\ \E ok \in BOOLEAN :
                    Persist(ok) /\ Goto(p, IF ok THEN "done" ELSE failing, "none")

BugNeverGivesUp(p, failing) ==
    LET state == Mark(session[p[1]], p[2])
    IN  IF state.count > NPolls
        THEN Conclude(p, "timedout", state)
        ELSE /\ session' = [session EXCEPT ![p[1]] = state]
             /\ \E ok \in BOOLEAN :
                    Persist(ok) /\ Goto(p, IF ok THEN "done" ELSE failing, "none")

\* An answered poll that found nothing: the last one ends the session, any
\* other is persisted; failing is the step a rejected write leads to.
NothingFound(p, failing) ==
    LET state == Mark(session[p[1]], p[2])
    IN  IF state.count >= NPolls
        THEN Conclude(p, "timedout", state)
        ELSE /\ session' = [session EXCEPT ![p[1]] = state]
             /\ \E ok \in BOOLEAN :
                    Persist(ok) /\ Goto(p, IF ok THEN "done" ELSE failing, "none")

\* A poll that the sentinel turned away ends the session when no later poll
\* can, and otherwise leaves its index unmarked.
SkipEndsSession(p) == p[2] = LastIndex \/ elapsed[p[1]] >= Deadline

AfterSkip(p) ==
    \/ SkipEndsSession(p) /\ Conclude(p, "timedout", session[p[1]])
    \/ ~ SkipEndsSession(p) /\ Leave(p)

\* Variant: the status is not looked at again after the await.
BugNoRecheck(p) == TRUE

StillActive(p) == session[p[1]].status = "active"

\* pollForCode's result reaches handlePoll.
Resume(p, result) ==
    /\ UNCHANGED <<pollerVars, worker, sessions, booting, request, start, cancels,
                   reports, crashes>>
    /\ \/ ~ StillActive(p) /\ Leave(p)
       \/ StillActive(p) /\ result = "skipped" /\ AfterSkip(p)
       \/ /\ StillActive(p)
          /\ result = "code"
          /\ Conclude(p, "filled", Mark(session[p[1]], p[2]))
       \/ StillActive(p) /\ result = "nothing" /\ NothingFound(p, "failing")

\* The storage reads before the sentinel end without a poll: no mailbox, no
\* permitted channel, or an error.
NoPoll(p) ==
    /\ handler[p].at = "fetching"
    /\ UNCHANGED baselineCapturing
    /\ Resume(p, "nothing")

\* Variant: nobody looks at the sentinel.
BugNoSentinel(s) == FALSE

SentinelHeld(s) == s \in baselineCapturing

SkipPoll(p) ==
    /\ handler[p].at = "fetching"
    /\ SentinelHeld(p[1])
    /\ UNCHANGED baselineCapturing
    /\ Resume(p, "skipped")

BeginPolling(p) ==
    /\ handler[p].at = "fetching"
    /\ ~ SentinelHeld(p[1])
    /\ baselineCapturing' = baselineCapturing \cup {p[1]}
    /\ Goto(p, "polling", "none")
    /\ UNCHANGED <<pollerVars, worker, sessions, session, stored, booting, request,
                   start, cancels, reports, crashes, failures>>

\* processPollResult persists the Map before it matches the candidates.
PersistWhilePolling(p) ==
    /\ handler[p].at = "polling"
    /\ stored' = Snapshot(sessions, session)
    /\ UNCHANGED <<pollerVars, worker, sessions, session, booting, request, start,
                   cancels, handler, baselineCapturing, reports, crashes, failures>>

PollAnswers(p, result) ==
    /\ handler[p].at = "polling"
    /\ baselineCapturing' = baselineCapturing \ {p[1]}
    /\ Resume(p, result)

\* The catch block after persistSessions rejected on a poll without a code:
\* it marks the index a second time.
PollFails(p) ==
    /\ UNCHANGED <<pollerVars, worker, sessions, booting, request, start, cancels,
                   baselineCapturing, reports, crashes>>
    /\ handler[p].at = "failing"
    /\ \/ StillActive(p) /\ NothingFound(p, "done")
       \/ ~ StillActive(p) /\ Leave(p)

VerdictCloses(p) ==
    /\ UNCHANGED <<pollerVars, worker, sessions, session, booting, request, start,
                   cancels, baselineCapturing, reports, crashes>>
    /\ handler[p].at = "closing"
    /\ SaveVerdict(p, handler[p].verdict)

VerdictSaved(p) ==
    /\ handler[p].at = "ending"
    /\ CancelPolls(p[1])
    /\ Report(p[1], handler[p].verdict)
    /\ Goto(p, "done", "none")
    /\ UNCHANGED <<worker, sessions, session, stored, booting, request, start,
                   cancels, baselineCapturing, crashes, failures>>

-----------------------------------------------------------------------------
(***************************************************************************)
(* The worker's life.                                                      *)
(***************************************************************************)
Crash ==
    /\ worker # "down"
    /\ crashes < MaxCrashes
    /\ crashes' = crashes + 1
    /\ worker' = "down"
    /\ PollerCrash
    /\ sessions' = {}
    /\ session' = [s \in Sessions |-> NoSession]
    /\ booting' = [s \in Sessions |-> NoSession]
    /\ cancels' = {}
    /\ handler' = [p \in Polls |-> Idle]
    /\ baselineCapturing' = {}
    /\ start' = [s \in Sessions |->
                    IF start[s] \in {"idle", "scanning"} THEN "idle" ELSE "over"]
    /\ request' = [s \in Sessions |->
                    IF start[s] = "scanning" THEN NoRequest ELSE request[s]]
    /\ UNCHANGED <<stored, reports, failures>>

\* An event starts the worker: the script runs, registers its listeners and
\* initialize issues its storage read.
Wake ==
    /\ worker = "down"
    /\ worker' = "loading"
    /\ booting' = stored
    /\ UNCHANGED <<pollerVars, sessions, session, stored, request, start, cancels,
                   handler, baselineCapturing, reports, crashes, failures>>

\* initialize resumes: the active sessions of the snapshot enter the Map.
Restored == {s \in Sessions : booting[s].status = "active"}

FinishLoading ==
    /\ worker = "loading"
    /\ worker' = "up"
    /\ sessions' = sessions \cup Restored
    /\ session' = [s \in Sessions |-> IF s \in Restored THEN booting[s] ELSE session[s]]
    /\ SchedulePolls(Restored)
    /\ booting' = [s \in Sessions |-> NoSession]
    /\ UNCHANGED <<stored, request, start, cancels, handler, baselineCapturing,
                   reports, crashes, failures>>

\* The clock matters to s while a timer, an alarm or a poll of s is waiting.
Tick(s) ==
    /\ \/ PollsOf(s) \cap (timeouts \cup alarms) # {}
       \/ \E p \in PollsOf(s) : handler[p].at \in {"fetching", "polling"}
    /\ AdvanceClock(s)
    /\ UNCHANGED controllerVars

-----------------------------------------------------------------------------
PollStep(p) ==
    \/ NoPoll(p)
    \/ SkipPoll(p)
    \/ BeginPolling(p)
    \/ \E result \in {"code", "nothing"} : PollAnswers(p, result)
    \/ PollFails(p)
    \/ VerdictCloses(p)
    \/ VerdictSaved(p)

StartStep(s) == ScanResumes(s) \/ StartSaved(s)

CancelStep(c) == CancelCloses(c) \/ CancelSaved(c) \/ CancelFails(c)

WorkerStep == Wake \/ FinishLoading

Next ==
    \/ \E s \in Sessions, tab \in Tabs, sms \in SmsDetected : StartSession(s, tab, sms)
    \/ \E s \in Sessions : StartStep(s)
    \/ \E s \in Sessions, by \in UserCancels : UserCancel(s, by)
    \/ \E c \in cancels : CancelStep(c)
    \/ \E p \in Polls : TimeoutFires(p)
    \/ \E p \in Polls : AlarmFires(p)
    \/ \E s \in Sessions : Tick(s)
    \/ \E p \in Polls : PollStep(p)
    \/ \E p \in Polls : PersistWhilePolling(p)
    \/ WorkerStep
    \/ Crash

Spec == Init /\ [][Next]_vars

(***************************************************************************)
(* Timers run, started promises settle, the clock advances, a dead worker  *)
(* is woken by its alarms.  Nothing makes a user start or stop a watch.    *)
(***************************************************************************)
Fairness ==
    /\ \A s \in Sessions : WF_vars(StartStep(s)) /\ WF_vars(Tick(s))
    /\ \A p \in Polls : /\ WF_vars(TimeoutFires(p))
                        /\ WF_vars(AlarmFires(p))
                        /\ WF_vars(PollStep(p))
    /\ \A c \in CancelOps : WF_vars(c \in cancels /\ CancelStep(c))
    /\ WF_vars(WorkerStep)

FairSpec == Spec /\ Fairness

-----------------------------------------------------------------------------
(***************************************************************************)
(* Properties.                                                             *)
(***************************************************************************)

\* At most one poll of a session is between the sentinel and its release, so
\* no two polls capture a baseline of the same session at once (the comment
\* on baselineCapturing); and the sentinel is held exactly while one is.
SentinelExclusive ==
    \A s \in Sessions :
        /\ \A i, j \in Index :
              handler[<<s, i>>].at = "polling" /\ handler[<<s, j>>].at = "polling"
                  => i = j
        /\ s \in baselineCapturing <=> \E i \in Index : handler[<<s, i>>].at = "polling"

\* Starting a watch replaces the tab's watch: two active sessions of one tab
\* never both come from the current worker's startSession calls, however the
\* awaits of concurrent starts interleave.
OneLivePerTab ==
    \A a, b \in sessions :
        /\ a # b
        /\ Active(a) /\ Active(b)
        /\ request[a].tab = request[b].tab
        => "over" \in {start[a], start[b]}

PollReports(s) == {k \in DOMAIN reports[s] : reports[s][k] # "canceled"}

\* Racing polls report one verdict: the re-check after the await lets no
\* second poll of a session report "filled" or "timedout", across restarts too.
OnePollVerdict ==
    \A s \in Sessions : \A j, k \in PollReports(s) : j = k

\* A session whose result was handed to the page is not polled again: it is
\* not active in the Map, and no restart can bring it back from storage.
ReportedNotResumed ==
    \A s \in Sessions :
        reports[s] # <<>> =>
            /\ ~ Active(s)
            /\ stored[s].status # "active"
            /\ booting[s].status # "active"

\* A session times out no earlier than its last scheduled poll, unless a write
\* was rejected.
TimeoutJustified ==
    \A s \in Sessions :
        session[s].status = "timedout" => elapsed[s] >= LastIndex \/ failures > 0

Begins(p) == handler[p].at # "fetching" /\ handler'[p].at = "fetching"

\* The setTimeout and the alarm of a poll never both run it in one life.
PollRunsOnce ==
    [][\A p \in Polls : Begins(p) => handler[p].at = "idle"]_vars

\* A poll whose completion was persisted does not run again after a restart.
NoReplay ==
    [][\A p \in Polls : Begins(p) => p[2] \notin stored[p[1]].completed]_vars

-----------------------------------------------------------------------------
(***************************************************************************)
(* How the pieces of state fit together between two turns; with TypeOK,    *)
(* SentinelExclusive and OneLivePerTab it is an inductive invariant.       *)
(***************************************************************************)
\* A session object exists only for an id that startSession has handed out,
\* and what is stored or being restored belongs to an earlier startSession.
SessionsBorn ==
    \A s \in Sessions :
        /\ s \in sessions => session[s].status # "none"
        /\ session[s].status # "none" =>
               start[s] \notin {"idle", "scanning"} /\ booting[s].status = "none"
        /\ stored[s].status # "none" => start[s] \notin {"idle", "scanning"}
        /\ booting[s].status # "none" => start[s] = "over" /\ worker = "loading"
        /\ worker = "down" => start[s] \in {"idle", "over"} /\ session[s].status = "none"

\* A poll that has begun is claimed for as long as its session can be polled,
\* and one that is delivering a verdict belongs to a decided session.
HandlersClaimed ==
    \A p \in Polls :
        /\ handler[p].at # "idle" =>
               /\ session[p[1]].status # "none"
               /\ Active(p[1]) => p \in executedPolls
        /\ handler[p].at \in {"closing", "ending"} =>
               session[p[1]].status = handler[p].verdict

\* A cancel under way has decided its session; a startSession that waits for
\* one waits for no other, and has not created its session yet.
CancelsDecided ==
    /\ \A c \in cancels : /\ session[c.sid].status \in Ended
                          /\ c.by \in Sessions => start[c.by] = "scanning"
    /\ \A c, d \in cancels : c.by \in Sessions /\ c.by = d.by => c = d

\* A verdict about to be reported is out of reach of a restart.
OutOfReach(s) ==
    /\ session[s].status # "active"
    /\ stored[s].status # "active"
    /\ booting[s].status # "active"

VerdictsDurable ==
    /\ \A s \in Sessions : reports[s] # <<>> =>
          OutOfReach(s) /\ start[s] \notin {"idle", "scanning"}
    /\ \A p \in Polls : handler[p].at = "ending" => OutOfReach(p[1])
    /\ \A c \in cancels : c.at = "saving" => OutOfReach(c.sid)

Coherent == SessionsBorn /\ HandlersClaimed /\ CancelsDecided /\ VerdictsDurable

-----------------------------------------------------------------------------
(***************************************************************************)
(* The controller implements SessionOutcome.                               *)
(***************************************************************************)
Suspended(s) ==
    \/ worker = "down" /\ stored[s].status = "active"
    \/ booting[s].status = "active"

Verdict(s) ==
    CASE session[s].status = "active" -> "open"
      [] session[s].status \in Ended -> session[s].status
      [] OTHER -> IF start[s] # "over" THEN "unborn"
                  ELSE IF Suspended(s) THEN "suspended" ELSE "gone"

Verdicts == [s \in Sessions |-> Verdict(s)]
Announced == {s \in Sessions : reports[s] # <<>>}

Outcome == INSTANCE SessionOutcome
           WITH verdict <- Verdicts, announced <- Announced

\* Every session is decided once and for good: a cancel that arrives after a
\* verdict, a late poll or a restart never changes what was decided.
OutcomeSpec == Outcome!Spec

-----------------------------------------------------------------------------
(***************************************************************************)
(* Liveness.                                                               *)
(***************************************************************************)
\* A poll that ran and was turned away by the sentinel.
Skipped(s) ==
    \E p \in PollsOf(s) : handler[p].at = "done" /\ p[2] \notin session[s].completed

\* A poll that was claimed before initialize had put its session in the Map.
ClaimedTooEarly(s) ==
    \E p \in PollsOf(s) : /\ p \in executedPolls
                          /\ handler[p].at = "idle"
                          /\ p[2] \notin session[s].completed

\* Every watch ends, through restarts too, unless one of its polls was
\* claimed without being answered or a write was rejected.
EndsUnlessPollLost ==
    \A s \in Sessions :
        Active(s) ~> (~ Active(s) \/ Skipped(s) \/ ClaimedTooEarly(s) \/ failures > 0)
=============================================================================
