----------------------- MODULE SessionControllerProofs -----------------------
(***************************************************************************)
(* Machine-checked proofs about SessionController, for every set of        *)
(* sessions and tabs, every schedule length and every bound, in three      *)
(* parts: the types; the safety invariants, from one inductive invariant;  *)
(* and what the controller reports: one verdict of a poll per session, no  *)
(* timeout before the last poll, no poll again that was persisted, and the *)
(* refinement of SessionOutcome, each from that invariant and one of its   *)
(* own.                                                                    *)
(***************************************************************************)
EXTENDS SessionController, FiniteSetTheorems, TLAPS

-----------------------------------------------------------------------------
(***************************************************************************)
(* Type correctness.                                                       *)
(***************************************************************************)
ControllerObjects ==
    /\ session \in [Sessions -> SessionState]
    /\ stored \in [Sessions -> SessionState]
    /\ handler \in [Polls -> HandlerStates]
    /\ failures \in 0 .. MaxFailures

LEMMA NoSessionType == NoSession \in SessionState /\ NewSession \in SessionState
BY DEF NoSession, NewSession, SessionState

LEMMA MarkType ==
    ASSUME NEW state \in SessionState, NEW i \in Index
    PROVE  Mark(state, i) \in SessionState
BY DEF Mark, SessionState

LEMMA StatusType ==
    ASSUME NEW objects \in [Sessions -> SessionState], NEW s \in Sessions,
           NEW status \in {"active"} \cup Ended
    PROVE  [objects EXCEPT ![s].status = status] \in [Sessions -> SessionState]
BY DEF SessionState

LEMMA PollParts ==
    ASSUME NEW p \in Polls
    PROVE  p[1] \in Sessions /\ p[2] \in Index /\ p = <<p[1], p[2]>>
BY DEF Polls

\* persistSessions stores well-formed sessions and spends at most one failure.
LEMMA PersistType ==
    ASSUME failures \in 0 .. MaxFailures, stored \in [Sessions -> SessionState],
           session' \in [Sessions -> SessionState], NEW ok \in BOOLEAN, Persist(ok)
    PROVE  stored' \in [Sessions -> SessionState] /\ failures' \in 0 .. MaxFailures
BY NoSessionType, BoundsAssumption DEF Persist, Snapshot

LEMMA CancelPollsType ==
    ASSUME PollerTypeOK, NEW s \in Sessions, CancelPolls(s)
    PROVE  PollerTypeOK'
BY DEF CancelPolls, ClearAlarms, PollerTypeOK, pollerVars, PollsOf, Polls, Index

LEMMA ForgetType ==
    ASSUME TypeOK, NEW s \in Sessions, NEW by \in Sessions \cup UserCancels,
           session' \in [Sessions -> SessionState], Forget(s, by)
    PROVE  /\ PollerTypeOK'
           /\ sessions' \subseteq Sessions
           /\ stored' \in [Sessions -> SessionState]
           /\ failures' \in 0 .. MaxFailures
           /\ cancels' \subseteq CancelOps
<1>1. PollerTypeOK'
  BY CancelPollsType DEF Forget, TypeOK
<1>2. PICK ok \in BOOLEAN :
        /\ Persist(ok)
        /\ cancels' = (cancels \ {[sid |-> s, by |-> by, at |-> "closing"]})
              \cup {[sid |-> s, by |-> by, at |-> IF ok THEN "saving" ELSE "failing"]}
  BY DEF Forget
<1>3. stored' \in [Sessions -> SessionState] /\ failures' \in 0 .. MaxFailures
  BY <1>2, PersistType DEF TypeOK
<1>4. cancels' \subseteq CancelOps
  BY <1>2 DEF TypeOK, CancelOps
<1> QED
  BY <1>1, <1>3, <1>4 DEF Forget, TypeOK

LEMMA BeginCancelType ==
    ASSUME TypeOK, NEW s \in Sessions, NEW by \in Sessions \cup UserCancels,
           BeginCancel(s, by)
    PROVE  /\ PollerTypeOK'
           /\ sessions' \subseteq Sessions
           /\ session' \in [Sessions -> SessionState]
           /\ stored' \in [Sessions -> SessionState]
           /\ failures' \in 0 .. MaxFailures
           /\ cancels' \subseteq CancelOps
<1>1. session' \in [Sessions -> SessionState]
  <2>1. CASE session[s].status = "active"
    BY <2>1, StatusType DEF BeginCancel, TypeOK, Ended
  <2>2. CASE session[s].status # "active"
    BY <2>2 DEF BeginCancel, TypeOK
  <2> QED
    BY <2>1, <2>2
<1>2. CASE request[s].sms
  BY <1>1, <1>2 DEF BeginCancel, TypeOK, PollerTypeOK, pollerVars, CancelOps
<1>3. CASE ~ request[s].sms
  BY <1>1, <1>3, ForgetType DEF BeginCancel
<1> QED
  BY <1>2, <1>3

LEMMA GotoType ==
    ASSUME TypeOK, NEW p \in Polls, NEW step, NEW verdict,
           At(step, verdict) \in HandlerStates, Goto(p, step, verdict)
    PROVE  handler' \in [Polls -> HandlerStates]
BY DEF Goto, TypeOK

LEMMA HandlerStatesHold ==
    /\ \A step \in {"idle", "fetching", "polling", "failing", "done"} :
          At(step, "none") \in HandlerStates
    /\ \A step \in {"closing", "ending"}, verdict \in PollVerdicts :
          At(step, verdict) \in HandlerStates
BY DEF At, HandlerStates

LEMMA SaveVerdictType ==
    ASSUME TypeOK, NEW p \in Polls, NEW verdict \in PollVerdicts,
           session' \in [Sessions -> SessionState], SaveVerdict(p, verdict)
    PROVE  ControllerObjects'
<1>1. PICK ok \in BOOLEAN :
        /\ Persist(ok)
        /\ IF ok THEN Goto(p, "ending", verdict) ELSE Goto(p, "done", "none")
  BY DEF SaveVerdict
<1>2. stored' \in [Sessions -> SessionState] /\ failures' \in 0 .. MaxFailures
  BY <1>1, PersistType DEF TypeOK
<1>3. handler' \in [Polls -> HandlerStates]
  BY <1>1, GotoType, HandlerStatesHold
<1> QED
  BY <1>2, <1>3 DEF ControllerObjects

LEMMA ConcludeType ==
    ASSUME TypeOK, NEW p \in Polls, NEW verdict \in PollVerdicts,
           NEW state \in SessionState, Conclude(p, verdict, state)
    PROVE  ControllerObjects'
<1>1. session' \in [Sessions -> SessionState]
  BY PollParts DEF Conclude, TypeOK, SessionState, Ended, PollVerdicts
<1>2. CASE request[p[1]].sms
  <2>1. handler' \in [Polls -> HandlerStates]
    BY <1>2, GotoType, HandlerStatesHold DEF Conclude
  <2> QED
    BY <1>1, <1>2, <2>1 DEF Conclude, TypeOK, ControllerObjects
<1>3. CASE ~ request[p[1]].sms
  BY <1>1, <1>3, SaveVerdictType DEF Conclude
<1> QED
  BY <1>2, <1>3

LEMMA NothingFoundType ==
    ASSUME TypeOK, NEW p \in Polls, NEW failing \in {"failing", "done"}, NothingFound(p, failing)
    PROVE  ControllerObjects'
<1> DEFINE state == Mark(session[p[1]], p[2])
<1>1. state \in SessionState
  BY PollParts, MarkType DEF TypeOK
<1>2. CASE state.count >= NPolls
  BY <1>1, <1>2, ConcludeType DEF NothingFound, PollVerdicts
<1>3. CASE ~ (state.count >= NPolls)
  <2>1. session' \in [Sessions -> SessionState]
    BY <1>1, <1>3, PollParts DEF NothingFound, TypeOK
  <2>2. PICK ok \in BOOLEAN :
          Persist(ok) /\ Goto(p, IF ok THEN "done" ELSE failing, "none")
    BY <1>3 DEF NothingFound
  <2>3. stored' \in [Sessions -> SessionState] /\ failures' \in 0 .. MaxFailures
    BY <2>1, <2>2, PersistType DEF TypeOK
  <2>4. handler' \in [Polls -> HandlerStates]
    BY <2>2, GotoType, HandlerStatesHold
  <2> QED
    BY <2>1, <2>3, <2>4 DEF ControllerObjects
<1> QED
  BY <1>2, <1>3

LEMMA ResumeType ==
    ASSUME TypeOK, NEW p \in Polls, NEW result \in {"skipped", "code", "nothing"},
           Resume(p, result)
    PROVE  ControllerObjects' /\ PollerTypeOK'
<1>1. PollerTypeOK'
  BY DEF Resume, TypeOK, PollerTypeOK, pollerVars
<1>2. session[p[1]] \in SessionState /\ Mark(session[p[1]], p[2]) \in SessionState
  BY PollParts, MarkType DEF TypeOK
<1>3. CASE Leave(p)
  BY <1>1, <1>3, GotoType, HandlerStatesHold DEF Leave, TypeOK, ControllerObjects
<1>4. CASE Conclude(p, "timedout", session[p[1]])
  BY <1>1, <1>2, <1>4, ConcludeType DEF PollVerdicts
<1>5. CASE Conclude(p, "filled", Mark(session[p[1]], p[2]))
  BY <1>1, <1>2, <1>5, ConcludeType DEF PollVerdicts
<1>6. CASE NothingFound(p, "failing")
  BY <1>1, <1>6, NothingFoundType
<1> QED
  BY <1>3, <1>4, <1>5, <1>6 DEF Resume, AfterSkip

\* Every step of a poll, before its coverage of the variables it leaves alone.
LEMMA PollStepType ==
    ASSUME TypeOK, NEW p \in Polls, PollStep(p)
    PROVE  TypeOK'
<1>1. ASSUME NoPoll(p) PROVE TypeOK'
  BY <1>1, ResumeType DEF NoPoll, Resume, TypeOK, ControllerObjects
<1>2. ASSUME SkipPoll(p) PROVE TypeOK'
  BY <1>2, ResumeType DEF SkipPoll, Resume, TypeOK, ControllerObjects
<1>3. ASSUME BeginPolling(p) PROVE TypeOK'
  <2>1. handler' \in [Polls -> HandlerStates]
    BY <1>3, GotoType, HandlerStatesHold DEF BeginPolling
  <2> QED
    BY <1>3, <2>1, PollParts DEF BeginPolling, TypeOK, PollerTypeOK, pollerVars
<1>4. ASSUME NEW result \in {"code", "nothing"}, PollAnswers(p, result) PROVE TypeOK'
  BY <1>4, ResumeType DEF PollAnswers, Resume, TypeOK, ControllerObjects
<1>5. ASSUME PollFails(p) PROVE TypeOK'
  <2>1. ControllerObjects'
    BY <1>5, NothingFoundType, GotoType, HandlerStatesHold
       DEF PollFails, Leave, TypeOK, ControllerObjects
  <2> QED
    BY <1>5, <2>1 DEF PollFails, TypeOK, PollerTypeOK, pollerVars, ControllerObjects
<1>6. ASSUME VerdictCloses(p) PROVE TypeOK'
  <2>1. handler[p].verdict \in PollVerdicts
    BY <1>6 DEF VerdictCloses, TypeOK, HandlerStates
  <2>2. ControllerObjects'
    BY <1>6, <2>1, SaveVerdictType DEF VerdictCloses, TypeOK
  <2> QED
    BY <1>6, <2>2 DEF VerdictCloses, TypeOK, PollerTypeOK, pollerVars, ControllerObjects
<1>7. ASSUME VerdictSaved(p) PROVE TypeOK'
  <2>1. PollerTypeOK'
    BY <1>7, CancelPollsType, PollParts DEF VerdictSaved, TypeOK
  <2>2. handler' \in [Polls -> HandlerStates]
    BY <1>7, GotoType, HandlerStatesHold DEF VerdictSaved
  <2>3. reports' \in [Sessions -> Seq(Ended)]
    <3>1. handler[p].verdict \in Ended
      BY <1>7 DEF VerdictSaved, TypeOK, HandlerStates, PollVerdicts, Ended
    <3> QED
      BY <1>7, <3>1, PollParts DEF VerdictSaved, Report, TypeOK
  <2> QED
    BY <1>7, <2>1, <2>2, <2>3 DEF VerdictSaved, TypeOK
<1> QED
  BY <1>1, <1>2, <1>3, <1>4, <1>5, <1>6, <1>7 DEF PollStep

LEMMA InitType == Init => TypeOK
BY NPollsAssumption, BoundsAssumption, NoSessionType
   DEF Init, TypeOK, PollerInit, PollerTypeOK, NoRequest, Idle, At, HandlerStates,
       StartSteps, CancelOps

\* Every step keeps the types, action by action.
LEMMA TypeStep == TypeOK /\ [Next]_vars => TypeOK'
<1> SUFFICES ASSUME TypeOK, [Next]_vars PROVE TypeOK'
  OBVIOUS
<1>1. ASSUME NEW s \in Sessions, NEW tab, CancelVictim(s, tab),
             request' \in [Sessions -> [tab : Tabs \cup {NoTab}, sms : BOOLEAN]]
      PROVE  TypeOK'
  <2>1. PICK e \in Victims(tab) : BeginCancel(e, s)
    BY <1>1 DEF CancelVictim
  <2>2. e \in Sessions
    BY DEF Victims, TypeOK
  <2> QED
    BY <1>1, <2>1, <2>2, BeginCancelType DEF CancelVictim, BeginCancel, TypeOK, StartSteps
<1>2. ASSUME NEW s \in Sessions, NEW tab, CreateSession(s, tab),
             request' \in [Sessions -> [tab : Tabs \cup {NoTab}, sms : BOOLEAN]]
      PROVE  TypeOK'
  <2>1. session' \in [Sessions -> SessionState]
    BY <1>2, NoSessionType DEF CreateSession, TypeOK
  <2>2. PICK ok \in BOOLEAN :
          /\ Persist(ok)
          /\ start' = [start EXCEPT ![s] = IF ok THEN "saving" ELSE "failed"]
    BY <1>2 DEF CreateSession
  <2>3. stored' \in [Sessions -> SessionState] /\ failures' \in 0 .. MaxFailures
    BY <2>1, <2>2, PersistType DEF TypeOK
  <2>4. start' \in [Sessions -> StartSteps]
    BY <2>2 DEF TypeOK, StartSteps
  <2> QED
    BY <1>2, <2>1, <2>3, <2>4 DEF CreateSession, TypeOK, PollerTypeOK, pollerVars
<1>3. ASSUME NEW s \in Sessions, NEW tab \in Tabs, NEW sms \in SmsDetected,
             StartSession(s, tab, sms)
      PROVE  TypeOK'
  <2>1. request' \in [Sessions -> [tab : Tabs \cup {NoTab}, sms : BOOLEAN]]
    BY <1>3, SmsAssumption DEF StartSession, TypeOK
  <2> QED
    BY <1>1, <1>2, <1>3, <2>1 DEF StartSession
<1>4. ASSUME NEW s \in Sessions, ScanResumes(s) PROVE TypeOK'
  BY <1>1, <1>2, <1>4 DEF ScanResumes, TypeOK
<1>5. ASSUME NEW s \in Sessions, StartSaved(s) PROVE TypeOK'
  BY <1>5 DEF StartSaved, TypeOK, PollerTypeOK, SchedulePolls, StartSteps, Polls
<1>6. ASSUME NEW s \in Sessions, NEW by \in UserCancels, UserCancel(s, by) PROVE TypeOK'
  BY <1>6, BeginCancelType DEF UserCancel, BeginCancel, TypeOK
<1>7. ASSUME NEW c \in cancels, CancelStep(c) PROVE TypeOK'
  <2>1. c \in CancelOps
    BY DEF TypeOK
  <2>2. CASE CancelCloses(c)
    BY <2>1, <2>2, ForgetType DEF CancelCloses, TypeOK, CancelOps
  <2>3. CASE CancelSaved(c)
    BY <2>1, <2>3 DEF CancelSaved, Report, TypeOK, PollerTypeOK, pollerVars, CancelOps, Ended
  <2>4. CASE CancelFails(c)
    BY <2>1, <2>4 DEF CancelFails, NoRequest, TypeOK, PollerTypeOK, pollerVars,
                      CancelOps, StartSteps
  <2> QED
    BY <1>7, <2>2, <2>3, <2>4 DEF CancelStep
<1>8. ASSUME NEW p \in Polls, TimeoutFires(p) \/ AlarmFires(p) PROVE TypeOK'
  <2>1. PollerTypeOK'
    BY <1>8, PollParts
       DEF TimeoutFires, AlarmFires, ClaimByTimeout, ClaimByAlarm, DropTimeout,
           DropAlarm, ClearAlarms, TypeOK, PollerTypeOK
  <2>2. handler' \in [Polls -> HandlerStates]
    BY <1>8, HandlerStatesHold DEF TimeoutFires, AlarmFires, HandlePoll, TypeOK
  <2> QED
    BY <1>8, <2>1, <2>2 DEF TimeoutFires, AlarmFires, TypeOK
<1>9. ASSUME NEW s \in Sessions, Tick(s) PROVE TypeOK'
  BY <1>9, NPollsAssumption
     DEF Tick, AdvanceClock, controllerVars, TypeOK, PollerTypeOK
<1>10. ASSUME NEW p \in Polls, PollStep(p) PROVE TypeOK'
  BY <1>10, PollStepType
<1>11. ASSUME NEW p \in Polls, PersistWhilePolling(p) PROVE TypeOK'
  BY <1>11, NoSessionType
     DEF PersistWhilePolling, Snapshot, TypeOK, PollerTypeOK, pollerVars
<1>12. CASE WorkerStep
  <2>1. CASE Wake
    BY <2>1 DEF Wake, TypeOK, PollerTypeOK, pollerVars
  <2>2. CASE FinishLoading
    <3>1. PollerTypeOK'
      BY <2>2 DEF FinishLoading, SchedulePolls, Restored, TypeOK, PollerTypeOK, Polls
    <3> QED
      BY <2>2, <3>1, NoSessionType DEF FinishLoading, Restored, TypeOK
  <2> QED
    BY <1>12, <2>1, <2>2 DEF WorkerStep
<1>13. CASE Crash
  BY <1>13, NoSessionType, HandlerStatesHold, BoundsAssumption
     DEF Crash, PollerCrash, TypeOK, PollerTypeOK, Idle, NoRequest, StartSteps
<1>14. CASE UNCHANGED vars
  BY <1>14 DEF vars, pollerVars, controllerVars, TypeOK, PollerTypeOK
<1> QED
  BY <1>3, <1>4, <1>5, <1>6, <1>7, <1>8, <1>9, <1>10, <1>11, <1>12, <1>13, <1>14
     DEF Next, StartStep

\* Every variable keeps its type: sessions, storage, poll handlers, cancels in
\* flight, timers and alarms, whatever the schedule length and the bounds.
THEOREM Typing == Spec => []TypeOK
BY InitType, TypeStep, PTL DEF Spec

-----------------------------------------------------------------------------
(***************************************************************************)
(* Part two.  Safety.                                                      *)
(***************************************************************************)
IInv == TypeOK /\ Coherent /\ SentinelExclusive /\ OneLivePerTab

-----------------------------------------------------------------------------
(***************************************************************************)
(* What a poll step and a cancel step do to the state, stated once.        *)
(***************************************************************************)
StatusKept(s) == session'[s].status = session[s].status

Rewritten == stored' = stored \/ stored' = Snapshot(sessions', session')

\* Poll p moves to h; it may have decided its own, still active, session.
PollEffect(p, h) ==
    /\ handler' = [handler EXCEPT ![p] = h]
    /\ h \in HandlerStates
    /\ h.at \in {"failing", "closing", "ending", "done"}
    /\ h.at \in {"closing", "ending"} => session'[p[1]].status = h.verdict
    /\ h.at = "ending" => stored' = Snapshot(sessions', session')
    /\ \A s \in Sessions : StatusKept(s) \/ (s = p[1] /\ session[s].status = "active"
                                                /\ session'[s].status \in Ended)
    /\ Rewritten

LEMMA SaveVerdictEffect ==
    ASSUME TypeOK, NEW p \in Polls, NEW verdict \in PollVerdicts, SaveVerdict(p, verdict),
           session'[p[1]].status = verdict,
           \A s \in Sessions : StatusKept(s) \/ (s = p[1] /\ session[s].status = "active")
    PROVE  \E h : PollEffect(p, h)
<1>1. PICK ok \in BOOLEAN :
        /\ Persist(ok)
        /\ IF ok THEN Goto(p, "ending", verdict) ELSE Goto(p, "done", "none")
  BY DEF SaveVerdict
<1> DEFINE h == IF ok THEN At("ending", verdict) ELSE At("done", "none")
<1>2. handler' = [handler EXCEPT ![p] = h]
  BY <1>1 DEF Goto
<1>3. h \in HandlerStates /\ h.at \in {"ending", "done"} /\ (h.at = "ending" => h.verdict = verdict)
  BY HandlerStatesHold DEF At
<1>4. h.at = "ending" => stored' = Snapshot(sessions', session')
  BY <1>1 DEF Persist, At
<1>5. Rewritten
  BY <1>1 DEF Persist, Rewritten
<1>6. verdict \in Ended
  BY DEF PollVerdicts, Ended
<1>7. PollEffect(p, h)
  BY <1>2, <1>3, <1>4, <1>5, <1>6 DEF PollEffect
<1> QED
  BY <1>7

LEMMA ConcludeEffect ==
    ASSUME TypeOK, NEW p \in Polls, NEW verdict \in PollVerdicts,
           NEW state \in SessionState, Conclude(p, verdict, state), StillActive(p)
    PROVE  \E h : PollEffect(p, h)
<1>1. p[1] \in Sessions
  BY PollParts
<1>2. /\ session'[p[1]].status = verdict
      /\ \A s \in Sessions : s # p[1] => StatusKept(s)
  BY <1>1 DEF Conclude, SessionState, TypeOK, StatusKept
<1>3. \A s \in Sessions : StatusKept(s) \/ (s = p[1] /\ session[s].status = "active")
  BY <1>2 DEF StillActive
<1>4. CASE request[p[1]].sms
  <2> DEFINE h == At("closing", verdict)
  <2>1. handler' = [handler EXCEPT ![p] = h] /\ stored' = stored
    BY <1>4 DEF Conclude, Goto
  <2>2. h \in HandlerStates /\ h.at = "closing" /\ h.verdict = verdict
    BY HandlerStatesHold DEF At
  <2>3. verdict \in Ended
    BY DEF PollVerdicts, Ended
  <2>4. PollEffect(p, h)
    BY <1>2, <1>3, <2>1, <2>2, <2>3 DEF PollEffect, Rewritten
  <2> QED
    BY <2>4
<1>5. CASE ~ request[p[1]].sms
  BY <1>2, <1>3, <1>5, SaveVerdictEffect DEF Conclude
<1> QED
  BY <1>4, <1>5

LEMMA LeaveEffect ==
    ASSUME TypeOK, NEW p \in Polls, Leave(p)
    PROVE  PollEffect(p, At("done", "none"))
<1>1. At("done", "none") \in HandlerStates
  BY HandlerStatesHold
<1> QED
  BY <1>1 DEF Leave, Goto, At, PollEffect, StatusKept, Rewritten

LEMMA NothingFoundEffect ==
    ASSUME TypeOK, NEW p \in Polls, NEW failing \in {"failing", "done"},
           NothingFound(p, failing), StillActive(p)
    PROVE  \E h : PollEffect(p, h)
<1> DEFINE state == Mark(session[p[1]], p[2])
<1>1. p[1] \in Sessions /\ state \in SessionState /\ state.status = session[p[1]].status
  BY PollParts, MarkType DEF TypeOK, Mark
<1>2. CASE state.count >= NPolls
  BY <1>1, <1>2, ConcludeEffect DEF NothingFound, PollVerdicts
<1>3. CASE ~ (state.count >= NPolls)
  <2>1. \A s \in Sessions : StatusKept(s)
    BY <1>1, <1>3 DEF NothingFound, StatusKept, TypeOK
  <2>2. PICK ok \in BOOLEAN :
          Persist(ok) /\ Goto(p, IF ok THEN "done" ELSE failing, "none")
    BY <1>3 DEF NothingFound
  <2> DEFINE h == At(IF ok THEN "done" ELSE failing, "none")
  <2>3. h \in HandlerStates /\ h.at \in {"failing", "done"}
    BY HandlerStatesHold DEF At
  <2>4. handler' = [handler EXCEPT ![p] = h]
    BY <2>2 DEF Goto
  <2>5. Rewritten
    BY <2>2 DEF Persist, Rewritten
  <2>6. PollEffect(p, h)
    BY <2>1, <2>3, <2>4, <2>5 DEF PollEffect
  <2> QED
    BY <2>6
<1> QED
  BY <1>2, <1>3

LEMMA ResumeEffect ==
    ASSUME TypeOK, NEW p \in Polls, NEW result, Resume(p, result)
    PROVE  \E h : PollEffect(p, h)
<1>1. session[p[1]] \in SessionState /\ Mark(session[p[1]], p[2]) \in SessionState
  BY PollParts, MarkType DEF TypeOK
<1>2. CASE Leave(p)
  BY <1>2, LeaveEffect
<1>3. CASE StillActive(p) /\ Conclude(p, "timedout", session[p[1]])
  BY <1>1, <1>3, ConcludeEffect DEF PollVerdicts
<1>4. CASE StillActive(p) /\ Conclude(p, "filled", Mark(session[p[1]], p[2]))
  BY <1>1, <1>4, ConcludeEffect DEF PollVerdicts
<1>5. CASE StillActive(p) /\ NothingFound(p, "failing")
  BY <1>5, NothingFoundEffect
<1> QED
  BY <1>2, <1>3, <1>4, <1>5 DEF Resume, AfterSkip

\* A cancel of s decides s, and takes nothing from any other session.
CancelEffect(s, by) ==
    /\ \A e \in Sessions : StatusKept(e) \/ (session[e].status = "active"
                                                /\ session'[e].status = "canceled")
    /\ session'[s].status \in Ended
    /\ sessions' \subseteq sessions
    /\ \A p \in Polls : p[1] # s /\ p \in executedPolls => p \in executedPolls'
    /\ Rewritten
    /\ \A c \in cancels' : c \in cancels
                             \/ (c.sid = s /\ c.by = by
                                   /\ (c.at = "saving" => stored' = Snapshot(sessions', session')))
    /\ \A c, d \in cancels' : c.by \in Sessions /\ c.by = d.by => c = d

LEMMA ForgetEffect ==
    ASSUME TypeOK, NEW s \in Sessions, NEW by, Forget(s, by),
           \A e \in Sessions : StatusKept(e) \/ (session[e].status = "active"
                                                /\ session'[e].status = "canceled"),
           session'[s].status \in Ended,
           \A c, d \in cancels : c.by \in Sessions /\ c.by = d.by => c = d,
           by \in Sessions =>
               \A c \in cancels : c.by = by => c = [sid |-> s, by |-> by, at |-> "closing"]
    PROVE  CancelEffect(s, by)
<1>1. PICK ok \in BOOLEAN :
        /\ Persist(ok)
        /\ cancels' = (cancels \ {[sid |-> s, by |-> by, at |-> "closing"]})
              \cup {[sid |-> s, by |-> by, at |-> IF ok THEN "saving" ELSE "failing"]}
  BY DEF Forget
<1>2. \A p \in Polls : p[1] # s /\ p \in executedPolls => p \in executedPolls'
  BY PollParts DEF Forget, CancelPolls, PollsOf, pollerVars
<1>3. Rewritten
  BY <1>1 DEF Persist, Rewritten
<1>4. \A c \in cancels' : c \in cancels
                             \/ (c.sid = s /\ c.by = by
                                   /\ (c.at = "saving" => stored' = Snapshot(sessions', session')))
  BY <1>1 DEF Persist
<1>5. \A c, d \in cancels' : c.by \in Sessions /\ c.by = d.by => c = d
  <2> DEFINE n == [sid |-> s, by |-> by, at |-> IF ok THEN "saving" ELSE "failing"]
  <2>1. n.by = by /\ \A c \in cancels' : c = n \/ (c \in cancels /\ c # [sid |-> s, by |-> by, at |-> "closing"])
    BY <1>1
  <2> HIDE DEF n
  <2> QED
    BY <2>1
<1> QED
  BY <1>2, <1>3, <1>4, <1>5 DEF CancelEffect, Forget

LEMMA BeginCancelEffect ==
    ASSUME IInv, NEW s \in Sessions, NEW by, BeginCancel(s, by),
           by \in Sessions => ~ \E c \in cancels : c.by = by
    PROVE  CancelEffect(s, by)
<1>1. \A e \in Sessions : StatusKept(e) \/ (session[e].status = "active"
                                                /\ session'[e].status = "canceled")
  BY DEF IInv, BeginCancel, TypeOK, SessionState, StatusKept
<1>2. session'[s].status \in Ended
  <2>1. session[s].status \in {"active"} \cup Ended
    BY DEF IInv, BeginCancel, TypeOK, SessionState, Coherent, SessionsBorn
  <2> QED
    BY <2>1 DEF IInv, BeginCancel, TypeOK, SessionState, Ended
<1>3. \A c, d \in cancels : c.by \in Sessions /\ c.by = d.by => c = d
  BY DEF IInv, Coherent, CancelsDecided
<1>4. CASE request[s].sms
  <2> DEFINE n == [sid |-> s, by |-> by, at |-> "closing"]
  <2>1. n.by = by /\ n.sid = s /\ n.at # "saving" /\ cancels' = cancels \cup {n}
    BY <1>4 DEF BeginCancel
  <2> HIDE DEF n
  <2>2. \A c, d \in cancels' : c.by \in Sessions /\ c.by = d.by => c = d
    BY <1>3, <2>1
  <2> QED
    BY <1>1, <1>2, <1>4, <2>1, <2>2 DEF BeginCancel, CancelEffect, pollerVars, Rewritten
<1>5. CASE ~ request[s].sms
  BY <1>1, <1>2, <1>3, <1>5, ForgetEffect DEF IInv, BeginCancel
<1> QED
  BY <1>4, <1>5

-----------------------------------------------------------------------------
(***************************************************************************)
(* Steps that decide sessions but start none keep the invariant.           *)
(***************************************************************************)
Kept == Coherent /\ SentinelExclusive /\ OneLivePerTab

\* Storage and objects of sessions that are not active stay that way.
LEMMA StillOutOfReach ==
    ASSUME IInv, NEW s \in Sessions, OutOfReach(s), Rewritten, booting' = booting,
           session'[s].status # "active"
    PROVE  OutOfReach(s)'
BY DEF OutOfReach, Rewritten, Snapshot, NoSession

LEMMA FewerActive ==
    ASSUME IInv, request' = request, start' = start, sessions' \subseteq sessions,
           \A s \in Sessions : session'[s].status = "active" => session[s].status = "active"
    PROVE  OneLivePerTab'
BY DEF IInv, TypeOK, OneLivePerTab, Active

\* A rewritten storage holds nothing but sessions that exist.
LEMMA StoredBorn ==
    ASSUME IInv, Rewritten, NEW s \in Sessions, stored'[s].status # "none",
           sessions' \subseteq sessions,
           \A e \in Sessions : session'[e].status # "none" => session[e].status # "none"
    PROVE  start[s] \notin {"idle", "scanning"}
<1>1. CASE stored' = stored
  BY <1>1 DEF IInv, Coherent, SessionsBorn
<1>2. CASE stored' = Snapshot(sessions', session')
  <2>1. s \in sessions' /\ session'[s].status # "none"
    BY <1>2 DEF Snapshot, NoSession
  <2> QED
    BY <2>1 DEF IInv, Coherent, SessionsBorn
<1> QED
  BY <1>1, <1>2 DEF Rewritten

LEMMA PollEffectKept ==
    ASSUME IInv, NEW p \in Polls, NEW h, PollEffect(p, h), handler[p].at # "idle",
           UNCHANGED <<worker, sessions, booting, request, start, cancels, reports,
                       executedPolls>>,
           \/ handler[p].at = "polling" /\ baselineCapturing' = baselineCapturing \ {p[1]}
           \/ handler[p].at # "polling" /\ baselineCapturing' = baselineCapturing
    PROVE  Kept'
<1>1. p[1] \in Sessions /\ p[2] \in Index /\ p = <<p[1], p[2]>>
  BY PollParts
<1>2. \A s \in Sessions : /\ session[s].status = "none" <=> session'[s].status = "none"
                          /\ session'[s].status = "active" => session[s].status = "active"
                          /\ session[s].status \in Ended => StatusKept(s)
  BY DEF PollEffect, StatusKept, Ended
<1>3. SessionsBorn'
  <2> SUFFICES ASSUME NEW s \in Sessions
               PROVE  /\ s \in sessions' => session'[s].status # "none"
                      /\ session'[s].status # "none" =>
                             start'[s] \notin {"idle", "scanning"} /\ booting'[s].status = "none"
                      /\ stored'[s].status # "none" => start'[s] \notin {"idle", "scanning"}
                      /\ booting'[s].status # "none" => start'[s] = "over" /\ worker' = "loading"
                      /\ worker' = "down" =>
                             start'[s] \in {"idle", "over"} /\ session'[s].status = "none"
    BY DEF SessionsBorn
  <2>1. stored'[s].status # "none" => start[s] \notin {"idle", "scanning"}
    BY <1>2, StoredBorn DEF PollEffect
  <2> QED
    BY <1>2, <2>1 DEF IInv, TypeOK, Coherent, SessionsBorn
<1>4. \A q \in Polls : handler'[q] = IF q = p THEN h ELSE handler[q]
  BY DEF PollEffect, IInv, TypeOK
<1>5. HandlersClaimed'
  <2> SUFFICES ASSUME NEW q \in Polls
               PROVE  /\ handler'[q].at # "idle" =>
                             /\ session'[q[1]].status # "none"
                             /\ Active(q[1])' => q \in executedPolls'
                      /\ handler'[q].at \in {"closing", "ending"} =>
                             session'[q[1]].status = handler'[q].verdict
    BY DEF HandlersClaimed
  <2>1. q[1] \in Sessions
    BY PollParts
  <2>2. Active(q[1])' => Active(q[1])
    BY <1>2, <2>1 DEF Active
  <2>3. CASE q = p
    BY <1>1, <1>2, <1>4, <2>1, <2>2, <2>3 DEF PollEffect, IInv, Coherent, HandlersClaimed
  <2>4. CASE q # p
    <3>1. handler[q].at \in {"closing", "ending"} => session[q[1]].status \in Ended
      BY DEF IInv, Coherent, HandlersClaimed, TypeOK, HandlerStates, PollVerdicts, Ended
    <3> QED
      BY <1>2, <1>4, <2>1, <2>2, <2>4, <3>1
         DEF IInv, Coherent, HandlersClaimed, StatusKept
  <2> QED
    BY <2>3, <2>4
<1>6. CancelsDecided'
  BY <1>2 DEF IInv, TypeOK, CancelOps, Coherent, CancelsDecided, StatusKept
<1>7. \A s \in Sessions : OutOfReach(s) => OutOfReach(s)'
  BY <1>2, StillOutOfReach DEF PollEffect, OutOfReach
<1>8. VerdictsDurable'
  <2>1. h.at = "ending" => OutOfReach(p[1])'
    <3> SUFFICES ASSUME h.at = "ending" PROVE OutOfReach(p[1])'
      OBVIOUS
    <3>1. session'[p[1]].status = h.verdict /\ h.verdict \in PollVerdicts
      BY DEF PollEffect, HandlerStates
    <3>2. session'[p[1]].status # "active" /\ session'[p[1]].status # "none"
      BY <3>1 DEF PollVerdicts
    <3>3. booting'[p[1]].status # "active"
      BY <1>1, <1>2, <3>2 DEF IInv, Coherent, SessionsBorn
    <3> QED
      BY <1>1, <3>2, <3>3 DEF PollEffect, OutOfReach, Snapshot, NoSession
  <2>2. \A q \in Polls : handler'[q].at = "ending" => OutOfReach(q[1])'
    BY <1>4, <1>7, <2>1, PollParts DEF IInv, Coherent, VerdictsDurable
  <2>3. \A c \in cancels' : c.at = "saving" => OutOfReach(c.sid)'
    BY <1>7 DEF IInv, TypeOK, CancelOps, Coherent, VerdictsDurable
  <2> QED
    BY <1>7, <2>2, <2>3 DEF IInv, Coherent, VerdictsDurable
<1>9. SentinelExclusive'
  <2>2. h.at # "polling"
    BY DEF PollEffect
  <2>3. \A s \in Sessions, i \in Index :
           handler'[<<s, i>>].at = "polling" <=>
               handler[<<s, i>>].at = "polling" /\ ~ (s = p[1] /\ i = p[2])
    <3> SUFFICES ASSUME NEW s \in Sessions, NEW i \in Index
                 PROVE  handler'[<<s, i>>].at = "polling" <=>
                            handler[<<s, i>>].at = "polling" /\ ~ (s = p[1] /\ i = p[2])
      OBVIOUS
    <3>1. <<s, i>> \in Polls
      BY DEF Polls
    <3>2. CASE s = p[1] /\ i = p[2]
      BY <1>1, <1>4, <2>2, <3>1, <3>2
    <3>3. CASE ~ (s = p[1] /\ i = p[2])
      <4>1. <<s, i>> # p
        BY <3>3
      <4> QED
        BY <1>4, <3>1, <3>3, <4>1
    <3> QED
      BY <3>2, <3>3
  <2>4. handler[<<p[1], p[2]>>] = handler[p]
    BY <1>1
  <2>5. CASE handler[p].at = "polling" /\ baselineCapturing' = baselineCapturing \ {p[1]}
    <3> SUFFICES ASSUME NEW s \in Sessions
                 PROVE  /\ \A i, j \in Index :
                              handler'[<<s, i>>].at = "polling" /\ handler'[<<s, j>>].at = "polling"
                                  => i = j
                        /\ s \in baselineCapturing' <=>
                               \E i \in Index : handler'[<<s, i>>].at = "polling"
      BY DEF SentinelExclusive
    <3>1. CASE s = p[1]
      <4>1. \A i \in Index : handler[<<s, i>>].at = "polling" => i = p[2]
        BY <1>1, <2>4, <2>5, <3>1 DEF IInv, SentinelExclusive
      <4>2. \A i \in Index : handler'[<<s, i>>].at # "polling"
        BY <2>3, <3>1, <4>1
      <4> QED
        BY <2>5, <3>1, <4>2
    <3>2. CASE s # p[1]
      BY <2>3, <2>5, <3>2 DEF IInv, SentinelExclusive
    <3> QED
      BY <3>1, <3>2
  <2>6. CASE handler[p].at # "polling" /\ baselineCapturing' = baselineCapturing
    <3>1. \A s \in Sessions, i \in Index :
             handler'[<<s, i>>].at = "polling" <=> handler[<<s, i>>].at = "polling"
      BY <1>1, <2>3, <2>4, <2>6
    <3> QED
      BY <2>6, <3>1 DEF IInv, SentinelExclusive
  <2> QED
    BY <2>5, <2>6
<1>10. OneLivePerTab'
  BY <1>2, FewerActive
<1> QED
  BY <1>3, <1>5, <1>6, <1>8, <1>9, <1>10 DEF Kept, Coherent

LEMMA CancelEffectKept ==
    ASSUME IInv, NEW s \in Sessions, NEW by, CancelEffect(s, by), worker # "down",
           UNCHANGED <<worker, booting, handler, baselineCapturing, reports>>,
           \A e \in Sessions : start'[e] = start[e]
               \/ (e = by /\ start[e] \in {"idle", "scanning"} /\ start'[e] = "scanning"),
           by \in Sessions => start'[by] = "scanning",
           \A e \in sessions : request'[e] = request[e]
    PROVE  Kept'
<1>1. \A e \in Sessions : /\ session[e].status = "none" <=> session'[e].status = "none"
                          /\ session'[e].status = "active" => session[e].status = "active"
                          /\ session[e].status \in Ended => StatusKept(e)
  BY DEF CancelEffect, StatusKept, Ended
<1>2. \A e \in Sessions : start[e] \notin {"idle", "scanning"} => start'[e] = start[e]
  OBVIOUS
<1>3. SessionsBorn'
  <2> SUFFICES ASSUME NEW e \in Sessions
               PROVE  /\ e \in sessions' => session'[e].status # "none"
                      /\ session'[e].status # "none" =>
                             start'[e] \notin {"idle", "scanning"} /\ booting'[e].status = "none"
                      /\ stored'[e].status # "none" => start'[e] \notin {"idle", "scanning"}
                      /\ booting'[e].status # "none" => start'[e] = "over" /\ worker' = "loading"
                      /\ worker' # "down"
    BY DEF SessionsBorn
  <2>1. stored'[e].status # "none" => start[e] \notin {"idle", "scanning"}
    BY <1>1, StoredBorn DEF CancelEffect
  <2>2. e \in sessions' => e \in sessions
    BY DEF CancelEffect
  <2> QED
    BY <1>1, <1>2, <2>1, <2>2 DEF IInv, Coherent, SessionsBorn
<1>4. HandlersClaimed'
  <2> SUFFICES ASSUME NEW q \in Polls
               PROVE  /\ handler[q].at # "idle" =>
                             /\ session'[q[1]].status # "none"
                             /\ Active(q[1])' => q \in executedPolls'
                      /\ handler[q].at \in {"closing", "ending"} =>
                             session'[q[1]].status = handler[q].verdict
    BY DEF HandlersClaimed
  <2>1. q[1] \in Sessions
    BY PollParts
  <2>2. Active(q[1])' => Active(q[1]) /\ q[1] # s
    BY <1>1, <2>1 DEF Active, CancelEffect, Ended
  <2>3. handler[q].at \in {"closing", "ending"} => session[q[1]].status \in Ended
    BY DEF IInv, Coherent, HandlersClaimed, TypeOK, HandlerStates, PollVerdicts, Ended
  <2> QED
    BY <1>1, <2>1, <2>2, <2>3 DEF IInv, Coherent, HandlersClaimed, CancelEffect, StatusKept
<1>5. CancelsDecided'
  <2> SUFFICES ASSUME NEW c \in cancels'
               PROVE  session'[c.sid].status \in Ended /\ (c.by \in Sessions => start'[c.by] = "scanning")
    BY DEF CancelsDecided, CancelEffect
  <2>1. CASE c \in cancels
    BY <1>1, <2>1 DEF IInv, TypeOK, CancelOps, Coherent, CancelsDecided, StatusKept
  <2>2. CASE c.sid = s /\ c.by = by
    BY <2>2 DEF CancelEffect
  <2> QED
    BY <2>1, <2>2 DEF CancelEffect
<1>6. \A e \in Sessions : OutOfReach(e) => OutOfReach(e)'
  BY <1>1, StillOutOfReach DEF CancelEffect, OutOfReach
<1>7. stored' = Snapshot(sessions', session') => OutOfReach(s)'
  <2> SUFFICES ASSUME stored' = Snapshot(sessions', session') PROVE OutOfReach(s)'
    OBVIOUS
  <2>1. session'[s].status # "active" /\ session'[s].status # "none"
    BY DEF CancelEffect, Ended
  <2>2. booting'[s].status = "none"
    BY <1>1, <2>1 DEF IInv, Coherent, SessionsBorn
  <2> QED
    BY <2>1, <2>2 DEF OutOfReach, Snapshot, NoSession
<1>8. VerdictsDurable'
  <2>1. \A e \in Sessions : reports'[e] # <<>> =>
            OutOfReach(e)' /\ start'[e] \notin {"idle", "scanning"}
    BY <1>2, <1>6 DEF IInv, Coherent, VerdictsDurable
  <2>2. \A p \in Polls : handler'[p].at = "ending" => OutOfReach(p[1])'
    BY <1>6, PollParts DEF IInv, Coherent, VerdictsDurable
  <2>3. \A c \in cancels' : c.at = "saving" => OutOfReach(c.sid)'
    BY <1>6, <1>7 DEF IInv, TypeOK, CancelOps, Coherent, VerdictsDurable, CancelEffect
  <2> QED
    BY <2>1, <2>2, <2>3 DEF VerdictsDurable
<1>9. SentinelExclusive'
  BY DEF IInv, SentinelExclusive
<1>10. OneLivePerTab'
  <2> SUFFICES ASSUME NEW a \in sessions', NEW b \in sessions', a # b,
                      session'[a].status = "active", session'[b].status = "active",
                      request'[a].tab = request'[b].tab
               PROVE  "over" \in {start'[a], start'[b]}
    BY DEF OneLivePerTab, Active
  <2>1. a \in sessions /\ b \in sessions /\ a \in Sessions /\ b \in Sessions
    BY DEF CancelEffect, IInv, TypeOK
  <2>2. Active(a) /\ Active(b) /\ request[a].tab = request[b].tab
    BY <1>1, <2>1 DEF Active
  <2>3. start[a] \notin {"idle", "scanning"} /\ start[b] \notin {"idle", "scanning"}
    BY <2>1 DEF IInv, Coherent, SessionsBorn
  <2> QED
    BY <1>2, <2>1, <2>2, <2>3 DEF IInv, OneLivePerTab
<1> QED
  BY <1>3, <1>4, <1>5, <1>8, <1>9, <1>10 DEF Kept, Coherent

\* Polls that neither enter nor leave the section leave the sentinel as it is.
LEMMA SentinelFrame ==
    ASSUME IInv, baselineCapturing' = baselineCapturing,
           \A q \in Polls : handler'[q].at = "polling" <=> handler[q].at = "polling"
    PROVE  SentinelExclusive'
<1>1. \A s \in Sessions, i \in Index :
         handler'[<<s, i>>].at = "polling" <=> handler[<<s, i>>].at = "polling"
  BY DEF Polls
<1> QED
  BY <1>1 DEF IInv, SentinelExclusive

\* Every step of a poll keeps the invariant.
LEMMA PollStepKept ==
    ASSUME IInv, NEW p \in Polls, PollStep(p)
    PROVE  Kept'
<1>1. p[1] \in Sessions
  BY PollParts
<1>2. ASSUME NEW result, Resume(p, result), handler[p].at = "fetching", UNCHANGED baselineCapturing
      PROVE  Kept'
  <2>1. PICK h : PollEffect(p, h)
    BY <1>2, ResumeEffect DEF IInv
  <2>2. UNCHANGED <<worker, sessions, booting, request, start, cancels, reports, executedPolls>>
    BY <1>2 DEF Resume, pollerVars
  <2> QED
    BY <1>2, <2>1, <2>2, PollEffectKept
<1>3. CASE NoPoll(p) \/ SkipPoll(p)
  BY <1>2, <1>3 DEF NoPoll, SkipPoll
<1>4. ASSUME NEW result, PollAnswers(p, result) PROVE Kept'
  <2>1. PICK h : PollEffect(p, h)
    BY <1>4, ResumeEffect DEF IInv, PollAnswers
  <2>2. UNCHANGED <<worker, sessions, booting, request, start, cancels, reports, executedPolls>>
    BY <1>4 DEF PollAnswers, Resume, pollerVars
  <2> QED
    BY <1>4, <2>1, <2>2, PollEffectKept DEF PollAnswers
<1>5. CASE PollFails(p)
  <2>1. \E h : PollEffect(p, h)
    BY <1>5, NothingFoundEffect, LeaveEffect DEF PollFails, IInv
  <2>2. PICK h : PollEffect(p, h)
    BY <2>1
  <2>3. UNCHANGED <<worker, sessions, booting, request, start, cancels, reports,
                    executedPolls, baselineCapturing>>
    BY <1>5 DEF PollFails, pollerVars
  <2> QED
    BY <1>5, <2>2, <2>3, PollEffectKept DEF PollFails
<1>6. CASE VerdictCloses(p)
  <2>1. handler[p].verdict \in PollVerdicts /\ session'[p[1]].status = handler[p].verdict
    BY <1>1, <1>6 DEF VerdictCloses, IInv, TypeOK, HandlerStates, Coherent, HandlersClaimed
  <2>2. PICK h : PollEffect(p, h)
    BY <1>6, <2>1, SaveVerdictEffect DEF VerdictCloses, IInv, StatusKept
  <2>3. UNCHANGED <<worker, sessions, booting, request, start, cancels, reports,
                    executedPolls, baselineCapturing>>
    BY <1>6 DEF VerdictCloses, pollerVars
  <2> QED
    BY <1>6, <2>2, <2>3, PollEffectKept DEF VerdictCloses
<1>7. CASE BeginPolling(p)
  <2>1. \A q \in Polls : handler'[q] = IF q = p THEN At("polling", "none") ELSE handler[q]
    BY <1>7 DEF BeginPolling, Goto, IInv, TypeOK
  <2>2. SessionsBorn'
    BY <1>7 DEF BeginPolling, IInv, Coherent, SessionsBorn
  <2>3. HandlersClaimed'
    BY <1>7, <2>1 DEF BeginPolling, At, IInv, Coherent, HandlersClaimed, Active, pollerVars
  <2>4. CancelsDecided'
    BY <1>7 DEF BeginPolling, IInv, Coherent, CancelsDecided
  <2>5. VerdictsDurable'
    BY <1>7, <2>1 DEF BeginPolling, At, IInv, Coherent, VerdictsDurable, OutOfReach
  <2>6. SentinelExclusive'
    <3> SUFFICES ASSUME NEW s \in Sessions
                 PROVE  /\ \A i, j \in Index :
                              handler'[<<s, i>>].at = "polling" /\ handler'[<<s, j>>].at = "polling"
                                  => i = j
                        /\ s \in baselineCapturing' <=>
                               \E i \in Index : handler'[<<s, i>>].at = "polling"
      BY DEF SentinelExclusive
    <3>1. CASE s = p[1]
      <4>1. \A i \in Index : <<s, i>> \in Polls /\ handler[<<s, i>>].at # "polling"
        BY <1>7, <3>1 DEF BeginPolling, SentinelHeld, IInv, SentinelExclusive, Polls
      <4>2. \A i \in Index : handler'[<<s, i>>].at = "polling" <=> <<s, i>> = p
        BY <2>1, <4>1 DEF At
      <4>3. p = <<s, p[2]>> /\ p[2] \in Index
        BY <3>1, PollParts
      <4>4. \A i \in Index : handler'[<<s, i>>].at = "polling" <=> i = p[2]
        BY <4>2, <4>3
      <4> QED
        BY <1>7, <3>1, <4>3, <4>4 DEF BeginPolling
    <3>2. CASE s # p[1]
      <4>1. \A i \in Index : <<s, i>> \in Polls /\ <<s, i>> # p
        BY <3>2 DEF Polls
      <4>2. \A i \in Index : handler'[<<s, i>>] = handler[<<s, i>>]
        BY <2>1, <4>1
      <4> QED
        BY <1>7, <3>2, <4>2 DEF BeginPolling, IInv, SentinelExclusive
    <3> QED
      BY <3>1, <3>2
  <2>7. OneLivePerTab'
    BY <1>7, FewerActive DEF BeginPolling
  <2> QED
    BY <2>2, <2>3, <2>4, <2>5, <2>6, <2>7 DEF Kept, Coherent
<1>8. CASE VerdictSaved(p)
  <2>1. \A q \in Polls : handler'[q] = IF q = p THEN At("done", "none") ELSE handler[q]
    BY <1>8 DEF VerdictSaved, Goto, IInv, TypeOK
  <2>2. session[p[1]].status \in Ended
    BY <1>8 DEF VerdictSaved, IInv, TypeOK, HandlerStates, PollVerdicts, Ended,
                Coherent, HandlersClaimed
  <2>3. \A q \in Polls : q[1] # p[1] /\ q \in executedPolls => q \in executedPolls'
    BY <1>8, PollParts DEF VerdictSaved, CancelPolls, PollsOf, pollerVars
  <2>4. SessionsBorn'
    BY <1>8 DEF VerdictSaved, IInv, Coherent, SessionsBorn
  <2>5. HandlersClaimed'
    BY <1>8, <2>1, <2>2, <2>3
       DEF VerdictSaved, At, IInv, Coherent, HandlersClaimed, Active, Ended
  <2>6. CancelsDecided'
    BY <1>8 DEF VerdictSaved, IInv, Coherent, CancelsDecided
  <2>7. VerdictsDurable'
    <3>1. OutOfReach(p[1]) /\ start[p[1]] \notin {"idle", "scanning"}
      BY <1>1, <1>8, <2>2
         DEF VerdictSaved, IInv, Coherent, VerdictsDurable, SessionsBorn, Ended
    <3>2. \A s \in Sessions : s # p[1] => reports'[s] = reports[s]
      BY <1>1, <1>8 DEF VerdictSaved, Report, IInv, TypeOK
    <3> QED
      BY <1>8, <2>1, <3>1, <3>2
         DEF VerdictSaved, At, IInv, Coherent, VerdictsDurable, OutOfReach
  <2>8. SentinelExclusive'
    BY <1>8, <2>1, SentinelFrame DEF VerdictSaved, At
  <2>9. OneLivePerTab'
    BY <1>8, FewerActive DEF VerdictSaved
  <2> QED
    BY <2>4, <2>5, <2>6, <2>7, <2>8, <2>9 DEF Kept, Coherent
<1> QED
  BY <1>3, <1>4, <1>5, <1>6, <1>7, <1>8 DEF PollStep

-----------------------------------------------------------------------------
(***************************************************************************)
(* The invariant.                                                          *)
(***************************************************************************)
LEMMA CreateKept ==
    ASSUME IInv, NEW s \in Sessions, NEW tab, start[s] \in {"idle", "scanning"},
           worker # "down", ~ \E c \in cancels : c.by = s, CreateSession(s, tab),
           request'[s].tab = tab, \A e \in Sessions : e # s => request'[e] = request[e]
    PROVE  Kept'
<1>1. session[s].status = "none" /\ s \notin sessions
  BY DEF IInv, Coherent, SessionsBorn
<1>2. /\ session' = [session EXCEPT ![s] = NewSession]
      /\ start'[s] \in {"saving", "failed"}
      /\ \A e \in Sessions : e # s => start'[e] = start[e]
  BY DEF CreateSession, IInv, TypeOK
<1>3. /\ session'[s].status = "active"
      /\ \A e \in Sessions : e # s => session'[e] = session[e]
  BY <1>2 DEF NewSession, IInv, TypeOK
<1>4. Rewritten
  BY DEF CreateSession, Persist, Rewritten
<1>5. SessionsBorn'
  <2> SUFFICES ASSUME NEW e \in Sessions
               PROVE  /\ e \in sessions' => session'[e].status # "none"
                      /\ session'[e].status # "none" =>
                             start'[e] \notin {"idle", "scanning"} /\ booting'[e].status = "none"
                      /\ stored'[e].status # "none" => start'[e] \notin {"idle", "scanning"}
                      /\ booting'[e].status # "none" => start'[e] = "over" /\ worker' = "loading"
                      /\ worker' # "down"
    BY DEF SessionsBorn
  <2>1. CASE e = s
    BY <1>2, <1>3, <2>1 DEF CreateSession, IInv, Coherent, SessionsBorn
  <2>2. CASE e # s
    <3>1. stored'[e].status # "none" => start[e] \notin {"idle", "scanning"}
      <4>1. CASE stored' = stored
        BY <4>1 DEF IInv, Coherent, SessionsBorn
      <4>2. CASE stored' = Snapshot(sessions', session')
        <5>1. stored'[e].status # "none" => e \in sessions
          BY <2>2, <4>2 DEF Snapshot, NoSession, CreateSession
        <5> QED
          BY <5>1 DEF IInv, Coherent, SessionsBorn
      <4> QED
        BY <1>4, <4>1, <4>2 DEF Rewritten
    <3> QED
      BY <1>2, <1>3, <2>2, <3>1 DEF CreateSession, IInv, Coherent, SessionsBorn
  <2> QED
    BY <2>1, <2>2
<1>6. HandlersClaimed'
  <2> SUFFICES ASSUME NEW q \in Polls
               PROVE  /\ handler[q].at # "idle" =>
                             /\ session'[q[1]].status # "none"
                             /\ Active(q[1])' => q \in executedPolls
                      /\ handler[q].at \in {"closing", "ending"} =>
                             session'[q[1]].status = handler[q].verdict
    BY DEF HandlersClaimed, CreateSession, pollerVars
  <2>1. q[1] \in Sessions
    BY PollParts
  <2>2. handler[q].at # "idle" => q[1] # s
    BY <1>1 DEF IInv, Coherent, HandlersClaimed
  <2> QED
    BY <1>3, <2>1, <2>2 DEF IInv, Coherent, HandlersClaimed, Active, CreateSession
<1>7. CancelsDecided'
  <2>1. \A c \in cancels : c.sid \in Sessions /\ c.sid # s /\ c.by # s
    BY <1>1 DEF IInv, TypeOK, CancelOps, Coherent, CancelsDecided, Ended
  <2> QED
    BY <1>2, <1>3, <2>1 DEF CreateSession, IInv, Coherent, CancelsDecided
<1>8. \A e \in Sessions : e # s /\ OutOfReach(e) => OutOfReach(e)'
  BY <1>3, StillOutOfReach, <1>4 DEF CreateSession, OutOfReach
<1>9. VerdictsDurable'
  <2>1. \A e \in Sessions : reports[e] # <<>> => e # s
    BY DEF IInv, Coherent, VerdictsDurable
  <2>2. \A q \in Polls : handler[q].at = "ending" => q[1] # s /\ q[1] \in Sessions
    BY <1>1, PollParts DEF IInv, Coherent, HandlersClaimed
  <2>3. \A c \in cancels : c.sid \in Sessions /\ c.sid # s
    BY <1>1 DEF IInv, TypeOK, CancelOps, Coherent, CancelsDecided, Ended
  <2> QED
    BY <1>2, <1>8, <2>1, <2>2, <2>3 DEF CreateSession, IInv, Coherent, VerdictsDurable
<1>10. SentinelExclusive'
  BY SentinelFrame DEF CreateSession
<1>11. OneLivePerTab'
  <2> SUFFICES ASSUME NEW a \in sessions', NEW b \in sessions', a # b,
                      session'[a].status = "active", session'[b].status = "active",
                      request'[a].tab = request'[b].tab
               PROVE  "over" \in {start'[a], start'[b]}
    BY DEF OneLivePerTab, Active
  <2>1. a \in Sessions /\ b \in Sessions
    BY DEF CreateSession, IInv, TypeOK
  <2>2. \A e \in sessions' : e # s => e \in sessions
    BY DEF CreateSession
  <2>3. \A e \in sessions : request[e].tab = tab => session[e].status # "active"
    BY DEF CreateSession, Victims, Active
  <2>4. a # s /\ b # s
    BY <1>3, <2>1, <2>2, <2>3
  <2>5. Active(a) /\ Active(b) /\ request[a].tab = request[b].tab
    BY <1>3, <2>1, <2>2, <2>4 DEF Active
  <2> QED
    BY <1>2, <2>1, <2>4, <2>5 DEF IInv, OneLivePerTab, Active
<1> QED
  BY <1>5, <1>6, <1>7, <1>9, <1>10, <1>11 DEF Kept, Coherent

\* A timer or an alarm begins only polls that are not running.
LEMMA FireKept ==
    ASSUME IInv, NEW p \in Polls, TimeoutFires(p) \/ AlarmFires(p)
    PROVE  Kept'
<1>1. UNCHANGED <<worker, sessions, session, stored, booting, request, start, cancels,
                  baselineCapturing, reports>>
  BY DEF TimeoutFires, AlarmFires
<1>2. \/ handler' = handler /\ executedPolls \subseteq executedPolls'
      \/ /\ handler[p].at = "idle"
         /\ Active(p[1])
         /\ handler' = [handler EXCEPT ![p] = At("fetching", "none")]
         /\ executedPolls' = executedPolls \cup {p}
  BY DEF TimeoutFires, AlarmFires, ClaimByTimeout, ClaimByAlarm, Claimable, DropTimeout,
         DropAlarm, HandlePoll, Pollable, IInv, Coherent, HandlersClaimed
<1>3. \A q \in Polls : \/ handler'[q] = handler[q]
                       \/ /\ q = p
                          /\ handler[q].at = "idle"
                          /\ handler'[q].at = "fetching"
                          /\ session[q[1]].status = "active"
                          /\ q \in executedPolls'
  BY <1>2 DEF IInv, TypeOK, At, Active
<1>4. \A q \in Polls : q \in executedPolls => q \in executedPolls'
  BY <1>2
<1>5. SessionsBorn'
  BY <1>1 DEF IInv, Coherent, SessionsBorn
<1>6. HandlersClaimed'
  BY <1>1, <1>3, <1>4 DEF IInv, Coherent, HandlersClaimed, Active
<1>7. CancelsDecided'
  BY <1>1 DEF IInv, Coherent, CancelsDecided
<1>8. VerdictsDurable'
  BY <1>1, <1>3 DEF IInv, Coherent, VerdictsDurable, OutOfReach
<1>9. SentinelExclusive'
  BY <1>1, <1>3, SentinelFrame
<1>10. OneLivePerTab'
  BY <1>1, FewerActive
<1> QED
  BY <1>5, <1>6, <1>7, <1>8, <1>9, <1>10 DEF Kept, Coherent

LEMMA CancelStepKept ==
    ASSUME IInv, NEW c \in cancels, CancelStep(c)
    PROVE  Kept'
<1>1. c \in CancelOps /\ c.sid \in Sessions /\ session[c.sid].status \in Ended
  BY DEF IInv, TypeOK, CancelOps, Coherent, CancelsDecided
<1>2. worker # "down"
  BY <1>1 DEF IInv, Coherent, SessionsBorn, Ended
<1>3. CASE CancelCloses(c)
  <2>1. c = [sid |-> c.sid, by |-> c.by, at |-> "closing"]
    BY <1>1, <1>3 DEF CancelCloses, CancelOps
  <2>4. \A d, e \in cancels : d.by \in Sessions /\ d.by = e.by => d = e
    BY DEF IInv, Coherent, CancelsDecided
  <2>5. CancelEffect(c.sid, c.by)
    BY <1>1, <1>3, <2>1, <2>4, ForgetEffect DEF CancelCloses, IInv, StatusKept
  <2>2. c.by \in Sessions => start'[c.by] = "scanning"
    BY <1>3 DEF CancelCloses, IInv, Coherent, CancelsDecided
  <2> QED
    BY <1>1, <1>2, <1>3, <2>5, <2>2, CancelEffectKept DEF CancelCloses
<1>4. CASE CancelSaved(c)
  <2>1. SessionsBorn' /\ HandlersClaimed' /\ CancelsDecided'
    BY <1>4 DEF CancelSaved, pollerVars, IInv, Coherent, SessionsBorn, HandlersClaimed,
                Active, CancelsDecided
  <2>2. VerdictsDurable'
    <3>1. OutOfReach(c.sid) /\ start[c.sid] \notin {"idle", "scanning"}
      BY <1>1, <1>4 DEF CancelSaved, IInv, Coherent, VerdictsDurable, SessionsBorn, Ended
    <3>2. \A s \in Sessions : s # c.sid => reports'[s] = reports[s]
      BY <1>1, <1>4 DEF CancelSaved, Report, IInv, TypeOK
    <3> QED
      BY <1>4, <3>1, <3>2 DEF CancelSaved, IInv, Coherent, VerdictsDurable, OutOfReach
  <2>3. SentinelExclusive'
    BY <1>4, SentinelFrame DEF CancelSaved
  <2>4. OneLivePerTab'
    BY <1>4, FewerActive DEF CancelSaved
  <2> QED
    BY <2>1, <2>2, <2>3, <2>4 DEF Kept, Coherent
<1>5. CASE CancelFails(c)
  <2>1. /\ \A s \in Sessions : start'[s] = start[s]
                               \/ (s = c.by /\ start[s] = "scanning" /\ start'[s] = "idle")
        /\ \A s \in Sessions : request'[s] = request[s] \/ (s = c.by /\ start[s] = "scanning")
    BY <1>5 DEF CancelFails, IInv, Coherent, CancelsDecided
  <2>2. \A s \in sessions : s \in Sessions /\ start[s] \notin {"idle", "scanning"}
    BY DEF IInv, TypeOK, Coherent, SessionsBorn
  <2>3. SessionsBorn'
    BY <1>2, <1>5, <2>1 DEF CancelFails, IInv, Coherent, SessionsBorn
  <2>4. HandlersClaimed'
    BY <1>5 DEF CancelFails, pollerVars, IInv, Coherent, HandlersClaimed, Active
  <2>5. CancelsDecided'
    <3>1. \A d \in cancels' : d \in cancels /\ (d.by \in Sessions => d.by # c.by)
      BY <1>5 DEF CancelFails, IInv, Coherent, CancelsDecided
    <3> QED
      BY <1>5, <2>1, <3>1 DEF CancelFails, IInv, TypeOK, Coherent, CancelsDecided
  <2>6. VerdictsDurable'
    BY <1>5, <2>1 DEF CancelFails, IInv, Coherent, VerdictsDurable, OutOfReach
  <2>7. SentinelExclusive'
    BY <1>5, SentinelFrame DEF CancelFails
  <2>8. OneLivePerTab'
    BY <1>5, <2>1, <2>2 DEF CancelFails, IInv, OneLivePerTab, Active
  <2> QED
    BY <2>3, <2>4, <2>5, <2>6, <2>7, <2>8 DEF Kept, Coherent
<1> QED
  BY <1>3, <1>4, <1>5 DEF CancelStep

\* Wherever startSession(s) stands, it cancels a victim or creates s.
LEMMA StartKept ==
    ASSUME IInv, NEW s \in Sessions, NEW tab, start[s] \in {"idle", "scanning"},
           worker # "down", ~ \E c \in cancels : c.by = s,
           CancelVictim(s, tab) \/ CreateSession(s, tab),
           request'[s].tab = tab, \A e \in Sessions : e # s => request'[e] = request[e]
    PROVE  Kept'
<1>1. CASE CancelVictim(s, tab)
  <2>1. PICK e \in Victims(tab) : BeginCancel(e, s)
    BY <1>1 DEF CancelVictim
  <2>2. e \in Sessions
    BY <2>1 DEF Victims, IInv, TypeOK
  <2>3. CancelEffect(e, s)
    BY <2>1, <2>2, BeginCancelEffect
  <2>4. \A d \in sessions : d \in Sessions /\ d # s
    BY DEF IInv, TypeOK, Coherent, SessionsBorn
  <2>5. /\ start'[s] = "scanning"
        /\ \A d \in Sessions : d # s => start'[d] = start[d]
    BY <1>1 DEF CancelVictim, IInv, TypeOK
  <2> QED
    BY <2>1, <2>2, <2>3, <2>4, <2>5, CancelEffectKept DEF BeginCancel
<1>2. CASE CreateSession(s, tab)
  BY <1>2, CreateKept
<1> QED
  BY <1>1, <1>2

LEMMA StartStepsKept ==
    ASSUME IInv, NEW s \in Sessions,
           StartStep(s) \/ \E tab \in Tabs, sms \in SmsDetected : StartSession(s, tab, sms)
    PROVE  Kept'
<1>1. ASSUME NEW tab, NEW sms, StartSession(s, tab, sms) PROVE Kept'
  <2>1. ~ \E c \in cancels : c.by = s
    BY <1>1 DEF StartSession, IInv, Coherent, CancelsDecided
  <2>2. request'[s].tab = tab /\ \A e \in Sessions : e # s => request'[e] = request[e]
    BY <1>1 DEF StartSession, IInv, TypeOK
  <2> QED
    BY <1>1, <2>1, <2>2, StartKept DEF StartSession
<1>2. CASE ScanResumes(s)
  <2>1. worker # "down"
    BY <1>2 DEF ScanResumes, IInv, Coherent, SessionsBorn
  <2> QED
    BY <1>2, <2>1, StartKept DEF ScanResumes
<1>3. CASE StartSaved(s)
  <2>1. start[s] = "saving" /\ \A e \in Sessions : start'[e] = IF e = s THEN "done" ELSE start[e]
    BY <1>3 DEF StartSaved, IInv, TypeOK
  <2>2. SessionsBorn'
    BY <1>3, <2>1 DEF StartSaved, IInv, Coherent, SessionsBorn
  <2>3. HandlersClaimed'
    BY <1>3 DEF StartSaved, SchedulePolls, IInv, Coherent, HandlersClaimed, Active
  <2>4. CancelsDecided'
    BY <1>3, <2>1 DEF StartSaved, IInv, Coherent, CancelsDecided
  <2>5. VerdictsDurable'
    BY <1>3, <2>1 DEF StartSaved, IInv, Coherent, VerdictsDurable, OutOfReach
  <2>6. SentinelExclusive'
    BY <1>3, SentinelFrame DEF StartSaved
  <2>7. OneLivePerTab'
    BY <1>3, <2>1 DEF StartSaved, IInv, TypeOK, OneLivePerTab, Active
  <2> QED
    BY <2>2, <2>3, <2>4, <2>5, <2>6, <2>7 DEF Kept, Coherent
<1> QED
  BY <1>1, <1>2, <1>3 DEF StartStep

LEMMA UserCancelKept ==
    ASSUME IInv, NEW s \in Sessions, NEW by \in UserCancels, UserCancel(s, by)
    PROVE  Kept'
<1>1. by \notin Sessions
  BY SessionsAssumption DEF UserCancels
<1>2. CancelEffect(s, by)
  BY <1>1, BeginCancelEffect DEF UserCancel
<1> QED
  BY <1>1, <1>2, CancelEffectKept DEF UserCancel, BeginCancel

\* processPollResult's save stores what the Map holds.
LEMMA PersistKept ==
    ASSUME IInv, NEW p \in Polls, PersistWhilePolling(p)
    PROVE  Kept'
<1>1. stored' = Snapshot(sessions, session)
  BY DEF PersistWhilePolling
<1>2. \A s \in Sessions : stored'[s].status # "none" => s \in sessions
  BY <1>1 DEF Snapshot, NoSession
<1>3. \A s \in Sessions : stored'[s].status = "active" => session[s].status = "active"
  BY <1>1 DEF Snapshot, NoSession
<1>4. SessionsBorn'
  BY <1>2 DEF PersistWhilePolling, IInv, Coherent, SessionsBorn
<1>5. HandlersClaimed' /\ CancelsDecided'
  BY DEF PersistWhilePolling, IInv, Coherent, HandlersClaimed, CancelsDecided, Active, pollerVars
<1>6. \A s \in Sessions : OutOfReach(s) => OutOfReach(s)'
  BY <1>3 DEF PersistWhilePolling, OutOfReach
<1>7. VerdictsDurable'
  BY <1>6, PollParts DEF PersistWhilePolling, IInv, TypeOK, CancelOps, Coherent, VerdictsDurable
<1>8. SentinelExclusive'
  BY SentinelFrame DEF PersistWhilePolling
<1>9. OneLivePerTab'
  BY FewerActive DEF PersistWhilePolling
<1> QED
  BY <1>4, <1>5, <1>7, <1>8, <1>9 DEF Kept, Coherent

LEMMA WakeKept ==
    ASSUME IInv, Wake
    PROVE  Kept'
<1>1. \A s \in Sessions : start[s] \in {"idle", "over"} /\ session[s].status = "none"
  BY DEF Wake, IInv, Coherent, SessionsBorn
<1>2. \A s \in Sessions : stored[s].status # "none" => start[s] = "over"
  BY <1>1 DEF IInv, Coherent, SessionsBorn
<1>3. cancels = {} /\ \A p \in Polls : handler[p].at = "idle"
  <2>1. ASSUME NEW c \in cancels PROVE FALSE
    <3>1. c.sid \in Sessions /\ session[c.sid].status \in Ended
      BY DEF IInv, TypeOK, CancelOps, Coherent, CancelsDecided
    <3> QED
      BY <1>1, <3>1 DEF Ended
  <2>2. \A p \in Polls : handler[p].at = "idle"
    BY <1>1, PollParts DEF IInv, Coherent, HandlersClaimed
  <2> QED
    BY <2>1, <2>2
<1>4. SessionsBorn'
  BY <1>1, <1>2 DEF Wake, IInv, Coherent, SessionsBorn
<1>5. HandlersClaimed' /\ CancelsDecided'
  BY <1>3 DEF Wake, HandlersClaimed, CancelsDecided
<1>6. \A s \in Sessions : OutOfReach(s) => OutOfReach(s)'
  BY DEF Wake, OutOfReach
<1>7. VerdictsDurable'
  BY <1>3, <1>6 DEF Wake, IInv, Coherent, VerdictsDurable
<1>8. SentinelExclusive'
  BY SentinelFrame DEF Wake
<1>9. OneLivePerTab'
  BY FewerActive DEF Wake
<1> QED
  BY <1>4, <1>5, <1>7, <1>8, <1>9 DEF Kept, Coherent

\* initialize brings back sessions that nothing in this worker refers to.
LEMMA FinishLoadingKept ==
    ASSUME IInv, FinishLoading
    PROVE  Kept'
<1>1. \A s \in Restored : s \in Sessions /\ start[s] = "over" /\ session[s].status = "none"
                           /\ s \notin sessions
  BY DEF Restored, IInv, Coherent, SessionsBorn
<1>2. \A s \in Sessions : s \notin Restored => session'[s] = session[s]
  BY DEF FinishLoading
<1>3. \A s \in Restored : session'[s].status = "active"
  BY <1>1 DEF FinishLoading, Restored
<1>4. SessionsBorn'
  <2> SUFFICES ASSUME NEW s \in Sessions
               PROVE  /\ s \in sessions' => session'[s].status # "none"
                      /\ session'[s].status # "none" => start[s] \notin {"idle", "scanning"}
                      /\ booting'[s].status = "none"
                      /\ stored[s].status # "none" => start[s] \notin {"idle", "scanning"}
    BY DEF FinishLoading, SessionsBorn
  <2>1. booting'[s].status = "none"
    BY DEF FinishLoading, NoSession
  <2> QED
    BY <1>1, <1>2, <1>3, <2>1 DEF FinishLoading, IInv, Coherent, SessionsBorn
<1>5. \A p \in Polls : handler[p].at # "idle" => p[1] \in Sessions /\ p[1] \notin Restored
  BY <1>1, PollParts DEF IInv, Coherent, HandlersClaimed
<1>6. HandlersClaimed'
  BY <1>2, <1>5 DEF FinishLoading, SchedulePolls, IInv, Coherent, HandlersClaimed, Active
<1>7. \A c \in cancels : c.sid \in Sessions /\ c.sid \notin Restored
  BY <1>1 DEF IInv, TypeOK, CancelOps, Coherent, CancelsDecided, Ended
<1>8. CancelsDecided'
  BY <1>2, <1>7 DEF FinishLoading, IInv, Coherent, CancelsDecided
<1>9. \A s \in Sessions : OutOfReach(s) => OutOfReach(s)'
  BY <1>2 DEF FinishLoading, OutOfReach, Restored, NoSession
<1>10. VerdictsDurable'
  BY <1>9, PollParts DEF FinishLoading, IInv, TypeOK, CancelOps, Coherent, VerdictsDurable
<1>11. SentinelExclusive'
  BY SentinelFrame DEF FinishLoading
<1>12. OneLivePerTab'
  <2> SUFFICES ASSUME NEW a \in sessions', NEW b \in sessions', a # b,
                      session'[a].status = "active", session'[b].status = "active",
                      request[a].tab = request[b].tab
               PROVE  "over" \in {start[a], start[b]}
    BY DEF FinishLoading, OneLivePerTab, Active
  <2>1. a \in sessions \cup Restored /\ b \in sessions \cup Restored
    BY DEF FinishLoading
  <2>2. CASE a \in Restored \/ b \in Restored
    BY <1>1, <2>2
  <2>3. CASE a \notin Restored /\ b \notin Restored
    BY <1>2, <2>1, <2>3 DEF IInv, TypeOK, OneLivePerTab, Active
  <2> QED
    BY <2>2, <2>3
<1> QED
  BY <1>4, <1>6, <1>8, <1>10, <1>11, <1>12 DEF Kept, Coherent

LEMMA CrashKept ==
    ASSUME IInv, Crash
    PROVE  Kept'
<1>1. \A s \in Sessions : /\ session'[s].status = "none"
                          /\ booting'[s].status = "none"
                          /\ start'[s] \in {"idle", "over"}
                          /\ start[s] \notin {"idle", "scanning"} => start'[s] = "over"
  BY DEF Crash, NoSession
<1>2. \A p \in Polls : handler'[p].at = "idle"
  BY DEF Crash, Idle, At
<1>3. SessionsBorn'
  BY <1>1 DEF Crash, IInv, Coherent, SessionsBorn
<1>4. HandlersClaimed'
  BY <1>2 DEF HandlersClaimed
<1>5. CancelsDecided'
  BY DEF Crash, CancelsDecided
<1>6. VerdictsDurable'
  BY <1>1, <1>2 DEF Crash, IInv, Coherent, VerdictsDurable, OutOfReach
<1>7. SentinelExclusive'
  <2>1. \A s \in Sessions, i \in Index : handler'[<<s, i>>].at # "polling"
    BY <1>2 DEF Polls
  <2> QED
    BY <2>1 DEF Crash, SentinelExclusive
<1>8. OneLivePerTab'
  BY DEF Crash, OneLivePerTab
<1> QED
  BY <1>3, <1>4, <1>5, <1>6, <1>7, <1>8 DEF Kept, Coherent

LEMMA StutterKept ==
    ASSUME IInv, UNCHANGED vars \/ \E s \in Sessions : Tick(s)
    PROVE  Kept'
<1>1. UNCHANGED <<controllerVars, executedPolls>>
  BY DEF vars, pollerVars, Tick, AdvanceClock
<1>2. SessionsBorn' /\ HandlersClaimed' /\ CancelsDecided'
  BY <1>1 DEF controllerVars, IInv, Coherent, SessionsBorn, HandlersClaimed, CancelsDecided, Active
<1>3. VerdictsDurable'
  BY <1>1 DEF controllerVars, IInv, Coherent, VerdictsDurable, OutOfReach
<1>4. SentinelExclusive'
  BY <1>1, SentinelFrame DEF controllerVars
<1>5. OneLivePerTab'
  BY <1>1, FewerActive DEF controllerVars
<1> QED
  BY <1>2, <1>3, <1>4, <1>5 DEF Kept, Coherent

LEMMA IInvInit == Init => IInv
<1> SUFFICES ASSUME Init PROVE IInv
  OBVIOUS
<1>1. TypeOK
  BY InitType
<1>2. \A p \in Polls : handler[p].at = "idle"
  BY DEF Init, Idle, At
<1>3. Coherent
  BY <1>2 DEF Init, Coherent, SessionsBorn, HandlersClaimed, CancelsDecided, VerdictsDurable,
              NoSession
<1>4. SentinelExclusive
  <2>1. \A s \in Sessions, i \in Index : handler[<<s, i>>].at # "polling"
    BY <1>2 DEF Polls
  <2> QED
    BY <2>1 DEF Init, SentinelExclusive
<1>5. OneLivePerTab
  BY DEF Init, OneLivePerTab
<1> QED
  BY <1>1, <1>3, <1>4, <1>5 DEF IInv

LEMMA IInvStep == IInv /\ [Next]_vars => IInv'
<1> SUFFICES ASSUME IInv, [Next]_vars PROVE Kept'
  BY TypeStep DEF IInv, Kept
<1>1. ASSUME NEW s \in Sessions, NEW tab \in Tabs, NEW sms \in SmsDetected,
             StartSession(s, tab, sms)
      PROVE  Kept'
  BY <1>1, StartStepsKept
<1>2. ASSUME NEW s \in Sessions, StartStep(s) PROVE Kept'
  BY <1>2, StartStepsKept
<1>3. ASSUME NEW s \in Sessions, NEW by \in UserCancels, UserCancel(s, by) PROVE Kept'
  BY <1>3, UserCancelKept
<1>4. ASSUME NEW c \in cancels, CancelStep(c) PROVE Kept'
  BY <1>4, CancelStepKept
<1>5. ASSUME NEW p \in Polls, TimeoutFires(p) \/ AlarmFires(p) PROVE Kept'
  BY <1>5, FireKept
<1>6. ASSUME NEW p \in Polls, PollStep(p) PROVE Kept'
  BY <1>6, PollStepKept
<1>7. ASSUME NEW p \in Polls, PersistWhilePolling(p) PROVE Kept'
  BY <1>7, PersistKept
<1>8. CASE WorkerStep
  BY <1>8, WakeKept, FinishLoadingKept DEF WorkerStep
<1>9. CASE Crash
  BY <1>9, CrashKept
<1>10. CASE UNCHANGED vars \/ \E s \in Sessions : Tick(s)
  BY <1>10, StutterKept
<1> QED
  BY <1>1, <1>2, <1>3, <1>4, <1>5, <1>6, <1>7, <1>8, <1>9, <1>10 DEF Next

\* IInv holds in every reachable state.
THEOREM Invariance == Spec => []IInv
BY IInvInit, IInvStep, PTL DEF Spec

\* Between two turns the Map, the storage, the snapshot being restored, the
\* pending cancels and the running polls agree, however awaits interleave.
THEOREM Coherence == Spec => []Coherent
BY Invariance, PTL DEF IInv

\* baselineCapturing is held exactly while one poll of the session is inside.
THEOREM SentinelExclusion == Spec => []SentinelExclusive
BY Invariance, PTL DEF IInv

\* Concurrent startSession calls leave one live watch per tab.
THEOREM OneWatchPerTab == Spec => []OneLivePerTab
BY Invariance, PTL DEF IInv

\* What was reported is never polled again, and no restart brings it back.
THEOREM NoResurrection == Spec => []ReportedNotResumed
<1>1. IInv => ReportedNotResumed
  BY DEF IInv, Coherent, VerdictsDurable, OutOfReach, ReportedNotResumed, Active
<1> QED
  BY <1>1, Invariance, PTL

\* A poll that already runs moves on, and never back to its beginning.
LEMMA PollStepAdvances ==
    ASSUME IInv, NEW p \in Polls, PollStep(p)
    PROVE  \A q \in Polls : handler'[q] = handler[q] \/ handler'[q].at # "fetching"
<1>1. ASSUME NEW h, PollEffect(p, h)
      PROVE  \A q \in Polls : handler'[q] = handler[q] \/ handler'[q].at # "fetching"
  BY <1>1 DEF PollEffect, IInv, TypeOK
<1>2. CASE NoPoll(p) \/ SkipPoll(p) \/ \E result \in {"code", "nothing"} : PollAnswers(p, result)
  BY <1>1, <1>2, ResumeEffect DEF NoPoll, SkipPoll, PollAnswers, IInv
<1>3. CASE PollFails(p)
  BY <1>1, <1>3, NothingFoundEffect, LeaveEffect DEF PollFails, IInv
<1>4. CASE VerdictCloses(p)
  BY <1>4 DEF VerdictCloses, SaveVerdict, Goto, At, IInv, TypeOK
<1>5. CASE BeginPolling(p) \/ VerdictSaved(p)
  BY <1>5 DEF BeginPolling, VerdictSaved, Goto, At, IInv, TypeOK
<1> QED
  BY <1>2, <1>3, <1>4, <1>5 DEF PollStep

OnlyIdleBegins == \A p \in Polls : Begins(p) => handler[p].at = "idle"

LEMMA BeginsStep == IInv /\ [Next]_vars => OnlyIdleBegins
<1> SUFFICES ASSUME IInv, [Next]_vars PROVE OnlyIdleBegins
  OBVIOUS
<1>1. ASSUME NEW p \in Polls, TimeoutFires(p) \/ AlarmFires(p) PROVE OnlyIdleBegins
  <2>1. \/ handler' = handler
        \/ handler[p].at = "idle" /\ handler' = [handler EXCEPT ![p] = At("fetching", "none")]
    BY <1>1 DEF TimeoutFires, AlarmFires, ClaimByTimeout, ClaimByAlarm, Claimable,
                HandlePoll, Pollable, IInv, Coherent, HandlersClaimed
  <2> QED
    BY <2>1 DEF OnlyIdleBegins, Begins, IInv, TypeOK
<1>2. ASSUME NEW p \in Polls, PollStep(p) PROVE OnlyIdleBegins
  BY <1>2, PollStepAdvances DEF OnlyIdleBegins, Begins
<1>3. CASE Crash
  BY <1>3 DEF Crash, Idle, At, OnlyIdleBegins, Begins
<1>4. CASE UNCHANGED handler
  BY <1>4 DEF OnlyIdleBegins, Begins
<1> QED
  BY <1>1, <1>2, <1>3, <1>4
     DEF Next, StartSession, StartStep, ScanResumes, CancelVictim, CreateSession, StartSaved,
         UserCancel, BeginCancel, CancelStep, CancelCloses, CancelSaved, CancelFails, Tick,
         PersistWhilePolling, WorkerStep, Wake, FinishLoading, vars, controllerVars

\* The setTimeout and the alarm of a poll never both run it.
THEOREM NoDoubleRun == Spec => PollRunsOnce
BY BeginsStep, Invariance, PTL DEF Spec, PollRunsOnce, OnlyIdleBegins

-----------------------------------------------------------------------------
(***************************************************************************)
(* Part three.  Verdicts.                                                  *)
(***************************************************************************)
Deciding(p) == handler[p].at \in {"closing", "ending"}

(***************************************************************************)
(* A poll decides its session only while the session is active, so no      *)
(* second one decides it, and none decides it once a verdict was reported. *)
(***************************************************************************)
OneDecider ==
    /\ \A p, q \in Polls : Deciding(p) /\ Deciding(q) /\ p[1] = q[1] => p = q
    /\ \A p \in Polls : Deciding(p) => PollReports(p[1]) = {}
    /\ OnePollVerdict

(***************************************************************************)
(* As long as no write was rejected, a session counts each poll index      *)
(* once, and none before its time.                                         *)
(***************************************************************************)
Counted(object, now) ==
    /\ object.completed \subseteq 0 .. now
    /\ object.count = Cardinality(object.completed)

Punctual ==
    /\ \A p \in Polls :
          /\ handler[p].at # "idle" => Due(p)
          /\ handler[p].at # "failing"
          /\ handler[p].at \in {"fetching", "polling"} => p[2] \notin session[p[1]].completed
    /\ \A s \in Sessions :
          /\ Counted(session[s], elapsed[s])
          /\ Counted(stored[s], elapsed[s])
          /\ Counted(booting[s], elapsed[s])
          /\ session[s].status = "timedout" => elapsed[s] >= LastIndex

OnTime == failures = 0 => Punctual

(***************************************************************************)
(* What storage holds of a session is never ahead of the session.          *)
(***************************************************************************)
StorageBehind ==
    \A s \in Sessions :
        /\ session[s].status # "none" => stored[s].completed \subseteq session[s].completed
        /\ booting[s].status # "none" => stored[s].completed \subseteq booting[s].completed
        /\ stored[s].status = "none" => stored[s].completed = {}

(***************************************************************************)
(* A startSession call past its loop has its session in this worker, and a *)
(* session that is active in storage only is being restored.               *)
(***************************************************************************)
NoneLost ==
    \A s \in Sessions :
        /\ start[s] \in {"saving", "done", "failed"} => session[s].status # "none"
        /\ worker # "down" /\ session[s].status = "none" /\ stored[s].status = "active" =>
              booting[s].status = "active"

-----------------------------------------------------------------------------
(***************************************************************************)
(* One verdict of a poll.                                                  *)
(***************************************************************************)
\* Steps that report nothing and let no poll decide.
LEMMA DeciderFrame ==
    ASSUME OneDecider, reports' = reports,
           \A p \in Polls : Deciding(p)' => Deciding(p)
    PROVE  OneDecider'
<1>1. \A s : PollReports(s)' = PollReports(s)
  BY DEF PollReports
<1> QED
  BY <1>1 DEF OneDecider, OnePollVerdict

\* A poll decides only while its session is active.
LEMMA DeciderStep ==
    ASSUME IInv, OneDecider, NEW p \in Polls, NEW h, PollEffect(p, h), reports' = reports,
           h.at \in {"closing", "ending"} => Deciding(p) \/ StillActive(p)
    PROVE  OneDecider'
<1>1. \A q \in Polls : handler'[q] = IF q = p THEN h ELSE handler[q]
  BY DEF PollEffect, IInv, TypeOK
<1>2. CASE Deciding(p) \/ h.at \notin {"closing", "ending"}
  BY <1>1, <1>2, DeciderFrame DEF Deciding
<1>3. CASE ~ Deciding(p) /\ StillActive(p)
  <2>1. p[1] \in Sessions
    BY PollParts
  <2>2. \A q \in Polls : q[1] = p[1] => ~ Deciding(q)
    BY <1>3, <2>1
       DEF Deciding, StillActive, IInv, TypeOK, HandlerStates, PollVerdicts, Coherent,
           HandlersClaimed
  <2>3. PollReports(p[1]) = {}
    BY <1>3, <2>1 DEF StillActive, IInv, Coherent, VerdictsDurable, OutOfReach, PollReports
  <2>4. \A s : PollReports(s)' = PollReports(s)
    BY DEF PollReports
  <2>5. \A q \in Polls : Deciding(q)' => q = p \/ (Deciding(q) /\ q[1] # p[1])
    BY <1>1, <2>2 DEF Deciding
  <2> QED
    BY <2>3, <2>4, <2>5 DEF OneDecider, OnePollVerdict
<1> QED
  BY <1>2, <1>3

\* The re-check of the status after the await.
LEMMA LateResultLeaves ==
    ASSUME IInv, NEW p \in Polls,
           \/ \E result : Resume(p, result)
           \/ PollFails(p),
           ~ StillActive(p)
    PROVE  handler'[p].at = "done"
<1>1. Leave(p)
  BY DEF Resume, PollFails
<1> QED
  BY <1>1 DEF Leave, Goto, At, IInv, TypeOK

LEMMA DeciderPollStep ==
    ASSUME IInv, OneDecider, NEW p \in Polls, PollStep(p)
    PROVE  OneDecider'
<1>1. ASSUME NEW h, PollEffect(p, h), reports' = reports,
             \/ \E result : Resume(p, result)
             \/ PollFails(p)
      PROVE  OneDecider'
  <2>1. handler'[p] = h
    BY <1>1 DEF PollEffect, IInv, TypeOK
  <2> QED
    BY <1>1, <2>1, LateResultLeaves, DeciderStep
<1>2. CASE NoPoll(p) \/ SkipPoll(p) \/ \E result \in {"code", "nothing"} : PollAnswers(p, result)
  <2>1. PICK result : Resume(p, result)
    BY <1>2 DEF NoPoll, SkipPoll, PollAnswers
  <2>2. PICK h : PollEffect(p, h)
    BY <2>1, ResumeEffect DEF IInv
  <2> QED
    BY <1>1, <2>1, <2>2 DEF Resume
<1>3. CASE PollFails(p)
  <2>1. \E h : PollEffect(p, h)
    BY <1>3, NothingFoundEffect, LeaveEffect DEF PollFails, IInv
  <2> QED
    BY <1>1, <1>3, <2>1 DEF PollFails
<1>4. CASE VerdictCloses(p)
  <2>1. Deciding(p) /\ reports' = reports
    BY <1>4 DEF VerdictCloses, Deciding
  <2>2. \A q \in Polls : q # p => handler'[q] = handler[q]
    BY <1>4 DEF VerdictCloses, SaveVerdict, Goto, IInv, TypeOK
  <2> QED
    BY <2>1, <2>2, DeciderFrame DEF Deciding
<1>5. CASE BeginPolling(p)
  <2>1. \A q \in Polls : Deciding(q)' => Deciding(q)
    BY <1>5 DEF BeginPolling, Goto, At, Deciding, IInv, TypeOK
  <2> QED
    BY <1>5, <2>1, DeciderFrame DEF BeginPolling
<1>6. CASE VerdictSaved(p)
  <2>1. p[1] \in Sessions /\ Deciding(p)
    BY <1>6, PollParts DEF VerdictSaved, Deciding
  <2>2. PollReports(p[1]) = {}
    BY <2>1 DEF OneDecider
  <2>3. \A q \in Polls : Deciding(q)' => Deciding(q) /\ q[1] # p[1]
    <3>1. \A q \in Polls : Deciding(q)' => Deciding(q) /\ q # p
      BY <1>6 DEF VerdictSaved, Goto, At, Deciding, IInv, TypeOK
    <3> QED
      BY <2>1, <3>1 DEF OneDecider
  <2>4. \A s \in Sessions : s # p[1] => reports'[s] = reports[s]
    BY <1>6 DEF VerdictSaved, Report, IInv, TypeOK
  <2>5. \A s \in Sessions : s # p[1] => PollReports(s)' = PollReports(s)
    BY <2>4 DEF PollReports
  <2>6. reports'[p[1]] = Append(reports[p[1]], handler[p].verdict) /\ reports[p[1]] \in Seq(Ended)
    BY <1>6, <2>1 DEF VerdictSaved, Report, IInv, TypeOK
  <2>7. \A k \in PollReports(p[1])' : k = Len(reports[p[1]]) + 1
    BY <2>2, <2>6 DEF PollReports
  <2> QED
    BY <2>3, <2>5, <2>7, PollParts DEF OneDecider, OnePollVerdict
<1> QED
  BY <1>2, <1>3, <1>4, <1>5, <1>6 DEF PollStep

\* A cancel that is reported adds no verdict of a poll.
LEMMA DeciderCancelSaved ==
    ASSUME IInv, OneDecider, NEW c \in cancels, CancelSaved(c)
    PROVE  OneDecider'
<1>1. c.sid \in Sessions
  BY DEF IInv, TypeOK, CancelOps
<1>2. handler' = handler
  BY DEF CancelSaved
<1>3. \A s \in Sessions : s # c.sid => reports'[s] = reports[s]
  BY DEF CancelSaved, Report, IInv, TypeOK
<1>4. reports'[c.sid] = Append(reports[c.sid], "canceled") /\ reports[c.sid] \in Seq(Ended)
  BY <1>1 DEF CancelSaved, Report, IInv, TypeOK
<1>5. PollReports(c.sid)' \subseteq PollReports(c.sid)
  BY <1>4 DEF PollReports
<1>6. \A s \in Sessions : PollReports(s)' \subseteq PollReports(s)
  BY <1>3, <1>5 DEF PollReports
<1> QED
  BY <1>2, <1>6, PollParts DEF OneDecider, OnePollVerdict, Deciding

LEMMA DeciderInit == Init => OneDecider
BY DEF Init, OneDecider, OnePollVerdict, PollReports, Deciding, Idle, At

LEMMA DeciderNext == IInv /\ OneDecider /\ [Next]_vars => OneDecider'
<1> SUFFICES ASSUME IInv, OneDecider, [Next]_vars PROVE OneDecider'
  OBVIOUS
<1>1. ASSUME NEW p \in Polls, PollStep(p) PROVE OneDecider'
  BY <1>1, DeciderPollStep
<1>2. ASSUME NEW c \in cancels, CancelSaved(c) PROVE OneDecider'
  BY <1>2, DeciderCancelSaved
<1>3. ASSUME NEW p \in Polls, TimeoutFires(p) \/ AlarmFires(p) PROVE OneDecider'
  <2>1. handler' = handler \/ handler' = [handler EXCEPT ![p] = At("fetching", "none")]
    BY <1>3 DEF TimeoutFires, AlarmFires, HandlePoll
  <2>2. handler \in [Polls -> HandlerStates]
    BY DEF IInv, TypeOK
  <2>3. \A q \in Polls : handler'[q] = handler[q] \/ handler'[q] = At("fetching", "none")
    BY <2>1, <2>2
  <2>4. \A q \in Polls : Deciding(q)' => Deciding(q)
    BY <2>3 DEF At, Deciding
  <2> QED
    BY <1>3, <2>4, DeciderFrame DEF TimeoutFires, AlarmFires
<1>4. CASE Crash
  BY <1>4, DeciderFrame DEF Crash, Deciding, Idle, At
<1>5. CASE UNCHANGED <<handler, reports>>
  BY <1>5, DeciderFrame DEF Deciding
<1> QED
  BY <1>1, <1>2, <1>3, <1>4, <1>5
     DEF Next, StartSession, StartStep, ScanResumes, CancelVictim, CreateSession, StartSaved,
         UserCancel, BeginCancel, CancelStep, CancelCloses, CancelFails, Tick,
         PersistWhilePolling, WorkerStep, Wake, FinishLoading, vars, controllerVars

\* However polls race, restarts included, a session gets one verdict of a poll.
THEOREM OneVerdict == Spec => []OnePollVerdict
<1>1. OneDecider => OnePollVerdict
  BY DEF OneDecider
<1> QED
  BY <1>1, DeciderInit, DeciderNext, Invariance, PTL DEF Spec

-----------------------------------------------------------------------------
(***************************************************************************)
(* What a poll's answer does to the session object.                        *)
(***************************************************************************)
Marks(p) == Mark(session[p[1]], p[2])

Advances(p, v) ==
    \/ v = session[p[1]]
    \/ /\ StillActive(p)
       /\ \/ SkipEndsSession(p) /\ v = [session[p[1]] EXCEPT !.status = "timedout"]
          \/ v = Marks(p)
          \/ v = [Marks(p) EXCEPT !.status = "filled"]
          \/ Marks(p).count >= NPolls /\ v = [Marks(p) EXCEPT !.status = "timedout"]

LEMMA AnswerAdvances ==
    ASSUME TypeOK, NEW p \in Polls,
           \/ \E result : Resume(p, result)
           \/ PollFails(p)
    PROVE  \E v : Advances(p, v) /\ session' = [session EXCEPT ![p[1]] = v]
<1>1. CASE Leave(p)
  <2>1. session' = [session EXCEPT ![p[1]] = session[p[1]]]
    BY <1>1 DEF Leave, TypeOK
  <2> QED
    BY <2>1 DEF Advances
<1>2. CASE StillActive(p) /\ SkipEndsSession(p) /\ Conclude(p, "timedout", session[p[1]])
  BY <1>2 DEF Conclude, Advances
<1>3. CASE StillActive(p) /\ Conclude(p, "filled", Mark(session[p[1]], p[2]))
  BY <1>3 DEF Conclude, Advances, Marks
<1>4. ASSUME NEW failing, StillActive(p), NothingFound(p, failing)
      PROVE  \E v : Advances(p, v) /\ session' = [session EXCEPT ![p[1]] = v]
  <2>1. CASE Marks(p).count >= NPolls
    BY <1>4, <2>1 DEF NothingFound, Conclude, Advances, Marks
  <2>2. CASE ~ (Marks(p).count >= NPolls)
    BY <1>4, <2>2 DEF NothingFound, Advances, Marks
  <2> QED
    BY <2>1, <2>2
<1> QED
  BY <1>1, <1>2, <1>3, <1>4 DEF Resume, AfterSkip, PollFails

\* Completed indices are never taken back.
LEMMA AdvanceGrows ==
    ASSUME TypeOK, NEW p \in Polls, NEW v, Advances(p, v),
           session' = [session EXCEPT ![p[1]] = v]
    PROVE  \A s \in Sessions : /\ session[s].completed \subseteq session'[s].completed
                               /\ session[s].status = "none" => session'[s] = session[s]
<1>1. p[1] \in Sessions /\ session[p[1]] \in SessionState
  BY PollParts DEF TypeOK
<1>2. session'[p[1]] = v /\ \A s \in Sessions : s # p[1] => session'[s] = session[s]
  BY <1>1 DEF TypeOK
<1>3. session[p[1]].completed \subseteq v.completed
  BY <1>1 DEF Advances, Marks, Mark, SessionState
<1>4. session[p[1]].status = "none" => v = session[p[1]]
  BY DEF Advances, StillActive
<1> QED
  BY <1>2, <1>3, <1>4

-----------------------------------------------------------------------------
(***************************************************************************)
(* No poll that was persisted runs again.                                  *)
(***************************************************************************)
\* Saving the Map leaves no session behind its storage.
LEMMA StorageFrame ==
    ASSUME IInv', StorageBehind, Rewritten, booting' = booting,
           \A s \in Sessions : session'[s].status # "none" =>
               stored[s].completed \subseteq session'[s].completed
    PROVE  StorageBehind'
<1>1. CASE stored' = stored
  BY <1>1 DEF StorageBehind
<1>2. CASE stored' = Snapshot(sessions', session')
  <2>1. \A s \in Sessions : s \in sessions' => session'[s].status # "none" /\ booting'[s].status = "none"
    BY DEF IInv, Coherent, SessionsBorn
  <2>2. \A s \in Sessions : stored'[s] = IF s \in sessions' THEN session'[s] ELSE NoSession
    BY <1>2 DEF Snapshot
  <2> QED
    BY <2>1, <2>2 DEF StorageBehind, NoSession
<1> QED
  BY <1>1, <1>2 DEF Rewritten

LEMMA StoragePollStep ==
    ASSUME IInv, IInv', StorageBehind, NEW p \in Polls, PollStep(p)
    PROVE  StorageBehind'
<1>1. ASSUME \/ \E result : Resume(p, result)
             \/ PollFails(p),
             NEW h, PollEffect(p, h), booting' = booting
      PROVE  StorageBehind'
  <2>1. PICK v : Advances(p, v) /\ session' = [session EXCEPT ![p[1]] = v]
    BY <1>1, AnswerAdvances DEF IInv
  <2>2. \A s \in Sessions : /\ session[s].completed \subseteq session'[s].completed
                            /\ session[s].status = "none" => session'[s] = session[s]
    BY <2>1, AdvanceGrows DEF IInv
  <2>3. \A s \in Sessions : session'[s].status # "none" =>
            stored[s].completed \subseteq session'[s].completed
    BY <2>2 DEF StorageBehind
  <2> QED
    BY <1>1, <2>3, StorageFrame DEF PollEffect
<1>2. CASE NoPoll(p) \/ SkipPoll(p) \/ \E result \in {"code", "nothing"} : PollAnswers(p, result)
  <2>1. PICK result : Resume(p, result)
    BY <1>2 DEF NoPoll, SkipPoll, PollAnswers
  <2>2. PICK h : PollEffect(p, h)
    BY <2>1, ResumeEffect DEF IInv
  <2> QED
    BY <1>1, <2>1, <2>2 DEF Resume
<1>3. CASE PollFails(p)
  <2>1. \E h : PollEffect(p, h)
    BY <1>3, NothingFoundEffect, LeaveEffect DEF PollFails, IInv
  <2> QED
    BY <1>1, <1>3, <2>1 DEF PollFails
<1>4. CASE VerdictCloses(p) \/ BeginPolling(p) \/ VerdictSaved(p)
  <2>1. Rewritten /\ booting' = booting /\ session' = session
    BY <1>4 DEF VerdictCloses, BeginPolling, VerdictSaved, SaveVerdict, Persist, Rewritten
  <2> QED
    BY <2>1, StorageFrame DEF StorageBehind
<1> QED
  BY <1>2, <1>3, <1>4 DEF PollStep

\* A step of cancelSession: statuses change, completed indices do not.
LEMMA BeginCancelStorage ==
    ASSUME IInv, NEW s \in Sessions, NEW by, BeginCancel(s, by)
    PROVE  /\ Rewritten /\ booting' = booting
           /\ \A e \in Sessions : /\ session'[e].completed = session[e].completed
                                  /\ session'[e].count = session[e].count
                                  /\ session'[e].status # session[e].status =>
                                         /\ session[e].status = "active"
                                         /\ session'[e].status = "canceled"
<1>1. Rewritten
  BY DEF BeginCancel, Forget, Persist, Rewritten
<1>2. \A e \in Sessions : session[e] \in SessionState
  BY DEF IInv, TypeOK
<1>3. \A e \in Sessions : session'[e] = session[e]
          \/ (session[e].status = "active" /\ session'[e] = [session[e] EXCEPT !.status = "canceled"])
  BY DEF BeginCancel, IInv, TypeOK
<1> QED
  BY <1>1, <1>2, <1>3 DEF BeginCancel, SessionState

LEMMA CreateStorage ==
    ASSUME IInv, IInv', StorageBehind, NEW s \in Sessions, NEW tab,
           start[s] \in {"idle", "scanning"}, CreateSession(s, tab)
    PROVE  StorageBehind'
<1>1. stored[s].completed = {}
  BY DEF IInv, Coherent, SessionsBorn, StorageBehind
<1>2. \A e \in Sessions : e # s => session'[e] = session[e]
  BY DEF CreateSession, IInv, TypeOK
<1>3. Rewritten /\ booting' = booting
  BY DEF CreateSession, Persist, Rewritten
<1> QED
  BY <1>1, <1>2, <1>3, StorageFrame DEF StorageBehind

LEMMA StorageInit == Init => StorageBehind
<1>1. Init => \A s \in Sessions : /\ session[s] = NoSession
                                  /\ stored[s] = NoSession
                                  /\ booting[s] = NoSession
  BY DEF Init
<1>2. NoSession.status = "none" /\ NoSession.completed = {}
  BY DEF NoSession
<1> QED
  BY <1>1, <1>2 DEF StorageBehind

LEMMA StorageNext == IInv /\ StorageBehind /\ [Next]_vars => StorageBehind'
<1> SUFFICES ASSUME IInv, StorageBehind, [Next]_vars PROVE StorageBehind'
  OBVIOUS
<1>1. IInv'
  BY IInvStep
<1>2. ASSUME NEW s \in Sessions, NEW by, BeginCancel(s, by) PROVE StorageBehind'
  <2>1. \A e \in Sessions : session'[e].status # "none" =>
            stored[e].completed \subseteq session'[e].completed
    BY <1>2, BeginCancelStorage DEF StorageBehind
  <2> QED
    BY <1>1, <1>2, <2>1, BeginCancelStorage, StorageFrame
<1>3. ASSUME NEW s \in Sessions, NEW tab, start[s] \in {"idle", "scanning"},
             CancelVictim(s, tab) \/ CreateSession(s, tab)
      PROVE  StorageBehind'
  BY <1>1, <1>2, <1>3, CreateStorage DEF CancelVictim, Victims, IInv, TypeOK
<1>4. ASSUME NEW s \in Sessions,
             StartStep(s) \/ \E tab \in Tabs, sms \in SmsDetected : StartSession(s, tab, sms)
      PROVE  StorageBehind'
  BY <1>3, <1>4 DEF StartStep, StartSession, ScanResumes, StartSaved, StorageBehind
<1>5. ASSUME NEW c \in cancels, CancelStep(c) PROVE StorageBehind'
  <2>1. CASE CancelCloses(c)
    <3>1. Rewritten /\ booting' = booting /\ session' = session
      BY <2>1 DEF CancelCloses, Forget, Persist, Rewritten
    <3> QED
      BY <1>1, <3>1, StorageFrame DEF StorageBehind
  <2>2. CASE CancelSaved(c) \/ CancelFails(c)
    BY <2>2 DEF CancelSaved, CancelFails, StorageBehind
  <2> QED
    BY <1>5, <2>1, <2>2 DEF CancelStep
<1>6. ASSUME NEW p \in Polls, PollStep(p) PROVE StorageBehind'
  BY <1>1, <1>6, StoragePollStep
<1>7. ASSUME NEW p \in Polls, PersistWhilePolling(p) PROVE StorageBehind'
  <2>1. Rewritten /\ booting' = booting /\ session' = session
    BY <1>7 DEF PersistWhilePolling, Rewritten
  <2> QED
    BY <1>1, <2>1, StorageFrame DEF StorageBehind
<1>8. CASE Wake
  BY <1>8 DEF Wake, StorageBehind, IInv, Coherent, SessionsBorn
<1>9. CASE FinishLoading
  <2>1. \A s \in Sessions : booting'[s].status = "none"
    BY <1>9 DEF FinishLoading, NoSession
  <2>2. \A s \in Sessions : session'[s].status # "none" =>
            stored[s].completed \subseteq session'[s].completed
    BY <1>9 DEF FinishLoading, Restored, StorageBehind
  <2> QED
    BY <1>9, <2>1, <2>2 DEF FinishLoading, StorageBehind
<1>10. CASE Crash
  BY <1>10 DEF Crash, NoSession, StorageBehind
<1>11. CASE UNCHANGED <<session, stored, booting>>
  BY <1>11 DEF StorageBehind
<1> QED
  BY <1>2, <1>4, <1>5, <1>6, <1>7, <1>8, <1>9, <1>10, <1>11
     DEF Next, UserCancel, TimeoutFires, AlarmFires, Tick, WorkerStep, vars, controllerVars

NoneReplayed == \A p \in Polls : Begins(p) => p[2] \notin stored[p[1]].completed

\* A poll that begins is not among the completed ones of its session, and so
\* not among those storage knows of.
LEMMA ReplayStep == IInv /\ StorageBehind /\ [Next]_vars => NoneReplayed
<1> SUFFICES ASSUME IInv, StorageBehind, [Next]_vars PROVE NoneReplayed
  OBVIOUS
<1>1. ASSUME NEW p \in Polls, TimeoutFires(p) \/ AlarmFires(p) PROVE NoneReplayed
  <2>1. \/ handler' = handler
        \/ Pollable(p) /\ handler' = [handler EXCEPT ![p] = At("fetching", "none")]
    BY <1>1 DEF TimeoutFires, AlarmFires, HandlePoll
  <2>2. \A q \in Polls : handler'[q] = handler[q] \/ (q = p /\ Pollable(p))
    BY <2>1 DEF IInv, TypeOK
  <2>3. Pollable(p) => p[2] \notin stored[p[1]].completed
    BY PollParts DEF Pollable, Active, StorageBehind
  <2> QED
    BY <2>2, <2>3 DEF NoneReplayed, Begins
<1>2. ASSUME NEW p \in Polls, PollStep(p) PROVE NoneReplayed
  BY <1>2, PollStepAdvances DEF NoneReplayed, Begins
<1>3. CASE Crash
  BY <1>3 DEF Crash, Idle, At, NoneReplayed, Begins
<1>4. CASE UNCHANGED handler
  BY <1>4 DEF NoneReplayed, Begins
<1> QED
  BY <1>1, <1>2, <1>3, <1>4
     DEF Next, StartSession, StartStep, ScanResumes, CancelVictim, CreateSession, StartSaved,
         UserCancel, BeginCancel, CancelStep, CancelCloses, CancelSaved, CancelFails, Tick,
         PersistWhilePolling, WorkerStep, Wake, FinishLoading, vars, controllerVars

\* A poll whose completion was persisted is not run again, after any number
\* of worker deaths.
THEOREM NoPollReplayed == Spec => NoReplay
BY StorageInit, StorageNext, ReplayStep, Invariance, PTL DEF Spec, NoReplay, NoneReplayed

-----------------------------------------------------------------------------
(***************************************************************************)
(* No timeout before the last scheduled poll.                              *)
(***************************************************************************)
\* The clock only moves forward, and the status is not counted.
LEMMA CountedLater ==
    ASSUME NEW now \in Nat, NEW later \in Nat, now <= later,
           NEW object, NEW next, Counted(object, now),
           next.completed = object.completed, next.count = object.count
    PROVE  Counted(next, later)
BY DEF Counted

LEMMA CountedNone ==
    ASSUME NEW now
    PROVE  Counted(NoSession, now) /\ Counted(NewSession, now)
BY FS_EmptySet DEF Counted, NoSession, NewSession

\* pollsCompleted.push of an index that is due and was not there.
LEMMA CountedMark ==
    ASSUME TypeOK, NEW p \in Polls, Counted(session[p[1]], elapsed[p[1]]), Due(p),
           p[2] \notin session[p[1]].completed
    PROVE  /\ Counted(Marks(p), elapsed[p[1]])
           /\ Marks(p).count >= NPolls => elapsed[p[1]] >= LastIndex
<1> DEFINE old == session[p[1]]
           new == Marks(p)
<1>1. /\ p[1] \in Sessions /\ p[2] \in Index /\ elapsed[p[1]] \in Nat
      /\ old.completed \subseteq Index /\ old.count \in Nat
  BY PollParts DEF TypeOK, SessionState, PollerTypeOK
<1>2. /\ new.completed = old.completed \cup {p[2]}
      /\ new.count = old.count + 1
  BY DEF Marks, Mark
<1>3. NPolls \in Nat \ {0} /\ 0 \in Int /\ NPolls - 1 \in Int
  BY NPollsAssumption
<1>4. IsFiniteSet(Index) /\ Cardinality(Index) = NPolls
  <2>1. IsFiniteSet(0 .. NPolls - 1)
        /\ Cardinality(0 .. NPolls - 1) = IF 0 > NPolls - 1 THEN 0 ELSE (NPolls - 1) - 0 + 1
    BY <1>3, FS_Interval
  <2> QED
    BY <1>3, <2>1 DEF Index
<1>5. IsFiniteSet(old.completed)
  BY <1>1, <1>4, FS_Subset
<1>6. Cardinality(new.completed) = Cardinality(old.completed) + 1
  BY <1>2, <1>5, FS_AddElement
<1>7. new.completed \subseteq 0 .. elapsed[p[1]]
  BY <1>1, <1>2 DEF Counted, Due, Index
<1>8. Counted(new, elapsed[p[1]])
  BY <1>2, <1>6, <1>7 DEF Counted
<1>9. ASSUME new.count >= NPolls PROVE elapsed[p[1]] >= LastIndex
  <2>1. new.completed \in SUBSET Index
    BY <1>1, <1>2
  <2>2. Cardinality(new.completed) <= NPolls
    BY <1>4, <2>1, FS_Subset
  <2>3. Cardinality(new.completed) = new.count
    BY <1>8 DEF Counted
  <2>4. new.count \in Nat
    BY <1>1, <1>2
  <2>5. Cardinality(new.completed) = Cardinality(Index)
    BY <1>3, <1>4, <1>9, <2>2, <2>3, <2>4
  <2>6. new.completed = Index
    BY <1>4, <2>1, <2>5, FS_Subset
  <2>7. LastIndex \in Index
    BY <1>3 DEF LastIndex, Index
  <2>8. LastIndex \in 0 .. elapsed[p[1]]
    BY <1>7, <2>6, <2>7
  <2> QED
    BY <1>1, <1>3, <2>8 DEF LastIndex
<1> QED
  BY <1>8, <1>9

\* The skip that ends a session is the last poll, or comes after the deadline.
LEMMA SkipIsLast ==
    ASSUME TypeOK, NEW p \in Polls, Due(p), SkipEndsSession(p)
    PROVE  elapsed[p[1]] >= LastIndex
<1>1. elapsed[p[1]] \in Nat /\ p[2] \in Index
  BY PollParts DEF TypeOK, PollerTypeOK
<1> QED
  BY <1>1, NPollsAssumption, DeadlineAssumption DEF SkipEndsSession, Due, LastIndex, Index

\* Saving the Map keeps what storage counts right.
LEMMA CountedStored ==
    ASSUME Rewritten, NEW s \in Sessions, NEW now,
           Counted(session'[s], now), Counted(stored[s], now)
    PROVE  Counted(stored'[s], now)
<1>1. stored'[s] = stored[s] \/ stored'[s] = session'[s] \/ stored'[s] = NoSession
  BY DEF Rewritten, Snapshot
<1> QED
  BY <1>1, CountedNone

LEMMA FailingSpends ==
    ASSUME TypeOK, NEW p \in Polls,
           \/ \E result : Resume(p, result)
           \/ PollFails(p),
           handler'[p].at = "failing"
    PROVE  failures' = failures + 1
<1>1. ASSUME NEW step, NEW verdict, Goto(p, step, verdict) PROVE step = "failing"
  BY <1>1 DEF Goto, At, TypeOK
<1>2. CASE Leave(p)
  BY <1>1, <1>2 DEF Leave
<1>3. ASSUME NEW verdict, NEW state, Conclude(p, verdict, state) PROVE FALSE
  BY <1>1, <1>3 DEF Conclude, SaveVerdict
<1>4. ASSUME NEW failing, NothingFound(p, failing) PROVE failures' = failures + 1
  BY <1>1, <1>3, <1>4 DEF NothingFound, Persist
<1> QED
  BY <1>2, <1>3, <1>4 DEF Resume, AfterSkip, PollFails

\* Steps in which no poll begins or answers.
LEMMA PunctualFrame ==
    ASSUME IInv, Punctual, elapsed' = elapsed, booting' = booting, Rewritten,
           \A q \in Polls : \/ handler'[q].at = handler[q].at
                            \/ handler'[q].at = "polling" /\ handler[q].at = "fetching"
                            \/ handler'[q].at \in {"ending", "done"} /\ handler[q].at # "idle",
           \A s \in Sessions :
               \/ /\ session'[s].completed = session[s].completed
                  /\ session'[s].count = session[s].count
                  /\ session'[s].status = "timedout" => session[s].status = "timedout"
               \/ session[s].status = "none" /\ session'[s] = NewSession
    PROVE  Punctual'
<1>1. \A s \in Sessions : elapsed[s] \in Nat
  BY DEF IInv, TypeOK, PollerTypeOK
<1>2. ASSUME NEW q \in Polls
      PROVE  /\ handler'[q].at # "idle" => Due(q)'
             /\ handler'[q].at # "failing"
             /\ handler'[q].at \in {"fetching", "polling"} => q[2] \notin session'[q[1]].completed
  <2>1. /\ handler'[q].at # "idle" => handler[q].at # "idle"
        /\ handler'[q].at # "failing"
        /\ handler'[q].at \in {"fetching", "polling"} => handler[q].at \in {"fetching", "polling"}
    BY DEF Punctual
  <2>2. handler[q].at # "idle" => session[q[1]].status # "none" /\ Due(q)
    BY DEF IInv, Coherent, HandlersClaimed, Punctual
  <2>3. Due(q)' <=> Due(q)
    BY DEF Due
  <2>4. handler[q].at # "idle" => session'[q[1]].completed = session[q[1]].completed
    BY <2>2, PollParts
  <2> QED
    BY <2>1, <2>2, <2>3, <2>4 DEF Punctual
<1>3. ASSUME NEW s \in Sessions
      PROVE  /\ Counted(session'[s], elapsed[s])
             /\ session'[s].status = "timedout" => elapsed[s] >= LastIndex
  <2>1. CASE session'[s] = NewSession
    BY <2>1, CountedNone DEF NewSession
  <2>2. CASE session'[s] # NewSession
    BY <2>2 DEF Punctual, Counted
  <2> QED
    BY <2>1, <2>2
<1>4. ASSUME NEW s \in Sessions
      PROVE  Counted(stored'[s], elapsed[s]) /\ Counted(booting'[s], elapsed[s])
  BY <1>3, CountedStored DEF Punctual
<1> QED
  BY <1>2, <1>3, <1>4 DEF Punctual

\* A poll that answers was due, and marks an index that was not completed.
LEMMA PunctualAnswer ==
    ASSUME IInv, Punctual, NEW p \in Polls, NEW h, PollEffect(p, h), h.at # "failing",
           NEW v, Advances(p, v), session' = [session EXCEPT ![p[1]] = v],
           handler[p].at \in {"fetching", "polling"}, elapsed' = elapsed, booting' = booting
    PROVE  Punctual'
<1>1. /\ p[1] \in Sessions /\ p[2] \in Index /\ p = <<p[1], p[2]>>
      /\ elapsed[p[1]] \in Nat /\ session[p[1]] \in SessionState
  BY PollParts DEF IInv, TypeOK, PollerTypeOK
<1>2. /\ session'[p[1]] = v
      /\ \A s \in Sessions : s # p[1] => session'[s] = session[s]
      /\ \A q \in Polls : handler'[q] = IF q = p THEN h ELSE handler[q]
  BY <1>1 DEF PollEffect, IInv, TypeOK
<1>3. Due(p) /\ p[2] \notin session[p[1]].completed /\ Counted(session[p[1]], elapsed[p[1]])
  BY <1>1 DEF Punctual
<1>4. /\ Counted(Marks(p), elapsed[p[1]])
      /\ Marks(p).count >= NPolls => elapsed[p[1]] >= LastIndex
  BY <1>3, CountedMark DEF IInv
<1>5. SkipEndsSession(p) => elapsed[p[1]] >= LastIndex
  BY <1>3, SkipIsLast DEF IInv
<1>6. \/ v.completed = session[p[1]].completed /\ v.count = session[p[1]].count
      \/ v.completed = Marks(p).completed /\ v.count = Marks(p).count
  BY <1>1 DEF Advances, Marks, Mark, SessionState
<1>7. v.completed \subseteq session[p[1]].completed \cup {p[2]}
  BY <1>6 DEF Marks, Mark
<1>8. Counted(v, elapsed[p[1]])
  BY <1>3, <1>4, <1>6 DEF Counted
<1>9. v.status = "timedout" => elapsed[p[1]] >= LastIndex
  BY <1>1, <1>4, <1>5 DEF Advances, StillActive, Marks, Mark, SessionState, Punctual
<1>10. ASSUME NEW s \in Sessions
       PROVE  /\ Counted(session'[s], elapsed[s])
              /\ session'[s].status = "timedout" => elapsed[s] >= LastIndex
  BY <1>2, <1>8, <1>9 DEF Punctual
<1>11. ASSUME NEW s \in Sessions
       PROVE  Counted(stored'[s], elapsed[s]) /\ Counted(booting'[s], elapsed[s])
  BY <1>10, CountedStored DEF PollEffect, Punctual
<1>12. ASSUME NEW q \in Polls
       PROVE  /\ handler'[q].at # "idle" => Due(q)'
              /\ handler'[q].at # "failing"
              /\ handler'[q].at \in {"fetching", "polling"} => q[2] \notin session'[q[1]].completed
  <2>1. Due(q)' <=> Due(q)
    BY DEF Due
  <2>2. CASE q = p
    BY <1>2, <1>3, <2>1, <2>2 DEF PollEffect
  <2>3. CASE q # p
    <3>1. handler'[q] = handler[q]
      BY <1>2, <2>3
    <3>2. q[1] = p[1] => q[2] # p[2]
      BY <1>1, <2>3, PollParts
    <3>3. q[2] \notin session[q[1]].completed => q[2] \notin session'[q[1]].completed
      BY <1>2, <1>7, <3>2, PollParts
    <3> QED
      BY <2>1, <3>1, <3>3 DEF Punctual
  <2> QED
    BY <2>2, <2>3
<1> QED
  BY <1>10, <1>11, <1>12 DEF Punctual

LEMMA PunctualPollStep ==
    ASSUME IInv, Punctual, NEW p \in Polls, PollStep(p), failures' = failures
    PROVE  Punctual'
<1>1. handler[p].at # "failing" /\ failures \in Nat
  BY DEF Punctual, IInv, TypeOK
<1>2. CASE NoPoll(p) \/ SkipPoll(p) \/ \E result \in {"code", "nothing"} : PollAnswers(p, result)
  <2>1. PICK result : Resume(p, result)
    BY <1>2 DEF NoPoll, SkipPoll, PollAnswers
  <2>2. PICK h : PollEffect(p, h)
    BY <2>1, ResumeEffect DEF IInv
  <2>3. h.at # "failing"
    <3>1. handler'[p] = h
      BY <2>2 DEF PollEffect, IInv, TypeOK
    <3>2. handler'[p].at = "failing" => failures' = failures + 1
      BY <2>1, FailingSpends DEF IInv
    <3> QED
      BY <1>1, <3>1, <3>2
  <2>4. PICK v : Advances(p, v) /\ session' = [session EXCEPT ![p[1]] = v]
    BY <2>1, AnswerAdvances DEF IInv
  <2>5. handler[p].at \in {"fetching", "polling"}
    BY <1>2 DEF NoPoll, SkipPoll, PollAnswers
  <2>6. elapsed' = elapsed /\ booting' = booting
    BY <2>1 DEF Resume, pollerVars
  <2> QED
    BY <2>2, <2>3, <2>4, <2>5, <2>6, PunctualAnswer
<1>3. CASE PollFails(p)
  BY <1>1, <1>3 DEF PollFails
<1>4. CASE VerdictCloses(p) \/ BeginPolling(p) \/ VerdictSaved(p)
  <2>1. session' = session /\ booting' = booting /\ elapsed' = elapsed /\ Rewritten
    BY <1>4 DEF VerdictCloses, BeginPolling, VerdictSaved, SaveVerdict, Persist, Rewritten,
                CancelPolls, pollerVars
  <2>2. \A q \in Polls : \/ handler'[q].at = handler[q].at
                         \/ handler'[q].at = "polling" /\ handler[q].at = "fetching"
                         \/ handler'[q].at \in {"ending", "done"} /\ handler[q].at # "idle"
    BY <1>4 DEF VerdictCloses, BeginPolling, VerdictSaved, SaveVerdict, Goto, At, IInv, TypeOK
  <2> QED
    BY <2>1, <2>2, PunctualFrame
<1> QED
  BY <1>2, <1>3, <1>4 DEF PollStep

\* A poll begins when it is due and its index is not completed.
LEMMA PunctualFire ==
    ASSUME IInv, Punctual, NEW p \in Polls, TimeoutFires(p) \/ AlarmFires(p)
    PROVE  Punctual'
<1>1. UNCHANGED <<session, stored, booting, elapsed>> /\ Due(p)
  BY DEF TimeoutFires, AlarmFires, TimeoutDue, ClaimByTimeout, ClaimByAlarm, DropTimeout, DropAlarm
<1>2. \/ handler' = handler
      \/ Pollable(p) /\ handler' = [handler EXCEPT ![p] = At("fetching", "none")]
  BY DEF TimeoutFires, AlarmFires, HandlePoll
<1>3. \A q \in Polls : \/ handler'[q] = handler[q]
                       \/ q = p /\ Pollable(p) /\ handler'[q].at = "fetching"
  BY <1>2 DEF At, IInv, TypeOK
<1>4. \A q \in Polls : Due(q)' <=> Due(q)
  BY <1>1 DEF Due
<1> QED
  BY <1>1, <1>3, <1>4 DEF Punctual, Pollable

LEMMA PunctualTick ==
    ASSUME IInv, Punctual, NEW s \in Sessions, Tick(s)
    PROVE  Punctual'
<1>1. UNCHANGED <<session, stored, booting, handler>>
  BY DEF Tick, controllerVars
<1>2. \A e \in Sessions : elapsed[e] \in Nat /\ elapsed'[e] \in Nat /\ elapsed[e] <= elapsed'[e]
  BY DEF Tick, AdvanceClock, IInv, TypeOK, PollerTypeOK
<1>3. \A q \in Polls : Due(q) => Due(q)'
  <2>1. \A q \in Polls : q[1] \in Sessions /\ q[2] \in Nat
    BY PollParts, NPollsAssumption DEF Index
  <2> QED
    BY <1>2, <2>1 DEF Due
<1>4. \A e \in Sessions : /\ Counted(session'[e], elapsed'[e])
                          /\ Counted(stored'[e], elapsed'[e])
                          /\ Counted(booting'[e], elapsed'[e])
  BY <1>1, <1>2, CountedLater DEF Punctual
<1>5. \A e \in Sessions : session'[e].status = "timedout" => elapsed'[e] >= LastIndex
  BY <1>1, <1>2, NPollsAssumption DEF Punctual, LastIndex
<1>6. \A q \in Polls : /\ handler'[q].at # "idle" => Due(q)'
                       /\ handler'[q].at # "failing"
                       /\ handler'[q].at \in {"fetching", "polling"} =>
                              q[2] \notin session'[q[1]].completed
  BY <1>1, <1>3 DEF Punctual
<1> QED
  BY <1>4, <1>5, <1>6 DEF Punctual

LEMMA PunctualWorker ==
    ASSUME IInv, Punctual, WorkerStep \/ Crash
    PROVE  Punctual'
<1>1. elapsed' = elapsed
  BY DEF WorkerStep, Wake, FinishLoading, SchedulePolls, Crash, PollerCrash, pollerVars
<1>2. \A s \in Sessions : /\ \/ session'[s] = session[s]
                             \/ session'[s] = booting[s] /\ booting[s].status = "active"
                             \/ session'[s] = NoSession
                          /\ stored'[s] = stored[s]
                          /\ booting'[s] = stored[s] \/ booting'[s] = NoSession
  BY DEF WorkerStep, Wake, FinishLoading, Restored, Crash
<1>3. \A q \in Polls : handler'[q].at = "idle"
                         \/ (handler'[q] = handler[q] /\ session'[q[1]] = session[q[1]])
  <2>1. CASE Wake
    BY <2>1 DEF Wake
  <2>2. CASE FinishLoading
    <3>1. \A q \in Polls : handler[q].at # "idle" => q[1] \in Sessions /\ q[1] \notin Restored
      BY PollParts DEF IInv, Coherent, HandlersClaimed, SessionsBorn, Restored
    <3> QED
      BY <2>2, <3>1 DEF FinishLoading
  <2>3. CASE Crash
    BY <2>3 DEF Crash, Idle, At
  <2> QED
    BY <2>1, <2>2, <2>3 DEF WorkerStep
<1>4. \A q \in Polls : Due(q)' <=> Due(q)
  BY <1>1 DEF Due
<1>5. \A s \in Sessions : /\ Counted(session'[s], elapsed'[s])
                          /\ Counted(stored'[s], elapsed'[s])
                          /\ Counted(booting'[s], elapsed'[s])
                          /\ session'[s].status = "timedout" => elapsed'[s] >= LastIndex
  <2>1. \A s \in Sessions : Counted(NoSession, elapsed[s]) /\ NoSession.status = "none"
    BY CountedNone DEF NoSession
  <2> QED
    BY <1>1, <1>2, <2>1 DEF Punctual
<1> QED
  BY <1>3, <1>4, <1>5 DEF Punctual

LEMMA BeginCancelPunctual ==
    ASSUME IInv, Punctual, NEW s \in Sessions, NEW by, BeginCancel(s, by)
    PROVE  Punctual'
<1>1. elapsed' = elapsed /\ handler' = handler
  BY DEF BeginCancel, Forget, CancelPolls, pollerVars
<1>2. \A e \in Sessions : /\ session'[e].completed = session[e].completed
                          /\ session'[e].count = session[e].count
                          /\ session'[e].status = "timedout" => session[e].status = "timedout"
  BY BeginCancelStorage
<1>3. Rewritten /\ booting' = booting
  BY BeginCancelStorage
<1> QED
  BY <1>1, <1>2, <1>3, PunctualFrame

LEMMA PunctualStart ==
    ASSUME IInv, Punctual, NEW s \in Sessions, NEW tab, start[s] \in {"idle", "scanning"},
           CancelVictim(s, tab) \/ CreateSession(s, tab)
    PROVE  Punctual'
<1>1. CASE CancelVictim(s, tab)
  <2>1. PICK e \in Sessions : BeginCancel(e, s)
    BY <1>1 DEF CancelVictim, Victims, IInv, TypeOK
  <2> QED
    BY <2>1, BeginCancelPunctual
<1>2. CASE CreateSession(s, tab)
  <2>1. Rewritten /\ UNCHANGED <<elapsed, booting, handler>>
    BY <1>2 DEF CreateSession, Persist, Rewritten, pollerVars
  <2>2. session[s].status = "none"
    BY DEF IInv, Coherent, SessionsBorn
  <2>3. \A e \in Sessions : session'[e] = session[e]
            \/ (session[e].status = "none" /\ session'[e] = NewSession)
    BY <1>2, <2>2 DEF CreateSession, IInv, TypeOK
  <2> QED
    BY <2>1, <2>3, PunctualFrame
<1> QED
  BY <1>1, <1>2

LEMMA PunctualInit == Init => Punctual
<1>1. Init => /\ \A s \in Sessions : /\ session[s] = NoSession
                                     /\ stored[s] = NoSession
                                     /\ booting[s] = NoSession
              /\ \A p \in Polls : handler[p].at = "idle"
  BY DEF Init, Idle, At
<1>2. NoSession.status = "none"
  BY DEF NoSession
<1> QED
  BY <1>1, <1>2, CountedNone DEF Punctual

\* Only rejected writes spend failures, and they are never taken back.
LEMMA FailuresGrow ==
    ASSUME IInv, [Next]_vars
    PROVE  failures' = failures \/ failures' = failures + 1
<1>1. ASSUME NEW ok \in BOOLEAN, Persist(ok) PROVE failures' = failures \/ failures' = failures + 1
  BY <1>1 DEF Persist
<1>2. ASSUME NEW p, NEW verdict, NEW state, Conclude(p, verdict, state)
      PROVE  failures' = failures \/ failures' = failures + 1
  BY <1>1, <1>2 DEF Conclude, SaveVerdict
<1>3. ASSUME NEW p, NEW failing, NothingFound(p, failing)
      PROVE  failures' = failures \/ failures' = failures + 1
  BY <1>1, <1>2, <1>3 DEF NothingFound
<1>4. ASSUME NEW p, NEW result, Resume(p, result)
      PROVE  failures' = failures \/ failures' = failures + 1
  BY <1>2, <1>3, <1>4 DEF Resume, AfterSkip, Leave
<1>5. ASSUME NEW p, PollStep(p) PROVE failures' = failures \/ failures' = failures + 1
  BY <1>1, <1>3, <1>4, <1>5
     DEF PollStep, NoPoll, SkipPoll, BeginPolling, PollAnswers, PollFails, Leave, VerdictCloses,
         SaveVerdict, VerdictSaved
<1>6. ASSUME NEW s, NEW by, BeginCancel(s, by)
      PROVE  failures' = failures \/ failures' = failures + 1
  BY <1>1, <1>6 DEF BeginCancel, Forget
<1>7. ASSUME NEW s, NEW tab, CancelVictim(s, tab) \/ CreateSession(s, tab)
      PROVE  failures' = failures \/ failures' = failures + 1
  BY <1>1, <1>6, <1>7 DEF CancelVictim, CreateSession
<1>8. ASSUME NEW c, CancelStep(c) PROVE failures' = failures \/ failures' = failures + 1
  BY <1>1, <1>8 DEF CancelStep, CancelCloses, CancelSaved, CancelFails, Forget
<1> QED
  BY <1>5, <1>6, <1>7, <1>8
     DEF Next, StartSession, StartStep, ScanResumes, StartSaved, UserCancel, TimeoutFires,
         AlarmFires, Tick, PersistWhilePolling, WorkerStep, Wake, FinishLoading, Crash, vars,
         controllerVars

LEMMA OnTimeNext == IInv /\ OnTime /\ [Next]_vars => OnTime'
<1> SUFFICES ASSUME IInv, OnTime, [Next]_vars, failures' = 0 PROVE Punctual'
  BY DEF OnTime
<1>1. Punctual /\ failures' = failures
  BY FailuresGrow DEF OnTime, IInv, TypeOK
<1>2. ASSUME NEW s \in Sessions,
             StartStep(s) \/ \E tab \in Tabs, sms \in SmsDetected : StartSession(s, tab, sms)
      PROVE  Punctual'
  <2>1. CASE StartSaved(s)
    <3>1. UNCHANGED <<session, stored, booting, handler, elapsed>>
      BY <2>1 DEF StartSaved, SchedulePolls
    <3> QED
      BY <1>1, <3>1, PunctualFrame DEF Rewritten
  <2>2. CASE ~ StartSaved(s)
    <3>1. \E tab : start[s] \in {"idle", "scanning"} /\ (CancelVictim(s, tab) \/ CreateSession(s, tab))
      BY <1>2, <2>2 DEF StartStep, StartSession, ScanResumes
    <3> QED
      BY <1>1, <3>1, PunctualStart
  <2> QED
    BY <2>1, <2>2
<1>3. ASSUME NEW s \in Sessions, NEW by, UserCancel(s, by) PROVE Punctual'
  BY <1>1, <1>3, BeginCancelPunctual DEF UserCancel
<1>4. ASSUME NEW c \in cancels, CancelStep(c) PROVE Punctual'
  <2>1. Rewritten /\ UNCHANGED <<session, booting, handler, elapsed>>
    BY <1>4 DEF CancelStep, CancelCloses, CancelSaved, CancelFails, Forget, Persist, Rewritten,
                CancelPolls, pollerVars
  <2> QED
    BY <1>1, <2>1, PunctualFrame
<1>5. ASSUME NEW p \in Polls, TimeoutFires(p) \/ AlarmFires(p) PROVE Punctual'
  BY <1>1, <1>5, PunctualFire
<1>6. ASSUME NEW s \in Sessions, Tick(s) PROVE Punctual'
  BY <1>1, <1>6, PunctualTick
<1>7. ASSUME NEW p \in Polls, PollStep(p) PROVE Punctual'
  BY <1>1, <1>7, PunctualPollStep
<1>8. ASSUME NEW p \in Polls, PersistWhilePolling(p) PROVE Punctual'
  <2>1. Rewritten /\ UNCHANGED <<session, booting, handler, elapsed>>
    BY <1>8 DEF PersistWhilePolling, Rewritten, pollerVars
  <2> QED
    BY <1>1, <2>1, PunctualFrame
<1>9. CASE WorkerStep \/ Crash
  BY <1>1, <1>9, PunctualWorker
<1>10. CASE UNCHANGED vars
  <2>1. UNCHANGED <<session, stored, booting, handler, elapsed>>
    BY <1>10 DEF vars, controllerVars, pollerVars
  <2> QED
    BY <1>1, <2>1, PunctualFrame DEF Rewritten
<1> QED
  BY <1>2, <1>3, <1>4, <1>5, <1>6, <1>7, <1>8, <1>9, <1>10 DEF Next

\* A session times out only when its last poll was due, or a write was lost.
THEOREM NoEarlyTimeout == Spec => []TimeoutJustified
<1>1. Init => OnTime
  BY PunctualInit DEF OnTime
<1>2. IInv /\ OnTime => TimeoutJustified
  BY DEF IInv, TypeOK, OnTime, Punctual, TimeoutJustified
<1> QED
  BY <1>1, <1>2, OnTimeNext, Invariance, PTL DEF Spec

-----------------------------------------------------------------------------
(***************************************************************************)
(* The refinement of SessionOutcome.  A step of a living worker does one   *)
(* of four things to the sessions; the worker's own steps are taken apart. *)
(***************************************************************************)
Alive == worker # "down" /\ worker' = worker /\ booting' = booting /\ Rewritten

Startless == \A s \in Sessions : \/ start'[s] = start[s]
                                 \/ start[s] = "saving" /\ start'[s] = "done"
                                 \/ start[s] \in {"idle", "scanning"}
                                       /\ start'[s] \in {"idle", "scanning"}

Nothing == (\A s \in Sessions : StatusKept(s)) /\ Startless /\ reports' = reports

Decides(e) ==
    /\ session[e].status = "active" /\ session'[e].status \in Ended
    /\ \A s \in Sessions : s # e => StatusKept(s)
    /\ Startless
    /\ reports' = reports

Creates(s) ==
    /\ start[s] \in {"idle", "scanning"} /\ start'[s] \in {"saving", "failed"}
    /\ session'[s].status = "active"
    /\ \A e \in Sessions : e # s => StatusKept(e) /\ start'[e] = start[e]
    /\ reports' = reports

Announces(s) ==
    /\ session[s].status \in Ended
    /\ \A e \in Sessions : StatusKept(e)
    /\ start' = start
    /\ reports'[s] # <<>>
    /\ \A e \in Sessions : e # s => reports'[e] = reports[e]

LivingStep ==
    /\ Alive
    /\ Nothing \/ \E s \in Sessions : Decides(s) \/ Creates(s) \/ Announces(s)

\* A cancel decides its session, or finds it decided.
LEMMA BeginCancelLives ==
    ASSUME IInv, NEW s \in Sessions, NEW by, BeginCancel(s, by), worker # "down", Startless
    PROVE  LivingStep
<1>1. Alive /\ reports' = reports
  BY DEF Alive, BeginCancel, Forget, Persist, Rewritten
<1>2. \/ session' = session
      \/ /\ session[s].status = "active"
         /\ session' = [session EXCEPT ![s].status = "canceled"]
  BY DEF BeginCancel
<1>3. CASE session' = session
  BY <1>1, <1>3 DEF LivingStep, Nothing, StatusKept
<1>4. CASE session[s].status = "active" /\ session' = [session EXCEPT ![s].status = "canceled"]
  <2>1. session[s] \in SessionState /\ session \in [Sessions -> SessionState]
    BY DEF IInv, TypeOK
  <2>2. session'[s].status = "canceled" /\ \A e \in Sessions : e # s => session'[e] = session[e]
    BY <1>4, <2>1 DEF SessionState
  <2>3. Decides(s)
    BY <1>1, <1>4, <2>2 DEF Decides, StatusKept, Ended
  <2> QED
    BY <1>1, <2>3 DEF LivingStep
<1> QED
  BY <1>2, <1>3, <1>4

LEMMA StartLives ==
    ASSUME IInv, NEW s \in Sessions, NEW tab, start[s] \in {"idle", "scanning"},
           worker # "down", CancelVictim(s, tab) \/ CreateSession(s, tab)
    PROVE  LivingStep
<1>1. CASE CancelVictim(s, tab)
  <2>1. PICK e \in Sessions : BeginCancel(e, s)
    BY <1>1 DEF CancelVictim, Victims, IInv, TypeOK
  <2>2. Startless
    BY <1>1 DEF CancelVictim, Startless, IInv, TypeOK
  <2> QED
    BY <2>1, <2>2, BeginCancelLives
<1>2. CASE CreateSession(s, tab)
  <2>1. Alive /\ reports' = reports
    BY <1>2 DEF Alive, CreateSession, Persist, Rewritten
  <2>2. session'[s] = NewSession /\ \A e \in Sessions : e # s => session'[e] = session[e]
    BY <1>2 DEF CreateSession, IInv, TypeOK
  <2>3. start'[s] \in {"saving", "failed"} /\ \A e \in Sessions : e # s => start'[e] = start[e]
    BY <1>2 DEF CreateSession, IInv, TypeOK
  <2>4. Creates(s)
    BY <2>1, <2>2, <2>3 DEF Creates, NewSession, StatusKept
  <2> QED
    BY <2>1, <2>4 DEF LivingStep
<1> QED
  BY <1>1, <1>2

LEMMA PollLives ==
    ASSUME IInv, NEW p \in Polls, PollStep(p)
    PROVE  LivingStep
<1>1. worker # "down" /\ p[1] \in Sessions
  BY PollParts DEF PollStep, NoPoll, SkipPoll, BeginPolling, PollAnswers, PollFails,
        VerdictCloses, VerdictSaved, IInv, Coherent, HandlersClaimed, SessionsBorn
<1>2. ASSUME NEW h, PollEffect(p, h), UNCHANGED <<worker, booting, start, reports>>
      PROVE  LivingStep
  <2>1. CASE \A s \in Sessions : StatusKept(s)
    BY <1>1, <1>2, <2>1 DEF LivingStep, Alive, Nothing, Startless, PollEffect
  <2>2. CASE ~ \A s \in Sessions : StatusKept(s)
    <3>1. Decides(p[1])
      BY <1>1, <1>2, <2>2 DEF Decides, Startless, PollEffect
    <3> QED
      BY <1>1, <1>2, <3>1 DEF LivingStep, Alive, PollEffect
  <2> QED
    BY <2>1, <2>2
<1>3. CASE NoPoll(p) \/ SkipPoll(p) \/ \E result \in {"code", "nothing"} : PollAnswers(p, result)
  <2>1. PICK result : Resume(p, result)
    BY <1>3 DEF NoPoll, SkipPoll, PollAnswers
  <2>2. PICK h : PollEffect(p, h)
    BY <2>1, ResumeEffect DEF IInv
  <2> QED
    BY <1>2, <2>1, <2>2 DEF Resume
<1>4. CASE PollFails(p)
  <2>1. \E h : PollEffect(p, h)
    BY <1>4, NothingFoundEffect, LeaveEffect DEF PollFails, IInv
  <2> QED
    BY <1>2, <1>4, <2>1 DEF PollFails
<1>5. CASE VerdictCloses(p) \/ BeginPolling(p)
  BY <1>1, <1>5 DEF VerdictCloses, BeginPolling, SaveVerdict, Persist, LivingStep, Alive, Nothing,
                    Startless, Rewritten, StatusKept
<1>6. CASE VerdictSaved(p)
  <2>1. session[p[1]].status \in Ended
    BY <1>6 DEF VerdictSaved, IInv, TypeOK, HandlerStates, PollVerdicts, Ended, Coherent,
                HandlersClaimed
  <2>2. reports'[p[1]] = Append(reports[p[1]], handler[p].verdict) /\ reports[p[1]] \in Seq(Ended)
    BY <1>1, <1>6 DEF VerdictSaved, Report, IInv, TypeOK
  <2>3. reports'[p[1]] # <<>>
    BY <2>2
  <2>4. \A e \in Sessions : e # p[1] => reports'[e] = reports[e]
    BY <1>6 DEF VerdictSaved, Report, IInv, TypeOK
  <2>5. Alive /\ start' = start /\ session' = session
    BY <1>1, <1>6 DEF VerdictSaved, Alive, Rewritten
  <2>6. Announces(p[1])
    BY <2>1, <2>3, <2>4, <2>5 DEF Announces, StatusKept
  <2> QED
    BY <1>1, <2>5, <2>6 DEF LivingStep
<1> QED
  BY <1>3, <1>4, <1>5, <1>6 DEF PollStep

LEMMA CancelLives ==
    ASSUME IInv, NEW c \in cancels, CancelStep(c)
    PROVE  LivingStep
<1>1. c.sid \in Sessions /\ session[c.sid].status \in Ended
  BY DEF IInv, TypeOK, CancelOps, Coherent, CancelsDecided
<1>2. worker # "down"
  BY <1>1 DEF IInv, Coherent, SessionsBorn, Ended
<1>3. CASE CancelCloses(c)
  BY <1>2, <1>3 DEF CancelCloses, Forget, Persist, LivingStep, Alive, Nothing, Startless,
                    Rewritten, StatusKept
<1>4. CASE CancelSaved(c)
  <2>1. reports'[c.sid] = Append(reports[c.sid], "canceled") /\ reports[c.sid] \in Seq(Ended)
    BY <1>1, <1>4 DEF CancelSaved, Report, IInv, TypeOK
  <2>2. reports'[c.sid] # <<>>
    BY <2>1
  <2>3. \A e \in Sessions : e # c.sid => reports'[e] = reports[e]
    BY <1>4 DEF CancelSaved, Report, IInv, TypeOK
  <2>4. Alive /\ start' = start /\ session' = session
    BY <1>2, <1>4 DEF CancelSaved, Alive, Rewritten
  <2>5. Announces(c.sid)
    BY <1>1, <2>2, <2>3, <2>4 DEF Announces, StatusKept
  <2> QED
    BY <1>1, <2>4, <2>5 DEF LivingStep
<1>5. CASE CancelFails(c)
  <2>1. Startless
    BY <1>5 DEF CancelFails, Startless, IInv, Coherent, CancelsDecided
  <2> QED
    BY <1>2, <1>5, <2>1 DEF CancelFails, LivingStep, Alive, Nothing, Rewritten, StatusKept
<1> QED
  BY <1>3, <1>4, <1>5 DEF CancelStep

LEMMA StepsLive ==
    ASSUME IInv, [Next]_vars
    PROVE  LivingStep \/ WorkerStep \/ Crash \/ UNCHANGED controllerVars
<1>1. ASSUME NEW s \in Sessions,
             StartStep(s) \/ \E tab \in Tabs, sms \in SmsDetected : StartSession(s, tab, sms)
      PROVE  LivingStep
  <2>1. worker # "down"
    BY <1>1 DEF StartStep, ScanResumes, StartSaved, StartSession, IInv, Coherent, SessionsBorn
  <2>2. CASE StartSaved(s)
    <3>1. Startless
      BY <2>2 DEF StartSaved, Startless, IInv, TypeOK
    <3> QED
      BY <2>1, <2>2, <3>1 DEF StartSaved, LivingStep, Alive, Nothing, Rewritten, StatusKept
  <2>3. CASE ~ StartSaved(s)
    <3>1. \E tab : start[s] \in {"idle", "scanning"} /\ (CancelVictim(s, tab) \/ CreateSession(s, tab))
      BY <1>1, <2>3 DEF StartStep, StartSession, ScanResumes
    <3> QED
      BY <2>1, <3>1, StartLives
  <2> QED
    BY <2>2, <2>3
<1>2. ASSUME NEW s \in Sessions, NEW by, UserCancel(s, by) PROVE LivingStep
  BY <1>2, BeginCancelLives DEF UserCancel, Startless
<1>3. ASSUME NEW c \in cancels, CancelStep(c) PROVE LivingStep
  BY <1>3, CancelLives
<1>4. ASSUME NEW p \in Polls, TimeoutFires(p) \/ AlarmFires(p) PROVE LivingStep
  BY <1>4 DEF TimeoutFires, AlarmFires, LivingStep, Alive, Nothing, Startless, Rewritten, StatusKept
<1>5. ASSUME NEW p \in Polls, PollStep(p) PROVE LivingStep
  BY <1>5, PollLives
<1>6. ASSUME NEW p \in Polls, PersistWhilePolling(p) PROVE LivingStep
  <2>1. worker # "down"
    BY <1>6, PollParts DEF PersistWhilePolling, IInv, Coherent, HandlersClaimed, SessionsBorn
  <2> QED
    BY <1>6, <2>1 DEF PersistWhilePolling, LivingStep, Alive, Nothing, Startless, Rewritten, StatusKept
<1> QED
  BY <1>1, <1>2, <1>3, <1>4, <1>5, <1>6 DEF Next, Tick, vars

\* What the state says of a session, case by case.
VerdictIs(s) ==
    Verdict(s) = IF session[s].status = "active" THEN "open"
                 ELSE IF session[s].status \in Ended THEN session[s].status
                 ELSE IF start[s] # "over" THEN "unborn"
                 ELSE IF Suspended(s) THEN "suspended" ELSE "gone"

LEMMA VerdictCases ==
    /\ TypeOK => \A s \in Sessions : VerdictIs(s)
    /\ TypeOK' => \A s \in Sessions : VerdictIs(s)'
BY DEF VerdictIs, Verdict, Ended

LEMMA NoneLostInit == Init => NoneLost
<1>1. NoSession.status = "none"
  BY DEF NoSession
<1> QED
  BY <1>1 DEF Init, NoneLost

LEMMA NoneLostNext == IInv /\ NoneLost /\ [Next]_vars => NoneLost'
<1> SUFFICES ASSUME IInv, NoneLost, [Next]_vars PROVE NoneLost'
  OBVIOUS
<1>1. CASE LivingStep
  <2>1. \A s \in Sessions : session'[s].status = "none" => session[s].status = "none"
    BY <1>1 DEF LivingStep, Nothing, Decides, Creates, Announces, StatusKept, Ended
  <2>2. \A s \in Sessions : start'[s] \in {"saving", "done", "failed"} => session'[s].status # "none"
    BY <1>1, <2>1 DEF LivingStep, Nothing, Decides, Creates, Announces, Startless, NoneLost
  <2>3. \A s \in Sessions : stored'[s].status = "active" =>
            stored[s].status = "active" \/ session'[s].status = "active"
    BY <1>1 DEF LivingStep, Alive, Rewritten, Snapshot, NoSession
  <2> QED
    BY <1>1, <2>1, <2>2, <2>3 DEF LivingStep, Alive, NoneLost
<1>2. CASE Wake
  BY <1>2 DEF Wake, NoneLost
<1>3. CASE FinishLoading
  BY <1>3 DEF FinishLoading, Restored, NoneLost
<1>4. CASE Crash
  <2>1. \A s \in Sessions : start'[s] \in {"idle", "over"} /\ worker' = "down"
    BY <1>4 DEF Crash
  <2> QED
    BY <2>1 DEF NoneLost
<1>5. CASE UNCHANGED controllerVars
  BY <1>5 DEF controllerVars, NoneLost
<1> QED
  BY <1>1, <1>2, <1>3, <1>4, <1>5, StepsLive DEF WorkerStep

\* While a worker lives, a session whose status stays has the same verdict.
LEMMA VerdictFrame ==
    ASSUME IInv, IInv', Alive, NEW s \in Sessions, StatusKept(s),
           start'[s] = "over" <=> start[s] = "over"
    PROVE  Verdict(s)' = Verdict(s)
<1>1. VerdictIs(s) /\ VerdictIs(s)'
  BY VerdictCases DEF IInv
<1>2. Suspended(s)' <=> Suspended(s)
  BY DEF Suspended, Alive
<1> QED
  BY <1>1, <1>2 DEF VerdictIs, StatusKept

\* The same for the whole mapping.
LEMMA MappingFrame ==
    ASSUME \A s \in Sessions : Verdict(s)' = Verdict(s)
    PROVE  Verdicts' = Verdicts
BY DEF Verdicts

LEMMA LivingStepIsOutcome ==
    ASSUME IInv, IInv', LivingStep
    PROVE  [Outcome!Next]_(Outcome!vars)
<1>1. Alive
  BY DEF LivingStep
<1>2. Verdicts = [s \in Sessions |-> Verdict(s)] /\ Verdicts' = [s \in Sessions |-> Verdict(s)']
  BY DEF Verdicts
<1>3. CASE Nothing
  <2>1. \A s \in Sessions : Verdict(s)' = Verdict(s)
    BY <1>1, <1>3, VerdictFrame DEF Nothing, Startless
  <2>2. Verdicts' = Verdicts
    BY <2>1, MappingFrame
  <2>3. Announced' = Announced
    BY <1>3 DEF Nothing, Announced
  <2> QED
    BY <2>2, <2>3 DEF Outcome!vars
<1>4. ASSUME NEW e \in Sessions, Decides(e) PROVE [Outcome!Next]_(Outcome!vars)
  <2>1. \A s \in Sessions : s # e => Verdict(s)' = Verdict(s)
    BY <1>1, <1>4, VerdictFrame DEF Decides, Startless
  <2>2. Verdict(e) = "open" /\ Verdict(e)' = session'[e].status
    <3>1. VerdictIs(e) /\ VerdictIs(e)'
      BY VerdictCases DEF IInv
    <3> QED
      BY <1>4, <3>1 DEF VerdictIs, Decides, Ended
  <2>3. e \notin Announced
    BY <1>4 DEF Announced, Decides, IInv, Coherent, VerdictsDurable, OutOfReach
  <2>4. Announced' = Announced
    BY <1>4 DEF Decides, Announced
  <2>5. Verdicts[e] = "open" /\ Verdicts' = [Verdicts EXCEPT ![e] = session'[e].status]
    BY <1>2, <2>1, <2>2
  <2>6. session'[e].status \in Outcome!Decided
    BY <1>4 DEF Decides, Ended, Outcome!Decided
  <2>7. Outcome!Decide(e, session'[e].status)
    BY <2>3, <2>4, <2>5 DEF Outcome!Decide
  <2> QED
    BY <2>6, <2>7 DEF Outcome!Next
<1>5. ASSUME NEW e \in Sessions, Creates(e) PROVE [Outcome!Next]_(Outcome!vars)
  <2>1. \A s \in Sessions : s # e => Verdict(s)' = Verdict(s)
    BY <1>1, <1>5, VerdictFrame DEF Creates
  <2>2. Verdict(e) = "unborn" /\ Verdict(e)' = "open"
    <3>1. VerdictIs(e) /\ VerdictIs(e)'
      BY VerdictCases DEF IInv
    <3>2. session[e].status = "none" /\ start[e] # "over"
      BY <1>5 DEF Creates, IInv, Coherent, SessionsBorn
    <3> QED
      BY <1>5, <3>1, <3>2 DEF VerdictIs, Creates, Ended
  <2>3. Announced' = Announced
    BY <1>5 DEF Creates, Announced
  <2>4. Verdicts[e] = "unborn" /\ Verdicts' = [Verdicts EXCEPT ![e] = "open"]
    BY <1>2, <2>1, <2>2
  <2> QED
    BY <2>3, <2>4 DEF Outcome!Open, Outcome!Next
<1>6. ASSUME NEW e \in Sessions, Announces(e) PROVE [Outcome!Next]_(Outcome!vars)
  <2>1. \A s \in Sessions : Verdict(s)' = Verdict(s)
    BY <1>1, <1>6, VerdictFrame DEF Announces
  <2>2. Verdicts' = Verdicts
    BY <2>1, MappingFrame
  <2>3. Announced' = Announced \cup {e}
    BY <1>6 DEF Announces, Announced
  <2>4. Verdicts[e] \in Outcome!Decided
    <3>1. VerdictIs(e)
      BY VerdictCases DEF IInv
    <3> QED
      BY <1>2, <1>6, <3>1 DEF VerdictIs, Announces, Ended, Outcome!Decided
  <2> QED
    BY <2>2, <2>3, <2>4 DEF Outcome!Announce, Outcome!Next
<1> QED
  BY <1>3, <1>4, <1>5, <1>6 DEF LivingStep

\* What storage will bring back after a death is what the promise allows.
LEMMA CrashIsDie ==
    ASSUME IInv, IInv', NoneLost, Crash
    PROVE  Outcome!Die
<1>1. Announced' = Announced
  BY DEF Crash, Announced
<1>2. Verdicts = [s \in Sessions |-> Verdict(s)] /\ Verdicts' = [s \in Sessions |-> Verdict(s)']
  BY DEF Verdicts
<1>3. ASSUME NEW s \in Sessions
      PROVE  Verdict(s)' \in Outcome!AfterDeath(s) /\ Verdict(s)' \in {"unborn", "suspended", "gone"}
  <2>1. VerdictIs(s) /\ VerdictIs(s)'
    BY VerdictCases DEF IInv
  <2>2. /\ session'[s].status = "none" /\ booting'[s].status = "none"
        /\ worker' = "down" /\ stored' = stored /\ worker # "down"
        /\ start'[s] = IF start[s] \in {"idle", "scanning"} THEN "idle" ELSE "over"
    BY DEF Crash, NoSession
  <2>3. Suspended(s)' <=> stored[s].status = "active"
    BY <2>2 DEF Suspended
  <2>4. Verdict(s)' = IF start[s] \in {"idle", "scanning"} THEN "unborn"
                      ELSE IF stored[s].status = "active" THEN "suspended" ELSE "gone"
    BY <2>1, <2>2, <2>3 DEF VerdictIs, Ended
  <2>5. Verdict(s) = "unborn" <=> start[s] \in {"idle", "scanning"}
    BY <2>1 DEF VerdictIs, NoneLost, Ended, IInv, TypeOK, StartSteps, Coherent, SessionsBorn,
                SessionState
  <2>6. Verdict(s) = "gone" => stored[s].status # "active"
    BY <2>1, <2>2 DEF VerdictIs, NoneLost, Ended, IInv, TypeOK, SessionState, Suspended
  <2>7. s \in Announced => stored[s].status # "active"
    BY DEF Announced, IInv, Coherent, VerdictsDurable, OutOfReach
  <2>8. Verdicts[s] = Verdict(s)
    BY <1>2
  <2> QED
    BY <2>4, <2>5, <2>6, <2>7, <2>8 DEF Outcome!AfterDeath, Outcome!Asleep
<1> QED
  BY <1>1, <1>2, <1>3 DEF Outcome!Die, Outcome!Asleep

LEMMA WakeIsStutter ==
    ASSUME IInv, IInv', Wake
    PROVE  UNCHANGED Outcome!vars
<1>1. ASSUME NEW s \in Sessions PROVE Verdict(s)' = Verdict(s)
  <2>1. VerdictIs(s) /\ VerdictIs(s)'
    BY VerdictCases DEF IInv
  <2>2. booting[s].status = "none"
    BY DEF Wake, IInv, Coherent, SessionsBorn
  <2>3. Suspended(s)' <=> Suspended(s)
    BY <2>2 DEF Wake, Suspended
  <2> QED
    BY <2>1, <2>3 DEF VerdictIs, Wake
<1> QED
  BY <1>1, MappingFrame DEF Outcome!vars, Announced, Wake

LEMMA FinishLoadingIsResume ==
    ASSUME IInv, IInv', FinishLoading
    PROVE  Outcome!Resume
<1>1. ASSUME NEW s \in Sessions
      PROVE  Verdict(s)' = IF Verdict(s) = "suspended" THEN "open" ELSE Verdict(s)
  <2>1. VerdictIs(s) /\ VerdictIs(s)'
    BY VerdictCases DEF IInv
  <2>2. booting'[s].status = "none" /\ worker = "loading" /\ worker' = "up" /\ start' = start
    BY DEF FinishLoading, NoSession
  <2>3. (Suspended(s) <=> s \in Restored) /\ ~ Suspended(s)'
    BY <2>2 DEF Suspended, Restored
  <2>4. s \in Restored => session[s].status = "none" /\ start[s] = "over"
                            /\ session'[s].status = "active"
    BY DEF Restored, FinishLoading, IInv, Coherent, SessionsBorn
  <2>5. s \notin Restored => session'[s] = session[s]
    BY DEF FinishLoading
  <2>6. CASE s \in Restored
    BY <2>1, <2>3, <2>4, <2>6 DEF VerdictIs, Ended
  <2>7. CASE s \notin Restored
    BY <2>1, <2>2, <2>3, <2>5, <2>7 DEF VerdictIs, Ended
  <2> QED
    BY <2>6, <2>7
<1>2. Verdicts = [s \in Sessions |-> Verdict(s)] /\ Verdicts' = [s \in Sessions |-> Verdict(s)']
  BY DEF Verdicts
<1>3. Announced' = Announced
  BY DEF FinishLoading, Announced
<1> QED
  BY <1>1, <1>2, <1>3 DEF Outcome!Resume

LEMMA InitIsOutcome == Init => Outcome!Init
<1> SUFFICES ASSUME Init PROVE Outcome!Init
  OBVIOUS
<1>1. \A s \in Sessions : VerdictIs(s)
  BY InitType, VerdictCases
<1>2. \A s \in Sessions : session[s].status = "none" /\ start[s] = "idle" /\ reports[s] = <<>>
  BY DEF Init, NoSession
<1>3. \A s \in Sessions : Verdict(s) = "unborn"
  BY <1>1, <1>2 DEF VerdictIs, Ended
<1> QED
  BY <1>2, <1>3 DEF Outcome!Init, Verdicts, Announced

LEMMA StepIsOutcome == IInv /\ NoneLost /\ [Next]_vars => [Outcome!Next]_(Outcome!vars)
<1> SUFFICES ASSUME IInv, NoneLost, [Next]_vars PROVE [Outcome!Next]_(Outcome!vars)
  OBVIOUS
<1>1. IInv'
  BY IInvStep
<1>2. CASE UNCHANGED controllerVars
  <2>1. \A s \in Sessions : Verdict(s)' = Verdict(s)
    BY <1>2 DEF controllerVars, Verdict, Suspended
  <2>2. Announced' = Announced
    BY <1>2 DEF controllerVars, Announced
  <2> QED
    BY <2>1, <2>2, MappingFrame DEF Outcome!vars
<1>3. CASE Crash
  BY <1>1, <1>3, CrashIsDie DEF Outcome!Next
<1>4. CASE WorkerStep
  BY <1>1, <1>4, WakeIsStutter, FinishLoadingIsResume DEF WorkerStep, Outcome!Next
<1> QED
  BY <1>1, <1>2, <1>3, <1>4, StepsLive, LivingStepIsOutcome

\* Cancels, polls, restarts and rejected writes, in any order, do to a session
\* only what SessionOutcome allows: one decision per life, none after it was
\* announced.
THEOREM DecidedOnce == Spec => OutcomeSpec
BY InitIsOutcome, StepIsOutcome, NoneLostInit, NoneLostNext, Invariance, PTL
   DEF Spec, OutcomeSpec, Outcome!Spec
=============================================================================
