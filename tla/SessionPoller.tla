--------------------------- MODULE SessionPoller ---------------------------
(***************************************************************************)
(* The dual-timer scheduler of a watch session                             *)
(* (extension/src/background/session-poller.ts).  Every poll <<s, i>> of a *)
(* session s is armed twice: with a setTimeout, which dies with the        *)
(* service worker, and with a chrome.alarm, which survives it.  Whichever  *)
(* fires first claims the poll and clears the other one.                   *)
(*                                                                         *)
(* The module holds the scheduler's state and the synchronous effect of    *)
(* each of its methods; SessionController composes them into steps.        *)
(***************************************************************************)
EXTENDS Naturals

CONSTANTS
    Sessions,   \* session ids a run may hand out (crypto.randomUUID)
    NPolls      \* number of entries of a session's pollSchedule

ASSUME NPollsAssumption == NPolls \in Nat \ {0}

VARIABLES
    activeSchedules,  \* ids with an entry in the activeSchedules Map
    timeouts,         \* polls with a setTimeout pending in this worker
    alarms,           \* polls whose chrome.alarm is set, or rang and is on its way
    executedPolls,    \* polls claimed in this worker's life
    elapsed           \* poll offsets of each session that have gone by

pollerVars ==
    <<activeSchedules, timeouts, alarms, executedPolls, elapsed>>

Index == 0 .. NPolls - 1
LastIndex == NPolls - 1
Polls == Sessions \X Index
PollsOf(s) == {s} \X Index

PollerTypeOK ==
    /\ activeSchedules \subseteq Sessions
    /\ timeouts \subseteq Polls
    /\ alarms \subseteq Polls
    /\ executedPolls \subseteq Polls
    /\ elapsed \in [Sessions -> 0 .. NPolls]

PollerInit ==
    /\ activeSchedules = {}
    /\ timeouts = {}
    /\ alarms = {}
    /\ executedPolls = {}
    /\ elapsed = [s \in Sessions |-> 0]

(***************************************************************************)
(* Time.  elapsed[s] = k says that the offset of poll k has gone by and    *)
(* that of poll k + 1 has not; NPolls stands for every later instant.      *)
(***************************************************************************)
Due(p) == elapsed[p[1]] >= p[2]

\* Timers of one session are created in schedule order with non-decreasing
\* delays, so the event loop runs them in that order.
TimeoutDue(p) ==
    /\ p \in timeouts
    /\ Due(p)
    /\ \A q \in timeouts : q[1] = p[1] => q[2] >= p[2]

\* The browser's clock reaches the next offset of s (bounded by NPolls).
AdvanceClock(s) ==
    /\ elapsed[s] < NPolls
    /\ elapsed' = [elapsed EXCEPT ![s] = @ + 1]
    /\ UNCHANGED <<activeSchedules, timeouts, alarms, executedPolls>>

(***************************************************************************)
(* The methods.                                                            *)
(***************************************************************************)
SchedulePolls(S) ==
    /\ activeSchedules' = activeSchedules \cup S
    /\ timeouts' = timeouts \cup (S \X Index)
    /\ alarms' = alarms \cup (S \X Index)
    /\ UNCHANGED <<executedPolls, elapsed>>

\* chrome.alarms.clear: it is asynchronous, so an alarm of P that is already
\* due may have rung before, and its event still reaches the worker.
ClearAlarms(P) ==
    \E late \in SUBSET {p \in P \cap alarms : Due(p)} : alarms' = (alarms \ P) \cup late

CancelPolls(s) ==
    IF s \in activeSchedules
    THEN /\ activeSchedules' = activeSchedules \ {s}
         /\ timeouts' = timeouts \ PollsOf(s)
         /\ ClearAlarms(PollsOf(s))
         /\ executedPolls' = executedPolls \ PollsOf(s)
         /\ UNCHANGED elapsed
    ELSE UNCHANGED pollerVars

\* Variant: executedPolls is not consulted.
BugClaimAgain(p) == TRUE

\* executePoll's guard: a poll is claimed at most once between resets.
Claimable(p) == p \notin executedPolls

\* Variant: the claim is not recorded.
BugClaimUnrecorded(p) ==
    /\ Claimable(p)
    /\ timeouts' = timeouts \ {p}
    /\ ClearAlarms({p})
    /\ UNCHANGED <<activeSchedules, executedPolls, elapsed>>

\* executePoll up to the call of onPoll, for a setTimeout that fired.
ClaimByTimeout(p) ==
    /\ Claimable(p)
    /\ executedPolls' = executedPolls \cup {p}
    /\ timeouts' = timeouts \ {p}
    /\ ClearAlarms({p})
    /\ UNCHANGED <<activeSchedules, elapsed>>

\* executePoll up to the call of onPoll, for an alarm event that arrived.
ClaimByAlarm(p) ==
    /\ Claimable(p)
    /\ executedPolls' = executedPolls \cup {p}
    /\ timeouts' = timeouts \ {p}
    /\ alarms' = alarms \ {p}
    /\ UNCHANGED <<activeSchedules, elapsed>>

\* executePoll's early return: the poll was claimed by the other timer.
DropTimeout(p) ==
    /\ ~ Claimable(p)
    /\ timeouts' = timeouts \ {p}
    /\ UNCHANGED <<activeSchedules, alarms, executedPolls, elapsed>>

DropAlarm(p) ==
    /\ ~ Claimable(p)
    /\ alarms' = alarms \ {p}
    /\ UNCHANGED <<activeSchedules, timeouts, executedPolls, elapsed>>

\* The worker is killed: the Maps, the Set and the setTimeouts go, the
\* browser's alarms and the events it has still to deliver stay.
PollerCrash ==
    /\ activeSchedules' = {}
    /\ timeouts' = {}
    /\ executedPolls' = {}
    /\ UNCHANGED <<alarms, elapsed>>
=============================================================================
