--------------------------- MODULE ProvenanceGate ---------------------------
(***************************************************************************)
(* pollForCode and processPollResult of the session controller             *)
(* (background/session-controller.ts): the baseline of every mailbox, the  *)
(* snapshots that seed the baselines of later sessions, the classification *)
(* of candidates and the gates before autofill.                            *)
(*                                                                         *)
(* A session has at most one poll between sentinel and result; that is     *)
(* SentinelExclusive of SessionController.  A session that timed out or    *)
(* was canceled starts no further poll: here it may stop polling any time. *)
(***************************************************************************)
EXTENDS EmailPolling

CONSTANTS
    Sessions,
    Watch,       \* Watch[s]: channels, whether their evidence is positive, the
                 \* affinity of each message's sender to the site, and the
                 \* messages whose code fits the field
    None,        \* no message, no snapshot, no baseline
    Grace,       \* SMS_CANDIDATE_PRESESSION_GRACE_MS
    Settle,      \* SMS_AUTOFILL_SETTLE_MS
    SnapshotTtl, \* SMS_SNAPSHOT_TTL_MS
    MaxPolls,    \* bound: MaxPolls[s] polls of each session
    MaxCrashes   \* bound: service-worker deaths in a behaviour

Channels == {"email", "sms"}
Affinities == {"strict", "loose", "none"}

ASSUME SessionsAssumption == Clients = Sessions /\ PopupClients = {}
ASSUME WatchAssumption ==
    \A s \in Sessions : /\ Watch[s].channels \in (SUBSET Channels) \ {{}}
                        /\ Watch[s].positive \in BOOLEAN
                        /\ Watch[s].affinity \in [Messages -> Affinities]
                        /\ Watch[s].fits \subseteq Messages
ASSUME NoneAssumption == None \notin Messages
ASSUME WindowsAssumption ==
    /\ {Grace, Settle, SnapshotTtl, MaxCrashes} \subseteq Nat
    /\ MaxPolls \in [Sessions -> Nat]

VARIABLES
    phase,      \* of each session: "unborn", "open" or "filled"
    start,      \* sessionStart
    baseline,   \* smsBaseline and emailBaselineKeys, by mailbox
    arrivals,   \* newArrivalCodes
    stored,     \* baselines and arrivals in chrome.storage.session
    snapshot,   \* of the Google Messages mailbox, in chrome.storage.session
    poll,       \* where each session's poll is
    fresh,      \* currentBaselineThisPoll
    polls,      \* polls begun by each session
    filled,     \* the message whose code each session was given
    taken,      \* history: how often a poll took each message as a hit
    crashes

gateVars == <<phase, start, baseline, arrivals, stored, snapshot, poll, fresh,
              polls, filled, taken, crashes>>
vars == <<pollVars, gateVars>>

Baselines == [set : BOOLEAN, entries : SUBSET Sightings]
Unset == [set |-> FALSE, entries |-> {}]
NoSnapshot == [at |-> Never, entries |-> {}]

TypeOK ==
    /\ PollTypeOK
    /\ phase \in [Sessions -> {"unborn", "open", "filled"}]
    /\ start \in [Sessions -> 0 .. Never]
    /\ baseline \in [Sessions -> [Boxes -> Baselines]]
    /\ arrivals \in [Sessions -> SUBSET Messages]
    /\ stored \in [baseline : [Sessions -> [Boxes -> Baselines]],
                   arrivals : [Sessions -> SUBSET Messages]]
    /\ snapshot \in [at : 0 .. Never, entries : SUBSET Sightings]
    /\ poll \in [Sessions -> {"idle", "polling", "storing", "saving"}]
    /\ fresh \in [Sessions -> SUBSET Boxes]
    /\ polls \in [Sessions -> Nat]
    /\ filled \in [Sessions -> Messages \cup {None}]
    /\ taken \in [Messages -> Nat]
    /\ crashes \in 0 .. MaxCrashes

Init ==
    /\ PollInit
    /\ phase = [s \in Sessions |-> "unborn"]
    /\ start = [s \in Sessions |-> Never]
    /\ baseline = [s \in Sessions |-> [b \in Boxes |-> Unset]]
    /\ arrivals = [s \in Sessions |-> {}]
    /\ stored = [baseline |-> baseline, arrivals |-> arrivals]
    /\ snapshot = NoSnapshot
    /\ poll = [s \in Sessions |-> "idle"]
    /\ fresh = [s \in Sessions |-> {}]
    /\ polls = [s \in Sessions |-> 0]
    /\ filled = [s \in Sessions |-> None]
    /\ taken = [m \in Messages |-> 0]
    /\ crashes = 0

Persist == stored' = [baseline |-> baseline', arrivals |-> arrivals']

-----------------------------------------------------------------------------
(***************************************************************************)
(* Sessions and polls.                                                     *)
(***************************************************************************)
StartSession(s) ==
    /\ phase[s] = "unborn"
    /\ phase' = [phase EXCEPT ![s] = "open"]
    /\ start' = [start EXCEPT ![s] = now]
    /\ UNCHANGED <<baseline, arrivals>>
    /\ Persist
    /\ UNCHANGED <<pollVars, snapshot, poll, fresh, polls, filled, taken,
                   crashes>>

AdaptersFor(s) ==
    (IF "sms" \in Watch[s].channels THEN {SmsBox} ELSE {})
    \cup (IF "email" \in Watch[s].channels THEN EmailBoxes ELSE {})

Poll(s) ==
    /\ poll[s] = "idle"
    /\ phase[s] = "open"
    /\ polls[s] < MaxPolls[s]
    /\ polls' = [polls EXCEPT ![s] = @ + 1]
    /\ poll' = [poll EXCEPT ![s] = "polling"]
    /\ fresh' = [fresh EXCEPT ![s] = {}]
    /\ BeginPoll(s, AdaptersFor(s))
    /\ UNCHANGED <<phase, start, baseline, arrivals, stored, snapshot, filled,
                   taken, crashes>>

PollOnce(s) ==
    /\ poll[s] = "polling"
    /\ \E b \in Boxes : AdapterStep(s, b)
    /\ taken' = [m \in Messages |->
                    IF \E x \in hits'[s] \ hits[s] : x.msg = m THEN taken[m] + 1 ELSE taken[m]]
    /\ UNCHANGED <<phase, start, baseline, arrivals, stored, snapshot, poll, fresh,
                   polls, filled, crashes>>

\* pollOnce returns to processPollResult: the hits beyond KeepTopN are dropped.
PollAnswered(s) ==
    /\ poll[s] = "polling"
    /\ Answered(s)
    /\ StoreAsked(s)
    /\ adapter' = [adapter EXCEPT ![s] =
                      [b \in Boxes |-> IF @[b] = "reading" THEN "ok" ELSE @[b]]]
    /\ todo' = [todo EXCEPT ![s] = NoBatch]
    /\ \E top \in SUBSET hits[s] : Kept(s, top) /\ hits' = [hits EXCEPT ![s] = top]
    /\ poll' = [poll EXCEPT ![s] = "storing"]
    /\ UNCHANGED <<now, arrived, unread, batch, since, failures>>
    /\ UNCHANGED <<phase, start, baseline, arrivals, stored, snapshot, fresh, polls,
                   filled, taken, crashes>>

Expired(s) == adapter[s][SmsBox] = "expired"
ExpiredSmsOnly(s) == Expired(s) /\ Watch[s].channels = {"sms"}

\* The poll returns to handlePoll, which completes it and saves the sessions.
Nothing(s) ==
    /\ poll' = [poll EXCEPT ![s] = "idle"]
    /\ EndPoll(s)
    /\ UNCHANGED <<now, arrived, unread, mem, loaded, disk>>

\* processPollResult gives up: an expired pairing of an SMS-only session, or
\* a write to the mailboxes or the popup cache that throws.
GiveUp(s) ==
    /\ poll[s] = "storing"
    /\ fresh[s] = {}
    /\ \/ ExpiredSmsOnly(s) /\ UNCHANGED failures
       \/ failures < MaxFailures /\ failures' = failures + 1
    /\ Nothing(s)
    /\ UNCHANGED <<baseline, arrivals>>
    /\ Persist
    /\ UNCHANGED <<phase, start, snapshot, fresh, polls, filled, taken, crashes>>

-----------------------------------------------------------------------------
(***************************************************************************)
(* Baselines.  The loop over the adapters awaits the snapshot's read and   *)
(* write; its mailbox then has its baseline for good.                      *)
(***************************************************************************)
Succeeded(s) == {b \in Boxes : adapter[s][b] = "ok"}

UsableSnapshot(s) ==
    /\ snapshot.at <= start[s]
    /\ start[s] - snapshot.at <= SnapshotTtl

Baselinable(s, b) == b \in Succeeded(s) /\ ~ baseline[s][b].set

Seeded(s, b) == b = SmsBox /\ UsableSnapshot(s)

CommitBaselines(s) ==
    /\ poll[s] = "storing"
    /\ ~ ExpiredSmsOnly(s)
    /\ LET new == {b \in Boxes : Baselinable(s, b)}
       IN  /\ new # {}
           /\ baseline' = [baseline EXCEPT ![s] = [b \in Boxes |->
                  IF b \notin new THEN @[b]
                  ELSE [set |-> TRUE,
                        entries |-> IF Seeded(s, b) THEN snapshot.entries ELSE batch[s][b]]]]
           /\ fresh' = [fresh EXCEPT ![s] = {b \in new : ~ Seeded(s, b)}]
           /\ snapshot' = IF SmsBox \in new /\ batch[s][SmsBox] # {}
                          THEN [at |-> now, entries |-> batch[s][SmsBox]] ELSE snapshot
    /\ UNCHANGED <<pollVars, phase, start, arrivals, stored, poll, polls, filled, taken,
                   crashes>>

-----------------------------------------------------------------------------
(***************************************************************************)
(* Classification.                                                         *)
(***************************************************************************)
\* Variant: a text is new only where it turns a conversation unread.
BugUnreadOnly(s, x) ==
    LET entries == baseline[s][BoxOf(x.msg)].entries
    IN  /\ baseline[s][BoxOf(x.msg)].set
        /\ IF Sms(x.msg)
           THEN \A e \in entries : Kind[e.msg].conv = Kind[x.msg].conv =>
                    ~ e.unread /\ x.unread
           ELSE ~ \E e \in entries : e.msg = x.msg

IsNewArrival(s, x) ==
    LET entries == baseline[s][BoxOf(x.msg)].entries
    IN  /\ baseline[s][BoxOf(x.msg)].set
        /\ IF Sms(x.msg)
           THEN \A e \in entries : Kind[e.msg].conv = Kind[x.msg].conv =>
                    e.msg # x.msg \/ (~ e.unread /\ x.unread)
           ELSE ~ \E e \in entries : e.msg = x.msg

\* Variant: undated messages pass.
BugUndatedFresh(s, m) == Dated(m) => arrived[m] + Grace >= start[s]

FreshFor(s, m) == Dated(m) /\ arrived[m] + Grace >= start[s]

Accepted(s, x) ==
    IF BoxOf(x.msg) \in fresh[s]
    THEN FreshFor(s, x.msg)
    ELSE IsNewArrival(s, x) /\ (Sms(x.msg) => FreshFor(s, x.msg))

Classify(s) ==
    /\ poll[s] = "storing"
    /\ ~ ExpiredSmsOnly(s)
    /\ \A b \in Boxes : ~ Baselinable(s, b)
    /\ arrivals' = [arrivals EXCEPT ![s] = @ \cup {x.msg : x \in {y \in hits[s] : Accepted(s, y)}}]
    /\ UNCHANGED baseline
    /\ Persist
    /\ poll' = [poll EXCEPT ![s] = "saving"]
    /\ UNCHANGED <<pollVars, phase, start, snapshot, fresh, polls, filled, taken,
                   crashes>>

-----------------------------------------------------------------------------
(***************************************************************************)
(* From the arrivals to the code: eligibility, ranking, settle window and  *)
(* the positive-signal gate.                                               *)
(***************************************************************************)
Affinity(s, m) == Watch[s].affinity[m]

Eligible(s, m) ==
    IF Sms(m)
    THEN "sms" \in Watch[s].channels /\ ~ Expired(s)
    ELSE Affinity(s, m) # "none"

\* The score adds affinity, recency and whether the code has the shape the
\* field expects: one that is better in a part and no worse in any wins.
Rank(s, m) == CASE Affinity(s, m) = "strict" -> 2 [] Affinity(s, m) = "loose" -> 1 [] OTHER -> 0
Beats(s, m, n) ==
    /\ Rank(s, m) >= Rank(s, n) /\ arrived[m] >= arrived[n]
    /\ m \in Watch[s].fits \/ n \notin Watch[s].fits
    /\ Rank(s, m) > Rank(s, n) \/ arrived[m] > arrived[n]
Best(s) ==
    LET codes == {m \in arrivals[s] : Eligible(s, m)}
    IN  {m \in codes : ~ \E n \in codes : Beats(s, n, m)}

Deferred(m) == Sms(m) /\ now - arrived[m] < Settle

Suppressed(s, m) ==
    /\ ~ Watch[s].positive
    /\ Watch[s].channels = {"email"}
    /\ Affinity(s, m) # "strict"

Fill(s, m) ==
    /\ ~ Deferred(m) /\ ~ Suppressed(s, m)
    /\ phase' = [phase EXCEPT ![s] = "filled"]
    /\ filled' = [filled EXCEPT ![s] = m]

FindCode(s) ==
    /\ poll[s] = "saving"
    /\ \/ \E m \in Best(s) : Fill(s, m)
       \/ /\ Best(s) = {} \/ (\E m \in Best(s) : Deferred(m) \/ Suppressed(s, m))
          /\ UNCHANGED <<phase, filled>>
    /\ Nothing(s)
    /\ UNCHANGED <<baseline, arrivals>>
    /\ Persist
    /\ UNCHANGED <<start, snapshot, fresh, polls, taken, crashes, failures>>

-----------------------------------------------------------------------------
\* The worker dies, wakes and restores the open sessions from storage.
Crash ==
    /\ crashes < MaxCrashes
    /\ crashes' = crashes + 1
    /\ PollCrash
    /\ baseline' = stored.baseline
    /\ arrivals' = stored.arrivals
    /\ poll' = [s \in Sessions |-> "idle"]
    /\ fresh' = [s \in Sessions |-> {}]
    /\ UNCHANGED <<phase, start, stored, snapshot, polls, filled, taken>>

SessionStep(s) ==
    \/ Poll(s)
    \/ PollOnce(s)
    \/ PollAnswered(s)
    \/ GiveUp(s)
    \/ CommitBaselines(s)
    \/ Classify(s)
    \/ FindCode(s)

World ==
    \/ Tick
    \/ \E m \in Messages : Arrive(m)
    \/ \E m \in Messages : ReadByUser(m)

Next ==
    \/ World /\ UNCHANGED gateVars
    \/ \E s \in Sessions : StartSession(s)
    \/ \E s \in Sessions : SessionStep(s)
    \/ Crash

Spec == Init /\ [][Next]_vars

-----------------------------------------------------------------------------
(***************************************************************************)
(* Safety.                                                                 *)
(***************************************************************************)
\* Whatever may be filled in came after the session began, give or take the
\* grace: across lost baselines, restarts and snapshots of other sessions, and
\* although the time of an email is not asked once its mailbox has a baseline.
FreshOnly ==
    \A s \in Sessions : \A m \in arrivals[s] : Dated(m) /\ arrived[m] + Grace >= start[s]

\* A poll that took the code of a message received after its session began
\* keeps it: no baseline, read earlier or seeded by a snapshot, hides it.
Caught ==
    \A s \in Sessions : poll[s] = "saving" =>
        \A x \in hits[s] :
            Dated(x.msg) /\ arrived[x.msg] > start[s] => x.msg \in arrivals[s]

\* No code is shipped twice, although the sessions poll concurrently and the
\* worker restarts.
TakenOnce == \A m \in Messages : Kind[m].hit => taken[m] <= 1
=============================================================================
