-------------------------- MODULE SessionOutcome --------------------------
(***************************************************************************)
(* What the session controller promises about each watch session, without  *)
(* polls, timers or awaits: a session is opened once, decided at most once *)
(* per worker life, and its decision is announced only after it is made.   *)
(* When the worker dies an unannounced session may be resumed or lost; an  *)
(* announced one is never resumed.                                         *)
(***************************************************************************)
CONSTANT Sessions

VARIABLES
    verdict,    \* where each session stands
    announced   \* sessions whose result was handed to the page

vars == <<verdict, announced>>

Decided == {"filled", "timedout", "canceled"}
Asleep == {"suspended", "gone"}

TypeOK ==
    /\ verdict \in [Sessions -> {"unborn", "open"} \cup Decided \cup Asleep]
    /\ announced \subseteq Sessions

Init ==
    /\ verdict = [s \in Sessions |-> "unborn"]
    /\ announced = {}

Open(s) ==
    /\ verdict[s] = "unborn"
    /\ verdict' = [verdict EXCEPT ![s] = "open"]
    /\ UNCHANGED announced

Decide(s, v) ==
    /\ verdict[s] = "open"
    /\ s \notin announced
    /\ verdict' = [verdict EXCEPT ![s] = v]
    /\ UNCHANGED announced

Announce(s) ==
    /\ verdict[s] \in Decided
    /\ announced' = announced \cup {s}
    /\ UNCHANGED verdict

\* What a session may be after the worker died.
AfterDeath(s) ==
    IF verdict[s] \in {"unborn", "gone"} THEN {verdict[s]}
    ELSE IF s \in announced THEN {"gone"} ELSE Asleep

Die ==
    /\ \A s \in Sessions : verdict'[s] \in AfterDeath(s)
    /\ verdict' \in [Sessions -> {"unborn"} \cup Asleep]
    /\ UNCHANGED announced

Resume ==
    /\ verdict' = [s \in Sessions |->
                      IF verdict[s] = "suspended" THEN "open" ELSE verdict[s]]
    /\ UNCHANGED announced

Next ==
    \/ \E s \in Sessions : Open(s) \/ Announce(s)
    \/ \E s \in Sessions, v \in Decided : Decide(s, v)
    \/ Die
    \/ Resume

Spec == Init /\ [][Next]_vars
=============================================================================
