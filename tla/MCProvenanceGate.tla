------------------------- MODULE MCProvenanceGate -------------------------
(***************************************************************************)
(* An instance of ProvenanceGate: an old, undated text and an arriving one *)
(* of the same conversation, an email with a code and an old one without,  *)
(* a session that accepts texts and emails and one that accepts texts.     *)
(* There are two scenes, because all of it at once is too much: two        *)
(* sessions and texts for a while, or one session, texts and mail for      *)
(* longer; in each an adapter fails or the worker dies.                    *)
(***************************************************************************)
EXTENDS ProvenanceGate, TLC

CONSTANTS t0, t1, e0, e1, s1, s2, gm, imap

MCKind ==
    t1 :> [box |-> gm, conv |-> 1, dated |-> TRUE, hit |-> TRUE, key |-> t1]
    @@ t0 :> [box |-> gm, conv |-> 1, dated |-> FALSE, hit |-> TRUE, key |-> t0]
    @@ e1 :> [box |-> imap, conv |-> 0, dated |-> TRUE, hit |-> TRUE, key |-> e1]
    @@ e0 :> [box |-> imap, conv |-> 0, dated |-> TRUE, hit |-> FALSE, key |-> e0]

MCUid == e0 :> 0 @@ t0 :> 0 @@ e1 :> 1 @@ t1 :> 1

MCWatch ==
    s1 :> [channels |-> {"sms", "email"}, positive |-> TRUE,
           affinity |-> [m \in Messages |-> IF m = e0 THEN "none" ELSE "strict"],
           fits |-> Messages]
    @@ s2 :> [channels |-> {"sms"}, positive |-> FALSE,
              affinity |-> [m \in Messages |-> "loose"], fits |-> {}]

MCMaxPolls == [s \in Sessions |-> IF s = s1 THEN 2 ELSE 1]

\* Bounds the steps TLC takes: mail is there before the session starts, or
\* never comes.
InScene ==
    /\ failures' + crashes' <= 1
    /\ \/ now' <= 1 /\ arrived'[e0] = Never /\ arrived'[e1] = Never
       \/ /\ arrived'[e0] = 0 /\ phase'[s2] = "unborn"
          /\ arrived[e0] = 0 \/ phase[s1] = "unborn"
=============================================================================
