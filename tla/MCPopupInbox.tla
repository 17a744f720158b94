---------------------------- MODULE MCPopupInbox ----------------------------
(***************************************************************************)
(* An instance of PopupInbox: an email and the same code once more, from   *)
(* another sender, in a sync of the popup and a poll of a watch session,   *)
(* and polls that pages ask for.  There are two scenes, because all of it  *)
(* at once is too much: the pages, the popup and a failing update at the   *)
(* rate limits, or the popup, the session and reads of the stored list,    *)
(* two of them at once when one message comes and one when both do.        *)
(***************************************************************************)
EXTENDS PopupInbox, TLC

CONSTANTS imap, e1, e2, watch

Pages == Permutations(Autos)
MCKind ==
    [m \in Messages |-> [box |-> imap, conv |-> 0, dated |-> TRUE, hit |-> TRUE, key |-> m]]
MCUid == [m \in Messages |-> IF m = e1 THEN 1 ELSE 2]
MCShape == [m \in Messages |-> [value |-> "code", shown |-> TRUE, usual |-> m = e1]]

\* Bounds the steps TLC takes.
InScene ==
    /\ crashes' = 0 \/ starts' > 0
    /\ \/ /\ pc'[watch] = "idle" /\ writers' \subseteq {"popup"} /\ arrived'[e2] = Never
          /\ reads' = {}
       \/ /\ lastAuto' = Never /\ \A c \in Autos : pc'[c] = "idle"
          /\ starts' <= 2 /\ failures' = 0
          /\ arrived'[e2] = Never \/ Cardinality(reads') <= 1
=============================================================================
