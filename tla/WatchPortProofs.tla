-------------------------- MODULE WatchPortProofs --------------------------
(***************************************************************************)
(* Proofs about the per-tab context of WatchPort.  MapsAgree and           *)
(* PortIsOpen are inductive as they stand.  FallbackJustified needs what   *)
(* leads to a delivery: where the messages under way come from, that a     *)
(* port carries one START_SESSION and its connect before it, and which     *)
(* handlers own the sessions, verdicts and cancels.                        *)
(***************************************************************************)
EXTENDS WatchPort, FiniteSetTheorems, TLAPS

(***************************************************************************)
(* Every handler that touches the sessionContexts Map or context.sessionId *)
(* leaves them naming the same session.                                    *)
(***************************************************************************)
LEMMA MapsAgreeStep == MapsAgree /\ [Next]_vars => MapsAgree'
<1> SUFFICES ASSUME MapsAgree, [Next]_vars PROVE MapsAgree'
    OBVIOUS
<1> USE DEF MapsAgree
<1>1. CASE UNCHANGED context
    BY <1>1 DEF context
<1>2. ASSUME NEW s, CleanupContext(s) PROVE MapsAgree'
    BY <1>2 DEF CleanupContext
<1>3. ASSUME NEW w \in Watches, WorkerStep(w) PROVE MapsAgree'
    <2>1. CASE ConnectArrives(w)
        BY <2>1 DEF ConnectArrives
    <2>2. CASE StartArrives(w)
        BY <2>2, <1>1 DEF StartArrives
    <2>3. CASE ScanResumes(w)
        BY <2>3, <1>1 DEF ScanResumes
    <2>4. CASE StartSaved(w)
        <3>1. sessionContexts' = {w} /\ sessionId' = w
            BY <2>4 DEF StartSaved, ReplaceMapping
        <3> QED
            BY <3>1, WatchesAssumption
    <2>5. CASE StopArrives(w)
        <3>1. CASE UNCHANGED <<sessionId, sessionContexts>>
            BY <3>1
        <3>2. CASE /\ sessionContexts' = sessionContexts \ {sessionId}
                   /\ sessionId' = None
            BY <3>2
        <3> QED
            BY <2>5, <3>1, <3>2 DEF StopArrives
    <2>6. CASE DisconnectArrives(w)
        BY <2>6 DEF DisconnectArrives
    <2>7. CASE VerdictSaved(w)
        BY <2>7, <1>2 DEF VerdictSaved
    <2> QED
        BY <1>3, <2>1, <2>2, <2>3, <2>4, <2>5, <2>6, <2>7 DEF WorkerStep
<1>4. ASSUME NEW c \in cancels, CancelStep(c) PROVE MapsAgree'
    <2>1. CASE CancelCloses(c)
        BY <2>1, <1>1 DEF CancelCloses
    <2>2. CASE CancelSaved(c)
        <3>1. CASE /\ sessionContexts' = sessionContexts \ {c.sid, sessionId}
                   /\ sessionId' = None
            BY <3>1
        <3> QED
            BY <2>2, <3>1, <1>2 DEF CancelSaved
    <2> QED
        BY <1>4, <2>1, <2>2 DEF CancelStep
<1>5. CASE Crash
    BY <1>5 DEF Crash
<1>6. ASSUME NEW w \in Watches, PageStep(w) \/ StartWatch(w) \/ ChipClosed(w)
      PROVE  MapsAgree'
    BY <1>6, <1>1 DEF PageStep, StartWatch, ChipClosed, Veto, Connects, SettingsLoaded,
                      Receive, FillEnds
<1>7. CASE StopActiveWatch \/ PageLeaves
    BY <1>7, <1>1 DEF StopActiveWatch, PageLeaves
<1>8. ASSUME NEW s \in Watches, NEW verdict \in Verdicts, Decide(s, verdict)
      PROVE  MapsAgree'
    BY <1>8, <1>1 DEF Decide
<1>9. ASSUME NEW s \in Watches, LosePoll(s) PROVE MapsAgree'
    BY <1>9, <1>1 DEF LosePoll
<1>10. CASE UNCHANGED vars
    BY <1>10, <1>1 DEF vars
<1> QED
    BY <1>3, <1>4, <1>5, <1>6, <1>7, <1>8, <1>9, <1>10 DEF Next

(***************************************************************************)
(* For every set of watches and every number of worker deaths, the         *)
(* sessionContexts Map and context.sessionId name the same session.        *)
(***************************************************************************)
THEOREM ContextsAgree == Spec => []MapsAgree
<1>1. Init => MapsAgree
    BY DEF Init, MapsAgree
<1> QED
    BY <1>1, MapsAgreeStep, PTL DEF Spec

(***************************************************************************)
(* Only a connect sets the context's port, and its disconnect clears it.   *)
(***************************************************************************)
LEMMA PortIsOpenStep == PortIsOpen /\ [Next]_vars => PortIsOpen'
<1> SUFFICES ASSUME PortIsOpen, [Next]_vars PROVE PortIsOpen'
    OBVIOUS
<1> USE DEF PortIsOpen
<1>1. CASE UNCHANGED <<port, attached>>
    BY <1>1
<1>2. ASSUME NEW w \in Watches, ConnectArrives(w) PROVE PortIsOpen'
    BY <1>2 DEF ConnectArrives
<1>3. ASSUME NEW w \in Watches, DisconnectArrives(w) PROVE PortIsOpen'
    BY <1>3 DEF DisconnectArrives, DropPort
<1>4. CASE Crash
    BY <1>4 DEF Crash
<1>5. ASSUME NEW w \in Watches,
             StartArrives(w) \/ ScanResumes(w) \/ StartSaved(w) \/ StopArrives(w)
                \/ VerdictSaved(w)
      PROVE  PortIsOpen'
    BY <1>5, <1>1 DEF StartArrives, ScanResumes, StartSaved, StopArrives, VerdictSaved, context
<1>6. ASSUME NEW c \in cancels, CancelStep(c) PROVE PortIsOpen'
    BY <1>6, <1>1 DEF CancelStep, CancelCloses, CancelSaved, context
<1>7. ASSUME NEW w \in Watches, PageStep(w) \/ StartWatch(w) \/ ChipClosed(w)
      PROVE  PortIsOpen'
    BY <1>7, <1>1 DEF PageStep, StartWatch, ChipClosed, Veto, Connects, SettingsLoaded,
                      Receive, FillEnds, context
<1>8. CASE StopActiveWatch \/ PageLeaves \/ UNCHANGED vars
    BY <1>8, <1>1 DEF StopActiveWatch, PageLeaves, vars, context
<1>9. ASSUME NEW s \in Watches, NEW verdict \in Verdicts, Decide(s, verdict)
      PROVE  PortIsOpen'
    BY <1>9, <1>1 DEF Decide, context
<1>10. ASSUME NEW s \in Watches, LosePoll(s) PROVE PortIsOpen'
    BY <1>10, <1>1 DEF LosePoll, context
<1> QED
    BY <1>2, <1>3, <1>4, <1>5, <1>6, <1>7, <1>8, <1>9, <1>10 DEF Next, WorkerStep

(***************************************************************************)
(* A result is never posted into a port that has disconnected: the         *)
(* context's port, when it has one, is open.                               *)
(***************************************************************************)
THEOREM PortsOpen == Spec => []PortIsOpen
<1>1. Init => PortIsOpen
    BY DEF Init, PortIsOpen
<1> QED
    BY <1>1, PortIsOpenStep, PTL DEF Spec

-----------------------------------------------------------------------------
(***************************************************************************)
(* The messages under way come from watches that exist, and a watch that   *)
(* posted its last words is over; a port carries one START_SESSION, and    *)
(* none once its handler has begun.                                        *)
(***************************************************************************)
Origins ==
    /\ \A i \in DOMAIN up :
          /\ watch[up[i].from] # "unborn"
          /\ up[i].type \in {"STOP_SESSION", "disconnect"} => watch[up[i].from] = "over"
    /\ \A w \in sent : watch[w] # "unborn"
    /\ \A w \in Watches : starting[w] # "no" => w \in sent

OneStart ==
    \A i \in DOMAIN up : up[i].type = "START_SESSION" =>
        /\ up[i].from \in sent /\ starting[up[i].from] = "no"
        /\ \A j \in DOMAIN up : up[j] = up[i] => j = i

(***************************************************************************)
(* Sessions, verdicts and cancels belong to handlers that have created     *)
(* their session; a session is canceled by another watch's start or by its *)
(* tab's watch being over.                                                 *)
(***************************************************************************)
Created == {w \in Watches : starting[w] \in {"saving", "done"}}

Begun ==
    /\ sessions \subseteq Created
    /\ \A s \in deciding : starting[s] = "done" /\ status[s] \in Verdicts
    /\ \A c \in cancels :
          /\ c.sid \in Created
          /\ c.kind = "start" => c.by # c.sid /\ starting[c.by] # "no"
          /\ c.kind # "start" => watch[c.by] = "over"

Kept == TypeOK /\ Origins /\ OneStart /\ Begun

(***************************************************************************)
(* As long as the tab's only watch lasts, the context has its port before  *)
(* its session starts, and its session until the verdict is delivered.     *)
(***************************************************************************)
Lasting(s) == watch[s] # "over" /\ Alone(s)
Reached(s, n) == port = s \/ \E j \in 1 .. n : up[j] = [from |-> s, type |-> "connect"]

Served(s) ==
    /\ watch[s] \in Listening => Reached(s, Len(up))
    /\ \A i \in DOMAIN up :
          up[i] = [from |-> s, type |-> "START_SESSION"] => Reached(s, i - 1)
    /\ starting[s] # "no" => port = s
    /\ starting[s] = "done" /\ (status[s] \in Running \/ s \in deciding) => s \in sessionContexts

Serving == \A s \in Watches : Lasting(s) => Served(s)

PortInv == Kept /\ Serving /\ FallbackJustified

\* A worker's death justifies every fallback after it.
FirstWorker == crashes \in Nat /\ (crashes = 0 => PortInv)

-----------------------------------------------------------------------------
(***************************************************************************)
(* Messages.                                                               *)
(***************************************************************************)
UpTypes == {"connect", "START_SESSION", "STOP_SESSION", "disconnect"}
LastTypes == {"STOP_SESSION", "disconnect"}

\* The messages of watches that end with them.
LastWords(q) ==
    /\ q \in Seq(UpMessages)
    /\ \A i \in DOMAIN q : q[i].type \in LastTypes /\ watch'[q[i].from] = "over"

LEMMA Concat ==
    ASSUME NEW S, NEW p \in Seq(S), NEW q \in Seq(S)
    PROVE  /\ p \o q \in Seq(S)
           /\ Len(p \o q) = Len(p) + Len(q)
           /\ DOMAIN p \subseteq DOMAIN (p \o q)
           /\ \A i \in DOMAIN p : (p \o q)[i] = p[i]
           /\ \A i \in DOMAIN (p \o q) :
                 i \in DOMAIN p \/ (i - Len(p) \in DOMAIN q /\ (p \o q)[i] = q[i - Len(p)])
    OBVIOUS

LEMMA SaysOne ==
    ASSUME NEW w \in Watches, NEW type \in UpTypes
    PROVE  /\ Says(w, type) \in Seq(UpMessages)
           /\ DOMAIN Says(w, type) = {1}
           /\ Says(w, type)[1] = [from |-> w, type |-> type]
    BY DEF Says, UpMessages, UpTypes

\* A message that is taken leaves the others in their order.
LEMMA TakenOut ==
    ASSUME TypeOK, NEW w, NEW type, Takes(w, type)
    PROVE  \E k \in DOMAIN up :
              /\ up[k] = [from |-> w, type |-> type]
              /\ \A j \in 1 .. k - 1 : up[j].from # w
              /\ up' \in Seq(UpMessages)
              /\ DOMAIN up' = 1 .. Len(up) - 1
              /\ \A n \in DOMAIN up' : up'[n] = up[IF n < k THEN n ELSE n + 1]
<1>1. PICK k \in DOMAIN up : /\ up[k] = [from |-> w, type |-> type]
                             /\ \A j \in 1 .. k - 1 : ~ InOrder /\ up[j].from # w
                             /\ up' = SubSeq(up, 1, k - 1) \o SubSeq(up, k + 1, Len(up))
    BY DEF Takes
<1>2. up \in Seq(UpMessages) /\ k \in 1 .. Len(up) /\ Len(up) \in Nat
    BY DEF TypeOK
<1> DEFINE a == SubSeq(up, 1, k - 1)
           b == SubSeq(up, k + 1, Len(up))
<1>3. /\ a \in Seq(UpMessages) /\ Len(a) = k - 1
      /\ \A n \in 1 .. k - 1 : a[n] = up[n]
    BY <1>2
<1>4. /\ b \in Seq(UpMessages) /\ Len(b) = Len(up) - k
      /\ \A n \in 1 .. Len(up) - k : b[n] = up[n + k]
    BY <1>2
<1>5. up' = a \o b
    BY <1>1
<1> HIDE DEF a, b
<1>6. up' \in Seq(UpMessages) /\ Len(up') = Len(up) - 1
    BY <1>2, <1>3, <1>4, <1>5
<1>7. DOMAIN up' = 1 .. Len(up) - 1
    BY <1>6
<1>8. ASSUME NEW n \in DOMAIN up' PROVE up'[n] = up[IF n < k THEN n ELSE n + 1]
    <2>1. n \in 1 .. Len(up) - 1
        BY <1>7
    <2>2. CASE n < k
        BY <1>2, <1>3, <1>4, <1>5, <2>1, <2>2
    <2>3. CASE ~ n < k
        <3>0. Len(a) = k - 1 /\ Len(b) = Len(up) - k
            BY <1>3, <1>4
        <3>1. n - (k - 1) \in 1 .. Len(up) - k /\ n > Len(a)
            BY <1>2, <2>1, <2>3, <3>0
        <3>2. (a \o b)[n] = b[n - Len(a)]
            <4>1. Len(a) \in Nat /\ n \in Nat /\ n > Len(a)
                BY <1>2, <2>1, <3>0, <3>1
            <4>2. a \in Seq(UpMessages) /\ b \in Seq(UpMessages)
                BY <1>3, <1>4
            <4>3. n \notin DOMAIN a
                <5>1. DOMAIN a = 1 .. Len(a)
                    BY <4>2
                <5>2. n \notin 1 .. Len(a)
                    BY <4>1
                <5> QED
                    BY <5>1, <5>2
            <4>4. n \in DOMAIN (a \o b)
                BY <1>5, <1>7, <2>1
            <4> QED
                BY <4>2, <4>3, <4>4, Concat
        <3>3. b[n - (k - 1)] = up[(n - (k - 1)) + k]
            BY <1>4, <3>1
        <3>4. (n - (k - 1)) + k = n + 1
            BY <1>2, <2>1
        <3> QED BY <1>5, <2>3, <3>0, <3>2, <3>3, <3>4
    <2> QED BY <2>2, <2>3
<1> QED BY <1>1, <1>6, <1>7, <1>8

(***************************************************************************)
(* The page's steps but connecting and starting: they end watches, and     *)
(* post only the last words of those.                                      *)
(***************************************************************************)
\* A watch never comes back from where it went.
Onward ==
    \A w \in Watches :
        /\ watch[w] # "unborn" => watch'[w] # "unborn"
        /\ watch[w] = "over" => watch'[w] = "over"

PageTypes ==
    /\ watch' \in [Watches -> {"unborn", "checking", "over"} \cup Listening]
    /\ sent' \subseteq Watches
    /\ known' \subseteq Watches
    /\ activeWatch' \in Watches \cup {None}
    /\ down' \in [Watches -> Seq(DownMessages)]
    /\ answers' \in [Watches -> SUBSET Results]

Quietly ==
    /\ PageTypes
    /\ Onward
    /\ \A w \in Watches : watch'[w] \in Listening => watch[w] \in Listening
    /\ \E q : LastWords(q) /\ up' = up \o q
    /\ UNCHANGED <<sent, context, controller, orphaned, crashes>>

LEMMA NoWords == LastWords(<<>>)
    BY DEF LastWords

LEMMA NothingSaid == ASSUME TypeOK PROVE up \o <<>> = up
    BY DEF TypeOK

LEMMA StopTypes ==
    ASSUME NEW w \in Watches, watch'[w] = "over"
    PROVE  LastWords(StopMessages(w)) /\ LastWords(Says(w, "disconnect"))
<1>1. \A type \in LastTypes : LastWords(Says(w, type))
    <2> SUFFICES ASSUME NEW type \in LastTypes PROVE LastWords(Says(w, type))
        OBVIOUS
    <2>1. /\ Says(w, type) \in Seq(UpMessages)
          /\ DOMAIN Says(w, type) = {1}
          /\ Says(w, type)[1] = [from |-> w, type |-> type]
        BY SaysOne DEF LastTypes, UpTypes
    <2> QED BY <2>1 DEF LastWords
<1> QED BY <1>1, NoWords DEF StopMessages, LastTypes

LEMMA MoreWords ==
    ASSUME NEW p, NEW q, LastWords(p), LastWords(q)
    PROVE  LastWords(p \o q)
<1>1. p \in Seq(UpMessages) /\ q \in Seq(UpMessages)
    BY DEF LastWords
<1>2. p \o q \in Seq(UpMessages)
    BY <1>1, Concat
<1>3. \A i \in DOMAIN (p \o q) :
         i \in DOMAIN p \/ (i - Len(p) \in DOMAIN q /\ (p \o q)[i] = q[i - Len(p)])
    BY <1>1, Concat
<1>4. \A i \in DOMAIN p : (p \o q)[i] = p[i]
    BY <1>1, Concat
<1> QED BY <1>2, <1>3, <1>4 DEF LastWords

LEMMA Associates ==
    ASSUME TypeOK, NEW p \in Seq(UpMessages), NEW q \in Seq(UpMessages)
    PROVE  (up \o p) \o q = up \o (p \o q)
    BY DEF TypeOK

LEMMA CleanupQuiet ==
    ASSUME TypeOK, NEW w \in Watches, NEW p, Cleanup(w, p),
           p \in {<<>>, StopMessages(w)}
    PROVE  /\ watch' = [watch EXCEPT ![w] = "over"]
           /\ watch' \in [Watches -> {"unborn", "checking", "over"} \cup Listening]
           /\ known' \subseteq Watches
           /\ down' \in [Watches -> Seq(DownMessages)]
           /\ \E q : LastWords(q) /\ up' = up \o q
<1>1. watch' = [watch EXCEPT ![w] = "over"] /\ watch'[w] = "over"
    BY DEF Cleanup, TypeOK
<1>2. LastWords(p) /\ LastWords(Says(w, "disconnect"))
    BY <1>1, StopTypes, NoWords
<1>3. up' = up \o (p \o Says(w, "disconnect"))
    BY <1>2, Associates DEF Cleanup, LastWords
<1>4. LastWords(p \o Says(w, "disconnect"))
    BY <1>2, MoreWords
<1>5. /\ watch' \in [Watches -> {"unborn", "checking", "over"} \cup Listening]
      /\ known' \subseteq Watches
    BY <1>1 DEF Cleanup, TypeOK
<1>6. down' \in [Watches -> Seq(DownMessages)]
    BY DEF Cleanup, TypeOK
<1> QED BY <1>1, <1>3, <1>4, <1>5, <1>6

LEMMA StartWatchQuiet ==
    ASSUME TypeOK, NEW w \in Watches, StartWatch(w) PROVE Quietly
<1> USE DEF Listening
<1>1. CASE /\ Stoppable
           /\ watch' = [watch EXCEPT ![activeWatch] = "over", ![w] = "checking"]
           /\ known' = known \ {activeWatch}
           /\ up' = up \o StopMessages(activeWatch) \o Says(activeWatch, "disconnect")
           /\ down' = [down EXCEPT ![activeWatch] = <<>>]
    <2>1. activeWatch \in Watches /\ activeWatch # w /\ watch'[activeWatch] = "over"
        BY <1>1 DEF StartWatch, Stoppable, TypeOK
    <2>2. LastWords(StopMessages(activeWatch)) /\ LastWords(Says(activeWatch, "disconnect"))
        BY <2>1, StopTypes
    <2>3. up' = up \o (StopMessages(activeWatch) \o Says(activeWatch, "disconnect"))
        BY <1>1, <2>2, Associates DEF LastWords
    <2>4. \E q : LastWords(q) /\ up' = up \o q
        BY <2>2, <2>3, MoreWords
    <2>5. PageTypes
        <3>1. watch' \in [Watches -> {"unborn", "checking", "over"} \cup Listening]
            BY <1>1, <2>1 DEF TypeOK
        <3>2. down' \in [Watches -> Seq(DownMessages)]
            BY <1>1, <2>1 DEF TypeOK
        <3>3. known' \subseteq Watches /\ activeWatch' \in Watches \cup {None}
            BY <1>1 DEF StartWatch, TypeOK
        <3> QED BY <3>1, <3>2, <3>3 DEF StartWatch, TypeOK, PageTypes
    <2>6. Onward /\ \A v \in Watches : watch'[v] \in Listening => watch[v] \in Listening
        BY <1>1, <2>1 DEF StartWatch, Onward, TypeOK
    <2> QED BY <2>4, <2>5, <2>6 DEF StartWatch, Quietly
<1>2. CASE watch' = [watch EXCEPT ![w] = "checking"] /\ UNCHANGED <<known, up, down>>
    <2>1. PageTypes
        BY <1>2 DEF StartWatch, TypeOK, PageTypes
    <2>2. Onward /\ \A v \in Watches : watch'[v] \in Listening => watch[v] \in Listening
        BY <1>2 DEF StartWatch, Onward, TypeOK
    <2> QED BY <1>2, <2>1, <2>2, NoWords, NothingSaid DEF StartWatch, Quietly
<1> QED BY <1>1, <1>2 DEF StartWatch

LEMMA CleanedQuiet ==
    ASSUME TypeOK, NEW w \in Watches, NEW p \in {<<>>, StopMessages(w)}, Cleanup(w, p),
           activeWatch' \in Watches \cup {None}, answers' \in [Watches -> SUBSET Results],
           UNCHANGED <<sent, context, controller, orphaned, crashes>>
    PROVE  Quietly
<1>1. /\ watch' = [watch EXCEPT ![w] = "over"]
      /\ watch' \in [Watches -> {"unborn", "checking", "over"} \cup Listening]
      /\ known' \subseteq Watches
      /\ down' \in [Watches -> Seq(DownMessages)]
      /\ \E q : LastWords(q) /\ up' = up \o q
    BY CleanupQuiet
<1>2. Onward /\ \A v \in Watches : watch'[v] \in Listening => watch[v] \in Listening
    BY <1>1 DEF Onward, TypeOK, Listening
<1>3. PageTypes
    BY <1>1 DEF PageTypes, TypeOK
<1> QED BY <1>1, <1>2, <1>3 DEF Quietly

LEMMA StopsQuiet == ASSUME TypeOK, StopActiveWatch PROVE Quietly
<1>1. activeWatch \in Watches
    BY DEF StopActiveWatch, TypeOK
<1>2. CASE Stoppable
    BY <1>1, <1>2, CleanedQuiet DEF StopActiveWatch, TypeOK
<1>3. CASE ~ Stoppable
    BY <1>1, <1>3, NoWords, NothingSaid
       DEF StopActiveWatch, Quietly, PageTypes, Onward, TypeOK
<1> QED BY <1>2, <1>3

LEMMA ClosesQuiet ==
    ASSUME TypeOK, NEW w \in Watches, ChipClosed(w) \/ FillEnds(w) PROVE Quietly
    BY CleanedQuiet DEF ChipClosed, FillEnds, Forgets, TypeOK

LEMMA VetoQuiet == ASSUME TypeOK, NEW w \in Watches, Veto(w) PROVE Quietly
<1>1. watch' = [watch EXCEPT ![w] = "over"]
    BY DEF Veto
<1>2. Onward /\ \A v \in Watches : watch'[v] \in Listening => watch[v] \in Listening
    BY <1>1 DEF Onward, TypeOK, Listening
<1>3. PageTypes
    BY <1>1 DEF Veto, Forgets, TypeOK, PageTypes
<1> QED BY <1>2, <1>3, NoWords, NothingSaid DEF Veto, Quietly

LEMMA PageLeavesQuiet == ASSUME TypeOK, PageLeaves PROVE Quietly
<1> DEFINE S == {w \in Watches : watch[w] \in Listening}
           stop == IF Stoppable THEN StopMessages(activeWatch) ELSE <<>>
<1>1. PICK q \in Orders(S) :
         up' = up \o stop \o [i \in DOMAIN q |-> [from |-> q[i], type |-> "disconnect"]]
    BY DEF PageLeaves
<1> DEFINE r == [i \in DOMAIN q |-> [from |-> q[i], type |-> "disconnect"]]
<1>2. watch' = [w \in Watches |-> IF watch[w] = "unborn" THEN "unborn" ELSE "over"]
    BY DEF PageLeaves
<1>3. Cardinality(S) \in Nat
    BY WatchesAssumption, FS_Subset, FS_CardinalityType
<1>4. q \in [1 .. Cardinality(S) -> S]
    BY <1>1 DEF Orders
<1>5. \A w \in S : w \in Watches /\ watch'[w] = "over"
    BY <1>2 DEF Listening
<1> HIDE DEF S
<1>6. LastWords(r)
    <2>1. r \in [1 .. Cardinality(S) -> UpMessages]
        BY <1>4, <1>5 DEF UpMessages
    <2>2. r \in Seq(UpMessages)
        BY <1>3, <2>1
    <2>3. \A i \in DOMAIN r : r[i].type = "disconnect" /\ watch'[r[i].from] = "over"
        BY <1>4, <1>5
    <2> QED BY <2>2, <2>3 DEF LastWords, LastTypes
<1>7. LastWords(stop)
    <2>1. CASE Stoppable
        <3>1. activeWatch \in Watches /\ watch'[activeWatch] = "over"
            BY <1>2, <2>1 DEF Stoppable, TypeOK, Listening
        <3> QED BY <2>1, <3>1, StopTypes
    <2> QED BY <2>1, NoWords
<1> HIDE DEF r, stop
<1>8. up' = up \o (stop \o r) /\ LastWords(stop \o r)
    <2>1. up' = (up \o stop) \o r
        BY <1>1 DEF r
    <2>2. stop \in Seq(UpMessages) /\ r \in Seq(UpMessages)
        BY <1>6, <1>7 DEF LastWords
    <2>3. up' = up \o (stop \o r)
        BY <2>1, <2>2, Associates
    <2>4. LastWords(stop \o r)
        BY <1>6, <1>7, MoreWords
    <2> QED BY <2>3, <2>4
<1>9. Onward /\ \A v \in Watches : watch'[v] \in Listening => watch[v] \in Listening
    BY <1>2 DEF Onward, TypeOK, Listening
<1>10. PageTypes
    BY <1>2 DEF PageLeaves, TypeOK, PageTypes
<1> QED BY <1>8, <1>9, <1>10 DEF PageLeaves, Quietly

LEMMA ReceiveQuiet == ASSUME TypeOK, NEW w \in Watches, Receive(w) PROVE Quietly
<1> DEFINE m == Head(down[w])
<1>1. down[w] \in Seq(DownMessages) /\ down[w] # <<>>
    BY DEF Receive, TypeOK
<1>2. m \in DownMessages /\ Tail(down[w]) \in Seq(DownMessages)
    BY <1>1
<1>3. m.type \in Verdicts \cup {"canceled"} => m \in Results
    BY <1>2 DEF DownMessages, Results
<1> DEFINE takes == down' = [down EXCEPT ![w] = Tail(@)]
           takesAnswer == answers' = [answers EXCEPT ![w] = @ \cup {m}]
<1> HIDE DEF m
<1>4. /\ takes => down' \in [Watches -> Seq(DownMessages)]
      /\ m \in Results /\ takesAnswer => answers' \in [Watches -> SUBSET Results]
    <2>1. takes => down' \in [Watches -> Seq(DownMessages)]
        BY <1>2 DEF TypeOK
    <2>2. m \in Results => answers[w] \cup {m} \in SUBSET Results
        BY DEF TypeOK
    <2>3. m \in Results /\ takesAnswer => answers' \in [Watches -> SUBSET Results]
        BY <2>2 DEF TypeOK
    <2> QED BY <2>1, <2>3
<1> HIDE DEF takes, takesAnswer
<1>5. CASE /\ m.type = "started"
           /\ known' = known \cup {w}
           /\ takes
           /\ UNCHANGED <<watch, up, activeWatch, answers>>
    <2>1. PageTypes
        BY <1>4, <1>5 DEF Receive, TypeOK, PageTypes
    <2> QED BY <1>5, <2>1, NoWords, NothingSaid DEF Receive, Quietly, Onward
<1>6. CASE /\ m.type \in Verdicts \cup {"canceled"}
           /\ watch[w] = "filling"
           /\ takes
           /\ UNCHANGED <<watch, known, up, activeWatch, answers>>
    <2>1. PageTypes
        BY <1>4, <1>6 DEF Receive, TypeOK, PageTypes
    <2> QED BY <1>6, <2>1, NoWords, NothingSaid DEF Receive, Quietly, Onward
<1>7. CASE /\ m.type = "filled"
           /\ watch[w] = "open"
           /\ watch' = [watch EXCEPT ![w] = "filling"]
           /\ takes
           /\ takesAnswer
           /\ UNCHANGED <<known, up, activeWatch>>
    <2>1. m \in Results
        BY <1>3, <1>7 DEF Verdicts
    <2>2. Onward /\ \A v \in Watches : watch'[v] \in Listening => watch[v] \in Listening
        BY <1>7 DEF Onward, TypeOK, Listening
    <2>3. watch' \in [Watches -> {"unborn", "checking", "over"} \cup Listening]
        BY <1>7 DEF TypeOK, Listening
    <2>4. PageTypes
        BY <1>4, <1>7, <2>1, <2>3 DEF Receive, TypeOK, PageTypes
    <2> QED BY <1>7, <2>2, <2>4, NoWords, NothingSaid DEF Receive, Quietly
<1>8. CASE /\ m.type \in {"timedout", "canceled"}
           /\ watch[w] = "open"
           /\ Cleanup(w, <<>>)
           /\ Forgets(w)
           /\ takesAnswer
    <2>1. m \in Results
        BY <1>3, <1>8 DEF Verdicts
    <2>2. answers' \in [Watches -> SUBSET Results] /\ activeWatch' \in Watches \cup {None}
        BY <1>4, <1>8, <2>1 DEF Forgets, TypeOK
    <2> QED BY <1>8, <2>2, CleanedQuiet DEF Receive
<1>9. CASE /\ m.type = "gone"
           /\ PortGone(w)
           /\ down' = [down EXCEPT ![w] = <<>>]
           /\ UNCHANGED <<up, answers>>
    <2>1. Onward /\ \A v \in Watches : watch'[v] \in Listening => watch[v] \in Listening
        BY <1>9 DEF PortGone, Onward, TypeOK, Listening
    <2>2. watch' \in [Watches -> {"unborn", "checking", "over"} \cup Listening]
        BY <1>9 DEF PortGone, TypeOK
    <2>3. PageTypes
        BY <1>9, <2>2 DEF Receive, PortGone, Forgets, TypeOK, PageTypes
    <2> QED BY <1>9, <2>1, <2>3, NoWords, NothingSaid DEF Receive, Quietly
<1> QED BY <1>5, <1>6, <1>7, <1>8, <1>9 DEF Receive, m, takes, takesAnswer

LEMMA FromWatches ==
    ASSUME TypeOK
    PROVE  \A i \in DOMAIN up : up[i] \in UpMessages /\ up[i].from \in Watches
<1>1. up \in Seq(UpMessages)
    BY DEF TypeOK
<1>2. \A i \in DOMAIN up : up[i] \in UpMessages
    BY <1>1
<1> QED BY <1>2 DEF UpMessages

LEMMA QuietKept == ASSUME Kept, Quietly PROVE Kept'
<1> USE DEF Kept
<1>1. PICK q : LastWords(q) /\ up' = up \o q
    BY DEF Quietly
<1>2. up \in Seq(UpMessages) /\ q \in Seq(UpMessages)
    BY <1>1 DEF TypeOK, LastWords
<1>3. /\ up' \in Seq(UpMessages)
      /\ \A i \in DOMAIN up' :
            \/ i \in DOMAIN up /\ up'[i] = up[i]
            \/ up'[i].type \in LastTypes /\ watch'[up'[i].from] = "over"
    <2>1. /\ up' \in Seq(UpMessages)
          /\ \A i \in DOMAIN up : up'[i] = up[i]
          /\ \A i \in DOMAIN up' :
                i \in DOMAIN up \/ (i - Len(up) \in DOMAIN q /\ up'[i] = q[i - Len(up)])
        BY <1>1, <1>2, Concat
    <2> QED BY <1>1, <2>1 DEF LastWords
<1>4. UNCHANGED <<sent, attached, port, sessionId, sessionContexts, starting, sessions,
                  status, deciding, cancels, orphaned, crashes>>
    BY DEF Quietly, context, controller
<1>5. TypeOK'
    BY <1>3, <1>4 DEF TypeOK, Quietly, PageTypes
<1>6. Origins'
    <2>1. \A i \in DOMAIN up : up[i].from \in Watches
        BY FromWatches
    <2>2. ASSUME NEW i \in DOMAIN up'
          PROVE  /\ watch'[up'[i].from] # "unborn"
                 /\ up'[i].type \in {"STOP_SESSION", "disconnect"} => watch'[up'[i].from] = "over"
        <3>1. CASE i \in DOMAIN up /\ up'[i] = up[i]
            BY <2>1, <3>1 DEF Origins, Quietly, Onward
        <3> QED BY <1>3, <3>1
    <2>3. \A w \in sent' : watch'[w] # "unborn"
        BY <1>4 DEF Origins, Quietly, Onward, TypeOK
    <2> QED BY <1>4, <2>2, <2>3 DEF Origins
<1>7. OneStart'
    BY <1>3, <1>4 DEF OneStart, LastTypes
<1>8. Begun'
    <2>1. \A c \in cancels : c.by \in Watches
        BY DEF TypeOK, CancelOps
    <2> QED BY <1>4, <2>1 DEF Begun, Created, Quietly, Onward
<1> QED BY <1>5, <1>6, <1>7, <1>8

LEMMA QuietServing == ASSUME Kept, Serving, Quietly PROVE Serving'
<1>1. PICK q : LastWords(q) /\ up' = up \o q
    BY DEF Quietly
<1>2. up \in Seq(UpMessages) /\ q \in Seq(UpMessages)
    BY <1>1 DEF Kept, TypeOK, LastWords
<1>3. /\ up' \in Seq(UpMessages) /\ Len(up) \in Nat /\ Len(up') \in Nat /\ Len(up) <= Len(up')
      /\ \A i \in DOMAIN up : up'[i] = up[i]
      /\ \A i \in DOMAIN up' : i \in DOMAIN up \/ up'[i].type \in LastTypes
      /\ DOMAIN up = 1 .. Len(up) /\ DOMAIN up' = 1 .. Len(up')
    <2>1. /\ up' \in Seq(UpMessages)
          /\ Len(up') = Len(up) + Len(q)
          /\ \A i \in DOMAIN up : up'[i] = up[i]
          /\ \A i \in DOMAIN up' :
                i \in DOMAIN up \/ (i - Len(up) \in DOMAIN q /\ up'[i] = q[i - Len(up)])
        BY <1>1, <1>2, Concat
    <2>2. Len(q) \in Nat /\ Len(up) \in Nat /\ DOMAIN up = 1 .. Len(up) /\ DOMAIN up' = 1 .. Len(up')
        BY <1>2, <2>1
    <2> QED BY <1>1, <2>1, <2>2 DEF LastWords
<1>4. UNCHANGED <<port, sessionContexts, starting, status, deciding>>
    BY DEF Quietly, context, controller
<1> SUFFICES ASSUME NEW s \in Watches, Lasting(s)' PROVE Served(s)'
    BY DEF Serving
<1>5. Lasting(s)
    BY DEF Lasting, Alone, Quietly, Onward
<1>6. Served(s)
    BY <1>5 DEF Serving
<1>7. \A n \in 0 .. Len(up) : Reached(s, n) => Reached(s, n)'
    BY <1>3, <1>4 DEF Reached
<1>8. Reached(s, Len(up)) => Reached(s, Len(up))'
    BY <1>3, <1>4 DEF Reached
<1>9. watch'[s] \in Listening => Reached(s, Len(up))'
    BY <1>6, <1>8 DEF Served, Quietly
<1>10. ASSUME NEW i \in DOMAIN up', up'[i] = [from |-> s, type |-> "START_SESSION"]
       PROVE  Reached(s, i - 1)'
    BY <1>3, <1>6, <1>7, <1>10 DEF Served, LastTypes
<1> QED BY <1>4, <1>6, <1>9, <1>10 DEF Served

LEMMA QuietFallback == ASSUME Kept, FallbackJustified, Quietly PROVE FallbackJustified'
<1>1. \A m \in orphaned : m.sid \in Watches
    BY DEF Kept, TypeOK, Results
<1> QED BY <1>1 DEF FallbackJustified, Alone, Quietly, Onward

-----------------------------------------------------------------------------
(***************************************************************************)
(* Connecting and starting.                                                *)
(***************************************************************************)
LEMMA PostsOne ==
    ASSUME TypeOK, NEW w \in Watches, NEW type \in UpTypes, up' = up \o Says(w, type)
    PROVE  /\ up' \in Seq(UpMessages) /\ Len(up) \in Nat
           /\ DOMAIN up = 1 .. Len(up)
           /\ Len(up') = Len(up) + 1 /\ DOMAIN up' = 1 .. Len(up) + 1
           /\ \A i \in DOMAIN up : up'[i] = up[i]
           /\ up'[Len(up) + 1] = [from |-> w, type |-> type]
<1>1. up \in Seq(UpMessages)
    BY DEF TypeOK
<1>2. Says(w, type) = <<[from |-> w, type |-> type]>>
    BY DEF Says
<1>3. [from |-> w, type |-> type] \in UpMessages
    BY DEF UpMessages, UpTypes
<1> QED BY <1>1, <1>2, <1>3

LEMMA ConnectsStep == ASSUME PortInv, NEW w \in Watches, Connects(w) PROVE PortInv'
<1> USE DEF PortInv, Kept
<1>1. /\ watch[w] = "checking" /\ watch' = [watch EXCEPT ![w] = "open"]
      /\ UNCHANGED <<sent, known, activeWatch, answers, down, attached, port, sessionId,
                     sessionContexts, starting, sessions, status, deciding, cancels,
                     orphaned, crashes>>
    BY DEF Connects, context, controller
<1>2. /\ up' \in Seq(UpMessages) /\ Len(up) \in Nat
      /\ DOMAIN up = 1 .. Len(up)
      /\ Len(up') = Len(up) + 1 /\ DOMAIN up' = 1 .. Len(up) + 1
      /\ \A i \in DOMAIN up : up'[i] = up[i]
      /\ up'[Len(up) + 1] = [from |-> w, type |-> "connect"]
    BY PostsOne DEF Connects, UpTypes
<1>3. \A v \in Watches : /\ watch'[v] = "over" <=> watch[v] = "over"
                         /\ watch'[v] = "unborn" <=> watch[v] = "unborn"
                         /\ v # w => watch'[v] = watch[v]
    BY <1>1 DEF TypeOK
<1>4. \A i \in DOMAIN up : up[i].from \in Watches
    BY FromWatches
<1>5. TypeOK'
    <2>1. watch' \in [Watches -> {"unborn", "checking", "over"} \cup Listening]
        BY <1>1 DEF TypeOK, Listening
    <2> QED BY <1>1, <1>2, <2>1 DEF TypeOK
<1>6. Origins'
    <2>1. ASSUME NEW i \in DOMAIN up'
          PROVE  /\ watch'[up'[i].from] # "unborn"
                 /\ up'[i].type \in {"STOP_SESSION", "disconnect"} => watch'[up'[i].from] = "over"
        <3>1. CASE i \in DOMAIN up
            BY <1>2, <1>3, <1>4, <3>1 DEF Origins
        <3>2. CASE i = Len(up) + 1
            BY <1>1, <1>2, <1>3, <3>2
        <3> QED BY <1>2, <3>1, <3>2
    <2>2. \A v \in sent' : watch'[v] # "unborn"
        BY <1>1, <1>3 DEF Origins, TypeOK
    <2> QED BY <1>1, <2>1, <2>2 DEF Origins
<1>7. OneStart'
    BY <1>1, <1>2 DEF OneStart
<1>8. Begun'
    <2>1. \A c \in cancels : c.by \in Watches
        BY DEF TypeOK, CancelOps
    <2> QED BY <1>1, <1>3, <2>1 DEF Begun, Created
<1>9. ASSUME NEW s \in Watches, Lasting(s)' PROVE Served(s)'
    <2>1. Served(s)
        BY <1>3, <1>9 DEF Lasting, Alone, Serving
    <2>2. \A n \in 0 .. Len(up) : Reached(s, n) => Reached(s, n)'
        BY <1>1, <1>2 DEF Reached
    <2>3. watch'[s] \in Listening => Reached(s, Len(up))'
        <3>1. CASE s = w
            BY <1>2, <3>1 DEF Reached
        <3>2. CASE s # w
            BY <1>1, <1>2, <1>3, <2>1, <3>2 DEF Reached, Served
        <3> QED BY <3>1, <3>2
    <2>4. ASSUME NEW i \in DOMAIN up', up'[i] = [from |-> s, type |-> "START_SESSION"]
          PROVE  Reached(s, i - 1)'
        BY <1>2, <2>1, <2>2, <2>4 DEF Served
    <2> QED BY <1>1, <2>1, <2>3, <2>4 DEF Served
<1>10. FallbackJustified'
    <2>1. \A m \in orphaned : m.sid \in Watches
        BY DEF TypeOK, Results
    <2> QED BY <1>1, <1>3, <2>1 DEF FallbackJustified, Alone
<1> QED BY <1>5, <1>6, <1>7, <1>8, <1>9, <1>10 DEF Serving

LEMMA SettingsLoadedStep == ASSUME PortInv, NEW w \in Watches, SettingsLoaded(w) PROVE PortInv'
<1> USE DEF PortInv, Kept
<1>1. /\ watch[w] \in Listening /\ w \notin sent /\ sent' = sent \cup {w}
      /\ UNCHANGED <<watch, known, activeWatch, answers, down, attached, port, sessionId,
                     sessionContexts, starting, sessions, status, deciding, cancels,
                     orphaned, crashes>>
    BY DEF SettingsLoaded, context, controller
<1>2. /\ up' \in Seq(UpMessages) /\ Len(up) \in Nat
      /\ DOMAIN up = 1 .. Len(up)
      /\ Len(up') = Len(up) + 1 /\ DOMAIN up' = 1 .. Len(up) + 1
      /\ \A i \in DOMAIN up : up'[i] = up[i]
      /\ up'[Len(up) + 1] = [from |-> w, type |-> "START_SESSION"]
    BY PostsOne DEF SettingsLoaded, UpTypes
<1>3. starting[w] = "no"
    BY <1>1 DEF Origins
<1>4. TypeOK'
    BY <1>1, <1>2 DEF TypeOK
<1>5. Origins'
    BY <1>1, <1>2 DEF Origins, Listening
<1>6. OneStart'
    <2>1. \A i \in DOMAIN up : up[i].type = "START_SESSION" => up[i].from # w
        BY <1>1 DEF OneStart
    <2> SUFFICES ASSUME NEW i \in DOMAIN up', up'[i].type = "START_SESSION"
                 PROVE  /\ up'[i].from \in sent' /\ starting'[up'[i].from] = "no"
                        /\ \A j \in DOMAIN up' : up'[j] = up'[i] => j = i
        BY DEF OneStart
    <2>2. CASE i \in DOMAIN up
        BY <1>1, <1>2, <2>1, <2>2 DEF OneStart
    <2>3. CASE i = Len(up) + 1
        BY <1>1, <1>2, <1>3, <2>1, <2>3
    <2> QED BY <1>2, <2>2, <2>3
<1>7. Begun'
    BY <1>1 DEF Begun, Created
<1>8. ASSUME NEW s \in Watches, Lasting(s)' PROVE Served(s)'
    <2>1. Served(s)
        BY <1>1, <1>8 DEF Lasting, Alone, Serving
    <2>2. \A n \in 0 .. Len(up) : Reached(s, n) => Reached(s, n)'
        BY <1>1, <1>2 DEF Reached
    <2>3. watch'[s] \in Listening => Reached(s, Len(up))'
        BY <1>1, <1>2, <2>1 DEF Reached, Served
    <2>4. ASSUME NEW i \in DOMAIN up', up'[i] = [from |-> s, type |-> "START_SESSION"]
          PROVE  Reached(s, i - 1)'
        <3>1. CASE i \in DOMAIN up
            BY <1>2, <2>1, <2>2, <2>4, <3>1 DEF Served
        <3>2. CASE i = Len(up) + 1
            <4>1. s = w /\ i - 1 = Len(up) /\ Len(up) \in 0 .. Len(up)
                BY <1>2, <2>4, <3>2
            <4>2. Reached(s, i - 1)
                BY <1>1, <2>1, <4>1 DEF Served
            <4> QED BY <2>2, <4>1, <4>2
        <3> QED BY <1>2, <3>1, <3>2
    <2> QED BY <1>1, <2>1, <2>3, <2>4 DEF Served
<1>9. FallbackJustified'
    BY <1>1 DEF FallbackJustified, Alone
<1> QED BY <1>4, <1>5, <1>6, <1>7, <1>8, <1>9 DEF Serving

-----------------------------------------------------------------------------
(***************************************************************************)
(* The worker's steps: the page stays as it is.                            *)
(***************************************************************************)
LEMMA TakenKeeps ==
    ASSUME Kept, NEW w, NEW type, Takes(w, type), UNCHANGED page
    PROVE  /\ up' \in Seq(UpMessages)
           /\ \A i \in DOMAIN up' :
                 /\ watch'[up'[i].from] # "unborn"
                 /\ up'[i].type \in {"STOP_SESSION", "disconnect"} => watch'[up'[i].from] = "over"
           /\ \A i \in DOMAIN up' : up'[i].type = "START_SESSION" =>
                 /\ up'[i].from \in sent' /\ starting[up'[i].from] = "no"
                 /\ type = "START_SESSION" => up'[i].from # w
                 /\ \A j \in DOMAIN up' : up'[j] = up'[i] => j = i
<1> USE DEF Kept
<1>1. PICK k \in DOMAIN up :
              /\ up[k] = [from |-> w, type |-> type]
              /\ up' \in Seq(UpMessages)
              /\ DOMAIN up' = 1 .. Len(up) - 1
              /\ \A n \in DOMAIN up' : up'[n] = up[IF n < k THEN n ELSE n + 1]
    BY TakenOut
<1> DEFINE was(n) == IF n < k THEN n ELSE n + 1
<1>2. DOMAIN up = 1 .. Len(up) /\ Len(up) \in Nat
    BY DEF TypeOK
<1>3. \A n \in DOMAIN up' : was(n) \in DOMAIN up /\ was(n) # k /\ up'[n] = up[was(n)]
    BY <1>1, <1>2
<1>4. \A m, n \in DOMAIN up' : was(m) = was(n) => m = n
    BY <1>1, <1>2
<1> HIDE DEF was
<1>5. UNCHANGED <<watch, sent>>
    BY DEF page
<1>6. ASSUME NEW i \in DOMAIN up'
      PROVE  /\ watch'[up'[i].from] # "unborn"
             /\ up'[i].type \in {"STOP_SESSION", "disconnect"} => watch'[up'[i].from] = "over"
    BY <1>3, <1>5 DEF Origins
<1>7. ASSUME NEW i \in DOMAIN up', up'[i].type = "START_SESSION"
      PROVE  /\ up'[i].from \in sent' /\ starting[up'[i].from] = "no"
             /\ type = "START_SESSION" => up'[i].from # w
             /\ \A j \in DOMAIN up' : up'[j] = up'[i] => j = i
    <2>1. was(i) \in DOMAIN up /\ was(i) # k /\ up'[i] = up[was(i)]
        BY <1>3
    <2>2. /\ up'[i].from \in sent' /\ starting[up'[i].from] = "no"
          /\ \A j \in DOMAIN up : up[j] = up[was(i)] => j = was(i)
        BY <1>5, <1>7, <2>1 DEF OneStart
    <2>3. up[k] # up[was(i)]
        BY <2>1, <2>2
    <2>4. up'[i] \in UpMessages
        BY <2>1, FromWatches
    <2>5. type = "START_SESSION" => up'[i].from # w
        BY <1>1, <1>7, <2>1, <2>3, <2>4 DEF UpMessages
    <2>6. \A j \in DOMAIN up' : up'[j] = up'[i] => j = i
        BY <1>3, <1>4, <2>1, <2>2
    <2> QED BY <2>2, <2>5, <2>6
<1> QED BY <1>1, <1>6, <1>7

\* Under a lasting watch every message, handler and session is its own, and
\* nothing is being canceled.
LEMMA LastingAlone ==
    ASSUME Kept, NEW s \in Watches, Lasting(s)
    PROVE  /\ \A i \in DOMAIN up : up[i].from = s /\ up[i].type \notin LastTypes
           /\ \A w \in Watches : starting[w] # "no" => w = s
           /\ sessions \subseteq {s} /\ deciding \subseteq {s}
           /\ cancels = {}
<1> USE DEF Kept
<1>1. \A w \in Watches : w # s => watch[w] = "unborn"
    BY DEF Lasting, Alone
<1>2. \A i \in DOMAIN up : up[i].from = s /\ up[i].type \notin LastTypes
    BY <1>1, FromWatches DEF Origins, Lasting, LastTypes
<1>3. \A w \in Watches : starting[w] # "no" => w = s
    BY <1>1 DEF Origins
<1>4. Created \subseteq {s}
    BY <1>3 DEF Created
<1>5. sessions \subseteq {s} /\ deciding \subseteq {s}
    BY <1>3, <1>4 DEF Begun, TypeOK
<1>6. ASSUME NEW c \in cancels PROVE FALSE
    <2>1. c.sid = s /\ c.by \in Watches
        BY <1>4 DEF Begun, TypeOK, CancelOps
    <2>2. watch[c.by] # "unborn" => c.by = s
        BY <1>1, <2>1
    <2>3. c.kind = "start" => c.by # s /\ starting[c.by] # "no"
        BY <2>1 DEF Begun
    <2>4. c.kind = "start"
        BY <2>2 DEF Begun, Lasting
    <2> QED BY <1>3, <2>1, <2>3, <2>4
<1> QED BY <1>2, <1>3, <1>5, <1>6

\* A message is taken after those the same watch posted before it.
LEMMA TakenServed ==
    ASSUME Kept, NEW s \in Watches, Lasting(s), Served(s), NEW w, NEW type, Takes(w, type),
           UNCHANGED page, port' = port \/ port' = s, type = "connect" => port' = s
    PROVE  /\ w = s /\ type \notin LastTypes
           /\ type = "START_SESSION" => port = s
           /\ watch'[s] \in Listening => Reached(s, Len(up))'
           /\ \A i \in DOMAIN up' :
                 up'[i] = [from |-> s, type |-> "START_SESSION"] => Reached(s, i - 1)'
<1> USE DEF Kept
<1>1. PICK k \in DOMAIN up :
              /\ up[k] = [from |-> w, type |-> type]
              /\ \A j \in 1 .. k - 1 : up[j].from # w
              /\ up' \in Seq(UpMessages)
              /\ DOMAIN up' = 1 .. Len(up) - 1
              /\ \A n \in DOMAIN up' : up'[n] = up[IF n < k THEN n ELSE n + 1]
    BY TakenOut
<1>2. DOMAIN up = 1 .. Len(up) /\ Len(up) \in Nat /\ Len(up') = Len(up) - 1
    <2>1. up \in Seq(UpMessages)
        BY DEF TypeOK
    <2> QED BY <1>1, <2>1
<1>3. w = s /\ type \notin LastTypes
    BY <1>1, LastingAlone
<1>4. ASSUME type = "START_SESSION" PROVE port = s
    <2>1. Reached(s, k - 1)
        BY <1>1, <1>3, <1>4 DEF Served
    <2>2. \A j \in 1 .. k - 1 : up[j] # [from |-> s, type |-> "connect"]
        BY <1>1, <1>3
    <2> QED BY <2>1, <2>2 DEF Reached
<1>5. ASSUME NEW m \in 0 .. Len(up), NEW n \in 0 .. Len(up'), Reached(s, m), n >= m \/ m > k,
             n >= m - 1
      PROVE  Reached(s, n)'
    <2>1. CASE port = s \/ port' = s
        BY <2>1 DEF Reached
    <2>2. CASE port' # s /\ \E j \in 1 .. m : up[j] = [from |-> s, type |-> "connect"]
        <3>1. PICK j \in 1 .. m : up[j] = [from |-> s, type |-> "connect"]
            BY <2>2
        <3>2. j # k
            BY <1>1, <2>2, <3>1
        <3>3. CASE j < k
            <4>1. j \in 1 .. n /\ j \in DOMAIN up'
                BY <1>1, <1>2, <1>5, <3>3
            <4> QED BY <1>1, <3>1, <3>3, <4>1 DEF Reached
        <3>4. CASE j > k
            <4>1. j - 1 \in 1 .. n /\ j - 1 \in DOMAIN up' /\ ~ (j - 1 < k) /\ (j - 1) + 1 = j
                BY <1>1, <1>2, <1>5, <3>4
            <4>2. up'[j - 1] = up[j]
                BY <1>1, <4>1
            <4> QED BY <3>1, <4>1, <4>2 DEF Reached
        <3> QED BY <1>2, <3>2, <3>3, <3>4
    <2> QED BY <1>5, <2>1, <2>2 DEF Reached
<1>6. ASSUME watch'[s] \in Listening PROVE Reached(s, Len(up))'
    <2>1. Reached(s, Len(up))
        BY <1>6 DEF Served, page
    <2>l. Len(up) \in Nat
        BY <1>2
    <2>n. PICK n : n = Len(up) - 1
        OBVIOUS
    <2>2. Reached(s, n)'
        <3>1. CASE k = Len(up)
            <4>1. CASE port = s \/ port' = s
                BY <4>1 DEF Reached
            <4>2. CASE port # s /\ port' # s
                <5>1. PICK j \in 1 .. Len(up) : up[j] = [from |-> s, type |-> "connect"]
                    BY <2>1, <4>2 DEF Reached
                <5>2. j # k
                    BY <1>1, <4>2, <5>1
                <5>3. j \in 1 .. k - 1
                    BY <2>l, <3>1, <5>1, <5>2
                <5> QED BY <1>1, <1>3, <5>1, <5>3
            <4> QED BY <4>1, <4>2
        <3>2. CASE k # Len(up)
            <4>1. Len(up) \in 0 .. Len(up) /\ n \in 0 .. Len(up') /\ Len(up) > k /\ n >= Len(up) - 1
                BY <1>2, <2>n, <3>2
            <4> QED BY <1>5, <2>1, <4>1
        <3> QED BY <3>1, <3>2
    <2>3. Len(up') = n
        BY <1>2, <2>n
    <2> QED BY <2>2, <2>3 DEF Reached
<1>7. ASSUME NEW i \in DOMAIN up', up'[i] = [from |-> s, type |-> "START_SESSION"]
      PROVE  Reached(s, i - 1)'
    <2>1. CASE i < k
        <3>1. up[i] = [from |-> s, type |-> "START_SESSION"] /\ i \in DOMAIN up
            BY <1>1, <1>2, <1>7, <2>1
        <3>2. Reached(s, i - 1)
            BY <3>1 DEF Served
        <3>3. i - 1 \in 0 .. Len(up) /\ i - 1 \in 0 .. Len(up')
            BY <1>1, <1>2
        <3> QED BY <1>5, <3>2, <3>3
    <2>2. CASE ~ (i < k)
        <3>1. up[i + 1] = [from |-> s, type |-> "START_SESSION"] /\ i + 1 \in DOMAIN up
            BY <1>1, <1>2, <1>7, <2>2
        <3>2. Reached(s, i)
            <4>1. Reached(s, (i + 1) - 1)
                BY <3>1 DEF Served
            <4>2. (i + 1) - 1 = i
                BY <1>1
            <4> QED BY <4>1, <4>2
        <3>3. i \in 0 .. Len(up) /\ i - 1 \in 0 .. Len(up')
            BY <1>1, <1>2
        <3>4. CASE i > k
            BY <1>5, <3>2, <3>3, <3>4
        <3>5. CASE i = k
            <4>1. CASE port = s \/ port' = s
                BY <4>1 DEF Reached
            <4>2. CASE port # s /\ port' # s
                <5>1. PICK j \in 1 .. i : up[j] = [from |-> s, type |-> "connect"]
                    BY <3>2, <4>2 DEF Reached
                <5>2. j # k
                    BY <1>1, <4>2, <5>1
                <5>3. j \in 1 .. k - 1
                    BY <1>1, <1>2, <3>5, <5>2
                <5> QED BY <1>1, <1>3, <5>1, <5>3
            <4> QED BY <4>1, <4>2
        <3> QED BY <1>1, <1>2, <2>2, <3>4, <3>5
    <2> QED BY <2>1, <2>2
<1> QED BY <1>3, <1>4, <1>6, <1>7

LEMMA DeliverResult ==
    ASSUME TypeOK, NEW s \in Watches, NEW type \in Verdicts \cup {"canceled"}, Deliver(s, type)
    PROVE  /\ down' \in [Watches -> Seq(DownMessages)]
           /\ orphaned' \subseteq Results
           /\ \A m \in orphaned' :
                 m \in orphaned \/ (m.sid = s /\ ~ (s \in sessionContexts /\ port # None))
<1> DEFINE m == [type |-> type, sid |-> s]
<1>1. m \in Results /\ m \in DownMessages /\ m.sid = s
    BY DEF Results, DownMessages
<1> HIDE DEF m
<1>2. CASE s \in sessionContexts /\ port # None
    <2>1. down' = Delivered(port, m) /\ orphaned' = orphaned
        BY <1>2 DEF Deliver, m
    <2>2. port \in Watches
        BY <1>2 DEF TypeOK
    <2>3. Append(down[port], m) \in Seq(DownMessages)
        BY <1>1, <2>2 DEF TypeOK
    <2>4. down' \in [Watches -> Seq(DownMessages)]
        BY <2>1, <2>3 DEF Delivered, TypeOK
    <2> QED BY <2>1, <2>4 DEF TypeOK
<1>3. CASE ~ (s \in sessionContexts /\ port # None)
    <2>1. down' = down /\ orphaned' = orphaned \cup {m}
        BY <1>3 DEF Deliver, m
    <2> QED BY <1>1, <1>3, <2>1 DEF TypeOK
<1> QED BY <1>2, <1>3

LEMMA CancelBegins ==
    ASSUME Kept, NEW s, NEW kind \in {"start", "stop", "disconnect"}, NEW by \in Watches,
           BeginCancel(s, kind, by)
    PROVE  /\ s \in sessions /\ sessions' \subseteq sessions
           /\ status' \in [Watches -> {"none", "canceled"} \cup Running \cup Verdicts]
           /\ \A w \in Watches : status[w] \notin Running => status'[w] = status[w]
           /\ cancels' \subseteq CancelOps
           /\ \A c \in cancels' : c \in cancels \/ (c.sid = s /\ c.kind = kind /\ c.by = by)
<1> USE DEF Kept
<1>1. s \in sessions /\ s \in Watches
    BY DEF BeginCancel, TypeOK
<1>2. /\ status' \in [Watches -> {"none", "canceled"} \cup Running \cup Verdicts]
      /\ \A w \in Watches : status[w] \notin Running => status'[w] = status[w]
    <2>1. status' = IF status[s] \in Running THEN [status EXCEPT ![s] = "canceled"] ELSE status
        BY DEF BeginCancel
    <2> QED BY <1>1, <2>1 DEF TypeOK, Running
<1>3. PICK step \in {"closing", "saving"} :
         cancels' = cancels \cup {[sid |-> s, kind |-> kind, by |-> by, at |-> step]}
    BY DEF BeginCancel
<1>4. [sid |-> s, kind |-> kind, by |-> by, at |-> step] \in CancelOps
    BY <1>1 DEF CancelOps
<1>5. sessions' \subseteq sessions
    BY DEF BeginCancel
<1> QED BY <1>1, <1>2, <1>3, <1>4, <1>5 DEF TypeOK

\* What the controller's own steps keep, when no handler is set back.
LEMMA BegunKept ==
    ASSUME Kept, UNCHANGED <<watch, sent>>, Created \subseteq Created',
           \A w \in Watches : starting[w] # "no" => starting'[w] # "no",
           \A w \in Watches : starting[w] = "done" => starting'[w] = "done",
           \A w \in Watches : status[w] \notin Running => status'[w] = status[w] \/ w \notin Created,
           sessions' \subseteq Created', deciding' \subseteq deciding,
           \A c \in cancels' :
              \/ c \in cancels
              \/ /\ c.sid \in Created'
                 /\ c.kind = "start" => c.by # c.sid /\ starting'[c.by] # "no"
                 /\ c.kind # "start" => watch[c.by] = "over"
    PROVE  Begun'
<1> USE DEF Kept
<1>1. \A s \in deciding' : starting'[s] = "done" /\ status'[s] \in Verdicts
    BY DEF Begun, TypeOK, Created, Verdicts, Running
<1>2. \A c \in cancels : c.by \in Watches
    BY DEF TypeOK, CancelOps
<1> QED BY <1>1, <1>2 DEF Begun

LEMMA ConnectStep == ASSUME PortInv, NEW w \in Watches, ConnectArrives(w) PROVE PortInv'
<1> USE DEF PortInv
<1>1. /\ Takes(w, "connect") /\ attached' = attached \cup {w} /\ port' = w
      /\ UNCHANGED page
      /\ UNCHANGED <<watch, sent, known, activeWatch, answers, down, sessionId, sessionContexts,
                     starting, sessions, status, deciding, cancels, orphaned, crashes>>
    BY DEF ConnectArrives, page, controller
<1>2. /\ up' \in Seq(UpMessages)
      /\ Origins' /\ OneStart'
    BY <1>1, TakenKeeps DEF Kept, Origins, OneStart
<1>3. TypeOK'
    BY <1>1, <1>2 DEF Kept, TypeOK
<1>4. Begun'
    BY <1>1 DEF Kept, Begun, Created
<1>5. ASSUME NEW s \in Watches, Lasting(s)' PROVE Served(s)'
    <2>1. Lasting(s)
        BY <1>1, <1>5 DEF Lasting, Alone
    <2>2. Served(s)
        BY <2>1 DEF Serving
    <2>3. w = s
        BY <1>1, <2>1, LastingAlone, TakenOut DEF Kept
    <2>4. /\ watch'[s] \in Listening => Reached(s, Len(up))'
          /\ \A i \in DOMAIN up' :
                up'[i] = [from |-> s, type |-> "START_SESSION"] => Reached(s, i - 1)'
        BY <1>1, <2>1, <2>2, <2>3, TakenServed
    <2> QED BY <1>1, <2>2, <2>3, <2>4 DEF Served
<1>6. FallbackJustified'
    BY <1>1 DEF FallbackJustified, Alone
<1> QED BY <1>2, <1>3, <1>4, <1>5, <1>6 DEF Kept, Serving

\* startSession's loop, in a handler that has not created its session.
LEMMA ScanKept ==
    ASSUME PortInv, NEW w \in Watches, CancelsOrCreates(w), starting[w] \in {"no", "scanning"},
           UNCHANGED page, UNCHANGED <<down, context, deciding, orphaned, crashes>>,
           up' \in Seq(UpMessages), w \in sent,
           \A i \in DOMAIN up' :
              /\ watch[up'[i].from] # "unborn"
              /\ up'[i].type \in {"STOP_SESSION", "disconnect"} => watch[up'[i].from] = "over",
           \A i \in DOMAIN up' : up'[i].type = "START_SESSION" =>
              /\ up'[i].from \in sent /\ starting[up'[i].from] = "no" /\ up'[i].from # w
              /\ \A j \in DOMAIN up' : up'[j] = up'[i] => j = i,
           \A s \in Watches : Lasting(s) =>
              /\ w = s => port = s
              /\ watch[s] \in Listening => Reached(s, Len(up))'
              /\ \A i \in DOMAIN up' :
                    up'[i] = [from |-> s, type |-> "START_SESSION"] => Reached(s, i - 1)'
    PROVE  PortInv'
<1> USE DEF PortInv, Kept
<1>1. UNCHANGED <<watch, sent, known, activeWatch, answers, down, attached, port, sessionId,
                  sessionContexts, deciding, orphaned, crashes>>
    BY DEF page, context
<1>2. w \notin Created
    BY DEF Created
<1>3. /\ starting' \in [Watches -> {"no", "scanning", "saving", "done"}]
      /\ starting'[w] \in {"scanning", "saving"}
      /\ \A v \in Watches : v # w => starting'[v] = starting[v]
      /\ status' \in [Watches -> {"none", "canceled"} \cup Running \cup Verdicts]
      /\ \A v \in Watches : status[v] \notin Running => status'[v] = status[v] \/ v \notin Created
      /\ cancels' \subseteq CancelOps
      /\ \A c \in cancels' :
            c \in cancels \/ (c.sid \in sessions /\ c.kind = "start" /\ c.by = w)
      /\ sessions' \subseteq sessions \cup {v \in {w} : starting'[v] = "saving"}
    <2>1. ASSUME NEW e \in sessions, BeginCancel(e, "start", w),
                 starting' = [starting EXCEPT ![w] = "scanning"]
          PROVE  /\ sessions' \subseteq sessions
                 /\ status' \in [Watches -> {"none", "canceled"} \cup Running \cup Verdicts]
                 /\ \A v \in Watches : status[v] \notin Running => status'[v] = status[v]
                 /\ cancels' \subseteq CancelOps
                 /\ \A c \in cancels' :
                       c \in cancels \/ (c.sid \in sessions /\ c.kind = "start" /\ c.by = w)
        BY <2>1, CancelBegins
    <2>2. CASE /\ \E e \in sessions : Active(e) /\ BeginCancel(e, "start", w)
               /\ starting' = [starting EXCEPT ![w] = "scanning"]
        <3>1. PICK e \in sessions : BeginCancel(e, "start", w)
            BY <2>2
        <3>2. /\ starting' \in [Watches -> {"no", "scanning", "saving", "done"}]
              /\ starting'[w] = "scanning"
              /\ \A v \in Watches : v # w => starting'[v] = starting[v]
            BY <2>2 DEF TypeOK
        <3> QED BY <2>1, <2>2, <3>1, <3>2
    <2>3. CASE /\ sessions' = sessions \cup {w}
               /\ status' = [status EXCEPT ![w] = "active"]
               /\ starting' = [starting EXCEPT ![w] = "saving"]
               /\ UNCHANGED cancels
        <3>1. /\ starting' \in [Watches -> {"no", "scanning", "saving", "done"}]
              /\ starting'[w] = "saving"
              /\ \A v \in Watches : v # w => starting'[v] = starting[v]
            BY <2>3 DEF TypeOK
        <3>2. /\ status' \in [Watches -> {"none", "canceled"} \cup Running \cup Verdicts]
              /\ \A v \in Watches : v # w => status'[v] = status[v]
            BY <2>3 DEF TypeOK, Running
        <3> QED BY <1>2, <2>3, <3>1, <3>2 DEF TypeOK
    <2> QED BY <2>2, <2>3 DEF CancelsOrCreates
<1>4. \A v \in Watches : /\ starting[v] # "no" => starting'[v] # "no"
                         /\ starting[v] = "done" <=> starting'[v] = "done"
    BY <1>3
<1>5. Created \subseteq Created' /\ sessions' \subseteq Created'
    BY <1>2, <1>3 DEF Created, Begun
<1>6. \A c \in cancels' :
         \/ c \in cancels
         \/ /\ c.sid \in Created'
            /\ c.kind = "start" => c.by # c.sid /\ starting'[c.by] # "no"
            /\ c.kind # "start" => watch[c.by] = "over"
    <2> SUFFICES ASSUME NEW c \in cancels', c \notin cancels
                 PROVE  c.sid \in Created' /\ c.kind = "start" /\ c.by # c.sid
                           /\ starting'[c.by] # "no"
        OBVIOUS
    <2>1. c.sid \in sessions /\ c.kind = "start" /\ c.by = w
        BY <1>3
    <2>2. c.sid \in Created /\ starting'[w] # "no"
        BY <1>3, <2>1 DEF Begun
    <2> QED BY <1>2, <1>5, <2>1, <2>2
<1>7. Begun'
    BY <1>1, <1>3, <1>4, <1>5, <1>6, BegunKept
<1>8. TypeOK'
    <2>1. sessions' \subseteq Watches
        BY <1>5 DEF Created
    <2> QED BY <1>1, <1>3, <2>1 DEF TypeOK
<1>9. Origins'
    BY <1>1, <1>3 DEF Origins
<1>10. OneStart'
    <2> SUFFICES ASSUME NEW i \in DOMAIN up', up'[i].type = "START_SESSION"
                 PROVE  /\ up'[i].from \in sent' /\ starting'[up'[i].from] = "no"
                        /\ \A j \in DOMAIN up' : up'[j] = up'[i] => j = i
        BY DEF OneStart
    <2>1. up'[i].from \in Watches
        BY DEF TypeOK
    <2> QED BY <1>1, <1>3, <2>1
<1>11. ASSUME NEW s \in Watches, Lasting(s)' PROVE Served(s)'
    <2>1. Lasting(s)
        BY <1>1, <1>11 DEF Lasting, Alone
    <2>2. Served(s)
        BY <2>1 DEF Serving
    <2>3. starting'[s] # "no" => port' = s
        BY <1>1, <1>3, <2>1, <2>2 DEF Served
    <2>4. starting'[s] = "done" /\ (status'[s] \in Running \/ s \in deciding') => s \in sessionContexts'
        <3> SUFFICES ASSUME starting'[s] = "done", status'[s] \in Running \/ s \in deciding'
                     PROVE  s \in sessionContexts
            BY <1>1
        <3>1. starting[s] = "done" /\ s \in Created
            BY <1>4 DEF Created
        <3>2. status'[s] \in Running => status[s] \in Running
            BY <1>3, <3>1
        <3> QED BY <1>1, <2>2, <3>1, <3>2 DEF Served
    <2> QED BY <1>1, <2>1, <2>3, <2>4 DEF Served
<1>12. FallbackJustified'
    BY <1>1 DEF FallbackJustified, Alone
<1> QED BY <1>7, <1>8, <1>9, <1>10, <1>11, <1>12 DEF Serving

LEMMA StartStep ==
    ASSUME PortInv, NEW w \in Watches, StartArrives(w) \/ ScanResumes(w) PROVE PortInv'
<1> USE DEF PortInv, Kept
<1>1. /\ CancelsOrCreates(w) /\ UNCHANGED page
      /\ UNCHANGED <<down, context, deciding, orphaned, crashes>>
      /\ UNCHANGED <<watch, sent, port>>
    BY DEF StartArrives, ScanResumes, page, context
<1>2. CASE StartArrives(w)
    <2>1. Takes(w, "START_SESSION")
        BY <1>2 DEF StartArrives
    <2>2. /\ up' \in Seq(UpMessages)
          /\ \A i \in DOMAIN up' :
                /\ watch[up'[i].from] # "unborn"
                /\ up'[i].type \in {"STOP_SESSION", "disconnect"} => watch[up'[i].from] = "over"
          /\ \A i \in DOMAIN up' : up'[i].type = "START_SESSION" =>
                /\ up'[i].from \in sent /\ starting[up'[i].from] = "no" /\ up'[i].from # w
                /\ \A j \in DOMAIN up' : up'[j] = up'[i] => j = i
        BY <1>1, <2>1, TakenKeeps
    <2>3. w \in sent /\ starting[w] = "no"
        <3>1. PICK k \in DOMAIN up : up[k] = [from |-> w, type |-> "START_SESSION"]
            BY <2>1, TakenOut
        <3> QED BY <3>1 DEF OneStart
    <2>4. \A s \in Watches : Lasting(s) =>
              /\ w = s => port = s
              /\ watch[s] \in Listening => Reached(s, Len(up))'
              /\ \A i \in DOMAIN up' :
                    up'[i] = [from |-> s, type |-> "START_SESSION"] => Reached(s, i - 1)'
        <3> SUFFICES ASSUME NEW s \in Watches, Lasting(s)
                     PROVE  /\ w = s => port = s
                            /\ watch[s] \in Listening => Reached(s, Len(up))'
                            /\ \A i \in DOMAIN up' :
                                  up'[i] = [from |-> s, type |-> "START_SESSION"] => Reached(s, i - 1)'
            OBVIOUS
        <3>1. Served(s)
            BY DEF Serving
        <3> QED BY <1>1, <2>1, <3>1, TakenServed
    <2> QED BY <1>1, <2>2, <2>3, <2>4, ScanKept
<1>3. CASE ScanResumes(w)
    <2>1. starting[w] = "scanning" /\ up' = up
        BY <1>3 DEF ScanResumes
    <2>2. w \in sent /\ up \in Seq(UpMessages)
        BY <2>1 DEF Origins, TypeOK
    <2>3. \A i \in DOMAIN up' :
             /\ watch[up'[i].from] # "unborn"
             /\ up'[i].type \in {"STOP_SESSION", "disconnect"} => watch[up'[i].from] = "over"
        BY <2>1 DEF Origins
    <2>4. \A i \in DOMAIN up' : up'[i].type = "START_SESSION" =>
             /\ up'[i].from \in sent /\ starting[up'[i].from] = "no" /\ up'[i].from # w
             /\ \A j \in DOMAIN up' : up'[j] = up'[i] => j = i
        BY <2>1 DEF OneStart
    <2>5. \A s \in Watches : Lasting(s) =>
              /\ w = s => port = s
              /\ watch[s] \in Listening => Reached(s, Len(up))'
              /\ \A i \in DOMAIN up' :
                    up'[i] = [from |-> s, type |-> "START_SESSION"] => Reached(s, i - 1)'
        BY <1>1, <2>1 DEF Serving, Served, Reached
    <2> QED BY <1>1, <2>1, <2>2, <2>3, <2>4, <2>5, ScanKept
<1> QED BY <1>2, <1>3

LEMMA StartSavedStep == ASSUME PortInv, NEW w \in Watches, StartSaved(w) PROVE PortInv'
<1> USE DEF PortInv, Kept
<1>1. /\ starting[w] = "saving" /\ starting' = [starting EXCEPT ![w] = "done"]
      /\ sessionContexts' = (sessionContexts \ {sessionId}) \cup {w} /\ sessionId' = w
      /\ UNCHANGED <<watch, sent, known, activeWatch, answers, up, attached, port, sessions,
                     status, deciding, cancels, orphaned, crashes>>
    BY DEF StartSaved, ReplaceMapping, page
<1>2. /\ starting' \in [Watches -> {"no", "scanning", "saving", "done"}]
      /\ starting'[w] = "done" /\ \A v \in Watches : v # w => starting'[v] = starting[v]
    BY <1>1 DEF TypeOK
<1>3. down' \in [Watches -> Seq(DownMessages)]
    <2> DEFINE m == [type |-> "started", sid |-> w]
    <2>1. m \in DownMessages /\ down' = Delivered(w, m)
        BY DEF DownMessages, StartSaved
    <2> HIDE DEF m
    <2>2. Append(down[w], m) \in Seq(DownMessages)
        BY <2>1 DEF TypeOK
    <2> QED BY <2>1, <2>2 DEF Delivered, TypeOK
<1>4. TypeOK'
    BY <1>1, <1>2, <1>3 DEF TypeOK
<1>5. Origins'
    BY <1>1, <1>2 DEF Origins
<1>6. OneStart'
    BY <1>1, <1>2, FromWatches DEF OneStart
<1>7. Begun'
    <2>1. Created \subseteq Created'
        BY <1>1, <1>2 DEF Created
    <2>2. \A v \in Watches : starting[v] # "no" => starting'[v] # "no"
        BY <1>2
    <2>3. \A v \in Watches : starting[v] = "done" => starting'[v] = "done"
        BY <1>2
    <2>4. sessions' \subseteq Created'
        BY <1>1, <2>1 DEF Begun
    <2> QED BY <1>1, <2>1, <2>2, <2>3, <2>4, BegunKept
<1>8. ASSUME NEW s \in Watches, Lasting(s)' PROVE Served(s)'
    <2>1. Lasting(s)
        BY <1>1, <1>8 DEF Lasting, Alone
    <2>2. Served(s) /\ w = s
        BY <1>1, <2>1, LastingAlone DEF Serving
    <2>3. port' = s /\ s \in sessionContexts'
        BY <1>1, <2>2 DEF Served
    <2> QED BY <2>3 DEF Served, Reached
<1>9. FallbackJustified'
    BY <1>1 DEF FallbackJustified, Alone
<1> QED BY <1>4, <1>5, <1>6, <1>7, <1>8, <1>9 DEF Serving

\* STOP_SESSION and the disconnect of the tab's port come from watches that
\* are over.
LEMMA EndingStep ==
    ASSUME PortInv, NEW w \in Watches, StopArrives(w) \/ DisconnectArrives(w) PROVE PortInv'
<1> USE DEF PortInv, Kept
<1>1. PICK type \in LastTypes : Takes(w, type)
    BY DEF StopArrives, DisconnectArrives, LastTypes
<1>2. /\ UNCHANGED page
      /\ UNCHANGED <<watch, sent, known, activeWatch, answers, down, starting, deciding,
                     orphaned, crashes>>
    BY DEF StopArrives, DisconnectArrives, page
<1>3. watch[w] = "over"
    <2>1. PICK k \in DOMAIN up : up[k] = [from |-> w, type |-> type]
        BY <1>1, TakenOut
    <2> QED BY <2>1 DEF Origins, LastTypes
<1>4. up' \in Seq(UpMessages) /\ Origins' /\ OneStart'
    BY <1>1, <1>2, TakenKeeps DEF Origins, OneStart
<1>5. \/ \E kind \in {"stop", "disconnect"} : BeginCancel(sessionId, kind, w)
      \/ UNCHANGED <<sessions, status, cancels>>
    BY DEF StopArrives, DisconnectArrives
<1>6. /\ sessions' \subseteq sessions
      /\ status' \in [Watches -> {"none", "canceled"} \cup Running \cup Verdicts]
      /\ \A v \in Watches : status[v] \notin Running => status'[v] = status[v]
      /\ cancels' \subseteq CancelOps
      /\ \A c \in cancels' :
            c \in cancels \/ (c.sid \in sessions /\ c.kind # "start" /\ c.by = w)
    <2>1. CASE \E kind \in {"stop", "disconnect"} : BeginCancel(sessionId, kind, w)
        <3>1. PICK kind \in {"stop", "disconnect"} : BeginCancel(sessionId, kind, w)
            BY <2>1
        <3>2. kind \in {"start", "stop", "disconnect"} /\ kind # "start"
            BY <3>1
        <3>3. /\ sessionId \in sessions /\ sessions' \subseteq sessions
              /\ status' \in [Watches -> {"none", "canceled"} \cup Running \cup Verdicts]
              /\ \A v \in Watches : status[v] \notin Running => status'[v] = status[v]
              /\ cancels' \subseteq CancelOps
              /\ \A c \in cancels' :
                    c \in cancels \/ (c.sid = sessionId /\ c.kind = kind /\ c.by = w)
            BY <3>1, <3>2, CancelBegins
        <3> QED BY <3>2, <3>3
    <2> QED BY <1>5, <2>1 DEF TypeOK
<1>7. Begun'
    <2>1. Created' = Created
        BY <1>2 DEF Created
    <2>2. \A c \in cancels' :
             \/ c \in cancels
             \/ /\ c.sid \in Created'
                /\ c.kind = "start" => c.by # c.sid /\ starting'[c.by] # "no"
                /\ c.kind # "start" => watch[c.by] = "over"
        BY <1>3, <1>6, <2>1 DEF Begun
    <2>3. sessions' \subseteq Created'
        BY <1>6, <2>1 DEF Begun
    <2> QED BY <1>2, <1>6, <2>1, <2>2, <2>3, BegunKept
<1>8. /\ attached' \subseteq Watches /\ port' \in Watches \cup {None}
      /\ sessionId' \in Watches \cup {None} /\ sessionContexts' \subseteq Watches
    BY DEF StopArrives, DisconnectArrives, DropPort, TypeOK
<1>9. TypeOK'
    BY <1>2, <1>4, <1>6, <1>8 DEF TypeOK
<1>10. ASSUME NEW s \in Watches, Lasting(s)' PROVE FALSE
    <2>1. Lasting(s)
        BY <1>2, <1>10 DEF Lasting, Alone
    <2> QED BY <1>3, <2>1, WatchesAssumption DEF Lasting, Alone
<1>11. FallbackJustified'
    BY <1>2 DEF FallbackJustified, Alone
<1> QED BY <1>4, <1>7, <1>9, <1>10, <1>11 DEF Serving

\* A result that finds no port in the context belongs to a session whose watch
\* is over or not alone.
LEMMA DeliveredJustified ==
    ASSUME Kept, FallbackJustified, UNCHANGED watch, crashes' = crashes,
           NEW s \in Watches,
           \A m \in orphaned' :
              m \in orphaned \/ (m.sid = s /\ ~ (s \in sessionContexts /\ port # None)),
           Lasting(s) => s \in sessionContexts /\ port = s
    PROVE  FallbackJustified'
    BY WatchesAssumption DEF FallbackJustified, Lasting, Alone

LEMMA VerdictSavedStep == ASSUME PortInv, NEW v \in Watches, VerdictSaved(v) PROVE PortInv'
<1> USE DEF PortInv, Kept
<1>1. /\ v \in deciding /\ deciding' = deciding \ {v}
      /\ sessionContexts' = sessionContexts \ {v}
      /\ sessionId' = IF sessionId = v THEN None ELSE sessionId
      /\ UNCHANGED <<watch, sent, known, activeWatch, answers, up, attached, port, starting,
                     sessions, status, cancels, crashes>>
    BY DEF VerdictSaved, CleanupContext, page
<1>2. starting[v] = "done" /\ status[v] \in Verdicts
    BY <1>1 DEF Begun
<1>3. /\ down' \in [Watches -> Seq(DownMessages)]
      /\ orphaned' \subseteq Results
      /\ \A m \in orphaned' :
            m \in orphaned \/ (m.sid = v /\ ~ (v \in sessionContexts /\ port # None))
    BY <1>2, DeliverResult DEF VerdictSaved
<1>4. TypeOK'
    BY <1>1, <1>3 DEF TypeOK
<1>5. Origins' /\ OneStart' /\ Begun'
    BY <1>1 DEF Origins, OneStart, Begun, Created
<1>6. ASSUME NEW s \in Watches, Lasting(s)' PROVE Served(s)'
    <2>1. Lasting(s) /\ Served(s)
        BY <1>1, <1>6 DEF Lasting, Alone, Serving
    <2>2. v = s
        BY <1>1, <2>1, LastingAlone
    <2>3. s \notin deciding' /\ status'[s] \notin Running
        BY <1>1, <1>2, <2>2 DEF Verdicts, Running
    <2> QED BY <1>1, <2>1, <2>3 DEF Served, Reached
<1>7. FallbackJustified'
    <2>1. Lasting(v) => v \in sessionContexts /\ port = v
        BY <1>1, <1>2 DEF Serving, Served
    <2> QED BY <1>1, <1>3, <2>1, DeliveredJustified
<1> QED BY <1>4, <1>5, <1>6, <1>7 DEF Serving

LEMMA CancelSteps == ASSUME PortInv, NEW c \in cancels, CancelStep(c) PROVE PortInv'
<1> USE DEF PortInv, Kept
<1>1. /\ c \in CancelOps /\ c.sid \in Watches
      /\ c.kind \in {"start", "stop", "disconnect"} /\ c.by \in Watches
    BY DEF TypeOK, CancelOps
<1> DEFINE next == [sid |-> c.sid, kind |-> c.kind, by |-> c.by, at |-> "saving"]
<1>2. /\ next \in CancelOps /\ next.sid = c.sid /\ next.kind = c.kind /\ next.by = c.by
      /\ next.at = "saving"
    BY <1>1 DEF CancelOps
<1>3. cancels' \subseteq (cancels \ {c}) \cup {next}
    BY DEF CancelStep, CancelCloses, CancelSaved
<1> HIDE DEF next
<1>4. /\ UNCHANGED <<watch, sent, known, activeWatch, answers, up, attached, port, starting,
                     status, deciding, crashes>>
      /\ sessions' \subseteq sessions
    BY DEF CancelStep, CancelCloses, CancelSaved, page, context
<1>5. ASSUME NEW s \in Watches PROVE ~ Lasting(s)
    BY LastingAlone
<1>6. /\ down' \in [Watches -> Seq(DownMessages)]
      /\ orphaned' \subseteq Results
      /\ \A m \in orphaned' :
            m \in orphaned \/ (m.sid = c.sid /\ ~ (c.sid \in sessionContexts /\ port # None))
    <2>1. CASE CancelCloses(c)
        BY <2>1 DEF CancelCloses, TypeOK
    <2>2. CASE CancelSaved(c)
        BY <1>1, <2>2, DeliverResult DEF CancelSaved
    <2> QED BY <2>1, <2>2 DEF CancelStep
<1>7. sessionId' \in Watches \cup {None} /\ sessionContexts' \subseteq Watches
    BY DEF CancelStep, CancelCloses, CancelSaved, CleanupContext, context, TypeOK
<1>8. TypeOK'
    <2>1. cancels' \subseteq CancelOps
        BY <1>2, <1>3 DEF TypeOK
    <2> QED BY <1>4, <1>6, <1>7, <2>1 DEF TypeOK
<1>9. Origins' /\ OneStart'
    BY <1>4 DEF Origins, OneStart
<1>10. Begun'
    <2>1. Created' = Created
        BY <1>4 DEF Created
    <2>2. \A d \in cancels' : \E e \in cancels : d.sid = e.sid /\ d.kind = e.kind /\ d.by = e.by
        BY <1>2, <1>3
    <2>3. \A d \in cancels' :
             /\ d.sid \in Created'
             /\ d.kind = "start" => d.by # d.sid /\ starting'[d.by] # "no"
             /\ d.kind # "start" => watch'[d.by] = "over"
        BY <1>4, <2>1, <2>2 DEF Begun
    <2> QED BY <1>4, <2>1, <2>3 DEF Begun
<1>11. Serving'
    BY <1>4, <1>5 DEF Serving, Lasting, Alone
<1>12. FallbackJustified'
    BY <1>1, <1>4, <1>5, <1>6, DeliveredJustified
<1> QED BY <1>8, <1>9, <1>10, <1>11, <1>12

LEMMA DecideStep ==
    ASSUME PortInv, NEW v \in Watches, NEW verdict \in Verdicts, Decide(v, verdict)
    PROVE  PortInv'
<1> USE DEF PortInv, Kept
<1>1. /\ v \in sessions /\ status[v] \in Running /\ starting[v] = "done"
      /\ status' = [status EXCEPT ![v] = verdict] /\ deciding' = deciding \cup {v}
      /\ UNCHANGED <<watch, sent, known, activeWatch, answers, up, down, attached, port,
                     sessionId, sessionContexts, starting, sessions, cancels, orphaned, crashes>>
    BY DEF Decide, Active, page, context
<1>2. /\ status' \in [Watches -> {"none", "canceled"} \cup Running \cup Verdicts]
      /\ status'[v] \in Verdicts
      /\ \A w \in Watches : w # v => status'[w] = status[w]
    BY <1>1 DEF TypeOK
<1>3. TypeOK'
    BY <1>1, <1>2 DEF TypeOK
<1>4. Origins' /\ OneStart'
    BY <1>1 DEF Origins, OneStart
<1>5. Begun'
    BY <1>1, <1>2 DEF Begun, Created, TypeOK
<1>6. ASSUME NEW s \in Watches, Lasting(s)' PROVE Served(s)'
    <2>1. Lasting(s) /\ Served(s)
        BY <1>1, <1>6 DEF Lasting, Alone, Serving
    <2>2. v = s
        BY <1>1, <2>1, LastingAlone
    <2> QED BY <1>1, <2>1, <2>2 DEF Served, Reached
<1>7. FallbackJustified'
    BY <1>1 DEF FallbackJustified, Alone
<1> QED BY <1>3, <1>4, <1>5, <1>6, <1>7 DEF Serving

LEMMA LosePollStep == ASSUME PortInv, NEW v \in Watches, LosePoll(v) PROVE PortInv'
<1> USE DEF PortInv, Kept
<1>1. /\ v \in sessions /\ status[v] = "active" /\ starting[v] = "done"
      /\ status' = [status EXCEPT ![v] = "adrift"]
      /\ UNCHANGED <<watch, sent, known, activeWatch, answers, up, down, attached, port,
                     sessionId, sessionContexts, starting, sessions, deciding, cancels, orphaned,
                     crashes>>
    BY DEF LosePoll, page, context
<1>2. /\ status' \in [Watches -> {"none", "canceled"} \cup Running \cup Verdicts]
      /\ \A w \in Watches : status'[w] \in Running <=> status[w] \in Running
      /\ \A w \in Watches : status[w] \notin Running => status'[w] = status[w]
    BY <1>1 DEF TypeOK, Running
<1>3. TypeOK'
    BY <1>1, <1>2 DEF TypeOK
<1>4. Origins' /\ OneStart'
    BY <1>1 DEF Origins, OneStart
<1>5. Begun'
    <2>1. \A s \in deciding : status[s] \notin Running
        BY DEF Begun, Verdicts, Running
    <2> QED BY <1>1, <1>2, <2>1 DEF Begun, Created, TypeOK
<1>6. Serving'
    BY <1>1, <1>2 DEF Serving, Lasting, Alone, Served, Reached
<1>7. FallbackJustified'
    BY <1>1 DEF FallbackJustified, Alone
<1> QED BY <1>3, <1>4, <1>5, <1>6, <1>7

-----------------------------------------------------------------------------
LEMMA QuietStep == ASSUME PortInv, Quietly PROVE PortInv'
    BY QuietKept, QuietServing, QuietFallback DEF PortInv

LEMMA FirstWorkerStep == FirstWorker /\ [Next]_vars => FirstWorker'
<1> SUFFICES ASSUME FirstWorker, [Next]_vars PROVE FirstWorker'
    OBVIOUS
<1>1. CASE Crash
    BY <1>1 DEF Crash, FirstWorker
<1> SUFFICES ASSUME crashes' = crashes, PortInv PROVE PortInv'
    <2>1. ~ Crash => crashes' = crashes
        BY DEF Next, PageStep, WorkerStep, CancelStep, StartWatch, ChipClosed, StopActiveWatch,
               PageLeaves, Veto, Connects, SettingsLoaded, Receive, FillEnds, ConnectArrives,
               StartArrives, ScanResumes, StartSaved, StopArrives, DisconnectArrives,
               VerdictSaved, CancelCloses, CancelSaved, Decide, LosePoll, vars
    <2> QED BY <1>1, <2>1 DEF FirstWorker
<1>t. TypeOK
    BY DEF PortInv, Kept
<1>2. ASSUME NEW w \in Watches, StartWatch(w) \/ ChipClosed(w) PROVE PortInv'
    BY <1>2, <1>t, StartWatchQuiet, ClosesQuiet, QuietStep
<1>3. CASE StopActiveWatch \/ PageLeaves
    BY <1>3, <1>t, StopsQuiet, PageLeavesQuiet, QuietStep
<1>4. ASSUME NEW w \in Watches, PageStep(w) PROVE PortInv'
    BY <1>4, <1>t, VetoQuiet, ReceiveQuiet, ClosesQuiet, QuietStep, ConnectsStep,
       SettingsLoadedStep DEF PageStep
<1>5. ASSUME NEW w \in Watches, WorkerStep(w) PROVE PortInv'
    BY <1>5, ConnectStep, StartStep, StartSavedStep, EndingStep, VerdictSavedStep DEF WorkerStep
<1>6. ASSUME NEW c \in cancels, CancelStep(c) PROVE PortInv'
    BY <1>6, CancelSteps
<1>7. ASSUME NEW v \in Watches, NEW verdict \in Verdicts, Decide(v, verdict) PROVE PortInv'
    BY <1>7, DecideStep
<1>10. ASSUME NEW v \in Watches, LosePoll(v) PROVE PortInv'
    BY <1>10, LosePollStep
<1>8. CASE UNCHANGED vars
    <2>1. UNCHANGED <<watch, sent, known, activeWatch, answers, up, down, attached, port,
                      sessionId, sessionContexts, starting, sessions, status, deciding, cancels,
                      orphaned, crashes>>
        BY <1>8 DEF vars, page, context, controller
    <2>2. TypeOK'
        BY <1>t, <2>1 DEF TypeOK
    <2>3. Origins' /\ OneStart' /\ Begun'
        BY <2>1 DEF PortInv, Kept, Origins, OneStart, Begun, Created
    <2>4. Serving'
        BY <2>1 DEF PortInv, Serving, Lasting, Alone, Served, Reached
    <2>5. FallbackJustified'
        BY <2>1 DEF PortInv, FallbackJustified, Alone
    <2> QED BY <2>2, <2>3, <2>4, <2>5 DEF PortInv, Kept
<1>9. CASE Crash
    <2>1. crashes' = crashes + 1 /\ crashes \in Nat
        BY <1>9, <1>t DEF Crash, TypeOK
    <2> QED BY <2>1
<1> QED BY <1>2, <1>3, <1>4, <1>5, <1>6, <1>7, <1>8, <1>9, <1>10 DEF Next

(***************************************************************************)
(* A result takes the fallback of chrome.tabs.sendMessage, where the page  *)
(* has no listener for it, only when the watch it is for is over, a worker *)
(* has died, or the tab has had another watch: for any number of watches   *)
(* and any order of the messages of different ports.                       *)
(***************************************************************************)
THEOREM FallbacksJustified == Spec => []FallbackJustified
<1>1. Init => FirstWorker
    <2> SUFFICES ASSUME Init PROVE FirstWorker
        OBVIOUS
    <2> USE DEF Init
    <2>1. TypeOK
        BY CrashesAssumption DEF TypeOK, Verdicts
    <2>2. Origins /\ OneStart /\ Begun
        BY DEF Origins, OneStart, Begun, Created
    <2>3. Serving /\ FallbackJustified
        BY DEF Serving, Served, Listening, FallbackJustified
    <2> QED BY <2>1, <2>2, <2>3, CrashesAssumption DEF FirstWorker, PortInv, Kept
<1>2. FirstWorker => FallbackJustified
    BY DEF FirstWorker, PortInv, FallbackJustified
<1> QED BY <1>1, <1>2, FirstWorkerStep, PTL DEF Spec
===============================================================================
