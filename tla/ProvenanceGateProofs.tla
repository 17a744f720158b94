------------------------ MODULE ProvenanceGateProofs ------------------------
(***************************************************************************)
(* What holds of the polls of watch sessions for every number of sessions, *)
(* messages and worker deaths: no code is taken twice while the seen store *)
(* remembers its message; whatever may be filled in is fresh; and a code   *)
(* that was taken from a fresh message is kept.                            *)
(***************************************************************************)
EXTENDS ProvenanceGate, Integers, FiniteSetTheorems, TLAPS

-----------------------------------------------------------------------------
(***************************************************************************)
(* The types of a poll and of the store.                                   *)
(***************************************************************************)
LEMMA Numbers ==
    /\ MaxTime \in Nat /\ MaxFailures \in Nat /\ Never = MaxTime + 1
    /\ Window \in Nat /\ HitTtl \in Nat \ {0} /\ MissTtl \in Nat \ {0}
    /\ MaxCrashes \in Nat /\ Clients = Sessions
    /\ \A c \in Clients : StoreOf(c) = "watch" /\ StoreOf(c) \in Stores
  BY CapsAssumption, WindowsAssumption, SessionsAssumption DEF Never, StoreOf, Stores

\* What a store instance has after it was loaded.
LEMMA LoadedType ==
    ASSUME PollTypeOK, NEW st \in Stores
    PROVE  Loaded(st) \in [Messages -> Nat]
  BY DEF PollTypeOK, Loaded

LEMMA AddType ==
    ASSUME PollTypeOK, NEW st \in Stores, NEW m \in Messages, Add(st, m)
    PROVE  /\ mem' \in [Stores -> [Messages -> Nat]] /\ loaded' \subseteq Stores
           /\ disk' \in [Messages -> Nat]
<1> DEFINE ttl == IF Kind[m].hit THEN HitTtl ELSE MissTtl
           marked == [Loaded(st) EXCEPT ![m] = now + ttl]
<1>1. ttl \in Nat /\ now \in Nat /\ Loaded(st) \in [Messages -> Nat]
  BY Numbers, LoadedType DEF PollTypeOK
<1>2. marked \in [Messages -> Nat]
  BY <1>1
<1>3. Live(marked) \in [Messages -> Nat]
  BY <1>2 DEF Live
<1> QED
  BY <1>3 DEF Add, PollTypeOK

LEMMA BeginType ==
    ASSUME PollTypeOK, NEW c \in Clients, NEW boxes, BeginPoll(c, boxes)
    PROVE  PollTypeOK'
<1>1. (IF now > Window THEN now - Window ELSE 0) \in 0 .. MaxTime
  BY Numbers DEF PollTypeOK
<1>2. NoBatch \in [Boxes -> SUBSET Sightings]
  BY DEF NoBatch
<1>3. [b \in Boxes |-> IF b \in boxes THEN "asked" ELSE "none"] \in [Boxes -> AdapterStates]
  BY DEF AdapterStates
<1> QED
  BY <1>1, <1>2, <1>3 DEF PollTypeOK, BeginPoll

LEMMA ArrivesType ==
    ASSUME PollTypeOK, NEW c \in Clients, NEW b \in Boxes, BatchArrives(c, b)
    PROVE  PollTypeOK'
<1>1. PICK ms \in SUBSET Messages :
          /\ batch' = [batch EXCEPT ![c][b] = {Sight(m) : m \in ms}]
          /\ todo' = [todo EXCEPT ![c][b] = {Sight(m) : m \in ms}]
  BY DEF BatchArrives, Listings
<1>2. {Sight(m) : m \in ms} \in SUBSET Sightings
  <2>1. \A m \in ms : Sight(m) \in Sightings
    BY DEF Sight, Sightings
  <2> QED
    BY <2>1
<1>3. batch[c] \in [Boxes -> SUBSET Sightings] /\ todo[c] \in [Boxes -> SUBSET Sightings]
      /\ adapter[c] \in [Boxes -> AdapterStates]
  BY DEF PollTypeOK
<1>4. batch' \in [Clients -> [Boxes -> SUBSET Sightings]]
  BY <1>1, <1>2, <1>3 DEF PollTypeOK
<1>5. todo' \in [Clients -> [Boxes -> SUBSET Sightings]]
  BY <1>1, <1>2, <1>3 DEF PollTypeOK
<1>6. adapter' \in [Clients -> [Boxes -> AdapterStates]]
  BY <1>3 DEF PollTypeOK, BatchArrives, AdapterStates
<1> QED
  BY <1>4, <1>5, <1>6 DEF PollTypeOK, BatchArrives

LEMMA FailsType ==
    ASSUME PollTypeOK, NEW c \in Clients, NEW b \in Boxes, AdapterFails(c, b)
    PROVE  PollTypeOK'
<1>1. PICK how \in AdapterStates : adapter' = [adapter EXCEPT ![c][b] = how]
  BY DEF AdapterFails, AdapterStates
<1>2. adapter' \in [Clients -> [Boxes -> AdapterStates]]
  BY <1>1 DEF PollTypeOK
<1> QED
  BY <1>2, Numbers DEF PollTypeOK, AdapterFails

LEMMA ProcessType ==
    ASSUME PollTypeOK, NEW c \in Clients, NEW b \in Boxes, Process(c, b)
    PROVE  PollTypeOK'
<1>1. PICK x \in todo[c][b] :
          /\ Add(StoreOf(c), x.msg)
          /\ todo' = [todo EXCEPT ![c][b] = @ \ {x}]
          /\ hits' = IF Kind[x.msg].hit THEN [hits EXCEPT ![c] = @ \cup {x}] ELSE hits
  BY DEF Process
<1>2. x \in Sightings /\ x.msg \in Messages
  BY DEF PollTypeOK, Sightings
<1>3. /\ mem' \in [Stores -> [Messages -> Nat]] /\ loaded' \subseteq Stores
      /\ disk' \in [Messages -> Nat]
  BY <1>1, <1>2, AddType, Numbers
<1>4. todo' \in [Clients -> [Boxes -> SUBSET Sightings]]
  BY <1>1 DEF PollTypeOK
<1>5. hits' \in [Clients -> SUBSET Sightings]
  BY <1>1, <1>2 DEF PollTypeOK
<1> QED
  BY <1>3, <1>4, <1>5 DEF PollTypeOK, Process

LEMMA EndType ==
    ASSUME PollTypeOK, NEW c \in Clients, EndPoll(c),
           UNCHANGED <<now, arrived, unread, mem, loaded, disk>>, failures' \in 0 .. MaxFailures
    PROVE  PollTypeOK'
  BY Numbers DEF PollTypeOK, EndPoll, Quiet, NoBatch, AdapterStates

LEMMA CrashType ==
    ASSUME PollTypeOK, PollCrash
    PROVE  PollTypeOK'
  BY Numbers DEF PollTypeOK, PollCrash, Empty, Quiet, NoBatch, AdapterStates, Stores

LEMMA AnsweredType ==
    ASSUME PollTypeOK, NEW s \in Sessions, PollAnswered(s)
    PROVE  PollTypeOK'
<1> DEFINE st == StoreOf(s)
<1>1. Loaded(st) \in [Messages -> Nat] /\ st \in Stores /\ s \in Clients
  BY LoadedType, Numbers
<1>2. mem' \in [Stores -> [Messages -> Nat]] /\ loaded' \subseteq Stores /\ disk' = disk
  <2>1. StoreAsked(s)
    BY DEF PollAnswered
  <2>2. disk' = disk /\ (loaded' = loaded \/ loaded' = loaded \cup {st})
    BY <2>1 DEF StoreAsked
  <2>3. mem' = mem \/ mem' = [mem EXCEPT ![st] = Loaded(st)]
    BY <2>1 DEF StoreAsked
  <2> QED
    BY <1>1, <2>2, <2>3 DEF PollTypeOK
<1>3. hits' \in [Clients -> SUBSET Sightings]
  BY DEF PollTypeOK, PollAnswered, Kept
<1>4. todo' \in [Clients -> [Boxes -> SUBSET Sightings]]
  BY DEF PollTypeOK, PollAnswered, NoBatch
<1>5. adapter' \in [Clients -> [Boxes -> AdapterStates]]
  <2>1. [b \in Boxes |-> IF adapter[s][b] = "reading" THEN "ok" ELSE adapter[s][b]]
            \in [Boxes -> AdapterStates]
    BY <1>1 DEF PollTypeOK, AdapterStates
  <2> QED
    BY <2>1 DEF PollTypeOK, PollAnswered
<1> QED
  BY <1>2, <1>3, <1>4, <1>5 DEF PollTypeOK, PollAnswered

LEMMA WorldType ==
    ASSUME PollTypeOK, World
    PROVE  PollTypeOK'
<1>1. CASE Tick
  BY <1>1, Numbers DEF Tick, PollTypeOK
<1>2. ASSUME NEW m \in Messages, Arrive(m) PROVE PollTypeOK'
  BY <1>2, Numbers DEF Arrive, PollTypeOK
<1>3. ASSUME NEW m \in Messages, ReadByUser(m) PROVE PollTypeOK'
  BY <1>3 DEF ReadByUser, PollTypeOK
<1> QED
  BY <1>1, <1>2, <1>3 DEF World

-----------------------------------------------------------------------------
(***************************************************************************)
(* The types of the sessions.                                              *)
(***************************************************************************)
AllBaselines == [Sessions -> [Boxes -> Baselines]]
Own ==
    /\ phase \in [Sessions -> {"unborn", "open", "filled"}]
    /\ start \in [Sessions -> 0 .. Never]
    /\ baseline \in AllBaselines
    /\ arrivals \in [Sessions -> SUBSET Messages]
    /\ stored \in [baseline : AllBaselines, arrivals : [Sessions -> SUBSET Messages]]
    /\ snapshot \in [at : 0 .. Never, entries : SUBSET Sightings]
    /\ poll \in [Sessions -> {"idle", "polling", "storing", "saving"}]
    /\ fresh \in [Sessions -> SUBSET Boxes]
    /\ polls \in [Sessions -> Nat]
    /\ filled \in [Sessions -> Messages \cup {None}]
    /\ taken \in [Messages -> Nat]
    /\ crashes \in 0 .. MaxCrashes

LEMMA Split == TypeOK <=> PollTypeOK /\ Own
  BY DEF TypeOK, Own, AllBaselines

LEMMA PersistType ==
    ASSUME Persist, baseline' \in AllBaselines, arrivals' \in [Sessions -> SUBSET Messages]
    PROVE  stored' \in [baseline : AllBaselines, arrivals : [Sessions -> SUBSET Messages]]
  BY DEF Persist

\* The end of a poll.
LEMMA NothingType ==
    ASSUME PollTypeOK, Own, NEW s \in Sessions, Nothing(s), failures' \in 0 .. MaxFailures
    PROVE  PollTypeOK' /\ poll' \in [Sessions -> {"idle", "polling", "storing", "saving"}]
<1>1. s \in Clients
  BY Numbers
<1>2. PollTypeOK'
  BY <1>1, EndType DEF Nothing
<1> QED
  BY <1>2 DEF Nothing, Own

\* Every step of a session, of the world and of the worker keeps the types.
LEMMA TypeStep == TypeOK /\ [Next]_vars => TypeOK'
<1> SUFFICES ASSUME PollTypeOK, Own, [Next]_vars PROVE PollTypeOK' /\ Own'
  BY Split, PTL
<1>n. /\ MaxTime \in Nat /\ Never = MaxTime + 1 /\ MaxCrashes \in Nat /\ MaxFailures \in Nat
      /\ now \in 0 .. MaxTime /\ Sessions = Clients
  BY Numbers DEF PollTypeOK
<1>1. ASSUME NEW s \in Sessions, StartSession(s) PROVE PollTypeOK' /\ Own'
  <2>1. stored' \in [baseline : AllBaselines, arrivals : [Sessions -> SUBSET Messages]]
    BY <1>1, PersistType DEF StartSession, Own
  <2> QED
    BY <1>1, <1>n, <2>1 DEF StartSession, pollVars, PollTypeOK, Own
<1>2. ASSUME NEW s \in Sessions, Poll(s) PROVE PollTypeOK' /\ Own'
  <2>1. PollTypeOK'
    BY <1>2, <1>n, BeginType DEF Poll
  <2> QED
    BY <1>2, <2>1 DEF Poll, Own
<1>3. ASSUME NEW s \in Sessions, PollOnce(s) PROVE PollTypeOK' /\ Own'
  <2>1. PollTypeOK'
    BY <1>3, <1>n, ArrivesType, FailsType, ProcessType DEF PollOnce, AdapterStep
  <2>2. taken' \in [Messages -> Nat]
    BY <1>3 DEF PollOnce, Own
  <2> QED
    BY <1>3, <2>1, <2>2 DEF PollOnce, Own
<1>4. ASSUME NEW s \in Sessions, PollAnswered(s) PROVE PollTypeOK' /\ Own'
  <2>1. PollTypeOK'
    BY <1>4, AnsweredType
  <2> QED
    BY <1>4, <2>1 DEF PollAnswered, Own
<1>5. ASSUME NEW s \in Sessions, GiveUp(s) PROVE PollTypeOK' /\ Own'
  <2>1. failures' \in 0 .. MaxFailures
    BY <1>5, <1>n DEF GiveUp, PollTypeOK
  <2>2. PollTypeOK' /\ poll' \in [Sessions -> {"idle", "polling", "storing", "saving"}]
    BY <1>5, <2>1, NothingType DEF GiveUp
  <2>3. stored' \in [baseline : AllBaselines, arrivals : [Sessions -> SUBSET Messages]]
    BY <1>5, PersistType DEF GiveUp, Own
  <2> QED
    BY <1>5, <2>2, <2>3 DEF GiveUp, Own
<1>6. ASSUME NEW s \in Sessions, CommitBaselines(s) PROVE PollTypeOK' /\ Own'
  <2> DEFINE new == {b \in Boxes : Baselinable(s, b)}
             after == [b \in Boxes |-> IF b \notin new THEN baseline[s][b]
                         ELSE [set |-> TRUE,
                               entries |-> IF Seeded(s, b) THEN snapshot.entries ELSE batch[s][b]]]
  <2>1. after \in [Boxes -> Baselines]
    <3> SUFFICES ASSUME NEW b \in Boxes PROVE after[b] \in Baselines
      OBVIOUS
    <3>1. /\ baseline[s][b] \in Baselines /\ snapshot.entries \in SUBSET Sightings
          /\ batch[s][b] \in SUBSET Sightings
      BY <1>n DEF Own, AllBaselines, PollTypeOK
    <3> QED
      BY <3>1 DEF Baselines
  <2>3. {b \in new : ~ Seeded(s, b)} \in SUBSET Boxes
    OBVIOUS
  <2>4. snapshot' \in [at : 0 .. Never, entries : SUBSET Sightings]
    <3>1. SmsBox \in Boxes
      BY DEF Boxes
    <3>2. batch[s][SmsBox] \in SUBSET Sightings /\ now \in 0 .. Never
      BY <1>n, <3>1 DEF PollTypeOK
    <3>3. [at |-> now, entries |-> batch[s][SmsBox]] \in [at : 0 .. Never, entries : SUBSET Sightings]
      BY <3>2
    <3> QED
      BY <1>6, <3>3 DEF CommitBaselines, Own
  <2>5. /\ baseline' = [baseline EXCEPT ![s] = after]
        /\ fresh' = [fresh EXCEPT ![s] = {b \in new : ~ Seeded(s, b)}]
        /\ UNCHANGED <<pollVars, phase, start, arrivals, stored, poll, polls, filled, taken, crashes>>
    BY <1>6 DEF CommitBaselines
  <2> HIDE DEF new, after
  <2>6. PollTypeOK'
    BY <2>5 DEF pollVars, PollTypeOK
  <2>7. baseline' \in AllBaselines
    BY <2>1, <2>5 DEF Own, AllBaselines
  <2>9. fresh' \in [Sessions -> SUBSET Boxes]
    BY <2>3, <2>5 DEF Own
  <2> QED
    BY <2>4, <2>5, <2>6, <2>7, <2>9 DEF Own
<1>7. ASSUME NEW s \in Sessions, Classify(s) PROVE PollTypeOK' /\ Own'
  <2>1. {x.msg : x \in {y \in hits[s] : Accepted(s, y)}} \in SUBSET Messages
    BY <1>n DEF PollTypeOK, Sightings
  <2>2. arrivals' \in [Sessions -> SUBSET Messages]
    BY <1>7, <2>1 DEF Classify, Own
  <2>3. stored' \in [baseline : AllBaselines, arrivals : [Sessions -> SUBSET Messages]]
    BY <1>7, <2>2, PersistType DEF Classify, Own
  <2> QED
    BY <1>7, <2>2, <2>3 DEF Classify, pollVars, PollTypeOK, Own
<1>8. ASSUME NEW s \in Sessions, FindCode(s) PROVE PollTypeOK' /\ Own'
  <2>1. failures' \in 0 .. MaxFailures
    BY <1>8 DEF FindCode, PollTypeOK
  <2>2. PollTypeOK' /\ poll' \in [Sessions -> {"idle", "polling", "storing", "saving"}]
    BY <1>8, <2>1, NothingType DEF FindCode
  <2>3. stored' \in [baseline : AllBaselines, arrivals : [Sessions -> SUBSET Messages]]
    BY <1>8, PersistType DEF FindCode, Own
  <2>4. Best(s) \subseteq Messages
    BY DEF Best, Own
  <2>5. filled' \in [Sessions -> Messages \cup {None}]
        /\ phase' \in [Sessions -> {"unborn", "open", "filled"}]
    <3>1. CASE UNCHANGED <<phase, filled>>
      BY <3>1 DEF Own
    <3>2. ASSUME NEW m \in Best(s), Fill(s, m)
          PROVE  /\ filled' \in [Sessions -> Messages \cup {None}]
                 /\ phase' \in [Sessions -> {"unborn", "open", "filled"}]
      BY <2>4, <3>2 DEF Fill, Own
    <3> QED
      BY <1>8, <3>1, <3>2 DEF FindCode
  <2> QED
    BY <1>8, <2>2, <2>3, <2>5 DEF FindCode, Own
<1>9. CASE Crash
  <2>1. PollTypeOK'
    BY <1>9, CrashType DEF Crash
  <2> QED
    BY <1>9, <1>n, <2>1 DEF Crash, Own
<1>10. CASE World /\ UNCHANGED gateVars
  <2>1. PollTypeOK'
    BY <1>10, WorldType
  <2> QED
    BY <1>10, <2>1 DEF gateVars, Own
<1>11. CASE UNCHANGED vars
  BY <1>11 DEF vars, pollVars, gateVars, PollTypeOK, Own
<1> QED
  BY <1>1, <1>2, <1>3, <1>4, <1>5, <1>6, <1>7, <1>8, <1>9, <1>10, <1>11 DEF Next, SessionStep

-----------------------------------------------------------------------------
(***************************************************************************)
(* Codes that were taken.                                                  *)
(***************************************************************************)
\* All sessions poll with one store: once a code was taken, its message is
\* marked to the end of the run, in storage and in the store's memory.
Remembered(m) == disk[m] > MaxTime /\ ("watch" \in loaded => mem["watch"][m] > MaxTime)
TakenMarked ==
    \A m \in Messages :
        Kind[m].hit => taken[m] <= 1 /\ (taken[m] > 0 => Remembered(m))

\* A remembered message has been seen.
LEMMA RememberedSeen ==
    ASSUME TypeOK, NEW m \in Messages, Remembered(m)
    PROVE  Loaded("watch")[m] > MaxTime /\ HasSeen("watch", m)
<1>1. /\ now \in 0 .. MaxTime /\ MaxTime \in Nat /\ disk[m] \in Nat /\ "watch" \in Stores
      /\ mem["watch"][m] \in Nat
  BY Numbers DEF TypeOK, PollTypeOK, Stores
<1>2. Loaded("watch")[m] = IF "watch" \in loaded \/ disk[m] <= now THEN mem["watch"][m] ELSE disk[m]
  BY <1>1 DEF Loaded, TypeOK, PollTypeOK
<1> QED
  BY <1>1, <1>2 DEF HasSeen, Remembered

\* The store adds a message it has not seen.
LEMMA AddMarks ==
    ASSUME TypeOK, NEW st \in Stores, NEW m \in Messages, Add(st, m), ~ HasSeen(st, m)
    PROVE  /\ mem' # mem
           /\ loaded' = loaded \cup {st}
           /\ mem'[st] = disk'
           /\ disk'[m] = now + (IF Kind[m].hit THEN HitTtl ELSE MissTtl)
           /\ \A n \in Messages : n # m /\ Loaded(st)[n] > MaxTime => disk'[n] = Loaded(st)[n]
<1> DEFINE ttl == IF Kind[m].hit THEN HitTtl ELSE MissTtl
           marked == [Loaded(st) EXCEPT ![m] = now + ttl]
<1>1. /\ ttl \in Nat \ {0} /\ now \in 0 .. MaxTime /\ MaxTime \in Nat
      /\ Loaded(st) \in [Messages -> Nat] /\ mem \in [Stores -> [Messages -> Nat]]
      /\ disk \in [Messages -> Nat]
  BY Numbers, LoadedType DEF TypeOK, PollTypeOK
<1>2. mem' = [mem EXCEPT ![st] = Live(marked)] /\ loaded' = loaded \cup {st}
      /\ disk' = Live(marked)
  BY DEF Add
<1>3. marked \in [Messages -> Nat] /\ marked[m] = now + ttl
      /\ \A n \in Messages : n # m => marked[n] = Loaded(st)[n]
  BY <1>1
<1> HIDE DEF ttl, marked
<1>4. \A n \in Messages : Live(marked)[n] = IF now < marked[n] THEN marked[n] ELSE 0
  BY DEF Live
<1>5. mem'[st] = Live(marked) /\ Live(marked)[m] = now + ttl
  BY <1>1, <1>2, <1>3, <1>4
<1>6. mem[st][m] <= now
  BY <1>1 DEF HasSeen, Loaded
<1>7. mem' # mem
  BY <1>1, <1>5, <1>6
<1>8. \A n \in Messages : n # m /\ Loaded(st)[n] > MaxTime => Live(marked)[n] = Loaded(st)[n]
  BY <1>1, <1>3, <1>4
<1> QED
  BY <1>2, <1>5, <1>7, <1>8 DEF ttl

\* A step that takes nothing.
LEMMA QuietKeepsTaken ==
    ASSUME TakenMarked, \A m \in Messages : taken'[m] = taken[m],
           \A m \in Messages : Remembered(m) => Remembered(m)'
    PROVE  TakenMarked'
  BY DEF TakenMarked

\* The message that is taken is not remembered; it is from then on.
LEMMA ProcessKeepsTaken ==
    ASSUME HitTtl > MaxTime, TypeOK, TakenMarked, NEW s \in Sessions, NEW b \in Boxes,
           Process(s, b),
           taken' = [m \in Messages |->
                        IF \E x \in hits'[s] \ hits[s] : x.msg = m THEN taken[m] + 1 ELSE taken[m]]
    PROVE  TakenMarked'
<1>0. s \in Clients /\ StoreOf(s) = "watch" /\ "watch" \in Stores
  BY Numbers
<1>1. PICK x \in todo[s][b] :
          /\ Unprocessed(s, x) /\ Add("watch", x.msg)
          /\ hits' = IF Kind[x.msg].hit THEN [hits EXCEPT ![s] = @ \cup {x}] ELSE hits
  BY <1>0 DEF Process
<1>2. /\ x.msg \in Messages /\ hits \in [Clients -> SUBSET Sightings]
      /\ taken \in [Messages -> Nat] /\ now \in Nat /\ MaxTime \in Nat /\ HitTtl \in Nat
  BY <1>0, Numbers DEF TypeOK, PollTypeOK, Sightings
<1>3. ~ HasSeen("watch", x.msg)
  BY <1>0, <1>1 DEF Unprocessed
<1>4. /\ loaded' = loaded \cup {"watch"} /\ mem'["watch"] = disk'
      /\ disk'[x.msg] = now + (IF Kind[x.msg].hit THEN HitTtl ELSE MissTtl)
      /\ \A n \in Messages :
             n # x.msg /\ Loaded("watch")[n] > MaxTime => disk'[n] = Loaded("watch")[n]
  BY <1>0, <1>1, <1>2, <1>3, AddMarks
<1>5. ~ Remembered(x.msg)
  BY <1>2, <1>3, RememberedSeen
<1>6. \A m \in Messages : m # x.msg \/ ~ Kind[m].hit => taken'[m] = taken[m]
  BY <1>0, <1>1, <1>2
<1>7. \A m \in Messages : taken'[m] <= taken[m] + 1
  BY <1>2
<1>8. \A m \in Messages : Remembered(m) => Remembered(m)'
  <2> SUFFICES ASSUME NEW m \in Messages, Remembered(m) PROVE Remembered(m)'
    OBVIOUS
  <2>1. Loaded("watch")[m] > MaxTime /\ m # x.msg
    BY <1>5, RememberedSeen
  <2>2. disk'[m] > MaxTime
    BY <1>4, <2>1
  <2> QED
    BY <1>4, <2>2 DEF Remembered
<1>9. Kind[x.msg].hit => Remembered(x.msg)'
  <2> SUFFICES ASSUME Kind[x.msg].hit PROVE Remembered(x.msg)'
    OBVIOUS
  <2>1. disk'[x.msg] > MaxTime
    BY <1>2, <1>4
  <2> QED
    BY <1>4, <2>1 DEF Remembered
<1> QED
  <2> SUFFICES ASSUME NEW m \in Messages, Kind[m].hit
               PROVE  taken'[m] <= 1 /\ (taken'[m] > 0 => Remembered(m)')
    BY DEF TakenMarked
  <2>1. CASE m = x.msg
    <3>1. taken[m] = 0
      BY <1>2, <1>5, <2>1 DEF TakenMarked
    <3> QED
      BY <1>2, <1>7, <1>9, <2>1, <3>1
  <2>2. CASE m # x.msg
    BY <1>6, <1>8, <2>2 DEF TakenMarked
  <2> QED
    BY <2>1, <2>2

LEMMA TakenStep ==
    ASSUME HitTtl > MaxTime, TypeOK, TakenMarked, [Next]_vars
    PROVE  TakenMarked'
<1>t. taken \in [Messages -> Nat] /\ Sessions = Clients
  BY Numbers DEF TypeOK
<1>q. ASSUME UNCHANGED <<mem, loaded, disk, taken>> PROVE TakenMarked'
  BY <1>q, QuietKeepsTaken DEF Remembered
<1>1. ASSUME NEW s \in Sessions,
             StartSession(s) \/ Poll(s) \/ GiveUp(s) \/ CommitBaselines(s) \/ Classify(s) \/ FindCode(s)
      PROVE TakenMarked'
  BY <1>1, <1>q DEF StartSession, Poll, BeginPoll, GiveUp, Nothing, CommitBaselines, Classify,
     FindCode, pollVars
<1>2. ASSUME NEW s \in Sessions, PollOnce(s) PROVE TakenMarked'
  <2>1. taken' = [m \in Messages |->
            IF \E x \in hits'[s] \ hits[s] : x.msg = m THEN taken[m] + 1 ELSE taken[m]]
    BY <1>2 DEF PollOnce
  <2>2. ASSUME NEW b \in Boxes, BatchArrives(s, b) \/ AdapterFails(s, b) PROVE TakenMarked'
    <3>1. UNCHANGED <<mem, loaded, disk, hits>>
      BY <2>2 DEF BatchArrives, AdapterFails
    <3>2. \A m \in Messages : taken'[m] = taken[m]
      BY <2>1, <3>1
    <3> QED
      BY <3>1, <3>2, QuietKeepsTaken DEF Remembered
  <2>3. ASSUME NEW b \in Boxes, Process(s, b) PROVE TakenMarked'
    BY <2>1, <2>3, ProcessKeepsTaken
  <2> QED
    BY <1>2, <2>2, <2>3 DEF PollOnce, AdapterStep
<1>3. ASSUME NEW s \in Sessions, PollAnswered(s) PROVE TakenMarked'
  <2>1. taken' = taken /\ StoreAsked(s) /\ StoreOf(s) = "watch"
    BY <1>3, <1>t, Numbers DEF PollAnswered
  <2>2. /\ disk' = disk
        /\ \/ mem' = mem /\ loaded' = loaded
           \/ mem' = [mem EXCEPT !["watch"] = Loaded("watch")] /\ loaded' = loaded \cup {"watch"}
    BY <2>1 DEF StoreAsked
  <2>3. \/ mem'["watch"] = mem["watch"] /\ loaded' = loaded
        \/ mem'["watch"] = Loaded("watch")
    BY <2>2 DEF TypeOK, PollTypeOK, Stores
  <2>4. \A m \in Messages : Remembered(m) => Remembered(m)'
    BY <2>2, <2>3, RememberedSeen DEF Remembered
  <2> QED
    BY <2>1, <2>4, QuietKeepsTaken
<1>4. CASE Crash
  BY <1>4, QuietKeepsTaken DEF Crash, PollCrash, Remembered
<1>5. CASE World /\ UNCHANGED gateVars
  BY <1>5, <1>q DEF World, Tick, Arrive, ReadByUser, gateVars
<1>6. CASE UNCHANGED vars
  BY <1>6, <1>q DEF vars, pollVars, gateVars
<1> QED
  BY <1>1, <1>2, <1>3, <1>4, <1>5, <1>6 DEF Next, SessionStep

-----------------------------------------------------------------------------
(***************************************************************************)
(* Whatever may be filled in is fresh.  The inductive invariant says what  *)
(* a batch and a baseline are of their mailbox: a message that is in the   *)
(* mailbox and not in them came after the session began, or they are full  *)
(* of newer ones; and a later batch has those too.  So a message that a    *)
(* baseline lacks did not come before the session.                         *)
(*                                                                         *)
(* These formulas have the arrivals and the time as arguments, arr and t,  *)
(* so that they can be compared over a step.                               *)
(***************************************************************************)
Msgs(xs) == {x.msg : x \in xs}
Active == {"reading", "ok"}

Later(arr, m, n) == arr[m] > arr[n] \/ (arr[m] = arr[n] /\ Uid[m] > Uid[n])
In(arr, t, b, m) == BoxOf(m) = b /\ arr[m] <= t
Of(arr, t, xs, b) == \A x \in xs : In(arr, t, b, x.msg)

\* The messages of xs fill a listing and are all newer than n.
Full(arr, xs, n) ==
    Cardinality(Msgs(xs)) = PerProviderMax /\ \A x \in xs : Later(arr, x.msg, n)
Listed(arr, t, xs, st, b) ==
    \A n \in Messages :
        In(arr, t, b, n) /\ n \notin Msgs(xs) => arr[n] >= st \/ Full(arr, xs, n)

\* What is newer than a message of the later batch ys is in ys too.
Follows(arr, xs, ys) ==
    \A x \in xs, y \in ys : Later(arr, x.msg, y.msg) => x.msg \in Msgs(ys)

Record(arr, t, line, st, b, ys) ==
    line.set => /\ Of(arr, t, line.entries, b) /\ Listed(arr, t, line.entries, st, b)
                /\ Follows(arr, line.entries, ys)

FreshIn(arr, t, ms, st) == \A m \in ms : arr[m] <= t /\ Dated(m) /\ arr[m] + Grace >= st

Clock ==
    /\ \A m \in Messages : arrived[m] <= now \/ arrived[m] = Never
    /\ \A s \in Sessions : phase[s] # "unborn" => start[s] <= now

Shape ==
    \A s \in Sessions :
        /\ phase[s] = "unborn" =>
               /\ poll[s] = "idle" /\ arrivals[s] = {} /\ stored.arrivals[s] = {}
               /\ \A b \in Boxes : baseline[s][b] = Unset /\ stored.baseline[s][b] = Unset
        /\ poll[s] = "idle" => \A b \in Boxes : adapter[s][b] \notin Active
        /\ poll[s] = "polling" => \A b \in Boxes : adapter[s][b] # "ok"
        /\ poll[s] \in {"storing", "saving"} =>
               \A b \in Boxes : adapter[s][b] \notin {"asked", "reading"}

Books ==
    \A s \in Sessions :
        /\ \A b \in Boxes :
               /\ Of(arrived, now, batch[s][b], b) /\ todo[s][b] \subseteq batch[s][b]
               /\ adapter[s][b] \notin Active => batch[s][b] = {}
        /\ \A x \in hits[s] : x \in batch[s][BoxOf(x.msg)] /\ Kind[x.msg].hit

ListsAll ==
    \A s \in Sessions : \A b \in EmailBoxes :
        /\ adapter[s][b] \in Active => Listed(arrived, now, batch[s][b], start[s], b)
        /\ Cardinality(Msgs(batch[s][b])) <= PerProviderMax

RecordsAll ==
    \A s \in Sessions : \A b \in EmailBoxes :
        /\ Record(arrived, now, baseline[s][b], start[s], b, batch[s][b])
        /\ Record(arrived, now, stored.baseline[s][b], start[s], b, batch[s][b])

ArrivalsFresh ==
    \A s \in Sessions :
        /\ FreshIn(arrived, now, arrivals[s], start[s])
        /\ FreshIn(arrived, now, stored.arrivals[s], start[s])

Gate == TypeOK /\ Clock /\ Shape /\ Books /\ ListsAll /\ RecordsAll /\ ArrivalsFresh

\* Time passes: what has arrived stays, what arrives does so from t on.
Passes(arr, t, arr2, t2) ==
    /\ t <= t2
    /\ \A m \in Messages : /\ arr[m] <= t => arr2[m] = arr[m]
                           /\ arr2[m] <= t2 => arr[m] <= t \/ arr2[m] >= t

LEMMA Posts ==
    /\ EmailBoxes \subseteq Boxes /\ SmsBox \in Boxes /\ SmsBox \notin EmailBoxes
    /\ \A m \in Messages : BoxOf(m) \in Boxes /\ (BoxOf(m) \in EmailBoxes <=> ~ Sms(m))
    /\ \A m \in Messages : ~ Sms(m) => Dated(m)
    /\ \A xs \in SUBSET Sightings : Msgs(xs) \in SUBSET Messages /\ IsFiniteSet(Msgs(xs))
<1>1. /\ EmailBoxes \subseteq Boxes /\ SmsBox \in Boxes /\ SmsBox \notin EmailBoxes
      /\ \A b \in Boxes : b \in EmailBoxes <=> b # SmsBox
  BY BoxesAssumption DEF Boxes
<1>2. \A m \in Messages : BoxOf(m) \in Boxes /\ (BoxOf(m) \in EmailBoxes <=> ~ Sms(m))
  BY <1>1, KindAssumption DEF BoxOf, Sms
<1>3. \A m \in Messages : ~ Sms(m) => Dated(m)
  BY KindAssumption DEF Sms, Dated
<1>4. \A xs \in SUBSET Sightings : Msgs(xs) \in SUBSET Messages
  BY DEF Msgs, Sightings
<1>5. \A xs \in SUBSET Sightings : IsFiniteSet(Msgs(xs))
  BY <1>4, MessagesAssumption, FS_Subset
<1> QED
  BY <1>1, <1>2, <1>3, <1>4, <1>5

LEMMA OfStays ==
    ASSUME NEW arr, NEW t, NEW arr2, NEW t2 \in Nat, Passes(arr, t, arr2, t2), t \in Nat,
           arr \in [Messages -> Nat], NEW xs \in SUBSET Sightings, NEW b, Of(arr, t, xs, b)
    PROVE  Of(arr2, t2, xs, b)
<1>1. \A x \in xs : x.msg \in Messages
  BY DEF Sightings
<1> QED
  BY <1>1 DEF Of, In, Passes

LEMMA ListedStays ==
    ASSUME NEW arr, NEW t \in Nat, NEW arr2, NEW t2 \in Nat, Passes(arr, t, arr2, t2),
           arr \in [Messages -> Nat], arr2 \in [Messages -> Nat], NEW xs \in SUBSET Sightings,
           NEW b, Of(arr, t, xs, b), NEW st \in Nat, st <= t, Listed(arr, t, xs, st, b)
    PROVE  Listed(arr2, t2, xs, st, b)
<1>1. \A x \in xs : x.msg \in Messages /\ arr2[x.msg] = arr[x.msg]
  BY DEF Sightings, Of, In, Passes
<1>2. SUFFICES ASSUME NEW n \in Messages, In(arr2, t2, b, n), n \notin Msgs(xs)
               PROVE  arr2[n] >= st \/ Full(arr2, xs, n)
  BY DEF Listed
<1>3. CASE arr[n] <= t
  <2>1. arr2[n] = arr[n] /\ In(arr, t, b, n)
    BY <1>2, <1>3 DEF Passes, In
  <2>2. arr[n] >= st \/ Full(arr, xs, n)
    BY <1>2, <2>1 DEF Listed
  <2>3. Full(arr, xs, n) => Full(arr2, xs, n)
    BY <1>1, <2>1 DEF Full, Later
  <2> QED
    BY <2>1, <2>2, <2>3
<1>4. CASE ~ (arr[n] <= t)
  <2>1. arr2[n] >= t
    BY <1>2, <1>4 DEF Passes, In
  <2> QED
    BY <2>1
<1> QED
  BY <1>3, <1>4

LEMMA FollowsStays ==
    ASSUME NEW arr, NEW t, NEW arr2, NEW t2, Passes(arr, t, arr2, t2),
           NEW xs \in SUBSET Sightings, NEW ys \in SUBSET Sightings, NEW b,
           Of(arr, t, xs, b), Of(arr, t, ys, b), Follows(arr, xs, ys)
    PROVE  Follows(arr2, xs, ys)
<1>1. \A x \in xs \cup ys : x.msg \in Messages /\ arr2[x.msg] = arr[x.msg]
  BY DEF Sightings, Of, In, Passes
<1> QED
  BY <1>1 DEF Follows, Later

LEMMA FreshStays ==
    ASSUME NEW arr, NEW t \in Nat, NEW arr2, NEW t2 \in Nat, Passes(arr, t, arr2, t2),
           arr \in [Messages -> Nat], NEW ms \in SUBSET Messages, NEW st,
           FreshIn(arr, t, ms, st)
    PROVE  FreshIn(arr2, t2, ms, st)
  BY DEF FreshIn, Passes

\* Of two messages of a mailbox one is newer.
LEMMA OneNewer ==
    ASSUME NEW arr \in [Messages -> Nat], NEW m \in Messages, NEW n \in Messages,
           BoxOf(m) = BoxOf(n), m # n
    PROVE  Later(arr, m, n) \/ Later(arr, n, m)
<1>1. Uid[m] \in Nat /\ Uid[n] \in Nat /\ Uid[m] # Uid[n]
  BY MessagesAssumption DEF BoxOf
<1> QED
  BY <1>1 DEF Later

\* What a listing of an IMAP mailbox leaves out is older than what fills it.
LEMMA ListingListed ==
    ASSUME TypeOK, NEW b \in EmailBoxes, NEW ms \in Listings(b), NEW st \in Nat
    PROVE  LET xs == {Sight(m) : m \in ms}
           IN  /\ xs \in SUBSET Sightings /\ Msgs(xs) = ms
               /\ Of(arrived, now, xs, b) /\ Listed(arrived, now, xs, st, b)
               /\ Cardinality(ms) <= PerProviderMax
               /\ \A m \in ms, n \in Messages \ ms :
                     In(arrived, now, b, n) => ~ Later(arrived, n, m)
<1> DEFINE xs == {Sight(m) : m \in ms}
           all == {n \in Messages : BoxOf(n) = b /\ Here(n)}
<1>1. ms \subseteq all /\ all \subseteq Messages /\ b # SmsBox /\ IsListing(b, ms)
  BY Posts DEF Listings
<1>2. arrived \in [Messages -> Nat] /\ now \in Nat /\ PerProviderMax \in Nat
  BY Numbers, CapsAssumption DEF TypeOK, PollTypeOK
<1>3. \A m \in ms : m \in Messages /\ Sight(m) \in Sightings /\ Sight(m).msg = m
  BY <1>1 DEF Sight, Sightings
<1>4. xs \in SUBSET Sightings /\ Msgs(xs) = ms
  BY <1>3 DEF Msgs
<1>5. Of(arrived, now, xs, b)
  BY <1>1, <1>3 DEF Of, In, Here
<1>6. /\ \A m \in ms, n \in Messages \ ms : n \in all => ~ Newer(n, m)
      /\ Cardinality(ms) = IF Cardinality(all) < PerProviderMax THEN Cardinality(all) ELSE PerProviderMax
  BY <1>1 DEF IsListing
<1>7. \A n \in Messages : In(arrived, now, b, n) <=> n \in all
  BY DEF In, Here
<1>8. \A m \in ms, n \in Messages \ ms : In(arrived, now, b, n) => ~ Later(arrived, n, m)
  BY <1>6, <1>7 DEF Newer, Later
<1>9. /\ IsFiniteSet(all) /\ IsFiniteSet(ms) /\ Cardinality(all) \in Nat /\ Cardinality(ms) \in Nat
      /\ Cardinality(ms) <= PerProviderMax
  BY <1>1, <1>2, <1>6, MessagesAssumption, FS_Subset, FS_CardinalityType
<1>10. Listed(arrived, now, xs, st, b)
  <2> SUFFICES ASSUME NEW n \in Messages, In(arrived, now, b, n), n \notin ms
               PROVE  Full(arrived, xs, n)
    BY <1>4 DEF Listed
  <2>1. n \in all
    BY <1>7
  <2>2. Cardinality(ms) = PerProviderMax
    <3>1. Cardinality(ms) # Cardinality(all)
      BY <1>1, <1>9, <2>1, FS_Subset
    <3> QED
      BY <1>6, <3>1
  <2>3. \A m \in ms : Later(arrived, m, n)
    <3> SUFFICES ASSUME NEW m \in ms PROVE Later(arrived, m, n)
      OBVIOUS
    <3>1. BoxOf(m) = BoxOf(n) /\ m # n /\ m \in Messages
      BY <1>1, <2>1
    <3> QED
      BY <1>2, <1>8, <3>1, OneNewer
  <2> QED
    BY <1>3, <1>4, <2>2, <2>3 DEF Full
<1> QED
  BY <1>4, <1>5, <1>8, <1>9, <1>10

\* Steps of the sessions and of the worker: nothing arrives and no time passes.
LEMMA Standing ==
    ASSUME TypeOK
    PROVE  /\ now \in Nat /\ arrived \in [Messages -> Nat] /\ Sessions = Clients
           /\ MaxTime \in Nat /\ Never = MaxTime + 1 /\ now <= MaxTime
           /\ \A s \in Sessions : /\ start[s] \in Nat /\ hits[s] \in SUBSET Sightings
                                  /\ \A b \in Boxes : /\ batch[s][b] \in SUBSET Sightings
                                                      /\ todo[s][b] \in SUBSET Sightings
           /\ \A s \in Sessions, b \in Boxes :
                  /\ baseline[s][b].entries \in SUBSET Sightings
                  /\ stored.baseline[s][b].entries \in SUBSET Sightings
           /\ \A s \in Sessions : arrivals[s] \in SUBSET Messages
                                  /\ stored.arrivals[s] \in SUBSET Messages
<1>1. /\ now \in Nat /\ arrived \in [Messages -> Nat] /\ Sessions = Clients
      /\ MaxTime \in Nat /\ Never = MaxTime + 1 /\ now <= MaxTime
  BY Numbers DEF TypeOK, PollTypeOK
<1>2. \A s \in Sessions : /\ start[s] \in Nat /\ hits[s] \in SUBSET Sightings
                          /\ \A b \in Boxes : /\ batch[s][b] \in SUBSET Sightings
                                              /\ todo[s][b] \in SUBSET Sightings
  BY <1>1 DEF TypeOK, PollTypeOK
<1>3. \A s \in Sessions, b \in Boxes :
          baseline[s][b] \in Baselines /\ stored.baseline[s][b] \in Baselines
  BY DEF TypeOK
<1>4. \A s \in Sessions : arrivals[s] \in SUBSET Messages /\ stored.arrivals[s] \in SUBSET Messages
  BY DEF TypeOK
<1> QED
  BY <1>1, <1>2, <1>3, <1>4 DEF Baselines

\* The end of a poll, in a session or by the worker's death.
LEMMA Cleared ==
    ASSUME NEW b \in Boxes
    PROVE  NoBatch[b] = {} /\ Quiet[b] \notin Active
  BY DEF NoBatch, Quiet, Active

LEMMA EmptyLists ==
    /\ Cardinality(Msgs({})) = 0 /\ 0 <= PerProviderMax
    /\ \A arr, t, b : Of(arr, t, {}, b)
    /\ \A arr, xs : Follows(arr, xs, {})
<1>1. Msgs({}) = {}
  BY DEF Msgs
<1> QED
  BY <1>1, FS_EmptySet, CapsAssumption DEF Of, Follows

LEMMA SavedIs ==
    ASSUME Persist
    PROVE  stored'.baseline = baseline' /\ stored'.arrivals = arrivals'
  BY DEF Persist

\* The world.
LEMMA WorldPasses ==
    ASSUME TypeOK, Clock, World
    PROVE  Passes(arrived, now, arrived', now') /\ now' \in Nat /\ arrived' \in [Messages -> Nat]
<1>1. now \in Nat /\ arrived \in [Messages -> Nat] /\ Never = MaxTime + 1 /\ MaxTime \in Nat
      /\ now <= MaxTime
  BY Standing
<1>2. CASE Tick
  BY <1>1, <1>2 DEF Tick, Passes, Clock
<1>3. ASSUME NEW m \in Messages, Arrive(m)
      PROVE  Passes(arrived, now, arrived', now') /\ now' \in Nat /\ arrived' \in [Messages -> Nat]
  BY <1>1, <1>3 DEF Arrive, Here, Passes
<1>4. CASE \E m \in Messages : ReadByUser(m)
  BY <1>1, <1>4 DEF ReadByUser, Passes
<1> QED
  BY <1>2, <1>3, <1>4 DEF World

LEMMA WorldQuiet ==
    ASSUME World, UNCHANGED gateVars
    PROVE  /\ UNCHANGED <<mem, loaded, disk, adapter, todo, batch, hits, since>>
           /\ UNCHANGED <<phase, start, baseline, arrivals, stored, snapshot, poll, fresh, taken>>
  BY DEF World, Tick, Arrive, ReadByUser, gateVars

LEMMA WorldGate ==
    ASSUME Gate, World, UNCHANGED gateVars
    PROVE  Clock' /\ Shape' /\ Books' /\ ListsAll' /\ RecordsAll' /\ ArrivalsFresh'
<1>1. /\ Passes(arrived, now, arrived', now') /\ now' \in Nat /\ arrived' \in [Messages -> Nat]
      /\ UNCHANGED <<adapter, todo, batch, hits>>
      /\ UNCHANGED <<phase, start, baseline, arrivals, stored, poll>>
      /\ now <= now'
  BY WorldPasses, WorldQuiet DEF Gate, Passes
<1>2. /\ now \in Nat /\ arrived \in [Messages -> Nat] /\ EmailBoxes \subseteq Boxes
      /\ \A s \in Sessions : start[s] \in Nat
      /\ \A s \in Sessions, b \in Boxes : /\ batch[s][b] \in SUBSET Sightings
                                          /\ baseline[s][b].entries \in SUBSET Sightings
                                          /\ stored.baseline[s][b].entries \in SUBSET Sightings
      /\ \A s \in Sessions : arrivals[s] \in SUBSET Messages /\ stored.arrivals[s] \in SUBSET Messages
  BY Standing, Posts DEF Gate
<1>3. Clock'
  <2>1. \A m \in Messages : arrived'[m] <= now' \/ arrived'[m] = Never
    <3>1. CASE Tick
      BY <1>2, <3>1 DEF Tick, Gate, Clock
    <3>2. ASSUME NEW m \in Messages, Arrive(m) PROVE \A n \in Messages : arrived'[n] <= now' \/ arrived'[n] = Never
      BY <1>2, <3>2 DEF Arrive, Gate, Clock
    <3>3. ASSUME NEW m \in Messages, ReadByUser(m) PROVE arrived' = arrived /\ now' = now
      BY <3>3 DEF ReadByUser
    <3> QED
      BY <3>1, <3>2, <3>3 DEF World, Gate, Clock
  <2> QED
    BY <1>1, <1>2, <2>1 DEF Gate, Clock
<1>4. Shape'
  BY <1>1 DEF Gate, Shape
<1>5. \A s \in Sessions, b \in Boxes : Of(arrived, now, batch[s][b], b) /\ Of(arrived', now', batch[s][b], b)
  BY <1>1, <1>2, OfStays DEF Gate, Books
<1>6. Books'
  BY <1>1, <1>5 DEF Gate, Books
<1>7. ListsAll'
  <2> SUFFICES ASSUME NEW s \in Sessions, NEW b \in EmailBoxes, adapter[s][b] \in Active,
                      Listed(arrived, now, batch[s][b], start[s], b)
               PROVE  Listed(arrived', now', batch[s][b], start[s], b)
    BY <1>1 DEF Gate, ListsAll
  <2>1. start[s] <= now
    BY <1>2 DEF Gate, Clock, Shape
  <2> QED
    BY <1>1, <1>2, <1>5, <2>1, ListedStays
<1>8. RecordsAll'
  <2>1. ASSUME NEW s \in Sessions, NEW b \in EmailBoxes, NEW line \in Baselines,
               Record(arrived, now, line, start[s], b, batch[s][b]), line.set => phase[s] # "unborn"
        PROVE  Record(arrived', now', line, start[s], b, batch[s][b])
    <3> SUFFICES ASSUME line.set
                 PROVE  /\ Of(arrived', now', line.entries, b)
                        /\ Listed(arrived', now', line.entries, start[s], b)
                        /\ Follows(arrived', line.entries, batch[s][b])
      BY DEF Record
    <3>1. /\ Of(arrived, now, line.entries, b) /\ Listed(arrived, now, line.entries, start[s], b)
          /\ Follows(arrived, line.entries, batch[s][b]) /\ line.entries \in SUBSET Sightings
          /\ start[s] <= now /\ start[s] \in Nat
      BY <1>2, <2>1 DEF Record, Baselines, Gate, Clock
    <3>2. Of(arrived', now', line.entries, b)
      BY <1>1, <1>2, <3>1, OfStays
    <3>3. Listed(arrived', now', line.entries, start[s], b)
      BY <1>1, <1>2, <3>1, ListedStays
    <3>4. Follows(arrived', line.entries, batch[s][b])
      BY <1>1, <1>2, <1>5, <3>1, FollowsStays
    <3> QED
      BY <3>2, <3>3, <3>4
  <2>2. ASSUME NEW s \in Sessions, NEW b \in EmailBoxes
        PROVE  /\ baseline[s][b] \in Baselines /\ stored.baseline[s][b] \in Baselines
               /\ baseline[s][b].set \/ stored.baseline[s][b].set => phase[s] # "unborn"
    BY <1>2 DEF Gate, TypeOK, Shape, Unset
  <2>3. ASSUME NEW s \in Sessions, NEW b \in EmailBoxes
        PROVE  /\ Record(arrived', now', baseline[s][b], start[s], b, batch[s][b])
               /\ Record(arrived', now', stored.baseline[s][b], start[s], b, batch[s][b])
    BY <2>1, <2>2 DEF Gate, RecordsAll
  <2> QED
    BY <1>1, <2>3 DEF RecordsAll
<1>9. ArrivalsFresh'
  <2>1. ASSUME NEW s \in Sessions
        PROVE  /\ FreshIn(arrived', now', arrivals[s], start[s])
               /\ FreshIn(arrived', now', stored.arrivals[s], start[s])
    BY <1>1, <1>2, FreshStays DEF Gate, ArrivalsFresh
  <2> QED
    BY <1>1, <2>1 DEF ArrivalsFresh
<1> QED
  BY <1>3, <1>4, <1>6, <1>7, <1>8, <1>9

\* The steps of polls.
LEMMA BeginGate ==
    ASSUME Gate, NEW s \in Sessions, Poll(s)
    PROVE  Clock' /\ Shape' /\ Books' /\ ListsAll' /\ RecordsAll' /\ ArrivalsFresh'
<1>1. /\ UNCHANGED <<arrived, now, phase, start, baseline, arrivals, stored>>
      /\ poll' = [poll EXCEPT ![s] = "polling"] /\ phase[s] = "open" /\ poll[s] = "idle"
      /\ batch' = [batch EXCEPT ![s] = NoBatch] /\ todo' = [todo EXCEPT ![s] = NoBatch]
      /\ hits' = [hits EXCEPT ![s] = {}]
  BY DEF Poll, BeginPoll
<1>2. /\ \A b \in Boxes : adapter'[s][b] \in {"asked", "none"}
      /\ \A r \in Sessions : r # s => adapter'[r] = adapter[r]
  BY Standing DEF Gate, TypeOK, PollTypeOK, Poll, BeginPoll
<1>3. /\ \A r \in Sessions : r # s => batch'[r] = batch[r] /\ todo'[r] = todo[r] /\ hits'[r] = hits[r]
                                      /\ poll'[r] = poll[r]
      /\ batch'[s] = NoBatch /\ todo'[s] = NoBatch /\ hits'[s] = {} /\ poll'[s] = "polling"
  BY <1>1, Standing DEF Gate, TypeOK, PollTypeOK
<1>4. \A b \in Boxes : batch'[s][b] = {} /\ todo'[s][b] = {}
  BY <1>3, Cleared
<1>5. EmailBoxes \subseteq Boxes
  BY Posts
<1>6. Clock' /\ ArrivalsFresh'
  BY <1>1 DEF Gate, Clock, ArrivalsFresh
<1>7. Shape'
  BY <1>1, <1>2, <1>3 DEF Gate, Shape, Active
<1>8. Books'
  <2> SUFFICES ASSUME NEW r \in Sessions
               PROVE  /\ \A b \in Boxes :
                            /\ Of(arrived', now', batch'[r][b], b) /\ todo'[r][b] \subseteq batch'[r][b]
                            /\ adapter'[r][b] \notin Active => batch'[r][b] = {}
                      /\ \A x \in hits'[r] : x \in batch'[r][BoxOf(x.msg)] /\ Kind[x.msg].hit
    BY DEF Books
  <2>1. CASE r = s
    BY <1>3, <1>4, <2>1, EmptyLists
  <2>2. CASE r # s
    BY <1>1, <1>2, <1>3, <2>2 DEF Gate, Books
  <2> QED
    BY <2>1, <2>2
<1>9. ListsAll'
  <2> SUFFICES ASSUME NEW r \in Sessions, NEW b \in EmailBoxes
               PROVE  /\ adapter'[r][b] \in Active => Listed(arrived', now', batch'[r][b], start'[r], b)
                      /\ Cardinality(Msgs(batch'[r][b])) <= PerProviderMax
    BY DEF ListsAll
  <2>1. CASE r = s
    BY <1>2, <1>4, <1>5, <2>1, EmptyLists DEF Active
  <2>2. CASE r # s
    BY <1>1, <1>2, <1>3, <2>2 DEF Gate, ListsAll
  <2> QED
    BY <2>1, <2>2
<1>10. RecordsAll'
  <2> SUFFICES ASSUME NEW r \in Sessions, NEW b \in EmailBoxes
               PROVE  /\ Record(arrived, now, baseline[r][b], start[r], b, batch'[r][b])
                      /\ Record(arrived, now, stored.baseline[r][b], start[r], b, batch'[r][b])
    BY <1>1 DEF RecordsAll
  <2>1. /\ Record(arrived, now, baseline[r][b], start[r], b, batch[r][b])
        /\ Record(arrived, now, stored.baseline[r][b], start[r], b, batch[r][b])
    BY DEF Gate, RecordsAll
  <2>2. CASE r = s
    BY <1>4, <1>5, <2>1, <2>2, EmptyLists DEF Record
  <2>3. CASE r # s
    BY <1>3, <2>1, <2>3
  <2> QED
    BY <2>2, <2>3
<1> QED
  BY <1>6, <1>7, <1>8, <1>9, <1>10

LEMMA ArrivesGate ==
    ASSUME Gate, NEW s \in Sessions, poll[s] = "polling", NEW b \in Boxes, BatchArrives(s, b),
           UNCHANGED <<phase, start, baseline, arrivals, stored, poll>>
    PROVE  Clock' /\ Shape' /\ Books' /\ ListsAll' /\ RecordsAll' /\ ArrivalsFresh'
<1>1. PICK ms \in Listings(b) :
          /\ batch' = [batch EXCEPT ![s][b] = {Sight(m) : m \in ms}]
          /\ todo' = [todo EXCEPT ![s][b] = {Sight(m) : m \in ms}]
  BY DEF BatchArrives
<1> DEFINE xs == {Sight(m) : m \in ms}
<1>2. /\ UNCHANGED <<arrived, now, hits>> /\ UNCHANGED <<phase, start, baseline, arrivals, stored, poll>>
      /\ adapter[s][b] = "asked" /\ adapter' = [adapter EXCEPT ![s][b] = "reading"]
  BY DEF BatchArrives
<1>3. TypeOK /\ Sessions = Clients /\ EmailBoxes \subseteq Boxes /\ start[s] \in Nat
      /\ SmsBox \notin EmailBoxes
  BY Standing, Posts DEF Gate
<1>4. /\ \A r \in Sessions, d \in Boxes : r # s \/ d # b =>
             /\ batch'[r][d] = batch[r][d] /\ todo'[r][d] = todo[r][d] /\ adapter'[r][d] = adapter[r][d]
      /\ batch'[s][b] = xs /\ todo'[s][b] = xs /\ adapter'[s][b] = "reading"
  BY <1>1, <1>2, <1>3 DEF TypeOK, PollTypeOK
<1>5. ms \subseteq {n \in Messages : BoxOf(n) = b /\ Here(n)}
  BY DEF Listings
<1>6. xs \in SUBSET Sightings /\ Msgs(xs) = ms /\ Of(arrived, now, xs, b)
  <2>1. \A m \in ms : m \in Messages /\ Sight(m) \in Sightings /\ Sight(m).msg = m
    BY <1>5 DEF Sight, Sightings
  <2>2. xs \in SUBSET Sightings /\ Msgs(xs) = ms
    BY <2>1 DEF Msgs
  <2> QED
    BY <1>5, <2>1, <2>2 DEF Of, In, Here
<1>7. ASSUME b \in EmailBoxes
      PROVE  /\ Listed(arrived, now, xs, start[s], b) /\ Cardinality(ms) <= PerProviderMax
             /\ \A m \in ms, n \in Messages \ ms : In(arrived, now, b, n) => ~ Later(arrived, n, m)
  BY <1>3, <1>7, ListingListed
<1> HIDE DEF xs
<1>8. Clock' /\ ArrivalsFresh'
  BY <1>2 DEF Gate, Clock, ArrivalsFresh
<1>9. Shape'
  <2> SUFFICES ASSUME NEW r \in Sessions, NEW d \in Boxes
               PROVE  /\ poll[r] = "idle" => adapter'[r][d] \notin Active
                      /\ poll[r] = "polling" => adapter'[r][d] # "ok"
                      /\ poll[r] \in {"storing", "saving"} => adapter'[r][d] \notin {"asked", "reading"}
    BY <1>2 DEF Gate, Shape
  <2> QED
    BY <1>4 DEF Gate, Shape
<1>10. Books'
  <2>1. ASSUME NEW r \in Sessions, NEW d \in Boxes
        PROVE  /\ Of(arrived, now, batch'[r][d], d) /\ todo'[r][d] \subseteq batch'[r][d]
               /\ adapter'[r][d] \notin Active => batch'[r][d] = {}
    <3>1. CASE r = s /\ d = b
      BY <1>4, <1>6, <3>1 DEF Active
    <3>2. CASE r # s \/ d # b
      BY <1>4, <3>2 DEF Gate, Books
    <3> QED
      BY <3>1, <3>2
  <2>2. ASSUME NEW r \in Sessions, NEW x \in hits[r]
        PROVE  x \in batch'[r][BoxOf(x.msg)] /\ Kind[x.msg].hit
    <3>1. x \in batch[r][BoxOf(x.msg)] /\ Kind[x.msg].hit /\ BoxOf(x.msg) \in Boxes
      BY Standing, Posts DEF Gate, Books, Sightings
    <3>2. batch[s][b] = {}
      BY <1>2 DEF Gate, Books, Active
    <3> QED
      BY <1>4, <3>1, <3>2
  <2> QED
    BY <1>2, <2>1, <2>2 DEF Books
<1>11. ListsAll'
  <2> SUFFICES ASSUME NEW r \in Sessions, NEW d \in EmailBoxes
               PROVE  /\ adapter'[r][d] \in Active => Listed(arrived, now, batch'[r][d], start[r], d)
                      /\ Cardinality(Msgs(batch'[r][d])) <= PerProviderMax
    BY <1>2 DEF ListsAll
  <2>1. CASE r = s /\ d = b
    BY <1>4, <1>6, <1>7, <2>1
  <2>2. CASE r # s \/ d # b
    BY <1>3, <1>4, <2>2 DEF Gate, ListsAll
  <2> QED
    BY <2>1, <2>2
<1>12. RecordsAll'
  <2> SUFFICES ASSUME NEW r \in Sessions, NEW d \in EmailBoxes
               PROVE  /\ Record(arrived, now, baseline[r][d], start[r], d, batch'[r][d])
                      /\ Record(arrived, now, stored.baseline[r][d], start[r], d, batch'[r][d])
    BY <1>2 DEF RecordsAll
  <2>0. /\ Record(arrived, now, baseline[r][d], start[r], d, batch[r][d])
        /\ Record(arrived, now, stored.baseline[r][d], start[r], d, batch[r][d])
    BY DEF Gate, RecordsAll
  <2>1. CASE r = s /\ d = b
    <3>1. ASSUME NEW es \in SUBSET Sightings, Of(arrived, now, es, b)
          PROVE  Follows(arrived, es, xs)
      <4> SUFFICES ASSUME NEW e \in es, NEW x \in xs, Later(arrived, e.msg, x.msg)
                   PROVE  e.msg \in ms
        BY <1>6 DEF Follows
      <4>1. e.msg \in Messages /\ In(arrived, now, b, e.msg) /\ x.msg \in ms
        BY <1>6, <3>1 DEF Sightings, Of, Msgs
      <4> QED
        BY <1>7, <2>1, <4>1
    <3>2. baseline[r][d].entries \in SUBSET Sightings /\ stored.baseline[r][d].entries \in SUBSET Sightings
      BY <1>3, Standing
    <3> QED
      BY <1>4, <2>0, <2>1, <3>1, <3>2 DEF Record
  <2>2. CASE r # s \/ d # b
    BY <1>3, <1>4, <2>0, <2>2
  <2> QED
    BY <2>1, <2>2
<1> QED
  BY <1>8, <1>9, <1>10, <1>11, <1>12

LEMMA FailsGate ==
    ASSUME Gate, NEW s \in Sessions, poll[s] = "polling", NEW b \in Boxes, AdapterFails(s, b),
           UNCHANGED <<phase, start, baseline, arrivals, stored, poll>>
    PROVE  Clock' /\ Shape' /\ Books' /\ ListsAll' /\ RecordsAll' /\ ArrivalsFresh'
<1>1. /\ UNCHANGED <<arrived, now, todo, batch, hits>>
      /\ UNCHANGED <<phase, start, baseline, arrivals, stored, poll>>
      /\ adapter[s][b] = "asked"
      /\ \E how \in {"failed", "expired"} : adapter' = [adapter EXCEPT ![s][b] = how]
  BY DEF AdapterFails
<1>2. TypeOK /\ Sessions = Clients /\ EmailBoxes \subseteq Boxes
  BY Standing, Posts DEF Gate
<1>3. /\ \A r \in Sessions, d \in Boxes : r # s \/ d # b => adapter'[r][d] = adapter[r][d]
      /\ adapter'[s][b] \notin Active \cup {"asked"}
  BY <1>1, <1>2 DEF TypeOK, PollTypeOK, Active
<1>4. Clock' /\ ArrivalsFresh' /\ RecordsAll'
  BY <1>1 DEF Gate, Clock, ArrivalsFresh, RecordsAll
<1>5. Shape'
  <2> SUFFICES ASSUME NEW r \in Sessions, NEW d \in Boxes
               PROVE  /\ poll[r] = "idle" => adapter'[r][d] \notin Active
                      /\ poll[r] = "polling" => adapter'[r][d] # "ok"
                      /\ poll[r] \in {"storing", "saving"} => adapter'[r][d] \notin {"asked", "reading"}
    BY <1>1 DEF Gate, Shape
  <2> QED
    BY <1>3 DEF Gate, Shape, Active
<1>6. Books'
  BY <1>1, <1>3 DEF Gate, Books, Active
<1>7. ListsAll'
  BY <1>1, <1>2, <1>3 DEF Gate, ListsAll
<1> QED
  BY <1>4, <1>5, <1>6, <1>7

LEMMA ProcessGate ==
    ASSUME Gate, NEW s \in Sessions, poll[s] = "polling", NEW b \in Boxes, Process(s, b),
           UNCHANGED <<phase, start, baseline, arrivals, stored, poll>>
    PROVE  Clock' /\ Shape' /\ Books' /\ ListsAll' /\ RecordsAll' /\ ArrivalsFresh'
<1>1. PICK x \in todo[s][b] :
          /\ todo' = [todo EXCEPT ![s][b] = @ \ {x}]
          /\ hits' = IF Kind[x.msg].hit THEN [hits EXCEPT ![s] = @ \cup {x}] ELSE hits
  BY DEF Process
<1>2. UNCHANGED <<arrived, now, batch, adapter>>
      /\ UNCHANGED <<phase, start, baseline, arrivals, stored, poll>>
  BY DEF Process
<1>3. TypeOK /\ Sessions = Clients
  BY Standing DEF Gate
<1>4. Clock' /\ ArrivalsFresh' /\ RecordsAll' /\ ListsAll' /\ Shape'
  BY <1>2 DEF Gate, Clock, ArrivalsFresh, RecordsAll, ListsAll, Shape
<1>5. x \in batch[s][b] /\ BoxOf(x.msg) = b
  BY DEF Gate, Books, Of, In
<1>6. \A r \in Sessions, d \in Boxes : todo'[r][d] \subseteq todo[r][d]
  BY <1>1, <1>3 DEF TypeOK, PollTypeOK
<1>7. \A r \in Sessions : \A y \in hits'[r] :
          y \in hits[r] \/ (r = s /\ y = x /\ Kind[x.msg].hit)
  BY <1>1, <1>3 DEF TypeOK, PollTypeOK
<1>8. Books'
  <2>1. ASSUME NEW r \in Sessions, NEW d \in Boxes
        PROVE  /\ Of(arrived, now, batch[r][d], d) /\ todo'[r][d] \subseteq batch[r][d]
               /\ adapter[r][d] \notin Active => batch[r][d] = {}
    BY <1>6 DEF Gate, Books
  <2>2. \A r \in Sessions : \A y \in hits'[r] : y \in batch[r][BoxOf(y.msg)] /\ Kind[y.msg].hit
    BY <1>5, <1>7 DEF Gate, Books
  <2> QED
    BY <1>2, <2>1, <2>2 DEF Books
<1> QED
  BY <1>4, <1>8

LEMMA AnsweredGate ==
    ASSUME Gate, NEW s \in Sessions, PollAnswered(s)
    PROVE  Clock' /\ Shape' /\ Books' /\ ListsAll' /\ RecordsAll' /\ ArrivalsFresh'
<1>1. /\ UNCHANGED <<arrived, now, batch>> /\ UNCHANGED <<phase, start, baseline, arrivals, stored>>
      /\ poll[s] = "polling" /\ Answered(s) /\ poll' = [poll EXCEPT ![s] = "storing"]
      /\ adapter' = [adapter EXCEPT ![s] =
                        [b \in Boxes |-> IF @[b] = "reading" THEN "ok" ELSE @[b]]]
      /\ todo' = [todo EXCEPT ![s] = NoBatch]
      /\ \E top \in SUBSET hits[s] : hits' = [hits EXCEPT ![s] = top]
  BY DEF PollAnswered
<1>2. TypeOK /\ Sessions = Clients /\ EmailBoxes \subseteq Boxes
  BY Standing, Posts DEF Gate
<1>3. /\ \A r \in Sessions : r # s => adapter'[r] = adapter[r] /\ todo'[r] = todo[r]
      /\ \A r \in Sessions : hits'[r] \subseteq hits[r]
      /\ \A b \in Boxes : adapter'[s][b] = IF adapter[s][b] = "reading" THEN "ok" ELSE adapter[s][b]
      /\ \A b \in Boxes : todo'[s][b] = {}
      /\ \A r \in Sessions : poll'[r] = IF r = s THEN "storing" ELSE poll[r]
  BY <1>1, <1>2, Cleared DEF TypeOK, PollTypeOK
<1>4. \A b \in Boxes : adapter[s][b] # "asked"
  BY <1>1 DEF Answered
<1>5. Clock' /\ ArrivalsFresh' /\ RecordsAll'
  BY <1>1 DEF Gate, Clock, ArrivalsFresh, RecordsAll
<1>6. Shape'
  <2> SUFFICES ASSUME NEW r \in Sessions
               PROVE  /\ phase[r] = "unborn" => poll'[r] = "idle"
                      /\ poll'[r] = "idle" => \A b \in Boxes : adapter'[r][b] \notin Active
                      /\ poll'[r] = "polling" => \A b \in Boxes : adapter'[r][b] # "ok"
                      /\ poll'[r] \in {"storing", "saving"} =>
                             \A b \in Boxes : adapter'[r][b] \notin {"asked", "reading"}
    BY <1>1 DEF Gate, Shape
  <2>1. CASE r = s
    BY <1>1, <1>3, <1>4, <2>1 DEF Gate, Shape
  <2>2. CASE r # s
    BY <1>3, <2>2 DEF Gate, Shape
  <2> QED
    BY <2>1, <2>2
<1>7. \A r \in Sessions, b \in Boxes : adapter'[r][b] \in Active <=> adapter[r][b] \in Active
  BY <1>3 DEF Active
<1>8. \A r \in Sessions, b \in Boxes : todo'[r][b] \subseteq todo[r][b]
  BY <1>3
<1>9. Books'
  <2>1. ASSUME NEW r \in Sessions, NEW d \in Boxes
        PROVE  /\ Of(arrived, now, batch[r][d], d) /\ todo'[r][d] \subseteq batch[r][d]
               /\ adapter'[r][d] \notin Active => batch[r][d] = {}
    BY <1>7, <1>8 DEF Gate, Books
  <2>2. \A r \in Sessions : \A y \in hits'[r] : y \in batch[r][BoxOf(y.msg)] /\ Kind[y.msg].hit
    BY <1>3 DEF Gate, Books
  <2> QED
    BY <1>1, <2>1, <2>2 DEF Books
<1>10. ListsAll'
  BY <1>1, <1>2, <1>7 DEF Gate, ListsAll
<1> QED
  BY <1>5, <1>6, <1>9, <1>10

\* A poll ends, having saved the sessions: the session may have been filled.
LEMMA EndGate ==
    ASSUME Gate, NEW s \in Sessions, Nothing(s), Persist, poll[s] # "idle",
           UNCHANGED <<baseline, arrivals, start>>,
           \A r \in Sessions : phase'[r] = phase[r] \/ (r = s /\ phase'[r] = "filled")
    PROVE  Clock' /\ Shape' /\ Books' /\ ListsAll' /\ RecordsAll' /\ ArrivalsFresh'
<1>1. /\ UNCHANGED <<arrived, now>> /\ poll' = [poll EXCEPT ![s] = "idle"]
      /\ adapter' = [adapter EXCEPT ![s] = Quiet] /\ todo' = [todo EXCEPT ![s] = NoBatch]
      /\ batch' = [batch EXCEPT ![s] = NoBatch] /\ hits' = [hits EXCEPT ![s] = {}]
      /\ stored'.baseline = baseline /\ stored'.arrivals = arrivals
  BY SavedIs DEF Nothing, EndPoll
<1>2. TypeOK /\ Sessions = Clients /\ EmailBoxes \subseteq Boxes
  BY Standing, Posts DEF Gate
<1>3. /\ \A r \in Sessions : r # s => /\ adapter'[r] = adapter[r] /\ todo'[r] = todo[r]
                                     /\ batch'[r] = batch[r] /\ hits'[r] = hits[r]
                                     /\ poll'[r] = poll[r]
      /\ poll'[s] = "idle" /\ hits'[s] = {}
      /\ \A b \in Boxes : /\ adapter'[s][b] \notin Active
                          /\ todo'[s][b] = {} /\ batch'[s][b] = {}
  BY <1>1, <1>2, Cleared DEF TypeOK, PollTypeOK
<1>4. phase[s] # "unborn"
  BY DEF Gate, Shape
<1>5. Clock'
  BY <1>1, <1>4 DEF Gate, Clock
<1>6. Shape'
  <2> SUFFICES ASSUME NEW r \in Sessions
               PROVE  /\ phase'[r] = "unborn" =>
                             /\ poll'[r] = "idle" /\ arrivals[r] = {}
                             /\ \A b \in Boxes : baseline[r][b] = Unset
                      /\ poll'[r] = "idle" => \A b \in Boxes : adapter'[r][b] \notin Active
                      /\ poll'[r] = "polling" => \A b \in Boxes : adapter'[r][b] # "ok"
                      /\ poll'[r] \in {"storing", "saving"} =>
                             \A b \in Boxes : adapter'[r][b] \notin {"asked", "reading"}
    BY <1>1 DEF Shape
  <2>1. CASE r = s
    BY <1>3, <1>4, <2>1
  <2>2. CASE r # s
    BY <1>3, <2>2 DEF Gate, Shape
  <2> QED
    BY <2>1, <2>2
<1>7. Books'
  <2> SUFFICES ASSUME NEW r \in Sessions
               PROVE  /\ \A b \in Boxes :
                            /\ Of(arrived', now', batch'[r][b], b) /\ todo'[r][b] \subseteq batch'[r][b]
                            /\ adapter'[r][b] \notin Active => batch'[r][b] = {}
                      /\ \A x \in hits'[r] : x \in batch'[r][BoxOf(x.msg)] /\ Kind[x.msg].hit
    BY DEF Books
  <2>1. CASE r = s
    BY <1>3, <2>1, EmptyLists
  <2>2. CASE r # s
    BY <1>1, <1>3, <2>2 DEF Gate, Books
  <2> QED
    BY <2>1, <2>2
<1>8. ListsAll'
  <2> SUFFICES ASSUME NEW r \in Sessions, NEW b \in EmailBoxes
               PROVE  /\ adapter'[r][b] \in Active => Listed(arrived, now, batch'[r][b], start[r], b)
                      /\ Cardinality(Msgs(batch'[r][b])) <= PerProviderMax
    BY <1>1 DEF ListsAll
  <2>1. CASE r = s
    BY <1>2, <1>3, <2>1, EmptyLists
  <2>2. CASE r # s
    BY <1>3, <2>2 DEF Gate, ListsAll
  <2> QED
    BY <2>1, <2>2
<1>9. RecordsAll'
  <2> SUFFICES ASSUME NEW r \in Sessions, NEW b \in EmailBoxes
               PROVE  Record(arrived, now, baseline[r][b], start[r], b, batch'[r][b])
    BY <1>1 DEF RecordsAll
  <2>0. Record(arrived, now, baseline[r][b], start[r], b, batch[r][b])
    BY DEF Gate, RecordsAll
  <2>1. CASE r = s
    BY <1>2, <1>3, <2>0, <2>1, EmptyLists DEF Record
  <2>2. CASE r # s
    BY <1>3, <2>0, <2>2
  <2> QED
    BY <2>1, <2>2
<1>10. ArrivalsFresh'
  BY <1>1 DEF Gate, ArrivalsFresh
<1> QED
  BY <1>5, <1>6, <1>7, <1>8, <1>9, <1>10

LEMMA StartGate ==
    ASSUME Gate, NEW s \in Sessions, StartSession(s)
    PROVE  Clock' /\ Shape' /\ Books' /\ ListsAll' /\ RecordsAll' /\ ArrivalsFresh'
<1>1. /\ UNCHANGED <<arrived, now, adapter, todo, batch, hits>> /\ UNCHANGED <<baseline, arrivals, poll>>
      /\ phase[s] = "unborn" /\ phase' = [phase EXCEPT ![s] = "open"]
      /\ start' = [start EXCEPT ![s] = now]
      /\ stored'.baseline = baseline /\ stored'.arrivals = arrivals
  BY SavedIs DEF StartSession, pollVars
<1>2. TypeOK /\ now \in Nat /\ EmailBoxes \subseteq Boxes
  BY Standing, Posts DEF Gate
<1>3. /\ \A r \in Sessions : r # s => start'[r] = start[r] /\ phase'[r] = phase[r]
      /\ start'[s] = now /\ phase'[s] = "open"
  BY <1>1, <1>2 DEF TypeOK
<1>4. /\ arrivals[s] = {} /\ \A b \in Boxes : ~ baseline[s][b].set /\ adapter[s][b] \notin Active
  BY <1>1 DEF Gate, Shape, Unset
<1>5. Clock'
  BY <1>1, <1>2, <1>3 DEF Gate, Clock
<1>6. Shape'
  BY <1>1, <1>3 DEF Gate, Shape
<1>7. Books'
  BY <1>1 DEF Gate, Books
<1>8. ListsAll'
  BY <1>1, <1>2, <1>3, <1>4 DEF Gate, ListsAll
<1>9. RecordsAll'
  <2> SUFFICES ASSUME NEW r \in Sessions, NEW b \in EmailBoxes
               PROVE  Record(arrived, now, baseline[r][b], start'[r], b, batch[r][b])
    BY <1>1 DEF RecordsAll
  <2>1. CASE r = s
    BY <1>2, <1>4, <2>1 DEF Record
  <2>2. CASE r # s
    BY <1>3, <2>2 DEF Gate, RecordsAll
  <2> QED
    BY <2>1, <2>2
<1>10. ArrivalsFresh'
  <2> SUFFICES ASSUME NEW r \in Sessions PROVE FreshIn(arrived, now, arrivals[r], start'[r])
    BY <1>1 DEF ArrivalsFresh
  <2>1. CASE r = s
    BY <1>4, <2>1 DEF FreshIn
  <2>2. CASE r # s
    BY <1>3, <2>2 DEF Gate, ArrivalsFresh
  <2> QED
    BY <2>1, <2>2
<1> QED
  BY <1>5, <1>6, <1>7, <1>8, <1>9, <1>10

\* A session that stores a result is past its polling: what its boxes listed
\* is there.
LEMMA StoringBoxes ==
    ASSUME Gate, NEW s \in Sessions, poll[s] = "storing", NEW b \in Boxes, batch[s][b] # {}
    PROVE  adapter[s][b] = "ok"
  BY DEF Gate, Shape, Books, Active

LEMMA CommitGate ==
    ASSUME Gate, NEW s \in Sessions, CommitBaselines(s)
    PROVE  Clock' /\ Shape' /\ Books' /\ ListsAll' /\ RecordsAll' /\ ArrivalsFresh'
<1> DEFINE new == {b \in Boxes : Baselinable(s, b)}
           line(b) == [set |-> TRUE,
                       entries |-> IF Seeded(s, b) THEN snapshot.entries ELSE batch[s][b]]
<1>1. /\ UNCHANGED <<arrived, now, adapter, todo, batch, hits>>
      /\ UNCHANGED <<phase, start, arrivals, stored, poll>> /\ poll[s] = "storing"
      /\ baseline' = [baseline EXCEPT ![s] =
             [b \in Boxes |-> IF b \notin new THEN baseline[s][b] ELSE line(b)]]
  BY DEF CommitBaselines, pollVars
<1>2. TypeOK /\ EmailBoxes \subseteq Boxes /\ SmsBox \notin EmailBoxes
  BY Standing, Posts DEF Gate
<1> HIDE DEF new
<1>3. /\ \A r \in Sessions, b \in Boxes : r # s \/ b \notin new => baseline'[r][b] = baseline[r][b]
      /\ \A b \in Boxes : b \in new => baseline'[s][b] = line(b)
  BY <1>1, <1>2 DEF TypeOK
<1>4. Clock' /\ Books' /\ ListsAll' /\ ArrivalsFresh'
  BY <1>1 DEF Gate, Clock, Books, ListsAll, ArrivalsFresh
<1>5. Shape'
  <2>1. phase[s] # "unborn"
    BY <1>1 DEF Gate, Shape
  <2>2. \A r \in Sessions : phase[r] = "unborn" => \A b \in Boxes : baseline'[r][b] = Unset
    BY <1>3, <2>1 DEF Gate, Shape
  <2> QED
    BY <1>1, <2>2 DEF Gate, Shape
<1>6. RecordsAll'
  <2>1. ASSUME NEW r \in Sessions, NEW b \in EmailBoxes
        PROVE  Record(arrived, now, baseline'[r][b], start[r], b, batch[r][b])
    <3>0. b \in Boxes
      BY <1>2
    <3>1. CASE r # s \/ b \notin new
      BY <1>3, <3>0, <3>1 DEF Gate, RecordsAll
    <3>2. CASE r = s /\ b \in new
      <4>1. baseline'[r][b] = line(b)
        BY <1>3, <3>0, <3>2
      <4>2. line(b).entries = batch[s][b]
        BY <1>2 DEF Seeded
      <4>3. adapter[s][b] \in Active
        BY <3>2 DEF new, Baselinable, Succeeded, Active
      <4>4. Of(arrived, now, batch[s][b], b) /\ Listed(arrived, now, batch[s][b], start[s], b)
        BY <3>0, <4>3 DEF Gate, Books, ListsAll
      <4>5. Follows(arrived, batch[s][b], batch[s][b])
        BY DEF Follows, Msgs
      <4> HIDE DEF line
      <4> QED
        BY <3>2, <4>1, <4>2, <4>4, <4>5 DEF Record
    <3> QED
      BY <3>1, <3>2
  <2> QED
    BY <1>1, <2>1 DEF Gate, RecordsAll
<1> QED
  BY <1>4, <1>5, <1>6

\* What IsNewArrival lets through of an email came after the session began.
LEMMA NewEmailFresh ==
    ASSUME Gate, NEW s \in Sessions, NEW x \in hits[s], ~ Sms(x.msg), IsNewArrival(s, x)
    PROVE  arrived[x.msg] >= start[s]
<1> DEFINE b == BoxOf(x.msg)
           line == baseline[s][b]
           olds == Msgs(line.entries)
           ys == Msgs(batch[s][b])
<1>1. /\ x.msg \in Messages /\ b \in EmailBoxes /\ b \in Boxes /\ x \in batch[s][b]
      /\ line.entries \in SUBSET Sightings /\ batch[s][b] \in SUBSET Sightings
  BY Standing, Posts DEF Gate, Books, Sightings
<1>2. line.set /\ x.msg \notin olds
  BY DEF IsNewArrival, Msgs
<1>3. /\ Of(arrived, now, line.entries, b) /\ Listed(arrived, now, line.entries, start[s], b)
      /\ Follows(arrived, line.entries, batch[s][b]) /\ Cardinality(ys) <= PerProviderMax
  BY <1>1, <1>2 DEF Gate, RecordsAll, Record, ListsAll
<1>4. In(arrived, now, b, x.msg)
  BY <1>1 DEF Gate, Books, Of
<1>5. SUFFICES ASSUME Full(arrived, line.entries, x.msg) PROVE FALSE
  BY <1>1, <1>2, <1>3, <1>4 DEF Listed
<1>6. olds \subseteq ys /\ x.msg \in ys
  BY <1>1, <1>3, <1>5 DEF Follows, Full, Msgs
<1>7. /\ IsFiniteSet(ys) /\ IsFiniteSet(olds) /\ Cardinality(olds) = PerProviderMax
      /\ Cardinality(ys) \in Nat /\ PerProviderMax \in Nat
  BY <1>1, <1>5, Posts, FS_CardinalityType, CapsAssumption DEF Full
<1>8. Cardinality(olds) <= Cardinality(ys) /\ (Cardinality(ys) = Cardinality(olds) => ys = olds)
  BY <1>6, <1>7, FS_Subset
<1> QED
  BY <1>2, <1>3, <1>6, <1>7, <1>8

LEMMA AcceptedFresh ==
    ASSUME Gate, NEW s \in Sessions, NEW x \in hits[s], Accepted(s, x)
    PROVE  arrived[x.msg] <= now /\ FreshFor(s, x.msg)
<1>1. x.msg \in Messages /\ arrived[x.msg] <= now
  BY Standing, Posts DEF Gate, Books, Sightings, Of, In
<1>2. CASE BoxOf(x.msg) \in fresh[s] \/ Sms(x.msg)
  BY <1>1, <1>2 DEF Accepted
<1>3. CASE BoxOf(x.msg) \notin fresh[s] /\ ~ Sms(x.msg)
  <2>1. arrived[x.msg] >= start[s] /\ Dated(x.msg)
    BY <1>1, <1>3, NewEmailFresh, Posts DEF Accepted
  <2>2. arrived[x.msg] \in Nat /\ start[s] \in Nat /\ Grace \in Nat
    BY <1>1, Standing, WindowsAssumption DEF Gate
  <2> QED
    BY <1>1, <2>1, <2>2 DEF FreshFor
<1> QED
  BY <1>2, <1>3

LEMMA ClassifyGate ==
    ASSUME Gate, NEW s \in Sessions, Classify(s)
    PROVE  Clock' /\ Shape' /\ Books' /\ ListsAll' /\ RecordsAll' /\ ArrivalsFresh'
<1> DEFINE got == {x.msg : x \in {y \in hits[s] : Accepted(s, y)}}
<1>1. /\ UNCHANGED <<arrived, now, adapter, todo, batch, hits>>
      /\ UNCHANGED <<phase, start, baseline>>
      /\ poll[s] = "storing" /\ poll' = [poll EXCEPT ![s] = "saving"]
      /\ arrivals' = [arrivals EXCEPT ![s] = arrivals[s] \cup got]
      /\ stored'.baseline = baseline /\ stored'.arrivals = arrivals'
  BY SavedIs DEF Classify, pollVars
<1>2. TypeOK /\ EmailBoxes \subseteq Boxes
  BY Standing, Posts DEF Gate
<1>3. FreshIn(arrived, now, got, start[s])
  BY AcceptedFresh DEF FreshIn, FreshFor
<1> HIDE DEF got
<1>4. /\ \A r \in Sessions : r # s => arrivals'[r] = arrivals[r]
      /\ arrivals'[s] = arrivals[s] \cup got
      /\ \A r \in Sessions : poll'[r] = IF r = s THEN "saving" ELSE poll[r]
  BY <1>1, <1>2 DEF TypeOK
<1>5. Clock' /\ Books' /\ ListsAll'
  BY <1>1 DEF Gate, Clock, Books, ListsAll
<1>6. Shape'
  <2>1. phase[s] # "unborn"
    BY <1>1 DEF Gate, Shape
  <2> SUFFICES ASSUME NEW r \in Sessions
               PROVE  /\ phase[r] = "unborn" =>
                             /\ poll'[r] = "idle" /\ arrivals'[r] = {}
                             /\ \A b \in Boxes : baseline[r][b] = Unset
                      /\ poll'[r] = "idle" => \A b \in Boxes : adapter[r][b] \notin Active
                      /\ poll'[r] = "polling" => \A b \in Boxes : adapter[r][b] # "ok"
                      /\ poll'[r] \in {"storing", "saving"} =>
                             \A b \in Boxes : adapter[r][b] \notin {"asked", "reading"}
    BY <1>1 DEF Shape
  <2>2. CASE r = s
    BY <1>1, <1>4, <2>1, <2>2 DEF Gate, Shape
  <2>3. CASE r # s
    BY <1>4, <2>3 DEF Gate, Shape
  <2> QED
    BY <2>2, <2>3
<1>7. RecordsAll'
  BY <1>1 DEF Gate, RecordsAll
<1>8. ArrivalsFresh'
  <2>1. \A r \in Sessions : FreshIn(arrived, now, arrivals'[r], start[r])
    BY <1>3, <1>4 DEF Gate, ArrivalsFresh, FreshIn
  <2> QED
    BY <1>1, <2>1 DEF ArrivalsFresh
<1> QED
  BY <1>5, <1>6, <1>7, <1>8

LEMMA CrashGate ==
    ASSUME Gate, Crash
    PROVE  Clock' /\ Shape' /\ Books' /\ ListsAll' /\ RecordsAll' /\ ArrivalsFresh'
<1>1. /\ UNCHANGED <<arrived, now>> /\ UNCHANGED <<phase, start, stored>>
      /\ adapter' = [c \in Clients |-> Quiet] /\ todo' = [c \in Clients |-> NoBatch]
      /\ batch' = [c \in Clients |-> NoBatch] /\ hits' = [c \in Clients |-> {}]
      /\ baseline' = stored.baseline /\ arrivals' = stored.arrivals
      /\ poll' = [s \in Sessions |-> "idle"]
  BY DEF Crash, PollCrash
<1>2. Sessions = Clients /\ EmailBoxes \subseteq Boxes
  BY Standing, Posts DEF Gate
<1>3. \A s \in Sessions : /\ hits'[s] = {} /\ poll'[s] = "idle"
                          /\ \A b \in Boxes : /\ adapter'[s][b] \notin Active
                                              /\ todo'[s][b] = {} /\ batch'[s][b] = {}
  BY <1>1, <1>2, Cleared
<1>4. Clock' /\ ArrivalsFresh'
  BY <1>1 DEF Gate, Clock, ArrivalsFresh
<1>5. Shape'
  BY <1>1, <1>3 DEF Gate, Shape
<1>6. Books'
  BY <1>3, EmptyLists DEF Books
<1>7. ListsAll'
  BY <1>2, <1>3, EmptyLists DEF ListsAll
<1>8. RecordsAll'
  <2>1. ASSUME NEW s \in Sessions, NEW b \in EmailBoxes
        PROVE  Record(arrived, now, stored.baseline[s][b], start[s], b, batch'[s][b])
    <3>1. Record(arrived, now, stored.baseline[s][b], start[s], b, batch[s][b])
      BY DEF Gate, RecordsAll
    <3>2. batch'[s][b] = {}
      BY <1>2, <1>3
    <3> QED
      BY <3>1, <3>2 DEF Record, Follows
  <2> QED
    BY <1>1, <2>1 DEF RecordsAll
<1> QED
  BY <1>4, <1>5, <1>6, <1>7, <1>8

LEMMA GateStep == Gate /\ [Next]_vars => Gate'
<1> SUFFICES ASSUME Gate, [Next]_vars PROVE Gate'
  OBVIOUS
<1>0. TypeOK'
  BY TypeStep DEF Gate
<1>s. SUFFICES Clock' /\ Shape' /\ Books' /\ ListsAll' /\ RecordsAll' /\ ArrivalsFresh'
  BY <1>0 DEF Gate
<1>1. ASSUME NEW s \in Sessions, StartSession(s) PROVE Gate'
  BY <1>0, <1>1, StartGate DEF Gate
<1>2. ASSUME NEW s \in Sessions, Poll(s) PROVE Gate'
  BY <1>0, <1>2, BeginGate DEF Gate
<1>3. ASSUME NEW s \in Sessions, PollOnce(s) PROVE Gate'
  <2>1. /\ poll[s] = "polling" /\ UNCHANGED <<phase, start, baseline, arrivals, stored, poll>>
        /\ \E b \in Boxes : BatchArrives(s, b) \/ AdapterFails(s, b) \/ Process(s, b)
    BY <1>3 DEF PollOnce, AdapterStep
  <2> QED
    BY <1>0, <2>1, ArrivesGate, FailsGate, ProcessGate DEF Gate
<1>4. ASSUME NEW s \in Sessions, PollAnswered(s) PROVE Gate'
  BY <1>0, <1>4, AnsweredGate DEF Gate
<1>5. ASSUME NEW s \in Sessions, GiveUp(s) PROVE Gate'
  <2>1. /\ Nothing(s) /\ Persist /\ poll[s] # "idle" /\ UNCHANGED <<baseline, arrivals, start, phase>>
    BY <1>5 DEF GiveUp
  <2> QED
    BY <1>0, <2>1, EndGate DEF Gate
<1>6. ASSUME NEW s \in Sessions, CommitBaselines(s) PROVE Gate'
  BY <1>0, <1>6, CommitGate DEF Gate
<1>7. ASSUME NEW s \in Sessions, Classify(s) PROVE Gate'
  BY <1>0, <1>7, ClassifyGate DEF Gate
<1>8. ASSUME NEW s \in Sessions, FindCode(s) PROVE Gate'
  <2>1. /\ Nothing(s) /\ Persist /\ poll[s] # "idle" /\ UNCHANGED <<baseline, arrivals, start>>
        /\ phase' = phase \/ phase' = [phase EXCEPT ![s] = "filled"]
    BY <1>8 DEF FindCode, Fill
  <2>2. \A r \in Sessions : phase'[r] = phase[r] \/ (r = s /\ phase'[r] = "filled")
    BY <2>1 DEF Gate, TypeOK
  <2> QED
    BY <1>0, <2>1, <2>2, EndGate DEF Gate
<1>9. CASE Crash
  BY <1>0, <1>9, CrashGate DEF Gate
<1>10. CASE World /\ UNCHANGED gateVars
  BY <1>0, <1>10, WorldGate DEF Gate
<1>11. CASE UNCHANGED vars
  BY <1>11 DEF vars, pollVars, gateVars, Gate, Clock, Shape, Books, ListsAll, RecordsAll, ArrivalsFresh
<1> QED
  BY <1>1, <1>2, <1>3, <1>4, <1>5, <1>6, <1>7, <1>8, <1>9, <1>10, <1>11 DEF Next, SessionStep, Gate
-----------------------------------------------------------------------------
(***************************************************************************)
(* What a poll took of a session's own time is kept: a baseline that was   *)
(* read earlier has nothing that the poll could take, because the poll     *)
(* that read it went through the whole batch.  This needs polls that are   *)
(* not cut short: a code that is left over when a poll has GlobalMax hits  *)
(* is in the baseline and not in the store.                                *)
(***************************************************************************)
Uncapped ==
    \A s \in Sessions : Cardinality(hits[s]) >= GlobalMax =>
        \A b \in Boxes : \A x \in todo[s][b] : Kind[x.msg].hit => ~ Unprocessed(s, x)

\* A hit that no baseline may hide from s.
Due(s, m) == Kind[m].hit /\ Dated(m) /\ arrived[m] > start[s]

\* m has left the window for good.
Stale(m) == Dated(m) /\ arrived[m] + Window < now

Memory ==
    /\ \A m \in Messages :
           Kind[m].hit /\ (disk[m] > 0 \/ mem["watch"][m] > 0) => Remembered(m)
    /\ \A s \in Sessions : since[s] = 0 \/ since[s] + Window <= now

Snap ==
    /\ Of(arrived, now, snapshot.entries, SmsBox)
    /\ \A e \in snapshot.entries : arrived[e.msg] <= snapshot.at

\* What a poll has gone through is remembered or too old.
Marked ==
    \A s \in Sessions : \A b \in Boxes : \A x \in batch[s][b] :
        Kind[x.msg].hit =>
            \/ Remembered(x.msg)
            \/ poll[s] = "polling" /\ x \in todo[s][b]
            \/ poll[s] # "polling" /\ TooOld(s, x.msg)

\* What a baseline has that s is due was gone through when it was read; it is
\* out of reach of the poll that s is at.
Recollect ==
    \A s \in Sessions : \A b \in Boxes :
        /\ Of(arrived, now, baseline[s][b].entries, b)
        /\ Of(arrived, now, stored.baseline[s][b].entries, b)
        /\ \A e \in baseline[s][b].entries : Due(s, e.msg) =>
               /\ Remembered(e.msg) \/ Stale(e.msg)
               /\ poll[s] = "polling" => Remembered(e.msg) \/ TooOld(s, e.msg)
        /\ \A e \in stored.baseline[s][b].entries :
               Due(s, e.msg) => Remembered(e.msg) \/ Stale(e.msg)

\* So no baseline that was read before the poll has a hit of the poll.
Unhidden ==
    \A s \in Sessions : \A x \in hits[s] :
        Due(s, x.msg) /\ BoxOf(x.msg) \notin fresh[s] =>
            x.msg \notin Msgs(baseline[s][BoxOf(x.msg)].entries)

\* The baselines of a poll are set at once, after it has polled.
Settled ==
    \A s \in Sessions :
        /\ poll[s] = "polling" => fresh[s] = {}
        /\ poll[s] = "storing" /\ fresh[s] # {} => \A b \in Boxes : ~ Baselinable(s, b)

Catch == Gate /\ Settled /\ Memory /\ Snap /\ Marked /\ Recollect /\ Unhidden /\ Caught

LEMMA CatchTypes ==
    ASSUME TypeOK
    PROVE  /\ Window \in Nat /\ HitTtl \in Nat /\ MissTtl \in Nat /\ "watch" \in Stores
           /\ \A s \in Sessions : since[s] \in Nat /\ StoreOf(s) = "watch"
           /\ disk \in [Messages -> Nat] /\ mem["watch"] \in [Messages -> Nat]
           /\ Loaded("watch") \in [Messages -> Nat]
           /\ snapshot.entries \in SUBSET Sightings /\ snapshot.at \in Nat
<1>1. /\ Window \in Nat /\ HitTtl \in Nat /\ MissTtl \in Nat /\ "watch" \in Stores
      /\ \A s \in Sessions : s \in Clients /\ StoreOf(s) = "watch"
      /\ MaxTime \in Nat /\ Never = MaxTime + 1
  BY Numbers DEF Stores
<1>2. /\ \A s \in Sessions : since[s] \in Nat
      /\ disk \in [Messages -> Nat] /\ mem["watch"] \in [Messages -> Nat]
      /\ Loaded("watch") \in [Messages -> Nat]
  BY <1>1, LoadedType DEF TypeOK, PollTypeOK
<1>3. snapshot.entries \in SUBSET Sightings /\ snapshot.at \in Nat
  BY <1>1 DEF TypeOK
<1> QED
  BY <1>1, <1>2, <1>3

\* The store of the watch sessions holds what it held, and the message it adds.
LEMMA AddRemembers ==
    ASSUME HitTtl > MaxTime, TypeOK, NEW m \in Messages, Add("watch", m), ~ HasSeen("watch", m)
    PROVE  /\ \A n \in Messages : Remembered(n) => Remembered(n)'
           /\ Kind[m].hit => Remembered(m)'
           /\ \A n \in Messages : n # m /\ (disk'[n] > 0 \/ mem'["watch"][n] > 0) =>
                                      disk[n] > 0 \/ mem["watch"][n] > 0
<1>1. /\ loaded' = loaded \cup {"watch"} /\ mem'["watch"] = disk'
      /\ disk'[m] = now + (IF Kind[m].hit THEN HitTtl ELSE MissTtl)
      /\ \A n \in Messages : n # m /\ Loaded("watch")[n] > MaxTime => disk'[n] = Loaded("watch")[n]
  BY AddMarks, CatchTypes
<1>2. now \in Nat /\ MaxTime \in Nat /\ HitTtl \in Nat /\ ~ Remembered(m)
  BY Standing, CatchTypes, RememberedSeen
<1>3. \A n \in Messages : Remembered(n) => Loaded("watch")[n] > MaxTime /\ n # m
  BY <1>2, RememberedSeen
<1>4. \A n \in Messages : Remembered(n) => Remembered(n)'
  <2> SUFFICES ASSUME NEW n \in Messages, Remembered(n) PROVE Remembered(n)'
    OBVIOUS
  <2>1. disk'[n] > MaxTime
    BY <1>1, <1>3
  <2> QED
    BY <1>1, <2>1 DEF Remembered
<1>5. Kind[m].hit => Remembered(m)'
  <2>1. Kind[m].hit => disk'[m] > MaxTime
    BY <1>1, <1>2
  <2> QED
    BY <1>1, <2>1 DEF Remembered
<1>6. \A n \in Messages : n # m /\ disk'[n] > 0 => disk[n] > 0 \/ mem["watch"][n] > 0
  <2> DEFINE ttl == IF Kind[m].hit THEN HitTtl ELSE MissTtl
             marked == [Loaded("watch") EXCEPT ![m] = now + ttl]
  <2>1. disk' = Live(marked)
    BY DEF Add
  <2>2. \A n \in Messages : n # m => marked[n] = Loaded("watch")[n]
    BY CatchTypes
  <2> HIDE DEF marked
  <2>3. \A n \in Messages : n # m /\ disk'[n] > 0 => Loaded("watch")[n] > 0
    BY <2>1, <2>2 DEF Live
  <2>4. \A n \in Messages : Loaded("watch")[n] = disk[n] \/ Loaded("watch")[n] = mem["watch"][n]
    BY CatchTypes DEF Loaded
  <2> QED
    BY <2>3, <2>4
<1> QED
  BY <1>1, <1>4, <1>5, <1>6

\* Nothing that is remembered is forgotten.
LEMMA MemoryStep ==
    ASSUME HitTtl > MaxTime, Gate, Memory, [Next]_vars
    PROVE  /\ Memory' /\ \A m \in Messages : Remembered(m) => Remembered(m)'
<1>t. /\ TypeOK /\ Sessions = Clients /\ now \in Nat /\ Window \in Nat
      /\ \A s \in Sessions : since[s] \in Nat /\ StoreOf(s) = "watch"
      /\ since \in [Sessions -> 0 .. MaxTime]
  BY Standing, CatchTypes DEF Gate, TypeOK, PollTypeOK
<1>n. now <= now'
  <2>1. ASSUME World PROVE now <= now'
    BY <1>t, <2>1, WorldPasses DEF Gate, Passes
  <2>2. ASSUME ~ World PROVE now' = now
    BY <2>2 DEF Next, SessionStep, StartSession, Poll, BeginPoll, PollOnce, AdapterStep, BatchArrives,
       AdapterFails, Process, PollAnswered, GiveUp, CommitBaselines, Classify, FindCode, Nothing,
       Crash, PollCrash, vars, pollVars
  <2> QED
    BY <1>t, <2>1, <2>2
<1>m. TypeOK' /\ now' \in Nat
  <2>1. TypeOK'
    BY <1>t, TypeStep
  <2>2. now' \in 0 .. MaxTime
    BY <2>1 DEF TypeOK, PollTypeOK
  <2> QED
    BY <2>1, <2>2, Numbers
<1>p. ASSUME \A s \in Sessions : since'[s] = since[s] \/ since'[s] = 0 \/ since'[s] + Window <= now
      PROVE  \A s \in Sessions : since'[s] = 0 \/ since'[s] + Window <= now'
  <2>1. \A s \in Sessions : since'[s] = 0 \/ since'[s] + Window <= now
    BY <1>p DEF Memory
  <2>2. \A s \in Sessions : since'[s] \in Nat
    <3>1. since' \in [Clients -> 0 .. MaxTime] /\ MaxTime \in Nat
      BY <1>m, Numbers DEF TypeOK, PollTypeOK
    <3> QED
      BY <1>t, <3>1
  <2> QED
    BY <1>t, <1>n, <1>m, <2>1, <2>2
<1>q. ASSUME UNCHANGED <<mem, loaded, disk>>,
             \A s \in Sessions : since'[s] = since[s] \/ since'[s] = 0 \/ since'[s] + Window <= now
      PROVE  Memory' /\ \A m \in Messages : Remembered(m) => Remembered(m)'
  BY <1>p, <1>q DEF Memory, Remembered
<1>1. ASSUME NEW s \in Sessions, StartSession(s) \/ CommitBaselines(s) \/ Classify(s)
      PROVE Memory' /\ \A m \in Messages : Remembered(m) => Remembered(m)'
  BY <1>1, <1>q DEF StartSession, CommitBaselines, Classify, pollVars
<1>2. ASSUME NEW s \in Sessions, Poll(s)
      PROVE Memory' /\ \A m \in Messages : Remembered(m) => Remembered(m)'
  <2>1. /\ UNCHANGED <<mem, loaded, disk>>
        /\ since' = [since EXCEPT ![s] = IF now > Window THEN now - Window ELSE 0]
    BY <1>2 DEF Poll, BeginPoll
  <2>2. \A r \in Sessions : since'[r] = since[r] \/ since'[r] = 0 \/ since'[r] + Window <= now
    BY <1>t, <2>1
  <2> QED
    BY <1>q, <2>1, <2>2
<1>3. ASSUME NEW s \in Sessions, GiveUp(s) \/ FindCode(s)
      PROVE Memory' /\ \A m \in Messages : Remembered(m) => Remembered(m)'
  <2>1. UNCHANGED <<mem, loaded, disk>> /\ since' = [since EXCEPT ![s] = 0]
    BY <1>3 DEF GiveUp, FindCode, Nothing, EndPoll
  <2>2. \A r \in Sessions : since'[r] = since[r] \/ since'[r] = 0
    BY <1>t, <2>1
  <2> QED
    BY <1>q, <2>1, <2>2
<1>4. ASSUME NEW s \in Sessions, PollOnce(s)
      PROVE Memory' /\ \A m \in Messages : Remembered(m) => Remembered(m)'
  <2>1. ASSUME NEW b \in Boxes, BatchArrives(s, b) \/ AdapterFails(s, b)
        PROVE Memory' /\ \A m \in Messages : Remembered(m) => Remembered(m)'
    BY <1>q, <2>1 DEF BatchArrives, AdapterFails
  <2>2. ASSUME NEW b \in Boxes, Process(s, b)
        PROVE Memory' /\ \A m \in Messages : Remembered(m) => Remembered(m)'
    <3>1. PICK x \in todo[s][b] : Unprocessed(s, x) /\ Add("watch", x.msg)
      BY <1>t, <2>2 DEF Process
    <3>2. since' = since /\ x.msg \in Messages /\ ~ HasSeen("watch", x.msg)
      BY <1>t, <2>2, <3>1, Standing DEF Process, Unprocessed, Sightings
    <3>3. /\ \A n \in Messages : Remembered(n) => Remembered(n)'
          /\ Kind[x.msg].hit => Remembered(x.msg)'
          /\ \A n \in Messages : n # x.msg /\ (disk'[n] > 0 \/ mem'["watch"][n] > 0) =>
                                     disk[n] > 0 \/ mem["watch"][n] > 0
      BY <1>t, <3>1, <3>2, AddRemembers
    <3>4. \A m \in Messages :
              Kind[m].hit /\ (disk'[m] > 0 \/ mem'["watch"][m] > 0) => Remembered(m)'
      BY <3>3 DEF Memory
    <3> QED
      BY <1>p, <3>2, <3>3, <3>4 DEF Memory
  <2> QED
    BY <1>4, <2>1, <2>2 DEF PollOnce, AdapterStep
<1>5. ASSUME NEW s \in Sessions, PollAnswered(s)
      PROVE Memory' /\ \A m \in Messages : Remembered(m) => Remembered(m)'
  <2>1. StoreAsked(s) /\ since' = since
    BY <1>5 DEF PollAnswered
  <2>2. /\ disk' = disk
        /\ \/ mem'["watch"] = mem["watch"] /\ loaded' = loaded
           \/ mem'["watch"] = Loaded("watch")
    BY <1>t, <2>1 DEF StoreAsked, TypeOK, PollTypeOK, Stores
  <2>3. \A m \in Messages : Remembered(m) => Remembered(m)'
    BY <1>t, <2>2, RememberedSeen DEF Remembered
  <2>4. \A n \in Messages : Loaded("watch")[n] = disk[n] \/ Loaded("watch")[n] = mem["watch"][n]
    BY <1>t, CatchTypes DEF Loaded
  <2>5. \A m \in Messages :
            Kind[m].hit /\ (disk'[m] > 0 \/ mem'["watch"][m] > 0) => Remembered(m)'
    BY <2>2, <2>3, <2>4 DEF Memory
  <2> QED
    BY <1>p, <2>1, <2>3, <2>5 DEF Memory
<1>6. CASE Crash
  <2>1. /\ disk' = disk /\ loaded' = {} /\ since' = [c \in Clients |-> 0]
        /\ mem' = [st \in Stores |-> Empty]
    BY <1>6 DEF Crash, PollCrash
  <2>2. \A m \in Messages : mem'["watch"][m] = 0
    BY <1>t, <2>1, CatchTypes DEF Empty
  <2>3. \A m \in Messages : Remembered(m) => Remembered(m)'
    BY <2>1 DEF Remembered
  <2>4. \A m \in Messages :
            Kind[m].hit /\ (disk'[m] > 0 \/ mem'["watch"][m] > 0) => Remembered(m)'
    BY <2>1, <2>2, <2>3 DEF Memory
  <2>5. \A s \in Sessions : since'[s] = 0
    BY <1>t, <2>1
  <2> QED
    BY <1>p, <2>3, <2>4, <2>5 DEF Memory
<1>7. CASE World /\ UNCHANGED gateVars
  BY <1>7, <1>q, WorldQuiet
<1>8. CASE UNCHANGED vars
  BY <1>8, <1>q DEF vars, pollVars
<1> QED
  BY <1>1, <1>2, <1>3, <1>4, <1>5, <1>6, <1>7, <1>8 DEF Next, SessionStep

\* The messages that a batch, the hits, the baselines and the snapshot have.
LEMMA Held ==
    ASSUME Gate, Snap, Recollect
    PROVE  /\ \A s \in Sessions : \A b \in Boxes : \A x \in batch[s][b] :
                  x.msg \in Messages /\ arrived[x.msg] <= now /\ BoxOf(x.msg) = b
           /\ \A s \in Sessions : \A x \in hits[s] :
                  x.msg \in Messages /\ arrived[x.msg] <= now /\ BoxOf(x.msg) \in Boxes
           /\ \A s \in Sessions : \A b \in Boxes : \A e \in baseline[s][b].entries :
                  e.msg \in Messages /\ arrived[e.msg] <= now
           /\ \A s \in Sessions : \A b \in Boxes : \A e \in stored.baseline[s][b].entries :
                  e.msg \in Messages /\ arrived[e.msg] <= now
           /\ \A e \in snapshot.entries : e.msg \in Messages /\ arrived[e.msg] <= now
<1>1. \A s \in Sessions : \A b \in Boxes : \A x \in batch[s][b] :
          x.msg \in Messages /\ arrived[x.msg] <= now /\ BoxOf(x.msg) = b
  BY Standing DEF Gate, Books, Of, In, Sightings
<1>2. \A s \in Sessions : \A x \in hits[s] :
          x.msg \in Messages /\ arrived[x.msg] <= now /\ BoxOf(x.msg) \in Boxes
  <2> SUFFICES ASSUME NEW s \in Sessions, NEW x \in hits[s]
               PROVE  x.msg \in Messages /\ arrived[x.msg] <= now /\ BoxOf(x.msg) \in Boxes
    OBVIOUS
  <2>1. x.msg \in Messages /\ BoxOf(x.msg) \in Boxes /\ x \in batch[s][BoxOf(x.msg)]
    BY Standing, Posts DEF Gate, Books, Sightings
  <2> QED
    BY <1>1, <2>1
<1>3. \A s \in Sessions : \A b \in Boxes : \A e \in baseline[s][b].entries :
          e.msg \in Messages /\ arrived[e.msg] <= now
  BY Standing DEF Gate, Recollect, Of, In, Sightings
<1>4. \A s \in Sessions : \A b \in Boxes : \A e \in stored.baseline[s][b].entries :
          e.msg \in Messages /\ arrived[e.msg] <= now
  BY Standing DEF Gate, Recollect, Of, In, Sightings
<1>5. \A e \in snapshot.entries : e.msg \in Messages /\ arrived[e.msg] <= now
  BY CatchTypes DEF Gate, Snap, Of, In, Sightings
<1> QED
  BY <1>1, <1>2, <1>3, <1>4, <1>5

LEMMA WorldCatch ==
    ASSUME Catch, World, UNCHANGED gateVars
    PROVE  Snap' /\ Marked' /\ Recollect' /\ Unhidden' /\ Caught'
<1>1. /\ Passes(arrived, now, arrived', now') /\ now' \in Nat /\ arrived' \in [Messages -> Nat]
      /\ UNCHANGED <<mem, loaded, disk, batch, todo, hits, since>>
      /\ UNCHANGED <<phase, start, baseline, arrivals, stored, snapshot, poll, fresh>>
      /\ now <= now'
  BY WorldPasses, WorldQuiet DEF Catch, Gate, Passes
<1>2. /\ now \in Nat /\ arrived \in [Messages -> Nat] /\ Window \in Nat
      /\ snapshot.entries \in SUBSET Sightings
      /\ \A s \in Sessions, b \in Boxes : /\ baseline[s][b].entries \in SUBSET Sightings
                                          /\ stored.baseline[s][b].entries \in SUBSET Sightings
  BY Standing, CatchTypes DEF Catch, Gate
<1>3. \A m \in Messages : arrived[m] <= now => arrived'[m] = arrived[m]
  BY <1>1 DEF Passes
<1>4. \A m \in Messages, s \in Sessions : arrived[m] <= now =>
          /\ Due(s, m)' = Due(s, m) /\ TooOld(s, m)' = TooOld(s, m)
          /\ Stale(m) => Stale(m)'
  BY <1>1, <1>2, <1>3 DEF Due, TooOld, Stale, Dated
<1>5. \A m \in Messages : Remembered(m)' = Remembered(m)
  BY <1>1 DEF Remembered
<1>6. Snap'
  BY <1>1, <1>2, <1>3, Held, OfStays, Posts DEF Catch, Snap
<1>7. Marked'
  BY <1>1, <1>4, <1>5, Held DEF Catch, Marked
<1>8. Recollect'
  <2>1. ASSUME NEW s \in Sessions, NEW b \in Boxes
        PROVE  /\ Of(arrived', now', baseline[s][b].entries, b)
               /\ Of(arrived', now', stored.baseline[s][b].entries, b)
    BY <1>1, <1>2, OfStays DEF Catch, Recollect
  <2>2. ASSUME NEW s \in Sessions, NEW b \in Boxes, NEW e \in baseline[s][b].entries, Due(s, e.msg)'
        PROVE  /\ Remembered(e.msg)' \/ Stale(e.msg)'
               /\ poll[s] = "polling" => Remembered(e.msg)' \/ TooOld(s, e.msg)'
    BY <1>4, <1>5, <2>2, Held DEF Catch, Recollect
  <2>3. ASSUME NEW s \in Sessions, NEW b \in Boxes, NEW e \in stored.baseline[s][b].entries,
               Due(s, e.msg)'
        PROVE  Remembered(e.msg)' \/ Stale(e.msg)'
    BY <1>4, <1>5, <2>3, Held DEF Catch, Recollect
  <2> QED
    BY <1>1, <2>1, <2>2, <2>3 DEF Recollect
<1>9. Unhidden'
  BY <1>1, <1>4, Held DEF Catch, Unhidden
<1>10. Caught'
  <2> SUFFICES ASSUME NEW s \in Sessions, poll[s] = "saving", NEW x \in hits[s],
                      Dated(x.msg), arrived'[x.msg] > start[s]
               PROVE  x.msg \in arrivals[s]
    BY <1>1 DEF Caught, Dated
  <2> QED
    BY <1>3, Held DEF Catch, Caught
<1> QED
  BY <1>6, <1>7, <1>8, <1>9, <1>10

\* A session is born with nothing.
LEMMA StartCatch ==
    ASSUME Catch, NEW s \in Sessions, StartSession(s)
    PROVE  Snap' /\ Marked' /\ Recollect' /\ Unhidden' /\ Caught'
<1>1. /\ UNCHANGED <<arrived, now, mem, loaded, disk, todo, batch, hits, since>>
      /\ UNCHANGED <<baseline, arrivals, snapshot, poll, fresh>>
      /\ phase[s] = "unborn" /\ start' = [start EXCEPT ![s] = now]
      /\ stored'.baseline = baseline /\ stored'.arrivals = arrivals
  BY SavedIs DEF StartSession, pollVars
<1>2. \A r \in Sessions : r # s => start'[r] = start[r]
  BY <1>1 DEF Catch, Gate, TypeOK
<1>3. \A m \in Messages : Remembered(m)' = Remembered(m)
  BY <1>1 DEF Remembered
<1>4. /\ poll[s] = "idle" /\ \A b \in Boxes : baseline[s][b].entries = {} /\ batch[s][b] = {}
  BY <1>1 DEF Catch, Gate, Shape, Unset, Books
<1>5. hits[s] = {}
  BY <1>4, Held DEF Catch, Gate, Books
<1>6. Snap' /\ Caught'
  BY <1>1, <1>2, <1>4 DEF Catch, Snap, Caught
<1>7. Marked'
  BY <1>1, <1>3, Held DEF Catch, Marked, TooOld
<1>8. \A r \in Sessions, m \in Messages : r # s => Due(r, m)' = Due(r, m)
  BY <1>1, <1>2 DEF Due
<1>9. Recollect'
  <2>1. ASSUME NEW r \in Sessions, NEW b \in Boxes
        PROVE  Of(arrived, now, baseline[r][b].entries, b)
    BY DEF Catch, Recollect
  <2>2. ASSUME NEW r \in Sessions, NEW b \in Boxes, NEW e \in baseline[r][b].entries, Due(r, e.msg)'
        PROVE  /\ Remembered(e.msg)' \/ Stale(e.msg)'
               /\ poll[r] = "polling" => Remembered(e.msg)' \/ TooOld(r, e.msg)'
    <3>1. r # s /\ e.msg \in Messages
      BY <1>4, Held DEF Catch
    <3>2. /\ Remembered(e.msg) \/ Stale(e.msg)
          /\ poll[r] = "polling" => Remembered(e.msg) \/ TooOld(r, e.msg)
      BY <1>8, <2>2, <3>1 DEF Catch, Recollect
    <3> QED
      BY <1>1, <1>3, <3>1, <3>2 DEF Stale, TooOld
  <2> QED
    BY <1>1, <2>1, <2>2 DEF Recollect
<1>10. Unhidden'
  BY <1>1, <1>5, <1>8, Held DEF Catch, Unhidden
<1> QED
  BY <1>6, <1>7, <1>9, <1>10

\* A poll begins: what its baselines have left the window, or is remembered.
LEMMA BeginCatch ==
    ASSUME Catch, NEW s \in Sessions, Poll(s)
    PROVE  Snap' /\ Marked' /\ Recollect' /\ Unhidden' /\ Caught'
<1>1. /\ UNCHANGED <<arrived, now, mem, loaded, disk>>
      /\ UNCHANGED <<start, baseline, arrivals, stored, snapshot>>
      /\ poll' = [poll EXCEPT ![s] = "polling"] /\ fresh' = [fresh EXCEPT ![s] = {}]
      /\ batch' = [batch EXCEPT ![s] = NoBatch] /\ todo' = [todo EXCEPT ![s] = NoBatch]
      /\ hits' = [hits EXCEPT ![s] = {}]
      /\ since' = [since EXCEPT ![s] = IF now > Window THEN now - Window ELSE 0]
  BY DEF Poll, BeginPoll
<1>2. Sessions = Clients /\ TypeOK /\ now \in Nat /\ arrived \in [Messages -> Nat] /\ Window \in Nat
  BY Standing, CatchTypes DEF Catch, Gate
<1>3. /\ \A r \in Sessions : r # s =>
             /\ batch'[r] = batch[r] /\ todo'[r] = todo[r] /\ hits'[r] = hits[r]
             /\ poll'[r] = poll[r] /\ fresh'[r] = fresh[r] /\ since'[r] = since[r]
      /\ \A b \in Boxes : batch'[s][b] = {}
      /\ hits'[s] = {} /\ poll'[s] = "polling"
      /\ since'[s] = IF now > Window THEN now - Window ELSE 0
  BY <1>1, <1>2, Cleared DEF TypeOK, PollTypeOK
<1>4. \A m \in Messages : Remembered(m)' = Remembered(m) /\ Stale(m)' = Stale(m)
  BY <1>1 DEF Remembered, Stale
<1>5. /\ \A r \in Sessions, m \in Messages : r # s => TooOld(r, m)' = TooOld(r, m)
      /\ \A m \in Messages : Stale(m) => TooOld(s, m)'
      /\ \A r \in Sessions, m \in Messages : Due(r, m)' = Due(r, m)
  BY <1>1, <1>2, <1>3 DEF TooOld, Stale, Due
<1>6. Snap' /\ Caught'
  BY <1>1, <1>3 DEF Catch, Snap, Caught
<1>7. Marked'
  <2> SUFFICES ASSUME NEW r \in Sessions, NEW b \in Boxes, NEW x \in batch[r][b], r # s, Kind[x.msg].hit
               PROVE  \/ Remembered(x.msg)'
                      \/ poll[r] = "polling" /\ x \in todo[r][b]
                      \/ poll[r] # "polling" /\ TooOld(r, x.msg)'
    BY <1>3 DEF Marked
  <2> QED
    BY <1>4, <1>5, Held DEF Catch, Marked
<1>8. Recollect'
  <2>1. ASSUME NEW r \in Sessions, NEW b \in Boxes, NEW e \in baseline[r][b].entries, Due(r, e.msg)
        PROVE  /\ Remembered(e.msg)' \/ Stale(e.msg)'
               /\ poll'[r] = "polling" => Remembered(e.msg)' \/ TooOld(r, e.msg)'
    <3>1. /\ e.msg \in Messages /\ (Remembered(e.msg) \/ Stale(e.msg))
          /\ poll[r] = "polling" => Remembered(e.msg) \/ TooOld(r, e.msg)
      BY <2>1, Held DEF Catch, Recollect
    <3>2. CASE r = s
      BY <1>4, <1>5, <3>1, <3>2
    <3>3. CASE r # s
      BY <1>3, <1>4, <1>5, <3>1, <3>3
    <3> QED
      BY <3>2, <3>3
  <2>2. ASSUME NEW r \in Sessions, NEW b \in Boxes, NEW e \in stored.baseline[r][b].entries, Due(r, e.msg)
        PROVE  Remembered(e.msg)' \/ Stale(e.msg)'
    BY <1>4, <2>2, Held DEF Catch, Recollect
  <2>3. ASSUME NEW r \in Sessions, NEW b \in Boxes
        PROVE  /\ Of(arrived, now, baseline[r][b].entries, b)
               /\ Of(arrived, now, stored.baseline[r][b].entries, b)
    BY DEF Catch, Recollect
  <2>4. /\ \A r \in Sessions : \A b \in Boxes : \A e \in baseline[r][b].entries : Due(r, e.msg)' = Due(r, e.msg)
        /\ \A r \in Sessions : \A b \in Boxes : \A e \in stored.baseline[r][b].entries :
               Due(r, e.msg)' = Due(r, e.msg)
    BY <1>5, Held DEF Catch
  <2> QED
    BY <1>1, <2>1, <2>2, <2>3, <2>4 DEF Recollect
<1>9. Unhidden'
  <2> SUFFICES ASSUME NEW r \in Sessions, r # s, NEW x \in hits[r], Due(r, x.msg)',
                      BoxOf(x.msg) \notin fresh[r]
               PROVE  x.msg \notin Msgs(baseline[r][BoxOf(x.msg)].entries)
    BY <1>1, <1>3 DEF Unhidden
  <2> QED
    BY <1>5, Held DEF Catch, Unhidden
<1> QED
  BY <1>6, <1>7, <1>8, <1>9

LEMMA ArrivesCatch ==
    ASSUME Catch, NEW s \in Sessions, poll[s] = "polling", NEW b \in Boxes, BatchArrives(s, b),
           UNCHANGED <<start, baseline, arrivals, stored, snapshot, poll, fresh>>
    PROVE  Snap' /\ Marked' /\ Recollect' /\ Unhidden' /\ Caught'
<1>1. PICK ms \in Listings(b) :
          /\ batch' = [batch EXCEPT ![s][b] = {Sight(m) : m \in ms}]
          /\ todo' = [todo EXCEPT ![s][b] = {Sight(m) : m \in ms}]
  BY DEF BatchArrives
<1> DEFINE xs == {Sight(m) : m \in ms}
<1>2. UNCHANGED <<arrived, now, mem, loaded, disk, hits, since>>
  BY DEF BatchArrives
<1>3. /\ batch'[s][b] = xs /\ todo'[s][b] = xs
      /\ \A r \in Sessions, c \in Boxes : r # s \/ c # b =>
             batch'[r][c] = batch[r][c] /\ todo'[r][c] = todo[r][c]
  BY <1>1, Standing DEF Catch, Gate, TypeOK, PollTypeOK
<1> HIDE DEF xs
<1>4. Snap' /\ Recollect' /\ Unhidden' /\ Caught'
  BY <1>2 DEF Catch, Snap, Recollect, Unhidden, Caught, Due, Stale, TooOld, Remembered
<1>5. Marked'
  <2> SUFFICES ASSUME NEW r \in Sessions, NEW c \in Boxes, NEW x \in batch'[r][c], Kind[x.msg].hit
               PROVE  \/ Remembered(x.msg)
                      \/ poll[r] = "polling" /\ x \in todo'[r][c]
                      \/ poll[r] # "polling" /\ TooOld(r, x.msg)
    BY <1>2 DEF Marked, Remembered, TooOld
  <2>1. CASE r = s /\ c = b
    BY <1>3, <2>1
  <2>2. CASE r # s \/ c # b
    BY <1>3, <2>2 DEF Catch, Marked
  <2> QED
    BY <2>1, <2>2
<1> QED
  BY <1>4, <1>5

\* What a poll takes was not remembered, and is now.
LEMMA ProcessCatch ==
    ASSUME HitTtl > MaxTime, Catch, NEW s \in Sessions, poll[s] = "polling", NEW b \in Boxes,
           Process(s, b), UNCHANGED <<start, baseline, arrivals, stored, snapshot, poll, fresh>>
    PROVE  Snap' /\ Marked' /\ Recollect' /\ Unhidden' /\ Caught'
<1>1. PICK x \in todo[s][b] :
          /\ Unprocessed(s, x) /\ Add("watch", x.msg)
          /\ todo' = [todo EXCEPT ![s][b] = @ \ {x}]
          /\ hits' = IF Kind[x.msg].hit THEN [hits EXCEPT ![s] = @ \cup {x}] ELSE hits
  BY CatchTypes DEF Catch, Gate, Process
<1>2. UNCHANGED <<arrived, now, batch, since>>
  BY DEF Process
<1>3. /\ TypeOK /\ x.msg \in Messages /\ BoxOf(x.msg) = b
      /\ ~ TooOld(s, x.msg) /\ ~ HasSeen("watch", x.msg) /\ ~ Remembered(x.msg)
  <2>1. TypeOK /\ StoreOf(s) = "watch" /\ x \in batch[s][b]
    BY CatchTypes DEF Catch, Gate, Books
  <2>2. x.msg \in Messages /\ BoxOf(x.msg) = b
    BY <2>1, Held DEF Catch
  <2> QED
    BY <1>1, <2>1, <2>2, RememberedSeen DEF Unprocessed
<1>4. /\ \A m \in Messages : Remembered(m) => Remembered(m)'
      /\ Kind[x.msg].hit => Remembered(x.msg)'
  BY <1>1, <1>3, AddRemembers
<1>5. /\ \A r \in Sessions, c \in Boxes : \A y : y \in todo[r][c] /\ y # x => y \in todo'[r][c]
      /\ \A r \in Sessions : r # s => hits'[r] = hits[r]
      /\ \A y \in hits'[s] : y \in hits[s] \/ y = x
  BY <1>1, <1>3, Standing DEF TypeOK, PollTypeOK
<1>6. \A r \in Sessions, m \in Messages :
          Due(r, m)' = Due(r, m) /\ TooOld(r, m)' = TooOld(r, m) /\ Stale(m)' = Stale(m)
  BY <1>2 DEF Due, TooOld, Stale
<1>7. Snap'
  BY <1>2 DEF Catch, Snap
<1>8. Caught'
  <2> SUFFICES ASSUME NEW r \in Sessions, poll[r] = "saving", NEW y \in hits'[r],
                      Dated(y.msg), arrived[y.msg] > start[r]
               PROVE  y.msg \in arrivals[r]
    BY <1>2 DEF Caught
  <2> QED
    BY <1>5 DEF Catch, Caught
<1>9. Marked'
  <2> SUFFICES ASSUME NEW r \in Sessions, NEW c \in Boxes, NEW y \in batch[r][c], Kind[y.msg].hit
               PROVE  \/ Remembered(y.msg)'
                      \/ poll[r] = "polling" /\ y \in todo'[r][c]
                      \/ poll[r] # "polling" /\ TooOld(r, y.msg)'
    BY <1>2 DEF Marked
  <2>1. y.msg \in Messages
    BY Held DEF Catch
  <2>2. \/ Remembered(y.msg)
        \/ poll[r] = "polling" /\ y \in todo[r][c]
        \/ poll[r] # "polling" /\ TooOld(r, y.msg)
    BY DEF Catch, Marked
  <2> QED
    BY <1>4, <1>5, <1>6, <2>1, <2>2
<1>10. Recollect'
  <2>1. ASSUME NEW r \in Sessions, NEW c \in Boxes
        PROVE  /\ Of(arrived, now, baseline[r][c].entries, c)
               /\ Of(arrived, now, stored.baseline[r][c].entries, c)
    BY DEF Catch, Recollect
  <2>2. ASSUME NEW r \in Sessions, NEW c \in Boxes, NEW e \in baseline[r][c].entries, Due(r, e.msg)'
        PROVE  /\ Remembered(e.msg)' \/ Stale(e.msg)'
               /\ poll[r] = "polling" => Remembered(e.msg)' \/ TooOld(r, e.msg)'
    BY <1>4, <1>6, <2>2, Held DEF Catch, Recollect
  <2>3. ASSUME NEW r \in Sessions, NEW c \in Boxes, NEW e \in stored.baseline[r][c].entries,
               Due(r, e.msg)'
        PROVE  Remembered(e.msg)' \/ Stale(e.msg)'
    BY <1>4, <1>6, <2>3, Held DEF Catch, Recollect
  <2> QED
    BY <1>2, <2>1, <2>2, <2>3 DEF Recollect
<1>11. Unhidden'
  <2> SUFFICES ASSUME NEW r \in Sessions, NEW y \in hits'[r], Due(r, y.msg)',
                      BoxOf(y.msg) \notin fresh[r],
                      NEW e \in baseline[r][BoxOf(y.msg)].entries, e.msg = y.msg
               PROVE  FALSE
    BY DEF Unhidden, Msgs
  <2>1. CASE y \in hits[r]
    BY <1>6, <2>1, Held DEF Catch, Unhidden, Msgs
  <2>2. CASE y \notin hits[r]
    <3>1. r = s /\ y = x /\ Due(s, x.msg) /\ e \in baseline[s][b].entries
      BY <1>3, <1>5, <1>6, <2>2
    <3>2. Remembered(e.msg) \/ TooOld(s, e.msg)
      BY <3>1 DEF Catch, Recollect
    <3> QED
      BY <1>3, <3>1, <3>2
  <2> QED
    BY <2>1, <2>2
<1> QED
  BY <1>7, <1>8, <1>9, <1>10, <1>11

\* pollOnce returns: it went through every batch to its end.
LEMMA AnsweredCatch ==
    ASSUME Catch, Uncapped, NEW s \in Sessions, PollAnswered(s),
           \A m \in Messages : Remembered(m) => Remembered(m)'
    PROVE  Snap' /\ Marked' /\ Recollect' /\ Unhidden' /\ Caught'
<1>1. /\ UNCHANGED <<arrived, now, batch, since>>
      /\ UNCHANGED <<start, baseline, arrivals, stored, snapshot, fresh>>
      /\ poll[s] = "polling" /\ Answered(s) /\ poll' = [poll EXCEPT ![s] = "storing"]
      /\ todo' = [todo EXCEPT ![s] = NoBatch]
      /\ \E top \in SUBSET hits[s] : hits' = [hits EXCEPT ![s] = top]
  BY DEF PollAnswered
<1>2. TypeOK /\ Sessions = Clients /\ now \in Nat /\ StoreOf(s) = "watch"
  BY Standing, CatchTypes DEF Catch, Gate
<1>3. /\ \A r \in Sessions : r # s => /\ poll'[r] = poll[r] /\ todo'[r] = todo[r]
                                      /\ hits'[r] = hits[r]
      /\ poll'[s] = "storing" /\ hits'[s] \subseteq hits[s]
  BY <1>1, <1>2 DEF TypeOK, PollTypeOK
<1>4. \A r \in Sessions, m \in Messages :
          Due(r, m)' = Due(r, m) /\ TooOld(r, m)' = TooOld(r, m) /\ Stale(m)' = Stale(m)
  BY <1>1 DEF Due, TooOld, Stale
<1>5. Snap'
  BY <1>1 DEF Catch, Snap
<1>6. Caught'
  <2> SUFFICES ASSUME NEW r \in Sessions, poll'[r] = "saving", NEW x \in hits'[r],
                      Dated(x.msg), arrived[x.msg] > start[r]
               PROVE  x.msg \in arrivals[r]
    BY <1>1 DEF Caught
  <2>1. r # s /\ poll[r] = "saving" /\ x \in hits[r]
    BY <1>3
  <2> QED
    BY <2>1 DEF Catch, Caught
<1>7. Marked'
  <2> SUFFICES ASSUME NEW r \in Sessions, NEW b \in Boxes, NEW x \in batch[r][b], Kind[x.msg].hit
               PROVE  \/ Remembered(x.msg)'
                      \/ poll'[r] = "polling" /\ x \in todo'[r][b]
                      \/ poll'[r] # "polling" /\ TooOld(r, x.msg)'
    BY <1>1 DEF Marked
  <2>1. x.msg \in Messages
    BY Held DEF Catch
  <2>2. \/ Remembered(x.msg)
        \/ poll[r] = "polling" /\ x \in todo[r][b]
        \/ poll[r] # "polling" /\ TooOld(r, x.msg)
    BY DEF Catch, Marked
  <2>3. CASE r # s
    BY <1>3, <1>4, <2>1, <2>2, <2>3
  <2>4. CASE r = s /\ ~ Remembered(x.msg)
    <3>1. x \in todo[s][b]
      BY <1>1, <2>2, <2>4
    <3>2. adapter[s][b] = "reading"
      BY <1>1, <2>4 DEF Catch, Gate, Books, Shape, Active
    <3>3. ~ Unprocessed(s, x)
      BY <1>1, <3>1, <3>2 DEF Answered, Exhausted, Uncapped
    <3>4. ~ HasSeen("watch", x.msg)
      <4>1. /\ disk[x.msg] \in Nat /\ mem["watch"][x.msg] \in Nat
            /\ ~ (disk[x.msg] > 0) /\ ~ (mem["watch"][x.msg] > 0)
        BY <1>2, <2>1, <2>4, CatchTypes DEF Catch, Memory
      <4>2. Loaded("watch")[x.msg] = disk[x.msg] \/ Loaded("watch")[x.msg] = mem["watch"][x.msg]
        BY <2>1 DEF Loaded
      <4> QED
        BY <1>2, <4>1, <4>2 DEF HasSeen
    <3> QED
      BY <1>2, <1>3, <1>4, <2>1, <2>4, <3>3, <3>4 DEF Unprocessed
  <2> QED
    BY <2>1, <2>3, <2>4
<1>8. Recollect'
  <2>1. ASSUME NEW r \in Sessions, NEW b \in Boxes
        PROVE  /\ Of(arrived, now, baseline[r][b].entries, b)
               /\ Of(arrived, now, stored.baseline[r][b].entries, b)
    BY DEF Catch, Recollect
  <2>2. ASSUME NEW r \in Sessions, NEW b \in Boxes, NEW e \in baseline[r][b].entries, Due(r, e.msg)'
        PROVE  /\ Remembered(e.msg)' \/ Stale(e.msg)'
               /\ poll'[r] = "polling" => Remembered(e.msg)' \/ TooOld(r, e.msg)'
    <3>1. e.msg \in Messages /\ Due(r, e.msg) /\ (poll'[r] = "polling" => poll[r] = "polling")
      BY <1>1, <1>3, <1>4, <2>2, Held DEF Catch
    <3> QED
      BY <1>4, <3>1 DEF Catch, Recollect
  <2>3. ASSUME NEW r \in Sessions, NEW b \in Boxes, NEW e \in stored.baseline[r][b].entries,
               Due(r, e.msg)'
        PROVE  Remembered(e.msg)' \/ Stale(e.msg)'
    BY <1>4, <2>3, Held DEF Catch, Recollect
  <2> QED
    BY <1>1, <2>1, <2>2, <2>3 DEF Recollect
<1>9. Unhidden'
  <2> SUFFICES ASSUME NEW r \in Sessions, NEW x \in hits'[r], Due(r, x.msg)',
                      BoxOf(x.msg) \notin fresh[r]
               PROVE  x.msg \notin Msgs(baseline[r][BoxOf(x.msg)].entries)
    BY <1>1 DEF Unhidden
  <2>1. x \in hits[r]
    BY <1>3
  <2> QED
    BY <1>4, <2>1, Held DEF Catch, Unhidden
<1> QED
  BY <1>5, <1>6, <1>7, <1>8, <1>9

LEMMA SettledStep ==
    ASSUME Gate, Settled, [Next]_vars
    PROVE  Settled'
<1>t. TypeOK /\ Sessions = Clients
  BY Standing DEF Gate
<1>q. ASSUME UNCHANGED <<poll, fresh, adapter, baseline>> PROVE Settled'
  BY <1>q DEF Settled, Baselinable, Succeeded
<1>r. ASSUME NEW s \in Sessions,
             \A r \in Sessions : r # s => /\ poll'[r] = poll[r] /\ fresh'[r] = fresh[r]
                                          /\ adapter'[r] = adapter[r] /\ baseline'[r] = baseline[r],
             poll'[s] = "polling" => fresh'[s] = {},
             poll'[s] = "storing" /\ fresh'[s] # {} => (\A b \in Boxes : ~ Baselinable(s, b))'
      PROVE  Settled'
  BY <1>r DEF Settled, Baselinable, Succeeded
<1>1. ASSUME NEW s \in Sessions, StartSession(s) PROVE Settled'
  BY <1>1, <1>q DEF StartSession, pollVars
<1>2. ASSUME NEW s \in Sessions, Poll(s) PROVE Settled'
  BY <1>2, <1>r, <1>t DEF Poll, BeginPoll, TypeOK, PollTypeOK
<1>3. ASSUME NEW s \in Sessions, PollOnce(s) PROVE Settled'
  <2>1. poll[s] = "polling" /\ UNCHANGED <<poll, fresh, baseline>>
    BY <1>3 DEF PollOnce
  <2>2. \A r \in Sessions : r # s => adapter'[r] = adapter[r]
    BY <1>3, <1>t DEF PollOnce, AdapterStep, BatchArrives, AdapterFails, Process, TypeOK, PollTypeOK
  <2> QED
    BY <1>r, <2>1, <2>2 DEF Settled
<1>4. ASSUME NEW s \in Sessions, PollAnswered(s) PROVE Settled'
  <2>1. /\ poll[s] = "polling" /\ UNCHANGED <<fresh, baseline>>
        /\ poll' = [poll EXCEPT ![s] = "storing"]
        /\ \E how : adapter' = [adapter EXCEPT ![s] = how]
    BY <1>4 DEF PollAnswered
  <2>2. fresh[s] = {}
    BY <2>1 DEF Settled
  <2> QED
    BY <1>r, <1>t, <2>1, <2>2 DEF TypeOK, PollTypeOK
<1>5. ASSUME NEW s \in Sessions, GiveUp(s) \/ FindCode(s) PROVE Settled'
  <2>1. /\ UNCHANGED <<fresh, baseline>> /\ poll' = [poll EXCEPT ![s] = "idle"]
        /\ \E how : adapter' = [adapter EXCEPT ![s] = how]
    BY <1>5 DEF GiveUp, FindCode, Nothing, EndPoll
  <2> QED
    BY <1>r, <1>t, <2>1 DEF TypeOK, PollTypeOK
<1>6. ASSUME NEW s \in Sessions, CommitBaselines(s) PROVE Settled'
  <2>1. /\ poll[s] = "storing" /\ UNCHANGED <<poll, adapter>>
        /\ \E line : baseline' = [baseline EXCEPT ![s] = line]
        /\ \E some : fresh' = [fresh EXCEPT ![s] = some]
        /\ \A b \in Boxes : Baselinable(s, b) => baseline'[s][b].set
        /\ \A b \in Boxes : ~ Baselinable(s, b) => baseline'[s][b] = baseline[s][b]
    BY <1>6, <1>t DEF CommitBaselines, pollVars, TypeOK
  <2>2. (\A b \in Boxes : ~ Baselinable(s, b))'
    BY <2>1 DEF Baselinable, Succeeded
  <2> QED
    BY <1>r, <1>t, <2>1, <2>2 DEF TypeOK
<1>7. ASSUME NEW s \in Sessions, Classify(s) PROVE Settled'
  BY <1>7, <1>r, <1>t DEF Classify, pollVars, TypeOK
<1>8. CASE Crash
  BY <1>8 DEF Crash, Settled
<1>9. CASE World /\ UNCHANGED gateVars
  BY <1>9, <1>q, WorldQuiet
<1>10. CASE UNCHANGED vars
  BY <1>10, <1>q DEF vars, pollVars, gateVars
<1> QED
  BY <1>1, <1>2, <1>3, <1>4, <1>5, <1>6, <1>7, <1>8, <1>9, <1>10 DEF Next, SessionStep

\* A poll ends with nothing.
LEMMA EndCatch ==
    ASSUME Catch, NEW s \in Sessions, Nothing(s), Persist,
           UNCHANGED <<baseline, arrivals, start, snapshot, fresh>>
    PROVE  Snap' /\ Marked' /\ Recollect' /\ Unhidden' /\ Caught'
<1>1. /\ UNCHANGED <<arrived, now, mem, loaded, disk>>
      /\ poll' = [poll EXCEPT ![s] = "idle"] /\ batch' = [batch EXCEPT ![s] = NoBatch]
      /\ todo' = [todo EXCEPT ![s] = NoBatch] /\ hits' = [hits EXCEPT ![s] = {}]
      /\ since' = [since EXCEPT ![s] = 0] /\ stored'.baseline = baseline
  BY SavedIs DEF Nothing, EndPoll
<1>2. Sessions = Clients /\ TypeOK
  BY Standing DEF Catch, Gate
<1>3. /\ \A r \in Sessions : r # s =>
             /\ batch'[r] = batch[r] /\ todo'[r] = todo[r] /\ hits'[r] = hits[r]
             /\ poll'[r] = poll[r] /\ since'[r] = since[r]
      /\ \A b \in Boxes : batch'[s][b] = {}
      /\ hits'[s] = {} /\ poll'[s] = "idle"
  BY <1>1, <1>2, Cleared DEF TypeOK, PollTypeOK
<1>4. /\ \A m \in Messages : Remembered(m)' = Remembered(m) /\ Stale(m)' = Stale(m)
      /\ \A r \in Sessions, m \in Messages : Due(r, m)' = Due(r, m)
      /\ \A r \in Sessions, m \in Messages : r # s => TooOld(r, m)' = TooOld(r, m)
  BY <1>1, <1>3 DEF Remembered, Stale, Due, TooOld
<1>5. Snap' /\ Caught'
  BY <1>1, <1>3 DEF Catch, Snap, Caught
<1>6. Marked'
  <2> SUFFICES ASSUME NEW r \in Sessions, NEW b \in Boxes, NEW x \in batch[r][b], r # s, Kind[x.msg].hit
               PROVE  \/ Remembered(x.msg)'
                      \/ poll[r] = "polling" /\ x \in todo[r][b]
                      \/ poll[r] # "polling" /\ TooOld(r, x.msg)'
    BY <1>3 DEF Marked
  <2> QED
    BY <1>4, Held DEF Catch, Marked
<1>7. Recollect'
  <2>1. ASSUME NEW r \in Sessions, NEW b \in Boxes
        PROVE  Of(arrived, now, baseline[r][b].entries, b)
    BY DEF Catch, Recollect
  <2>2. ASSUME NEW r \in Sessions, NEW b \in Boxes, NEW e \in baseline[r][b].entries, Due(r, e.msg)'
        PROVE  /\ Remembered(e.msg)' \/ Stale(e.msg)'
               /\ poll'[r] = "polling" => Remembered(e.msg)' \/ TooOld(r, e.msg)'
    <3>1. e.msg \in Messages /\ Due(r, e.msg)
      BY <1>4, <2>2, Held DEF Catch
    <3>2. /\ Remembered(e.msg) \/ Stale(e.msg)
          /\ poll[r] = "polling" => Remembered(e.msg) \/ TooOld(r, e.msg)
      BY <3>1 DEF Catch, Recollect
    <3> QED
      BY <1>3, <1>4, <3>1, <3>2
  <2> QED
    BY <1>1, <2>1, <2>2 DEF Recollect
<1>8. Unhidden'
  <2> SUFFICES ASSUME NEW r \in Sessions, r # s, NEW x \in hits[r], Due(r, x.msg)',
                      BoxOf(x.msg) \notin fresh[r]
               PROVE  x.msg \notin Msgs(baseline[r][BoxOf(x.msg)].entries)
    BY <1>1, <1>3 DEF Unhidden
  <2> QED
    BY <1>4, Held DEF Catch, Unhidden
<1> QED
  BY <1>5, <1>6, <1>7, <1>8

\* The first baseline of a mailbox is what the poll went through, or what an
\* earlier session's did, before this session began.
LEMMA CommitCatch ==
    ASSUME Catch, NEW s \in Sessions, CommitBaselines(s)
    PROVE  Snap' /\ Marked' /\ Recollect' /\ Unhidden' /\ Caught'
<1> DEFINE new == {b \in Boxes : Baselinable(s, b)}
           line(b) == [set |-> TRUE,
                       entries |-> IF Seeded(s, b) THEN snapshot.entries ELSE batch[s][b]]
<1>1. /\ UNCHANGED <<arrived, now, mem, loaded, disk, todo, batch, hits, since>>
      /\ UNCHANGED <<start, arrivals, stored, poll>> /\ poll[s] = "storing"
      /\ new # {}
      /\ baseline' = [baseline EXCEPT ![s] =
             [b \in Boxes |-> IF b \notin new THEN baseline[s][b] ELSE line(b)]]
      /\ fresh' = [fresh EXCEPT ![s] = {b \in new : ~ Seeded(s, b)}]
      /\ snapshot' = IF SmsBox \in new /\ batch[s][SmsBox] # {}
                     THEN [at |-> now, entries |-> batch[s][SmsBox]] ELSE snapshot
  BY DEF CommitBaselines, pollVars
<1>2. /\ TypeOK /\ SmsBox \in Boxes /\ now \in Nat /\ arrived \in [Messages -> Nat]
      /\ Window \in Nat /\ start[s] \in Nat /\ since[s] \in Nat /\ snapshot.at \in Nat
  BY Standing, CatchTypes, Posts DEF Catch, Gate
<1>3. fresh[s] = {}
  BY <1>1 DEF Catch, Settled
<1>l. \A b \in Boxes : line(b).entries = IF Seeded(s, b) THEN snapshot.entries ELSE batch[s][b]
  OBVIOUS
<1> HIDE DEF new, line
<1>4. /\ \A r \in Sessions, b \in Boxes : r # s \/ b \notin new => baseline'[r][b] = baseline[r][b]
      /\ \A b \in Boxes : b \in new =>
             baseline'[s][b].entries = IF Seeded(s, b) THEN snapshot.entries ELSE batch[s][b]
      /\ \A r \in Sessions : r # s => fresh'[r] = fresh[r]
      /\ fresh'[s] = {b \in new : ~ Seeded(s, b)}
  BY <1>1, <1>2, <1>l DEF TypeOK
<1>5. Snap'
  <2>1. Of(arrived, now, batch[s][SmsBox], SmsBox)
    BY <1>2 DEF Catch, Gate, Books
  <2>2. \A e \in batch[s][SmsBox] : arrived[e.msg] <= now
    BY <2>1 DEF Of, In
  <2> QED
    BY <1>1, <2>1, <2>2 DEF Catch, Snap
<1>6. Marked' /\ Caught'
  BY <1>1 DEF Catch, Marked, Caught, Remembered, TooOld
<1>7. /\ \A m \in Messages : Remembered(m)' = Remembered(m) /\ Stale(m)' = Stale(m)
      /\ \A r \in Sessions, m \in Messages : Due(r, m)' = Due(r, m) /\ TooOld(r, m)' = TooOld(r, m)
  BY <1>1 DEF Remembered, Stale, Due, TooOld
\* A snapshot that seeds a baseline was taken before the session began.
<1>8. \A b \in Boxes, e \in snapshot.entries : Seeded(s, b) => b = SmsBox /\ ~ Due(s, e.msg)
  <2> SUFFICES ASSUME NEW b \in Boxes, NEW e \in snapshot.entries, Seeded(s, b)
               PROVE  b = SmsBox /\ ~ Due(s, e.msg)
    OBVIOUS
  <2>1. b = SmsBox /\ snapshot.at <= start[s] /\ arrived[e.msg] <= snapshot.at /\ e.msg \in Messages
    BY Held DEF Seeded, UsableSnapshot, Catch, Snap
  <2> QED
    BY <1>2, <2>1 DEF Due
<1>9. \A b \in Boxes : \A x \in batch[s][b] :
          x.msg \in Messages /\ (Kind[x.msg].hit => Remembered(x.msg) \/ Stale(x.msg))
  <2> SUFFICES ASSUME NEW b \in Boxes, NEW x \in batch[s][b], Kind[x.msg].hit, ~ Remembered(x.msg)
               PROVE  Stale(x.msg)
    BY Held DEF Catch
  <2>1. x.msg \in Messages /\ TooOld(s, x.msg)
    BY <1>1, Held DEF Catch, Marked
  <2>2. Dated(x.msg) /\ arrived[x.msg] < since[s] /\ since[s] + Window <= now
    BY <1>2, <2>1 DEF TooOld, Catch, Memory
  <2> QED
    BY <1>2, <2>1, <2>2 DEF Stale
<1>10. Recollect'
  <2>1. ASSUME NEW r \in Sessions, NEW b \in Boxes
        PROVE  /\ Of(arrived, now, baseline'[r][b].entries, b)
               /\ Of(arrived, now, stored.baseline[r][b].entries, b)
    <3>1. CASE r # s \/ b \notin new
      BY <1>4, <3>1 DEF Catch, Recollect
    <3>2. CASE r = s /\ b \in new
      <4>1. Of(arrived, now, batch[s][b], b)
        BY DEF Catch, Gate, Books
      <4>2. Seeded(s, b) => Of(arrived, now, snapshot.entries, b)
        BY DEF Seeded, Catch, Snap
      <4>3. baseline'[r][b].entries = IF Seeded(s, b) THEN snapshot.entries ELSE batch[s][b]
        BY <1>4, <3>2
      <4>4. Of(arrived, now, stored.baseline[r][b].entries, b)
        BY DEF Catch, Recollect
      <4> QED
        BY <4>1, <4>2, <4>3, <4>4
    <3> QED
      BY <3>1, <3>2
  <2>2. ASSUME NEW r \in Sessions, NEW b \in Boxes, NEW e \in baseline'[r][b].entries, Due(r, e.msg)'
        PROVE  /\ Remembered(e.msg)' \/ Stale(e.msg)'
               /\ poll[r] = "polling" => Remembered(e.msg)' \/ TooOld(r, e.msg)'
    <3>1. CASE r # s \/ b \notin new
      <4>1. e \in baseline[r][b].entries
        BY <1>4, <3>1
      <4> QED
        BY <1>7, <2>2, <4>1, Held DEF Catch, Recollect
    <3>2. CASE r = s /\ b \in new
      <4>1. baseline'[r][b].entries = IF Seeded(s, b) THEN snapshot.entries ELSE batch[s][b]
        BY <1>4, <3>2
      <4>2. e.msg \in Messages
        BY <4>1, Held DEF Catch
      <4>3. ~ Seeded(s, b) /\ Due(s, e.msg)
        BY <1>7, <1>8, <2>2, <3>2, <4>1, <4>2
      <4>4. Remembered(e.msg) \/ Stale(e.msg)
        BY <1>9, <4>1, <4>3 DEF Due
      <4> QED
        BY <1>1, <1>7, <3>2, <4>2, <4>4
    <3> QED
      BY <3>1, <3>2
  <2>3. ASSUME NEW r \in Sessions, NEW b \in Boxes, NEW e \in stored.baseline[r][b].entries,
               Due(r, e.msg)'
        PROVE  Remembered(e.msg)' \/ Stale(e.msg)'
    BY <1>7, <2>3, Held DEF Catch, Recollect
  <2> QED
    BY <1>1, <2>1, <2>2, <2>3 DEF Recollect
<1>11. Unhidden'
  <2> SUFFICES ASSUME NEW r \in Sessions, NEW x \in hits[r], Due(r, x.msg)',
                      BoxOf(x.msg) \notin fresh'[r],
                      NEW e \in baseline'[r][BoxOf(x.msg)].entries, e.msg = x.msg
               PROVE  FALSE
    BY <1>1 DEF Unhidden, Msgs
  <2>0. x.msg \in Messages /\ BoxOf(x.msg) \in Boxes /\ Due(r, x.msg)
    BY <1>7, Held DEF Catch
  <2>1. CASE r # s \/ BoxOf(x.msg) \notin new
    <3>1. BoxOf(x.msg) \notin fresh[r] /\ e \in baseline[r][BoxOf(x.msg)].entries
      BY <1>3, <1>4, <2>0, <2>1
    <3> QED
      BY <2>0, <3>1 DEF Catch, Unhidden, Msgs
  <2>2. CASE r = s /\ BoxOf(x.msg) \in new
    <3>1. Seeded(s, BoxOf(x.msg)) /\ e \in snapshot.entries
      BY <1>4, <2>0, <2>2
    <3> QED
      BY <1>8, <2>0, <2>2, <3>1
  <2> QED
    BY <2>1, <2>2
<1> QED
  BY <1>5, <1>6, <1>10, <1>11

\* The hits of the session's own time become arrivals.
LEMMA ClassifyCatch ==
    ASSUME Catch, NEW s \in Sessions, Classify(s)
    PROVE  Snap' /\ Marked' /\ Recollect' /\ Unhidden' /\ Caught'
<1>1. /\ UNCHANGED <<arrived, now, mem, loaded, disk, todo, batch, hits, since>>
      /\ UNCHANGED <<start, baseline, snapshot, fresh>>
      /\ poll[s] = "storing" /\ poll' = [poll EXCEPT ![s] = "saving"]
      /\ arrivals' = [arrivals EXCEPT ![s] =
                         arrivals[s] \cup {x.msg : x \in {y \in hits[s] : Accepted(s, y)}}]
      /\ stored'.baseline = baseline
      /\ \A b \in Boxes : ~ Baselinable(s, b)
  BY SavedIs DEF Classify, pollVars
<1>2. TypeOK /\ arrived \in [Messages -> Nat] /\ start[s] \in Nat /\ Grace \in Nat
  BY Standing, WindowsAssumption DEF Catch, Gate
<1>3. /\ \A r \in Sessions : r # s => arrivals'[r] = arrivals[r] /\ poll'[r] = poll[r]
      /\ poll'[s] = "saving"
      /\ \A x \in hits[s] : Accepted(s, x) => x.msg \in arrivals'[s]
  BY <1>1, <1>2 DEF TypeOK
<1>4. Snap' /\ Unhidden'
  BY <1>1 DEF Catch, Snap, Unhidden, Due
<1>5. Marked'
  <2>1. \A r \in Sessions : poll'[r] = "polling" <=> poll[r] = "polling"
    BY <1>1, <1>3
  <2> QED
    BY <1>1, <2>1 DEF Catch, Marked, Remembered, TooOld
<1>6. Recollect'
  <2>1. \A r \in Sessions : poll'[r] = "polling" => poll[r] = "polling"
    BY <1>1, <1>3
  <2> QED
    BY <1>1, <2>1 DEF Catch, Recollect, Remembered, TooOld, Stale, Due
<1>7. Caught'
  <2> SUFFICES ASSUME NEW r \in Sessions, poll'[r] = "saving", NEW x \in hits[r],
                      Dated(x.msg), arrived[x.msg] > start[r]
               PROVE  x.msg \in arrivals'[r]
    BY <1>1 DEF Caught
  <2>1. CASE r # s
    BY <1>3, <2>1 DEF Catch, Caught
  <2>2. CASE r = s
    <3>1. /\ x.msg \in Messages /\ BoxOf(x.msg) \in Boxes
          /\ x \in batch[s][BoxOf(x.msg)] /\ Due(s, x.msg)
      BY <2>2, Held DEF Catch, Gate, Books, Due
    <3>2. baseline[s][BoxOf(x.msg)].set
      BY <1>1, <3>1, StoringBoxes DEF Catch, Baselinable, Succeeded
    <3>3. FreshFor(s, x.msg)
      BY <1>2, <2>2, <3>1 DEF FreshFor
    <3>4. BoxOf(x.msg) \notin fresh[s] => IsNewArrival(s, x)
      BY <2>2, <3>1, <3>2 DEF IsNewArrival, Catch, Unhidden, Msgs
    <3> QED
      BY <1>3, <2>2, <3>3, <3>4 DEF Accepted
  <2> QED
    BY <2>1, <2>2
<1> QED
  BY <1>4, <1>5, <1>6, <1>7

LEMMA CrashCatch ==
    ASSUME Catch, Crash
    PROVE  Snap' /\ Marked' /\ Recollect' /\ Unhidden' /\ Caught'
<1>1. /\ UNCHANGED <<arrived, now, start, stored, snapshot, disk>> /\ loaded' = {}
      /\ batch' = [c \in Clients |-> NoBatch] /\ hits' = [c \in Clients |-> {}]
      /\ baseline' = stored.baseline /\ poll' = [s \in Sessions |-> "idle"]
  BY DEF Crash, PollCrash
<1>2. Sessions = Clients
  BY Standing DEF Catch, Gate
<1>3. \A s \in Sessions : /\ hits'[s] = {} /\ poll'[s] = "idle"
                          /\ \A b \in Boxes : batch'[s][b] = {}
  BY <1>1, <1>2, Cleared
<1>4. \A m \in Messages : Remembered(m) => Remembered(m)'
  BY <1>1 DEF Remembered
<1>5. Snap'
  BY <1>1 DEF Catch, Snap
<1>6. Marked' /\ Unhidden' /\ Caught'
  BY <1>3 DEF Marked, Unhidden, Caught
<1>7. Recollect'
  <2>1. ASSUME NEW s \in Sessions, NEW b \in Boxes, NEW e \in stored.baseline[s][b].entries, Due(s, e.msg)
        PROVE  Remembered(e.msg)' \/ Stale(e.msg)
    BY <1>4, <2>1, Held DEF Catch, Recollect
  <2>2. \A s \in Sessions, b \in Boxes : Of(arrived, now, stored.baseline[s][b].entries, b)
    BY DEF Catch, Recollect
  <2> QED
    BY <1>1, <1>3, <2>1, <2>2 DEF Recollect, Due, Stale
<1> QED
  BY <1>5, <1>6, <1>7

LEMMA CatchStep ==
    ASSUME HitTtl > MaxTime, Catch, Uncapped, [Next]_vars
    PROVE  Catch'
<1>0. /\ Gate' /\ Settled' /\ Memory'
      /\ \A m \in Messages : Remembered(m) => Remembered(m)'
  BY GateStep, SettledStep, MemoryStep DEF Catch
<1>1. ASSUME NEW s \in Sessions, StartSession(s) PROVE Catch'
  BY <1>0, <1>1, StartCatch DEF Catch
<1>2. ASSUME NEW s \in Sessions, Poll(s) PROVE Catch'
  BY <1>0, <1>2, BeginCatch DEF Catch
<1>3. ASSUME NEW s \in Sessions, PollOnce(s) PROVE Catch'
  <2>1. /\ poll[s] = "polling"
        /\ UNCHANGED <<start, baseline, arrivals, stored, snapshot, poll, fresh>>
    BY <1>3 DEF PollOnce
  <2>2. ASSUME NEW b \in Boxes, BatchArrives(s, b) PROVE Catch'
    BY <1>0, <2>1, <2>2, ArrivesCatch DEF Catch
  <2>3. ASSUME NEW b \in Boxes, Process(s, b) PROVE Catch'
    BY <1>0, <2>1, <2>3, ProcessCatch DEF Catch
  <2>4. ASSUME NEW b \in Boxes, AdapterFails(s, b) PROVE Catch'
    <3>1. Snap' /\ Marked' /\ Recollect' /\ Unhidden' /\ Caught'
      BY <2>1, <2>4 DEF AdapterFails, Catch, Snap, Marked, Recollect, Unhidden, Caught, Due, Stale,
         TooOld, Remembered
    <3> QED
      BY <1>0, <3>1 DEF Catch
  <2> QED
    BY <1>3, <2>2, <2>3, <2>4 DEF PollOnce, AdapterStep
<1>4. ASSUME NEW s \in Sessions, PollAnswered(s) PROVE Catch'
  BY <1>0, <1>4, AnsweredCatch DEF Catch
<1>5. ASSUME NEW s \in Sessions, GiveUp(s) \/ FindCode(s) PROVE Catch'
  <2>1. Nothing(s) /\ Persist /\ UNCHANGED <<baseline, arrivals, start, snapshot, fresh>>
    BY <1>5 DEF GiveUp, FindCode
  <2> QED
    BY <1>0, <2>1, EndCatch DEF Catch
<1>6. ASSUME NEW s \in Sessions, CommitBaselines(s) PROVE Catch'
  BY <1>0, <1>6, CommitCatch DEF Catch
<1>7. ASSUME NEW s \in Sessions, Classify(s) PROVE Catch'
  BY <1>0, <1>7, ClassifyCatch DEF Catch
<1>8. CASE Crash
  BY <1>0, <1>8, CrashCatch DEF Catch
<1>9. CASE World /\ UNCHANGED gateVars
  BY <1>0, <1>9, WorldCatch DEF Catch
<1>10. CASE UNCHANGED vars
  <2>1. Snap' /\ Marked' /\ Recollect' /\ Unhidden' /\ Caught'
    BY <1>10 DEF vars, pollVars, gateVars, Catch, Snap, Marked, Recollect, Unhidden, Caught, Due,
       Stale, TooOld, Remembered
  <2> QED
    BY <1>0, <2>1 DEF Catch
<1> QED
  BY <1>1, <1>2, <1>3, <1>4, <1>5, <1>6, <1>7, <1>8, <1>9, <1>10 DEF Next, SessionStep

-----------------------------------------------------------------------------
(***************************************************************************)
(* What follows for the specification.                                     *)
(***************************************************************************)
LEMMA InitTypes == Init => TypeOK
<1> SUFFICES ASSUME Init PROVE TypeOK
  OBVIOUS
<1>n. /\ MaxTime \in Nat /\ MaxFailures \in Nat /\ Never = MaxTime + 1 /\ MaxCrashes \in Nat
  BY Numbers
<1>1. PollTypeOK
  BY <1>n DEF Init, PollInit, PollTypeOK, Empty, Quiet, NoBatch, Stores, AdapterStates
<1>2. Own
  <2>1. Unset \in Baselines
    BY DEF Unset, Baselines
  <2>2. baseline \in AllBaselines /\ arrivals \in [Sessions -> SUBSET Messages]
    BY <2>1 DEF Init, AllBaselines
  <2>3. stored \in [baseline : AllBaselines, arrivals : [Sessions -> SUBSET Messages]]
    BY <2>2 DEF Init
  <2>4. /\ snapshot \in [at : 0 .. Never, entries : SUBSET Sightings]
        /\ start \in [Sessions -> 0 .. Never] /\ crashes \in 0 .. MaxCrashes
    BY <1>n DEF Init, NoSnapshot
  <2>5. /\ phase \in [Sessions -> {"unborn", "open", "filled"}]
        /\ poll \in [Sessions -> {"idle", "polling", "storing", "saving"}]
        /\ fresh \in [Sessions -> SUBSET Boxes] /\ polls \in [Sessions -> Nat]
        /\ filled \in [Sessions -> Messages \cup {None}] /\ taken \in [Messages -> Nat]
        BY <2>1 DEF Init
  <2> QED
    BY <2>2, <2>3, <2>4, <2>5 DEF Own
<1> QED
  BY <1>1, <1>2, Split

\* The baselines, arrivals, snapshots and polls of the sessions keep their types.
THEOREM TypeCorrect == Spec => []TypeOK
<1>1. Init => TypeOK
  BY InitTypes
<1>2. TypeOK /\ [Next]_vars => TypeOK'
  BY TypeStep
<1> QED
  BY <1>1, <1>2, PTL DEF Spec

\* For as long as a hit stays in the seen store, no code is shipped twice,
\* however many sessions poll the same mailboxes and whenever the worker dies.
THEOREM CodesTakenOnce == ASSUME HitTtl > MaxTime PROVE Spec => []TakenOnce
<1>1. Init => TakenMarked
  BY DEF Init, TakenMarked
<1>2. TypeOK /\ TakenMarked /\ [Next]_vars => TakenMarked'
  BY TakenStep
<1>3. TakenMarked => TakenOnce
  BY DEF TakenMarked, TakenOnce
<1> QED
  BY <1>1, <1>2, <1>3, TypeCorrect, PTL DEF Spec

LEMMA InitGate == Init => Gate
<1> SUFFICES ASSUME Init PROVE Gate
  OBVIOUS
<1>0. TypeOK
  BY InitTypes
<1>1. Sessions = Clients /\ EmailBoxes \subseteq Boxes /\ Never = MaxTime + 1 /\ MaxTime \in Nat
  BY <1>0, Standing, Posts
<1>2. \A s \in Sessions : /\ phase[s] = "unborn" /\ poll[s] = "idle" /\ arrivals[s] = {}
                          /\ stored.arrivals[s] = {} /\ hits[s] = {}
                          /\ \A b \in Boxes : /\ baseline[s][b] = Unset
                                              /\ stored.baseline[s][b] = Unset
                                              /\ adapter[s][b] \notin Active
                                              /\ batch[s][b] = {} /\ todo[s][b] = {}
  BY <1>1, Cleared DEF Init, PollInit
<1>3. Clock
  BY <1>1, <1>2 DEF Clock, Init, PollInit
<1>4. Shape
  BY <1>2 DEF Shape
<1>5. Books
  BY <1>2 DEF Books, Of
<1>6. ListsAll
  BY <1>1, <1>2, EmptyLists DEF ListsAll
<1>7. RecordsAll
  BY <1>1, <1>2 DEF RecordsAll, Record, Unset
<1>8. ArrivalsFresh
  BY <1>2 DEF ArrivalsFresh, FreshIn
<1> QED
  BY <1>0, <1>3, <1>4, <1>5, <1>6, <1>7, <1>8 DEF Gate

LEMMA GateAlways == Spec => []Gate
<1>1. Init => Gate
  BY InitGate
<1>2. Gate /\ [Next]_vars => Gate'
  BY GateStep
<1> QED
  BY <1>1, <1>2, PTL DEF Spec

\* Whatever may be filled in came after the session began, give or take the
\* grace, also the email whose time nobody asks: however many sessions poll,
\* whatever the mailboxes list, and whenever the worker dies.
THEOREM OnlyFresh == Spec => []FreshOnly
<1>1. Gate => FreshOnly
  BY DEF Gate, ArrivalsFresh, FreshIn, FreshOnly
<1> QED
  BY <1>1, GateAlways, PTL

LEMMA InitCatch == Init => Catch
<1> SUFFICES ASSUME Init PROVE Catch
  OBVIOUS
<1>0. Gate
  BY InitGate
<1>1. Sessions = Clients /\ "watch" \in Stores
  BY <1>0, Standing, CatchTypes DEF Gate
<1>2. \A s \in Sessions : /\ poll[s] = "idle" /\ hits[s] = {} /\ since[s] = 0
                          /\ \A b \in Boxes : /\ baseline[s][b] = Unset
                                              /\ stored.baseline[s][b] = Unset
                                              /\ batch[s][b] = {}
  BY <1>1, Cleared DEF Init, PollInit
<1>3. Settled /\ Marked /\ Unhidden /\ Caught
  BY <1>2 DEF Settled, Marked, Unhidden, Caught
<1>4. Memory
  BY <1>1, <1>2 DEF Memory, Init, PollInit, Empty
<1>5. Snap
  BY DEF Snap, Of, Init, NoSnapshot
<1>6. Recollect
  BY <1>2 DEF Recollect, Of, Unset
<1> QED
  BY <1>0, <1>3, <1>4, <1>5, <1>6 DEF Catch

\* A code that a poll took from a message of its session's own time is among
\* the arrivals, whatever baselines and snapshots there are: as long as hits
\* stay in the seen store and no poll takes so many that it stops early.
THEOREM TakenKept == ASSUME HitTtl > MaxTime PROVE Spec /\ []Uncapped => []Caught
<1>1. Init => Catch
  BY InitCatch
<1>2. Catch /\ Uncapped /\ [Next]_vars => Catch'
  BY CatchStep
<1>3. Catch => Caught
  BY DEF Catch
<1> QED
  BY <1>1, <1>2, <1>3, PTL DEF Spec
===============================================================================
