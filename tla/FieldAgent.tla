------------------------------ MODULE FieldAgent ------------------------------
(***************************************************************************)
(* The content script of a page: the field detector                        *)
(* (lib/detection/field-detector.ts), the focus gate and the batches of    *)
(* contents/index.ts, and the one active watch of                          *)
(* contents/watch-session.ts.                                              *)
(*                                                                         *)
(* An input passes four guards against being detected twice: the           *)
(* detector's set, its cooldown registry, the set of processed             *)
(* representatives, and the mark of a focus gate.  The session that is     *)
(* started for it has to release them, or the page needs a reload before   *)
(* the next code is caught.  What happens between a session and the        *)
(* background is WatchPort's matter; here a session just ends, in one of   *)
(* the ways it can.                                                        *)
(***************************************************************************)
EXTENDS FieldDetection, SubmitButton
LOCAL INSTANCE FiniteSetsExt

CONSTANTS
    Layout,     \* Layout[n]: how the inputs are laid out (SplitGroups)
    Look,       \* Look[l]: a look (FieldDetection), and whether it is displayed
    Moving,     \* Moving[n][r]: looks the group of r takes on a page that changes
    Still,      \* <<layout, look>> of pages that do not
    Site,       \* Site[w]: a site (SubmitButton)
    Ordinary,   \* the site of the pages above
    Turns,      \* Turns[w]: the sites that the page of w can turn into
    Rules,      \* the rules a user may set (SubmitButton)
    DefaultRules,
    Options,    \* bound: the levels and the rules chosen on a page of w
    Scenes,     \* <<layout, look, site, rules>> of pages with full automation
    MaxPage,    \* bound: changes the page makes
    MaxUser,    \* bound: changes the user or the browser makes
    MaxSessions \* bound: sessions started

Sessions == 1 .. MaxSessions
Levels == {"manual", "clipboard", "autofill", "full-automation"}
Looks == DOMAIN Look
None == 0  \* no input, no session, and the look of what is not in the document

\* What the layouts determine, in tables: TLC computes the value of a function
\* that was compared with another one only once.
Table(f) == CHOOSE g \in {f} : g = f
Spots == UNION {{n} \X Places(Layout[n]) : n \in DOMAIN Layout}
Sight == Table(Look)
GroupOf == Table([p \in Spots |-> Members(Layout[p[1]], p[2])])
RepOf == Table([p \in Spots |-> Representative(Layout[p[1]], p[2])])
Bonus == {p \in Spots : Cardinality(GroupOf[p]) > 1 /\ ~BonusSuppressed(Layout[p[1]], p[2])}
RepsOf == Table([n \in DOMAIN Layout |-> {RepOf[<<n, i>>] : i \in Places(Layout[n])}])

\* Inputs that are not displayed keep their places in the groups.
Displays == UNION {{n} \X SUBSET RepsOf[n] : n \in DOMAIN Layout}
Displayed(d) ==
    [i \in Places(Layout[d[1]]) |->
        IF RepOf[<<d[1], i>>] \in d[2] THEN Layout[d[1]][i]
        ELSE [Layout[d[1]][i] EXCEPT !.seen = "gone"]]
ScanFields == Table([d \in Displays |-> PageFields(Displayed(d))])
MutationFields == Table([d \in Displays |->
    {i \in Visible(Displayed(d)) : ~Shadowed(Displayed(d), i)}])
Replaces == Table([d \in Displays |->
    {p \in RepsOf[d[1]] \X RepsOf[d[1]] : GivesWay(Displayed(d), p[1], p[2])}])

ASSUME AgentAssumption ==
    /\ \A n \in DOMAIN Layout : Layout[n] \in Seq(InputRecord)
    /\ DOMAIN Moving \subseteq DOMAIN Layout
    /\ \A n \in DOMAIN Moving : Moving[n] \in [RepsOf[n] -> SUBSET Looks]
    /\ Still \subseteq (DOMAIN Layout) \X Looks
    /\ Looks \subseteq Nat \ {None}
    /\ \A w \in DOMAIN Site : Site[w] \in SiteRecord
    /\ Ordinary \in DOMAIN Site /\ Turns \in [DOMAIN Site -> SUBSET DOMAIN Site]
    /\ DefaultRules \in Rules /\ DOMAIN Options = DOMAIN Site
    /\ \A w \in DOMAIN Site : Options[w] \in [levels : SUBSET Levels, rules : SUBSET Rules]
    /\ Scenes \subseteq (DOMAIN Moving) \X Looks \X (DOMAIN Site) \X Rules
    /\ \A p \in Spots : RepOf[<<p[1], RepOf[p]>>] = RepOf[p]
    /\ {MaxPage, MaxUser, MaxSessions} \subseteq Nat \ {0}

VARIABLES
    layout,    \* the layout of the page
    page,      \* page[r]: how the group of r looks, or None
    sms,       \* smsFeatureEnabledCache: Google Messages is connected
    focus,     \* the input that has the focus
    value,     \* inputs with a value
    filled,    \* inputs marked as filled by the extension
    level,     \* the automation level in the settings
    site,      \* what the page says and which controls it has
    rules,     \* where the user wants the extension
    observing, \* the first scan is over
    detected,  \* detectedFields
    cooldown,  \* places in the cooldown registry
    mutated,   \* pendingMutations, waiting for the 100 ms timer
    batch,     \* pendingFields: inputs, each with its look when it was detected
    read,      \* entries whose timer has read the settings
    loop,      \* entries of the batch being handled, in one turn
    processed, \* globalProcessedRepresentatives
    gated,     \* representatives with the mark of the focus gate
    registry,  \* representatives in focusGateRegistry
    listening, \* inputs with a focus listener
    session,   \* session[s]: the representative watched, how far s is, what it
               \* will do with its code, the site as it was when that was
               \* decided, and the button it clicked
    active,    \* activeWatch, 0 for none
    recent,    \* a session was created less than 1 s ago
    pages, users, sessions

ground == <<layout, site, rules>>
env == <<ground, page, sms, focus, value, level, pages, users>>
guards == <<detected, cooldown, processed, gated, registry, listening>>
queues == <<mutated, batch, read, loop>>
watch == <<session, active, recent, sessions>>
vars == <<env, filled, observing, guards, queues, watch>>

Stages == {"none", "starting", "open", "handling", "filling", "submitting", "filled", "ended"}
Modes == {"none", "clipboard", "fill", "submit"}
Bare(r, stage) ==
    [rep |-> r, stage |-> stage, mode |-> "none", judged |-> None, button |-> None]

Inputs == Places(Layout[layout])
Reps == RepsOf[layout]
Rep(i) == RepOf[<<layout, i>>]
Group(r) == GroupOf[<<layout, r>>]
Split(i) == Cardinality(Group(i)) > 1

\* What is displayed; the page can only write there, and the user too.
LookOf(r) == Sight[page[r]]
Writable(r) == page[r] # None /\ LookOf(r).shown
OnDisplay == {r \in Reps : Writable(r)}

TypeOK ==
    /\ layout \in DOMAIN Layout /\ page \in [Reps -> Looks \cup {None}] /\ sms \in BOOLEAN
    /\ focus \in Inputs \cup {None} /\ value \subseteq Inputs /\ filled \subseteq Inputs
    /\ level \in Levels /\ observing \in BOOLEAN
    /\ detected \subseteq Inputs /\ cooldown \subseteq Inputs /\ mutated \subseteq Inputs
    /\ batch \cup read \cup loop \subseteq Inputs \X Looks
    /\ processed \subseteq Reps /\ gated \subseteq Reps /\ registry \subseteq Reps
    /\ listening \subseteq Inputs
    /\ site \in DOMAIN Site /\ rules \in Rules
    /\ session \in [Sessions -> [rep : Reps \cup {None}, stage : Stages, mode : Modes,
                                  judged : DOMAIN Site \cup {None}, button : Nat]]
    /\ active \in Sessions \cup {None} /\ recent \in BOOLEAN
    /\ pages \in 0 .. MaxPage /\ users \in 0 .. MaxUser /\ sessions \in 0 .. MaxSessions

\* A page that will change much and one session after another, a page as it
\* stands, before the first scan or after a scan that found it empty, or a page
\* where the code is filled in and submitted.
Plainly == site = Ordinary /\ rules = DefaultRules /\ level = "autofill"

InitMoving ==
    /\ layout \in DOMAIN Moving
    /\ page \in [Reps -> UNION {Moving[layout][r] : r \in Reps} \cup {None}]
    /\ \A r \in Reps : page[r] \in Moving[layout][r] \cup {None}
    /\ sms = FALSE /\ observing = FALSE /\ Plainly
    /\ pages = 0 /\ users = 0 /\ sessions = 0

InitStill ==
    /\ \E scene \in Still :
          /\ layout = scene[1]
          /\ page = [r \in RepsOf[scene[1]] |-> scene[2]]
    /\ sms \in BOOLEAN /\ observing \in BOOLEAN /\ Plainly
    /\ pages = MaxPage /\ users = MaxUser - 1 /\ sessions = MaxSessions - 1

\* The content script runs only where the extension is enabled.
InitScene ==
    /\ \E scene \in Scenes :
          /\ ExtensionEnabled(scene[4], Site[scene[3]])
          /\ layout = scene[1] /\ page = [r \in RepsOf[scene[1]] |-> scene[2]]
          /\ site = scene[3] /\ rules = scene[4]
    /\ sms = FALSE /\ observing = FALSE /\ level = "full-automation"
    /\ pages = IF Turns[site] = {} THEN MaxPage ELSE MaxPage - 1
    /\ users = IF Options[site].levels = {} THEN MaxUser ELSE MaxUser - 1
    /\ sessions = MaxSessions - 1

Init ==
    /\ InitMoving \/ InitStill \/ InitScene
    /\ focus = None /\ value = {} /\ filled = {}
    /\ detected = {} /\ cooldown = {}
    /\ mutated = {} /\ batch = {} /\ read = {} /\ loop = {}
    /\ processed = {} /\ gated = {} /\ registry = {} /\ listening = {}
    /\ session = [s \in Sessions |-> Bare(None, "none")]
    /\ active = None /\ recent = FALSE

\* A turn of the event loop is over.
Idle == loop = {}

-----------------------------------------------------------------------------
(***************************************************************************)
(* Sessions (startWatch, stop, and the ends of a session).                 *)
(***************************************************************************)
Watched(r) == active # None /\ session[active].rep = r
Ended(s) == [session EXCEPT ![s] = Bare(session[s].rep, "ended")]

\* stop: without a port it does nothing, and start goes on to connect; a code
\* that is being filled in goes on too.
Stoppable(s) == s # None /\ session[s].stage = "open"
Stopped(s) == IF Stoppable(s) THEN Ended(s) ELSE session

\* The rate limit gives the new field to the session there is, but for a
\* session on the shadow of a group.
\* Variant: without the exception.
BugLimited(r) == recent /\ active # None
Limited(r) ==
    /\ recent /\ active # None
    /\ <<session[active].rep, r>> \notin Replaces[<<layout, OnDisplay>>] \/ page[r] = None

Create(r, others) ==
    LET s == sessions + 1
    IN  /\ sessions < MaxSessions
        /\ session' = [others EXCEPT ![s] = Bare(r, "starting")]
        /\ active' = s /\ recent' = TRUE /\ sessions' = s

\* hasActiveInboxKeyFill: a mark whose value is gone is removed on the way.
Filled(r) == Group(r) \cap filled \cap value # {}
MarksAfter(r) == IF Filled(r) THEN filled ELSE filled \ Group(r)

\* handleDetectedField and startWatch.
Handle(r) ==
    /\ filled' = MarksAfter(r)
    /\ \/ /\ ~Filled(r) /\ ~Watched(r) /\ ~Limited(r)
          /\ Create(r, Stopped(active))
       \/ (Filled(r) \/ Watched(r) \/ Limited(r)) /\ UNCHANGED watch

\* registerFocusGate.
Gate(r) ==
    \/ r \in gated /\ UNCHANGED <<filled, processed, gated, registry, listening, watch>>
    \/ /\ r \notin gated
       /\ gated' = gated \cup {r} /\ processed' = processed \cup {r}
       /\ IF focus \in Group(r)
          THEN Handle(r) /\ UNCHANGED <<registry, listening>>
          ELSE /\ registry' = registry \cup {r}
               /\ listening' = listening \cup Group(r)
               /\ UNCHANGED <<filled, watch>>

\* Variant: the other cells of a split group stay in the detector's set.
BugForgotten(r) == {r}
Forgotten(r) == Group(r)

\* cleanupFocusGate.
Release(r) ==
    /\ processed' = {}
    /\ registry' = registry \ {r}
    /\ listening' = IF r \in registry THEN listening \ Group(r) ELSE listening
    /\ gated' = gated \ {r}
    /\ detected' = detected \ Forgotten(r)
    /\ cooldown' = cooldown \ Forgotten(r)

Drop(s) == active' = IF active = s THEN None ELSE active

\* A guardrail refuses the session: the rules, or there is no mailbox, or no
\* email is spoken of near the field.
Veto(s) ==
    /\ Idle /\ session[s].stage = "starting"
    /\ session' = Ended(s) /\ Drop(s)
    /\ Release(session[s].rep)
    /\ UNCHANGED <<env, filled, observing, queues, recent, sessions>>

Connect(s) ==
    /\ Idle /\ session[s].stage = "starting" /\ Admitted(rules, Site[site])
    /\ session' = [session EXCEPT ![s].stage = "open"]
    /\ UNCHANGED <<env, filled, observing, guards, queues, active, recent, sessions>>

\* The extension was reloaded under the page: the session stays active.
ConnectFails(s) ==
    /\ Idle /\ session[s].stage = "starting" /\ Admitted(rules, Site[site])
    /\ session' = Ended(s)
    /\ UNCHANGED <<env, filled, observing, guards, queues, active, recent, sessions>>

\* SESSION_TIMED_OUT and SESSION_CANCELED.
GiveUp(s) ==
    /\ Idle /\ session[s].stage = "open"
    /\ session' = Ended(s) /\ Drop(s)
    /\ Release(session[s].rep)
    /\ UNCHANGED <<env, filled, observing, queues, recent, sessions>>

Handling == {"handling", "filling", "submitting", "filled"}

\* handlePortDisconnect, a failed START_SESSION, the cross of the chip:
\* cleanup without a callback.  A code that was found is still filled in.
Disconnect(s) ==
    /\ Idle /\ session[s].stage \in {"open"} \cup Handling
    /\ session' = Stopped(s) /\ Drop(s)
    /\ UNCHANGED <<env, filled, observing, guards, queues, recent, sessions>>

CodeFound(s) ==
    /\ Idle /\ session[s].stage = "open"
    /\ session' = [session EXCEPT ![s].stage = "handling"]
    /\ UNCHANGED <<env, filled, observing, guards, queues, active, recent, sessions>>

\* The settings are read, and full automation judges the page as it is now.
Mode ==
    IF level = "clipboard" THEN "clipboard"
    ELSE IF level = "full-automation" /\ ~Unsafe(Site[site]) THEN "submit" ELSE "fill"

Decide(s) ==
    /\ Idle /\ session[s].stage = "handling"
    /\ session' = [session EXCEPT ![s].stage = "filling", ![s].mode = Mode,
                                   ![s].judged = site]
    /\ UNCHANGED <<env, filled, observing, guards, queues, active, recent, sessions>>

\* autofillCode fills every cell, or the code goes to the clipboard.  It
\* focuses a cell first, which a listener of the focus gate hears; only before
\* the first cell, the representative, is there no mark yet.
Hears(r) == r \in listening \ {focus} /\ r \in gated

Fill(s) ==
    LET r == session[s].rep
        at(stage) == [session EXCEPT ![s].stage = stage]
        after == at(IF session[s].mode = "submit" THEN "submitting" ELSE "filled")
    IN  /\ Idle /\ session[s].stage = "filling"
        /\ \/ /\ session[s].mode # "clipboard"
              /\ DomainEnabled(rules, Site[site]) /\ Writable(r)
              /\ value' = value \cup Group(r) /\ filled' = filled \cup Group(r)
              /\ focus' \in Group(r)
              /\ listening' = listening \ (Group(r) \ {focus})
              /\ IF Hears(r) /\ ~Filled(r) /\ ~Watched(r) /\ ~Limited(r)
                 THEN Create(r, after)
                 ELSE session' = after /\ UNCHANGED <<active, recent, sessions>>
           \/ /\ session' = at("filled")
              /\ UNCHANGED <<value, filled, focus, listening, active, recent, sessions>>
        /\ UNCHANGED <<ground, page, sms, level, pages, users, observing,
                       detected, cooldown, processed, gated, registry, queues>>

\* findAndClickSubmitButton, after the settings were read once more.  A field
\* that is gone by now went with its form, or alone.
Reached(r) ==
    IF page[r] # None THEN {Site[site]}
    ELSE {Detached(Site[site]), [Site[site] EXCEPT !.buttons = <<>>]}

Submit(s) ==
    /\ Idle /\ session[s].stage = "submitting"
    /\ \E extended \in BOOLEAN, seen \in Reached(session[s].rep) :
          LET found == SubmitButtons(seen, extended)
          IN  session' = [session EXCEPT ![s].stage = "filled",
                                         ![s].button = IF found = {} THEN None ELSE Max(found)]
    /\ UNCHANGED <<env, filled, observing, guards, queues, active, recent, sessions>>

\* The finally of the autofill: onCodeHandled, then cleanup.
Handled(s) ==
    /\ Idle /\ session[s].stage = "filled"
    /\ session' = Ended(s) /\ Drop(s)
    /\ Release(session[s].rep)
    /\ UNCHANGED <<env, filled, observing, queues, recent, sessions>>

RateLimitOver ==
    /\ Idle /\ recent /\ recent' = FALSE
    /\ UNCHANGED <<env, filled, observing, guards, queues, session, active, sessions>>

-----------------------------------------------------------------------------
(***************************************************************************)
(* The page, the user and the browser.                                     *)
(***************************************************************************)
\* The page inserts a group or changes attributes of its cells; the observer
\* of the detector collects them unless they were detected, or the window does
\* not have the focus.
Change(r) ==
    /\ Idle /\ pages < MaxPage /\ pages' = pages + 1
    /\ \E look \in Moving[layout][r] : page' = [page EXCEPT ![r] = look]
    /\ \E cells \in SUBSET Group(r) :
          mutated' = IF observing THEN mutated \cup (cells \ detected) ELSE mutated
    /\ UNCHANGED <<ground, sms, focus, value, level, users, filled, observing, guards, batch,
                   read, loop, watch>>

\* The page takes a group out of the document; the removal observer of
\* initialize stops its watch.
Remove(r) ==
    /\ Idle /\ pages < MaxPage /\ pages' = pages + 1
    /\ page[r] # None /\ page' = [page EXCEPT ![r] = None]
    /\ focus' = IF focus \in Group(r) THEN None ELSE focus
    /\ IF Watched(r)
       THEN session' = Stopped(active) /\ active' = None
       ELSE UNCHANGED <<session, active>>
    /\ UNCHANGED <<ground, sms, value, level, users, filled, observing, guards, queues, recent,
                   sessions>>

Entries(r) == Group(r) \X Looks

\* The page puts new elements in the place of those that are gone: only the
\* cooldown, which goes by the place, still knows them.
Renew(r) ==
    /\ Idle /\ pages < MaxPage /\ pages' = pages + 1
    /\ page[r] = None
    /\ \E look \in Moving[layout][r] : Sight[look].shown /\ page' = [page EXCEPT ![r] = look]
    /\ \A s \in Sessions : session[s].rep = r => session[s].stage = "ended" /\ active # s
    /\ value' = value \ Group(r) /\ filled' = filled \ Group(r)
    /\ detected' = detected \ Group(r) /\ processed' = processed \ {r}
    /\ gated' = gated \ {r} /\ registry' = registry \ {r}
    /\ listening' = listening \ Group(r)
    /\ batch' = batch \ Entries(r) /\ read' = read \ Entries(r)
    /\ mutated' = IF observing THEN mutated \cup Group(r) ELSE mutated
    /\ UNCHANGED <<ground, sms, focus, level, users, observing, cooldown, loop, watch>>

\* The page changes what it says or its controls.
Turn ==
    /\ Idle /\ pages < MaxPage /\ pages' = pages + 1
    /\ site' \in Turns[site]
    /\ UNCHANGED <<layout, page, sms, focus, value, level, rules, users, filled, observing,
                   guards, queues, watch>>

\* The 500 ms poller sees another URL.
UrlChanges ==
    /\ Idle /\ observing /\ pages < MaxPage /\ pages' = pages + 1
    /\ processed' = {}
    /\ UNCHANGED <<ground, page, sms, focus, value, level, users, filled, observing, detected,
                   cooldown, gated, registry, listening, queues, watch>>

User == Idle /\ users < MaxUser /\ users' = users + 1

\* The user focuses an input; the listener of the focus gate fires once.
Focus(i) ==
    /\ User
    /\ Writable(Rep(i)) /\ focus # i /\ focus' = i
    /\ listening' = listening \ {i}
    /\ IF i \in listening /\ Rep(i) \in gated
       THEN Handle(Rep(i))
       ELSE UNCHANGED <<filled, watch>>
    /\ UNCHANGED <<ground, page, sms, value, level, pages, observing, detected, cooldown,
                   processed, gated, registry, queues>>

\* The user or the page types into a group or clears it: no mutation.
Edit(r) ==
    /\ User
    /\ value' \in {value \cup Group(r), value \ Group(r)} \ {value}
    /\ UNCHANGED <<ground, page, sms, focus, level, pages, filled, observing, guards, queues,
                   watch>>

SetLevel ==
    /\ User
    /\ level' \in Options[site].levels \ {level}
    /\ UNCHANGED <<ground, page, sms, focus, value, pages, filled, observing, guards, queues,
                   watch>>

\* The user switches the domain on or off in the popup, or edits the blacklist.
SetRules ==
    /\ User
    /\ rules' \in Options[site].rules \ {rules}
    /\ UNCHANGED <<layout, page, sms, focus, value, level, site, pages, filled, observing,
                   guards, queues, watch>>

\* Google Messages is connected or disconnected.
SetSms ==
    /\ User /\ sms' = ~sms
    /\ UNCHANGED <<ground, page, focus, value, level, pages, filled, observing, guards, queues,
                   watch>>

\* queueAllInputsForRescan: the window is focused, shown again or visible.
Rescan ==
    /\ User /\ observing
    /\ mutated' = mutated \cup ({i \in Inputs : page[Rep(i)] # None} \ detected)
    /\ UNCHANGED <<ground, page, sms, focus, value, level, pages, filled, observing, guards,
                   batch, read, loop, watch>>

CooldownOver(i) ==
    /\ User
    /\ i \in cooldown /\ cooldown' = cooldown \ {i}
    /\ UNCHANGED <<ground, page, sms, focus, value, level, pages, filled, observing, detected,
                   processed, gated, registry, listening, queues, watch>>

-----------------------------------------------------------------------------
(***************************************************************************)
(* Detection.                                                              *)
(***************************************************************************)
\* evaluateField and detectExisting, for an input as it is.
Result(i) == Verdict(LookOf(Rep(i)), Split(i), <<layout, i>> \in Bonus, sms)

\* What was detected at i, with the look it had, has its representative handled.
Route(i, was) ==
    LET r == Rep(i)
        bypass == Bypasses(Sight[was], Split(i), LookOf(r))
    IN  \/ /\ bypass
           /\ processed' = IF observing THEN processed \cup {r} ELSE processed
           /\ Handle(r)
           /\ UNCHANGED <<gated, registry, listening>>
        \/ ~bypass /\ Gate(r)

\* The results are sorted by confidence and tier, and in the order of the page.
Before(i, j) ==
    LET a == LookOf(Rep(i))
        b == LookOf(Rep(j))
    IN  \/ Confidence(a) > Confidence(b)
        \/ /\ Confidence(a) = Confidence(b)
           /\ (ByMatch(a) /\ ~ByMatch(b)) \/ (ByMatch(a) = ByMatch(b) /\ i < j)

\* detectExistingFields and the start of the observer.  All that is found is
\* put into detectedFields, and the best of it is handled.
Scan ==
    /\ Idle /\ ~observing /\ observing' = TRUE
    /\ LET found == {i \in ScanFields[<<layout, OnDisplay>>] : Result(i) = "detected"}
       IN  \/ /\ level = "manual" \/ found = {}
              /\ UNCHANGED <<filled, guards, watch>>
           \/ /\ level # "manual"
              /\ detected' = detected \cup found
              /\ \E best \in found :
                    /\ \A i \in found \ {best} : Before(best, i)
                    /\ Route(best, page[Rep(best)])
              /\ UNCHANGED cooldown
    /\ UNCHANGED <<env, queues>>

\* processPendingMutations.  What Tier 2 finds too weak cools down neither.
Process ==
    /\ Idle /\ mutated # {} /\ mutated' = {}
    /\ LET fresh == (mutated \cap MutationFields[<<layout, OnDisplay>>]) \ cooldown
           found == {i \in fresh : Result(i) = "detected"}
       IN  /\ detected' = detected \cup found
           /\ cooldown' = cooldown \cup {i \in fresh : Result(i) # "open"}
           /\ batch' = {e \in batch : e[1] \notin found} \cup {<<i, page[Rep(i)]>> : i \in found}
    /\ UNCHANGED <<env, filled, observing, processed, gated, registry, listening, read, loop,
                   watch>>

\* The 50 ms timer takes the batch and asks for the settings.
TakeBatch ==
    /\ Idle /\ batch # {} /\ read' = read \cup batch /\ batch' = {}
    /\ UNCHANGED <<env, filled, observing, guards, mutated, loop, watch>>

\* The settings are there: the loop starts, or the batch is dropped.
ReadSettings ==
    /\ Idle /\ read # {} /\ read' = {}
    /\ loop' = IF level = "manual" THEN {} ELSE read
    /\ UNCHANGED <<env, filled, observing, guards, mutated, batch, watch>>

\* One entry of the loop.
HandleEntry(e) ==
    LET r == Rep(e[1])
    IN  /\ e \in loop /\ loop' = loop \ {e}
        /\ \/ /\ Filled(r)
              /\ processed' = processed \cup {r}
              /\ UNCHANGED <<filled, gated, registry, listening, watch>>
           \/ /\ ~Filled(r)
              /\ r \in processed \/ page[r] = None
              /\ filled' = MarksAfter(r)
              /\ UNCHANGED <<processed, gated, registry, listening, watch>>
           \/ /\ ~Filled(r) /\ r \notin processed /\ page[r] # None
              /\ Route(e[1], e[2])
        /\ UNCHANGED <<env, observing, detected, cooldown, mutated, batch, read>>

-----------------------------------------------------------------------------
Detector ==
    \/ Scan \/ Process \/ TakeBatch \/ ReadSettings
    \/ \E e \in loop : HandleEntry(e)

SessionStep(s) ==
    \/ Veto(s) \/ Connect(s) \/ ConnectFails(s)
    \/ GiveUp(s) \/ Disconnect(s)
    \/ CodeFound(s) \/ Decide(s) \/ Fill(s) \/ Submit(s) \/ Handled(s)

Next ==
    \/ Detector
    \/ \E s \in Sessions : SessionStep(s)
    \/ RateLimitOver
    \/ Turn \/ UrlChanges \/ SetLevel \/ SetRules \/ SetSms \/ Rescan
    \/ \E r \in Reps : Change(r) \/ Remove(r) \/ Renew(r) \/ Edit(r)
    \/ \E i \in Inputs : Focus(i) \/ CooldownOver(i)

Spec == Init /\ [][Next]_vars

-----------------------------------------------------------------------------
(***************************************************************************)
(* Safety.                                                                 *)
(***************************************************************************)
Live(s) == session[s].stage \in {"starting", "open"} \cup Handling
Waiting == {e[1] : e \in batch \cup read \cup loop}

\* Someone will handle or release what was detected of the group of r: a
\* session, a listener of the focus gate, or a batch still to come.
Owned(r) ==
    \/ \E s \in Sessions : Live(s) /\ session[s].rep = r
    \/ r \in registry /\ Group(r) \cap listening # {}
    \/ r \notin processed \cup gated /\ Group(r) \cap Waiting # {}

\* A guard stands before the next detection of r, and nobody will release it.
Guarded(r) == r \in processed \cup gated \/ Group(r) \cap detected # {}
Orphan(r) == Guarded(r) /\ ~Owned(r)

\* activeWatch is a session that has ended already.
Dead == active # None /\ ~Live(active)
Unserved(r) == Filled(r) \/ Limited(r) \/ Dead \/ page[r] = None

\* The ways in which the code leaves a field behind: the runners-up of the
\* first scan, a session that another one replaces, a batch dropped at the
\* manual level, a field that is handled without a session, and the ends of a
\* session that call nothing back.
Forsaken ==
    \/ Scan \/ sessions' # sessions
    \/ ReadSettings /\ level = "manual"
    \/ \E e \in loop : HandleEntry(e) /\ Unserved(Rep(e[1]))
    \/ \E i \in Inputs : Focus(i) /\ Unserved(Rep(i))
    \/ \E s \in Sessions : Disconnect(s) \/ ConnectFails(s)
    \/ \E r \in Reps : Remove(r)

\* Every other step leaves the guards of a group with an owner: a session that
\* fills its code, times out, is canceled or is refused by a guardrail lets
\* all of them go (cleanupFocusGate), so that the code of a resend finds the
\* field again, and no mutation, rescan or change of the URL meanwhile puts
\* one back for good.
GuardsReleased ==
    [][\A r \in Reps : Orphan(r)' => Orphan(r) \/ Forsaken]_vars

\* What no input may be detected with, whatever tier looks at it.
Everything(look) == Direct(look) \cup look.close \cup look.nav \cup look.far \cup look.title
Excluded(look) ==
    LET own == look.label \cup look.placeholder \cup look.close
    IN  \/ Misnamed(look) \/ SetupPage(look) \/ Says(own, SetupPhrases)
        \/ Says(look.label \cup look.placeholder, CaptchaPhrases)
        \/ /\ ~Says(Everything(look), EmailPhrases)
           /\ Unreadable(Direct(look) \cup look.close, sms)
        \/ /\ ~Says(Everything(look), AllowPhrases)
           /\ Says(own, CommercialPhrases \cup PasswordPhrases)

\* The two tiers refuse the same: the setup of an authenticator, an image to
\* read, a code that nobody can read, a coupon or a password is not detected
\* by the scan of the page or after a mutation, by attributes or by points,
\* in a group or alone (detectTier1, detectTier2, evaluateField).
Vetoed ==
    [][\A i \in Inputs : i \in detected' \ detected => ~Excluded(LookOf(Rep(i)))]_vars

\* Inputs of one code have one representative: where the cells stand together
\* with their leader, no two representatives of the same cell are processed,
\* gated or watched, so that no code gets two sessions (detectSplitInputGroup),
\* and the session asks for a character for each cell, unless the cells take
\* several each (deriveExpectedShape).
Taken == processed \cup gated \cup {session[s].rep : s \in {t \in Sessions : Live(t)}}
Apart(r, q) == r = q \/ Group(r) \cap Group(q) = {}
Together == \A i \in Inputs : \A j \in Inputs :
    IsLeader(Layout[layout][i]) /\ Layout[layout][j].max = 1
        => Layout[layout][i].path = Layout[layout][j].path
LongCells(r) ==
    Layout[layout][r].max > 1 /\ SameMax(Layout[layout], Group(r))
OnePerCode ==
    Together =>
        \A r \in Taken :
            /\ \A q \in Taken : Apart(r, q)
            /\ Split(r) /\ ~LongCells(r) =>
                  ExpectedLength(Layout[layout], r) = Cardinality(Group(r))

\* A tiny input that the page keeps behind the cells of a group.
Behind(b, r) ==
    /\ Layout[layout][b].seen = "tiny" /\ {b, r} \subseteq OnDisplay
    /\ Split(r) /\ b \notin Group(r)

\* When the cells of a group are handled, the watch does not stay on the
\* shadow behind them, though it began less than a second ago (startWatch,
\* isShadowReplacement).
GroupWins ==
    [][\A r \in processed' \ (processed \cup gated') :
          \/ Filled(r)' \/ active' = None
          \/ ~Behind(session'[active'].rep, r)]_vars

\* What the extension does on a page.  A code is written only where the rules
\* allow it at that moment.  A click follows a code that was written, on a page
\* that spoke of no payment and no bank when the code came; the page may have
\* changed since, but the button is one that the page has now, visible and
\* enabled, with a label that says nothing dangerous; a label in the form that
\* says it submits prevails over one that does not; and what only looks like a
\* button is clicked for its label alone, where no native control of the form
\* has such a label (handleCodeFoundWithAutofill, findSubmitButton).
Clicks(s) == session[s].stage = "submitting" /\ session'[s].button # None
Offers(b) ==
    /\ Native(b) /\ ~Barred(b) /\ "safe" \in b.says
    /\ "form" \in b.within /\ b.span <= 4
Proper(s, b) ==
    /\ Site[session[s].judged].host = "plain"
    /\ Site[session[s].judged].text \cap {"pay", "banking"} = {}
    /\ "danger" \notin b.says /\ b.shown /\ b.enabled
    /\ page[session[s].rep] # None =>
          \/ "safe" \in b.says
          \/ Native(b) /\ \A k \in Controls(Site[site]) : ~Offers(Site[site].buttons[k])
    /\ ~Native(b) =>
          /\ page[session[s].rep] # None
          /\ \A k \in Controls(Site[site]) : ~Offers(Site[site].buttons[k])
ActsAsAllowed ==
    [][/\ filled' \subseteq filled \/ DomainEnabled(rules, Site[site])
       /\ \A s \in Sessions : Clicks(s) => Proper(s, Site[site].buttons[session'[s].button])]_vars
=============================================================================
