-------------------------- MODULE FieldAgentProofs --------------------------
(***************************************************************************)
(* What holds of the agent that detects, guards and fills the fields of a  *)
(* page, for every layout, site and set of rules.                          *)
(*                                                                         *)
(*   NeverExcluded   both tiers of the detection agree on what is refused  *)
(*   TypeCorrect     types, with what each stage of a session has decided  *)
(*   ActsAllowed     what is written and clicked                           *)
(*   LetsGo          who releases the guards of a field                    *)
(*   OneSession      one session for a code, whatever its cells            *)
(*   EvenPages       both of these where the cells stand side by side      *)
(*   CellsWin        the watch moves to the cells                          *)
(*   PlainPages      as above, where no input has the looks to prevent it  *)
(*                                                                         *)
(* Detection needs no state: what a tier goes by is contained in what the  *)
(* field says, and a text that says more is no more readable.  A click is  *)
(* allowed because the session's own record says why it waits to submit,   *)
(* so Typed relates the fields of that record to its stage.                *)
(*                                                                         *)
(* Two theorems are about pages whose groups do not overlap (Disjoint):    *)
(* the guards of one group are then lifted and put back without those of   *)
(* another.  Where the cells of each group stand side by side (Even) that  *)
(* is no assumption, but follows from how the groups are found             *)
(* (EvenIsDisjoint).  One theorem is about pages where an input that is    *)
(* not displayed breaks up no group (Firm), which follows where none is    *)
(* hidden and no suppressed input is like the cells (Plain).  All four are *)
(* conditions on the layout, which no step changes.                        *)
(***************************************************************************)
EXTENDS FieldAgent, FiniteSetTheorems, TLAPS
LOCAL INSTANCE FiniteSetsExt
Order == INSTANCE WellFoundedInduction

\* A text that says more is no more readable: what names no mailing is read
\* for its channel, and a phrase of another channel stays there.
LEMMA MoreUnreadable ==
    ASSUME NEW small, NEW text, small \subseteq text, ~Says(text, EmailPhrases),
           NEW on \in BOOLEAN, Unreadable(small, on)
    PROVE  Unreadable(text, on)
<1>1. ~Says(small, EmailPhrases)
  BY DEF Says
<1>2. CASE Says(small, AuthenticatorPhrases)
  <2>1. Says(text, AuthenticatorPhrases)
    BY <1>2 DEF Says
  <2> QED
    BY <2>1 DEF Unreadable, Channel, Says
<1>3. CASE ~Says(small, AuthenticatorPhrases)
  <2>1. Says(small, SmsPhrases \cup MaskedNumbers) /\ ~on
    BY <1>1, <1>3 DEF Unreadable, Channel, Says
  <2>2. Says(text, SmsPhrases \cup MaskedNumbers)
    BY <2>1 DEF Says
  <2>3. Says(text, EmailPhrases \cup AuthenticatorPhrases) => Says(text, AuthenticatorPhrases)
    BY DEF Says
  <2> QED
    BY <2>1, <2>2, <2>3 DEF Unreadable, Channel, Says
<1> QED
  BY <1>2, <1>3

\* What a tier accepts is not excluded: of what it goes by, text decides on
\* the channel and whole on the context, and direct is the field's own text.
LEMMA Passing ==
    ASSUME NEW look, NEW text, NEW whole, NEW direct, NEW near, NEW login, NEW on \in BOOLEAN,
           look.label \cup look.placeholder \subseteq direct,
           Direct(look) \cup look.close \subseteq text,
           direct \cup look.close \subseteq whole,
           text \subseteq Everything(look), whole \subseteq Everything(look),
           ~Unreadable(text, on), Valid(whole, direct, near, login),
           ~Misnamed(look), ~SetupPage(look)
    PROVE  /\ LET own == look.label \cup look.placeholder \cup look.close
              IN  /\ ~Says(own, SetupPhrases)
                  /\ ~Says(Everything(look), AllowPhrases) =>
                        ~Says(own, CommercialPhrases \cup PasswordPhrases)
           /\ ~Says(look.label \cup look.placeholder, CaptchaPhrases)
           /\ ~Says(Everything(look), EmailPhrases) =>
                 ~Unreadable(Direct(look) \cup look.close, on)
<1> DEFINE own == look.label \cup look.placeholder \cup look.close
<1>1. own \subseteq whole
  OBVIOUS
<1>2. ~Says(whole, SetupPhrases) /\ ~Captcha(direct, near) /\ ~Refused(whole, login)
  BY DEF Valid
<1>3. ~Says(own, SetupPhrases)
  BY <1>1, <1>2 DEF Says
<1>4. ASSUME ~Says(Everything(look), AllowPhrases)
      PROVE  ~Says(own, CommercialPhrases \cup PasswordPhrases)
  <2>1. ~Says(whole, AllowPhrases)
    BY <1>4 DEF Says
  <2>2. ~Says(whole, CommercialPhrases \cup PasswordPhrases)
    BY <1>2, <2>1 DEF Refused
  <2> QED
    BY <1>1, <2>2 DEF Says
<1>5. ~Says(look.label \cup look.placeholder, CaptchaPhrases)
  BY <1>2 DEF Captcha, Says
<1>6. ASSUME ~Says(Everything(look), EmailPhrases)
      PROVE  ~Unreadable(Direct(look) \cup look.close, on)
  <2>1. ~Says(text, EmailPhrases)
    BY <1>6 DEF Says
  <2> QED
    BY <2>1, MoreUnreadable
<1> QED
  BY <1>3, <1>4, <1>5, <1>6

\* What the first tier detects is not excluded.
LEMMA FastPasses ==
    ASSUME NEW look, sms \in BOOLEAN, Fast(look, sms) = "detected"
    PROVE  ~Excluded(look)
<1> DEFINE text == Direct(look) \cup NearFast(look)
<1>1. ~Misnamed(look) /\ ~SetupPage(look) /\ Match(look) > 0 /\ FastContext(look, sms)
  BY DEF Fast
<1>2. /\ ~Unreadable(text, sms)
      /\ Valid(text \cup look.title, Direct(look), NearFast(look), Direct(look))
  BY <1>1 DEF FastContext
<1>3. NearFast(look) \subseteq look.close \cup look.far \cup look.nav /\ look.close \subseteq NearFast(look)
  BY DEF NearFast
<1>4. look.label \cup look.placeholder \subseteq Direct(look)
  BY DEF Direct
<1>5. text \cup look.title \subseteq Everything(look)
  BY <1>3 DEF Everything
<1> QED
  BY <1>1, <1>2, <1>3, <1>4, <1>5, Passing DEF Excluded

\* Nor what the second one detects, which it sees only if the first left it open.
LEMMA DeepPasses ==
    ASSUME NEW look, NEW split, NEW bonus, sms \in BOOLEAN,
           Fast(look, sms) = "open", Deep(look, split, bonus, sms) = "detected"
    PROVE  ~Excluded(look)
<1> DEFINE near == NearDeep(look, split)
<1>1. ~Misnamed(look) /\ ~SetupPage(look)
  BY DEF Fast
<1>2. DeepContext(look, split, sms)
  BY DEF Deep
<1>3. /\ ~Unreadable(Direct(look) \cup near, sms)
      /\ Valid(Own(look) \cup near, Own(look), near, Own(look) \cup near)
  BY <1>2 DEF DeepContext
<1>4. near \subseteq look.close \cup look.far /\ look.close \subseteq near
  BY DEF NearDeep
<1>5. Own(look) = look.label \cup look.placeholder /\ Own(look) \subseteq Direct(look)
  BY DEF Own, Direct
<1>6. Direct(look) \cup near \subseteq Everything(look) /\ Own(look) \cup near \subseteq Everything(look)
  BY <1>4, <1>5 DEF Everything
<1>7. /\ look.label \cup look.placeholder \subseteq Own(look)
      /\ Direct(look) \cup look.close \subseteq Direct(look) \cup near
      /\ Own(look) \cup look.close \subseteq Own(look) \cup near
  BY <1>4, <1>5
<1> HIDE DEF near
<1> QED
  BY <1>1, <1>3, <1>6, <1>7, Passing DEF Excluded

\* So neither is what both together call detected.
LEMMA DetectedPasses ==
    ASSUME NEW i, sms \in BOOLEAN, Result(i) = "detected"
    PROVE  ~Excluded(LookOf(Rep(i)))
<1> DEFINE look == LookOf(Rep(i))
<1>1. CASE Fast(look, sms) = "open"
  <2>1. Deep(look, Split(i), <<layout, i>> \in Bonus, sms) = "detected"
    BY <1>1 DEF Result, Verdict
  <2> QED
    BY <1>1, <2>1, DeepPasses
<1>2. CASE Fast(look, sms) # "open"
  BY <1>2, FastPasses DEF Result, Verdict
<1> QED
  BY <1>1, <1>2

-----------------------------------------------------------------------------
\* Only the scan of the page and a mutation detect an input, and none that is
\* excluded; no other step puts one into detectedFields.
LEMMA DetectsOnly ==
    ASSUME sms \in BOOLEAN, Next, NEW i \in detected', i \notin detected
    PROVE  Result(i) = "detected"
<1>1. CASE Scan
  BY <1>1 DEF Scan, guards
<1>2. CASE Process
  BY <1>2 DEF Process
<1>3. CASE TakeBatch \/ ReadSettings
  BY <1>3 DEF TakeBatch, ReadSettings, guards
<1>4. CASE \E e \in loop : HandleEntry(e)
  BY <1>4 DEF HandleEntry
<1>5. ASSUME NEW s \in Sessions, Veto(s) \/ GiveUp(s) \/ Handled(s) PROVE FALSE
  BY <1>5 DEF Veto, GiveUp, Handled, Release
<1>6. ASSUME NEW s \in Sessions,
             Connect(s) \/ ConnectFails(s) \/ Disconnect(s) \/ CodeFound(s) \/ Decide(s)
                \/ Fill(s) \/ Submit(s)
      PROVE  FALSE
  BY <1>6 DEF Connect, ConnectFails, Disconnect, CodeFound, Decide, Fill, Submit, guards
<1>7. CASE RateLimitOver \/ Turn \/ UrlChanges \/ SetLevel \/ SetRules \/ SetSms \/ Rescan
  BY <1>7 DEF RateLimitOver, Turn, UrlChanges, SetLevel, SetRules, SetSms, Rescan, guards
<1>8. ASSUME NEW r \in Reps, Change(r) \/ Remove(r) \/ Renew(r) \/ Edit(r) PROVE FALSE
  BY <1>8 DEF Change, Remove, Renew, Edit, guards
<1>9. ASSUME NEW j \in Inputs, Focus(j) \/ CooldownOver(j) PROVE FALSE
  BY <1>9 DEF Focus, CooldownOver, guards
<1> QED
  BY <1>1, <1>2, <1>3, <1>4, <1>5, <1>6, <1>7, <1>8, <1>9 DEF Next, Detector, SessionStep

\* Google Messages is connected or it is not.
Connected == sms \in BOOLEAN

\* The setting for SMS codes stays a Boolean through every step.
LEMMA ConnectedStep == Connected /\ [Next]_vars => Connected'
<1> SUFFICES ASSUME Connected, [Next]_vars PROVE Connected'
  OBVIOUS
<1>1. CASE SetSms
  BY <1>1 DEF SetSms, Connected
<1>2. CASE UNCHANGED sms
  BY <1>2 DEF Connected
<1>3. CASE UNCHANGED vars
  BY <1>2, <1>3 DEF vars, env
<1>4. CASE Detector
  BY <1>2, <1>4 DEF Detector, Scan, Process, TakeBatch, ReadSettings, HandleEntry, env
<1>5. ASSUME NEW s \in Sessions, SessionStep(s) PROVE Connected'
  BY <1>2, <1>5 DEF SessionStep, Veto, Connect, ConnectFails, GiveUp, Disconnect, CodeFound,
                    Decide, Fill, Submit, Handled, env
<1>6. CASE RateLimitOver \/ Turn \/ UrlChanges \/ SetLevel \/ SetRules \/ Rescan
  BY <1>2, <1>6 DEF RateLimitOver, Turn, UrlChanges, SetLevel, SetRules, Rescan, env
<1>7. ASSUME NEW r \in Reps, Change(r) \/ Remove(r) \/ Renew(r) \/ Edit(r) PROVE Connected'
  BY <1>2, <1>7 DEF Change, Remove, Renew, Edit
<1>8. ASSUME NEW i \in Inputs, Focus(i) \/ CooldownOver(i) PROVE Connected'
  BY <1>2, <1>8 DEF Focus, CooldownOver
<1> QED
  BY <1>1, <1>3, <1>4, <1>5, <1>6, <1>7, <1>8 DEF Next

\* Neither tier detects what any of the two refuses, on any page: the setup of
\* an authenticator, an image to read, a code that nobody can read, a coupon
\* or a password (detectTier1, detectTier2, evaluateField).
THEOREM NeverExcluded == Spec => Vetoed
<1>1. Init => Connected
  BY DEF Init, InitMoving, InitStill, InitScene, Connected
<1>2. Connected /\ [Next]_vars =>
        [\A i \in Inputs : i \in detected' \ detected => ~Excluded(LookOf(Rep(i)))]_vars
  <2> SUFFICES ASSUME Connected, Next, NEW i \in Inputs, i \in detected', i \notin detected
               PROVE  ~Excluded(LookOf(Rep(i)))
    OBVIOUS
  <2> QED
    BY DetectsOnly, DetectedPasses DEF Connected
<1>3. Spec => []Connected
  BY <1>1, ConnectedStep, PTL DEF Spec
<1> QED
  BY <1>2, <1>3, PTL DEF Spec, Vetoed

-----------------------------------------------------------------------------
(***************************************************************************)
(* The button that is chosen (findSubmitButton).                           *)
(***************************************************************************)
LEMMA Smallest ==
    ASSUME NEW S \in SUBSET Nat, S # {}
    PROVE  Min(S) \in S /\ \A y \in S : Min(S) <= y
<1> DEFINE R == {ss \in Nat \X Nat : ss[1] < ss[2]}
<1>1. Order!IsWellFoundedOn(R, Nat)
  BY Order!NatLessThanWellFounded DEF Order!OpToRel
<1>2. \E x \in S : \A y \in S : ~(<<y, x>> \in R)
  <2> HIDE DEF R
  <2> QED
    BY <1>1, Order!WFMin
<1> HIDE DEF R
<1>3. PICK x \in S : \A y \in S : ~(<<y, x>> \in R)
  BY <1>2
<1>4. \A y \in S : x <= y
  <2> SUFFICES ASSUME NEW y \in S PROVE x <= y
    OBVIOUS
  <2>1. x \in Nat /\ y \in Nat /\ ~(<<y, x>> \in R)
    BY <1>3
  <2>2. y < x => <<y, x>> \in R
    BY <2>1 DEF R
  <2> QED
    BY <2>1, <2>2
<1> QED
  BY <1>4 DEF Min

\* The largest of one number.
LEMMA Only == ASSUME NEW k \in Nat PROVE Max({k}) = k
  BY DEF Max

\* Among finitely many scores one is the highest.
LEMMA Highest ==
    ASSUME NEW S, S # {}, NEW f \in [S -> 0 .. 120]
    PROVE  \E k \in S : \A j \in S : f[j] <= f[k]
<1> DEFINE T == {120 - f[j] : j \in S}
<1>1. T \in SUBSET Nat /\ T # {}
  OBVIOUS
<1>2. Min(T) \in T /\ \A y \in T : Min(T) <= y
  <2> HIDE DEF T
  <2> QED
    BY <1>1, Smallest
<1>3. PICK k \in S : Min(T) = 120 - f[k]
  BY <1>2
<1>4. \A j \in S : 120 - f[k] <= 120 - f[j]
  BY <1>2, <1>3
<1>5. \A j \in S : f[j] <= f[k]
  BY <1>4
<1> QED
  BY <1>5
\* What a score is, and what it says of a button.
LEMMA NativeScores ==
    ASSUME NEW b \in Button
    PROVE  /\ NativeScore(b) \in 0 .. 120
           /\ NativeScore(b) >= MinSafeScore => ~Barred(b)
           /\ "safe" \notin b.says => NativeScore(b) <= 60
           /\ Offers(b) => NativeScore(b) >= 65
<1>1. b.span \in 1 .. 5
  BY DEF Button
<1> QED
  BY <1>1 DEF NativeScore, Points, MinSafeScore, Offers

\* Only a button with a safe label reaches the score of a pseudo submit.
LEMMA PseudoScores ==
    ASSUME NEW b \in Button
    PROVE  /\ PseudoScore(b) \in 0 .. 120
           /\ PseudoScore(b) >= MinSafeScore => ~Barred(b) /\ "safe" \in b.says
<1>1. b.span \in 1 .. 5
  BY DEF Button
<1> QED
  BY <1>1 DEF PseudoScore, Points, MinSafeScore

\* The controls of a site are numbered from 1.
LEMMA ControlTypes ==
    ASSUME NEW seen \in SiteRecord
    PROVE  /\ Controls(seen) \in SUBSET (Nat \ {0})
           /\ \A k \in Controls(seen) : seen.buttons[k] \in Button
  BY DEF SiteRecord, Controls

\* The button of the native tier is an enabled and visible control without a
\* dangerous label; a control of the form with a safe label goes first.
LEMMA NativeChoice ==
    ASSUME NEW seen \in SiteRecord
    PROVE  /\ \A k \in BestNative(seen) :
                 /\ k \in NativeCandidates(seen)
                 /\ NativeScore(seen.buttons[k]) >= MinSafeScore
                 /\ \A j \in NativeCandidates(seen) :
                       NativeScore(seen.buttons[j]) <= NativeScore(seen.buttons[k])
           /\ \A j, k \in BestNative(seen) : j = k
           /\ BestNative(seen) = {} =>
                 \A j \in NativeCandidates(seen) : NativeScore(seen.buttons[j]) < MinSafeScore
<1> DEFINE cands == NativeCandidates(seen)
           f == [k \in cands |-> NativeScore(seen.buttons[k])]
           top == {k \in cands : f[k] >= MinSafeScore /\ \A j \in cands : f[j] <= f[k]}
           ahead == {k \in top : "form" \in seen.buttons[k].within}
           some == IF ahead # {} THEN ahead ELSE top
<1>1. cands \subseteq Controls(seen)
  BY DEF NativeCandidates, Where
<1>2. cands \in SUBSET Nat /\ f \in [cands -> 0 .. 120]
  BY <1>1, ControlTypes, NativeScores
<1>3. BestNative(seen) = IF top = {} THEN {} ELSE {Min(some)}
  BY DEF BestNative, Best
<1>4. top # {} => Min(some) \in top
  BY <1>2, Smallest
<1>5. top = {} => \A j \in cands : f[j] < MinSafeScore
  <2> SUFFICES ASSUME NEW j \in cands, ~(f[j] < MinSafeScore) PROVE top # {}
    OBVIOUS
  <2> HIDE DEF f
  <2>1. PICK k \in cands : \A l \in cands : f[l] <= f[k]
    BY <1>2, Highest
  <2>2. f[j] \in 0 .. 120 /\ f[k] \in 0 .. 120 /\ f[j] <= f[k]
    BY <1>2, <2>1
  <2>3. f[k] >= MinSafeScore
    BY <2>2 DEF MinSafeScore
  <2> QED
    BY <2>1, <2>3
<1> QED
  BY <1>3, <1>4, <1>5
\* What only looks like a button is chosen for a safe label, and the field has
\* to be in the document to have the ancestor it is looked for in.
LEMMA PseudoChoice ==
    ASSUME NEW seen \in SiteRecord, NEW ancestor
    PROVE  /\ \A k \in BestPseudo(seen, ancestor) :
                 /\ k \in PseudoCandidates(seen, ancestor)
                 /\ PseudoScore(seen.buttons[k]) >= MinSafeScore
           /\ \A j, k \in BestPseudo(seen, ancestor) : j = k
<1> DEFINE cands == PseudoCandidates(seen, ancestor)
           f == [k \in cands |-> PseudoScore(seen.buttons[k])]
           top == {k \in cands : f[k] >= MinSafeScore /\ \A j \in cands : f[j] <= f[k]}
           ahead == {k \in top : TRUE}
           some == IF ahead # {} THEN ahead ELSE top
<1>1. cands \subseteq Controls(seen)
  BY DEF PseudoCandidates, Where
<1>2. cands \in SUBSET Nat
  BY <1>1, ControlTypes
<1>3. BestPseudo(seen, ancestor) = IF top = {} THEN {} ELSE {Min(some)}
  BY DEF BestPseudo, Best
<1>4. top # {} => Min(some) \in top
  BY <1>2, Smallest
<1> QED
  BY <1>3, <1>4

\* A control of the form with a safe label, visible and enabled, is a native candidate.
LEMMA OfferedIsCandidate ==
    ASSUME NEW seen, NEW j \in Controls(seen), Offers(seen.buttons[j])
    PROVE  j \in NativeCandidates(seen)
  BY DEF Offers, NativeCandidates, Where

\* findSubmitButton finds nothing, or a control of the site that is no danger.
LEMMA ButtonChoice ==
    ASSUME NEW seen \in SiteRecord, NEW extended, NEW k \in SubmitButtons(seen, extended)
    PROVE  LET b == seen.buttons[k]
               offered == \E j \in Controls(seen) : Offers(seen.buttons[j])
           IN  /\ k \in Controls(seen) /\ ~Barred(b)
               /\ SubmitButtons(seen, extended) = {k}
               /\ "safe" \in b.says \/ (Native(b) /\ ~offered)
               /\ ~Native(b) => ~offered /\ b.within # {}
<1> DEFINE b == seen.buttons[k]
           offered == \E j \in Controls(seen) : Offers(seen.buttons[j])
<1>1. ASSUME offered
      PROVE  \E j \in NativeCandidates(seen) : NativeScore(seen.buttons[j]) >= 65
  BY <1>1, OfferedIsCandidate, NativeScores, ControlTypes
<1>2. CASE BestNative(seen) # {}
  <2>1. k \in BestNative(seen) /\ SubmitButtons(seen, extended) = {k}
    BY <1>2, NativeChoice DEF SubmitButtons
  <2>2. /\ k \in NativeCandidates(seen) /\ NativeScore(b) >= MinSafeScore
        /\ \A j \in NativeCandidates(seen) : NativeScore(seen.buttons[j]) <= NativeScore(b)
    BY <2>1, NativeChoice
  <2>3. k \in Controls(seen) /\ Native(b) /\ b \in Button
    BY <2>2, ControlTypes DEF NativeCandidates, Where
  <2>4. "safe" \notin b.says => ~offered
    <3> SUFFICES ASSUME "safe" \notin b.says, offered PROVE FALSE
      OBVIOUS
    <3>1. PICK j \in NativeCandidates(seen) : NativeScore(seen.buttons[j]) >= 65
      BY <1>1
    <3>2. seen.buttons[j] \in Button
      BY ControlTypes DEF NativeCandidates, Where
    <3> QED
      BY <2>2, <2>3, <3>1, <3>2, NativeScores
  <2> QED
    BY <2>1, <2>2, <2>3, <2>4, NativeScores
<1>3. CASE BestNative(seen) = {}
  <2>1. PICK ancestor : k \in BestPseudo(seen, ancestor)
                        /\ SubmitButtons(seen, extended) = BestPseudo(seen, ancestor)
    BY <1>3 DEF SubmitButtons
  <2>2. k \in PseudoCandidates(seen, ancestor) /\ PseudoScore(b) >= MinSafeScore
    BY <2>1, PseudoChoice
  <2>3. k \in Controls(seen) /\ ancestor \in b.within /\ b \in Button
    BY <2>2, ControlTypes DEF PseudoCandidates, Where
  <2>4. ~offered
    <3> SUFFICES ASSUME offered PROVE FALSE
      OBVIOUS
    <3>1. PICK j \in NativeCandidates(seen) : NativeScore(seen.buttons[j]) >= 65
      BY <1>1
    <3>2. seen.buttons[j] \in Button
      BY ControlTypes DEF NativeCandidates, Where
    <3>3. NativeScore(seen.buttons[j]) < MinSafeScore
      BY <1>3, NativeChoice
    <3> QED
      BY <3>1, <3>2, <3>3, NativeScores DEF MinSafeScore
  <2>5. SubmitButtons(seen, extended) = {k}
    BY <2>1, PseudoChoice
  <2> QED
    BY <2>2, <2>3, <2>4, <2>5, PseudoScores
<1> QED
  BY <1>2, <1>3

-----------------------------------------------------------------------------
(***************************************************************************)
(* The groups of a layout and the fields that are displayed.               *)
(***************************************************************************)
LEMMA Tabled == ASSUME NEW f PROVE Table(f) = f
  BY DEF Table

\* Groups, and the representatives they have, are of the inputs of the page.
LEMMA GroupsOf ==
    ASSUME NEW n \in DOMAIN Layout, NEW i \in Places(Layout[n])
    PROVE  /\ GroupOf[<<n, i>>] \subseteq Places(Layout[n])
           /\ RepOf[<<n, i>>] \in RepsOf[n] /\ RepsOf[n] \subseteq Places(Layout[n])
<1>1. Spots = UNION {{m} \X Places(Layout[m]) : m \in DOMAIN Layout}
  BY DEF Spots
<1>2. \A m \in DOMAIN Layout : \A j \in Places(Layout[m]) :
        /\ <<m, j>> \in Spots
        /\ GroupOf[<<m, j>>] = Members(Layout[m], j) /\ RepOf[<<m, j>>] = Representative(Layout[m], j)
  <2> SUFFICES ASSUME NEW m \in DOMAIN Layout, NEW j \in Places(Layout[m])
               PROVE  /\ <<m, j>> \in Spots
                      /\ GroupOf[<<m, j>>] = Members(Layout[m], j)
                      /\ RepOf[<<m, j>>] = Representative(Layout[m], j)
    OBVIOUS
  <2>1. <<m, j>> \in Spots
    BY <1>1
  <2> QED
    BY <2>1, Tabled DEF GroupOf, RepOf
<1>3. \A m \in DOMAIN Layout : \A j \in Places(Layout[m]) :
        /\ Members(Layout[m], j) \subseteq Places(Layout[m])
        /\ Representative(Layout[m], j) \in Members(Layout[m], j)
  <2> SUFFICES ASSUME NEW m \in DOMAIN Layout, NEW j \in Places(Layout[m])
               PROVE  /\ Members(Layout[m], j) \subseteq Places(Layout[m])
                      /\ Representative(Layout[m], j) \in Members(Layout[m], j)
    OBVIOUS
  <2>1. SplitGroup(Layout[m], j) \subseteq Places(Layout[m])
    BY DEF SplitGroup, Similar
  <2>2. Members(Layout[m], j) \in SUBSET Nat /\ j \in Members(Layout[m], j)
    BY <2>1, AgentAssumption DEF Members, Places
  <2> QED
    BY <2>1, <2>2, Smallest DEF Members, Representative
<1>4. RepsOf = [m \in DOMAIN Layout |-> {RepOf[<<m, j>>] : j \in Places(Layout[m])}]
  BY Tabled DEF RepsOf
<1>5. \A j \in Places(Layout[n]) : RepOf[<<n, j>>] \in Places(Layout[n])
  BY <1>2, <1>3
<1> QED
  BY <1>2, <1>3, <1>4, <1>5

\* What a scan or a mutation finds is displayed.
LEMMA FieldsOf ==
    ASSUME NEW n \in DOMAIN Layout, NEW D \in SUBSET RepsOf[n],
           NEW i \in ScanFields[<<n, D>>] \cup MutationFields[<<n, D>>]
    PROVE  i \in Places(Layout[n]) /\ RepOf[<<n, i>>] \in D
<1> DEFINE d == <<n, D>>
           L == Displayed(d)
<1>1. d \in Displays
  BY DEF Displays
<1>2. i \in PageFields(L) \cup Visible(L)
  BY <1>1, Tabled DEF ScanFields, MutationFields
<1>3. i \in Places(L) /\ L[i].seen # "gone"
  BY <1>2 DEF PageFields, Visible
<1>4. L = [j \in Places(Layout[n]) |->
             IF RepOf[<<n, j>>] \in D THEN Layout[n][j] ELSE [Layout[n][j] EXCEPT !.seen = "gone"]]
  BY DEF Displayed
<1>5. Places(L) = Places(Layout[n])
  BY <1>4, AgentAssumption DEF Places
<1>6. ASSUME RepOf[<<n, i>>] \notin D PROVE FALSE
  <2>1. L[i] = [Layout[n][i] EXCEPT !.seen = "gone"]
    BY <1>3, <1>4, <1>5, <1>6
  <2>2. Layout[n][i] \in InputRecord
    BY <1>3, <1>5, AgentAssumption DEF Places
  <2> QED
    BY <1>3, <2>1, <2>2 DEF InputRecord
<1> QED
  BY <1>3, <1>5, <1>6

-----------------------------------------------------------------------------
(***************************************************************************)
(* Types.  The page only changes where it is said how.                     *)
(***************************************************************************)
\* A code that is to be submitted was judged on a page of no danger, and only
\* the end of its session has a button.
Kinds ==
    [rep : Reps \cup {None}, stage : Stages, mode : Modes, judged : DOMAIN Site \cup {None},
     button : Nat]
Sound(entry) ==
    /\ entry.stage \notin {"none", "ended"} => entry.rep # None
    /\ entry.stage = "submitting" => entry.mode = "submit"
    /\ entry.mode = "submit" => entry.judged \in DOMAIN Site /\ ~Unsafe(Site[entry.judged])
    /\ entry.stage \notin {"filled", "ended"} => entry.button = None
Records == {entry \in Kinds : Sound(entry)}

Typed ==
    /\ TypeOK
    /\ layout \in DOMAIN Moving \/ pages = MaxPage
    /\ session \in [Sessions -> Records]

\* The tables hold what SplitGroups computes, and an input is in its own group.
LEMMA OwnGroup ==
    ASSUME NEW n \in DOMAIN Layout, NEW i \in Places(Layout[n])
    PROVE  /\ GroupOf[<<n, i>>] = Members(Layout[n], i) /\ i \in GroupOf[<<n, i>>]
           /\ RepOf[<<n, i>>] = Representative(Layout[n], i)
<1>1. <<n, i>> \in Spots
  BY DEF Spots
<1> QED
  BY <1>1, Tabled DEF GroupOf, RepOf, Members

\* The inputs of the layout in view have their groups and representatives in it.
LEMMA Grouped ==
    ASSUME layout \in DOMAIN Layout
    PROVE  /\ Reps \subseteq Inputs
           /\ \A i \in Inputs : Rep(i) \in Reps /\ Group(i) \subseteq Inputs
<1>1. \A i \in Inputs : Rep(i) \in Reps /\ Group(i) \subseteq Inputs /\ Reps \subseteq Inputs
  BY GroupsOf DEF Reps, Inputs, Rep, Group
<1>2. Reps = {Rep(i) : i \in Inputs}
  BY Tabled DEF RepsOf, Reps, Inputs, Rep
<1> QED
  BY <1>1, <1>2

\* Inputs are numbered from 1, so None is no representative.
LEMMA Positive == layout \in DOMAIN Layout => None \notin Reps
  BY Grouped, AgentAssumption DEF None, Inputs, Places

\* A session that has decided nothing yet has a sound record.
LEMMA BareType ==
    ASSUME NEW r \in Reps \cup {None}, NEW stage \in {"none", "starting", "ended"},
           r # None \/ stage # "starting"
    PROVE  Bare(r, stage) \in Records
  BY DEF Bare, Records, Kinds, Sound, Modes, Stages, None

\* What the record of a session holds.
LEMMA SessionType ==
    ASSUME Typed, NEW s \in Sessions
    PROVE  /\ session[s] \in Records /\ session[s] \in Kinds /\ Sound(session[s])
           /\ session[s].rep \in Reps \cup {None}
  BY DEF Typed, Records, Kinds

\* Ending a session keeps the types.
LEMMA EndedType ==
    ASSUME Typed, NEW s \in Sessions
    PROVE  Ended(s) \in [Sessions -> Records]
  BY SessionType, BareType DEF Ended, Typed

\* So does creating one,
LEMMA CreateType ==
    ASSUME Typed, NEW r \in Reps, NEW others \in [Sessions -> Records], Create(r, others)
    PROVE  /\ session' \in [Sessions -> Records] /\ active' \in Sessions \cup {None}
           /\ recent' \in BOOLEAN /\ sessions' \in 0 .. MaxSessions
<1>1. sessions + 1 \in Sessions
  BY AgentAssumption DEF Typed, TypeOK, Create, Sessions
<1>2. Bare(r, "starting") \in Records
  BY BareType, Positive DEF Typed, TypeOK
<1>3. session' \in [Sessions -> Records]
  BY <1>1, <1>2 DEF Create
<1> QED
  BY <1>1, <1>3, AgentAssumption DEF Create, Sessions, Typed, TypeOK

\* handling a field,
LEMMA HandleType ==
    ASSUME Typed, NEW r \in Reps, Handle(r)
    PROVE  /\ filled' \subseteq Inputs
           /\ session' \in [Sessions -> Records] /\ active' \in Sessions \cup {None}
           /\ recent' \in BOOLEAN /\ sessions' \in 0 .. MaxSessions
<1>1. filled' \subseteq Inputs
  BY DEF Handle, MarksAfter, Typed, TypeOK
<1>2. CASE UNCHANGED watch
  BY <1>1, <1>2 DEF watch, Typed, TypeOK
<1>3. CASE Create(r, Stopped(active))
  <2>1. Stopped(active) \in [Sessions -> Records]
    BY EndedType DEF Stopped, Stoppable, Typed, TypeOK
  <2> QED
    BY <1>1, <1>3, <2>1, CreateType
<1> QED
  BY <1>2, <1>3 DEF Handle

\* putting it behind the focus gate,
LEMMA GateType ==
    ASSUME Typed, NEW r \in Reps, Gate(r)
    PROVE  /\ filled' \subseteq Inputs /\ processed' \subseteq Reps /\ gated' \subseteq Reps
           /\ registry' \subseteq Reps /\ listening' \subseteq Inputs
           /\ session' \in [Sessions -> Records] /\ active' \in Sessions \cup {None}
           /\ recent' \in BOOLEAN /\ sessions' \in 0 .. MaxSessions
<1>1. r \in Inputs /\ Group(r) \subseteq Inputs
  BY Grouped DEF Typed, TypeOK
<1>2. CASE UNCHANGED <<filled, processed, gated, registry, listening, watch>>
  BY <1>2 DEF watch, Typed, TypeOK
<1>3. CASE /\ gated' = gated \cup {r} /\ processed' = processed \cup {r}
           /\ Handle(r) /\ UNCHANGED <<registry, listening>>
  BY <1>3, HandleType DEF Typed, TypeOK
<1>4. CASE /\ gated' = gated \cup {r} /\ processed' = processed \cup {r}
           /\ registry' = registry \cup {r} /\ listening' = listening \cup Group(r)
           /\ UNCHANGED <<filled, watch>>
  BY <1>1, <1>4 DEF watch, Typed, TypeOK
<1> QED
  BY <1>2, <1>3, <1>4 DEF Gate

\* releasing its guards
LEMMA ReleaseType ==
    ASSUME Typed, NEW r, Release(r)
    PROVE  /\ processed' \subseteq Reps /\ gated' \subseteq Reps /\ registry' \subseteq Reps
           /\ listening' \subseteq Inputs /\ detected' \subseteq Inputs /\ cooldown' \subseteq Inputs
  BY DEF Typed, TypeOK, Release

\* and choosing between the gate and handling it.
LEMMA RouteType ==
    ASSUME Typed, NEW i \in Inputs, NEW was, Route(i, was)
    PROVE  /\ filled' \subseteq Inputs /\ processed' \subseteq Reps /\ gated' \subseteq Reps
           /\ registry' \subseteq Reps /\ listening' \subseteq Inputs
           /\ session' \in [Sessions -> Records] /\ active' \in Sessions \cup {None}
           /\ recent' \in BOOLEAN /\ sessions' \in 0 .. MaxSessions
<1>1. Rep(i) \in Reps
  BY Grouped DEF Typed, TypeOK
<1>2. CASE Gate(Rep(i))
  BY <1>1, <1>2, GateType
<1>3. CASE /\ processed' = IF observing THEN processed \cup {Rep(i)} ELSE processed
           /\ Handle(Rep(i))
           /\ UNCHANGED <<gated, registry, listening>>
  BY <1>1, <1>3, HandleType DEF Typed, TypeOK
<1> QED
  BY <1>2, <1>3 DEF Route

\* What is found at a time is displayed at that time.
LEMMA Found ==
    ASSUME Typed,
           NEW i \in ScanFields[<<layout, OnDisplay>>] \cup MutationFields[<<layout, OnDisplay>>]
    PROVE  i \in Inputs /\ Rep(i) \in Reps /\ page[Rep(i)] \in Looks
<1>1. i \in Inputs /\ Rep(i) \in OnDisplay
  BY FieldsOf DEF Typed, TypeOK, Inputs, Rep, Reps, OnDisplay
<1> QED
  BY <1>1 DEF OnDisplay, Writable, Typed, TypeOK

\* A step that leaves the layout keeps what is said of it.
LEMMA SameLayout ==
    ASSUME UNCHANGED layout
    PROVE  /\ Reps' = Reps /\ Inputs' = Inputs /\ Kinds' = Kinds /\ Records' = Records
           /\ \A i : Rep(i)' = Rep(i) /\ Group(i)' = Group(i)
  BY DEF Reps, Inputs, Records, Kinds, Sound, Rep, Group

\* A step that leaves the sessions keeps their records sound.
LEMMA SessionKept ==
    ASSUME Typed, UNCHANGED layout,
           (session' \in [Sessions -> Records]) \/ UNCHANGED session
    PROVE  /\ session' \in [Sessions -> Records']
           /\ session' \in [Sessions -> [rep : Reps' \cup {None}, stage : Stages, mode : Modes,
                                         judged : DOMAIN Site \cup {None}, button : Nat]]
<1>1. session' \in [Sessions -> Records]
  BY DEF Typed
<1>2. session' \in [Sessions -> Kinds]
  BY <1>1 DEF Records
<1> QED
  BY <1>1, <1>2, SameLayout DEF Kinds

\* A session moves to a stage that its record allows.
LEMMA StageType ==
    ASSUME Typed, NEW s \in Sessions, NEW stage \in Stages,
           session[s].stage \notin {"none", "filled", "ended"},
           stage = "submitting" => session[s].mode = "submit"
    PROVE  [session EXCEPT ![s].stage = stage] \in [Sessions -> Records]
<1> DEFINE entry == [session[s] EXCEPT !.stage = stage]
<1>1. entry \in Kinds
  BY SessionType DEF Kinds
<1>2. Sound(entry)
  BY SessionType DEF Sound, Kinds
<1> QED
  BY <1>1, <1>2 DEF Typed, Records

\* The steps of the detector keep the types,
LEMMA DetectorTypes == Typed /\ Detector => Typed'
<1> SUFFICES ASSUME Typed, Detector PROVE Typed'
  OBVIOUS
<1> USE DEF Typed
<1>1. CASE Scan
  <2>1. UNCHANGED <<env, queues>> /\ observing' = TRUE
    BY <1>1 DEF Scan
  <2>2. CASE UNCHANGED <<filled, guards, watch>>
    BY <2>1, <2>2, SessionKept, SameLayout DEF env, ground, queues, guards, watch, Typed, TypeOK
  <2>3. CASE \E i \in ScanFields[<<layout, OnDisplay>>] :
                /\ detected' \subseteq detected \cup ScanFields[<<layout, OnDisplay>>]
                /\ Route(i, page[Rep(i)]) /\ UNCHANGED cooldown
    <3>1. PICK i \in ScanFields[<<layout, OnDisplay>>] : Route(i, page[Rep(i)])
      BY <2>3
    <3>2. detected' \subseteq Inputs
      BY <2>3, Found DEF Typed, TypeOK
    <3> QED
      BY <2>1, <2>3, <3>1, <3>2, Found, RouteType, SessionKept, SameLayout
         DEF env, ground, queues, Typed, TypeOK
  <2> QED
    BY <1>1, <2>2, <2>3 DEF Scan
<1>2. CASE Process
  <2> DEFINE fresh == (mutated \cap MutationFields[<<layout, OnDisplay>>]) \ cooldown
             found == {i \in fresh : Result(i) = "detected"}
  <2>1. \A i \in fresh : i \in Inputs /\ page[Rep(i)] \in Looks
    BY Found
  <2>2. /\ detected' = detected \cup found
        /\ cooldown' = cooldown \cup {i \in fresh : Result(i) # "open"}
        /\ batch' = {e \in batch : e[1] \notin found} \cup {<<i, page[Rep(i)]>> : i \in found}
        /\ mutated' = {}
        /\ UNCHANGED <<env, filled, observing, processed, gated, registry, listening, read, loop,
                       watch>>
    BY <1>2 DEF Process
  <2>3. detected' \subseteq Inputs /\ cooldown' \subseteq Inputs /\ batch' \subseteq Inputs \X Looks
    BY <2>1, <2>2 DEF Typed, TypeOK
  <2> QED
    BY <2>2, <2>3, SessionKept, SameLayout DEF env, ground, watch, Typed, TypeOK
<1>3. CASE TakeBatch
  BY <1>3, SessionKept, SameLayout DEF TakeBatch, env, ground, guards, watch, Typed, TypeOK
<1>4. CASE ReadSettings
  BY <1>4, SessionKept, SameLayout DEF ReadSettings, env, ground, guards, watch, Typed, TypeOK
<1>5. ASSUME NEW e \in loop, HandleEntry(e) PROVE Typed'
  <2>1. /\ loop' = loop \ {e}
        /\ UNCHANGED <<env, observing, detected, cooldown, mutated, batch, read>>
    BY <1>5 DEF HandleEntry
  <2>2. e[1] \in Inputs /\ Rep(e[1]) \in Reps
    BY Grouped DEF Typed, TypeOK
  <2>3. CASE Route(e[1], e[2])
    BY <2>1, <2>2, <2>3, RouteType, SessionKept, SameLayout DEF env, ground, Typed, TypeOK
  <2>4. CASE /\ processed' = processed \cup {Rep(e[1])}
             /\ UNCHANGED <<filled, gated, registry, listening, watch>>
    BY <2>1, <2>2, <2>4, SessionKept, SameLayout DEF env, ground, watch, Typed, TypeOK
  <2>5. CASE /\ filled' = MarksAfter(Rep(e[1]))
             /\ UNCHANGED <<processed, gated, registry, listening, watch>>
    BY <2>1, <2>2, <2>5, SessionKept, SameLayout DEF MarksAfter, env, ground, watch, Typed, TypeOK
  <2> QED
    BY <1>5, <2>3, <2>4, <2>5 DEF HandleEntry
<1> QED
  BY <1>1, <1>2, <1>3, <1>4, <1>5 DEF Detector

\* The button that is found is one of the page, and a button of the page is
\* none when the field is gone with it.
LEMMA ReachedSites ==
    ASSUME Typed, NEW r, NEW seen \in Reached(r)
    PROVE  seen \in SiteRecord
<1> DEFINE here == Site[site]
<1>1. here \in SiteRecord
  BY AgentAssumption DEF Typed, TypeOK
<1>2. <<>> \in Seq(Button)
  OBVIOUS
<1>3. [here EXCEPT !.buttons = <<>>] \in SiteRecord
  BY <1>1, <1>2 DEF SiteRecord
<1>4. [k \in Controls(here) |->
         [here.buttons[k] EXCEPT !.within = {}, !.span = here.buttons[k].corner]] \in Seq(Button)
  <2> DEFINE far(k) == [here.buttons[k] EXCEPT !.within = {}, !.span = here.buttons[k].corner]
             n == Len(here.buttons)
  <2>1. here.buttons \in Seq(Button)
    BY <1>1 DEF SiteRecord
  <2>2. n \in Nat /\ Controls(here) = 1 .. n /\ \A k \in 1 .. n : here.buttons[k] \in Button
    BY <2>1 DEF Controls
  <2>3. \A k \in 1 .. n : far(k) \in Button
    <3> SUFFICES ASSUME NEW k \in 1 .. n, NEW b, b = here.buttons[k]
                 PROVE  [b EXCEPT !.within = {}, !.span = b.corner] \in Button
      OBVIOUS
    <3>1. b \in Button
      BY <2>2
    <3> QED
      BY <3>1 DEF Button
  <2> HIDE DEF far, n
  <2>4. [k \in 1 .. n |-> far(k)] \in Seq(Button)
    BY <2>2, <2>3
  <2> QED
    BY <2>2, <2>4 DEF far
<1>5. Detached(here) \in SiteRecord
  BY <1>1, <1>4 DEF Detached, SiteRecord
<1> QED
  BY <1>1, <1>3, <1>5 DEF Reached

\* those of the sessions,
LEMMA SessionTypes ==
    ASSUME Typed, NEW s \in Sessions, SessionStep(s)
    PROVE  Typed'
<1> USE DEF Typed
<1>1. CASE Veto(s) \/ GiveUp(s) \/ Handled(s)
  <2>1. /\ session' = Ended(s) /\ Drop(s) /\ Release(session[s].rep)
        /\ UNCHANGED <<env, filled, observing, queues, recent, sessions>>
    BY <1>1 DEF Veto, GiveUp, Handled
  <2> QED
    BY <2>1, EndedType, ReleaseType, SessionKept, SameLayout DEF Drop, env, ground, queues, Typed, TypeOK
<1>2. CASE Connect(s)
  BY <1>2, StageType, SessionKept, SameLayout DEF Connect, Stages, env, ground, guards, queues, Typed, TypeOK
<1>3. CASE ConnectFails(s)
  BY <1>3, EndedType, SessionKept, SameLayout DEF ConnectFails, env, ground, guards, queues, Typed, TypeOK
<1>4. CASE Disconnect(s)
  <2>1. session' \in [Sessions -> Records]
    BY <1>4, EndedType DEF Disconnect, Stopped, Typed, TypeOK
  <2> QED
    BY <1>4, <2>1, SessionKept, SameLayout DEF Disconnect, Drop, env, ground, guards, queues, Typed, TypeOK
<1>5. CASE CodeFound(s)
  BY <1>5, StageType, SessionKept, SameLayout DEF CodeFound, Stages, env, ground, guards, queues, Typed, TypeOK
<1>6. CASE Decide(s)
  <2> DEFINE entry == [session[s] EXCEPT !.stage = "filling", !.mode = Mode, !.judged = site]
  <2>1. Mode \in Modes /\ (Mode = "submit" => ~Unsafe(Site[site])) /\ site \in DOMAIN Site
    BY DEF Mode, Modes, TypeOK
  <2>2. session[s].stage = "handling" /\ session' = [session EXCEPT ![s] = entry]
    BY <1>6 DEF Decide
  <2>3. entry \in Kinds
    BY <2>1, SessionType DEF Kinds, Stages
  <2>4. Sound(entry)
    <3>1. session[s] \in Kinds /\ Sound(session[s])
      BY SessionType
    <3> QED
      BY <2>1, <2>2, <3>1 DEF Sound, Kinds
  <2>5. session' \in [Sessions -> Records]
    BY <2>2, <2>3, <2>4 DEF Records
  <2> QED
    BY <1>6, <2>5, SessionKept, SameLayout DEF Decide, env, ground, guards, queues, Typed, TypeOK
<1>7. CASE Fill(s)
  <2> DEFINE r == session[s].rep
             after == [session EXCEPT ![s].stage =
                          IF session[s].mode = "submit" THEN "submitting" ELSE "filled"]
  <2>1. after \in [Sessions -> Records] /\ [session EXCEPT ![s].stage = "filled"] \in [Sessions -> Records]
    BY <1>7, StageType DEF Fill, Stages
  <2>2. UNCHANGED <<ground, page, sms, level, pages, users, observing,
                    detected, cooldown, processed, gated, registry, queues>>
    BY <1>7 DEF Fill
  <2>3. CASE /\ Writable(r)
             /\ value' = value \cup Group(r) /\ filled' = filled \cup Group(r)
             /\ focus' \in Group(r)
             /\ listening' = listening \ (Group(r) \ {focus})
             /\ Create(r, after) \/ (session' = after /\ UNCHANGED <<active, recent, sessions>>)
    <3>1. r \in Reps
      BY <1>7, SessionType DEF Fill, Sound
    <3>2. r \in Inputs /\ Group(r) \subseteq Inputs
      BY <3>1, Grouped DEF Typed, TypeOK
    <3>3. /\ session' \in [Sessions -> Records] /\ active' \in Sessions \cup {None}
          /\ recent' \in BOOLEAN /\ sessions' \in 0 .. MaxSessions
      BY <2>1, <2>3, <3>1, CreateType DEF Typed, TypeOK
    <3> QED
      BY <2>2, <2>3, <3>2, <3>3, SessionKept, SameLayout DEF ground, queues, Typed, TypeOK
  <2>4. CASE /\ session' = [session EXCEPT ![s].stage = "filled"]
             /\ UNCHANGED <<value, filled, focus, listening, active, recent, sessions>>
    BY <2>1, <2>2, <2>4, SessionKept, SameLayout DEF ground, queues, Typed, TypeOK
  <2> QED
    BY <1>7, <2>3, <2>4 DEF Fill
<1>8. CASE Submit(s)
  <2>1. PICK extended \in BOOLEAN, seen \in Reached(session[s].rep) :
           session' = [session EXCEPT ![s].stage = "filled",
                         ![s].button = IF SubmitButtons(seen, extended) = {} THEN None
                                       ELSE Max(SubmitButtons(seen, extended))]
    BY <1>8 DEF Submit
  <2>2. (IF SubmitButtons(seen, extended) = {} THEN None
         ELSE Max(SubmitButtons(seen, extended))) \in Nat
    <3>1. ASSUME NEW k \in SubmitButtons(seen, extended)
          PROVE  SubmitButtons(seen, extended) = {k} /\ k \in Nat
      BY <3>1, ReachedSites, ButtonChoice, ControlTypes
    <3> QED
      BY <3>1, Only DEF None
  <2> DEFINE button == IF SubmitButtons(seen, extended) = {} THEN None
                       ELSE Max(SubmitButtons(seen, extended))
             entry == [session[s] EXCEPT !.stage = "filled", !.button = button]
  <2>3. session[s].stage = "submitting" /\ session' = [session EXCEPT ![s] = entry]
    BY <1>8, <2>1 DEF Submit
  <2> HIDE DEF button
  <2>4. entry \in Kinds /\ Sound(entry)
    <3>1. session[s] \in Kinds /\ Sound(session[s]) /\ button \in Nat
      BY <2>2, SessionType DEF button
    <3>2. entry \in Kinds
      BY <3>1 DEF Kinds, Stages
    <3> QED
      BY <2>3, <3>1, <3>2 DEF Sound, Kinds
  <2>5. session' \in [Sessions -> Records]
    BY <2>3, <2>4 DEF Records
  <2> QED
    BY <1>8, <2>5, SessionKept, SameLayout DEF Submit, env, ground, guards, queues, Typed, TypeOK
<1> QED
  BY <1>1, <1>2, <1>3, <1>4, <1>5, <1>6, <1>7, <1>8 DEF SessionStep

\* The page, the user and the browser.
LEMMA PageTypes ==
    ASSUME Typed, NEW r \in Reps, Change(r) \/ Remove(r) \/ Renew(r) \/ Edit(r)
    PROVE  Typed'
<1> USE DEF Typed
<1>1. Group(r) \subseteq Inputs
  BY Grouped DEF TypeOK
<1>2. pages < MaxPage => Moving[layout][r] \subseteq Looks
  <2>1. pages < MaxPage => layout \in DOMAIN Moving
    BY AgentAssumption DEF TypeOK
  <2>2. layout \in DOMAIN Moving => Moving[layout] \in [Reps -> SUBSET Looks]
    BY AgentAssumption DEF Reps
  <2> QED
    BY <2>1, <2>2
<1>3. CASE Change(r)
  <2>1. UNCHANGED layout /\ page' \in [Reps -> Looks \cup {None}] /\ mutated' \subseteq Inputs
    BY <1>1, <1>2, <1>3 DEF Change, ground, TypeOK
  <2>2. pages' \in 0 .. MaxPage /\ (layout \in DOMAIN Moving \/ pages' = MaxPage)
    BY <1>3, AgentAssumption DEF Change, TypeOK
  <2> QED
    BY <1>3, <2>1, <2>2, SessionKept, SameLayout DEF Change, ground, guards, watch, TypeOK
<1>4. CASE Remove(r)
  <2>1. session' \in [Sessions -> Records]
    BY <1>4, EndedType DEF Remove, Stopped, Stoppable, watch, TypeOK
  <2>2. UNCHANGED layout /\ page' \in [Reps -> Looks \cup {None}]
    BY <1>4 DEF Remove, ground, TypeOK
  <2>3. pages' \in 0 .. MaxPage /\ (layout \in DOMAIN Moving \/ pages' = MaxPage)
    BY <1>4, AgentAssumption DEF Remove, TypeOK
  <2>4. active' \in Sessions \cup {None} /\ focus' \in Inputs \cup {None}
    BY <1>4 DEF Remove, TypeOK
  <2> QED
    BY <1>4, <2>1, <2>2, <2>3, <2>4, SessionKept, SameLayout
       DEF Remove, ground, guards, queues, TypeOK
<1>5. CASE Renew(r)
  <2>1. UNCHANGED layout /\ page' \in [Reps -> Looks \cup {None}] /\ mutated' \subseteq Inputs
    BY <1>1, <1>2, <1>5 DEF Renew, ground, TypeOK
  <2>2. pages' \in 0 .. MaxPage /\ (layout \in DOMAIN Moving \/ pages' = MaxPage)
    BY <1>5, AgentAssumption DEF Renew, TypeOK
  <2>3. /\ value' \subseteq Inputs /\ filled' \subseteq Inputs /\ detected' \subseteq Inputs
        /\ processed' \subseteq Reps /\ gated' \subseteq Reps /\ registry' \subseteq Reps
        /\ listening' \subseteq Inputs /\ batch' \cup read' \subseteq Inputs \X Looks
    BY <1>5 DEF Renew, TypeOK
  <2> QED
    BY <1>5, <2>1, <2>2, <2>3, SessionKept, SameLayout DEF Renew, ground, watch, TypeOK
<1>6. CASE Edit(r)
  <2>1. UNCHANGED layout /\ value' \subseteq Inputs /\ users' \in 0 .. MaxUser
    BY <1>1, <1>6, AgentAssumption DEF Edit, User, ground, TypeOK
  <2> QED
    BY <1>6, <2>1, SessionKept, SameLayout DEF Edit, ground, guards, queues, watch, TypeOK
<1> QED
  BY <1>3, <1>4, <1>5, <1>6

\* of the user
LEMMA UserTypes ==
    ASSUME Typed, NEW i \in Inputs, Focus(i) \/ CooldownOver(i)
    PROVE  Typed'
<1> USE DEF Typed
<1>1. UNCHANGED <<ground, pages>> /\ users' \in 0 .. MaxUser
  BY AgentAssumption DEF Focus, CooldownOver, User, TypeOK
<1>2. CASE Focus(i)
  <2>1. CASE Handle(Rep(i))
    <3>1. Rep(i) \in Reps
      BY Grouped DEF TypeOK
    <3> QED
      BY <1>1, <1>2, <2>1, <3>1, HandleType, SessionKept, SameLayout
         DEF Focus, ground, queues, TypeOK
  <2>2. CASE UNCHANGED <<filled, watch>>
    BY <1>1, <1>2, <2>2, SessionKept, SameLayout DEF Focus, ground, queues, watch, TypeOK
  <2> QED
    BY <1>2, <2>1, <2>2 DEF Focus
<1>3. CASE CooldownOver(i)
  BY <1>1, <1>3, SessionKept, SameLayout DEF CooldownOver, ground, queues, watch, TypeOK
<1> QED
  BY <1>2, <1>3

\* and of the browser too.
LEMMA BrowserTypes ==
    ASSUME Typed,
           RateLimitOver \/ Turn \/ UrlChanges \/ SetLevel \/ SetRules \/ SetSms \/ Rescan
    PROVE  Typed'
<1> USE DEF Typed
<1>1. Turns[site] \subseteq DOMAIN Site /\ Options[site] \in [levels : SUBSET Levels, rules : SUBSET Rules]
  BY AgentAssumption DEF TypeOK
<1>2. CASE RateLimitOver
  BY <1>2, SessionKept, SameLayout DEF RateLimitOver, env, ground, guards, queues, TypeOK
<1>3. CASE Turn
  <2>1. pages' \in 0 .. MaxPage /\ (layout \in DOMAIN Moving \/ pages' = MaxPage)
    BY <1>3, AgentAssumption DEF Turn, TypeOK
  <2> QED
    BY <1>1, <1>3, <2>1, SessionKept, SameLayout DEF Turn, guards, queues, watch, TypeOK
<1>4. CASE UrlChanges
  <2>1. pages' \in 0 .. MaxPage /\ (layout \in DOMAIN Moving \/ pages' = MaxPage)
    BY <1>4, AgentAssumption DEF UrlChanges, TypeOK
  <2> QED
    BY <1>4, <2>1, SessionKept, SameLayout DEF UrlChanges, ground, queues, watch, TypeOK
<1>5. User => users' \in 0 .. MaxUser
  BY AgentAssumption DEF User, TypeOK
<1>6. CASE SetLevel
  BY <1>1, <1>5, <1>6, SessionKept, SameLayout DEF SetLevel, ground, guards, queues, watch, TypeOK
<1>7. CASE SetRules
  BY <1>1, <1>5, <1>7, SessionKept, SameLayout DEF SetRules, guards, queues, watch, TypeOK
<1>8. CASE SetSms
  BY <1>5, <1>8, SessionKept, SameLayout DEF SetSms, ground, guards, queues, watch, TypeOK
<1>9. CASE Rescan
  <2>1. mutated' \subseteq Inputs
    BY <1>9 DEF Rescan, TypeOK
  <2> QED
    BY <1>5, <1>9, <2>1, SessionKept, SameLayout DEF Rescan, ground, guards, watch, TypeOK
<1> QED
  BY <1>2, <1>3, <1>4, <1>6, <1>7, <1>8, <1>9

\* Typed holds of every scene.
LEMMA TypedInit == Init => Typed
<1> SUFFICES ASSUME Init PROVE Typed
  OBVIOUS
<1> DEFINE counted == pages \in 0 .. MaxPage /\ users \in 0 .. MaxUser /\ sessions \in 0 .. MaxSessions
<1>1. /\ layout \in DOMAIN Layout /\ (layout \in DOMAIN Moving \/ pages = MaxPage)
      /\ page \in [Reps -> Looks \cup {None}] /\ sms \in BOOLEAN /\ observing \in BOOLEAN
      /\ site \in DOMAIN Site /\ rules \in Rules /\ level \in Levels
      /\ counted
  <2>1. CASE InitMoving
    <3>1. layout \in DOMAIN Moving /\ Moving[layout] \in [Reps -> SUBSET Looks]
      BY <2>1, AgentAssumption DEF InitMoving, Reps
    <3>2. page \in [Reps -> Looks \cup {None}]
      BY <2>1, <3>1 DEF InitMoving
    <3>3. layout \in DOMAIN Layout /\ site \in DOMAIN Site /\ rules \in Rules /\ level \in Levels
      BY <2>1, <3>1, AgentAssumption DEF InitMoving, Plainly, Levels
    <3>4. counted
      BY <2>1, AgentAssumption DEF InitMoving
    <3> QED
      BY <2>1, <3>1, <3>2, <3>3, <3>4 DEF InitMoving
  <2>2. CASE InitStill
    <3>1. PICK scene \in Still :
             layout = scene[1] /\ page = [r \in RepsOf[scene[1]] |-> scene[2]]
      BY <2>2 DEF InitStill
    <3>2. layout \in DOMAIN Layout /\ page \in [Reps -> Looks \cup {None}]
      BY <3>1, AgentAssumption DEF Reps
    <3> QED
      BY <2>2, <3>2, AgentAssumption DEF InitStill, Plainly, Levels
  <2>3. CASE InitScene
    <3>1. PICK scene \in Scenes :
             /\ layout = scene[1] /\ page = [r \in RepsOf[scene[1]] |-> scene[2]]
             /\ site = scene[3] /\ rules = scene[4]
      BY <2>3 DEF InitScene
    <3>2. /\ layout \in DOMAIN Moving /\ page \in [Reps -> Looks \cup {None}]
          /\ site \in DOMAIN Site /\ rules \in Rules
      BY <3>1, AgentAssumption DEF Reps
    <3>3. layout \in DOMAIN Layout
      BY <3>2, AgentAssumption
    <3>4. counted
      BY <2>3, AgentAssumption DEF InitScene
    <3> QED
      BY <2>3, <3>2, <3>3, <3>4 DEF InitScene, Levels
  <2> QED
    BY <2>1, <2>2, <2>3 DEF Init
<1>2. session \in [Sessions -> Records] /\ session \in [Sessions -> Kinds]
  BY BareType DEF Init, Records
<1> QED
  BY <1>1, <1>2 DEF Init, Typed, TypeOK, Kinds

\* Typed is inductive.
LEMMA TypedStep == Typed /\ [Next]_vars => Typed'
<1> SUFFICES ASSUME Typed, [Next]_vars PROVE Typed'
  OBVIOUS
<1>1. CASE UNCHANGED vars
  BY <1>1, SessionKept, SameLayout DEF vars, env, ground, guards, queues, watch, Typed, TypeOK
<1> QED
  BY <1>1, DetectorTypes, SessionTypes, PageTypes, UserTypes, BrowserTypes DEF Next

\* Every variable keeps its type, whatever the page, the user and the sessions
\* do.
THEOREM TypeCorrect == Spec => []TypeOK
<1>1. Typed => TypeOK
  BY DEF Typed
<1> QED
  BY <1>1, TypedInit, TypedStep, PTL DEF Spec

-----------------------------------------------------------------------------
(***************************************************************************)
(* What is written and clicked.                                            *)
(***************************************************************************)
\* Whatever else happens, a session that is to submit has no button yet.
LEMMA NoButton ==
    ASSUME Typed, NEW s \in Sessions, session[s].stage = "submitting",
           \/ UNCHANGED session
           \/ \E t \in Sessions : session' = Ended(t)
           \/ \E r : Create(r, session) \/ \E t \in Sessions : Create(r, Ended(t))
    PROVE  session'[s].button = None
<1>1. session[s].button = None /\ session \in [Sessions -> Records]
  BY SessionType DEF Sound, Typed
<1>2. \A t \in Sessions : Ended(t)[s].button = None /\ DOMAIN Ended(t) = Sessions
  BY <1>1 DEF Ended, Bare
<1>3. ASSUME NEW r, NEW others, Create(r, others), others[s].button = None,
             DOMAIN others = Sessions
      PROVE  session'[s].button = None
  BY <1>3 DEF Create, Bare
<1> QED
  BY <1>1, <1>2, <1>3

\* A session about to submit is not touched when another one ends or begins.
LEMMA Elsewhere ==
    ASSUME Typed, NEW s \in Sessions, session[s].stage = "submitting",
           NEW t \in Sessions \ {s}, NEW others,
           \A u \in Sessions \ {t} : others[u] = session[u],
           DOMAIN others = Sessions,
           session' = others \/ \E r : Create(r, others)
    PROVE  session'[s].button = None
<1>1. others[s].button = None
  BY SessionType DEF Sound
<1>2. ASSUME NEW r, Create(r, others) PROVE session'[s].button = None
  BY <1>1, <1>2 DEF Create, Bare
<1> QED
  BY <1>1, <1>2

\* Handling a field writes nothing into it, and may end a session or begin one.
LEMMA HandleChanges ==
    ASSUME Typed, NEW r, Handle(r)
    PROVE  /\ filled' \subseteq filled
           /\ \/ UNCHANGED session
              \/ Create(r, session) \/ \E t \in Sessions : Create(r, Ended(t))
  BY DEF Handle, MarksAfter, watch, Stopped, Stoppable, Typed, TypeOK

\* So does choosing between the gate and handling it.
LEMMA RouteChanges ==
    ASSUME Typed, NEW i, NEW was, Route(i, was)
    PROVE  /\ filled' \subseteq filled
           /\ \/ UNCHANGED session
              \/ \E r : Create(r, session) \/ \E t \in Sessions : Create(r, Ended(t))
<1>1. Handle(Rep(i)) \/ UNCHANGED <<filled, watch>>
  BY DEF Route, Gate
<1> QED
  BY <1>1, HandleChanges DEF watch

\* Only Submit gives a session a button.
LEMMA ClickIsSubmit ==
    ASSUME Typed, Next, NEW s \in Sessions, Clicks(s)
    PROVE  Submit(s)
<1> SUFFICES ASSUME ~Submit(s) PROVE session'[s].button = None
  BY DEF Clicks
<1>0. session[s].stage = "submitting"
  BY DEF Clicks
<1>1. CASE Detector
  <2>1. CASE UNCHANGED session
    BY <1>0, <2>1, NoButton
  <2>2. CASE \E i, was : Route(i, was)
    BY <1>0, <2>2, RouteChanges, NoButton
  <2> QED
    BY <1>1, <2>1, <2>2 DEF Detector, Scan, Process, TakeBatch, ReadSettings, HandleEntry, watch
<1>2. ASSUME NEW t \in Sessions, SessionStep(t) PROVE session'[s].button = None
  <2>1. CASE Veto(t) \/ GiveUp(t) \/ Handled(t) \/ ConnectFails(t)
    BY <1>0, <2>1, NoButton DEF Veto, GiveUp, Handled, ConnectFails
  <2>2. CASE Disconnect(t)
    BY <1>0, <2>2, NoButton DEF Disconnect, Stopped
  <2>3. ASSUME Connect(t) \/ CodeFound(t) \/ Decide(t) \/ Fill(t) \/ Submit(t)
        PROVE  session'[s].button = None
    <3>1. t # s
      BY <1>0, <2>3 DEF Connect, CodeFound, Decide, Fill
    <3>2. PICK others :
             /\ \A u \in Sessions \ {t} : others[u] = session[u]
             /\ DOMAIN others = Sessions
             /\ session' = others \/ \E r : Create(r, others)
      <4>1. session \in [Sessions -> Records]
        BY DEF Typed
      <4>2. CASE Connect(t) \/ CodeFound(t) \/ Decide(t) \/ Submit(t)
        BY <4>1, <4>2 DEF Connect, CodeFound, Decide, Submit
      <4>3. CASE Fill(t)
        BY <4>1, <4>3 DEF Fill
      <4> QED
        BY <2>3, <4>2, <4>3
    <3> QED
      BY <1>0, <3>1, <3>2, Elsewhere
  <2> QED
    BY <1>2, <2>1, <2>2, <2>3 DEF SessionStep
<1>3. CASE RateLimitOver \/ Turn \/ UrlChanges \/ SetLevel \/ SetRules \/ SetSms \/ Rescan
  <2>1. UNCHANGED session
    BY <1>3 DEF RateLimitOver, Turn, UrlChanges, SetLevel, SetRules, SetSms, Rescan, watch
  <2> QED
    BY <1>0, <2>1, NoButton
<1>4. ASSUME NEW r \in Reps, Change(r) \/ Remove(r) \/ Renew(r) \/ Edit(r)
      PROVE  session'[s].button = None
  <2>1. UNCHANGED session \/ \E t \in Sessions : session' = Ended(t)
    BY <1>4 DEF Change, Remove, Renew, Edit, watch, Stopped, Stoppable, Typed, TypeOK
  <2> QED
    BY <1>0, <2>1, NoButton
<1>5. ASSUME NEW i \in Inputs, Focus(i) \/ CooldownOver(i) PROVE session'[s].button = None
  <2>1. Handle(Rep(i)) \/ UNCHANGED session
    BY <1>5 DEF Focus, CooldownOver, watch
  <2> QED
    BY <1>0, <2>1, HandleChanges, NoButton
<1> QED
  BY <1>1, <1>2, <1>3, <1>4, <1>5 DEF Next

\* What a click meets when a code that was written is submitted.
LEMMA ClickIsProper ==
    ASSUME Typed, NEW s \in Sessions, Submit(s), Clicks(s)
    PROVE  Proper(s, Site[site].buttons[session'[s].button])
<1> DEFINE here == Site[site]
<1>1. here \in SiteRecord
  BY AgentAssumption DEF Typed, TypeOK
<1>2. /\ Site[session[s].judged].host = "plain"
      /\ Site[session[s].judged].text \cap {"pay", "banking"} = {}
  <2>1. session[s].judged \in DOMAIN Site /\ ~Unsafe(Site[session[s].judged])
    BY SessionType DEF Submit, Sound
  <2>2. Site[session[s].judged] \in SiteRecord
    BY <2>1, AgentAssumption
  <2> QED
    BY <2>1, <2>2 DEF Unsafe, Banks, PayTerms, BankTerms, SiteRecord
<1>3. PICK extended \in BOOLEAN, seen \in Reached(session[s].rep) :
         session' = [session EXCEPT ![s].stage = "filled",
                       ![s].button = IF SubmitButtons(seen, extended) = {} THEN None
                                     ELSE Max(SubmitButtons(seen, extended))]
  BY DEF Submit
<1>4. session'[s].button = IF SubmitButtons(seen, extended) = {} THEN None
                           ELSE Max(SubmitButtons(seen, extended))
  BY <1>3, SessionType DEF Typed, Kinds
<1>5. PICK k \in SubmitButtons(seen, extended) : TRUE
  BY <1>4 DEF Clicks
<1>6. /\ k \in Controls(seen) /\ ~Barred(seen.buttons[k])
      /\ SubmitButtons(seen, extended) = {k}
      /\ \/ "safe" \in seen.buttons[k].says
         \/ Native(seen.buttons[k]) /\ ~\E j \in Controls(seen) : Offers(seen.buttons[j])
      /\ ~Native(seen.buttons[k]) =>
            /\ ~\E j \in Controls(seen) : Offers(seen.buttons[j])
            /\ seen.buttons[k].within # {}
  <2>1. seen \in SiteRecord
    BY <1>3, ReachedSites
  <2> QED
    BY <1>5, <2>1, ButtonChoice
<1>7. session'[s].button = k
  <2>1. k \in Nat
    BY <1>3, <1>6, ReachedSites, ControlTypes
  <2> QED
    BY <1>4, <1>5, <1>6, <2>1, Only
<1>8. CASE page[session[s].rep] # None
  <2>1. seen = here
    BY <1>3, <1>8 DEF Reached
  <2> QED
    BY <1>2, <1>6, <1>7, <1>8, <2>1 DEF Proper, Barred
<1>9. CASE page[session[s].rep] = None
  <2>1. seen = Detached(here) \/ seen = [here EXCEPT !.buttons = <<>>]
    BY <1>3, <1>9 DEF Reached
  <2>2. seen # [here EXCEPT !.buttons = <<>>]
    BY <1>1, <1>6 DEF Controls, SiteRecord
  <2>3. /\ k \in Controls(here)
        /\ seen.buttons[k] = [here.buttons[k] EXCEPT !.within = {}, !.span = here.buttons[k].corner]
    <3>1. seen.buttons = [j \in Controls(here) |->
             [here.buttons[j] EXCEPT !.within = {}, !.span = here.buttons[j].corner]]
      BY <1>1, <2>1, <2>2 DEF Detached, SiteRecord
    <3>2. k \in DOMAIN seen.buttons
      BY <1>6 DEF Controls
    <3> QED
      BY <3>1, <3>2
  <2>4. here.buttons[k] \in Button
    BY <1>1, <2>3, ControlTypes
  <2>5. /\ seen.buttons[k].says = here.buttons[k].says
        /\ seen.buttons[k].shown = here.buttons[k].shown
        /\ seen.buttons[k].enabled = here.buttons[k].enabled
        /\ seen.buttons[k].tag = here.buttons[k].tag
        /\ seen.buttons[k].within = {}
    BY <2>3, <2>4 DEF Button
  <2>6. Native(here.buttons[k]) /\ ~Barred(here.buttons[k])
    BY <1>6, <2>5 DEF Native, Barred
  <2> QED
    BY <1>2, <1>7, <1>9, <2>6 DEF Proper, Barred
<1> QED
  BY <1>8, <1>9

\* Only the end of a session writes into fields, where the rules allow it.
LEMMA WritesAsAllowed ==
    ASSUME Typed, Next
    PROVE  filled' \subseteq filled \/ DomainEnabled(rules, Site[site])
<1>1. ASSUME NEW s \in Sessions, SessionStep(s)
      PROVE  filled' \subseteq filled \/ DomainEnabled(rules, Site[site])
  BY <1>1 DEF SessionStep, Veto, Connect, ConnectFails, GiveUp, Disconnect, CodeFound, Decide,
              Fill, Submit, Handled
<1>2. ASSUME Detector PROVE filled' \subseteq filled
  <2>1. CASE \E i, was : Route(i, was)
    BY <2>1, RouteChanges
  <2>2. CASE UNCHANGED filled
    BY <2>2
  <2>3. CASE \E r : filled' = MarksAfter(r)
    BY <2>3 DEF MarksAfter
  <2> QED
    BY <1>2, <2>1, <2>2, <2>3 DEF Detector, Scan, Process, TakeBatch, ReadSettings, HandleEntry
<1>3. CASE RateLimitOver \/ Turn \/ UrlChanges \/ SetLevel \/ SetRules \/ SetSms \/ Rescan
  BY <1>3 DEF RateLimitOver, Turn, UrlChanges, SetLevel, SetRules, SetSms, Rescan
<1>4. ASSUME NEW r \in Reps, Change(r) \/ Remove(r) \/ Renew(r) \/ Edit(r)
      PROVE  filled' \subseteq filled
  BY <1>4 DEF Change, Remove, Renew, Edit
<1>5. ASSUME NEW i \in Inputs, Focus(i) \/ CooldownOver(i) PROVE filled' \subseteq filled
  <2>1. Handle(Rep(i)) \/ UNCHANGED filled
    BY <1>5 DEF Focus, CooldownOver
  <2> QED
    BY <2>1, HandleChanges
<1> QED
  BY <1>1, <1>2, <1>3, <1>4, <1>5 DEF Next

\* On every page and under all rules, a code is written only where they allow
\* it, and clicked is only what may be: after a code that was to be submitted,
\* judged on a page that spoke of no payment and no bank, a button of the page
\* without a dangerous label (handleCodeFoundWithAutofill, findSubmitButton).
THEOREM ActsAllowed == Spec => ActsAsAllowed
<1>1. Typed /\ [Next]_vars =>
        [/\ filled' \subseteq filled \/ DomainEnabled(rules, Site[site])
         /\ \A s \in Sessions :
               Clicks(s) => Proper(s, Site[site].buttons[session'[s].button])]_vars
  BY WritesAsAllowed, ClickIsSubmit, ClickIsProper
<1> QED
  BY <1>1, TypedInit, TypedStep, PTL DEF Spec, ActsAsAllowed

-----------------------------------------------------------------------------
(***************************************************************************)
(* Who lets a field go.                                                    *)
(***************************************************************************)
\* No input is in the groups of two representatives.
Disjoint == \A r \in Reps : \A i \in Group(r) : Rep(i) = r

\* What waits for the focus has the mark of the gate.
Tidy == Typed /\ Disjoint /\ registry \subseteq gated

\* The layout never changes.
LEMMA LayoutStays == [Next]_vars => UNCHANGED layout
<1> SUFFICES ASSUME [Next]_vars PROVE UNCHANGED layout
  OBVIOUS
<1>1. CASE UNCHANGED vars
  BY <1>1 DEF vars, env, ground
<1>2. CASE Detector
  BY <1>2 DEF Detector, Scan, Process, TakeBatch, ReadSettings, HandleEntry, env, ground
<1>3. ASSUME NEW s \in Sessions, SessionStep(s) PROVE UNCHANGED layout
  BY <1>3 DEF SessionStep, Veto, Connect, ConnectFails, GiveUp, Disconnect, CodeFound, Decide,
              Fill, Submit, Handled, env, ground
<1>4. CASE RateLimitOver \/ Turn \/ UrlChanges \/ SetLevel \/ SetRules \/ SetSms \/ Rescan
  BY <1>4 DEF RateLimitOver, Turn, UrlChanges, SetLevel, SetRules, SetSms, Rescan, env, ground
<1>5. ASSUME NEW r \in Reps, Change(r) \/ Remove(r) \/ Renew(r) \/ Edit(r) PROVE UNCHANGED layout
  BY <1>5 DEF Change, Remove, Renew, Edit, ground
<1>6. ASSUME NEW i \in Inputs, Focus(i) \/ CooldownOver(i) PROVE UNCHANGED layout
  BY <1>6 DEF Focus, CooldownOver, ground
<1> QED
  BY <1>1, <1>2, <1>3, <1>4, <1>5, <1>6 DEF Next

\* What is registered with the focus gate carries its mark.
LEMMA RegisteredStep ==
    ASSUME registry \subseteq gated, [Next]_vars
    PROVE  registry' \subseteq gated'
<1>1. CASE UNCHANGED vars
  BY <1>1 DEF vars, guards
<1>2. CASE Detector
  <2>1. CASE UNCHANGED <<registry, gated>>
    BY <2>1
  <2>2. CASE \E i, was : Route(i, was)
    BY <2>2 DEF Route, Gate
  <2> QED
    BY <1>2, <2>1, <2>2 DEF Detector, Scan, Process, TakeBatch, ReadSettings, HandleEntry, guards
<1>3. ASSUME NEW s \in Sessions, SessionStep(s) PROVE registry' \subseteq gated'
  BY <1>3 DEF SessionStep, Veto, Connect, ConnectFails, GiveUp, Disconnect, CodeFound, Decide,
              Fill, Submit, Handled, Release, guards
<1>4. CASE RateLimitOver \/ Turn \/ UrlChanges \/ SetLevel \/ SetRules \/ SetSms \/ Rescan
  BY <1>4 DEF RateLimitOver, Turn, UrlChanges, SetLevel, SetRules, SetSms, Rescan, guards
<1>5. ASSUME NEW r \in Reps, Change(r) \/ Remove(r) \/ Renew(r) \/ Edit(r)
      PROVE  registry' \subseteq gated'
  BY <1>5 DEF Change, Remove, Renew, Edit, guards
<1>6. ASSUME NEW i \in Inputs, Focus(i) \/ CooldownOver(i) PROVE registry' \subseteq gated'
  BY <1>6 DEF Focus, CooldownOver
<1> QED
  BY <1>1, <1>2, <1>3, <1>4, <1>5, <1>6 DEF Next

\* Tidy is inductive.
LEMMA TidyStep == Tidy /\ [Next]_vars => Tidy'
<1> SUFFICES ASSUME Tidy, [Next]_vars PROVE Tidy'
  OBVIOUS
<1>1. Disjoint'
  BY LayoutStays, SameLayout DEF Tidy, Disjoint
<1> QED
  BY <1>1, TypedStep, RegisteredStep DEF Tidy

\* A field stays in its owner's hands when no guard is put up and nothing it
\* is owned by goes.
LEMMA StaysOwned ==
    ASSUME UNCHANGED layout, NEW r \in Reps,
           r \in processed' \cup gated' => r \in processed \cup gated,
           Group(r) \cap detected' \subseteq detected,
           \A s \in Sessions : Live(s) /\ session[s].rep = r => Live(s)' /\ session'[s].rep = r,
           r \in registry => r \in registry' /\ Group(r) \cap listening \subseteq listening',
           r \notin processed \cup gated => Group(r) \cap Waiting \subseteq Waiting'
    PROVE  Orphan(r)' => Orphan(r)
<1>1. Group(r)' = Group(r)
  BY SameLayout
<1>2. Guarded(r)' => Guarded(r)
  BY <1>1 DEF Guarded
<1>3. Owned(r) => Owned(r)'
  BY <1>1 DEF Owned
<1> QED
  BY <1>2, <1>3 DEF Orphan

\* Handling a field that is not left unserved leaves it with an owner.
LEMMA Serves ==
    ASSUME Typed, UNCHANGED layout, NEW r \in Reps, Handle(r), ~Unserved(r), sessions' = sessions
    PROVE  /\ UNCHANGED watch
           /\ Owned(r)'
<1>1. ~Create(r, Stopped(active))
  BY DEF Create, Typed, TypeOK
<1>2. UNCHANGED watch /\ Watched(r)
  BY <1>1 DEF Handle, Unserved
<1>3. active \in Sessions /\ Live(active) /\ session[active].rep = r
  BY <1>2 DEF Watched, Unserved, Dead, Typed, TypeOK
<1> QED
  BY <1>2, <1>3 DEF Owned, Live, watch

\* Where groups are disjoint, each representative stands for its own group.
LEMMA InOwnGroup ==
    ASSUME Tidy, NEW r \in Reps
    PROVE  r \in Inputs /\ r \in Group(r) /\ Group(r) \subseteq Inputs /\ Rep(r) = r
  BY Grouped, OwnGroup DEF Tidy, Typed, TypeOK, Disjoint, Group, Reps, Inputs

\* The loop of a batch.  What comes of an entry whose field gets no session is
\* forsaken.
LEMMA EntryReleases ==
    ASSUME Tidy, NEW e \in loop, HandleEntry(e), ~Forsaken, NEW r \in Reps
    PROVE  Orphan(r)' => Orphan(r)
<1> PICK q \in Reps : q = Rep(e[1])
  BY Grouped DEF Tidy, Typed, TypeOK
<1>1. ~Unserved(q) /\ sessions' = sessions /\ ~Filled(q) /\ page[q] # None
  BY DEF Forsaken, Unserved
<1>2. /\ UNCHANGED <<layout, detected>> /\ e[1] \in Inputs
      /\ Waiting \ {e[1]} \subseteq Waiting'
  BY DEF HandleEntry, env, ground, Waiting, Tidy, Typed, TypeOK
<1>3. r # q => e[1] \notin Group(r)
  BY DEF Tidy, Disjoint
<1>4. CASE q \in processed /\ UNCHANGED <<processed, gated, registry, listening, watch>>
  BY <1>1, <1>2, <1>3, <1>4, StaysOwned DEF watch, Live
<1>5. CASE Handle(q) /\ UNCHANGED <<gated, registry, listening>>
           /\ processed' \in {processed, processed \cup {q}}
  <2>1. UNCHANGED watch /\ Owned(q)'
    BY <1>1, <1>2, <1>5, Serves DEF Tidy
  <2> QED
    BY <1>2, <1>3, <1>5, <2>1, StaysOwned DEF watch, Live, Orphan
<1>6. CASE Gate(q)
  <2>1. CASE q \in gated /\ UNCHANGED <<filled, processed, gated, registry, listening, watch>>
    BY <1>2, <1>3, <2>1, StaysOwned DEF watch, Live
  <2>2. CASE /\ gated' = gated \cup {q} /\ processed' = processed \cup {q}
             /\ Handle(q) /\ UNCHANGED <<registry, listening>>
    <3>1. UNCHANGED watch /\ Owned(q)'
      BY <1>1, <1>2, <2>2, Serves DEF Tidy
    <3> QED
      BY <1>2, <1>3, <2>2, <3>1, StaysOwned DEF watch, Live, Orphan
  <2>3. CASE /\ gated' = gated \cup {q} /\ processed' = processed \cup {q}
             /\ registry' = registry \cup {q} /\ listening' = listening \cup Group(q)
             /\ UNCHANGED <<filled, watch>>
    <3>1. Owned(q)'
      BY <1>1, <1>2, <2>3, InOwnGroup, SameLayout DEF Owned
    <3> QED
      BY <1>2, <1>3, <2>3, <3>1, StaysOwned DEF watch, Live, Orphan
  <2> QED
    BY <1>6, <2>1, <2>2, <2>3 DEF Gate
<1> QED
  BY <1>1, <1>4, <1>5, <1>6 DEF HandleEntry, Route

\* No step of the detector forsakes a field,
LEMMA DetectorReleases ==
    ASSUME Tidy, Detector, ~Forsaken, NEW r \in Reps
    PROVE  Orphan(r)' => Orphan(r)
<1>1. CASE Process
  <2> DEFINE fresh == (mutated \cap MutationFields[<<layout, OnDisplay>>]) \ cooldown
             found == {i \in fresh : Result(i) = "detected"}
  <2>1. /\ detected' = detected \cup found
        /\ batch' = {e \in batch : e[1] \notin found} \cup {<<i, page[Rep(i)]>> : i \in found}
        /\ UNCHANGED <<layout, processed, gated, registry, listening, read, loop, watch>>
    BY <1>1 DEF Process, env, ground
  <2> HIDE DEF found
  <2>2. Waiting \subseteq Waiting' /\ found \subseteq Waiting'
    <3>1. \A i \in found : <<i, page[Rep(i)]>> \in batch'
      BY <2>1
    <3>2. \A e \in batch' : e[1] \in Waiting'
      BY DEF Waiting
    <3>3. \A i \in found : <<i, page[Rep(i)]>>[1] \in Waiting'
      BY <3>1, <3>2
    <3>4. found \subseteq Waiting'
      BY <3>3
    <3>5. \A e \in batch \cup read \cup loop : e[1] \in Waiting'
      BY <2>1, <3>4 DEF Waiting
    <3> QED
      BY <3>4, <3>5 DEF Waiting
  <2>3. CASE Group(r) \cap found = {} \/ r \in processed \cup gated
    <3>1. Guarded(r)' => Guarded(r)
      BY <2>1, <2>3, SameLayout DEF Guarded
    <3>2. Owned(r) => Owned(r)'
      BY <2>1, <2>2, SameLayout DEF Owned, Live, watch
    <3> QED
      BY <3>1, <3>2 DEF Orphan
  <2>4. CASE Group(r) \cap found # {} /\ r \notin processed \cup gated
    BY <2>1, <2>2, <2>4, SameLayout DEF Orphan, Owned
  <2> QED
    BY <2>3, <2>4
<1>2. CASE TakeBatch \/ ReadSettings
  <2>1. Waiting' = Waiting /\ UNCHANGED <<layout, guards, watch>>
    BY <1>2 DEF TakeBatch, ReadSettings, Forsaken, Idle, Waiting, env, ground
  <2> QED
    BY <2>1, StaysOwned DEF guards, watch, Live
<1> QED
  BY <1>1, <1>2, EntryReleases DEF Detector, Forsaken

\* A session that ends and lets its field go keeps nothing of it, and takes
\* nothing from another one.
LEMMA ReleaseReleases ==
    ASSUME Tidy, NEW s \in Sessions, session' = Ended(s), Release(session[s].rep),
           UNCHANGED <<layout, queues>>, session[s].rep \in Reps, NEW r \in Reps
    PROVE  Orphan(r)' => Orphan(r)
<1> DEFINE q == session[s].rep
<1>1. CASE r = q
  BY <1>1, SameLayout DEF Release, Forgotten, Orphan, Guarded
<1>2. CASE r # q
  <2>1. Group(r) \cap Group(q) = {}
    BY <1>2 DEF Tidy, Disjoint
  <2>2. \A t \in Sessions : Live(t) /\ session[t].rep = r => Live(t)' /\ session'[t].rep = r
    BY <1>2 DEF Ended, Live, Tidy, Typed
  <2>3. /\ r \in processed' \cup gated' => r \in processed \cup gated
        /\ detected' \subseteq detected
        /\ r \in registry => r \in registry' /\ Group(r) \cap listening \subseteq listening'
    BY <1>2, <2>1 DEF Release
  <2> QED
    BY <2>2, <2>3, StaysOwned DEF queues, Waiting
<1> QED
  BY <1>1, <1>2

\* no step of a session,
LEMMA SessionReleases ==
    ASSUME Tidy, NEW s \in Sessions, SessionStep(s), ~Forsaken, NEW r \in Reps
    PROVE  Orphan(r)' => Orphan(r)
<1> DEFINE q == session[s].rep
<1>1. session[s] \in Kinds /\ session \in [Sessions -> Records]
  BY SessionType DEF Tidy, Typed
<1>2. CASE Veto(s) \/ GiveUp(s) \/ Handled(s)
  <2>1. q \in Reps
    BY <1>2, SessionType DEF Veto, GiveUp, Handled, Sound, Tidy
  <2> QED
    BY <1>2, <2>1, ReleaseReleases DEF Veto, GiveUp, Handled, env, ground
<1>3. CASE Connect(s) \/ CodeFound(s) \/ Decide(s) \/ Submit(s)
  <2>1. UNCHANGED <<layout, guards, queues>>
    BY <1>3 DEF Connect, CodeFound, Decide, Submit, env, ground
  <2>2. \A t \in Sessions : Live(t) => Live(t)' /\ session'[t].rep = session[t].rep
    BY <1>1, <1>3 DEF Connect, CodeFound, Decide, Submit, Live, Handling, Kinds
  <2> QED
    BY <2>1, <2>2, StaysOwned DEF guards, queues, Waiting
<1>4. CASE Fill(s)
  <2>1. /\ UNCHANGED <<layout, detected, processed, gated, registry, queues>>
        /\ listening \ Group(q) \subseteq listening'
    BY <1>4 DEF Fill, ground
  <2>2. \A t \in Sessions : /\ Live(t) => Live(t)' /\ session'[t].rep = session[t].rep
                            /\ t = s => Live(t)
    <3>1. ~\E others : Create(q, others)
      BY DEF Forsaken, Create, Tidy, Typed, TypeOK
    <3> QED
      BY <1>1, <1>4, <3>1 DEF Fill, Live, Handling, Kinds
  <2>3. CASE r = q
    BY <2>2, <2>3 DEF Orphan, Owned
  <2>4. CASE r # q /\ q \in Reps
    <3>1. Group(r) \cap Group(q) = {}
      BY <2>4 DEF Tidy, Disjoint
    <3> QED
      BY <2>1, <2>2, <3>1, StaysOwned DEF queues, Waiting
  <2>5. q \in Reps
    BY <1>4, SessionType DEF Fill, Sound, Tidy
  <2> QED
    BY <2>3, <2>4, <2>5
<1> QED
  BY <1>2, <1>3, <1>4 DEF SessionStep, Forsaken

\* no change of the page,
LEMMA PageReleases ==
    ASSUME Tidy, NEW q \in Reps, Change(q) \/ Remove(q) \/ Renew(q) \/ Edit(q), ~Forsaken,
           NEW r \in Reps
    PROVE  Orphan(r)' => Orphan(r)
<1>1. CASE Change(q) \/ Edit(q)
  <2>1. UNCHANGED <<layout, guards, watch>> /\ Waiting' = Waiting
    BY <1>1 DEF Change, Edit, Waiting, queues, ground
  <2> QED
    BY <2>1, StaysOwned DEF guards, watch, Live
<1>2. CASE Renew(q)
  <2>1. CASE r = q
    BY <1>2, <2>1, SameLayout DEF Renew, ground, Orphan, Guarded
  <2>2. CASE r # q
    <3>1. Group(r) \cap Group(q) = {}
      BY <2>2 DEF Tidy, Disjoint
    <3>2. /\ UNCHANGED <<layout, watch, loop>>
          /\ batch' = batch \ Entries(q) /\ read' = read \ Entries(q)
          /\ r \in processed' \cup gated' => r \in processed \cup gated
          /\ detected' \subseteq detected
          /\ r \in registry => r \in registry' /\ Group(r) \cap listening \subseteq listening'
      BY <1>2, <2>2, <3>1 DEF Renew, ground
    <3>3. \A e : e[1] \in Group(r) => e \notin Entries(q)
      BY <3>1 DEF Entries
    <3>4. Group(r) \cap Waiting \subseteq Waiting'
      BY <3>2, <3>3 DEF Waiting
    <3> QED
      BY <3>2, <3>4, StaysOwned DEF watch, Live
  <2> QED
    BY <2>1, <2>2
<1> QED
  BY <1>1, <1>2 DEF Forsaken

\* no focus and no cooldown
LEMMA UserReleases ==
    ASSUME Tidy, NEW i \in Inputs, Focus(i) \/ CooldownOver(i), ~Forsaken, NEW r \in Reps
    PROVE  Orphan(r)' => Orphan(r)
<1>1. CASE CooldownOver(i)
  <2>1. /\ UNCHANGED <<layout, detected, processed, gated, registry, listening, watch>>
        /\ Waiting' = Waiting
    BY <1>1 DEF CooldownOver, Waiting, queues, ground
  <2> QED
    BY <2>1, StaysOwned DEF watch, Live
<1>2. CASE Focus(i)
  <2> PICK q \in Reps : q = Rep(i)
    BY Grouped DEF Tidy, Typed, TypeOK
  <2>1. /\ UNCHANGED <<layout, detected, processed, gated, registry>> /\ Waiting' = Waiting
        /\ listening' = listening \ {i} /\ sessions' = sessions /\ ~Unserved(q)
    BY <1>2 DEF Focus, Forsaken, Waiting, queues, ground
  <2>2. CASE i \in listening /\ q \in gated
    <3>1. UNCHANGED watch /\ Owned(q)'
      BY <1>2, <2>1, <2>2, Serves DEF Focus, Tidy
    <3>2. r # q => i \notin Group(r)
      BY DEF Tidy, Disjoint
    <3> QED
      BY <2>1, <3>1, <3>2, StaysOwned DEF watch, Live, Orphan
  <2>3. CASE ~(i \in listening /\ q \in gated)
    <3>1. UNCHANGED watch
      BY <1>2, <2>3 DEF Focus
    <3>2. r \in registry => Group(r) \cap listening \subseteq listening'
      BY <2>1, <2>3 DEF Tidy, Disjoint
    <3> QED
      BY <2>1, <3>1, <3>2, StaysOwned DEF watch, Live
  <2> QED
    BY <2>2, <2>3
<1> QED
  BY <1>1, <1>2

\* and no message or setting.
LEMMA BrowserReleases ==
    ASSUME RateLimitOver \/ Turn \/ UrlChanges \/ SetLevel \/ SetRules \/ SetSms \/ Rescan,
           NEW r \in Reps
    PROVE  Orphan(r)' => Orphan(r)
<1>1. /\ UNCHANGED <<layout, detected, gated, registry, listening, session>>
      /\ processed' \subseteq processed /\ Waiting' = Waiting
  BY DEF RateLimitOver, Turn, UrlChanges, SetLevel, SetRules, SetSms, Rescan, env, ground,
         guards, queues, watch, Waiting
<1> QED
  BY <1>1, StaysOwned DEF Live

\* Where no two groups share an input, no step takes a detected field from
\* those who would release it, but for the ways in which the code forsakes
\* one: a session that fills its code, times out, is canceled or is refused
\* lets go of all the guards of its field, of no other one's, and nothing puts
\* one back for good (cleanupFocusGate).
THEOREM LetsGo == Spec /\ Disjoint => GuardsReleased
<1>1. Init /\ Disjoint => Tidy
  BY TypedInit DEF Tidy, Init
<1>2. Tidy /\ [Next]_vars => [\A r \in Reps : Orphan(r)' => Orphan(r) \/ Forsaken]_vars
  <2> SUFFICES ASSUME Tidy, Next, ~Forsaken, NEW r \in Reps
               PROVE  Orphan(r)' => Orphan(r)
    BY DEF Forsaken
  <2> QED
    BY DetectorReleases, SessionReleases, PageReleases, UserReleases, BrowserReleases DEF Next
<1> QED
  BY <1>1, <1>2, TidyStep, PTL DEF Spec, GuardsReleased

-----------------------------------------------------------------------------
(***************************************************************************)
(* One session for a code.                                                 *)
(***************************************************************************)
\* No input climbs beyond its containers.
LEMMA ReachWithin ==
    ASSUME NEW in \in InputRecord
    PROVE  Len(in.path) \in Nat /\ Reach(in) \subseteq 1 .. Len(in.path)
<1>1. Len(in.path) \in Nat
  BY DEF InputRecord
<1>2. \A b \in Nat : Min({8, b}) \in {8, b} /\ Min({8, b}) <= b
  <2>1. \A a, b \in Nat : {a, b} \in SUBSET Nat /\ {a, b} # {}
    OBVIOUS
  <2>2. \A a, b \in Nat : Min({a, b}) \in {a, b} /\ Min({a, b}) <= b
    BY <2>1, Smallest
  <2> QED
    BY <2>2
<1>3. Min({8, Len(in.path)}) \in Nat /\ Min({8, Len(in.path)}) <= Len(in.path)
  BY <1>1, <1>2
<1> QED
  BY <1>1, <1>3 DEF Reach

\* A group is one of the coherent sets on the way up, with the input in it.
LEMMA GroupIsCoherent ==
    ASSUME NEW n \in DOMAIN Layout, NEW i \in Places(Layout[n]), SplitGroup(Layout[n], i) # {}
    PROVE  i \in SplitGroup(Layout[n], i) /\ Coherent(Layout[n], SplitGroup(Layout[n], i))
<1> DEFINE L == Layout[n]
           at(d) == Similar(L, i, L[i].path[d])
           levels == {d \in Reach(L[i]) : Considered(L, at(d)) /\ Coherent(L, at(d))}
<1>1. L[i] \in InputRecord
  BY AgentAssumption DEF Places
<1>2. Len(L[i].path) \in Nat /\ Reach(L[i]) \subseteq 1 .. Len(L[i].path)
  BY <1>1, ReachWithin
<1>4. levels # {} /\ SplitGroup(L, i) = at(Min(levels))
  BY DEF SplitGroup
<1>5. levels \in SUBSET Nat
  BY <1>2
<1>6. Min(levels) \in levels
  <2> HIDE DEF levels
  <2> QED
    BY <1>4, <1>5, Smallest
<1>7. Min(levels) \in 1 .. Len(L[i].path)
  BY <1>2, <1>6
<1>8. i \in at(Min(levels))
  <2> HIDE DEF levels
  <2>d. L[i].path \in Seq(STRING) /\ DOMAIN L[i].path = 1 .. Len(L[i].path)
    BY <1>1 DEF InputRecord
  <2>1. Holds(L[i].path[Min(levels)], L[i])
    BY <1>7, <2>d DEF Holds
  <2> QED
    BY <2>1 DEF Similar, Pairs
<1> QED
  BY <1>4, <1>6, <1>8

\* The cells of a group take as many characters as a session on it asks for.
LEMMA AsManyAsCells ==
    ASSUME NEW n \in DOMAIN Layout, NEW r \in Places(Layout[n]), RepOf[<<n, r>>] = r,
           Cardinality(GroupOf[<<n, r>>]) > 1,
           ~(Layout[n][r].max > 1 /\ SameMax(Layout[n], GroupOf[<<n, r>>]))
    PROVE  ExpectedLength(Layout[n], r) = Cardinality(GroupOf[<<n, r>>])
<1> DEFINE L == Layout[n]
<1>1. GroupOf[<<n, r>>] = Members(L, r) /\ Min(Members(L, r)) = r
  BY OwnGroup DEF Representative
<1>2. CASE L[r].max > 1
  <2>1. SplitGroup(L, r) # {}
    BY <1>1, <1>2 DEF Members, SameMax
  <2>2. Members(L, r) = SplitGroup(L, r) /\ Coherent(L, SplitGroup(L, r))
    BY <2>1, GroupIsCoherent DEF Members
  <2>3. ~SameMax(L, SplitGroup(L, r)) /\ Min(SplitGroup(L, r)) = r
    BY <1>1, <1>2, <2>2
  <2>4. L[r].max = Cardinality(Members(L, r))
    BY <2>2, <2>3 DEF Coherent, Equal, Wrapped, Led
  <2> QED
    BY <1>1, <1>2, <2>4 DEF ExpectedLength
<1>3. CASE ~(L[r].max > 1)
  BY <1>1, <1>3 DEF ExpectedLength
<1> QED
  BY <1>2, <1>3

\* Where no two groups share an input, no code has two sessions, nor a field
\* of it that is guarded for another one, and the session on a group asks for
\* a code of its cells (detectSplitInputGroup, deriveExpectedShape).
THEOREM OneSession == Spec /\ Disjoint => []OnePerCode
<1>1. Tidy => OnePerCode
  <2> SUFFICES ASSUME Tidy, NEW r \in Taken
               PROVE  /\ \A q \in Taken : Apart(r, q)
                      /\ Split(r) /\ ~LongCells(r) =>
                            ExpectedLength(Layout[layout], r) = Cardinality(Group(r))
    BY DEF OnePerCode
  <2>1. Taken \subseteq Reps
    <3>1. \A s \in Sessions : Live(s) => session[s].rep \in Reps
      BY SessionType DEF Tidy, Live, Handling, Sound
    <3> QED
      BY <3>1 DEF Taken, Tidy, Typed, TypeOK
  <2>2. \A q \in Taken : Apart(r, q)
    BY <2>1 DEF Apart, Tidy, Disjoint
  <2>3. layout \in DOMAIN Layout /\ r \in Places(Layout[layout]) /\ RepOf[<<layout, r>>] = r
    BY <2>1, InOwnGroup DEF Tidy, Typed, TypeOK, Inputs, Rep
  <2> QED
    BY <2>2, <2>3, AsManyAsCells DEF Split, LongCells, Group
<1>2. Init /\ Disjoint => Tidy
  BY TypedInit DEF Tidy, Init
<1> QED
  BY <1>1, <1>2, TidyStep, PTL DEF Spec

-----------------------------------------------------------------------------
(***************************************************************************)
(* Where groups do not overlap.  Each input climbs to a group by itself;   *)
(* cells side by side come to the same one.                                *)
(***************************************************************************)
\* Of the leaders of a page all take as many characters.
OneLength(L) ==
    \A k \in Places(L) : \A m \in Places(L) :
        IsLeader(L[k]) /\ IsLeader(L[m]) => L[k].max = L[m].max

\* Two inputs have the same containers, or each has a wrapper besides.
Wraps(L, k) == L[k].path[1] \notin Stops /\ {m \in Places(L) : Holds(L[k].path[1], L[m])} = {k}
SideBySide(L, i, j) ==
    \/ L[j].path = L[i].path
    \/ /\ Wraps(L, i) /\ Wraps(L, j) /\ Len(L[j].path) = Len(L[i].path)
       /\ \A d \in 2 .. Len(L[i].path) : L[j].path[d] = L[i].path[d]

Even ==
    LET L == Layout[layout]
    IN  \A i \in Inputs : \A j \in SplitGroup(L, i) :
            /\ SideBySide(L, i, j) /\ ~HardHidden(L[i])
            /\ L[j].max = L[i].max \/ OneLength(L)

\* What is similar to an input in a wrapper of its own is that input.
LEMMA WrapperHoldsOne ==
    ASSUME NEW L, NEW k \in Places(L), Wraps(L, k)
    PROVE  ~Coherent(L, Similar(L, k, L[k].path[1]))
<1>1. Similar(L, k, L[k].path[1]) = {k}
  BY DEF Wraps, Similar, Pairs
<1>2. Cardinality({k}) = 1
  BY FS_Singleton
<1> QED
  BY <1>1, <1>2, GroupAssumption DEF Coherent

\* Of two cells side by side, each finds similar what the other does, at every
\* level where there may be a group.
LEMMA CellsClimbAlike ==
    ASSUME NEW n \in DOMAIN Layout, NEW i \in Places(Layout[n]), NEW j \in SplitGroup(Layout[n], i),
           SideBySide(Layout[n], i, j), ~HardHidden(Layout[n][i]),
           Layout[n][j].max = Layout[n][i].max \/ OneLength(Layout[n])
    PROVE  SplitGroup(Layout[n], j) = SplitGroup(Layout[n], i)
<1> DEFINE L == Layout[n]
           at(k, d) == Similar(L, k, L[k].path[d])
           levels(k) == {d \in Reach(L[k]) : Considered(L, at(k, d)) /\ Coherent(L, at(k, d))}
<1>0. \A k \in Places(L) : L[k] \in InputRecord
  BY AgentAssumption DEF Places
<1>1. SplitGroup(L, i) # {} /\ ~(L[i].max > MaxGroup) /\ ~Suppressed(L[i]) /\ levels(i) # {}
  BY DEF SplitGroup
<1>2. PICK c : j \in Similar(L, i, c)
  BY DEF SplitGroup
<1>3. /\ j \in Places(L) /\ L[j].type = L[i].type /\ Pairs(L[i], L[j])
      /\ ~HardHidden(L[j]) /\ ~Suppressed(L[j])
  BY <1>1, <1>2 DEF Similar
<1>4. ASSUME NEW k \in Places(L) PROVE Pairs(L[j], L[k]) <=> Pairs(L[i], L[k])
  <2>1. CASE L[j].max = L[i].max
    BY <2>1 DEF Pairs, IsLeader
  <2>2. CASE OneLength(L) /\ L[j].max # L[i].max
    <3>1. L[i].max \in Nat /\ L[j].max \in Nat /\ L[k].max \in Nat
      BY <1>0, <1>3 DEF InputRecord
    <3>2. ~(1 \in MinGroup .. MaxGroup)
      BY GroupAssumption
    <3>3. \/ IsLeader(L[i]) /\ L[j].max = 1
          \/ L[i].max = 1 /\ IsLeader(L[j])
      BY <1>3, <2>2 DEF Pairs
    <3> QED
      BY <1>3, <2>2, <3>1, <3>2, <3>3 DEF Pairs, IsLeader, OneLength
  <2> QED
    BY <2>1, <2>2
<1>5. \A d : Similar(L, j, d) = Similar(L, i, d)
  BY <1>1, <1>3, <1>4 DEF Similar
<1>6. /\ Reach(L[i]) \subseteq 1 .. Len(L[i].path) /\ Len(L[i].path) \in Nat
      /\ Reach(L[j]) \subseteq 1 .. Len(L[j].path)
  BY <1>0, <1>3, ReachWithin
<1>7. Reach(L[j]) = Reach(L[i]) /\ \A d \in levels(i) \cup levels(j) : at(j, d) = at(i, d)
  <2>1. CASE L[j].path = L[i].path
    BY <1>5, <2>1 DEF Reach
  <2>2. CASE L[j].path # L[i].path
    <3>1. /\ Wraps(L, i) /\ Wraps(L, j) /\ Len(L[j].path) = Len(L[i].path)
          /\ \A d \in 2 .. Len(L[i].path) : L[j].path[d] = L[i].path[d]
      BY <2>2 DEF SideBySide
    <3>2. 1 \notin levels(i) /\ 1 \notin levels(j)
      BY <1>3, <3>1, WrapperHoldsOne
    <3>3. \A d \in 1 .. Len(L[i].path) : L[j].path[d] \in Stops <=> L[i].path[d] \in Stops
      BY <3>1 DEF Wraps
    <3>4. Reach(L[j]) = Reach(L[i])
      <4>1. \A in : Reach(in) = {d \in 1 .. Min({8, Len(in.path)}) :
                                    \A e \in 1 .. d - 1 : in.path[e] \notin Stops}
        BY DEF Reach
      <4>2. \A d \in Reach(L[i]) \cup Reach(L[j]) : \A e \in 1 .. d - 1 : e \in 1 .. Len(L[i].path)
        BY <1>6, <3>1
      <4>3. \A d \in Reach(L[i]) \cup Reach(L[j]) : \A e \in 1 .. d - 1 :
                L[j].path[e] \notin Stops /\ L[i].path[e] \notin Stops
        BY <3>3, <4>1, <4>2
      <4> QED
        BY <3>1, <4>1, <4>3
    <3>5. levels(i) \cup levels(j) \subseteq 2 .. Len(L[i].path)
      BY <1>6, <3>1, <3>2
    <3>6. \A d \in 2 .. Len(L[i].path) : at(j, d) = at(i, d)
      BY <1>5, <3>1
    <3> HIDE DEF at, levels
    <3> QED
      BY <3>4, <3>5, <3>6
  <2> QED
    BY <2>1, <2>2
<1>8. levels(j) = levels(i)
  BY <1>7
<1>9. Min(levels(i)) \in levels(i)
  <2>1. levels(i) \in SUBSET Nat
    BY <1>6
  <2> HIDE DEF levels
  <2> QED
    BY <1>1, <2>1, Smallest
<1>10. ~(L[j].max > MaxGroup)
  <2>1. L[j].max \in Nat /\ L[i].max \in Nat /\ MaxGroup \in Nat /\ 1 <= MaxGroup
    BY <1>0, <1>3, GroupAssumption DEF InputRecord, MaxGroup
  <2> QED
    BY <1>1, <1>3, <2>1 DEF Pairs, IsLeader
<1>11. \A k \in {i, j} : SplitGroup(L, k) =
          IF L[k].max > MaxGroup \/ Suppressed(L[k]) \/ levels(k) = {} THEN {}
          ELSE at(k, Min(levels(k)))
  BY DEF SplitGroup
<1>12. at(j, Min(levels(i))) = at(i, Min(levels(i)))
  BY <1>7, <1>9
<1> HIDE DEF at, levels, L
<1> QED
  BY <1>1, <1>3, <1>8, <1>10, <1>11, <1>12 DEF L

\* The cells of a group have the same group.
LEMMA CellsShareTheirGroup ==
    ASSUME layout \in DOMAIN Layout, Even, NEW i \in Inputs, NEW j \in Members(Layout[layout], i)
    PROVE  j \in Inputs /\ Members(Layout[layout], j) = Members(Layout[layout], i)
<1>1. CASE j = i
  BY <1>1
<1>2. CASE j \in SplitGroup(Layout[layout], i)
  <2>1. SplitGroup(Layout[layout], j) = SplitGroup(Layout[layout], i)
    BY <1>2, CellsClimbAlike DEF Even, Inputs
  <2>2. i \in SplitGroup(Layout[layout], i)
    BY <1>2, GroupIsCoherent DEF Inputs
  <2>3. j \in Inputs
    BY <1>2 DEF SplitGroup, Similar, Inputs
  <2> QED
    BY <1>2, <2>1, <2>2, <2>3 DEF Members
<1> QED
  BY <1>1, <1>2 DEF Members

LEMMA EvenIsDisjoint == layout \in DOMAIN Layout /\ Even => Disjoint
<1> SUFFICES ASSUME layout \in DOMAIN Layout, Even, NEW r \in Reps, NEW i \in Group(r)
             PROVE  Rep(i) = r
  BY DEF Disjoint
<1> DEFINE L == Layout[layout]
<1>1. \A k \in Inputs : Group(k) = Members(L, k) /\ Rep(k) = Min(Members(L, k))
  BY OwnGroup DEF Inputs, Group, Rep, Representative
<1>2. PICK k \in Inputs : r = Rep(k)
  BY Tabled DEF RepsOf, Reps, Inputs, Rep
<1>3. Min(Members(L, k)) \in Members(L, k)
  <2>1. Members(L, k) \subseteq Inputs /\ Members(L, k) # {}
    BY CellsShareTheirGroup DEF Members
  <2>2. Inputs \subseteq Nat
    BY AgentAssumption DEF Inputs, Places
  <2> QED
    BY <2>1, <2>2, Smallest
<1>4. r \in Inputs /\ Members(L, r) = Members(L, k)
  BY <1>1, <1>2, <1>3, CellsShareTheirGroup
<1>5. i \in Inputs /\ Members(L, i) = Members(L, r)
  BY <1>1, <1>4, CellsShareTheirGroup
<1> QED
  BY <1>1, <1>2, <1>4, <1>5

\* On a page whose groups are of displayed inputs side by side, whose leaders
\* take equally much, whoever of a group is asked finds the same group: no code
\* has two sessions and no guard is left behind but as above, without an
\* assumption on the groups themselves (getSimilarSiblings, isCoherentGroup).
THEOREM EvenPages == Spec /\ Even => []OnePerCode /\ GuardsReleased
<1>1. Init /\ Even => Disjoint
  BY TypedInit, EvenIsDisjoint DEF Typed, TypeOK
<1> QED
  BY <1>1, OneSession, LetsGo, PTL DEF Spec

-----------------------------------------------------------------------------
(***************************************************************************)
(* The cells of a group and the input behind them.                         *)
(***************************************************************************)
\* What the page does not display breaks up no group that it displays.
Firm == \A D \in SUBSET Reps : \A r \in D :
    Split(r) => SplitGroup(Displayed(<<layout, D>>), r) # {}

\* On a firm page, isShadowReplacement is true of the input behind the cells.
LEMMA ShadowGivesWay ==
    ASSUME Typed, Firm, NEW b, NEW r, Behind(b, r)
    PROVE  <<b, r>> \in Replaces[<<layout, OnDisplay>>]
<1> DEFINE d == <<layout, OnDisplay>>
           L == Displayed(d)
<1>1. OnDisplay \in SUBSET Reps /\ layout \in DOMAIN Layout
  BY DEF OnDisplay, Typed, TypeOK
<1>2. b \in Reps /\ r \in Reps /\ b \in OnDisplay /\ r \in OnDisplay
  BY <1>1 DEF Behind
<1>3. b \in Places(Layout[layout]) /\ RepOf[<<layout, b>>] = b /\ r \in Group(r)
  <2>1. b \in Inputs /\ r \in Inputs
    BY <1>1, <1>2, Grouped
  <2>2. <<layout, b>> \in Spots /\ \E i \in Inputs : b = Rep(i)
    BY <1>1, <1>2, <2>1, Tabled DEF Spots, Inputs, RepsOf, Reps, Rep
  <2>3. PICK i \in Inputs : b = RepOf[<<layout, i>>]
    BY <2>2 DEF Rep
  <2>4. <<layout, i>> \in Spots
    BY <1>1 DEF Spots, Inputs
  <2> QED
    BY <1>1, <2>1, <2>3, <2>4, OwnGroup, AgentAssumption DEF Inputs, Group
<1>4. L[b] = Layout[layout][b]
  BY <1>2, <1>3 DEF Displayed
<1>5. b # r /\ Layout[layout][b].seen = "tiny"
  BY <1>3 DEF Behind
<1>6. Doubtful(L[b]) /\ SplitGroup(L, b) = {}
  BY <1>4, <1>5 DEF Doubtful, Suppressed, SplitGroup
<1>7. SplitGroup(L, r) # {}
  BY <1>1, <1>2 DEF Firm, Behind
<1>8. d \in Displays
  BY <1>1 DEF Displays, Reps
<1>9. Replaces[d] = {p \in Reps \X Reps : GivesWay(L, p[1], p[2])}
  BY <1>8, Tabled DEF Replaces, Reps
<1> HIDE DEF L
<1> QED
  BY <1>2, <1>5, <1>6, <1>7, <1>9 DEF GivesWay

\* After the cells are handled the watch is not on the input behind them.
LEMMA HandleWins ==
    ASSUME Typed, Firm, UNCHANGED <<layout, page, value>>, NEW r \in Reps, Handle(r)
    PROVE  Filled(r)' \/ active' = None \/ ~Behind(session'[active'].rep, r)
<1>1. ~Behind(r, r)
  <2>1. r \in Inputs /\ Inputs = Places(Layout[layout]) /\ layout \in DOMAIN Layout
    BY Grouped DEF Inputs, Typed, TypeOK
  <2> QED
    BY <2>1, OwnGroup DEF Behind, Group
<1>2. CASE Create(r, Stopped(active))
  <2>1. sessions + 1 \in Sessions /\ DOMAIN Stopped(active) = Sessions
    <3>1. sessions + 1 \in Sessions
      BY <1>2, AgentAssumption DEF Create, Sessions, Typed, TypeOK
    <3>2. Stopped(active) \in [Sessions -> Records]
      BY EndedType DEF Stopped, Stoppable, Typed, TypeOK
    <3> QED
      BY <3>1, <3>2
  <2>2. session'[active'].rep = r
    BY <1>2, <2>1 DEF Create, Bare
  <2> QED
    BY <1>1, <2>2
<1>3. CASE Filled(r)
  BY <1>3, SameLayout DEF Handle, MarksAfter, Filled
<1>4. CASE (Watched(r) \/ Limited(r)) /\ UNCHANGED watch
  <2>1. session' = session /\ active' = active
    BY <1>4 DEF watch
  <2>2. CASE Watched(r)
    BY <1>1, <2>1, <2>2 DEF Watched
  <2>3. CASE Limited(r)
    <3> SUFFICES ASSUME Behind(session[active].rep, r) PROVE FALSE
      BY <2>1
    <3>1. page[r] # None
      BY DEF Behind, OnDisplay, Writable
    <3> QED
      BY <2>3, <3>1, ShadowGivesWay DEF Limited
  <2> QED
    BY <1>4, <2>2, <2>3
<1> QED
  BY <1>2, <1>3, <1>4 DEF Handle

\* Only what is handled is processed without the mark of the gate.
LEMMA ProcessedBy ==
    ASSUME Typed, Next, NEW r \in processed', r \notin processed \cup gated'
    PROVE  /\ UNCHANGED <<layout, page, value>>
           /\ r \in Reps
           /\ Handle(r) \/ (Filled(r) /\ UNCHANGED filled)
<1>1. CASE Detector
  <2>1. UNCHANGED <<layout, page, value>>
    BY <1>1 DEF Detector, Scan, Process, TakeBatch, ReadSettings, HandleEntry, env, ground
  <2>2. ASSUME NEW i \in Inputs, NEW was, Route(i, was)
        PROVE  r \in Reps /\ Handle(r)
    BY <2>2, Grouped DEF Route, Gate, Typed, TypeOK
  <2>3. ASSUME Scan PROVE r \in Reps /\ Handle(r)
    BY <2>2, <2>3, Found DEF Scan, guards, Typed
  <2>4. ASSUME NEW e \in loop, HandleEntry(e)
        PROVE  r \in Reps /\ (Handle(r) \/ (Filled(r) /\ UNCHANGED filled))
    BY <2>2, <2>4, Grouped DEF HandleEntry, Typed, TypeOK
  <2>5. UNCHANGED processed => FALSE
    OBVIOUS
  <2> QED
    BY <1>1, <2>1, <2>3, <2>4, <2>5 DEF Detector, Process, TakeBatch, ReadSettings, guards
<1>2. ASSUME NEW s \in Sessions, SessionStep(s) PROVE FALSE
  BY <1>2 DEF SessionStep, Veto, Connect, ConnectFails, GiveUp, Disconnect, CodeFound, Decide,
              Fill, Submit, Handled, Release, guards
<1>3. CASE RateLimitOver \/ Turn \/ UrlChanges \/ SetLevel \/ SetRules \/ SetSms \/ Rescan
  BY <1>3 DEF RateLimitOver, Turn, UrlChanges, SetLevel, SetRules, SetSms, Rescan, guards
<1>4. ASSUME NEW q \in Reps, Change(q) \/ Remove(q) \/ Renew(q) \/ Edit(q) PROVE FALSE
  BY <1>4 DEF Change, Remove, Renew, Edit, guards
<1>5. ASSUME NEW i \in Inputs, Focus(i) \/ CooldownOver(i) PROVE FALSE
  BY <1>5 DEF Focus, CooldownOver
<1> QED
  BY <1>1, <1>2, <1>3, <1>4, <1>5 DEF Next

\* Where hidden inputs break up no group, the watch moves from the input
\* behind the cells to the cells when those are handled, however young it is
\* (startWatch, isShadowReplacement).
THEOREM CellsWin == Spec /\ Firm => GroupWins
<1>1. Typed /\ Firm /\ [Next]_vars => Typed' /\ Firm'
  <2> SUFFICES ASSUME Typed, Firm, [Next]_vars PROVE Firm'
    BY TypedStep
  <2> QED
    BY LayoutStays, SameLayout DEF Firm, Split, Displayed
<1>2. Typed /\ Firm /\ [Next]_vars =>
        [\A r \in processed' \ (processed \cup gated') :
            \/ Filled(r)' \/ active' = None
            \/ ~Behind(session'[active'].rep, r)]_vars
  <2> SUFFICES ASSUME Typed, Firm, Next, NEW r \in processed', r \notin processed \cup gated'
               PROVE  Filled(r)' \/ active' = None \/ ~Behind(session'[active'].rep, r)
    OBVIOUS
  <2>1. UNCHANGED <<layout, page, value>> /\ r \in Reps
    BY ProcessedBy
  <2>2. CASE Handle(r)
    BY <2>1, <2>2, HandleWins
  <2>3. CASE Filled(r) /\ UNCHANGED filled
    BY <2>1, <2>3, SameLayout DEF Filled
  <2> QED
    BY <2>2, <2>3, ProcessedBy
<1> QED
  BY <1>1, <1>2, TypedInit, PTL DEF Spec, GroupWins

\* No input is hidden, and one that is suppressed is no cell of a group.
Plain ==
    LET L == Layout[layout]
    IN  \A k \in Inputs :
            /\ ~HardHidden(L[k])
            /\ Suppressed(L[k]) =>
                  \A i \in Inputs : SplitGroup(L, i) # {} =>
                      L[k].type # L[i].type \/ ~Pairs(L[i], L[k])

\* Two pages of the same inputs; on the first, some have lost their boxes.
SamePage(M, L) ==
    /\ Places(M) = Places(L)
    /\ \A k \in Places(L) :
          /\ M[k].type = L[k].type /\ M[k].max = L[k].max /\ M[k].path = L[k].path
          /\ M[k].name = L[k].name /\ M[k].cell = L[k].cell /\ M[k].otp = L[k].otp
          /\ M[k].seen \in {L[k].seen, "gone"}

LEMMA DisplayedKeeps ==
    ASSUME NEW n \in DOMAIN Layout, NEW D
    PROVE  SamePage(Displayed(<<n, D>>), Layout[n])
<1> DEFINE L == Layout[n]
           M == Displayed(<<n, D>>)
<1>1. L \in Seq(InputRecord) /\ Len(L) \in Nat
  BY AgentAssumption
<1>2. M = [k \in 1 .. Len(L) |-> IF RepOf[<<n, k>>] \in D THEN L[k]
                                ELSE [L[k] EXCEPT !.seen = "gone"]]
  BY DEF Displayed, Places
<1>3. \A k \in 1 .. Len(L) : L[k] \in InputRecord
  BY <1>1
<1>4. \A k \in 1 .. Len(L) :
          M[k] = IF RepOf[<<n, k>>] \in D THEN L[k] ELSE [L[k] EXCEPT !.seen = "gone"]
  BY <1>2
<1>5. \A k \in 1 .. Len(L) : M[k] \in InputRecord
  <2>1. \A in \in InputRecord : [in EXCEPT !.seen = "gone"] \in InputRecord
    BY DEF InputRecord
  <2> HIDE DEF M
  <2> QED
    BY <1>3, <1>4, <2>1
<1>6. M \in Seq(InputRecord) /\ Len(M) = Len(L)
  BY <1>1, <1>2, <1>5
<1> HIDE DEF M, L
<1>7. SamePage(M, L)
  BY <1>3, <1>4, <1>6 DEF Places, InputRecord, SamePage
<1> QED
  BY <1>7 DEF M, L

\* Where nothing is hidden, whether inputs are the cells of a code does not
\* depend on what has a box.
LEMMA CoherentStays ==
    ASSUME NEW L, NEW M, SamePage(M, L), \A k \in Places(L) : ~HardHidden(L[k]),
           NEW S \in SUBSET Places(L), S # {}
    PROVE  (Considered(M, S) <=> Considered(L, S)) /\ (Coherent(M, S) <=> Coherent(L, S))
<1> DEFINE first == Min(S)
<1>1. /\ Places(M) = Places(L)
      /\ \A k \in Places(L) :
            /\ M[k].type = L[k].type /\ M[k].max = L[k].max /\ M[k].path = L[k].path
            /\ M[k].name = L[k].name /\ M[k].cell = L[k].cell /\ M[k].otp = L[k].otp
            /\ ~HardHidden(M[k]) /\ ~HardHidden(L[k])
  BY DEF HardHidden, SamePage
<1>2. first \in S
  <2>1. Places(L) \subseteq Nat
    BY DEF Places
  <2> QED
    BY <2>1, Smallest
<1> HIDE DEF first
<1>3. \A c, k : k \in Places(L) => (Holds(c, M[k]) <=> Holds(c, L[k]))
  BY <1>1 DEF Holds
<1>4. \A m : CommonAncestor(M, S, m) = CommonAncestor(L, S, m)
  <2> SUFFICES ASSUME NEW m PROVE CommonAncestor(M, S, m) = CommonAncestor(L, S, m)
    OBVIOUS
  <2>1. M[first].path = L[first].path
    BY <1>1, <1>2
  <2>2. \A d : (\A i \in S : Holds(M[first].path[d], M[i])) <=>
               (\A i \in S : Holds(L[first].path[d], L[i]))
    BY <1>3, <2>1
  <2> QED
    BY <2>1, <2>2 DEF CommonAncestor, first
<1>5. Evidence(M, S) <=> Evidence(L, S)
  BY <1>1, <1>4 DEF Evidence
<1>6. Sequential(M, S) <=> Sequential(L, S)
  BY <1>1, <1>2 DEF Sequential, first
<1>7. ShareAncestors(M, S, 8) <=> ShareAncestors(L, S, 8)
  <2>1. \A k \in S : Ancestors(M[k], 8) = Ancestors(L[k], 8)
    BY <1>1 DEF Ancestors
  <2> QED
    BY <1>2, <2>1 DEF ShareAncestors, first
<1>8. (SameMax(M, S) <=> SameMax(L, S)) /\ (Equal(M, S) <=> Equal(L, S))
  BY <1>1, <1>2 DEF SameMax, Equal, first
<1>9. Wrapped(M, S) <=> Wrapped(L, S)
  BY <1>1, <1>2, <1>5, <1>6, <1>8 DEF Wrapped, first
<1>10. Led(M, S) <=> Led(L, S)
  <2>1. \A c : {i \in Places(M) : Holds(c, M[i]) /\ ~HardHidden(M[i])} =
               {i \in Places(L) : Holds(c, L[i]) /\ ~HardHidden(L[i])}
    BY <1>1, <1>3
  <2>2. /\ IsLeader(M[first]) <=> IsLeader(L[first])
        /\ \A i \in S : M[i].max = L[i].max
    BY <1>1, <1>2 DEF IsLeader
  <2> QED
    BY <1>2, <1>4, <1>5, <1>6, <2>1, <2>2 DEF Led, first
<1>11. \A i, j \in S : M[i].type = M[j].type <=> L[i].type = L[j].type
  BY <1>1
<1> QED
  BY <1>5, <1>7, <1>8, <1>9, <1>10, <1>11 DEF Considered, Coherent

\* So an input keeps its group, unless a suppressed one is like it.
LEMMA GroupStays ==
    ASSUME NEW L, NEW M, SamePage(M, L), NEW r \in Places(L), L[r] \in InputRecord,
           \A k \in Places(L) :
               /\ ~HardHidden(L[k])
               /\ Suppressed(L[k]) => L[k].type # L[r].type \/ ~Pairs(L[r], L[k])
    PROVE  SplitGroup(M, r) = SplitGroup(L, r)
<1>1. /\ Places(M) = Places(L)
      /\ \A k \in Places(L) :
            /\ M[k].type = L[k].type /\ M[k].max = L[k].max /\ M[k].path = L[k].path
            /\ M[k].seen \in {L[k].seen, "gone"}
  BY DEF SamePage
<1>2. \A k \in Places(L) :
          /\ Pairs(M[r], M[k]) <=> Pairs(L[r], L[k])
          /\ \A c : Holds(c, M[k]) <=> Holds(c, L[k])
  BY <1>1 DEF Pairs, IsLeader, Holds
<1>3. \A k \in Places(L) : L[k].type = L[r].type /\ Pairs(L[r], L[k]) =>
          ~HardHidden(M[k]) /\ ~Suppressed(M[k]) /\ ~HardHidden(L[k]) /\ ~Suppressed(L[k])
  BY <1>1 DEF HardHidden, Suppressed
<1>4. \A c : Similar(M, r, c) = Similar(L, r, c)
  BY <1>1, <1>2, <1>3 DEF Similar
<1> DEFINE at(d) == Similar(L, r, L[r].path[d])
           levels == {d \in Reach(L[r]) : Considered(L, at(d)) /\ Coherent(L, at(d))}
<1>5. Reach(M[r]) = Reach(L[r])
  BY <1>1 DEF Reach
<1>6. \A d \in Reach(L[r]) :
          (Considered(M, at(d)) <=> Considered(L, at(d))) /\
          (Coherent(M, at(d)) <=> Coherent(L, at(d)))
  <2> SUFFICES ASSUME NEW d \in Reach(L[r])
               PROVE  (Considered(M, at(d)) <=> Considered(L, at(d))) /\
                      (Coherent(M, at(d)) <=> Coherent(L, at(d)))
    OBVIOUS
  <2>1. at(d) \in SUBSET Places(L) /\ r \in at(d)
    BY ReachWithin DEF Similar, Holds, Pairs
  <2> QED
    BY <2>1, CoherentStays
<1>7. levels = {d \in Reach(M[r]) : Considered(M, Similar(M, r, M[r].path[d])) /\
                                    Coherent(M, Similar(M, r, M[r].path[d]))}
  BY <1>1, <1>4, <1>5, <1>6
<1>8. Suppressed(M[r]) <=> Suppressed(L[r])
  BY <1>1, <1>3 DEF Pairs, Suppressed
<1> QED
  BY <1>1, <1>4, <1>7, <1>8 DEF SplitGroup

\* On a plain page nothing breaks up a displayed group.
LEMMA PlainIsFirm == layout \in DOMAIN Layout /\ Plain => Firm
<1> SUFFICES ASSUME layout \in DOMAIN Layout, Plain, NEW D \in SUBSET Reps, NEW r \in D, Split(r)
             PROVE  SplitGroup(Displayed(<<layout, D>>), r) # {}
  BY DEF Firm
<1> DEFINE L == Layout[layout]
           M == Displayed(<<layout, D>>)
<1>1. r \in Places(L) /\ Inputs = Places(L) /\ Group(r) = {r} \cup SplitGroup(L, r)
  BY GroupsOf, OwnGroup, Grouped DEF Reps, Inputs, Group, Members
<1>2. SplitGroup(L, r) # {}
  <2>1. Cardinality(Group(r)) # 1 /\ Cardinality({r}) = 1
    BY FS_Singleton DEF Split
  <2> QED
    BY <1>1, <2>1
<1>3. SamePage(M, L) /\ L[r] \in InputRecord
  BY <1>1, DisplayedKeeps, AgentAssumption DEF Places
<1> HIDE DEF M
<1>4. SplitGroup(M, r) = SplitGroup(L, r)
  BY <1>1, <1>2, <1>3, GroupStays DEF Plain
<1> QED
  BY <1>2, <1>4 DEF M

\* There GroupWins follows from looks alone (startWatch, isShadowReplacement,
\* isVisuallySuppressed).
THEOREM PlainPages == Spec /\ Plain => GroupWins
<1>1. Init /\ Plain => Firm
  BY TypedInit, PlainIsFirm DEF Typed, TypeOK
<1> QED
  BY <1>1, CellsWin, PTL DEF Spec
=============================================================================
