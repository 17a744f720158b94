------------------------- MODULE CodeMatchingProofs -------------------------
(***************************************************************************)
(* Which code is filled in, for every set of domains and labels, every     *)
(* list of codes and every decay of the recency points.                    *)
(*                                                                         *)
(*   BestCode        the best one by sender, shape, age and use            *)
(*   OwnCode         the site's own                                        *)
(*   HasGrounds      collected where the message gives reason to           *)
(*   BestOfMail      the first two for codes that are read out of messages *)
(*                                                                         *)
(* What is collected has grounds because the words of a text stand in      *)
(* their order, which Laid sees to (LaidOut): then what a window shows is  *)
(* never more than 140 characters from a keyword, however many windows     *)
(* were joined (NearKeyword).                                              *)
(***************************************************************************)
EXTENDS MailReading, TLAPS
LOCAL INSTANCE FiniteSetsExt
Order == INSTANCE WellFoundedInduction

\* What a session may collect: any code, or what is read of a message.
Arrivals == Codes \cup UNION {UNION {HitTable[e][n] : n \in Mails} : e \in Expectations}

LEMMA ArrivalsDated == \A c \in Arrivals : c.sender \in Domains /\ c.age \in Ages
<1> SUFFICES ASSUME NEW c \in Arrivals PROVE c.sender \in Domains /\ c.age \in Ages
    OBVIOUS
<1>1. CASE c \in Codes
    BY <1>1, CodesAssumption
<1>2. CASE \E e \in Expectations : \E n \in Mails : c \in HitTable[e][n]
    <2>1. PICK e \in Expectations, n \in Mails : c \in Hits(Opened[n], e)
        BY <1>2 DEF HitTable
    <2>2. c.sender = Opened[n].head.sender /\ c.age = Opened[n].head.age
        BY <2>1 DEF Hits, LinkAsCode, Stored
    <2> QED BY <2>2, LetterAssumption DEF Opened
<1> QED BY <1>1, <1>2 DEF Arrivals

\* Affinity comes in four grades (domain-affinity.ts).
LEMMA AffinityRange ==
    ASSUME NEW p, NEW c
    PROVE  Affinity(p, c) \in {0, 6, 9, 10}
<1> DEFINE x == p.site
           y == c.sender
           alias == IsAliasMatch(x, y)
           overlap == TokenOverlap(x, y, c.subject)
<1>1. CASE x = y
    BY <1>1 DEF Affinity, DomainAffinity
<1>2. CASE x # y /\ alias
    BY <1>2 DEF Affinity, DomainAffinity
<1>3. CASE x # y /\ ~ alias /\ overlap
    BY <1>3 DEF Affinity, DomainAffinity
<1>4. CASE x # y /\ ~ alias /\ ~ overlap
    BY <1>4 DEF Affinity, DomainAffinity
<1> QED BY <1>1, <1>2, <1>3, <1>4

\* A newer code is in the session's window when an older one is: a session
\* polls for no longer than the window lasts (recency-scorer.ts).
LEMMA WindowMonotone ==
    ASSUME NEW p \in Pages, NEW c \in Arrivals, NEW d \in Arrivals,
           c.age <= d.age, InWindow(p, d)
    PROVE  InWindow(p, c)
<1>1. c.age \in Nat /\ d.age \in Nat /\ p.age \in 0 .. 120
    BY ArrivalsDated, CodesAssumption, DecayAssumption DEF Ages
<1> QED BY <1>1 DEF InWindow

\* A better code has more points: no part of the score outweighs the others
\* the wrong way, and the penalty for a used code outweighs its freshness.
LEMMA BetterScores ==
    ASSUME NEW p \in Pages, NEW c \in Arrivals, NEW d \in Arrivals, Better(p, c, d)
    PROVE  Points(p, c) > Points(p, d)
<1> DEFINE ac == Affinity(p, c)
           ad == Affinity(p, d)
           wc == IF InWindow(p, c) THEN 15 ELSE 0
           wd == IF InWindow(p, d) THEN 15 ELSE 0
           fc == IF Fits(p, c) THEN 8 ELSE 0
           fd == IF Fits(p, d) THEN 8 ELSE 0
           uc == UsedPenalty(c)
           ud == UsedPenalty(d)
           rc == Decay[c.age]
           rd == Decay[d.age]
<1>1. ac \in Int /\ ad \in Int /\ ac >= ad
    BY AffinityRange DEF Better
<1>2. /\ rc \in 1 .. 250 /\ rd \in 1 .. 250
      /\ c.age <= d.age => rc >= rd
    BY ArrivalsDated, DecayAssumption
<1>3. /\ wc \in 0 .. 15 /\ wd \in 0 .. 15
      /\ c.age <= d.age => wc >= wd
    BY WindowMonotone
<1>4. fc \in Int /\ fd \in Int /\ fc >= fd
    BY DEF Better
<1>5. uc \in Int /\ ud \in Int
    BY DEF UsedPenalty
<1>6. /\ Points(p, c) = 10 * ac + rc + wc + fc + uc
      /\ Points(p, d) = 10 * ad + rd + wd + fd + ud
    BY DEF Points
<1> HIDE DEF ac, ad, wc, wd, fc, fd, uc, ud, rc, rd
<1>7. CASE c.age <= d.age /\ (c.used => d.used)
                /\ (ac > ad \/ rc > rd \/ (Fits(p, c) /\ ~ Fits(p, d)))
    <2>1. uc >= ud
        BY <1>7 DEF uc, ud, UsedPenalty
    <2>2. (Fits(p, c) /\ ~ Fits(p, d)) => fc > fd
        BY DEF fc, fd
    <2>3. rc >= rd /\ wc >= wd
        BY <1>2, <1>3, <1>7
    <2>4. ac > ad \/ rc > rd \/ fc > fd
        BY <1>7, <2>2
    <2>5. 10 * ac + rc + wc + fc + uc > 10 * ad + rd + wd + fd + ud
        BY <1>1, <1>2, <1>3, <1>4, <1>5, <2>1, <2>3, <2>4, SMT
    <2> QED BY <1>6, <2>5
<1>8. CASE ~ c.used /\ d.used /\ InWindow(p, c)
    <2>1. uc = 0 /\ ud = -250 /\ wc = 15
        BY <1>8 DEF uc, ud, UsedPenalty, wc
    <2>2. 10 * ac >= 10 * ad /\ rc + 250 > rd /\ wc >= wd
        BY <1>1, <1>2, <1>3, <2>1
    <2>3. rc + wc + fc + uc > rd + wd + fd + ud
        BY <1>2, <1>3, <1>4, <2>1, <2>2
    <2>4. 10 * ac + rc + wc + fc + uc > 10 * ad + rd + wd + fd + ud
        BY <1>1, <1>2, <1>3, <1>4, <1>5, <2>2, <2>3
    <2> QED BY <1>6, <2>4
<1> QED BY <1>7, <1>8 DEF Better, ac, ad, rc, rd

-----------------------------------------------------------------------------
\* A session collects codes for its page until one is matched, and none that
\* is eligible has more points than that one.
MatchInv ==
    /\ page \in Pages /\ codes \in Seq(Arrivals)
    /\ \A d \in matched : \E i \in Candidates(page, codes) :
          d = codes[i] /\ Leads(page, codes, i)

LEMMA InitMatch == Init => MatchInv
    BY DEF Init, MatchInv

LEMMA CollectMatch ==
    ASSUME MatchInv, NEW c \in Arrivals, Collect(c)
    PROVE  MatchInv'
<1>1. codes' \in Seq(Arrivals)
    BY DEF Collect, MatchInv
<1> QED BY <1>1 DEF Collect, MatchInv

LEMMA NextMatch == MatchInv /\ [Next]_vars => MatchInv'
<1> SUFFICES ASSUME MatchInv, [Next]_vars PROVE MatchInv'
    OBVIOUS
<1>1. ASSUME NEW c \in Codes, Collect(c) PROVE MatchInv'
    BY <1>1, CollectMatch DEF Arrivals
<1>2. CASE Match
    <2> SUFFICES ASSUME NEW d \in matched'
                 PROVE  \E i \in Candidates(page, codes) : d = codes[i] /\ Leads(page, codes, i)
        BY <1>2 DEF Match, MatchInv, Candidates, Leads, Eligible, Affinity, Points, Fits,
                    ShapeScore, InWindow
    <2>1. d \in FindBest(page, codes)
        BY <1>2 DEF Match
    <2> QED BY <2>1 DEF FindBest
<1>3. CASE UNCHANGED vars
    BY <1>3 DEF vars, MatchInv, Candidates, Leads, Eligible, Affinity, Points, Fits,
                ShapeScore, InWindow
<1> QED BY <1>1, <1>2, <1>3 DEF Next

LEMMA MatchIsBest == MatchInv => BetterWins
<1> SUFFICES ASSUME MatchInv, NEW d \in matched, NEW c \in Collected,
                    Eligible(page, c), Better(page, c, d)
             PROVE  FALSE
    BY DEF BetterWins
<1>1. PICK i \in Candidates(page, codes) : d = codes[i] /\ Leads(page, codes, i)
    BY DEF MatchInv
<1>2. PICK k \in 1 .. Len(codes) : c = codes[k]
    BY DEF Collected
<1>3. k \in Candidates(page, codes)
    BY <1>2 DEF Candidates
<1>4. page \in Pages /\ c \in Arrivals /\ d \in Arrivals
    BY <1>1, <1>2 DEF MatchInv, Candidates
<1>5. Points(page, c) > Points(page, d)
    BY <1>4, BetterScores
<1>6. Points(page, c) < Points(page, d) \/ Points(page, c) = Points(page, d)
    BY <1>1, <1>2, <1>3 DEF Leads
<1>7. \A e \in Arrivals : Points(page, e) \in Int
    <2> SUFFICES ASSUME NEW e \in Arrivals PROVE Points(page, e) \in Int
        OBVIOUS
    <2> DEFINE a == Affinity(page, e)
               r == Decay[e.age]
               w == IF InWindow(page, e) THEN 15 ELSE 0
               f == IF Fits(page, e) THEN 8 ELSE 0
               u == UsedPenalty(e)
    <2>1. a \in Int /\ u \in Int
        BY AffinityRange DEF UsedPenalty
    <2>2. e.age \in Ages
        BY ArrivalsDated
    <2>3. r \in 1 .. 250
        BY <2>2, DecayAssumption
    <2>4. w \in Int /\ f \in Int
        OBVIOUS
    <2>5. Points(page, e) = 10 * a + r + w + f + u
        BY DEF Points
    <2> HIDE DEF a, r, w, f, u
    <2> QED BY <2>1, <2>3, <2>4, <2>5
<1> QED BY <1>4, <1>5, <1>6, <1>7

\* Whatever is filled in, no eligible code the session had collected is better
\* than it (findBestMatchingCode).
THEOREM BestCode == Spec => []BetterWins
<1>1. Spec => []MatchInv
    BY InitMatch, NextMatch, PTL DEF Spec
<1> QED BY <1>1, MatchIsBest, PTL

-----------------------------------------------------------------------------
\* What is filled in was let in by the gate before the matcher and by the one
\* after it (eligibility.ts, session-controller.ts's shouldSuppressMatch).
LetIn == \A c \in matched : Eligible(page, c) /\ ~ Suppressed(page, c)

LEMMA NextLetIn == LetIn /\ [Next]_vars => LetIn'
<1> SUFFICES ASSUME LetIn, [Next]_vars PROVE LetIn'
    OBVIOUS
<1>1. ASSUME matched' = matched, page' = page PROVE LetIn'
    BY <1>1 DEF LetIn, Eligible, Suppressed, Affinity, Strict
<1>2. CASE Match
    <2>1. \A c \in matched' : Eligible(page, c) /\ ~ Suppressed(page, c)
        BY <1>2 DEF Match, FindBest, Candidates
    <2> QED BY <1>2, <2>1 DEF Match, LetIn, Eligible, Suppressed, Affinity, Strict
<1> QED BY <1>1, <1>2 DEF Next, Collect, vars

\* An affinity the autofill gate asks for is a kinship of the domains or a
\* token they share (domain-affinity.ts).
LEMMA AffinityReason ==
    ASSUME NEW site, NEW sender, NEW subject
    PROVE  /\ DomainAffinity(site, sender, subject) >= 6 =>
                \/ site = sender \/ IsAliasMatch(site, sender)
                \/ TokenOverlap(site, sender, subject)
           /\ DomainAffinity(site, sender, subject) >= 9 =>
                site = sender \/ IsAliasMatch(site, sender)
<1> DEFINE alias == IsAliasMatch(site, sender)
           overlap == TokenOverlap(site, sender, subject)
<1>1. ASSUME site # sender, ~ alias, ~ overlap
      PROVE  DomainAffinity(site, sender, subject) = 0
    BY <1>1 DEF DomainAffinity
<1>2. ASSUME site # sender, ~ alias, overlap
      PROVE  DomainAffinity(site, sender, subject) = 6
    BY <1>2 DEF DomainAffinity
<1> HIDE DEF alias, overlap
<1>3. DomainAffinity(site, sender, subject) >= 6 => site = sender \/ alias \/ overlap
    BY <1>1
<1>4. DomainAffinity(site, sender, subject) >= 9 => site = sender \/ alias
    BY <1>1, <1>2
<1> QED BY <1>3, <1>4 DEF alias, overlap

\* Below a public suffix of one label, a token that the sender or the subject
\* shares with all labels of the site but the last is one of the site's name.
LEMMA OverlapNames ==
    ASSUME NEW p \in Pages, NEW c, Suffix[p.site] = 1,
           TokenOverlap(p.site, c.sender, c.subject)
    PROVE  Named(p, c)
<1>1. p.site \in Domains
    BY CodesAssumption
<1>2. Len(Labels[p.site]) \in Nat /\ Len(Labels[p.site]) > 1
    BY <1>1, DomainsAssumption
<1>3. TokensOf(Name(p.site)) = SiteName(p.site)
    BY <1>2 DEF Name, SiteName
<1> QED BY <1>3 DEF TokenOverlap, Named

LEMMA LetInIsOwn == MatchInv /\ LetIn => OwnCodeOnly
<1> SUFFICES ASSUME MatchInv, LetIn, NEW c \in matched, ~ c.text, Suffix[page.site] = 1,
                    ~ Kin(page, c)
             PROVE  Named(page, c) /\ (page.positive \/ page.channels # {"email"})
    BY DEF OwnCodeOnly
<1>1. page \in Pages
    BY DEF MatchInv
<1>2. DomainAffinity(page.site, c.sender, c.subject) >= 6
    BY DEF LetIn, Eligible, Affinity
<1>3. TokenOverlap(page.site, c.sender, c.subject)
    BY <1>2, AffinityReason DEF Kin
<1>4. ~ Strict(page, c)
    BY AffinityReason DEF Strict, Kin
<1>5. page.positive \/ page.channels # {"email"}
    BY <1>4 DEF LetIn, Suppressed
<1> QED BY <1>1, <1>3, <1>5, OverlapNames

\* An emailed code belongs to the page it is filled into: its sender is the
\* site or an alias of it, or the sender or the subject names the site, which
\* is not enough on a page that waits for emails only and showed no sign of
\* one (eligibility.ts, and the strict gate of processPollResult).
THEOREM OwnCode == Spec => []OwnCodeOnly
<1>1. Init => LetIn
    BY DEF Init, LetIn
<1>2. Spec => []MatchInv
    BY InitMatch, NextMatch, PTL DEF Spec
<1>3. Spec => []LetIn
    BY <1>1, NextLetIn, PTL DEF Spec
<1> QED BY <1>2, <1>3, LetInIsOwn, PTL

-----------------------------------------------------------------------------
(***************************************************************************)
(* Grounds.                                                                *)
(***************************************************************************)
\* A set of numbers has a smallest.
LEMMA Smallest ==
    ASSUME NEW S \in SUBSET Nat, S # {}
    PROVE  Min(S) \in S /\ \A y \in S : Min(S) <= y
<1> DEFINE R == {ss \in Nat \X Nat : ss[1] < ss[2]}
<1>1. Order!IsWellFoundedOn(R, Nat)
    BY Order!NatLessThanWellFounded DEF Order!OpToRel
<1>2. \E x \in S : \A y \in S : ~ (<<y, x>> \in R)
    <2> HIDE DEF R
    <2> QED BY <1>1, Order!WFMin
<1> HIDE DEF R
<1>3. PICK x \in S : \A y \in S : ~ (<<y, x>> \in R)
    BY <1>2
<1>4. \A y \in S : x <= y
    <2> SUFFICES ASSUME NEW y \in S PROVE x <= y
        OBVIOUS
    <2>1. x \in Nat /\ y \in Nat /\ ~ (<<y, x>> \in R)
        BY <1>3
    <2>2. y < x => <<y, x>> \in R
        BY <2>1 DEF R
    <2> QED BY <2>1, <2>2
<1> QED BY <1>4 DEF Min

\* One of at most n has a largest.
LEMMA Largest ==
    ASSUME NEW n \in Nat, NEW S \in SUBSET (0 .. n), S # {}
    PROVE  Max(S) \in S /\ \A y \in S : y <= Max(S)
<1> DEFINE T == {n - x : x \in S}
<1>1. T \in SUBSET Nat /\ T # {}
    <2>1. \A x \in S : n - x \in Nat
        OBVIOUS
    <2>2. PICK x \in S : TRUE
        OBVIOUS
    <2>3. n - x \in T
        BY <2>2
    <2> QED BY <2>1, <2>3
<1>2. PICK x \in S : \A y \in S : n - x <= n - y
    <2>1. Min(T) \in T /\ \A t \in T : Min(T) <= t
        BY <1>1, Smallest
    <2> QED BY <2>1
<1>3. \A y \in S : y <= x
    BY <1>2
<1> QED BY <1>3 DEF Max

Records == WordRecord \cup LinkRecord

\* Words that stand one after the other, taken from a part.
Spaced(b) ==
    /\ b \in Seq(Records)
    /\ \A i \in Words(b) : \A k \in Words(b) : i < k => Finish(b, i) < Begin(b, k)
Taken(b, part) ==
    \A i \in Words(b) : \E k \in Words(part) : b[i] = [part[k] EXCEPT !.at = b[i].at]

\* One step of Laid, and the table of all of them.
Added(before, w) ==
    LET start == IF before = <<>> THEN 0 ELSE Size(before) + 1
    IN  IF w.kind = "markup" THEN before ELSE Append(before, [w EXCEPT !.at = start])
Lays(part, n, f) ==
    f = [m \in 0 .. n |-> IF m = 0 THEN <<>> ELSE Added(f[m - 1], part[m])]

LEMMA Placed ==
    ASSUME NEW w \in Records, NEW a \in Nat
    PROVE  /\ [w EXCEPT !.at = a] \in Records /\ [w EXCEPT !.at = a].at = a
           /\ [w EXCEPT !.at = a].width = w.width /\ w.width \in Nat
BY DEF Records, WordRecord, LinkRecord

LEMMA AddedIsSpaced ==
    ASSUME NEW part \in Seq(Records), NEW before, Spaced(before), Taken(before, part),
           NEW k \in Words(part)
    PROVE  Spaced(Added(before, part[k])) /\ Taken(Added(before, part[k]), part)
<1> DEFINE w == part[k]
           start == IF before = <<>> THEN 0 ELSE Size(before) + 1
           new == [w EXCEPT !.at = start]
           b == Append(before, new)
           last == Len(before)
<1>1. w \in Records /\ before \in Seq(Records) /\ last \in Nat
    BY DEF Spaced, Words
<1>2. \A i \in 1 .. last : before[i] \in Records /\ before[i].at \in Nat /\ before[i].width \in Nat
    BY <1>1 DEF Records, WordRecord, LinkRecord
<1>3. start \in Nat /\ \A i \in 1 .. last : Finish(before, i) < start
    <2>1. CASE before = <<>>
        BY <2>1
    <2>2. CASE before # <<>>
        <3>1. last \in 1 .. last
            BY <1>1, <2>2
        <3>2. Size(before) \in Nat
            BY <1>2, <3>1 DEF Size, Finish
        <3>3. \A i \in 1 .. last : Finish(before, i) <= Size(before)
            <4> SUFFICES ASSUME NEW i \in 1 .. last PROVE Finish(before, i) <= Size(before)
                OBVIOUS
            <4>1. CASE i = last
                BY <3>2, <4>1 DEF Size
            <4>2. CASE i # last
                <5>1. Finish(before, i) < Begin(before, last)
                    BY <1>1, <3>1, <4>2 DEF Spaced, Words
                <5> QED BY <1>2, <3>1, <5>1 DEF Size, Finish, Begin
            <4> QED BY <4>1, <4>2
        <3>4. \A i \in 1 .. last : Finish(before, i) \in Nat
            BY <1>2 DEF Finish
        <3> QED BY <2>2, <3>2, <3>3, <3>4
    <2> QED BY <2>1, <2>2
<1> HIDE DEF start
<1>4. new \in Records /\ new.at = start
    BY <1>1, <1>3, Placed
<1>5. new = [w EXCEPT !.at = new.at]
    BY <1>4
<1> HIDE DEF new
<1>6. /\ b \in Seq(Records) /\ Words(b) = 1 .. last + 1
      /\ \A i \in 1 .. last : b[i] = before[i]
      /\ b[last + 1] = new
    BY <1>1, <1>4 DEF Words
<1> HIDE DEF b
<1>7. Spaced(b)
    <2> SUFFICES ASSUME NEW i \in 1 .. last + 1, NEW j \in 1 .. last + 1, i < j
                 PROVE  Finish(b, i) < Begin(b, j)
        BY <1>6 DEF Spaced
    <2>1. i \in 1 .. last /\ Finish(b, i) = Finish(before, i)
        BY <1>1, <1>6 DEF Finish
    <2>2. CASE j = last + 1
        BY <1>3, <1>4, <1>6, <2>1, <2>2 DEF Begin
    <2>3. CASE j \in 1 .. last
        BY <1>6, <2>1, <2>3 DEF Spaced, Words, Begin
    <2> QED BY <1>1, <2>2, <2>3
<1>8. Taken(b, part)
    <2> SUFFICES ASSUME NEW i \in 1 .. last + 1
                 PROVE  \E m \in Words(part) : b[i] = [part[m] EXCEPT !.at = b[i].at]
        BY <1>6 DEF Taken
    <2>1. CASE i = last + 1
        BY <1>5, <1>6, <2>1
    <2>2. CASE i \in 1 .. last
        BY <1>6, <2>2 DEF Taken, Words
    <2> QED BY <1>1, <2>1, <2>2
<1> QED
    BY <1>7, <1>8 DEF Added, b, new, start

\* Laid lays the words of a part in their order, none over another
\* (toPlainText, normalizeWhitespace).
LEMMA LaidOut ==
    ASSUME NEW part \in Seq(Records)
    PROVE  Spaced(Laid(part)) /\ Taken(Laid(part), part)
<1> DEFINE N == Len(part)
<1>1. N \in Nat
    OBVIOUS
<1>2. \A n \in 0 .. N : \E f : Lays(part, n, f)
    <2> DEFINE S == {n \in 0 .. N : ~ \E f : Lays(part, n, f)}
    <2> SUFFICES ASSUME S # {} PROVE FALSE
        OBVIOUS
    <2>1. PICK n \in S : \A k \in S : n <= k
        <3>1. S \in SUBSET Nat
            BY <1>1
        <3> QED BY <3>1, Smallest
    <2>2. CASE n = 0
        <3> DEFINE f == [m \in 0 .. 0 |-> <<>>]
        <3>1. Lays(part, 0, f)
            BY DEF Lays
        <3> QED BY <2>1, <2>2, <3>1
    <2>3. CASE n # 0
        <3>1. n - 1 \in 0 .. N /\ n - 1 \notin S
            BY <1>1, <2>1, <2>3
        <3>2. PICK g : Lays(part, n - 1, g)
            BY <3>1
        <3> DEFINE f == [m \in 0 .. n |-> IF m = 0 THEN <<>> ELSE Added(g[m - 1], part[m])]
        <3>3. \A m \in 0 .. n - 1 : f[m] = g[m]
            BY <2>1, <2>3, <3>2 DEF Lays
        <3>4. \A m \in 0 .. n : m # 0 => f[m - 1] = g[m - 1]
            BY <2>1, <2>3, <3>3
        <3>5. Lays(part, n, f)
            BY <3>4 DEF Lays
        <3> QED BY <2>1, <3>5
    <2> QED BY <2>2, <2>3
<1>3. PICK t : Lays(part, N, t) /\ Laid(part) = t[N]
    <2> DEFINE t == CHOOSE f : Lays(part, N, f)
    <2>1. Lays(part, N, t)
        BY <1>1, <1>2
    <2>2. Laid(part) = t[N]
        BY DEF Laid, Lays, Added
    <2> QED BY <2>1, <2>2
<1>4. t[0] = <<>> /\ \A n \in 1 .. N : t[n] = Added(t[n - 1], part[n])
    BY <1>1, <1>3 DEF Lays
<1>5. \A n \in 0 .. N : Spaced(t[n]) /\ Taken(t[n], part)
    <2> DEFINE S == {n \in 0 .. N : ~ (Spaced(t[n]) /\ Taken(t[n], part))}
    <2> SUFFICES ASSUME S # {} PROVE FALSE
        OBVIOUS
    <2>1. PICK n \in S : \A k \in S : n <= k
        <3>1. S \in SUBSET Nat
            BY <1>1
        <3> QED BY <3>1, Smallest
    <2>2. CASE n = 0
        <3>1. Spaced(<<>>) /\ Taken(<<>>, part)
            BY DEF Spaced, Taken, Words
        <3> QED BY <1>4, <2>1, <2>2, <3>1
    <2>3. CASE n # 0
        <3>1. n - 1 \in 0 .. N /\ n - 1 \notin S /\ n \in Words(part)
            BY <1>1, <2>1, <2>3 DEF Words
        <3>2. t[n] = Added(t[n - 1], part[n])
            BY <1>4, <3>1 DEF Words
        <3> QED BY <2>1, <3>1, <3>2, AddedIsSpaced
    <2> QED BY <2>2, <2>3
<1> QED BY <1>1, <1>3, <1>5

LEMMA LargerOf ==
    ASSUME NEW x \in Int, NEW y \in Int, NEW z \in Int
    PROVE  /\ Max({x, y}) \in {x, y} /\ Max({x, y}) >= x /\ Max({x, y}) >= y
           /\ Min({x, y}) \in {x, y} /\ Min({x, y}) <= x /\ Min({x, y}) <= y
           /\ Max({x, y, z}) \in {x, y, z}
           /\ Max({x, y, z}) >= x /\ Max({x, y, z}) >= y /\ Max({x, y, z}) >= z
<1>1. \E m \in {x, y} : \A k \in {x, y} : m >= k
    OBVIOUS
<1>2. \E m \in {x, y} : \A k \in {x, y} : m <= k
    OBVIOUS
<1>3. \E m \in {x, y, z} : \A k \in {x, y, z} : m >= k
    <2>1. PICK m \in {x, y} : m >= x /\ m >= y
        BY <1>1
    <2>2. CASE m >= z
        BY <2>1, <2>2
    <2>3. CASE ~ (m >= z)
        BY <2>1, <2>3
    <2> QED BY <2>2, <2>3
<1>4. Max({x, y}) \in {x, y} /\ \A k \in {x, y} : Max({x, y}) >= k
    BY <1>1 DEF Max
<1>5. Min({x, y}) \in {x, y} /\ \A k \in {x, y} : Min({x, y}) <= k
    BY <1>2 DEF Min
<1>6. Max({x, y, z}) \in {x, y, z} /\ \A k \in {x, y, z} : Max({x, y, z}) >= k
    BY <1>3 DEF Max
<1> QED BY <1>4, <1>5, <1>6

\* Where the words of a spaced text are.
LEMMA Ordered ==
    ASSUME NEW b, Spaced(b)
    PROVE  /\ Len(b) \in Nat
           /\ \A i \in Words(b) :
                 /\ Begin(b, i) \in Nat /\ Finish(b, i) \in Nat /\ Center(b, i) \in Nat
                 /\ Begin(b, i) <= Center(b, i) /\ Center(b, i) <= Finish(b, i)
                 /\ Size(b) \in Nat /\ Finish(b, i) <= Size(b)
           /\ \A i \in Words(b) : \A k \in Words(b) : i <= k => Center(b, i) <= Center(b, k)
<1>1. Len(b) \in Nat /\ b \in Seq(Records)
    BY DEF Spaced
<1>2. \A i \in Words(b) : b[i].at \in Nat /\ b[i].width \in Nat
    <2>1. \A i \in Words(b) : b[i] \in Records
        BY <1>1 DEF Words
    <2> QED BY <2>1 DEF Records, WordRecord, LinkRecord
<1>3. \A i \in Words(b) :
          /\ Begin(b, i) \in Nat /\ Finish(b, i) \in Nat /\ Center(b, i) \in Nat
          /\ Begin(b, i) <= Center(b, i) /\ Center(b, i) <= Finish(b, i)
    <2> SUFFICES ASSUME NEW i \in Words(b)
                 PROVE  /\ Begin(b, i) \in Nat /\ Finish(b, i) \in Nat /\ Center(b, i) \in Nat
                        /\ Begin(b, i) <= Center(b, i) /\ Center(b, i) <= Finish(b, i)
        OBVIOUS
    <2> DEFINE w == b[i].width
    <2>1. w \in Nat /\ w \div 2 \in Nat /\ w \div 2 <= w
        BY <1>2
    <2> QED BY <1>2, <2>1 DEF Begin, Finish, Center
<1>4. \A i \in Words(b) : \A k \in Words(b) : i < k => Finish(b, i) < Begin(b, k)
    BY DEF Spaced
<1>5. \A i \in Words(b) : Size(b) \in Nat /\ Finish(b, i) <= Size(b)
    <2> SUFFICES ASSUME NEW i \in Words(b) PROVE Size(b) \in Nat /\ Finish(b, i) <= Size(b)
        OBVIOUS
    <2>1. Len(b) \in Words(b) /\ i <= Len(b)
        BY <1>1 DEF Words
    <2>2. Size(b) = Finish(b, Len(b))
        BY DEF Size
    <2>3. CASE i = Len(b)
        BY <1>3, <2>2, <2>3
    <2>4. CASE i < Len(b)
        <3>1. Finish(b, i) < Begin(b, Len(b))
            BY <1>4, <2>1, <2>4
        <3>2. Finish(b, i) \in Nat
            BY <1>3
        <3>3. Begin(b, Len(b)) \in Nat /\ Begin(b, Len(b)) <= Center(b, Len(b))
            BY <1>3, <2>1
        <3>4. Center(b, Len(b)) \in Nat /\ Finish(b, Len(b)) \in Nat
              /\ Center(b, Len(b)) <= Finish(b, Len(b))
            BY <1>3, <2>1
        <3> QED BY <2>2, <3>1, <3>2, <3>3, <3>4
    <2> QED BY <1>1, <2>1, <2>3, <2>4 DEF Words
<1>6. \A i \in Words(b) : \A k \in Words(b) : i <= k => Center(b, i) <= Center(b, k)
    <2> SUFFICES ASSUME NEW i \in Words(b), NEW k \in Words(b), i < k
                 PROVE  Center(b, i) <= Center(b, k)
        BY <1>3 DEF Words
    <2>1. Finish(b, i) < Begin(b, k)
        BY <1>4
    <2>2. Center(b, i) \in Nat /\ Finish(b, i) \in Nat /\ Center(b, i) <= Finish(b, i)
        BY <1>3
    <2>3. Center(b, k) \in Nat /\ Begin(b, k) \in Nat /\ Begin(b, k) <= Center(b, k)
        BY <1>3
    <2> QED BY <2>1, <2>2, <2>3
<1> QED BY <1>1, <1>3, <1>5, <1>6

\* What is within 140 characters of a keyword's middle.
LEMMA Within ==
    ASSUME NEW b, Spaced(b), NEW a \in Anchors(b), NEW w \in Words(b),
           Begin(b, w) <= Center(b, a) + 140, Center(b, a) <= Finish(b, w) + 140
    PROVE  Distance(b, Whole(b, w)) <= 140
<1> DEFINE c == Whole(b, w)
           apart(i) == Max({c.start - Center(b, i), Center(b, i) - c.end, 0})
           S == {apart(i) : i \in Anchors(b)} \cup {Far}
<1>1. Anchors(b) \subseteq Words(b)
    BY DEF Anchors
<1>2. Begin(b, w) \in Nat /\ Finish(b, w) \in Nat /\ Size(b) \in Nat /\ Finish(b, w) <= Size(b)
    BY Ordered
<1>3. c.start = Begin(b, w) /\ c.end = Finish(b, w)
    <2>1. c.start = Max({Begin(b, w), 0}) /\ c.end = Min({Finish(b, w), Size(b)})
        BY DEF Whole, Shown
    <2>2. Max({Begin(b, w), 0}) = Begin(b, w)
        <3>1. Begin(b, w) \in Int /\ 0 \in Int
            BY <1>2
        <3>2. Max({Begin(b, w), 0}) \in {Begin(b, w), 0} /\ Max({Begin(b, w), 0}) >= Begin(b, w)
              /\ Max({Begin(b, w), 0}) >= 0
            BY <3>1, LargerOf
        <3> QED BY <1>2, <3>2
    <2>3. Min({Finish(b, w), Size(b)}) = Finish(b, w)
        <3>1. Finish(b, w) \in Int /\ Size(b) \in Int
            BY <1>2
        <3>2. Min({Finish(b, w), Size(b)}) \in {Finish(b, w), Size(b)}
              /\ Min({Finish(b, w), Size(b)}) <= Finish(b, w)
            BY <3>1, LargerOf
        <3> QED BY <1>2, <3>2
    <2> QED BY <2>1, <2>2, <2>3
<1> HIDE DEF c
<1>4. \A i \in Anchors(b) : apart(i) \in Nat
    <2> SUFFICES ASSUME NEW i \in Anchors(b) PROVE apart(i) \in Nat
        OBVIOUS
    <2>1. Center(b, i) \in Nat
        BY <1>1, Ordered
    <2>2. c.start - Center(b, i) \in Int /\ Center(b, i) - c.end \in Int /\ 0 \in Int
        BY <1>2, <1>3, <2>1
    <2>3. apart(i) \in {c.start - Center(b, i), Center(b, i) - c.end, 0} /\ apart(i) >= 0
        BY <2>2, LargerOf
    <2> QED BY <2>2, <2>3
<1>5. apart(a) <= 140
    <2>1. Center(b, a) \in Nat
        BY <1>1, Ordered
    <2>2. c.start - Center(b, a) \in Int /\ Center(b, a) - c.end \in Int /\ 0 \in Int
        BY <1>2, <1>3, <2>1
    <2>3. apart(a) \in {c.start - Center(b, a), Center(b, a) - c.end, 0}
        BY <2>2, LargerOf
    <2>4. c.start - Center(b, a) <= 140 /\ Center(b, a) - c.end <= 140
        BY <1>2, <1>3, <2>1
    <2> QED BY <2>3, <2>4
<1>6. S \in SUBSET Nat /\ apart(a) \in S
    <2>1. Far \in Nat
        BY DEF Far
    <2> HIDE DEF apart
    <2> QED BY <1>4, <2>1
<1>7. Min(S) <= apart(a) /\ Min(S) \in Nat
    BY <1>6, Smallest
<1>8. Distance(b, c) = Min(S)
    BY DEF Distance
<1> HIDE DEF S, apart
<1>9. apart(a) \in Nat
    BY <1>4
<1> QED BY <1>5, <1>7, <1>8, <1>9 DEF c

\* The window of a keyword.
LEMMA WindowEnds ==
    ASSUME NEW b, Spaced(b), NEW a \in Anchors(b)
    PROVE  /\ LowEnd(b, a) \in Nat /\ LowEnd(b, a) + 120 >= Center(b, a)
           /\ HighEnd(b, a) \in Int /\ HighEnd(b, a) <= Center(b, a) + 120
<1>1. Center(b, a) \in Nat /\ Size(b) \in Nat
    BY Ordered DEF Anchors
<1>2. /\ Center(b, a) - Radius \in Int /\ Center(b, a) + Radius \in Int
      /\ 0 \in Int /\ Size(b) \in Int
    BY <1>1 DEF Radius
<1>3. LowEnd(b, a) \in {0, Center(b, a) - Radius}
      /\ LowEnd(b, a) >= 0 /\ LowEnd(b, a) >= Center(b, a) - Radius
    BY <1>2, LargerOf DEF LowEnd
<1>4. HighEnd(b, a) \in {Size(b), Center(b, a) + Radius} /\ HighEnd(b, a) <= Center(b, a) + Radius
    BY <1>1, <1>2, LargerOf DEF HighEnd
<1> QED BY <1>1, <1>2, <1>3, <1>4 DEF Radius

\* Where there are keywords there is a window.
LEMMA SomeWindow ==
    ASSUME NEW b, Spaced(b), Anchors(b) # {}
    PROVE  Windows(b) # {}
<1>1. Anchors(b) \in SUBSET Nat
    BY DEF Anchors, Words
<1>2. Min(Anchors(b)) \in Anchors(b) /\ \A y \in Anchors(b) : Min(Anchors(b)) <= y
    BY <1>1, Smallest
<1>3. Min(Anchors(b)) \in Heads(b)
    BY <1>1, <1>2 DEF Heads
<1> QED BY <1>3 DEF Windows

\* A window ends with a keyword of its own.
LEMMA LastIsJoined ==
    ASSUME NEW b, Spaced(b), NEW i \in Heads(b)
    PROVE  /\ LastOf(b, i) \in Anchors(b) /\ i <= LastOf(b, i)
           /\ \A h \in Heads(b) : h > i => LastOf(b, i) < h
<1> DEFINE joined == {j \in Anchors(b) : j >= i /\ \A h \in Heads(b) : h > i => j < h}
<1>1. Anchors(b) \in SUBSET (0 .. Len(b)) /\ Len(b) \in Nat /\ i \in Anchors(b)
    BY Ordered DEF Anchors, Words, Heads
<1>2. i \in joined /\ joined \in SUBSET (0 .. Len(b))
    BY <1>1 DEF Heads
<1>3. Max(joined) \in joined
    <2> HIDE DEF joined
    <2> QED BY <1>1, <1>2, Largest
<1>4. LastOf(b, i) = Max(joined)
    BY DEF LastOf
<1> QED BY <1>1, <1>3, <1>4

\* What a window shows is near a keyword: windows reach 120 characters, and
\* two are joined over 20 (collectWindows, mergeRange).
LEMMA NearKeyword ==
    ASSUME NEW b, Spaced(b), NEW r \in Windows(b), NEW w \in Words(b),
           Begin(b, w) <= r.high, r.low <= Finish(b, w)
    PROVE  Distance(b, Whole(b, w)) <= 140
<1>1. PICK i \in Heads(b) : r.low = LowEnd(b, i) /\ r.high = HighEnd(b, LastOf(b, i))
    BY DEF Windows
<1> DEFINE last == LastOf(b, i)
<1>2. Anchors(b) \in SUBSET (0 .. Len(b)) /\ Len(b) \in Nat /\ i \in Anchors(b)
    BY Ordered DEF Anchors, Words, Heads
<1>3. last \in Anchors(b) /\ i <= last /\ \A h \in Heads(b) : h > i => last < h
    BY LastIsJoined
<1> HIDE DEF last
<1> DEFINE S == {a \in Anchors(b) : i <= a /\ a <= last /\ Begin(b, w) <= Center(b, a) + 140}
           a == Min(S)
<1>4. /\ Begin(b, w) \in Nat /\ Finish(b, w) \in Nat /\ Begin(b, w) <= Finish(b, w)
      /\ \A k \in Anchors(b) : Center(b, k) \in Nat
    <2>1. Begin(b, w) <= Center(b, w) /\ Center(b, w) <= Finish(b, w) /\ Center(b, w) \in Nat
        BY Ordered
    <2> QED BY <2>1, Ordered DEF Anchors
<1>5. last \in S
    <2>1. HighEnd(b, last) \in Int /\ HighEnd(b, last) <= Center(b, last) + 120
        BY <1>3, WindowEnds
    <2>2. Begin(b, w) <= HighEnd(b, last)
        BY <1>1 DEF last
    <2>3. Center(b, last) \in Nat
        BY <1>3, <1>4
    <2> QED BY <1>2, <1>3, <1>4, <2>1, <2>2, <2>3
<1>6. a \in S /\ \A k \in S : a <= k
    <2>1. S \in SUBSET Nat
        BY <1>2
    <2> QED BY <1>5, <2>1, Smallest
<1> HIDE DEF a
<1>7. a \in Anchors(b) /\ i <= a /\ a <= last /\ Begin(b, w) <= Center(b, a) + 140
    BY <1>6
<1>8. Center(b, a) <= Finish(b, w) + 140
    <2> SUFFICES ASSUME ~ (Center(b, a) <= Finish(b, w) + 140) PROVE FALSE
        OBVIOUS
    <2>1. LowEnd(b, a) \in Nat /\ LowEnd(b, a) + 120 >= Center(b, a) /\ Center(b, a) \in Nat
        BY <1>4, <1>7, WindowEnds
    <2>2. a # i
        BY <1>1, <1>4, <2>1
    <2>3. a \notin Heads(b)
        BY <1>2, <1>3, <1>7, <2>2
    <2>4. PICK k \in Anchors(b) : k < a /\ ~ (LowEnd(b, a) > HighEnd(b, k) + 20)
        BY <1>7, <2>3 DEF Heads
    <2>5. HighEnd(b, k) \in Int /\ HighEnd(b, k) <= Center(b, k) + 120 /\ Center(b, k) \in Nat
        BY <1>4, WindowEnds
    <2>6. Center(b, k) + 140 < Begin(b, w)
        <3>1. CASE i <= k
            <4>1. k \notin S
                BY <1>2, <1>6, <1>7, <2>4
            <4>2. k <= last
                BY <1>2, <1>3, <1>7, <2>4
            <4> QED BY <1>4, <2>5, <3>1, <4>1, <4>2
        <3>2. CASE k < i
            <4>1. i \notin S
                BY <1>2, <1>6, <1>7, <2>2
            <4>2. Center(b, i) + 140 < Begin(b, w)
                BY <1>2, <1>3, <1>4, <4>1
            <4>3. Center(b, k) <= Center(b, i)
                BY <1>2, <3>2, Ordered DEF Anchors, Words
            <4> QED BY <1>2, <1>4, <2>5, <4>2, <4>3
        <3> QED BY <1>2, <3>1, <3>2
    <2> QED BY <1>4, <2>1, <2>4, <2>5, <2>6
<1> QED BY <1>7, <1>8, Within

\* A candidate is a word of the text that the range shows, or two of them.
LEMMA CandidateWord ==
    ASSUME NEW b, Spaced(b), NEW p, NEW r, r.low \in Int, r.high \in Int,
           NEW c \in CandidatesIn(b, r, p)
    PROVE  \E w \in Words(b) :
                /\ c.value.of[1] = b[w].id /\ b[w].kind # "link"
                /\ Begin(b, w) <= r.high /\ r.low <= Finish(b, w)
<1>1. ASSUME NEW w \in Words(b), c = Shown(b, w, r), c.len > 0, b[w].kind # "link"
      PROVE  /\ c.value.of[1] = b[w].id /\ b[w].kind # "link"
             /\ Begin(b, w) <= r.high /\ r.low <= Finish(b, w)
    <2> DEFINE from == Max({Begin(b, w), r.low})
               to == Min({Finish(b, w), r.high})
    <2>1. c.len = to - from /\ c.value.of[1] = b[w].id
        BY <1>1 DEF Shown
    <2>2. Begin(b, w) \in Int /\ Finish(b, w) \in Int
        BY Ordered
    <2>3. /\ from \in {Begin(b, w), r.low} /\ from >= Begin(b, w) /\ from >= r.low
          /\ to \in {Finish(b, w), r.high} /\ to <= Finish(b, w) /\ to <= r.high
        BY <2>2, LargerOf
    <2>4. from < to
        BY <1>1, <2>1, <2>2, <2>3
    <2> QED BY <1>1, <2>1, <2>2, <2>3, <2>4
<1>2. ASSUME NEW w \in Words(b), c = Shown(b, w, r), b[w].kind # "link",
             Begin(b, w) >= r.low, Finish(b, w) <= r.high
      PROVE  /\ c.value.of[1] = b[w].id /\ b[w].kind # "link"
             /\ Begin(b, w) <= r.high /\ r.low <= Finish(b, w)
    <2>1. c.value.of[1] = b[w].id
        BY <1>2 DEF Shown
    <2>2. /\ Begin(b, w) \in Nat /\ Finish(b, w) \in Nat /\ Center(b, w) \in Nat
          /\ Begin(b, w) <= Center(b, w) /\ Center(b, w) <= Finish(b, w)
        BY Ordered
    <2> QED BY <1>2, <2>1, <2>2
<1>3. ASSUME NEW w \in Words(b), w < Len(b), c = Joined(b, w), b[w].kind # "link",
             Begin(b, w) >= r.low, Finish(b, w + 1) <= r.high
      PROVE  /\ c.value.of[1] = b[w].id /\ b[w].kind # "link"
             /\ Begin(b, w) <= r.high /\ r.low <= Finish(b, w)
    <2>1. c.value.of[1] = b[w].id
        BY <1>3 DEF Joined
    <2>2. w + 1 \in Words(b) /\ w < w + 1
        BY <1>3, Ordered DEF Words
    <2>3. Finish(b, w) < Begin(b, w + 1)
        BY <2>2 DEF Spaced
    <2>4. /\ Begin(b, w) \in Nat /\ Finish(b, w) \in Nat /\ Center(b, w) \in Nat
          /\ Begin(b, w) <= Center(b, w) /\ Center(b, w) <= Finish(b, w)
        BY Ordered
    <2>5. /\ Begin(b, w + 1) \in Nat /\ Finish(b, w + 1) \in Nat /\ Center(b, w + 1) \in Nat
          /\ Begin(b, w + 1) <= Center(b, w + 1) /\ Center(b, w + 1) <= Finish(b, w + 1)
        BY <2>2, Ordered
    <2> QED BY <1>3, <2>1, <2>3, <2>4, <2>5
<1>4. CASE \E w \in Words(b) : b[w].kind \in Numbers /\ c = Shown(b, w, r) /\ c.len \in 4 .. 8
    BY <1>1, <1>4 DEF Numbers
<1>5. CASE \E w \in Words(b) : b[w].kind \in Tokens /\ c = Shown(b, w, r) /\ c.len \in 4 .. 10
    BY <1>1, <1>5 DEF Tokens
<1>6. CASE \E w \in Words(b) : w < Len(b) /\ Group(b, w) /\ c = Joined(b, w)
                                 /\ Begin(b, w) >= r.low /\ Finish(b, w + 1) <= r.high
    BY <1>3, <1>6 DEF Group, Numbers
<1>7. CASE \E w \in Words(b) : b[w].kind = "word" /\ c = Shown(b, w, r)
                                 /\ Begin(b, w) >= r.low /\ Finish(b, w) <= r.high
    BY <1>2, <1>7
<1> QED BY <1>4, <1>5, <1>6, <1>7 DEF CandidatesIn

\* What extractOTPs collects has grounds.
LEMMA CodeGrounded ==
    ASSUME NEW m, Spaced(m.body), NEW p, NEW c \in TopOtp(m, p)
    PROVE  \E w \in Words(m.body) :
                /\ c.value.of[1] = m.body[w].id /\ m.body[w].kind # "link"
                /\ \A i \in Words(m.body) :
                        m.body[i].id = m.body[w].id => GroundedNumber(m.body, i)
<1> DEFINE b == m.body
<1>1. c \in Viable(b, p) /\ Admitted(b, p)
    BY DEF TopOtp, Best, Precise
<1>2. PICK r \in Ranges(b, p) : c \in CandidatesIn(b, r, p)
    BY <1>1 DEF Viable
<1>3. CASE Windows(b) # {}
    <2>1. r \in Windows(b)
        BY <1>2, <1>3 DEF Ranges
    <2>2. r.low \in Int /\ r.high \in Int
        <3>1. PICK i \in Heads(b) : r.low = LowEnd(b, i) /\ r.high = HighEnd(b, LastOf(b, i))
            BY <2>1 DEF Windows
        <3>2. i \in Anchors(b) /\ LastOf(b, i) \in Anchors(b)
            BY <3>1, LastIsJoined DEF Heads
        <3> QED BY <3>1, <3>2, WindowEnds
    <2>3. PICK w \in Words(b) :
                /\ c.value.of[1] = b[w].id /\ b[w].kind # "link"
                /\ Begin(b, w) <= r.high /\ r.low <= Finish(b, w)
        BY <1>2, <2>2, CandidateWord
    <2>4. Distance(b, Whole(b, w)) <= 140
        BY <2>1, <2>3, NearKeyword
    <2> QED BY <2>3, <2>4 DEF GroundedNumber
<1>4. CASE Windows(b) = {}
    <2>1. Anchors(b) = {}
        BY <1>4, SomeWindow
    <2>2. ~ Weak(b)
        <3> SUFFICES ASSUME Weak(b) PROVE FALSE
            OBVIOUS
        <3>1. PICK i \in Words(b) : b[i].kind \in WeakKinds
            BY DEF Weak
        <3> QED BY <2>1, <3>1 DEF Anchors
    <2>3. Strong(b) \/ BrandForm(b)
        BY <1>1, <2>2 DEF Admitted
    <2>4. r = [low |-> 0, high |-> Size(b)]
        BY <1>2, <1>4 DEF Ranges
    <2>5. \E i : i \in Words(b)
        <3>1. Len(b) \in Nat
            BY Ordered
        <3>2. BrandForm(b) => 1 \in Words(b)
            BY <3>1 DEF BrandForm, Words
        <3> QED BY <2>3, <3>2 DEF Strong
    <2>6. r.low \in Int /\ r.high \in Int
        BY <2>4, <2>5, Ordered
    <2>7. PICK w \in Words(b) : c.value.of[1] = b[w].id /\ b[w].kind # "link"
        BY <1>2, <2>6, CandidateWord
    <2> QED BY <2>1, <2>3, <2>7 DEF GroundedNumber
<1> QED BY <1>3, <1>4

\* The words of a text are those of a message, as far as ids tell.
Origin(b, words) ==
    \A i \in Words(b) : \E v \in words :
        b[i].kind = v.kind /\ b[i].id = v.id /\ (v.kind = "link" => b[i].url = v.url)

LEMMA LaidOrigin ==
    ASSUME NEW part \in Seq(Records), NEW words, Range(part) \subseteq words
    PROVE  Spaced(Laid(part)) /\ Origin(Laid(part), words)
<1> DEFINE b == Laid(part)
<1>1. Spaced(b) /\ Taken(b, part)
    BY LaidOut
<1> HIDE DEF b
<1>2. ASSUME NEW i \in Words(b)
      PROVE  \E v \in words :
                b[i].kind = v.kind /\ b[i].id = v.id /\ (v.kind = "link" => b[i].url = v.url)
    <2>1. PICK k \in Words(part) : b[i] = [part[k] EXCEPT !.at = b[i].at]
        BY <1>1 DEF Taken
    <2>2. part[k] \in Records /\ part[k] \in words
        BY DEF Words, Range
    <2>3. b[i].kind = part[k].kind /\ b[i].id = part[k].id
           /\ (part[k].kind = "link" => b[i].url = part[k].url)
        <3>1. CASE part[k] \in WordRecord
            BY <2>1, <3>1 DEF WordRecord
        <3>2. CASE part[k] \in LinkRecord
            BY <2>1, <3>2 DEF LinkRecord
        <3> QED BY <2>2, <3>1, <3>2 DEF Records
    <2> QED BY <2>2, <2>3
<1>3. Origin(b, words)
    BY <1>2 DEF Origin
<1> QED BY <1>1, <1>3 DEF b

\* The texts of an opened message, and that its ids mean the same in all.
LEMMA OpenedTexts ==
    ASSUME NEW n \in Mails
    PROVE  LET m == Opened[n]
               texts == {m.body, m.html, m.all}
           IN  /\ \A b \in texts : Spaced(b)
               /\ \A b \in texts : \A d \in texts : \A i \in Words(b) : \A k \in Words(d) :
                     IsLink(b[i]) /\ d[k].id = b[i].id =>
                        IsLink(d[k]) /\ d[k].url \ {"escaped"} = b[i].url \ {"escaped"}
<1> DEFINE m == Opened[n]
           plain == Letter[n].plain
           html == Letter[n].html
           words == Range(plain) \cup Range(html)
           texts == {m.body, m.html, m.all}
<1>1. /\ plain \in Seq(Records) /\ html \in Seq(Records)
      /\ \A v \in words : \A w \in words :
            v.kind = "link" /\ w.id = v.id =>
                w.kind = "link" /\ w.url \ {"escaped"} = v.url \ {"escaped"}
    BY LetterAssumption DEF Records
<1>2. /\ plain \o html \in Seq(Records)
      /\ Range(plain) \subseteq words /\ Range(html) \subseteq words
      /\ Range(plain \o html) \subseteq words
    <2> HIDE DEF plain, html
    <2>1. plain \o html \in Seq(Records) /\ Len(plain \o html) = Len(plain) + Len(html)
          /\ Len(plain) \in Nat /\ Len(html) \in Nat
        BY <1>1
    <2>2. ASSUME NEW i \in 1 .. Len(plain) + Len(html) PROVE (plain \o html)[i] \in words
        <3>1. CASE i <= Len(plain)
            <4>1. i \in DOMAIN plain /\ (plain \o html)[i] = plain[i]
                BY <1>1, <2>1, <3>1
            <4> QED BY <4>1 DEF Range
        <3>2. CASE i > Len(plain)
            <4>1. i - Len(plain) \in DOMAIN html /\ (plain \o html)[i] = html[i - Len(plain)]
                BY <1>1, <2>1, <3>2
            <4> QED BY <4>1 DEF Range
        <3> QED BY <2>1, <3>1, <3>2
    <2>3. DOMAIN (plain \o html) = 1 .. Len(plain) + Len(html)
        BY <2>1
    <2> QED BY <2>1, <2>2, <2>3 DEF Range
<1>3. /\ m.body = Laid(IF plain # <<>> THEN plain ELSE html)
      /\ m.html = Laid(html) /\ m.all = Laid(plain \o html)
    BY DEF Opened
<1> HIDE DEF plain, html, words, m
<1>4. \A part \in {plain, html, plain \o html} : Spaced(Laid(part)) /\ Origin(Laid(part), words)
    BY <1>1, <1>2, LaidOrigin
<1>5. \A b \in texts : Spaced(b) /\ Origin(b, words)
    BY <1>3, <1>4
<1>6. ASSUME NEW b \in texts, NEW d \in texts, NEW i \in Words(b), NEW k \in Words(d),
             IsLink(b[i]), d[k].id = b[i].id
      PROVE  IsLink(d[k]) /\ d[k].url \ {"escaped"} = b[i].url \ {"escaped"}
    <2>1. PICK v \in words :
              b[i].kind = v.kind /\ b[i].id = v.id /\ (v.kind = "link" => b[i].url = v.url)
        BY <1>5 DEF Origin
    <2>2. PICK w \in words :
              d[k].kind = w.kind /\ d[k].id = w.id /\ (w.kind = "link" => d[k].url = w.url)
        BY <1>5 DEF Origin
    <2> QED BY <1>1, <1>6, <2>1, <2>2 DEF IsLink
<1> QED BY <1>5, <1>6 DEF m

\* What extractMagicLinks collects has grounds: an address that anchors lead to
\* is an anchor's, unless it is written with entities.
LEMMA LinkGrounded ==
    ASSUME NEW n \in Mails, NEW l \in TopLinks(Opened[n])
    PROVE  GroundedLink(Opened[n], l.id)
<1> DEFINE m == Opened[n]
           leading == {i \in Words(m.html) : m.html[i].id = l.id /\ m.html[i].anchor # None}
<1>1. "danger" \notin m.hints /\ l \in Links(m) /\ ~ Refused(l)
    BY DEF TopLinks, LinksWanted
<1>2. \A i \in Words(m.all) : \A k \in Words(m.html) :
          IsLink(m.all[i]) /\ m.html[k].id = m.all[i].id =>
              IsLink(m.html[k]) /\ m.html[k].url \ {"escaped"} = m.all[i].url \ {"escaped"}
    BY OpenedTexts
<1> HIDE DEF m
<1>3. CASE \E i \in Harvested(m) :
              l = [id |-> m.html[i].id, url |-> m.html[i].url,
                   anchor |-> IF m.html[i].anchor = None THEN {} ELSE m.html[i].anchor,
                   danger |-> DangerNear(m.html, i)]
    <2>1. PICK i \in Harvested(m) :
              l = [id |-> m.html[i].id, url |-> m.html[i].url,
                   anchor |-> IF m.html[i].anchor = None THEN {} ELSE m.html[i].anchor,
                   danger |-> DangerNear(m.html, i)]
        BY <1>3
    <2>2. i \in leading /\ l.anchor = m.html[i].anchor /\ l.url = m.html[i].url
          /\ l.danger = DangerNear(m.html, i)
        BY <2>1 DEF Harvested
    <2>3. Harmless(m, i)
        BY <1>1, <2>2 DEF Refused, Harmless, LogsIn
    <2> QED BY <1>1, <2>2, <2>3 DEF GroundedLink, m
<1>4. CASE \E i \in Unlisted(m) : l.id = m.all[i].id /\ l.url = m.all[i].url
    <2>1. PICK i \in Unlisted(m) : l.id = m.all[i].id /\ l.url = m.all[i].url
        BY <1>4
    <2>2. i \in Words(m.all) /\ IsLink(m.all[i])
        BY DEF Unlisted, Bare
    <2>3. ASSUME NEW j \in leading PROVE "escaped" \in m.html[j].url
        <3>1. IsLink(m.html[j]) /\ m.html[j].url \ {"escaped"} = l.url \ {"escaped"}
            BY <1>2, <2>1, <2>2
        <3>2. ~ Warned(m.html[j].url)
            BY <1>1, <3>1 DEF Refused, Warned
        <3>3. j \in Harvested(m)
            BY <3>1, <3>2 DEF Harvested
        <3> QED BY <2>1, <3>3 DEF Unlisted
    <2> QED BY <1>1, <2>3 DEF GroundedLink, m
<1>5. PICK at \in Places(m) :
          l = [id |-> at[1][at[2]].id, url |-> at[1][at[2]].url,
               anchor |-> IF at[1][at[2]].anchor = None THEN {} ELSE at[1][at[2]].anchor,
               danger |-> DangerNear(at[1], at[2])]
    BY <1>1 DEF Links
<1>6. \/ \E i \in Harvested(m) : at = <<m.html, i>>
      \/ \E i \in Unlisted(m) : at = <<m.all, i>>
    BY DEF Places
<1>7. ASSUME NEW i \in Unlisted(m), at = <<m.all, i>>
      PROVE  l.id = m.all[i].id /\ l.url = m.all[i].url
    BY <1>5, <1>7
<1>8. ASSUME NEW i \in Harvested(m), at = <<m.html, i>>
      PROVE  l = [id |-> m.html[i].id, url |-> m.html[i].url,
                  anchor |-> IF m.html[i].anchor = None THEN {} ELSE m.html[i].anchor,
                  danger |-> DangerNear(m.html, i)]
    <2>1. at[1] = m.html /\ at[2] = i
        BY <1>8
    <2> QED BY <1>5, <2>1
<1> QED BY <1>3, <1>4, <1>6, <1>7, <1>8

\* So has what a poll keeps of a message.
LEMMA HitGrounded ==
    ASSUME NEW n \in Mails, NEW p, NEW c \in Hits(Opened[n], p)
    PROVE  LET m == Opened[n]
           IN  /\ \A l \in Links(m) : c.value.of = <<l.id>> => GroundedLink(m, l.id)
               /\ \A i \in Words(m.body) :
                      c.value.of[1] = m.body[i].id /\ m.body[i].kind \in Numbers \cup Tokens =>
                          GroundedNumber(m.body, i)
<1> DEFINE m == Opened[n]
<1>1. /\ Spaced(m.body)
      /\ \A d \in {m.html, m.all} : \A i \in Words(d) : \A k \in Words(m.body) :
            IsLink(d[i]) /\ m.body[k].id = d[i].id => IsLink(m.body[k])
    BY OpenedTexts
<1>2. \A l \in Links(m) : \E d \in {m.html, m.all} : \E i \in Words(d) :
          IsLink(d[i]) /\ d[i].id = l.id
    BY DEF Links, Places, Harvested, Unlisted, Bare
<1>3. CASE \E x \in TopOtp(m, p) : c = Stored(m, x)
    <2>1. PICK x \in TopOtp(m, p) : c = Stored(m, x)
        BY <1>3
    <2>2. PICK w \in Words(m.body) :
                /\ x.value.of[1] = m.body[w].id /\ m.body[w].kind # "link"
                /\ \A i \in Words(m.body) :
                        m.body[i].id = m.body[w].id => GroundedNumber(m.body, i)
        BY <1>1, CodeGrounded
    <2>3. c.value.of[1] = m.body[w].id
        BY <2>1, <2>2 DEF Stored
    <2>4. \A l \in Links(m) : c.value.of # <<l.id>>
        <3> SUFFICES ASSUME NEW l \in Links(m), c.value.of = <<l.id>> PROVE FALSE
            OBVIOUS
        <3>1. m.body[w].id = l.id
            BY <2>3
        <3> QED BY <1>1, <1>2, <2>2, <3>1 DEF IsLink
    <2> QED BY <2>2, <2>3, <2>4
<1>4. CASE \E l \in TopLinks(m) : c = LinkAsCode(m, l)
    <2>1. PICK l \in TopLinks(m) : c = LinkAsCode(m, l)
        BY <1>4
    <2>2. c.value.of = <<l.id>> /\ c.value.of[1] = l.id
        BY <2>1 DEF LinkAsCode, Stored
    <2>3. GroundedLink(m, l.id) /\ l \in Links(m)
        BY LinkGrounded DEF TopLinks
    <2>4. \A i \in Words(m.body) : m.body[i].id = l.id => m.body[i].kind \notin Numbers \cup Tokens
        BY <1>1, <1>2, <2>3 DEF IsLink, Numbers, Tokens
    <2>5. \A k \in Links(m) : c.value.of = <<k.id>> => k.id = l.id
        BY <2>2
    <2> QED BY <2>2, <2>3, <2>4, <2>5
<1> QED BY <1>3, <1>4 DEF Hits

\* A message that is read yields what its hits are.
ReadInv ==
    /\ page \in Pages
    /\ read # None => read.mail \in Mails /\ read.code \subseteq HitsFor(read.mail, page)

LEMMA ReadNext == ReadInv /\ [MailNext]_mailVars => ReadInv'
<1> SUFFICES ASSUME ReadInv, [MailNext]_mailVars PROVE ReadInv'
    OBVIOUS
<1>1. ASSUME NEW n \in Mails, Read(n) PROVE ReadInv'
    BY <1>1 DEF Read, ReadInv, HitsFor, vars
<1>2. CASE Keep \/ Drop
    BY <1>2 DEF Keep, Drop, Collect, ReadInv, vars
<1>3. CASE Match /\ UNCHANGED read
    BY <1>3 DEF Match, ReadInv, HitsFor
<1>4. CASE UNCHANGED mailVars
    BY <1>4 DEF mailVars, ReadInv, HitsFor
<1> QED BY <1>1, <1>2, <1>3, <1>4 DEF MailNext

LEMMA ReadIsGrounded == ReadInv => Grounded
<1> SUFFICES ASSUME ReadInv, read # None, NEW c \in read.code
             PROVE  LET m == Opened[read.mail]
                    IN  /\ \A l \in Links(m) : c.value.of = <<l.id>> => GroundedLink(m, l.id)
                        /\ \A i \in Words(m.body) :
                              c.value.of[1] = m.body[i].id
                              /\ m.body[i].kind \in Numbers \cup Tokens =>
                                  GroundedNumber(m.body, i)
    BY DEF Grounded
<1> DEFINE e == [len |-> page.len, charset |-> page.charset]
<1>1. e \in Expectations /\ read.mail \in Mails
    BY DEF ReadInv, Expectations
<1>2. c \in Hits(Opened[read.mail], e)
    BY <1>1 DEF ReadInv, HitsFor, HitTable
<1> QED BY <1>1, <1>2, HitGrounded

\* Whatever the messages say, a number is collected near a keyword or from a
\* message that is read whole, and a link where one of its anchors is harmless
\* (extractOTPs, extractMagicLinks, pollOnce).
THEOREM HasGrounds == MailSpec => []Grounded
<1>1. MailInit => ReadInv
    BY DEF MailInit, Init, ReadInv
<1>2. MailSpec => []ReadInv
    BY <1>1, ReadNext, PTL DEF MailSpec
<1> QED BY <1>2, ReadIsGrounded, PTL

\* What is kept of messages is filled in as any codes are.
MailInv == ReadInv /\ MatchInv /\ LetIn

LEMMA MailNextInv == MailInv /\ [MailNext]_mailVars => MailInv'
<1> SUFFICES ASSUME MailInv, [MailNext]_mailVars PROVE MatchInv' /\ LetIn'
    BY ReadNext DEF MailInv
<1>1. ASSUME NEW c \in read.code, read # None, Collect(c) PROVE MatchInv' /\ LetIn'
    <2> DEFINE e == [len |-> page.len, charset |-> page.charset]
    <2>1. e \in Expectations /\ read.mail \in Mails /\ c \in HitTable[e][read.mail]
        BY <1>1 DEF MailInv, ReadInv, Expectations, HitsFor
    <2>2. c \in Arrivals
        BY <2>1 DEF Arrivals
    <2>3. MatchInv'
        BY <1>1, <2>2, CollectMatch DEF MailInv
    <2>4. LetIn'
        BY <1>1 DEF MailInv, Collect, LetIn, Eligible, Suppressed, Affinity, Strict
    <2> QED BY <2>3, <2>4
<1>2. CASE Match \/ UNCHANGED vars
    BY <1>2, NextMatch, NextLetIn DEF MailInv, Next
<1> QED BY <1>1, <1>2 DEF MailNext, Read, Keep, Drop, mailVars, vars

\* A session that reads its codes out of messages fills in the best of those it
\* was let have, and the site's own (pollOnce, processPollResult).
THEOREM BestOfMail == MailSpec => [](BetterWins /\ OwnCodeOnly)
<1>1. MailInit => MailInv
    BY InitMatch DEF MailInit, Init, MailInv, ReadInv, LetIn
<1>2. MailInv => BetterWins /\ OwnCodeOnly
    BY MatchIsBest, LetInIsOwn DEF MailInv
<1>3. MailSpec => []MailInv
    BY <1>1, MailNextInv, PTL DEF MailSpec
<1> QED BY <1>2, <1>3, PTL
===============================================================================
