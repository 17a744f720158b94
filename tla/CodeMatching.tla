---------------------------- MODULE CodeMatching ----------------------------
(***************************************************************************)
(* Which of the codes a session has collected is filled in: eligibility    *)
(* (lib/matching/eligibility.ts), the points of lib/matching/code-matcher  *)
(* and the scores of extraction-core they are made of, and the gate for    *)
(* pages without positive evidence.                                        *)
(*                                                                         *)
(* A domain is what tldts returns as the registrable part of a host: the   *)
(* sequence of its labels, the name first, each the set of its tokens.     *)
(* Scores are in points; e^(-age/120) is a table.                          *)
(***************************************************************************)
EXTENDS Integers, Sequences, FiniteSets

CONSTANTS
    Domains,   \* registrable domains of pages and senders
    Labels,    \* Labels[d]: the labels of d
    Suffix,    \* Suffix[d]: how many of them are its public suffix
    Long,      \* tokens of three characters or more
    Canonical, \* DOMAIN_ALIASES, a function on some of the domains
    Shared,    \* SHARED_HOST_BLOCKLIST
    Decay,     \* Decay[a]: Math.round(250 * e^(-a/120)) for an age in seconds
    Pages,     \* [site, channels, positive, age, len, charset]; a session
               \* polls for at most 120 seconds
    Codes,     \* [text, sender, subject, age, len, charset, used]; the tokens of
               \* the subject are those of source that the sender does not have
    None,      \* no expectation
    MaxCodes   \* bound: codes a session collects

Ages == DOMAIN Decay

ASSUME DomainsAssumption ==
    /\ \A d \in Domains : Suffix[d] \in Nat /\ Len(Labels[d]) \in Nat /\ Suffix[d] < Len(Labels[d])
    /\ DOMAIN Canonical \subseteq Domains /\ Shared \subseteq Domains
ASSUME DecayAssumption ==
    /\ \A a \in Ages : a \in Nat /\ Decay[a] \in 1 .. 250
    /\ \A a, b \in Ages : a <= b => Decay[a] >= Decay[b]
ASSUME CodesAssumption ==
    /\ \A c \in Codes : c.sender \in Domains /\ c.age \in Ages
    /\ \A p \in Pages : p.site \in Domains /\ p.age \in 0 .. 120
    /\ MaxCodes \in Nat

VARIABLES
    page,    \* the session's page and when it started
    codes,   \* newArrivalCodes
    matched  \* what the poll returned: a set of at most one code

vars == <<page, codes, matched>>

-----------------------------------------------------------------------------
(***************************************************************************)
(* Domain affinity, in tenths.                                             *)
(***************************************************************************)
IsAliasMatch(site, sender) ==
    LET known == DOMAIN Canonical
    IN  \/ site \in known /\ Canonical[site] = sender
        \/ sender \in known /\ Canonical[sender] = site
        \/ site \in known /\ sender \in known /\ Canonical[site] = Canonical[sender]

TokensOf(labels) == UNION {labels[i] : i \in 1 .. Len(labels)} \cap Long

\* All labels but the last.
Name(site) ==
    IF Len(Labels[site]) > 1 THEN SubSeq(Labels[site], 1, Len(Labels[site]) - 1)
    ELSE Labels[site]

TokenOverlap(site, sender, subject) ==
    TokensOf(Name(site)) \cap (TokensOf(Labels[sender]) \cup (subject \cap Long)) # {}

DomainAffinity(site, sender, subject) ==
    CASE site = sender -> 10
      [] site # sender /\ IsAliasMatch(site, sender) -> 9
      [] site # sender /\ ~ IsAliasMatch(site, sender)
            /\ TokenOverlap(site, sender, subject) -> 6
      [] OTHER -> 0

-----------------------------------------------------------------------------
(***************************************************************************)
(* Points.                                                                 *)
(***************************************************************************)
Affinity(p, c) == DomainAffinity(p.site, c.sender, c.subject)

\* sessionBoost: the code came between 15 s before the session began and
\* 120 s after.
InWindow(p, c) == c.age <= p.age + 15 /\ p.age - c.age <= 120

\* shapeScore, in hundredths.
LengthScore(len, expected) ==
    LET diff == IF len > expected THEN len - expected ELSE expected - len
    IN  CASE diff = 0 -> 20 [] diff = 1 -> 6 [] OTHER -> -12
ShapeScore(p, c) ==
    (IF p.len = None THEN 0 ELSE LengthScore(c.len, p.len))
    + (IF c.charset = p.charset THEN 8 ELSE 0)
Fits(p, c) == ShapeScore(p, c) > 0

UsedPenalty(c) == IF c.used THEN -250 ELSE 0

Points(p, c) ==
    10 * Affinity(p, c)
    + Decay[c.age]
    + (IF InWindow(p, c) THEN 15 ELSE 0)
    + (IF Fits(p, c) THEN 8 ELSE 0)
    + UsedPenalty(c)

AcceptMin == 10

-----------------------------------------------------------------------------
(***************************************************************************)
(* The gates before and after the matcher, and the matcher.                *)
(***************************************************************************)
\* isNewArrivalCandidateEligibleForAutofill, while Google Messages is paired.
Eligible(p, c) ==
    IF c.text THEN "sms" \in p.channels ELSE Affinity(p, c) >= 6

\* isStrictDomainMatch leaves the subject out.
Strict(p, c) ==
    p.site \notin Shared /\ DomainAffinity(p.site, c.sender, {}) >= 9

\* Variant: the score's affinity is used, subject and all.
BugSuppressed(p, c) ==
    ~ p.positive /\ p.channels = {"email"} /\ Affinity(p, c) = 0

\* shouldSuppressMatch
Suppressed(p, c) ==
    ~ p.positive /\ p.channels = {"email"} /\ ~ Strict(p, c)

\* findBestMatchingCode on the eligible codes of a list.  The sort is stable:
\* the first of equals.
Candidates(p, list) == {i \in 1 .. Len(list) : Eligible(p, list[i])}

\* Variant: the first acceptable code instead of the best.
BugLeads(p, list, i) ==
    \A k \in Candidates(p, list) : Points(p, list[k]) >= AcceptMin => i <= k
Leads(p, list, i) ==
    \A k \in Candidates(p, list) :
        \/ Points(p, list[k]) < Points(p, list[i])
        \/ Points(p, list[k]) = Points(p, list[i]) /\ i <= k
FindBest(p, list) ==
    {list[i] : i \in {j \in Candidates(p, list) :
                        Points(p, list[j]) >= AcceptMin /\ Leads(p, list, j)}}

Init ==
    /\ page \in Pages
    /\ codes = <<>>
    /\ matched = {}

\* The provenance gate accepts a candidate.
Collect(c) ==
    /\ matched = {} /\ Len(codes) < MaxCodes
    /\ codes' = Append(codes, c)
    /\ UNCHANGED <<page, matched>>

\* The end of processPollResult.  A text that is fresh waits for a later poll
\* (SMS_AUTOFILL_SETTLE_MS): the step is then a later one, on the codes that
\* are there by then.
Match ==
    /\ codes # <<>> /\ matched = {}
    /\ matched' = {c \in FindBest(page, codes) : ~ Suppressed(page, c)}
    /\ UNCHANGED <<page, codes>>

Next == (\E c \in Codes : Collect(c)) \/ Match

Spec == Init /\ [][Next]_vars

-----------------------------------------------------------------------------
(***************************************************************************)
(* Safety.                                                                 *)
(***************************************************************************)
Collected == {codes[i] : i \in 1 .. Len(codes)}

\* c is better than d: no worse in sender, shape and age, and better in one of
\* them, in age by a point at least; or unused where d is used, however fresh
\* d is, as long as c came in the session's window.
Better(p, c, d) ==
    /\ Affinity(p, c) >= Affinity(p, d)
    /\ Fits(p, c) \/ ~ Fits(p, d)
    /\ \/ /\ c.age <= d.age /\ (c.used => d.used)
          /\ \/ Affinity(p, c) > Affinity(p, d) \/ Decay[c.age] > Decay[d.age]
             \/ Fits(p, c) /\ ~ Fits(p, d)
       \/ ~ c.used /\ d.used /\ InWindow(p, c)

\* The code that is filled in is never worse than another eligible one: the
\* weights of the five parts do not work against each other.  ProvenanceGate
\* ranks codes by this order alone.
BetterWins ==
    \A d \in matched : \A c \in Collected :
        Eligible(page, c) => ~ Better(page, c, d)

\* An emailed code belongs to the page: its sender is the site or an alias of
\* it, or the sender or the subject names the site; on a page that showed no
\* sign of expecting an email the subject does not count.  Exempt are sites
\* below a public suffix of two labels: of ikea.com.tr the matcher takes com
\* for a part of the name, and every sender below .com shares it.
SiteName(d) == TokensOf(SubSeq(Labels[d], 1, Len(Labels[d]) - Suffix[d]))
Named(p, c) == SiteName(p.site) \cap (TokensOf(Labels[c.sender]) \cup c.subject) # {}
Kin(p, c) == p.site = c.sender \/ IsAliasMatch(p.site, c.sender)

OwnCodeOnly ==
    \A c \in matched :
        ~ c.text /\ Suffix[page.site] = 1 =>
            Kin(page, c) \/ (Named(page, c) /\ (page.positive \/ page.channels # {"email"}))
=============================================================================
