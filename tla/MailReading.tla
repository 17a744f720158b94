---------------------------- MODULE MailReading ----------------------------
(***************************************************************************)
(* From a message to a code the session has collected: extractOTPs and     *)
(* extractMagicLinks of extraction-core for the expectation that the page  *)
(* sends along, the choice of pollOnce between the two, and the code that  *)
(* processPollResult makes of it for the matcher of CodeMatching.          *)
(*                                                                         *)
(* A part of a message is a sequence of words, each with the number of     *)
(* characters it takes: where they stand decides windows, distances and    *)
(* contexts.  The kind of a word is the table one of whose phrases it is:  *)
(* whichever phrase, in whichever of the languages.  A link has what its   *)
(* address and the text of its anchor show.  Confidences are in            *)
(* ten-thousandths.                                                        *)
(***************************************************************************)
EXTENDS CodeMatching
LOCAL INSTANCE FiniteSetsExt

CONSTANTS
    Mails,   \* names of messages
    Alone,   \* bound: those of them that only come first
    Letter,  \* Letter[n]: [head, hints, plain, html, real]: what the matcher
             \* sees, which tables have a phrase of the subject ("code",
             \* "link", "danger"), the two parts, the code the sender means.
             \* A part is a sequence of [kind, at, width, chars, len, id] in
             \* the order of their places, links also with [url, anchor]
    Near     \* Near[d]: 4200 * e^(-d/45) for a distance d, and at least 800

ASSUME NearAssumption ==
    \A d \in DOMAIN Near : Near[d] \in 800 .. 4200

WordRecord ==
    [kind : STRING \ {"link"}, at : Nat, width : Nat, chars : STRING, len : Nat, id : STRING]
LinkRecord ==
    [kind : {"link"}, at : Nat, width : Nat, chars : STRING, len : Nat, id : STRING,
     url : SUBSET STRING, anchor : {None} \cup SUBSET STRING]

\* Of a message, an id is a text: that of a link is no other word's, and
\* belongs to one address, written with entities or without.
ASSUME LetterAssumption ==
    \A n \in Mails :
        LET words == Range(Letter[n].plain) \cup Range(Letter[n].html)
        IN  /\ Letter[n].head.sender \in Domains /\ Letter[n].head.age \in Ages
            /\ {Letter[n].plain, Letter[n].html} \subseteq Seq(WordRecord \cup LinkRecord)
            /\ \A v \in words : \A w \in words :
                  v.kind = "link" /\ w.id = v.id =>
                      w.kind = "link" /\ w.url \ {"escaped"} = v.url \ {"escaped"}

VARIABLE read  \* which message was read last, and the code of it that was kept

mailVars == <<page, codes, matched, read>>

-----------------------------------------------------------------------------
(***************************************************************************)
(* Places in a body.                                                       *)
(***************************************************************************)
Words(b) == 1 .. Len(b)

Begin(b, i) == b[i].at
Finish(b, i) == b[i].at + b[i].width
Size(b) == Finish(b, Len(b))
Center(b, i) == Begin(b, i) + b[i].width \div 2

\* The text of a part: what is in tags, scripts and styles is gone, and the
\* words that are left stand one space apart.
Laid(part) ==
    LET text[n \in 0 .. Len(part)] ==
            IF n = 0 THEN <<>>
            ELSE LET before == text[n - 1]
                     start == IF before = <<>> THEN 0 ELSE Size(before) + 1
                 IN  IF part[n].kind = "markup" THEN before
                     ELSE Append(before, [part[n] EXCEPT !.at = start])
    IN  text[Len(part)]

\* Codes are looked for in the plain part, or in the other if it is empty;
\* links in both, one after the other.
Opened ==
    [n \in Mails |->
        LET m == Letter[n]
        IN  [head |-> m.head, hints |-> m.hints, real |-> m.real,
             body |-> Laid(IF m.plain # <<>> THEN m.plain ELSE m.html),
             html |-> Laid(m.html), all |-> Laid(m.plain \o m.html)]]

\* A word of one of these kinds stands wholly between two characters.
Between(b, kinds, lo, hi) ==
    \E i \in Words(b) : b[i].kind \in kinds /\ Begin(b, i) >= lo /\ Finish(b, i) <= hi
Around(b, kinds, c, radius) == Between(b, kinds, c.start - radius, c.end + radius)

-----------------------------------------------------------------------------
(***************************************************************************)
(* Keywords and windows.                                                   *)
(***************************************************************************)
\* CODE_KEYWORDS_BY_LANG, as it stands there or without its diacritics.
Keywords == {"keyword", "folded"}
\* Words with an ending are keywords when they decline one of
\* LOOSE_TRAILING_BASE_FORMS ("koodin"), and not otherwise ("Codex").
Declined == {"declined"}
KeywordKinds == Keywords \cup Declined

\* "zip code", "promo code" and "source code" contain the keyword code.
LabelKinds == {"label", "promo", "program"}
\* "source code", and "codepen", where the keyword is not a word.
CodingKinds == {"program", "coding"}
Strong(b) == \E i \in Words(b) : b[i].kind \in KeywordKinds \cup {"code"} \cup LabelKinds
\* CODE_WEAK_KEYWORDS_BY_LANG
WeakKinds == {"weak"}
Weak(b) == ~ Strong(b) /\ \E i \in Words(b) : b[i].kind \in WeakKinds

\* isNonOtpKeywordMatch skips the labels, and a bare "code" close to one or
\* to talk of programs.
Anchors(b) ==
    {i \in Words(b) :
        \/ b[i].kind \in KeywordKinds
        \/ Weak(b) /\ b[i].kind \in WeakKinds
        \/ /\ b[i].kind = "code"
           /\ ~ Between(b, LabelKinds \cup CodingKinds, Begin(b, i) - 36, Finish(b, i) + 36)}

Radius == 120
LowEnd(b, i) == Max({0, Center(b, i) - Radius})
HighEnd(b, i) == Min({Size(b), Center(b, i) + Radius})

\* mergeRange joins windows that are at most 20 characters apart.
Heads(b) ==
    {i \in Anchors(b) : \A k \in Anchors(b) : k < i => LowEnd(b, i) > HighEnd(b, k) + 20}
LastOf(b, i) ==
    Max({j \in Anchors(b) : j >= i /\ \A h \in Heads(b) : h > i => j < h})
Windows(b) == {[low |-> LowEnd(b, i), high |-> HighEnd(b, LastOf(b, i))] : i \in Heads(b)}

\* A message whose only keywords are labels has no window and is read whole.
Ranges(b, p) ==
    IF Windows(b) = {} /\ p.len # None THEN {[low |-> 0, high |-> Size(b)]} ELSE Windows(b)

\* isPasswordResetManagementContext
ResetKinds == {"reset"}

\* "Brand: 123456" at the beginning of the body.
BrandForm(b) == Len(b) > 1 /\ b[1].kind = "brand" /\ b[2].kind \in {"number", "year"}

\* Variant: without the gate on the form, which a keyword-free text once lacked.
BugAdmitted(b, p) ==
    \/ Strong(b) \/ Weak(b)
    \/ p.len # None /\ ~ Between(b, ResetKinds, 0, Size(b))

\* The early returns.  The page always names a character set, which is all
\* the weak keywords ask for.
Admitted(b, p) ==
    \/ Strong(b) \/ Weak(b)
    \/ p.len # None /\ BrandForm(b) /\ ~ Between(b, ResetKinds, 0, Size(b))

-----------------------------------------------------------------------------
(***************************************************************************)
(* Candidates.                                                             *)
(***************************************************************************)
Numbers == {"number", "year", "url"}
\* With letters among the digits: "16px", "25th", the "B123" of a text that
\* names an app.
Tokens == {"css", "ordinal", "hash"}

\* The part of a word a window shows.  The pattern sees no further than the
\* window: of a longer number at its edge the rest looks like a code.
Shown(b, i, r) ==
    LET from == Max({Begin(b, i), r.low})
        to == Min({Finish(b, i), r.high})
    IN  [value |-> [of |-> <<b[i].id>>, from |-> from - Begin(b, i), len |-> to - from],
         word |-> i, start |-> from, end |-> to, len |-> to - from, charset |-> b[i].chars]

\* Two groups of three or four digits are one code.
Group(b, i) == b[i].kind \in Numbers /\ b[i].len \in 3 .. 4
Joined(b, i) ==
    [value |-> [of |-> <<b[i].id, b[i + 1].id>>, from |-> 0, len |-> b[i].len + b[i + 1].len],
     word |-> i, start |-> Begin(b, i), end |-> Finish(b, i + 1),
     len |-> b[i].len + b[i + 1].len, charset |-> "digits"]

\* A word of six letters is a code where the page expects letters.
CandidatesIn(b, r, p) ==
    {c \in {Shown(b, i, r) : i \in {j \in Words(b) : b[j].kind \in Numbers}} : c.len \in 4 .. 8}
    \cup {c \in {Shown(b, i, r) : i \in {j \in Words(b) : b[j].kind \in Tokens}} : c.len \in 4 .. 10}
    \cup {Joined(b, i) : i \in {j \in Words(b) :
            /\ j < Len(b) /\ Group(b, j) /\ Group(b, j + 1) /\ ~ (j > 1 /\ Group(b, j - 1))
            /\ Begin(b, j) >= r.low /\ Finish(b, j + 1) <= r.high}}
    \cup {Shown(b, i, r) : i \in {j \in Words(b) :
            /\ p.charset = "alnum" /\ b[j].kind = "word" /\ b[j].len = 6
            /\ Begin(b, j) >= r.low /\ Finish(b, j) <= r.high}}

\* hasStrongOtpContext knows the English phrases only.
OtpContext(b, c) == Around(b, {"keyword"}, c, 96)
Embedded(b, c) == b[c.word].kind = "url"
\* Any six digits near a word like "color" pass for a colour.
CssToken(b, c) ==
    \/ b[c.word].kind = "css"
    \/ c.len = 6 /\ c.charset = "digits" /\ Around(b, {"style"}, c, 40)
HashShape(b) == Between(b, {"hash"}, 0, Size(b))
AppHash(b, c) == b[c.word].kind = "hash" /\ HashShape(b)
Ordinal(b, c) == b[c.word].kind = "ordinal"
Commercial(b, c) == Around(b, {"promo"}, c, 96)
Software(b, c) == ~ OtpContext(b, c) /\ Around(b, {"software"} \cup CodingKinds, c, 96)
StrayYear(b, c) == b[c.word].kind = "year" /\ ~ OtpContext(b, c)

\* isPlausibleOtpCandidate
Plausible(b, c) ==
    /\ ~ Embedded(b, c) /\ ~ CssToken(b, c) /\ ~ AppHash(b, c) /\ ~ Ordinal(b, c)
    /\ ~ Commercial(b, c) /\ ~ Software(b, c) /\ ~ StrayYear(b, c)
    /\ ~ Between(b, ResetKinds, c.start - 96, c.start)

\* hasWeakOtpCandidateSupport
ShareKinds == {"share"}
Compact(b) == Size(b) <= 260
Supported(b, p, c) ==
    /\ p.len = None \/ c.len = p.len
    /\ p.charset = "digits" => c.charset = "digits"
    /\ ~ Around(b, ResetKinds, c, 112)
    /\ HashShape(b) \/ Compact(b) \/ Around(b, ShareKinds, c, 112)

Viable(b, p) ==
    {c \in UNION {CandidatesIn(b, r, p) : r \in Ranges(b, p)} :
        Plausible(b, c) /\ (Weak(b) => Supported(b, p, c))}

-----------------------------------------------------------------------------
(***************************************************************************)
(* Confidence.                                                             *)
(***************************************************************************)
Far == 100000
Distance(b, c) ==
    LET apart(i) == Max({c.start - Center(b, i), Center(b, i) - c.end, 0})
    IN  Min({apart(i) : i \in Anchors(b)} \cup {Far})

KeywordSignal(d) ==
    CASE d = Far -> -500 [] d \in DOMAIN Near -> Near[d] [] OTHER -> 800

Footer(b, c) == Between(b, {"help"}, c.end, c.end + 160)

Clamp(n) == Max({0, Min({10000, n})})
Confidence(m, p, c) ==
    Clamp(5000 + 100 * ShapeScore(p, c)
          + KeywordSignal(Distance(m.body, c))
          + (IF "code" \in m.hints THEN 800 ELSE 0)
          - (IF Weak(m.body) THEN 1400 ELSE 0)
          - (IF Footer(m.body, c) THEN 2000 ELSE 0))

\* isNotPhoneLike looks 40 characters around the code.
PhoneLike(b, c) == Around(b, {"phone"}, c, 40)

\* isNotTransactionReference: a label stands directly before the digits.
Reference(b, c) ==
    c.charset = "digits" /\ c.word > 1 /\ b[c.word - 1].kind = "ref"

\* isNotContactMetadata: the block of an address or a registrar stands 40
\* characters around the code.
Contact(b, c) == Around(b, {"contact"}, c, 40)

Threshold == 5800
Precise(m, p) ==
    IF ~ Admitted(m.body, p) THEN {}
    ELSE {c \in Viable(m.body, p) :
            /\ ~ PhoneLike(m.body, c) /\ ~ Reference(m.body, c) /\ ~ Contact(m.body, c)
            /\ Confidence(m, p, c) >= Threshold}

\* dedupeByCode: of one code the best place is kept.
Best(m, p, cands) ==
    {c \in cands : \A d \in cands \ {c} :
        d.value = c.value =>
            \/ Confidence(m, p, c) > Confidence(m, p, d)
            \/ /\ Confidence(m, p, c) = Confidence(m, p, d)
               /\ Distance(m.body, c) <= Distance(m.body, d)}

\* The sort of extractOTPs, which comes after dedupeByCode: the confidence,
\* the shape, the distance, the length.
First(k, l) == \E n \in 1 .. Len(k) : k[n] > l[n] /\ \A i \in 1 .. n - 1 : k[i] = l[i]

\* Variant: the shape is taken to be in the confidence already, which is capped.
BugAhead(m, p, c, d) ==
    LET key(x) == <<Confidence(m, p, x), - Distance(m.body, x), - x.len>>
    IN  First(key(c), key(d))
Ahead(m, p, c, d) ==
    LET key(x) == <<Confidence(m, p, x), ShapeScore(p, x), - Distance(m.body, x), - x.len>>
    IN  First(key(c), key(d))

\* extractOTPs(...)[0]
TopOtp(m, p) ==
    LET precise == Best(m, p, Precise(m, p))
    IN  {c \in precise : \A d \in precise : ~ Ahead(m, p, d, c)}

-----------------------------------------------------------------------------
(***************************************************************************)
(* Magic links.  Of an address: "http", "warning" (DANGEROUS_LINK_KEYWORDS *)
(* has a part of it), "reset" and "destroy" (the path), "tracker", "hint", *)
(* "login" (a path that also hints), "escaped" (the HTML part writes it    *)
(* with entities, which are not decoded).  Of the text of an anchor:       *)
(* "warning", "danger" (HARD_DANGER_BODY_KEYWORDS has a part of it),       *)
(* "magic" (a phrase of MAGIC_LINK_KEYWORDS), "invite" (it begins with     *)
(* "continue", "confirm", ...), "signin" and "sso".  A bare address has    *)
(* the text None.                                                          *)
(***************************************************************************)
MagicKinds == {"magic"}
DangerKinds == {"danger", "reset"}

IsLink(w) == w.kind = "link"
Warned(url) == "warning" \in url

\* harvestAnchors leaves those out whose address has a warning.
Harvested(m) ==
    {i \in Words(m.html) :
        IsLink(m.html[i]) /\ m.html[i].anchor # None /\ ~ Warned(m.html[i].url)}
Bare(m) == {i \in Words(m.all) : IsLink(m.all[i]) /\ m.all[i].anchor = None}

\* Variant: an address is offered although an anchor leads there.
BugUnlisted(m) == Bare(m)

\* An address that is an anchor's is not looked at again, unless the two are
\* not written alike.
Unlisted(m) ==
    {i \in Bare(m) : \A j \in Harvested(m) :
        m.html[j].id = m.all[i].id => "escaped" \in m.html[j].url}

Dangerous(w) ==
    w.kind \in DangerKinds \/ (IsLink(w) /\ w.anchor # None /\ "danger" \in w.anchor)

\* hasLocalDangerContext: in the HTML part around an anchor, in both around
\* an address.  What the anchors of other links say is text like any other.
DangerNear(text, i) ==
    \E k \in Words(text) \ {i} :
        /\ Dangerous(text[k])
        /\ Begin(text, k) >= Begin(text, i) - 240 /\ Finish(text, k) <= Finish(text, i) + 80

Places(m) == {<<m.html, i>> : i \in Harvested(m)} \cup {<<m.all, i>> : i \in Unlisted(m)}
Links(m) ==
    {[id |-> l[1][l[2]].id, url |-> l[1][l[2]].url,
      anchor |-> IF l[1][l[2]].anchor = None THEN {} ELSE l[1][l[2]].anchor,
      danger |-> DangerNear(l[1], l[2])] : l \in Places(m)}

\* anchorContainsIntent, hasStrongLoginEvidence
Invites(l) == l.anchor \cap {"magic", "invite"} # {}
LogsIn(l) == "login" \in l.url \/ l.anchor \cap {"signin", "sso"} # {}
Hints(url) == url \cap {"hint", "login"} # {}

BodyIntent(m) ==
    \/ \E i \in Words(m.all) : m.all[i].kind \in MagicKinds
    \/ \E i \in Words(m.all) :
            IsLink(m.all[i]) /\ m.all[i].anchor # None /\ "magic" \in m.all[i].anchor

\* The early returns of extractMagicLinks.
LinksWanted(m) ==
    /\ "danger" \notin m.hints
    /\ \/ BodyIntent(m) \/ "link" \in m.hints
       \/ \E i \in Harvested(m) : Hints(m.html[i].url)
       \/ \E i \in Bare(m) : Hints(m.all[i].url)

ResetPath(url) == "reset" \in url
DestructivePath(url) == "destroy" \in url
Tracker(url) == "tracker" \in url

\* scoreLinkCandidate returns null
Refused(l) ==
    \/ "http" \in l.url
    \/ Warned(l.url) \/ Warned(l.anchor)
    \/ l.danger /\ ~ LogsIn(l)
    \/ ResetPath(l.url) \/ DestructivePath(l.url) \/ Tracker(l.url)

\* Sessions name no page domain and no brands.
LinkScore(m, l) ==
    Clamp(3000
          + (IF BodyIntent(m) \/ Invites(l) THEN 1800 ELSE 0)
          + (IF Hints(l.url) THEN 2400 ELSE 0)
          + (IF "link" \in m.hints THEN 1000 ELSE 0)
          + (IF Invites(l) THEN 1000 ELSE 0))

\* extractMagicLinks(...)[0]
TopLinks(m) ==
    LET offered == IF LinksWanted(m) THEN {l \in Links(m) : ~ Refused(l)} ELSE {}
    IN  {l \in offered :
            /\ LinkScore(m, l) >= 5000
            /\ \A k \in offered : LinkScore(m, k) <= LinkScore(m, l)}
TopScore(m) == Max({LinkScore(m, l) : l \in TopLinks(m)} \cup {0})

-----------------------------------------------------------------------------
(***************************************************************************)
(* What a poll keeps of a message.                                         *)
(***************************************************************************)
MinScore == 6000

Stored(m, c) ==
    [text |-> m.head.text, sender |-> m.head.sender, subject |-> m.head.subject, age |-> m.head.age,
     len |-> c.len, charset |-> c.charset, used |-> FALSE, value |-> c.value]

\* "magic-link:" and the URL: of neither character set.
LinkAsCode(m, l) ==
    Stored(m, [len |-> 40, charset |-> "other",
               value |-> [of |-> <<l.id>>, from |-> 0, len |-> 40]])

\* The code, unless the link scores more.
Hits(m, p) ==
    LET link == TopScore(m)
        codesIn == {c \in TopOtp(m, p) :
                        Confidence(m, p, c) >= MinScore /\ Confidence(m, p, c) >= link}
    IN  IF codesIn = {} /\ link >= MinScore THEN {LinkAsCode(m, l) : l \in TopLinks(m)}
        ELSE {Stored(m, c) : c \in codesIn}

\* Of a page extraction sees the expectation only.
Expectations == {[len |-> p.len, charset |-> p.charset] : p \in Pages}
HitTable == [e \in Expectations |-> [n \in Mails |-> Hits(Opened[n], e)]]
HitsFor(n, p) == HitTable[[len |-> p.len, charset |-> p.charset]][n]

MailInit == Init /\ read = None

\* pollOnce reads a message.  Of candidates that tie in everything the first
\* is taken.
Read(n) ==
    /\ read = None /\ matched = {} /\ Len(codes) < MaxCodes
    /\ n \in Alone => codes = <<>>
    /\ \/ HitsFor(n, page) = {} /\ read' = [mail |-> n, code |-> {}]
       \/ \E c \in HitsFor(n, page) : read' = [mail |-> n, code |-> {c}]
    /\ UNCHANGED vars

\* processPollResult keeps the candidate as an arrival, or drops it.
Keep ==
    /\ read # None
    /\ \E c \in read.code : Collect(c)
    /\ read' = None
Drop ==
    /\ read # None
    /\ read' = None
    /\ UNCHANGED vars

MailNext ==
    \/ \E n \in Mails : Read(n)
    \/ Keep
    \/ Drop
    \/ read = None /\ Match /\ UNCHANGED read

MailSpec == MailInit /\ [][MailNext]_mailVars

-----------------------------------------------------------------------------
(***************************************************************************)
(* Safety.                                                                 *)
(***************************************************************************)
Whole(b, j) == Shown(b, j, [low |-> 0, high |-> Size(b)])

\* The message announces its code: it follows a keyword within a few
\* characters, it has the shape the page expects (any, of the
\* only keyword, when the page says none), and nothing that the
\* extractor vetoes by design stands near it.  A number before the keyword is
\* no announcement when it is closer.  A link may score more than the code
\* when a footer follows it or the page expects no length.
Announced(m, p) ==
    \E i, j \in Words(m.body) :
        LET b == m.body
            c == Whole(b, j)
        IN  /\ b[i].kind \in KeywordKinds /\ j > i /\ b[j].kind = "number"
            /\ Begin(b, j) - Finish(b, i) <= 8
            /\ m.real = c.value /\ c.len \in 4 .. 8
            /\ p.charset = "digits"
            /\ p.len = c.len \/ (p.len = None /\ Anchors(b) = {i})
            /\ ~ Around(b, {"promo", "reset", "phone", "contact", "style"}, c, 96)
            /\ ~ Reference(b, c) /\ ~ Software(b, c)
            /\ TopScore(m) > 0 => p.len # None /\ ~ Footer(b, c)
            /\ \A k \in 1 .. i : b[k].kind \in Numbers => Distance(b, Whole(b, k)) > Distance(b, c)

\* A code that is announced is the one the session collects, whichever other
\* numbers, prose, footers and links the message has.
AnnouncedWins ==
    read # None =>
        (Announced(Opened[read.mail], page) => {c.value : c \in read.code} = {Opened[read.mail].real})

\* An anchor that gives no reason to refuse where it leads.
Harmless(m, i) ==
    LET w == m.html[i]
    IN  /\ ~ Warned(w.anchor)
        /\ DangerNear(m.html, i) => LogsIn(w)

\* A link is taken only where the subject names no dangerous purpose, and
\* where one of the anchors that lead to its address, if there are any, is
\* harmless: the bare address in the other part of the message does not make
\* up for a warning on every anchor.  Exempt are addresses that the HTML part
\* writes with entities.
GroundedLink(m, id) ==
    LET leading == {i \in Words(m.html) : m.html[i].id = id /\ m.html[i].anchor # None}
    IN  /\ "danger" \notin m.hints
        /\ \/ leading = {}
           \/ \E i \in leading : Harmless(m, i) \/ "escaped" \in m.html[i].url

\* A number is only collected when a keyword stands within 140 characters of
\* it (the windows reach 120 and bridge gaps of 20).  Exempt are messages
\* without a keyword that have a label or open with a number in the form of a
\* brand: they are read whole.
GroundedNumber(b, i) ==
    \/ \E k \in Words(b) : b[k].id = b[i].id /\ Distance(b, Whole(b, k)) <= 140
    \/ Anchors(b) = {} /\ (Strong(b) \/ BrandForm(b))

\* What a session collects has its grounds in the message.
Grounded ==
    read # None =>
        LET m == Opened[read.mail]
        IN  \A c \in read.code :
                /\ \A l \in Links(m) : c.value.of = <<l.id>> => GroundedLink(m, l.id)
                /\ \A i \in Words(m.body) :
                       c.value.of[1] = m.body[i].id /\ m.body[i].kind \in Numbers \cup Tokens =>
                           GroundedNumber(m.body, i)

\* "Allow all-letter codes only when explicitly expected. Default false:
\* ordinary prose words near "code" are otherwise indistinguishable from
\* alphabetic OTPs" (otp-extractor.ts).  No page says that it expects letters
\* only, so a word of prose should never be collected as a code; but every
\* field that is not numeric expects "alnum", and that counts as such.
ProseNeverCode ==
    read # None =>
        \A c \in read.code : \A j \in Words(Opened[read.mail].body) :
            LET word == Opened[read.mail].body[j]
            IN  word.kind = "word" => c.value.of[1] # word.id
=============================================================================
