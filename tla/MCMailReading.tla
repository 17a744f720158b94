--------------------------- MODULE MCMailReading ---------------------------
(***************************************************************************)
(* An instance of MailReading.  Announcements: what may stand before and   *)
(* after a keyword and its code.  Notices: numbers without one.  Linked    *)
(* messages: an address in both parts, another one, and what is said       *)
(* around them.  Plain messages differ in their header: a site with an     *)
(* alias, one below com.tr and one on a shared host; senders that are,     *)
(* name or do not know it.                                                 *)
(***************************************************************************)
EXTENDS MailReading, TLC

\* 4200 * e^(-d/45), rounded.
NearRow ==
    <<4200, 4108, 4017, 3929, 3843, 3758, 3676, 3595, 3516, 3439, 3363,
      3289, 3217, 3146, 3077, 3009, 2943, 2879, 2815, 2753, 2693, 2634,
      2576, 2519, 2464, 2410, 2357, 2305, 2254, 2205, 2156, 2109, 2063,
      2017, 1973, 1930, 1887, 1846, 1805, 1765, 1727, 1689, 1652, 1615,
      1580, 1545, 1511, 1478, 1445, 1414, 1383, 1352, 1323, 1293, 1265,
      1237, 1210, 1183, 1157, 1132, 1107, 1083, 1059, 1036, 1013, 991, 969,
      948, 927, 906, 887, 867, 848, 829, 811>>
MCNear == [d \in 0 .. 74 |-> NearRow[d + 1]]

Word(kind, width) ==
    [kind |-> kind, at |-> 0, width |-> width, chars |-> "alnum", len |-> width, id |-> kind]
Num(id, len) ==
    [kind |-> "number", at |-> 0, width |-> len, chars |-> "digits", len |-> len, id |-> id]
Gap(width) == Word("filler", width)
Key == Word("keyword", 17)
Real == Num("real", 6)
Year == [Num("year", 4) EXCEPT !.kind = "year"]
Value(ids, len) == [of |-> ids, from |-> 0, len |-> len]

Token(kind, len) == [Num(kind, len) EXCEPT !.kind = kind, !.chars = "alnum"]
\* A link to the address id, in its anchor or bare.
Link(id, url, anchor) ==
    [kind |-> "link", at |-> 0, width |-> 40, chars |-> "alnum", len |-> 40, id |-> id,
     url |-> url, anchor |-> anchor]
Button == Link("main", {"hint"}, {"invite"})

\* A lead, a keyword and its code, a gap, another number and an ending.
Lead == << <<>>, <<Word("help", 9)>>, <<Word("word", 6)>>, <<Num("order", 6)>>,
           <<Word("label", 8), Num("order", 5)>>, <<Word("ref", 4), Num("order", 6)>>,
           <<Token("css", 4)>>, <<Token("ordinal", 4), Word("software", 6)>>,
           <<Word("markup", 90), Word("contact", 30), Num("order", 5), Gap(94)>> >>
Intro == <<Key, Word("folded", 17), Word("declined", 6)>>
Room == << <<>>, <<Gap(20)>>, <<Gap(94)>> >>
Other == << <<>>, <<Num("order", 6)>>, <<Num("long", 12)>>, <<Year>>,
            <<Num("g1", 3), Num("g2", 3)>>, <<Key, Num("order", 7)>>, <<Token("hash", 4)>>,
            <<Word("style", 5), Num("order", 6)>> >>
Ending == << <<>>, <<Word("help", 9)>>, <<Word("magic", 12), Button>>,
           <<Word("help", 9), Word("magic", 12), Button>> >>
Opener == <<Word("brand", 7), Word("label", 8), Word("weak", 8), Word("code", 4),
            Word("reset", 19), Gap(20), Word("Codex", 5)>>
End == << <<>>, <<Key>>, <<Word("weak", 8)>>, <<Word("promo", 10)>>, <<Word("phone", 5)>>,
          <<Word("coding", 6)>>, <<Word("weak", 8), Token("hash", 4)>>, <<Word("phone", 5), Gap(94), Num("order", 6)>> >>

\* What the anchors and the address of the main link show.
Main == << Link("main", {"hint"}, {"invite"}), Link("main", {"hint"}, {"warning"}),
           Link("main", {"hint", "escaped"}, {"warning"}), Link("main", {"login"}, {}),
           Link("main", {}, {"signin", "invite"}), Link("main", {}, {"magic"}),
           Link("main", {"http", "hint"}, {"invite"}), Link("main", {"reset", "hint"}, {}),
           Link("main", {"destroy", "hint"}, {}), Link("main", {"tracker"}, {"invite"}),
           Link("main", {"warning", "hint"}, {"invite"}), Link("main", {}, {"sso"}) >>
Before == << <<>>, <<Word("danger", 19)>>, <<Word("reset", 19), Gap(240)>>, <<Word("magic", 12)>> >>
After(main) ==
         << <<>>, <<Word("reset", 19)>>, <<Gap(80), Word("danger", 19)>>,
            <<Gap(20), Link("other", {"hint"}, {})>>, <<Gap(300), [main EXCEPT !.anchor = {}]>>,
            <<Gap(20), Link("other", {"hint"}, {"danger"})>> >>
Hint == << {}, {"link"}, {"danger", "link"} >>

Mail(head, hints, plain, html, len) ==
    [head |-> head, hints |-> hints, plain |-> plain, html |-> html, real |-> Value(<<"real">>, len)]
Header(text, sender, subject, age) ==
    [text |-> text, sender |-> sender, subject |-> subject, age |-> age]

Sender == <<"dropbox.com", "dropboxmail.com", "dropbox-news.io", "mailgun.org", "github.io">>
Age == <<0, 60, 120, 500>>
Subject == <<{}, {"dropbox", "github"}>>

\* The part of number n in place k of a row of choices that starts at n = 0.
Pick(n, row, below) == row[((n \div below) % Len(row)) + 1]
Own == Header(FALSE, "dropbox.com", {}, 60)
HasLink(b) == \E i \in 1 .. Len(b) : IsLink(b[i])

Announcement(n) ==
    LET b == Pick(n, Lead, 1) \o <<Pick(n \div 9, Intro, 1)>> \o <<Gap(3), Real>>
             \o Pick(n, Room, 288) \o Pick(n, Other, 9) \o Pick(n, Ending, 72)
    IN  Mail(Own, Pick(n, <<{"code"}, {}, {"code"}>>, 288) \cup (IF HasLink(b) THEN {"link"} ELSE {}),
             <<>>, b, 6)
Notice(n) ==
    Mail(Own, {}, <<Pick(n, Opener, 1)>> \o <<Real>>
             \o Pick(n, << <<>>, <<Gap(20)>>, <<Gap(150)>> >>, 56) \o Pick(n, End, 7), <<>>, 6)
\* The plain part has the address of the link without its anchor.
Linked(n) ==
    LET main == Pick(n, Main, 1)
        b == Pick(n, Before, 12)
    IN  Mail(Own, Pick(n, Hint, 48),
             IF Pick(n, <<TRUE, FALSE>>, 864) THEN b \o <<[main EXCEPT !.anchor = None]>> ELSE <<>>,
             b \o <<main>> \o Pick(n, After(main), 144), 6)
Plain(n) ==
    Mail(Header(FALSE, Pick(n, Sender, 1), Pick(n, Subject, 40), Pick(n, Age, 5)), {},
         <<Key, Num("real", Pick(n, <<6, 8>>, 20))>>, <<>>, Pick(n, <<6, 8>>, 20))
Text(n) == Mail(Header(TRUE, "mailgun.org", {}, Pick(n, Age, 1)), {}, <<Key, Num("real", 6)>>, <<>>, 6)

MCMails == 1 .. 864 + 168 + 1728 + 80 + 4
MCAlone == 1 .. 2760
MCLetter ==
    [n \in MCMails |->
        IF n <= 864 THEN Announcement(n - 1)
        ELSE IF n <= 1032 THEN Notice(n - 865)
        ELSE IF n <= 2760 THEN Linked(n - 1033)
        ELSE IF n <= 2840 THEN Plain(n - 2761)
        ELSE Text(n - 2841)]

MCLabels ==
    "dropbox.com" :> <<{"dropbox"}, {"com"}>>
    @@ "dropboxmail.com" :> <<{"dropboxmail"}, {"com"}>>
    @@ "ikea.com.tr" :> <<{"ikea"}, {"com"}, {"tr"}>>
    @@ "dropbox-news.io" :> <<{"dropbox", "news"}, {"io"}>>
    @@ "mailgun.org" :> <<{"mailgun"}, {"org"}>>
    @@ "github.io" :> <<{"github"}, {"io"}>>
MCSuffix == [d \in Domains |-> IF d = "ikea.com.tr" THEN 2 ELSE 1]
MCCanonical == "dropboxmail.com" :> "dropbox.com"

\* 250 * e^(-a/120), rounded.
MCDecay == 0 :> 250 @@ 60 :> 152 @@ 120 :> 92 @@ 500 :> 4

MCCodes ==
    [text : BOOLEAN, sender : Domains, subject : {{}, {"dropbox", "github"}},
     age : Ages, len : {6, 8}, charset : {"digits"}, used : {FALSE}]

MCPages ==
    {p \in [site : {"dropbox.com", "ikea.com.tr", "github.io"},
            channels : {{"email"}, {"email", "sms"}}, positive : BOOLEAN,
            age : {60}, len : {6, None}, charset : {"digits", "alnum"}] :
        p.len = None \/ p.charset = "alnum" => p.site = "dropbox.com" /\ p.positive}
=============================================================================
