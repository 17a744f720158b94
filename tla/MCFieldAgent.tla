---------------------------- MODULE MCFieldAgent ----------------------------
(***************************************************************************)
(* Layouts of a few inputs, where two cells make a group and four similar  *)
(* inputs are a crowd, and looks with every phrase that counts at every    *)
(* place it is read from.                                                  *)
(***************************************************************************)
EXTENDS FieldAgent

-----------------------------------------------------------------------------
Input(max, seen, path, name) ==
    [type |-> "text", max |-> max, seen |-> seen, path |-> path, name |-> name,
     cell |-> FALSE, otp |-> FALSE]
Row == <<"row", "form">>
Cell == Input(1, "shown", Row, <<>>)
Behindhand(seen) == Input(6, seen, <<"box", "form">>, <<>>)
Leader(path) == Input(3, "shown", path, <<"digit", 0>>)
Follower(k) == Input(1, "shown", Row, <<"digit", k>>)
InWrapper(w, k) == Input(0, "shown", <<w, "row", "form">>, <<"digit", k>>)

MCLayout ==
    [single  |-> <<Input(0, "shown", <<"form">>, <<>>)>>,
     cells   |-> <<Cell, Cell>>,
     pairs   |-> [k \in 1 .. 2 |-> Input(2, "shown", Row, <<>>)],
     shadow  |-> <<Behindhand("tiny"), Cell, Cell>>,
     small   |-> <<Behindhand("small"), Cell, Cell>>,
     veiled  |-> <<Behindhand("veiled"), Cell, Cell>>,
     led     |-> <<Leader(Row), Follower(1), Follower(2)>>,
     ledout  |-> <<Leader(<<"lead", "form">>), Follower(1), Follower(2)>>,
     wrapped |-> <<InWrapper("one", 1), InWrapper("two", 2)>>,
     crowd   |-> [k \in 1 .. 4 |-> Cell],
     marked  |-> [k \in 1 .. 4 |-> Input(1, "shown", <<"marked", "form">>, <<>>)]]

-----------------------------------------------------------------------------
Blank ==
    [bad |-> {}, url |-> {}, token |-> FALSE, ident |-> "none", box |-> FALSE,
     pattern |-> FALSE, label |-> {}, placeholder |-> {}, described |-> {}, close |-> {},
     nav |-> {}, far |-> {}, title |-> {}, password |-> FALSE, crowd |-> FALSE,
     mailbox |-> FALSE, button |-> "other", shown |-> TRUE]
Token == [Blank EXCEPT !.token = TRUE]
Exact == [Blank EXCEPT !.ident = "exact"]
Labelled == [Blank EXCEPT !.label = {"enter"}, !.placeholder = {"digits"}, !.close = {"code"}]

Bases ==
    <<Token, Exact, Labelled, [Blank EXCEPT !.ident = "contains"], [Blank EXCEPT !.box = TRUE],
      Blank>>
Phrases ==
    <<{"setup"}, {"captcha"}, {"authenticator"}, {"sms"}, {"email"}, {"email", "authenticator"},
      {"referral"}, {"payment"}, {"booking", "delivery"}, {"password"}, {"password", "allow"},
      {"login"}, {"phone", "email"}>>
Spot == <<"label", "placeholder", "described", "close", "nav", "far", "title">>
Phrased(base, kinds, place) == [base EXCEPT ![place] = @ \cup kinds]

Odd(base) ==
    <<base, [base EXCEPT !.bad = {"card"}], [base EXCEPT !.url = {"setup"}],
      [base EXCEPT !.url = {"setup", "login"}],
      [base EXCEPT !.mailbox = TRUE], [base EXCEPT !.crowd = TRUE],
      [base EXCEPT !.pattern = TRUE, !.crowd = TRUE],
      [base EXCEPT !.password = TRUE, !.button = "login"]>>

Plain == <<Token, Exact, [Exact EXCEPT !.url = {"setup"}], [Exact EXCEPT !.shown = FALSE], Blank>>
Nth(list, k) == list[(k % Len(list)) + 1]
MCLook ==
    LET b == Len(Bases)
        bp == b * Len(Phrases)
    IN  Plain
        \o [k \in 1 .. bp * Len(Spot) |->
              Phrased(Nth(Bases, k), Nth(Phrases, k \div b), Nth(Spot, k \div bp))]
        \o [k \in 1 .. b * 8 |-> Nth(Odd(Nth(Bases, k)), k \div b)]

MCMoving ==
    [shadow |-> [r \in {1, 2} |-> IF r = 1 THEN {2} ELSE {1}],
     cells  |-> [r \in {1} |-> {1, 4}]]
MCStill ==
    ({"single", "wrapped"} \X (DOMAIN MCLook)) \cup ((DOMAIN MCLayout) \X (1 .. 5))

-----------------------------------------------------------------------------
(***************************************************************************)
(* Sites: one control of every kind, distance and label; a button without  *)
(* a telling label beside one with such a label; one control with a flaw;  *)
(* hosts and texts; and sites that change.                                 *)
(***************************************************************************)
All == {"form", "box", "scope", "panel"}
Verify ==
    [tag |-> "submit", role |-> FALSE, says |-> {"safe"}, within |-> All, span |-> 1,
     corner |-> 4, first |-> TRUE, after |-> TRUE, zone |-> FALSE, shown |-> TRUE,
     enabled |-> TRUE]
Search == [Verify EXCEPT !.says = {"word"}]
Pay == [Verify EXCEPT !.says = {"word"}, !.first = FALSE]
Resend == [Verify EXCEPT !.says = {"danger", "safe"}]
Kinds ==
    <<Verify, [Verify EXCEPT !.tag = "button"], [Verify EXCEPT !.tag = "anchor"],
      [Verify EXCEPT !.tag = "other", !.role = TRUE],
      [Verify EXCEPT !.tag = "button", !.role = TRUE],
      [Verify EXCEPT !.tag = "anchor", !.role = TRUE]>>
Labels == <<{"safe"}, {"word"}, {"danger", "safe"}, {}>>
Holders == <<All, {"box", "panel"}, {}>>

Plot == [host |-> "plain", text |-> {}, buttons |-> <<Verify>>]
With(buttons) == [Plot EXCEPT !.buttons = buttons]
On(host, text) == [Plot EXCEPT !.host = host, !.text = text]

Changing ==
    <<With(<<Verify>>), On("plain", {"pay"}), With(<<Search, Resend>>), With(<<>>),
      With(<<[Verify EXCEPT !.tag = "anchor", !.corner = 1], Search>>)>>
Single ==
    [k \in 1 .. 6 * 4 * 3 * 5 |->
        With(<<[Nth(Kinds, k) EXCEPT
                    !.says = Nth(Labels, k \div 6), !.within = Nth(Holders, k \div 24),
                    !.span = ((k \div 72) % 5) + 1, !.corner = 5]>>)]
Beside ==
    [k \in 1 .. 6 * 5 * 3 * 2 |->
        LET safe == [Nth(Kinds, k) EXCEPT !.span = ((k \div 6) % 5) + 1, !.first = FALSE]
            other == [Search EXCEPT !.within = Nth(Holders, k \div 30)]
        IN  With(IF k \div 90 = 0 THEN <<other, safe>> ELSE <<safe, other>>)]
Flawed ==
    [k \in 1 .. 24 |->
        LET b == Nth(Kinds, k)
        IN  With(<<CASE k \div 6 = 0 -> [b EXCEPT !.shown = FALSE]
                     [] k \div 6 = 1 -> [b EXCEPT !.enabled = FALSE]
                     [] k \div 6 = 2 -> [b EXCEPT !.zone = TRUE]
                     [] OTHER -> [b EXCEPT !.after = FALSE]>>)]
Hosts == <<"plain", "bank", "provider", "payhost">>
Texts == <<{}, {"pay"}, {"banking"}, {"card"}, {"card", "address"}, {"card", "mailed"}>>
Elsewhere == [k \in 1 .. 24 |-> On(Nth(Hosts, k), Nth(Texts, k \div 4))]
MCSite == <<Plot>> \o Changing \o Elsewhere \o Single \o Beside \o Flawed

Varied == 2 .. Len(Changing) + 1
Fixed == (2 .. Len(MCSite)) \ Varied
MCTurns == [w \in DOMAIN MCSite |-> IF w \in Varied THEN Varied \ {w} ELSE {}]

Rule(pref, listed, strict) ==
    [pref |-> pref, listed |-> listed, strict |-> strict, default |-> TRUE]
MCDefaultRules == Rule("none", FALSE, FALSE)
MCRules ==
    {MCDefaultRules, Rule("off", FALSE, FALSE), Rule("on", TRUE, TRUE), Rule("none", FALSE, TRUE)}
MCOptions ==
    [w \in DOMAIN MCSite |->
        IF w = 1 THEN [levels |-> {"manual", "autofill"}, rules |-> {}]
        ELSE IF w \in Varied
        THEN [levels |-> {"clipboard", "autofill", "full-automation"}, rules |-> MCRules]
        ELSE [levels |-> {}, rules |-> {}]]
MCScenes ==
    ({"cells"} \X {1} \X Fixed \X {MCDefaultRules}) \cup ({"cells"} \X {1} \X Varied \X MCRules)
        \cup ({"cells"} \X {1} \X (2 .. Len(Changing \o Elsewhere)) \X {Rule("none", FALSE, TRUE)})
=============================================================================
