--------------------------- MODULE FieldDetection ---------------------------
(***************************************************************************)
(* lib/detection: whether an input asks for a code that arrives by mail or *)
(* text message.  Tier 1 (tier1-fast.ts) goes by attributes, Tier 2        *)
(* (tier2-deep.ts) adds up points, and each has vetoes over the texts      *)
(* around the input: the channel the code comes by (signal-classifier.ts)  *)
(* and what else the field could be for (context-validator.ts,             *)
(* non-email-contexts.ts).                                                 *)
(*                                                                         *)
(* A look is what one sees of an input and the page around it:             *)
(*   bad         what its attributes name that is no code                  *)
(*   url         what the address of the page names                        *)
(*   token, ident, box, pattern      attributes that speak for it          *)
(*   label, placeholder, described   its own texts                         *)
(*   close, nav  texts up to 4 containers away, nav in navigation          *)
(*   far         texts further away, up to its form or dialog              *)
(*   title       the title of the page                                     *)
(*   password, crowd, mailbox        other inputs of the form: a password, *)
(*                                   several texts, an e-mail address      *)
(*   button      what the buttons are for                                  *)
(* A text is the set of the kinds of phrases in it, whichever phrase of    *)
(* whichever language of the tables that is; {} is no text at all.         *)
(***************************************************************************)
EXTENDS SplitGroups
LOCAL INSTANCE FiniteSetsExt

-----------------------------------------------------------------------------
(***************************************************************************)
(* The channel (classifyDeliveryChannel).  A text that names e-mail beside *)
(* another channel is for e-mail.                                          *)
(***************************************************************************)
EmailPhrases == {"email"}
AuthenticatorPhrases == {"authenticator"}
SmsPhrases == {"sms"}
MaskedNumbers == {"phone"}
Says(text, phrases) == text \cap phrases # {}

Channel(text) ==
    CASE Says(text, EmailPhrases) -> "email"
      [] ~Says(text, EmailPhrases) /\ Says(text, AuthenticatorPhrases) -> "authenticator"
      [] Says(text, SmsPhrases \cup MaskedNumbers) /\ ~Says(text, EmailPhrases \cup AuthenticatorPhrases) -> "sms"
      [] OTHER -> "unknown"

\* Nobody can read the code that comes by this channel.
Unreadable(text, sms) ==
    Channel(text) = "authenticator" \/ (Channel(text) = "sms" /\ ~sms)

\* Whether detectedChannels of the result has the channel of text messages.
BySms(text) == Says(text, SmsPhrases \cup MaskedNumbers)

-----------------------------------------------------------------------------
(***************************************************************************)
(* The context (validateContext).                                          *)
(***************************************************************************)
Direct(look) == look.label \cup look.placeholder \cup look.described

SetupPhrases == {"setup"}
CommercialPhrases == {"ecommerce", "developer", "referral"}
PasswordPhrases == {"password"}
LoginPhrases == {"login"}
AllowPhrases == {"allow"}
CaptchaPhrases == {"captcha"}

\* classifyNonEmailIntent: not when the text tells that the code was mailed.
Intents == {"api", "address", "payment", "booking", "product", "telecom", "government",
            "account_setup"}
DeliveryPhrases == {"delivery"}
OtherIntent(text) == Says(text, Intents) /\ ~Says(text, DeliveryPhrases)

\* An image to read characters from: near the field only when it has no text.
Captcha(direct, near) == Says(IF direct = {} THEN near ELSE direct, CaptchaPhrases)

\* The phrases that speak for a code override the weaker refusals.
Refused(text, login) ==
    /\ ~Says(text, AllowPhrases)
    /\ \/ Says(text, CommercialPhrases \cup PasswordPhrases)
       \/ OtherIntent(text)
       \/ Says(login, LoginPhrases)

Valid(text, direct, near, login) ==
    ~(Says(text, SetupPhrases) \/ Captcha(direct, near) \/ Refused(text, login))

-----------------------------------------------------------------------------
(***************************************************************************)
(* Tier 1 (detectTier1).                                                   *)
(***************************************************************************)
\* isExcluded, and the attributes checked before it.
ExcludedNames == {"captcha", "password", "person", "address", "card", "commercial", "api"}
Misnamed(look) == Says(look.bad, ExcludedNames \cup {"zip"})

\* isSetupPage: but pages to log in or to verify.
SetupPage(look) == "setup" \in look.url /\ "login" \notin look.url

\* getNearbyText, and getBoundedSemanticContextText for an autocomplete token.
NearFast(look) == look.close \cup IF look.token THEN look.far ELSE look.nav

\* The attribute that matches, as a confidence in percent.
Match(look) ==
    CASE look.token -> 100
      [] ~look.token /\ look.ident = "exact" -> 95
      [] ~look.token /\ look.ident = "contains" -> 90
      [] ~look.token /\ look.ident = "none" /\ look.box -> 85
      [] OTHER -> 0

\* validateFieldContext: "Sign in" in the navigation does not count.
FastContext(look, sms) ==
    LET near == NearFast(look)
        text == Direct(look) \cup near
    IN  /\ ~Unreadable(text, sms)
        /\ Valid(text \cup look.title, Direct(look), near, Direct(look))

\* Variant: the URL of a setup page is no reason to keep Tier 2 out.
BugFast(look, sms) ==
    IF Misnamed(look) \/ (Match(look) > 0 /\ ~FastContext(look, sms)) THEN "rejected"
    ELSE IF Match(look) > 0 /\ ~SetupPage(look) THEN "detected" ELSE "open"

\* Every refusal is final (TIER1_DEFINITIVE_REJECTIONS); without a match the
\* decision is left to Tier 2.
Fast(look, sms) ==
    IF Misnamed(look) \/ SetupPage(look) \/ (Match(look) > 0 /\ ~FastContext(look, sms))
    THEN "rejected"
    ELSE IF Match(look) > 0 THEN "detected" ELSE "open"

-----------------------------------------------------------------------------
(***************************************************************************)
(* Tier 2 (detectTier2), in half points.                                   *)
(***************************************************************************)
\* getLabelMatchStrength: the strongest phrase counts.
LabelStrength(text) ==
    LET points == [verification |-> 35, enter |-> 30, texted |-> 28, security |-> 25,
                   onetime |-> 20, factor |-> 20, verify |-> 15, provide |-> 10]
    IN  Max({0} \cup {points[k] : k \in text \cap DOMAIN points})

\* HIGH_CONFIDENCE_KEYWORDS: phrases with the word code, or one-time.
CodeWords == {"verification", "enter", "texted", "security", "onetime", "provide", "code"}

\* getPlaceholderMatchStrength
PlaceholderStrength(text) ==
    CASE "digits" \in text -> 25
      [] "digits" \notin text /\ Says(text, CodeWords \cup {"verify"}) -> 20
      [] OTHER -> 0

\* NEGATIVE_SIGNALS leave a text without points.
AccountWords == {"password", "account"}
NearPoints(text) ==
    CASE Says(text, AccountWords) -> 0
      [] ~Says(text, AccountWords) /\ Says(text, CodeWords) -> 40
      [] OTHER -> Min({LabelStrength(text), 20})

NearDeep(look, split) == look.close \cup IF split THEN look.far ELSE {}

Score(look, split, bonus) ==
    (IF bonus THEN 150 ELSE 0)
    + 2 * LabelStrength(look.label) + 2 * PlaceholderStrength(look.placeholder)
    + NearPoints(NearDeep(look, split))
    + (IF look.pattern THEN 30 ELSE 0)

Threshold == 140
Penalty(look, split) == IF look.crowd /\ ~split THEN 40 ELSE 0

\* analyzeFormContext and analyzeButtonIntent.
LoginForm(look) == look.password /\ look.button = "login"

\* getLabelText, and the placeholder.
Own(look) == look.label \cup look.placeholder

DeepContext(look, split, sms) ==
    LET near == NearDeep(look, split)
        text == Direct(look) \cup near
    IN  /\ ~Unreadable(text, sms)
        /\ ~OtherIntent(text)
        /\ ~LoginForm(look)
        /\ Valid(Own(look) \cup near, Own(look), near, Own(look) \cup near)

\* A score that is too low is no refusal: only what is marked as rejected
\* cools down.
Deep(look, split, bonus, sms) ==
    LET score == Score(look, split, bonus)
    IN  IF score < Threshold THEN "open"
        ELSE IF ~(Unreadable(Direct(look) \cup NearDeep(look, split), sms)
                  \/ OtherIntent(Direct(look) \cup NearDeep(look, split)))
                /\ score < Threshold + Penalty(look, split) THEN "open"
        ELSE IF DeepContext(look, split, sms) THEN "detected" ELSE "rejected"

-----------------------------------------------------------------------------
(***************************************************************************)
(* The result of both (evaluateField, detectExisting).                     *)
(***************************************************************************)
Verdict(look, split, bonus, sms) ==
    IF Fast(look, sms) = "open" THEN Deep(look, split, bonus, sms) ELSE Fast(look, sms)

\* Of what Tier 2 detects every score is above its threshold: 100 percent.
ByMatch(look) == Match(look) > 0
Confidence(look) == IF ByMatch(look) THEN Match(look) ELSE 100
TextOf(look, split) ==
    Direct(look) \cup IF ByMatch(look) THEN NearFast(look) ELSE NearDeep(look, split)

\* hasEmailContext
MailContext(look) ==
    look.mailbox \/ Says(look.label \cup look.close \cup look.far, EmailPhrases)

\* shouldBypassFocusGate, for what was seen at detection and what there is now.
Bypasses(was, split, now) ==
    \/ now.token
    \/ BySms(TextOf(was, split))
    \/ Confidence(was) >= 90 /\ MailContext(now)
=============================================================================
