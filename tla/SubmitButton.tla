----------------------------- MODULE SubmitButton -----------------------------
(***************************************************************************)
(* Where the extension may act on a page (lib/utils/domain.ts,             *)
(* lib/utils/blacklist.ts), where full automation clicks nothing           *)
(* (lib/automation/automation-safety.ts) and which button it clicks        *)
(* elsewhere (contents/submit-button-finder.ts).                           *)
(*                                                                         *)
(* A site is what these read of a page:                                    *)
(*   host     whose address it is: "plain", "bank", "provider", or         *)
(*            "payhost", a payment host of a domain that does other things *)
(*   text     what its title, its path, the labels of the field and the    *)
(*            containers of the field say, of the phrases below            *)
(*   buttons  its controls in the order of the document:                   *)
(*     tag    "submit", "button" (another native control), "anchor",       *)
(*            "other"                                                      *)
(*     role   it has role=button                                           *)
(*     says   the phrases of its label: "safe", "danger", "word"           *)
(*     within which nearest ancestors of the field hold it: "form", "box"  *)
(*            (div, section, main), "scope" (form, role=form), "panel"     *)
(*            (the same, main, section, article)                           *)
(*     span   its distance from the field: 1 below 100, 2 below 200, 3 to  *)
(*            300, 4 below 500, 5 beyond; corner: from the page's corner   *)
(*     first  it is the first control of its own container                 *)
(*     after, zone, shown, enabled                                         *)
(*            after the field; in navigation or the like; as they say.     *)
(*                                                                         *)
(* The rules are the user's: pref, the switch of the popup for this domain *)
(* ("none", "on", "off"), listed in the blacklist, strict on banking       *)
(* sites, and the default.                                                 *)
(***************************************************************************)
EXTENDS Integers, Sequences
LOCAL INSTANCE FiniteSetsExt

Button ==
    [tag : {"submit", "button", "anchor", "other"}, role : BOOLEAN,
     says : SUBSET {"safe", "danger", "word"}, within : SUBSET {"form", "box", "scope", "panel"},
     span : 1 .. 5, corner : 1 .. 5, first : BOOLEAN, after : BOOLEAN, zone : BOOLEAN,
     shown : BOOLEAN, enabled : BOOLEAN]
SiteRecord ==
    [host : {"plain", "bank", "provider", "payhost"},
     text : SUBSET {"pay", "banking", "card", "api", "address", "mailed"},
     buttons : Seq(Button)]

-----------------------------------------------------------------------------
(***************************************************************************)
(* Where the extension is enabled.                                         *)
(***************************************************************************)
\* The hosts of the list of banks.
Banks == {"bank"}

\* isDomainEnabled.
DomainEnabled(rules, site) ==
    IF rules.pref # "none" THEN rules.pref = "on"
    ELSE rules.default /\ ~(rules.strict /\ site.host \in Banks)

\* isExtensionEnabled: the blacklist counts, but for a domain that is switched on.
ExtensionEnabled(rules, site) ==
    DomainEnabled(rules, site) /\ (rules.listed => rules.pref = "on")

\* The guardrails of a session ask for both, whatever is switched on.
Admitted(rules, site) == ~rules.listed /\ DomainEnabled(rules, site)

-----------------------------------------------------------------------------
(***************************************************************************)
(* Where full automation is demoted (getFullAutomationSafety).             *)
(***************************************************************************)
PayTerms == {"pay"}
BankTerms == {"banking"}

\* classifyNonEmailIntent names the first category that the text has a word of.
PaymentIntent(text) == "card" \in text /\ text \cap {"api", "address", "mailed"} = {}

\* Variant: the host counts only when its domain is the provider's.
BugUnsafe(site) ==
    \/ site.host \in Banks \cup {"provider"}
    \/ site.text \cap (PayTerms \cup BankTerms) # {}
    \/ PaymentIntent(site.text)

Unsafe(site) ==
    \/ site.host \in Banks \cup {"provider", "payhost"}
    \/ site.text \cap (PayTerms \cup BankTerms) # {}
    \/ PaymentIntent(site.text)

-----------------------------------------------------------------------------
(***************************************************************************)
(* The button (findSubmitButton).                                          *)
(***************************************************************************)
MinSafeScore == 50

Native(b) == b.tag \in {"submit", "button"}
Pseudo(b) == b.tag = "anchor" \/ b.role

\* Variant: a safe word redeems a label.
BugBarred(b) ==
    b.says = {} \/ ("danger" \in b.says /\ "safe" \notin b.says) \/ ~b.shown \/ ~b.enabled

\* What is never clicked (scoreButton, safety checks 1 to 4).
Barred(b) == b.says = {} \/ "danger" \in b.says \/ ~b.shown \/ ~b.enabled

Points(condition, points) == IF condition THEN points ELSE 0

\* Variant: what submits by its type counts as much as a label.
BugNativeScore(b) ==
    IF Barred(b) THEN 0
    ELSE Points(b.tag = "submit", 50) + Points("safe" \in b.says, 50)
         + Points(b.first, 10) + Points("form" \in b.within, 10)
         + Points(b.span <= 4, 5) + Points(b.span <= 2, 5)

\* scoreButton.
NativeScore(b) ==
    IF Barred(b) THEN 0
    ELSE Points(b.tag = "submit", 30) + Points("safe" \in b.says, 50)
         + Points(b.first, 10) + Points("form" \in b.within, 10)
         + Points(b.span <= 4, 5) + Points(b.span <= 2, 5)

PseudoScore(b) ==
    IF Barred(b) \/ "safe" \notin b.says \/ b.span > 3 THEN 0
    ELSE 50 - Points(b.tag = "anchor", 10) + Points(b.role, 15)
         + Points(b.span <= 2, 5) + Points(b.span = 1, 10)
         + Points(b.first, 5) + Points("form" \in b.within, 10)

Controls(site) == DOMAIN site.buttons
Where(site, Test(_)) == {k \in Controls(site) : Test(site.buttons[k])}

\* The controls of the form and of the box, or else what is near.
NativeCandidates(site) ==
    LET held == Where(site, LAMBDA b : Native(b) /\ b.within \cap {"form", "box"} # {})
    IN  IF held # {} THEN held ELSE Where(site, LAMBDA b : Native(b) /\ b.span <= 4)

\* Those of one ancestor of the field, not in navigation and after the field.
PseudoCandidates(site, ancestor) ==
    Where(site, LAMBDA b : Pseudo(b) /\ ancestor \in b.within /\ ~b.zone /\ b.after)

\* The first of those with the highest score, if that is high enough; the
\* controls of the form come before the others.
Best(site, cands, Score(_), Ahead(_)) ==
    LET score(k) == Score(site.buttons[k])
        top == {k \in cands : score(k) >= MinSafeScore /\ \A j \in cands : score(j) <= score(k)}
        ahead == {k \in top : Ahead(site.buttons[k])}
    IN  IF top = {} THEN {} ELSE {Min(IF ahead # {} THEN ahead ELSE top)}

BestNative(site) ==
    Best(site, NativeCandidates(site), NativeScore, LAMBDA b : "form" \in b.within)
BestPseudo(site, ancestor) ==
    Best(site, PseudoCandidates(site, ancestor), PseudoScore, LAMBDA b : TRUE)

\* The three tiers; the last one is a setting.
SubmitButtons(site, extended) ==
    IF BestNative(site) # {} THEN BestNative(site)
    ELSE IF BestPseudo(site, "scope") # {} THEN BestPseudo(site, "scope")
    ELSE IF extended THEN BestPseudo(site, "panel") ELSE {}

\* The field was taken out of the document: it has no ancestors in it, and its
\* distances are measured from the corner of the page.
Detached(site) ==
    [site EXCEPT !.buttons = [k \in Controls(site) |->
        [site.buttons[k] EXCEPT !.within = {}, !.span = site.buttons[k].corner]]]
===============================================================================
