---------------------------- MODULE SplitGroups ----------------------------
(***************************************************************************)
(* lib/detection/split-input-detector.ts: which inputs of a page are the   *)
(* cells of one code.  Everything in the content script that counts inputs *)
(* (sessions, guards, fills) counts representatives of these groups.       *)
(*                                                                         *)
(* A layout is the sequence, in the order of the document, of the inputs   *)
(* of a relevant type that are neither disabled nor read-only.  An input   *)
(* is [type, max, seen, path, name, cell, otp]: max is 0 when maxLength is *)
(* not set; path holds the containers from the parent on; name is <<>> or  *)
(* the two parts <<prefix, number>> of a name that ends with digits; cell  *)
(* says that the pattern allows a single digit, otp that its own           *)
(* attributes speak of a code.  seen is                                    *)
(*   shown   no cue of suppression, or one of the caret and the text,      *)
(*   small   less than 30 x 10 pixels, or transparent, without other cues, *)
(*   tiny    one of these and another cue,                                 *)
(*   veiled  two cues of the caret and the text alone,                     *)
(*   hidden  not displayed itself,                                         *)
(*   gone    without a box, for a container is not displayed.              *)
(***************************************************************************)
EXTENDS Naturals, Sequences, FiniteSets
LOCAL INSTANCE FiniteSetsExt

CONSTANTS
    MinGroup,  \* cells that make a group: 4 in the code
    Crowd,     \* similar inputs in a container that ask for evidence: 12
    Stops,     \* containers that end the climb: form, dialog, main
    Forms,     \* those of them that are forms
    Marked     \* containers whose attributes or text speak of a code

InputRecord ==
    [type : STRING, max : Nat, seen : {"shown", "small", "tiny", "veiled", "hidden", "gone"},
     path : Seq(STRING), name : {<<>>} \cup (STRING \X Nat), cell : BOOLEAN, otp : BOOLEAN]

MaxGroup == 2 * MinGroup
ASSUME GroupAssumption ==
    /\ MinGroup \in Nat \ {0, 1} /\ Crowd \in Nat
    /\ Forms \subseteq Stops

Places(L) == 1 .. Len(L)

\* isVisuallySuppressed and isHardHidden.
Suppressed(in) == in.seen \in {"tiny", "veiled"}
HardHidden(in) == in.seen = "hidden"

\* hasCommonAncestorWithin: each shares one with the first.
Ancestors(in, n) == {in.path[d] : d \in 1 .. Min({n, Len(in.path)})}
ShareAncestors(L, S, n) ==
    \A i \in S : Ancestors(L[Min(S)], n) \cap Ancestors(L[i], n) # {}

\* findCommonAncestor: the nearest above the first that holds them all.
Holds(c, in) == \E d \in DOMAIN in.path : in.path[d] = c
CommonAncestor(L, S, n) ==
    LET path == L[Min(S)].path
        levels == {d \in 1 .. Min({n, Len(path)}) : \A i \in S : Holds(path[d], L[i])}
    IN  IF levels = {} THEN {} ELSE {path[Min(levels)]}

\* hasSequentialIdentifiers: one prefix, and numbers that count from the
\* first one, from 0 or from 1.
Rank(S, i) == Cardinality({k \in S : k < i})
Sequential(L, S) ==
    LET first == L[Min(S)].name
    IN  \A i \in S :
            /\ L[i].name # <<>> /\ L[i].name[1] = first[1]
            /\ L[i].name[2] \in {first[2] + Rank(S, i), Rank(S, i), Rank(S, i) + 1}

\* hasOtpContainerEvidence
Evidence(L, S) ==
    \/ \E i \in S : L[i].otp \/ (L[i].path # <<>> /\ L[i].path[1] \in Marked)
    \/ CommonAncestor(L, S, 4) \cap Marked # {}

-----------------------------------------------------------------------------
(***************************************************************************)
(* The three shapes of a group.                                            *)
(***************************************************************************)
SameMax(L, S) == \A i, j \in S : L[i].max = L[j].max

\* Shape (a): equal short cells.
Equal(L, S) == SameMax(L, S) /\ L[Min(S)].max \in 1 .. 6

\* Shape (b): cells without a maximum, each in a wrapper of its own.
Wrapped(L, S) ==
    /\ SameMax(L, S) /\ L[Min(S)].max = 0
    /\ \A i, j \in S : i # j => L[i].path[1] # L[j].path[1]
    /\ Sequential(L, S) \/ (Evidence(L, S) /\ \A i \in S : L[i].cell)

\* Shape (c): the first takes the whole code when it is pasted.  Another
\* visible input in the same wrapper speaks against a widget.
IsLeader(in) == in.max \in MinGroup .. MaxGroup
Led(L, S) ==
    LET leader == Min(S)
    IN  /\ IsLeader(L[leader]) /\ L[leader].max = Cardinality(S)
        /\ \A i \in S \ {leader} : L[i].max = 1
        /\ Sequential(L, S) \/ Evidence(L, S)
        /\ \A c \in CommonAncestor(L, S, 3) :
              Cardinality({i \in Places(L) : Holds(c, L[i]) /\ ~HardHidden(L[i])})
                  <= Cardinality(S)

\* isCoherentGroup
Coherent(L, S) ==
    /\ Cardinality(S) >= MinGroup
    /\ \A i, j \in S : L[i].type = L[j].type
    /\ ShareAncestors(L, S, 8)
    /\ Equal(L, S) \/ Wrapped(L, S) \/ Led(L, S)

-----------------------------------------------------------------------------
(***************************************************************************)
(* The group of an input: the nearest container whose similar inputs are   *)
(* coherent.                                                               *)
(***************************************************************************)
\* Variant: the cell does not take its leader for similar.
BugPairs(a, b) == a.max = b.max \/ (IsLeader(a) /\ b.max = 1)
Pairs(a, b) ==
    \/ a.max = b.max
    \/ IsLeader(a) /\ b.max = 1
    \/ a.max = 1 /\ IsLeader(b)

\* matchesField of getSimilarSiblings: the others have to be visible.
Similar(L, i, c) ==
    {k \in Places(L) :
        /\ Holds(c, L[k]) /\ L[k].type = L[i].type /\ Pairs(L[i], L[k])
        /\ k = i \/ ~(HardHidden(L[k]) \/ Suppressed(L[k]))}

Considered(L, S) == Cardinality(S) <= Crowd \/ Evidence(L, S)

\* The levels getSimilarSiblings climbs.
Reach(in) ==
    {d \in 1 .. Min({8, Len(in.path)}) : \A e \in 1 .. d - 1 : in.path[e] \notin Stops}

\* detectSplitInputGroup: its inputs, or none.
SplitGroup(L, i) ==
    LET at(d) == Similar(L, i, L[i].path[d])
        levels == {d \in Reach(L[i]) : Considered(L, at(d)) /\ Coherent(L, at(d))}
    IN  IF L[i].max > MaxGroup \/ Suppressed(L[i]) \/ levels = {} THEN {}
        ELSE at(Min(levels))

Members(L, i) == {i} \cup SplitGroup(L, i)
Representative(L, i) == Min(Members(L, i))

\* The length deriveExpectedShape sends for a session on the input, 0 for none.
ExpectedLength(L, i) ==
    LET cells == Cardinality(Members(L, i))
    IN  IF L[i].max > 1 \/ cells = 1 THEN L[i].max ELSE cells

-----------------------------------------------------------------------------
(***************************************************************************)
(* Shadows: an input the page hides behind the cells of a group.           *)
(***************************************************************************)
\* isShadowedByVisibleSplitGroup: the group is in the same form (anywhere,
\* without a form), and all of it can be seen.
FormOf(in) == Range(in.path) \cap Forms
Visible(L) == {i \in Places(L) : L[i].seen \notin {"hidden", "gone"}}
Shadowed(L, i) ==
    /\ Suppressed(L[i])
    /\ \E k \in Visible(L) \ {i} :
          /\ FormOf(L[i]) \subseteq FormOf(L[k])
          /\ SplitGroup(L, k) # {} /\ SplitGroup(L, k) \subseteq Visible(L)

\* isPotentiallyShadowed asks for less.
Doubtful(in) == in.seen \in {"small", "tiny", "gone"}

\* getAllInputFields and getInputFields look for shadows only when an input
\* is doubtful.
PageFields(L) ==
    {i \in Visible(L) : (\E k \in Visible(L) : Doubtful(L[k])) => ~Shadowed(L, i)}

\* isShadowReplacement: a session on old gives way to one on new in spite of
\* the rate limit.
GivesWay(L, old, new) ==
    old # new /\ Doubtful(L[old]) /\ SplitGroup(L, old) = {} /\ SplitGroup(L, new) # {}

\* shouldSuppressSplitBonus: equal cells that follow a leader of their names.
BonusSuppressed(L, i) ==
    LET S == SplitGroup(L, i)
    IN  /\ ~Led(L, S) /\ L[i].max = 1
        /\ \E c \in CommonAncestor(L, S, 3) :
              \E k \in Places(L) :
                  /\ Holds(c, L[k]) /\ k < Min(S) /\ IsLeader(L[k])
                  /\ \A j \in k + 1 .. Min(S) - 1 : ~Holds(c, L[j])
                  /\ Sequential(L, S \cup {k})
=============================================================================
