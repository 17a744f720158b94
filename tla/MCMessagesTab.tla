--------------------------- MODULE MCMessagesTab ---------------------------
(***************************************************************************)
(* Small instances of MessagesTab for TLC.                                 *)
(***************************************************************************)
EXTENDS MessagesTab, TLC

Symmetric == Permutations(Sessions) \cup Permutations(Tabs)
=============================================================================
