------------------------ MODULE MCSessionController ------------------------
(***************************************************************************)
(* Small instances of SessionController for TLC.                           *)
(***************************************************************************)
EXTENDS SessionController, TLC

Symmetric == Permutations(Sessions)
=============================================================================
