---------------------------- MODULE MCWatchPort ----------------------------
(***************************************************************************)
(* Small instances of WatchPort for TLC.                                   *)
(***************************************************************************)
EXTENDS WatchPort, TLC

Symmetric == Permutations(Watches)
=============================================================================
