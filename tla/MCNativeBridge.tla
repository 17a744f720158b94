--------------------------- MODULE MCNativeBridge ---------------------------
(***************************************************************************)
(* Requests of two contexts: an account is added, one is removed, another  *)
(* fetched from, and the host uninstalled.                                 *)
(***************************************************************************)
EXTENDS NativeBridge, TLC

CONSTANTS add, add2, remove, fetch, uninstall, old, worker, page

MCCtx == [r \in Requests |-> IF r \in {remove, fetch, add2} THEN worker ELSE page]
MCKind == [r \in Requests |->
              CASE r \in {add, add2} -> "add" [] r = remove -> "remove"
                [] r = fetch -> "fetch" [] r = uninstall -> "uninstall"]
MCTarget == [r \in Requests |-> IF r \in {add, add2} THEN r ELSE old]
Anonymous == Permutations(Procs)
=============================================================================
