-------------------------------- MODULE MCSync --------------------------------
(***************************************************************************)
(* Sync for TLC.  Accounts are interchangeable.                            *)
(***************************************************************************)
EXTENDS Sync, TLC

Symmetric == Permutations(Accounts)
=============================================================================
