------------------------------ MODULE MCKeyStore ------------------------------
(***************************************************************************)
(* KeyStore for TLC.  Processes are interchangeable.                       *)
(***************************************************************************)
EXTENDS KeyStore, TLC

Symmetric == Permutations(Procs)
=============================================================================
