------------------------------ MODULE MCATClient ------------------------------
(***************************************************************************)
(* ATClient for TLC.  The goroutines of one kind are interchangeable: they *)
(* start alike and are only ever compared for equality.                    *)
(***************************************************************************)
EXTENDS ATClient, TLC

Symmetric == Permutations(Workers) \cup Permutations(Users)
=============================================================================
