-------------------------------- MODULE Thread --------------------------------
(***************************************************************************)
(* What publishing promises: each time the form is sent, posts are added   *)
(* one after the other, each a reply to the one before it.  The first may  *)
(* answer any post, or none.                                               *)
(***************************************************************************)
EXTENDS Integers, SequencesExt, FiniteSetsExt

CONSTANTS Senders,   \* the submissions there may be
          Others     \* the posts of other people

VARIABLE repo    \* the posts of the account: who sent each, and its parent, 0 for none

By(s) == {p \in DOMAIN repo : repo[p].by = s}

Begin(s, parent) == /\ By(s) = {}
                    /\ repo' = Append(repo, [by |-> s, parent |-> parent])

Grow(s) == /\ By(s) # {}
           /\ repo' = Append(repo, [by |-> s, parent |-> Max(By(s))])

Init == repo = <<>>

Next == \E s \in Senders : Grow(s) \/ \E q \in Others \cup {0} \cup DOMAIN repo : Begin(s, q)

Spec == Init /\ [][Next]_repo
=============================================================================
