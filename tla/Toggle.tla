-------------------------------- MODULE Toggle --------------------------------
(***************************************************************************)
(* The like, repost and bookmark buttons of a row: components/post.ts, the *)
(* keys l, t and Shift+S that press them, and the records of the           *)
(* repository they create and delete (services/post_builder.go).           *)
(*                                                                         *)
(* A click decides by what the row carries, and changes the row when it is *)
(* answered; nothing keeps a second click off in between.  A record is a   *)
(* number; a bookmark is not one: the service keeps it or does not, and    *)
(* has no count.                                                           *)
(***************************************************************************)
EXTENDS Naturals, FiniteSets

CONSTANTS MaxClicks,    \* bound: clicks
          MaxFailures   \* bound: calls that fail, or whose answer is lost

VARIABLES
    kind,       \* which button
    mark,       \* dataset.viewerLike, viewerRepost, viewerBookmark: 0 for ""
    label,      \* the button offers to undo
    count,      \* post.likeCount, post.repostCount
    metric,     \* the count on the screen
    calls,      \* calls that are not answered: what, count at the click, at the service
    records,    \* the records of this account on this post
    others,     \* those of other accounts
    clicks,     \* how many clicks there have been
    failures,   \* how many calls have failed
    tangled     \* history: two calls at once, or an answer lost

row  == <<mark, label, count, metric>>
vars == <<kind, row, calls, records, others, clicks, failures, tangled>>

Init == /\ kind \in {"like", "repost", "bookmark"} /\ others \in 0..1
        /\ \E on \in 0..1 : /\ mark = on /\ label = (on = 1)
                            /\ records = (IF on = 1 THEN {1} ELSE {})
                            /\ count = others + on /\ metric = count
        /\ calls = {} /\ clicks = 0 /\ failures = 0 /\ tangled = FALSE

\* The record is deleted if the row has one and created otherwise.
Click(k) == /\ kind = k /\ clicks < MaxClicks /\ clicks' = clicks + 1
            /\ calls' = calls \cup {[n |-> clicks', undo |-> mark, count |-> count, got |-> 0]}
            /\ tangled' = (tangled \/ calls # {})
            /\ UNCHANGED <<kind, row, records, others, failures>>

\* The service carries a call out.  Deleting what is not there is no error.
Served(c) == /\ c.got = 0
             /\ LET new == IF kind = "bookmark" THEN 1 ELSE c.n + 1
                IN  /\ records' = IF c.undo # 0 THEN records \ {c.undo} ELSE records \cup {new}
                    /\ calls' = (calls \ {c}) \cup {[c EXCEPT !.got = new]}
             /\ UNCHANGED <<kind, row, others, clicks, failures, tangled>>

\* Mutant: the row keeps the address of the record it has deleted.
Shown_KeepsMark(c) ==
    /\ mark' = IF c.undo # 0 THEN mark ELSE c.got
    /\ label' = (c.undo = 0)
    /\ count' = IF kind = "bookmark" THEN count ELSE IF c.undo = 0 THEN c.count + 1
                ELSE IF c.count = 0 THEN 0 ELSE c.count - 1
    /\ metric' = count'

\* Mutant: the count is written on the screen only.
Shown_ScreenOnly(c) ==
    /\ mark' = IF c.undo # 0 THEN 0 ELSE c.got
    /\ label' = (c.undo = 0)
    /\ metric' = IF kind = "bookmark" THEN metric ELSE IF c.undo = 0 THEN c.count + 1
                 ELSE IF c.count = 0 THEN 0 ELSE c.count - 1
    /\ UNCHANGED count

\* What an answer changes in the row.
Shown(c) ==
    /\ mark' = IF c.undo # 0 THEN 0 ELSE c.got
    /\ label' = (c.undo = 0)
    /\ count' = IF kind = "bookmark" THEN count ELSE IF c.undo = 0 THEN c.count + 1
                ELSE IF c.count = 0 THEN 0 ELSE c.count - 1
    /\ metric' = count'

Answered(k, c) == /\ kind = k /\ c.got # 0 /\ calls' = calls \ {c} /\ Shown(c)
                  /\ UNCHANGED <<kind, records, others, clicks, failures, tangled>>

\* An error, before or after the service did it.
Failed(c) == /\ failures < MaxFailures /\ failures' = failures + 1
             /\ calls' = calls \ {c} /\ tangled' = (tangled \/ c.got # 0)
             /\ UNCHANGED <<kind, row, records, others, clicks>>

ClickLike     == Click("like")
ClickRepost   == Click("repost")
ClickBookmark == Click("bookmark")
Liked(c)      == Answered("like", c)
Reposted(c)   == Answered("repost", c)
Bookmarked(c) == Answered("bookmark", c)

Next == \/ ClickLike \/ ClickRepost \/ ClickBookmark
        \/ \E c \in calls : Served(c) \/ Liked(c) \/ Reposted(c) \/ Bookmarked(c) \/ Failed(c)

Spec == Init /\ [][Next]_vars

(***************************************************************************)
(* Properties, as long as no two calls were out at once and no answer was  *)
(* lost.                                                                   *)
(***************************************************************************)

\* Between calls the row carries the one record the repository has, the button says so,
\* and the repository never has two for one post, whatever was clicked and failed.
ButtonTellsTruth ==
    ~tangled => /\ Cardinality(records) <= 1
                /\ calls = {} => records = {mark} \ {0} /\ label = (mark # 0)

\* Between calls the count on the screen is that of the others and of the record.
CountIsHonest == ~tangled /\ calls = {} /\ kind # "bookmark" => metric = others + Cardinality(records)

\* What the two rest on: the row is that of the record before the only call, until that is
\* answered, and the service has carried it out or not.
Agreed == /\ records = {mark} \ {0} /\ label = (mark # 0)
Called(c) == /\ c.n \in Nat /\ c.undo = mark /\ c.count = count
             /\ c.got = 0 => Agreed
             /\ c.got # 0 => records = IF mark # 0 THEN {} ELSE {c.got}
RowInv ==
    /\ mark \in Nat /\ count \in Nat /\ clicks \in Nat /\ others \in 0..1
    /\ calls \subseteq [n : Nat, undo : Nat, count : Nat, got : Nat]
    /\ ~tangled => /\ \/ calls = {} /\ Agreed
                      \/ \E c : calls = {c} /\ Called(c)
                   /\ kind # "bookmark" => metric = count /\ count = others + IF mark = 0 THEN 0 ELSE 1
=============================================================================
