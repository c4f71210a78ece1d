-------------------------------- MODULE Profile --------------------------------
(***************************************************************************)
(* The profile page: controllers/profile.ts, and the keys and rows that    *)
(* open a profile.                                                         *)
(*                                                                         *)
(* loadProfile runs from await to await: the profile, who of it the reader *)
(* knows, the pinned post, a page of what the tab within the page shows.   *)
(* It reads state.currentHandle and profileTabMode anew after each, and    *)
(* puts its rows into state.currentPosts, whatever tab that belongs to by  *)
(* then.  People are 1, the account, and others; a row is whose it is, the *)
(* tab within the page, and a number.                                      *)
(***************************************************************************)
EXTENDS Naturals, Sequences, FiniteSets, Functions

CONSTANTS People,       \* 1 and others
          MaxSteps,     \* bound: loads begun by the reader or by an answer, clicks, failures
          MaxLoads      \* bound: loads that are out at once

VARIABLES
    tab,        \* state.currentTab: "profile" or "other"
    who,        \* state.currentHandle
    mode,       \* state.profileTabMode
    header,     \* whose header is on the screen, 0 for none, and what its buttons say
    box,        \* the profile-content there is: a number, 0 for none
    content,    \* its rows
    rows,       \* state.currentPosts
    kept,       \* the posts of tabStates, of the tab that is not shown
    cursor,     \* state.profileCursor: 0 for ""
    last,       \* tabStates.profile.lastHandle
    busy,       \* aria-busy of profile-card
    loads,      \* calls of loadProfile that are not done
    ask,        \* the question that is open: what of whom
    calls,      \* follows, mutes, blocks that are not answered
    follows,    \* how many follow records the account has of each
    muted,      \* who is muted (blocks are alike)
    n,          \* how many of the things that MaxSteps bounds, and boxes
    clean,      \* history: the last fresh load began with nothing out and nothing crossed it
    tangled,    \* history: a button was used when something had crossed
    spilled     \* history: a load changed the rows of the other tab, which was shown by then

screen == <<header, box, content>>
list   == <<rows, cursor>>
place  == <<tab, who, mode, kept>>
graph  == <<follows, muted>>
vars   == <<screen, list, place, last, busy, loads, ask, calls, graph, n, clean, tangled, spilled>>

\* Replies and media are like likes; who is followed, lists and packs are like followers.
Modes == {"posts", "likes", "followers"}
OfPosts(m) == m \in {"posts", "likes"}
Pinned == 2
NoHeader == [of |-> 0, follow |-> FALSE, mute |-> FALSE]
NoAsk == [what |-> "", of |-> 0]

Init == /\ tab = "other" /\ who = 1 /\ mode = "posts" /\ kept = <<>>
        /\ header = NoHeader /\ box = 0 /\ content = <<>>
        /\ rows = << <<0, "other", 1>> >> /\ cursor = 0 /\ last = 0 /\ busy = FALSE
        /\ loads = {} /\ ask = NoAsk /\ calls = {}
        /\ follows = [p \in People |-> 0] /\ muted = {}
        /\ n = 0 /\ clean = TRUE /\ tangled = FALSE /\ spilled = FALSE

Step == n < MaxSteps /\ n' = n + 1

\* What is fetched next, with what is known then: the rows of the page for the box there is.
AtContent(l, w, m, b, cur) == [l EXCEPT !.at = "content", !.who = w, !.mode = m, !.box = b, !.cursor = cur]
NewLoad == [at |-> "header", who |-> 0, mode |-> "", box |-> 0, cursor |-> 0, header |-> NoHeader,
            keep |-> FALSE,
            k |-> CHOOSE k \in 1..2 * MaxLoads : k # box /\ \A l \in loads : k \notin {l.k, l.box}]

\* Mutant: the rows of before stay with the keys.
Fresh_KeepsRows(w, r, keep) ==
    /\ busy' = TRUE /\ cursor' = 0 /\ rows' = r /\ header' = NoHeader /\ box' = 0 /\ content' = <<>>
    /\ Cardinality(loads) < MaxLoads /\ loads' = loads \cup {[NewLoad EXCEPT !.who = w, !.keep = keep]}

\* loadProfile up to its first await, not for more, when the rows of the tab are r, and
\* whether it is to find the row in focus again.
Fresh(w, r, keep) ==
    /\ busy' = TRUE /\ cursor' = 0 /\ rows' = <<>> /\ header' = NoHeader /\ box' = 0 /\ content' = <<>>
    /\ Cardinality(loads) < MaxLoads /\ loads' = loads \cup {[NewLoad EXCEPT !.who = w, !.keep = keep]}

\* What changes the rows changes those of the tab that is shown.
Spill == spilled' = (spilled \/ tab = "other")

\* j on the last row.
LoadMore == /\ tab = "profile" /\ Len(rows) > 1 /\ Step /\ busy' = TRUE
            /\ Cardinality(loads) < MaxLoads
            /\ loads' = loads \cup {AtContent(NewLoad, who, mode, box, cursor)}
            /\ clean' = (clean /\ loads = {})
            /\ UNCHANGED <<screen, list, place, last, ask, calls, graph, tangled, spilled>>

(***************************************************************************)
(* Opening.                                                                *)
(***************************************************************************)

\* switchTab to the profile: it is loaded when it was not shown, or showed another.
Switch(w) == /\ tab' = "profile" /\ kept' = IF tab = "other" THEN rows ELSE kept
             /\ IF tab = "other" \/ last # w
                THEN Fresh(w, IF tab = "other" THEN kept ELSE rows, FALSE) /\ clean' = (loads = {} /\ calls = {})
                ELSE UNCHANGED <<busy, list, screen, loads>> /\ clean' = FALSE

\* A row of people, the key p and its menu, the dialog of a name, a link, Alt+3.
OpenProfile(p) == /\ Step /\ who' = p /\ mode' = "posts" /\ Switch(p)
                  /\ UNCHANGED <<last, ask, calls, graph, tangled, spilled>>

\* A row of the followers on this page loads at once; so does a tab within the page.
OpenRow(p) == /\ tab = "profile" /\ ~OfPosts(mode) /\ content # <<>> /\ Step
              /\ who' = p /\ mode' = "posts" /\ Fresh(p, rows, FALSE) /\ clean' = (loads = {} /\ calls = {})
              /\ UNCHANGED <<tab, kept, last, ask, calls, graph, tangled, spilled>>
TabWithin(m) == /\ tab = "profile" /\ Step /\ mode' = m /\ Fresh(who, rows, FALSE)
                /\ clean' = (loads = {} /\ calls = {})
                /\ UNCHANGED <<tab, who, kept, last, ask, calls, graph, tangled, spilled>>

\* Mutant: the rows that are shown are kept for neither tab.
ToOther_KeepsRows == /\ tab = "profile" /\ Step /\ tab' = "other" /\ kept' = rows /\ UNCHANGED rows
                     /\ clean' = (clean /\ loads = {} /\ calls = {})
                     /\ UNCHANGED <<screen, cursor, who, mode, last, busy, loads, ask, calls, graph, tangled, spilled>>

\* The rows of a tab are kept when it is left, and back when it is shown.
ToOther == /\ tab = "profile" /\ Step /\ tab' = "other" /\ kept' = rows /\ rows' = kept
           /\ clean' = (clean /\ loads = {} /\ calls = {})
           /\ UNCHANGED <<screen, cursor, who, mode, last, busy, loads, ask, calls, graph, tangled, spilled>>

\* What loads the page when it is done: a labeler, a subscription, a list, and the timer
\* after the profile was edited, when the tab may be another; F5.  The focus is to stay.
Later == /\ Step /\ Fresh(who, rows, rows # <<>>) /\ clean' = (loads = {} /\ calls = {} /\ tab = "profile")
         /\ UNCHANGED <<place, last, ask, calls, graph, tangled>> /\ Spill

(***************************************************************************)
(* The answers of a load.                                                  *)
(***************************************************************************)

Buttons(p) == [of |-> p, follow |-> follows[p] > 0, mute |-> p \in muted]
Moves(l, m) == loads' = (loads \ {l}) \cup {m}

\* The header is put on the screen, with an empty place for the rows.
Render(l, h) == /\ header' = h /\ box' = l.k /\ content' = <<>>
                /\ Moves(l, IF mode = "posts" THEN [l EXCEPT !.at = "pinned"]
                            ELSE AtContent(l, who, mode, l.k, cursor))

\* The profile; of another, those who follow it are fetched before it is shown.
GotProfile(l) == /\ l.at = "header"
                 /\ IF l.who = 1 THEN Render(l, Buttons(1))
                    ELSE Moves(l, [l EXCEPT !.at = "known", !.header = Buttons(l.who)]) /\ UNCHANGED screen
                 /\ UNCHANGED <<list, place, last, busy, ask, calls, graph, n, clean, tangled, spilled>>
GotKnown(l) == /\ l.at = "known" /\ Render(l, l.header)
               /\ UNCHANGED <<list, place, last, busy, ask, calls, graph, n, clean, tangled, spilled>>

\* The pinned post goes to the place there is, if it was found.
GotPinned(l, found) ==
    /\ l.at = "pinned"
    /\ IF found /\ box # 0
       THEN /\ content' = Append(content, <<l.who, "posts", Pinned>>)
            /\ rows' = Append(rows, <<l.who, "posts", Pinned>>)
       ELSE UNCHANGED <<content, rows>>
    /\ Moves(l, AtContent(l, who, mode, box, cursor))
    /\ UNCHANGED <<header, box, cursor, place, last, busy, ask, calls, graph, n, clean, tangled>> /\ Spill

\* A page, and the cursor after it; the empty cursor is the first page again.
PageOf(l) == [i \in 1..2 |-> <<l.who, l.mode, IF l.cursor = 0 THEN i ELSE i + IF OfPosts(l.mode) THEN 1 ELSE 2>>]
After(c)  == IF c = 0 THEN 1 ELSE 0

\* Mutant: posts that are there already are added.
New_All(l) == PageOf(l)

\* Posts that are among the rows are left out; people, lists and packs are not.
Unless(r) == IF r \in Range(rows) THEN <<>> ELSE <<r>>
New(l) == IF OfPosts(l.mode) THEN Unless(PageOf(l)[1]) \o Unless(PageOf(l)[2]) ELSE PageOf(l)

\* The page of rows; the mark is taken off even when another load is out.  A load that has
\* not found the row in focus goes on to the next page, when there is one.
GotContent(l, on) ==
    /\ l.at = "content" /\ l.box # 0 /\ (on => l.keep /\ After(l.cursor) # 0)
    /\ rows' = rows \o New(l) /\ cursor' = After(l.cursor)
    /\ content' = IF l.box = box THEN content \o New(l) ELSE content
    /\ last' = who /\ busy' = on
    /\ loads' = (loads \ {l}) \cup (IF on THEN {AtContent(l, who, mode, box, cursor')} ELSE {})
    /\ UNCHANGED <<header, box, place, ask, calls, graph, n, clean, tangled>> /\ Spill

\* Mutant: an error leaves the mark.
NotLoaded_Busy(l) == /\ Step /\ loads' = loads \ {l} /\ clean' = FALSE
                     /\ UNCHANGED <<busy, screen, list, place, last, ask, calls, graph, tangled, spilled>>

\* An error, or no place for the rows.
NotLoaded(l) == /\ Step /\ loads' = loads \ {l} /\ busy' = FALSE /\ clean' = FALSE
                /\ UNCHANGED <<screen, list, place, last, ask, calls, graph, tangled, spilled>>

(***************************************************************************)
(* The buttons of the header.                                              *)
(***************************************************************************)

CallOut(what, p) == /\ calls' = calls \cup {[what |-> what, of |-> p, k |-> n]}
                    /\ tangled' = (tangled \/ calls # {} \/ loads # {} \/ ~clean) /\ clean' = (clean /\ loads = {})

\* Following is done at once, and a second click is a second call.
Follow == /\ header.of \notin {0, 1} /\ Step
          /\ CallOut(IF header.follow THEN "unfollow" ELSE "follow", header.of)
          /\ UNCHANGED <<screen, list, place, last, busy, loads, ask, graph, spilled>>

\* Muting and blocking ask first.
Mute == /\ header.of \notin {0, 1} /\ ask = NoAsk /\ Step
        /\ ask' = [what |-> IF header.mute THEN "unmute" ELSE "mute", of |-> header.of]
        /\ UNCHANGED <<screen, list, place, last, busy, loads, calls, graph, clean, tangled, spilled>>
Answer(yes) == /\ ask # NoAsk /\ ask' = NoAsk
               /\ IF yes THEN CallOut(ask.what, ask.of) ELSE UNCHANGED <<calls, tangled, clean>>
               /\ UNCHANGED <<screen, list, place, last, busy, loads, graph, n, spilled>>

Serve(c) == /\ follows' = [follows EXCEPT ![c.of] = IF c.what = "follow" THEN @ + 1
                                                   ELSE IF c.what = "unfollow" /\ @ > 0 THEN @ - 1 ELSE @]
            /\ muted' = IF c.what = "mute" THEN muted \cup {c.of}
                        ELSE IF c.what = "unmute" THEN muted \ {c.of} ELSE muted

\* Mutant: the page is not loaded again.
Done_NoReload(c) == /\ calls' = calls \ {c} /\ Serve(c)
                    /\ UNCHANGED <<screen, list, place, last, busy, loads, ask, n, clean, tangled>> /\ Spill

\* The profile that is open by then is loaded again, on whatever tab.
Done(c) == /\ calls' = calls \ {c} /\ Serve(c) /\ Fresh(who, rows, FALSE)
           /\ clean' = (loads = {} /\ calls' = {} /\ tab = "profile")
           /\ UNCHANGED <<place, last, ask, n, tangled>> /\ Spill
NotDone(c) == /\ calls' = calls \ {c} /\ Step
              /\ UNCHANGED <<screen, list, place, last, busy, loads, ask, graph, clean, tangled, spilled>>

Next == \/ LoadMore \/ ToOther \/ Later \/ Follow \/ Mute
        \/ \E p \in People : OpenProfile(p) \/ OpenRow(p)
        \/ \E m \in Modes : TabWithin(m)
        \/ \E yes \in BOOLEAN : Answer(yes)
        \/ \E l \in loads : \/ GotProfile(l) \/ GotKnown(l) \/ NotLoaded(l)
                            \/ \E b \in BOOLEAN : GotPinned(l, b) \/ GotContent(l, b)
        \/ \E c \in calls : Done(c) \/ NotDone(c)

Spec == Init /\ [][Next]_vars

(***************************************************************************)
(* Properties.  Quiet: the last fresh load began with nothing out, nothing *)
(* crossed it, and it is done.                                             *)
(***************************************************************************)

Quiet == clean /\ loads = {} /\ calls = {} /\ tab = "profile"

\* What the keys move through is what is on the screen, of the profile and the tab within
\* the page that are open.
RowsOnScreen == Quiet => /\ header.of = who /\ rows = content
                         /\ \A i \in DOMAIN rows : rows[i][1] = who /\ rows[i][2] = mode

\* No post is there twice, though it is pinned, or pages overlap, or the end is reached and
\* the first page comes again.
PostOnce == Quiet /\ OfPosts(mode) => IsInjective(rows)

\* The buttons say what the account has, and nobody is followed twice while
\* no click crossed a load or a call.
ButtonsTellTruth == ~tangled => /\ Quiet => header = Buttons(who)
                                /\ \A p \in People : follows[p] <= 1

\* The page is not left marked as busy, however its loads ended.
BusyEnds == loads = {} => ~busy

\* The other tab has its rows when it is shown again, however the profile was loaded
\* meanwhile: only a load that is answered when that tab is shown spills into it.
OtherRowsStay == ~spilled => (IF tab = "other" THEN rows ELSE kept) = << <<0, "other", 1>> >>

(***************************************************************************)
(* What they rest on: as long as it is clean the one load there is found   *)
(* nothing that it did not leave itself.                                   *)
(***************************************************************************)

Headers == [of : People \cup {0}, follow : BOOLEAN, mute : BOOLEAN]
Typed == /\ tab \in {"profile", "other"} /\ who \in People /\ mode \in Modes /\ header \in Headers
         /\ \A l \in loads : l.who \in People /\ l.header \in Headers
         /\ ask = NoAsk \/ (ask.of \in People /\ ask.what \in {"mute", "unmute"})
         /\ \A c \in calls : c.of \in People
         /\ follows \in [People -> Nat]

\* The header and the rows of the profile, and of the tab within the page, that are open.
Shown == /\ header = Buttons(who) /\ rows = content /\ rows \in Seq(People \X Modes \X Nat)
         /\ \A i \in DOMAIN rows : rows[i][1] = who /\ rows[i][2] = mode
         /\ OfPosts(mode) => IsInjective(rows)

\* What a load that nothing crossed has left behind.
Stage(l) == /\ l.who = who
            /\ \/ l.at = "header" /\ rows = <<>> /\ content = <<>>
               \/ l.at = "known" /\ rows = <<>> /\ content = <<>> /\ l.header = Buttons(who)
               \/ l.at = "pinned" /\ mode = "posts" /\ rows = <<>> /\ Shown
               \/ l.at = "content" /\ l.mode = mode /\ l.box = box /\ Shown

OneLoad == clean => \/ /\ loads = {} /\ (tab = "profile" => Shown)
                       /\ header \in {NoHeader, Buttons(who)}
                    \/ tab = "profile" /\ \E l \in loads : loads = {l} /\ Stage(l)

\* One call at a time, which follows one who is not followed.
OneFollow == ~tangled => \A c \in calls : /\ \A d \in calls : c = d
                                          /\ c.what = "follow" => follows[c.of] = 0

FollowedOnce == ~tangled => \A p \in People : follows[p] <= 1

ProfileInv == Typed /\ OneLoad /\ OneFollow /\ FollowedOnce /\ BusyEnds /\ OtherRowsStay
=============================================================================
