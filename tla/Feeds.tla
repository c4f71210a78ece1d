--------------------------------- MODULE Feeds ---------------------------------
(***************************************************************************)
(* The feeds tab, controllers/feeds.ts, and the ways to choose the feed    *)
(* that the timeline shows: its rows, trends, Alt+Shift+digit, Alt+1.      *)
(*                                                                         *)
(* A load of the tab asks for the saved feeds first and then for what the  *)
(* mode wants that is set by then; its rows are added to state.currentPosts*)
(* of whatever tab is shown.  A choice is sent as the whole list, made from*)
(* state.savedFeeds as it is at the click.  A load of the timeline is taken*)
(* as done at once: Page has its answers.                                  *)
(***************************************************************************)
EXTENDS Naturals, Sequences, FiniteSets, Functions

CONSTANTS FeedIds,      \* feeds, 1..N; 0 is the timeline of those who are followed
          MaxSteps,     \* bound: loads, choices and failures
          MaxLoads      \* bound: loads that are out at once

VARIABLES
    acct,       \* what the account has of each feed: "no", "saved", "pinned"
    listed,     \* state.savedFeeds, in the same way
    tab,        \* "feeds" or "timeline"
    mode,       \* state.feedsTabMode
    panel,      \* the rows in feed-list
    rows,       \* state.currentPosts
    kept,       \* the posts of tabStates, of the tab that is not shown
    busy,       \* aria-busy of feed-list
    loads,      \* calls of loadFeedsTab that are not done: what each asked for
    ask,        \* the feed that is to be removed, 0 when nothing is asked
    calls,      \* choices that are not answered: of which feed, to what, and what was sent
    route,      \* the feed of a trend whose author is being looked up, 0 for none
    uri,        \* state.currentFeedUri
    loaded,     \* tabStates.timeline.loaded
    shows,      \* the feed whose posts the timeline has
    n,          \* how many of what MaxSteps bounds
    wanted,     \* history: what was chosen of each feed, and carried out
    blind,      \* history: a choice was made from a list that was not the account's
    lost,       \* history: a choice failed, or the list left some out, and no whole list came since
    clean,      \* history: the last load began with nothing out, and nothing crossed it
    chosen      \* history: how the feed of the timeline was chosen

saved  == <<acct, listed, wanted>>
screen == <<panel, rows, kept, busy, loads>>
line   == <<uri, loaded, shows, chosen>>
vars   == <<saved, screen, line, tab, mode, ask, calls, route, n, blind, lost, clean>>

Modes == {"saved", "lists", "discover", "trending"}
None  == [f \in FeedIds |-> "no"]
TimelineRows(f) == << [m |-> "posts", f |-> f, st |-> ""] >>

Init == /\ acct = [None EXCEPT ![1] = "pinned"] /\ wanted = acct /\ listed = acct
        /\ tab = "timeline" /\ mode = "saved" /\ panel = <<>> /\ kept = <<>>
        /\ loaded \in BOOLEAN /\ uri = 0 /\ shows = 0 /\ chosen = "key"
        /\ rows = IF loaded THEN TimelineRows(0) ELSE <<>>
        /\ busy = FALSE /\ loads = {} /\ ask = 0 /\ calls = {} /\ route = 0
        /\ n = 0 /\ blind = FALSE /\ lost = FALSE /\ clean = TRUE

Step == n < MaxSteps /\ n' = n + 1
Idle == loads = {} /\ calls = {}

(***************************************************************************)
(* Loads of the tab.                                                       *)
(***************************************************************************)

NewLoad == [at |-> "first", k |-> CHOOSE k \in 1..MaxLoads : \A l \in loads : l.k # k]

\* Mutant: the rows of before stay with the keys.
Begin_KeepsRows(was) == /\ busy' = TRUE /\ panel' = <<>> /\ rows' = was /\ Cardinality(loads) < MaxLoads
                        /\ loads' = loads \cup {NewLoad}

\* loadFeedsTab up to its first await, when the rows of the tab are was.
Begin(was) == /\ busy' = TRUE /\ panel' = <<>> /\ rows' = <<>> /\ Cardinality(loads) < MaxLoads
              /\ loads' = loads \cup {NewLoad}

\* Alt+5, or the tab: it is loaded whenever it was not shown.  Alt+T loads it in any case.
ToFeeds(m) == /\ Step /\ mode' = m /\ tab' = "feeds" /\ clean' = Idle
              /\ \/ tab = "timeline" /\ m \in {mode, "trending"} /\ kept' = rows /\ Begin(kept)
                 \/ tab = "feeds" /\ m = "trending" /\ Begin(rows) /\ UNCHANGED kept
              /\ UNCHANGED <<saved, line, ask, calls, route, blind, lost>>

\* A button of the tab for another mode; loading again.
SetMode(m) == /\ tab = "feeds" /\ Step /\ mode' = m /\ Begin(rows) /\ clean' = Idle
              /\ UNCHANGED <<saved, line, kept, tab, ask, calls, route, blind, lost>>

\* The feeds of a set as they are ordered, in which way does not matter.
InOrder(S) == CHOOSE s \in Bijection(1..Cardinality(S), S) : TRUE

\* What a mode shows of the feeds that are listed.
RowsOf(m, list) ==
    LET At(f) == [m |-> m, f |-> f, st |-> IF f = 0 THEN "" ELSE list[f]]
        Has == InOrder({f \in FeedIds : list[f] # "no"})
        All == InOrder(FeedIds) IN
    CASE m = "saved" -> <<At(0)>> \o [i \in DOMAIN Has |-> At(Has[i])]
      [] m = "discover" -> [i \in DOMAIN All |-> At(All[i])]
      [] m = "trending" -> <<At(All[1])>>
      [] m = "lists" -> <<At(0)>>

Rendered(l, m, list) == /\ panel' = RowsOf(m, list) /\ rows' = rows \o RowsOf(m, list)
                        /\ busy' = FALSE /\ loads' = loads \ {l}

\* The saved feeds, without those whose generator is not found, none when they cannot be
\* looked up; with an error the list stays as it was.
Answers == {[f \in FeedIds |-> IF f \in found THEN acct[f] ELSE "no"] : found \in SUBSET FeedIds}
           \cup {listed}

\* The list that comes; the mode that is set by then is shown.
GotSaved(l, list) ==
    /\ l.at = "first" /\ listed' = list
    /\ lost' = (list # acct) /\ (list # acct => n < MaxSteps)
    /\ IF mode = "saved" THEN Rendered(l, mode, listed')
       ELSE loads' = (loads \ {l}) \cup {[at |-> mode, k |-> l.k]} /\ UNCHANGED <<panel, rows, busy>>
    /\ UNCHANGED <<acct, wanted, kept, line, tab, mode, ask, calls, route, n, blind, clean>>

GotRows(l) == /\ l.at # "first" /\ Rendered(l, l.at, listed)
              /\ UNCHANGED <<saved, kept, line, tab, mode, ask, calls, route, n, blind, lost, clean>>

\* The error is shown, and the mark is taken off.
NotLoaded(l) == /\ l.at # "first" /\ Step /\ panel' = <<>> /\ busy' = FALSE /\ loads' = loads \ {l}
                /\ clean' = FALSE
                /\ UNCHANGED <<rows, kept, saved, line, tab, mode, ask, calls, route, blind, lost>>

(***************************************************************************)
(* Choices.                                                                *)
(***************************************************************************)

\* Mutant: those that are pinned are sent as saved.
Sent_Unpinned(f, to) == [g \in FeedIds |-> IF g = f THEN to ELSE IF listed[g] = "no" THEN "no" ELSE "saved"]

\* The whole list that is sent, for feed f to be "to".
Sent(f, to) == [listed EXCEPT ![f] = to]

Choose(f, to) == /\ calls' = calls \cup {[f |-> f, to |-> to, sent |-> Sent(f, to), k |-> n]}
                 /\ blind' = (blind \/ listed # acct \/ calls # {}) /\ clean' = (clean /\ loads = {})
                 /\ UNCHANGED <<saved, screen, line, tab, mode, route, lost>>

Offers(r) == tab = "feeds" /\ ask = 0 /\ r \in Range(panel) /\ r.f # 0 /\ r.m \in {"saved", "discover"}

\* Of a feed that is not saved.
Save(r) == /\ Offers(r) /\ r.st = "no" /\ Step
           /\ Choose(r.f, IF listed[r.f] = "no" THEN "saved" ELSE listed[r.f]) /\ UNCHANGED ask

\* The row knows whether it was pinned when it was made.  One that is saved no more is
\* not saved by being unpinned among the saved.
Pin(r) == /\ Offers(r) /\ Step
          /\ Choose(r.f, IF r.st # "pinned" THEN "pinned"
                         ELSE IF r.m = "saved" /\ listed[r.f] = "no" THEN "no" ELSE "saved")
          /\ UNCHANGED ask

Unsave(r) == /\ Offers(r) /\ r.st # "no" /\ Step /\ ask' = r.f
             /\ UNCHANGED <<saved, screen, line, tab, mode, calls, route, blind, lost, clean>>
Answer(yes) == /\ ask # 0 /\ ask' = 0 /\ UNCHANGED n
               /\ IF yes THEN Choose(ask, "no")
                  ELSE UNCHANGED <<calls, saved, screen, line, tab, mode, route, blind, lost, clean>>

Carried(c) == acct' = c.sent /\ wanted' = [wanted EXCEPT ![c.f] = c.to] /\ UNCHANGED listed

\* Mutant: the tab is not loaded again.
Done_NoReload(c) == /\ calls' = calls \ {c} /\ Carried(c)
                    /\ UNCHANGED <<screen, line, tab, mode, ask, route, n, blind, lost, clean>>

\* The tab is loaded again, though another may be shown by then.
Done(c) == /\ calls' = calls \ {c} /\ Carried(c) /\ Begin(rows)
           /\ clean' = (loads = {} /\ calls' = {} /\ tab = "feeds")
           /\ UNCHANGED <<kept, line, tab, mode, ask, route, n, blind, lost>>

\* An error; the call may have been carried out.
NotDone(c, carried) == /\ calls' = calls \ {c} /\ Step /\ lost' = TRUE
                       /\ IF carried THEN Carried(c) ELSE UNCHANGED saved
                       /\ UNCHANGED <<screen, line, tab, mode, ask, route, blind, clean>>

(***************************************************************************)
(* The feed of the timeline.                                               *)
(***************************************************************************)

Loads(f) == loaded' = TRUE /\ shows' = f /\ rows' = TimelineRows(f)

\* switchTab to the timeline when f was chosen: the one that is loaded is shown again; on
\* the timeline itself it takes the choice back.
ToTimeline(f) ==
    /\ uri' = IF tab = "timeline" THEN 0 ELSE f
    /\ tab' = "timeline" /\ kept' = IF tab = "feeds" THEN rows ELSE kept
    /\ IF loaded THEN rows' = (IF tab = "feeds" THEN kept ELSE rows) /\ UNCHANGED <<loaded, shows>>
                 ELSE Loads(uri')
    /\ chosen' = IF loaded THEN "row" ELSE "key"
    /\ clean' = (clean /\ Idle)
    /\ UNCHANGED <<saved, panel, busy, loads, mode, ask, calls, blind, lost>>

\* Alt+1, or the tab.
KeyTimeline == Step /\ ToTimeline(uri) /\ UNCHANGED route

\* A row of a feed.
OpenFeed(r) == /\ tab = "feeds" /\ r \in Range(panel) /\ r.m \in {"saved", "discover"} /\ Step
               /\ ToTimeline(r.f) /\ UNCHANGED route

\* A trend: its author is looked up first.
OpenTrend(r) == /\ tab = "feeds" /\ r \in Range(panel) /\ r.m = "trending" /\ route = 0 /\ Step
                /\ route' = r.f
                /\ UNCHANGED <<saved, screen, line, tab, mode, ask, calls, blind, lost, clean>>
TrendFound(found) == /\ route # 0 /\ route' = 0 /\ UNCHANGED n
                     /\ IF found THEN ToTimeline(route)
                        ELSE UNCHANGED <<saved, screen, line, tab, mode, ask, calls, blind, lost, clean>>

\* Mutant: the timeline counts as loaded.
AltShift_Loaded(f) == /\ Step /\ f \in {0} \cup {g \in FeedIds : listed[g] # "no"} /\ uri' = f /\ tab' = "timeline"
                      /\ kept' = (IF tab = "feeds" THEN rows ELSE kept) /\ chosen' = "key"
                      /\ IF tab = "feeds" /\ loaded THEN rows' = kept /\ UNCHANGED <<loaded, shows>>
                                                    ELSE Loads(f)
                      /\ clean' = (clean /\ Idle)
                      /\ UNCHANGED <<saved, panel, busy, loads, mode, ask, calls, route, blind, lost>>

\* Alt+Shift+0, or the digit of a feed that is listed: the timeline is loaded in any case.
AltShift(f) == /\ Step /\ f \in {0} \cup {g \in FeedIds : listed[g] # "no"} /\ uri' = f /\ tab' = "timeline"
               /\ kept' = (IF tab = "feeds" THEN rows ELSE kept) /\ chosen' = "key"
               /\ Loads(f) /\ clean' = (clean /\ Idle)
               /\ UNCHANGED <<saved, panel, busy, loads, mode, ask, calls, route, blind, lost>>

Next == \/ \E m \in Modes : ToFeeds(m) \/ SetMode(m)
        \/ \E l \in loads : \/ GotRows(l) \/ NotLoaded(l)
                            \/ \E list \in Answers : GotSaved(l, list)
        \/ \E r \in Range(panel) : Save(r) \/ Pin(r) \/ Unsave(r) \/ OpenFeed(r) \/ OpenTrend(r)
        \/ \E b \in BOOLEAN : Answer(b) \/ TrendFound(b) \/ \E c \in calls : NotDone(c, b)
        \/ \E c \in calls : Done(c)
        \/ \E f \in FeedIds \cup {0} : AltShift(f)
        \/ KeyTimeline

Spec == Init /\ [][Next]_vars

(***************************************************************************)
(* Properties                                                              *)
(***************************************************************************)

Quiet == clean /\ Idle /\ tab = "feeds"

\* What the keys move through is what the tab shows, of the mode that is set.
RowsOnScreen == Quiet => rows = panel /\ \A i \in DOMAIN rows : rows[i].m = mode

\* The account has what was chosen of each feed, and no choice undid another, as long as
\* each was made from the list that the account has.
ChoicesKept == calls = {} /\ ~blind => acct = wanted

\* The buttons of a row say what the account has of its feed, again after a failure, when
\* the list that comes next leaves none out.
ButtonsTellTruth == Quiet /\ ~lost => \A i \in DOMAIN panel : panel[i].f # 0 => panel[i].st = acct[panel[i].f]

\* A feed that was chosen by a key, or before the timeline was loaded, is the one whose
\* posts the timeline has.
ChosenIsShown == chosen = "key" => shows = uri

(***************************************************************************)
(* What they rest on: as long as it is clean the one load there is fills   *)
(* an empty list, and as long as it is not blind the one call there is was *)
(* made from what the account has.                                         *)
(***************************************************************************)

\* The rows, of the mode that is set, as the account has their feeds.
Shown == /\ rows = panel
         /\ \A i \in DOMAIN panel : /\ panel[i].m = mode
                                    /\ ~lost /\ panel[i].f # 0 => panel[i].st = acct[panel[i].f]

OneLoad == clean =>
    \/ loads = {} /\ (tab = "feeds" => Shown)
    \/ /\ tab = "feeds" /\ rows = <<>>
       /\ \E l \in loads : /\ loads = {l}
                           /\ l.at = "first" \/ (l.at = mode /\ (~lost => listed = acct))

OneChoice == ~blind => /\ acct = wanted
                       /\ \A c \in calls : calls = {c} /\ c.sent = [acct EXCEPT ![c.f] = c.to]

FeedsInv == mode \in Modes /\ OneLoad /\ OneChoice /\ ChosenIsShown
=============================================================================
