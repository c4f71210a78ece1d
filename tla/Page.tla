--------------------------------- MODULE Page ---------------------------------
(***************************************************************************)
(* The lists of the page: controllers/timeline.ts, notifications.ts,       *)
(* saved.ts, tabs.ts, utils/pagination.ts and the handlers of the events   *)
(* of sync in auth.ts, over the one state of config/state.ts.              *)
(*                                                                         *)
(* A load runs from its first line to its first await in one step, and     *)
(* then once for every answer.  state.currentPosts is a reference: the     *)
(* lists are named, and two places may name the same one.                  *)
(*                                                                         *)
(* A feed is a number of items, the newest the largest; the feeds of the   *)
(* tabs are alike.  A cursor is the oldest item of the last page, 0 for    *)
(* the empty one.                                                          *)
(***************************************************************************)
EXTENDS Integers, FiniteSets, SequencesExt

CONSTANTS Tabs,        \* the tabs there are
          Loads,       \* bound: loads under way at once
          FirstTop,    \* items of a feed at first
          MaxTop,      \* bound: items of a feed
          Shows,       \* Shows[i]: the posts item i brings, its own last
          Replies,     \* the items that "hide replies" leaves out
          PageSize,    \* items on a page
          Enough,      \* posts that make topping up needless (25 of 100)
          RestoreCap,  \* MAX_RESTORE_PAGES
          MaxTroubles, \* bound: how often one happens of all that is not a plain
                       \* load or switch of tabs with nothing else under way
          Acts         \* what may happen

ASSUME TabsAssumption == Tabs \subseteq {"timeline", "notifications", "saved"} /\ "timeline" \in Tabs
ASSUME LoadsAssumption == IsFiniteSet(Loads) /\ Loads # {}
ASSUME FeedAssumption == /\ MaxTop \in Nat /\ FirstTop \in 0..MaxTop
                         /\ PageSize \in Nat \ {0} /\ Enough \in Nat /\ RestoreCap \in Nat
                         /\ MaxTroubles \in Nat
ASSUME PostsAssumption == /\ DOMAIN Shows = 1..MaxTop
                          /\ \A i \in 1..MaxTop : Shows[i] \in Seq(Nat \ {0}) /\ Shows[i] # <<>>
ASSUME ActsAssumption == Acts \subseteq {"more", "reload", "hide", "fail", "post", "announce", "switch"}

VARIABLES
    tab,       \* state.currentTab
    cur,       \* state.currentPosts: the name of a list
    list,      \* the lists
    kept,      \* tabStates[t].posts: the name of a list
    loaded,    \* tabStates[t].loaded
    pages,     \* tabStates[t].pagesLoaded
    cursor,    \* timelineCursor, notificationsCursor, savedCursor
    hide,      \* state.hideReplies
    shown,     \* the rows in the tab's panel
    load,      \* the loads under way
    top,       \* server: the newest item
    troubles,  \* how many there have been
    clean,     \* history: the tab's last fresh load had the page to itself
    halfway,   \* history: a load that had changed the panel has failed since
    failed,    \* history: the tab's last fresh load has failed
    head,      \* history: the newest item when the tab was last loaded
    news,      \* history: the newest item when sync last spoke while the tab was away
    lost       \* history: a reload did not find a post it should have found

lists   == <<cur, list, kept>>
marks   == <<loaded, pages, cursor>>
history == <<clean, halfway, failed, head, news, lost>>
vars    == <<tab, lists, marks, hide, shown, load, top, troubles, history>>

Items == 0..MaxTop
Ids   == 1..(Cardinality(Tabs) + 2 * Cardinality(Loads) + 2)

\* A load that is not under way; one that is has these, besides its tab: whether it
\* appends (loadMore), targetUri, pagesBefore's budget, the cursor it has sent,
\* previousPosts, previousCursor, staging, depth and pagesBeforeCall; and, for the
\* properties, the newest item it has met and what was known when it began.
NoLoad == [phase |-> "off", tab |-> "timeline", more |-> FALSE, target |-> 0, budget |-> 0,
           from |-> 0, prev |-> 0, back |-> 0, stage |-> <<>>, depth |-> 0, mark |-> 0,
           seen |-> 0, was |-> FALSE, owed |-> FALSE]

Init == /\ tab = "timeline" /\ cur = 1
        /\ list = [n \in Ids |-> <<>>]
        /\ kept = CHOOSE f \in [Tabs -> 2..4] : \A t, u \in Tabs : t # u => f[t] # f[u]
        /\ loaded = [t \in Tabs |-> FALSE] /\ pages = [t \in Tabs |-> 0]
        /\ cursor = [t \in Tabs |-> 0]
        /\ hide = FALSE
        /\ shown = [t \in Tabs |-> <<>>]
        /\ load = [l \in Loads |-> NoLoad]
        /\ top = FirstTop /\ troubles = 0
        /\ clean = [t \in Tabs |-> TRUE] /\ halfway = [t \in Tabs |-> FALSE]
        /\ failed = [t \in Tabs |-> FALSE]
        /\ head = [t \in Tabs |-> 0] /\ news = [t \in Tabs |-> 0]
        /\ lost = FALSE

Busy == \E l \in Loads : load[l].phase # "off"
\* A trouble, when c holds.
Trouble(c) == IF c THEN troubles < MaxTroubles /\ troubles' = troubles + 1
              ELSE UNCHANGED troubles

Refreshing == \E l \in Loads : load[l].phase # "off" /\ ~load[l].more

\* A name no reference uses.
NewList == CHOOSE n \in Ids :
             n \notin {cur} \cup {kept[t] : t \in Tabs} \cup {load[l].prev : l \in Loads}

(***************************************************************************)
(* A page of a feed and the rows it becomes.                               *)
(***************************************************************************)
Newest(c) == IF c = 0 THEN top ELSE c - 1
Oldest(c) == IF Newest(c) > PageSize THEN Newest(c) - PageSize + 1 ELSE 1
CursorAfter(c) == IF Oldest(c) > 1 THEN Oldest(c) ELSE 0
Page(c)   == [k \in 1..(Newest(c) - Oldest(c) + 1) |-> Newest(c) - k + 1]

Visible(i, h) == ~(h /\ i \in Replies)
Own(i) == Last(Shows[i])

Has(s, u) == \E k \in DOMAIN s : s[k].uri = u

\* Mutant: no look at what the list already has.
Push_Always(t, s, u) == Append(s, [tab |-> t, uri |-> u])

Push(t, s, u) == IF Has(s, u) THEN s ELSE Append(s, [tab |-> t, uri |-> u])

\* One after the other.
PushAll(t, s, us) == FoldLeft(LAMBDA r, u : Push(t, r, u), s, us)

\* The posts of a page without what goes with them.
Owns(c) == [k \in DOMAIN Page(c) |-> Own(Page(c)[k])]

\* The timeline puts the root and the parent of a reply before it, unless it has the
\* reply, or hides it.
AddItem(s, i) == IF Visible(i, hide) /\ ~Has(s, Own(i)) THEN PushAll("timeline", s, Shows[i]) ELSE s

AddAll(s, is) == FoldLeft(AddItem, s, is)

\* Notifications fold within a page, and do not look at what the list has.
Rows(t, s, c) == CASE t = "timeline"      -> AddAll(s, Page(c))
                   [] t = "notifications" -> s \o PushAll(t, <<>>, Owns(c))
                   [] t = "saved"         -> PushAll(t, s, Owns(c))

Beyond(s, r) == SubSeq(r, Len(s) + 1, Len(r))

(***************************************************************************)
(* A load begins.                                                          *)
(***************************************************************************)
\* Mutants: without the page of slack; without the ceiling.
Budget_NoSlack(n) == IF n > RestoreCap THEN RestoreCap ELSE n
Budget_NoCap(n)   == n + 1

\* "One page of slack: posts published since the reload push the target down".
Budget(n) == IF n + 1 > RestoreCap THEN RestoreCap ELSE n + 1

\* The post u was on a page the tab had, and is not hidden now: an item of its own, or
\* shown before an item that no other brings without it.
Brings(i, u)  == u \in Range(Shows[i]) /\ \A j \in DOMAIN Shows : Own(i) \in Range(Shows[j]) => u \in Range(Shows[j])
Reached(t, u) == \E i \in cursor[t]..head[t] :
                    i > 0 /\ IF t = "timeline" THEN Brings(i, u) /\ Visible(i, hide') ELSE u = Own(i)

\* A fresh load of t while c is the current list: notifications keep theirs until
\* the answer is there, the others start a new one; saved empties its panel.
StartFresh(l, t, u, c) ==
    /\ load[l].phase = "off"
    /\ load' = [load EXCEPT ![l] =
                  [NoLoad EXCEPT !.phase = "fetch", !.tab = t, !.target = u, !.depth = 1,
                                 !.budget = IF u = 0 THEN 0 ELSE Budget(pages[t]),
                                 !.prev = IF t = "timeline" THEN c ELSE 0,
                                 !.back = cursor[t],
                                 !.was = clean[t] /\ ~halfway[t],
                                 !.owed = /\ u # 0 /\ clean[t] /\ ~halfway[t] /\ ~failed[t]
                                          /\ pages[t] < RestoreCap /\ Reached(t, u)]]
    /\ cursor' = [cursor EXCEPT ![t] = 0]
    /\ pages' = [pages EXCEPT ![t] = 0]
    /\ IF t = "notifications" THEN cur' = c /\ UNCHANGED list
       ELSE cur' = NewList /\ list' = [list EXCEPT ![NewList] = <<>>]
    /\ shown' = IF t = "saved" THEN [shown EXCEPT ![t] = <<>>] ELSE shown
    /\ halfway' = [halfway EXCEPT ![t] = FALSE]

\* "j" on the last row.
More(l) ==
    /\ "more" \in Acts
    /\ load[l].phase = "off"
    /\ list[cur] # <<>> /\ cursor[tab] # 0
    /\ Trouble(Busy)
    /\ load' = [load EXCEPT ![l] = [NoLoad EXCEPT !.phase = "fetch", !.tab = tab, !.more = TRUE,
                                                  !.from = cursor[tab], !.depth = 1]]
    /\ clean' = [clean EXCEPT ![tab] = @ /\ ~Refreshing]
    /\ UNCHANGED <<tab, lists, marks, hide, shown, top, halfway, failed, head, news, lost>>

\* The post the user is on: any, or none.
Focused == {0} \cup {list[cur][k].uri : k \in DOMAIN list[cur]}

\* A fresh load of the tab on the screen that holds the user's place.
Again(l) == /\ \E u \in Focused : StartFresh(l, tab, IF tab = "saved" THEN 0 ELSE u, cur)
            /\ clean' = [clean EXCEPT ![tab] = ~Busy]
            /\ UNCHANGED <<tab, kept, loaded, top, failed, head, news, lost>>

Reload(l) == /\ "reload" \in Acts
             /\ Trouble(Busy)
             /\ UNCHANGED hide
             /\ Again(l)

\* "Hide replies", which reloads the timeline when it is on the screen.
ToggleHide == /\ "hide" \in Acts
              /\ Trouble(TRUE)
              /\ hide' = ~hide
              /\ \/ tab = "timeline" /\ \E l \in Loads : Again(l)
                 \/ /\ tab # "timeline"
                    /\ clean' = [clean EXCEPT !["timeline"] = FALSE]
                    /\ UNCHANGED <<tab, lists, marks, shown, load, top, halfway, failed,
                                   head, news, lost>>

\* "Force automatic update for all tabs EXCEPT timeline".
Stale(t) == t # "timeline" /\ t # tab

SwitchTab(t) ==
    LET home == IF t = tab THEN cur ELSE kept[t]
        have == loaded[t] /\ ~Stale(t)
        free == IF Busy THEN [u \in Tabs |-> FALSE] ELSE clean
    IN /\ "switch" \in Acts \/ t = tab
       /\ Trouble(Busy)
       /\ tab' = t
       /\ kept' = [kept EXCEPT ![tab] = cur]
       /\ loaded' = [loaded EXCEPT ![t] = have]
       /\ UNCHANGED <<hide, top, failed, head, news, lost>>
       /\ IF have THEN /\ cur' = home /\ clean' = free
                       /\ UNCHANGED <<list, pages, cursor, shown, load, halfway>>
          ELSE /\ \E l \in Loads : StartFresh(l, t, 0, home)
               /\ clean' = [free EXCEPT ![t] = ~Busy]

(***************************************************************************)
(* An answer arrives.                                                      *)
(***************************************************************************)
\* The fresh load r is through its first page; can it put the user back, and if it
\* has not yet found the place, does it fetch another page?
Restore(l, r, may) ==
    LET found == Has(list'[cur'], r.target)
        goOn  == /\ may /\ r.target # 0 /\ ~found
                 /\ pages'[r.tab] < r.budget /\ cursor'[r.tab] # 0
        due   == r.owed /\ r.seen - head[r.tab] <= PageSize
    IN /\ load' = [load EXCEPT ![l] =
                     IF ~goOn THEN NoLoad
                     ELSE [r EXCEPT !.phase = "restore", !.from = cursor'[r.tab],
                                    !.mark = pages'[r.tab], !.stage = <<>>, !.owed = due]]
       /\ lost' = (lost \/ (~goOn /\ ~found /\ due /\ list'[cur'] # <<>> /\ clean[r.tab]))

\* The first page is in: the tab is loaded.
Loaded(l, r) ==
    LET t == r.tab IN
    /\ loaded' = [loaded EXCEPT ![t] = TRUE]
    /\ IF r.more \/ t = "saved"
       THEN load' = [load EXCEPT ![l] = NoLoad] /\ UNCHANGED lost
       ELSE Restore(l, r, list'[cur'] # <<>>)
    /\ head' = IF r.more THEN head ELSE [head EXCEPT ![t] = r.seen]
    /\ failed' = IF r.more THEN failed ELSE [failed EXCEPT ![t] = FALSE]

Counted(t) == pages' = [pages EXCEPT ![t] = @ + 1]

\* A fresh load fills a detached node; loadMore appends to the panel.
ArriveTimeline(l) ==
    LET r    == IF load[l].depth = 1 THEN [load[l] EXCEPT !.seen = top] ELSE load[l]
        rows == Rows("timeline", list[cur], r.from)
        new  == Beyond(list[cur], rows)
        topUp == hide /\ Len(new) < Enough /\ CursorAfter(r.from) # 0 /\ r.depth < 3
    IN /\ r.phase = "fetch" /\ r.tab = "timeline"
       /\ Counted("timeline")
       /\ cursor' = [cursor EXCEPT !["timeline"] = CursorAfter(r.from)]
       /\ list' = [list EXCEPT ![cur] = rows]
       /\ shown' = [shown EXCEPT !["timeline"] = IF r.more THEN @ \o new
                                                ELSE IF topUp THEN @ ELSE r.stage \o new]
       /\ UNCHANGED <<tab, cur, kept, hide, top, troubles, clean, halfway, news>>
       /\ IF topUp
          THEN /\ load' = [load EXCEPT ![l] =
                             [r EXCEPT !.from = CursorAfter(r.from), !.depth = @ + 1,
                                       !.stage = IF r.more THEN <<>> ELSE @ \o new]]
               /\ UNCHANGED <<loaded, head, failed, lost>>
          ELSE Loaded(l, r)

ArriveNotifications(l) ==
    LET r    == [load[l] EXCEPT !.seen = top]
        rows == Rows("notifications", IF r.more THEN list[cur] ELSE <<>>, r.from)
    IN /\ r.phase = "fetch" /\ r.tab = "notifications"
       /\ Counted("notifications")
       /\ IF Page(r.from) = <<>>
          THEN /\ shown' = IF r.more THEN shown ELSE [shown EXCEPT !["notifications"] = <<>>]
               /\ UNCHANGED <<cursor, cur, list>>
          ELSE /\ cursor' = [cursor EXCEPT !["notifications"] = CursorAfter(r.from)]
               /\ cur' = IF r.more THEN cur ELSE NewList
               /\ list' = [list EXCEPT ![cur'] = rows]
               /\ shown' = [shown EXCEPT !["notifications"] =
                              IF r.more THEN @ \o Beyond(list[cur], rows) ELSE rows]
       /\ UNCHANGED <<tab, kept, hide, top, troubles, clean, halfway, news>>
       /\ Loaded(l, r)

ArriveSaved(l) ==
    LET r    == [load[l] EXCEPT !.seen = top]
        rows == Rows("saved", list[cur], r.from)
    IN /\ r.phase = "fetch" /\ r.tab = "saved"
       /\ IF Page(r.from) = <<>> THEN UNCHANGED <<cursor, list, kept, shown>>
          ELSE /\ cursor' = [cursor EXCEPT !["saved"] = CursorAfter(r.from)]
               /\ list' = [list EXCEPT ![cur] = rows]
               /\ kept' = [kept EXCEPT !["saved"] = cur]
               /\ shown' = [shown EXCEPT !["saved"] = @ \o Beyond(list[cur], rows)]
       /\ UNCHANGED <<tab, cur, pages, hide, top, troubles, clean, halfway, news>>
       /\ Loaded(l, r)

\* One more page for restoreFocusAfterReload.
ArriveRestore(l) ==
    LET r    == load[l]
        t    == r.tab
        rows == Rows(t, list[cur], r.from)
    IN /\ r.phase = "restore"
       /\ Counted(t)
       /\ cursor' = [cursor EXCEPT ![t] = CursorAfter(r.from)]
       /\ list' = [list EXCEPT ![cur] = rows]
       /\ shown' = [shown EXCEPT ![t] = @ \o Beyond(list[cur], rows)]
       /\ loaded' = [loaded EXCEPT ![t] = @ \/ t = "notifications"]
       /\ UNCHANGED <<tab, cur, kept, hide, top, troubles, clean, halfway, failed, head, news>>
       /\ Restore(l, r, pages'[t] # r.mark)

(***************************************************************************)
(* A request fails.                                                        *)
(***************************************************************************)
Ended(l) == load' = [load EXCEPT ![l] = NoLoad]

\* Mutants: the list is not put back; the cursor is not put back.
FailTimeline_NotList(l) ==
    LET r == load[l] IN
    /\ r.phase # "off" /\ r.tab = "timeline"
    /\ Ended(l)
    /\ cursor' = IF r.more THEN cursor ELSE [cursor EXCEPT !["timeline"] = r.back]
    /\ failed' = [failed EXCEPT !["timeline"] = @ \/ ~r.more]
    /\ halfway' = [halfway EXCEPT !["timeline"] = @ \/ r.phase = "restore"]
    /\ clean' = [clean EXCEPT !["timeline"] = @ /\ (r.more \/ r.was)]
    /\ UNCHANGED <<lists, shown>>

FailTimeline_NotCursor(l) ==
    LET r == load[l] IN
    /\ r.phase # "off" /\ r.tab = "timeline"
    /\ Ended(l)
    /\ cur' = IF r.more THEN cur ELSE r.prev
    /\ failed' = [failed EXCEPT !["timeline"] = @ \/ ~r.more]
    /\ halfway' = [halfway EXCEPT !["timeline"] = @ \/ r.phase = "restore"]
    /\ clean' = [clean EXCEPT !["timeline"] = @ /\ (r.more \/ r.was)]
    /\ UNCHANGED <<list, kept, cursor, shown>>

\* "The feed on screen was never touched, so put the bookkeeping back with it".
FailTimeline(l) ==
    LET r == load[l] IN
    /\ r.phase # "off" /\ r.tab = "timeline"
    /\ Ended(l)
    /\ cur' = IF r.more THEN cur ELSE r.prev
    /\ cursor' = IF r.more THEN cursor ELSE [cursor EXCEPT !["timeline"] = r.back]
    /\ failed' = [failed EXCEPT !["timeline"] = @ \/ ~r.more]
    /\ halfway' = [halfway EXCEPT !["timeline"] = @ \/ r.phase = "restore"]
    /\ clean' = [clean EXCEPT !["timeline"] = @ /\ (r.more \/ r.was)]
    /\ UNCHANGED <<list, kept, shown>>

FailNotifications(l) ==
    LET r == load[l] IN
    /\ r.phase # "off" /\ r.tab = "notifications"
    /\ Ended(l)
    /\ failed' = [failed EXCEPT !["notifications"] = @ \/ (r.phase = "fetch" /\ ~r.more)]
    /\ clean' = [clean EXCEPT !["notifications"] = @ /\ (r.more \/ r.phase = "restore" \/ r.was)]
    /\ UNCHANGED <<lists, cursor, shown, halfway>>

\* The message of the error takes the place of the list.
FailSaved(l) ==
    LET r == load[l] IN
    /\ r.phase # "off" /\ r.tab = "saved"
    /\ Ended(l)
    /\ shown' = [shown EXCEPT !["saved"] = <<>>]
    /\ failed' = [failed EXCEPT !["saved"] = @ \/ ~r.more]
    /\ halfway' = [halfway EXCEPT !["saved"] = @ \/ r.more]
    /\ UNCHANGED <<lists, cursor, clean>>

Fail(l) == /\ "fail" \in Acts
           /\ Trouble(TRUE)
           /\ FailTimeline(l) \/ FailNotifications(l) \/ FailSaved(l)
           /\ UNCHANGED <<tab, loaded, pages, hide, top, head, news, lost>>

(***************************************************************************)
(* The world: new items, and the events of sync.                           *)
(***************************************************************************)
Post == /\ "post" \in Acts /\ top < MaxTop
        /\ Trouble(TRUE)
        /\ top' = top + 1
        /\ UNCHANGED <<tab, lists, marks, hide, shown, load, history>>

\* Mutant: the tab is not marked.
Announce_Unmarked(t) ==
    /\ "announce" \in Acts /\ t \notin {tab, "saved"}
    /\ Trouble(TRUE)
    /\ news' = [news EXCEPT ![t] = top]
    /\ UNCHANGED <<tab, lists, marks, hide, shown, load, top, clean, halfway, failed, head, lost>>

\* new_timeline_posts and new_notifications for a tab that is away.
Announce(t) ==
    /\ "announce" \in Acts /\ t \notin {tab, "saved"}
    /\ Trouble(TRUE)
    /\ loaded' = [loaded EXCEPT ![t] = FALSE]
    /\ news' = [news EXCEPT ![t] = top]
    /\ UNCHANGED <<tab, lists, pages, cursor, hide, shown, load, top, clean, halfway, failed, head, lost>>

\* new_notifications on the screen, near its top; new_timeline_posts does nothing.
AnnounceHere(l) == /\ "announce" \in Acts
                   /\ Trouble(TRUE)
                   /\ tab = "notifications"
                   /\ UNCHANGED hide
                   /\ Again(l)

Answer(l) == \/ ArriveTimeline(l) \/ ArriveNotifications(l) \/ ArriveSaved(l)
             \/ ArriveRestore(l) \/ Fail(l)

Next == \/ \E l \in Loads : More(l) \/ Reload(l) \/ AnnounceHere(l) \/ Answer(l)
        \/ ToggleHide
        \/ \E t \in Tabs : SwitchTab(t) \/ Announce(t)
        \/ Post

Spec == Init /\ [][Next]_vars

(***************************************************************************)
(* Properties.                                                             *)
(***************************************************************************)
\* The variables have their types; no restore may fetch more pages than the ceiling,
\* however deep the user sits (pagination.ts:3-7, 77).
TypeOK ==
    /\ tab \in Tabs /\ cur \in Ids /\ kept \in [Tabs -> Ids]
    /\ list \in [Ids -> Seq([tab : Tabs, uri : UNION {Range(Shows[i]) : i \in DOMAIN Shows}])]
    /\ loaded \in [Tabs -> BOOLEAN] /\ pages \in [Tabs -> Nat] /\ cursor \in [Tabs -> Items]
    /\ \A l \in Loads : /\ load[l].phase \in {"off", "fetch", "restore"}
                        /\ load[l].tab \in Tabs
                        /\ load[l].budget \in 0..RestoreCap
                        /\ load[l].depth \in 0..3
    /\ top \in Items /\ head \in [Tabs -> Items] /\ news \in [Tabs -> Items]

\* No post of a timeline or of the saved posts is twice in a list, however loads
\* overlap (timeline.ts:47, saved.ts:50).
NoPostTwice ==
    \A n \in {cur} \cup {kept[t] : t \in Tabs} :
      \A j, k \in DOMAIN list[n] :
        j < k /\ list[n][k].tab # "notifications" => list[n][j].uri # list[n][k].uri

\* The list the keys move through.
Current(t) == IF t = tab THEN list[cur] ELSE list[kept[t]]

Settled(t) == ~Busy /\ clean[t]
Sound(t)   == Settled(t) /\ ~halfway[t]

\* What the keys move through is what the panel shows, for every tab, once its last
\* fresh load had the page to itself, whatever has failed before the panel changed.
StateIsOnScreen == \A t \in Tabs : Sound(t) => Current(t) = shown[t]

\* A failed load leaves the state with the timeline on screen: "put the bookkeeping
\* back with it rather than leaving the state describing a load that did not happen"
\* (timeline.ts:141-142).
FailureLeavesScreen == Settled("timeline") => Current("timeline") = shown["timeline"]

\* Between the newest item of the last load and the cursor no item that is never
\* hidden is missing: no failure, top-up or stale answer makes paging skip a page
\* (timeline.ts:19, 102-119, 144-147).
NothingSkipped ==
    Sound("timeline") =>
      \A i \in cursor["timeline"]..head["timeline"] :
         i > 0 /\ i \notin Replies => Has(Current("timeline"), Own(i))

\* A reload that finds anything finds the post the user was on, if it was on a page and
\* at most a page of new items pushed it down (pagination.ts:47-60, 70-72).
PlaceIsKept == ~lost

\* What sync announced while a tab was away is there when the tab is: a tab that
\* counts as loaded has been loaded since (auth.ts:73-88, tabs.ts:33-36, 60-61).
NewsIsShown ==
    \A t \in Tabs : t = tab /\ Sound(t) /\ loaded[t] /\ ~failed[t] => head[t] >= news[t]
=============================================================================
