--------------------------------- MODULE Lists ---------------------------------
(***************************************************************************)
(* The lists tab: controllers/lists.ts, the buttons of a list              *)
(* (components/list.ts), the links that end there (controllers/            *)
(* link_router.ts).                                                        *)
(*                                                                         *)
(* The panel shows the lists of the account or the posts of one list; each *)
(* load makes a place of its own for its rows and fills it when they come, *)
(* though another may have replaced it by then, and adds the rows to       *)
(* state.currentPosts.  A list is a number; its posts are one row.         *)
(***************************************************************************)
EXTENDS Naturals, Sequences, FiniteSets, Functions

CONSTANTS ListIds,      \* lists of the account, those that are and those that may be created
          MaxSteps,     \* bound: what the reader does, failures
          MaxLoads      \* bound: loads that are out at once

VARIABLES
    lang,       \* the language, "pt", "es" or "en"
    owned,      \* the lists that the account has
    muted,      \* those that are muted
    blocks,     \* how many records block each
    packs,      \* of which lists there are starter packs
    twice,      \* history: lists that were blocked when they were blocked
    tab,        \* "lists" or "other"
    panel,      \* what it shows: "", "lists" or "feed", and the number of the place
    items,      \* the rows of that place
    busy,       \* its aria-busy
    rows,       \* state.currentPosts, on this tab: what each row is of
    loads,      \* loads that are not done
    dialog,     \* the prompts that are open: for what, of which list, which of them
    calls,      \* what was sent and is not answered
    route,      \* a link to a list, whose owner is being looked up
    n,          \* how many of what MaxSteps bounds
    clean,      \* history: nothing came for a place that was replaced, or from elsewhere, since
                \* the rows were made anew
    told,       \* history: no call crossed another or a load, or failed
    loaded      \* tabStates.lists.loaded

account == <<owned, muted, blocks, packs, twice>>
screen  == <<panel, items, busy, rows>>
here    == <<tab, loaded>>
vars    == <<lang, account, here, screen, loads, dialog, calls, route, n, clean, told>>

NoDialog == [what |-> "", l |-> 0, at |-> 0, of |-> {}]
Nothing  == [kind |-> "", box |-> 0]

Init == /\ lang \in {"pt", "es", "en"} /\ owned = {1} /\ muted = {} /\ packs = {} /\ twice = {}
        /\ blocks = [l \in ListIds |-> 0]
        /\ tab = "other" /\ panel = Nothing /\ items = <<>> /\ busy = FALSE /\ rows = <<>>
        /\ loads = {} /\ dialog = NoDialog /\ calls = {} /\ route = FALSE /\ n = 0
        /\ clean = TRUE /\ told = TRUE /\ loaded = FALSE

Step == n < MaxSteps /\ n' = n + 1

(***************************************************************************)
(* Loads.                                                                  *)
(***************************************************************************)

Box == CHOOSE b \in 1..2 * MaxLoads + 1 : b # panel.box /\ \A l \in loads : l.box # b

\* A place for what is to come, in the panel.
Place(kind, of) == /\ Cardinality(loads) < MaxLoads
                   /\ panel' = [kind |-> kind, box |-> Box] /\ items' = <<>> /\ busy' = TRUE
                   /\ loads' = loads \cup {[kind |-> kind, of |-> of, box |-> Box]}

\* loadListsTab, up to its await, with the calls out that are left.
LoadLists(out) == Place("lists", 0) /\ rows' = <<>> /\ clean' = (loads = {} /\ out = {})

\* viewListFeed, up to its await: the rows stay with the keys until the posts are there.
ViewFeed(l) == Place("feed", l) /\ UNCHANGED rows

\* A row says what the account has of its list; undo is the record to take a block off by.
Item(l) == [l |-> l, mute |-> l \in muted, block |-> blocks[l] > 0, undo |-> blocks[l] > 0]

Shown(l, its) == IF panel.box = l.box THEN items' = its /\ busy' = FALSE ELSE UNCHANGED <<items, busy>>

\* Lists as they are ordered, in which way does not matter.
InOrder(S) == CHOOSE s \in Bijection(1..Cardinality(S), S) : TRUE

GotLists(l) == /\ l.kind = "lists" /\ loads' = loads \ {l}
               /\ LET all == InOrder(owned) IN
                  /\ Shown(l, [i \in DOMAIN all |-> Item(all[i])])
                  /\ rows' = rows \o [i \in DOMAIN all |-> [kind |-> "list", of |-> all[i]]]
               /\ clean' = (clean /\ panel.box = l.box /\ tab = "lists") /\ loaded' = TRUE
               /\ UNCHANGED <<lang, account, tab, panel, dialog, calls, route, n, told>>

\* Mutant: the posts are added to the rows of the lists.
GotFeed_Added(l) == /\ l.kind = "feed" /\ loads' = loads \ {l} /\ Shown(l, <<Item(l.of)>>)
                    /\ rows' = Append(rows, [kind |-> "post", of |-> l.of])
                    /\ clean' = (clean /\ panel.box = l.box /\ tab = "lists")
                    /\ UNCHANGED <<lang, account, here, panel, dialog, calls, route, n, told>>

\* The posts of a list take the place of whatever rows there are; no other load is out to
\* change them after it, when they are the last.
GotFeed(l) == /\ l.kind = "feed" /\ loads' = loads \ {l} /\ Shown(l, <<Item(l.of)>>)
              /\ rows' = <<[kind |-> "post", of |-> l.of]>>
              /\ clean' = ((clean \/ (loads = {l} /\ panel.kind = "feed")) /\ panel.box = l.box /\ tab = "lists")
              /\ UNCHANGED <<lang, account, here, panel, dialog, calls, route, n, told>>

\* The profile of a member, loaded from here: its pinned post, if it has one, and then a
\* page of its posts are added to the rows, whatever tab and panel they belong to by then.
GotPinned(l) == /\ l.kind = "member" /\ loads' = (loads \ {l}) \cup {[l EXCEPT !.kind = "page"]}
                /\ rows' = Append(rows, [kind |-> "pinned", of |-> 0]) /\ clean' = FALSE
                /\ UNCHANGED <<lang, account, here, panel, items, busy, dialog, calls, route, n, told>>
GotPage(l) == /\ l.kind \in {"member", "page"} /\ loads' = loads \ {l}
              /\ rows' = Append(rows, [kind |-> "page", of |-> 0]) /\ clean' = FALSE
              /\ UNCHANGED <<lang, account, here, panel, items, busy, dialog, calls, route, n, told>>

NotLoaded(l) == /\ Step /\ loads' = loads \ {l} /\ clean' = FALSE
                /\ busy' = (busy /\ panel.box # l.box)
                /\ UNCHANGED <<lang, account, here, panel, items, rows, dialog, calls, route, told>>

(***************************************************************************)
(* Going there and away; nothing is under a dialog.                        *)
(***************************************************************************)

Free == dialog = NoDialog
Same == UNCHANGED <<lang, account, dialog, calls, told>>

\* The tab is loaded whenever it was not shown, and marked as not loaded; F5 loads it again.
ToLists == /\ Free /\ Step /\ tab' = "lists" /\ loaded' = (loaded /\ tab = "lists")
           /\ LoadLists(calls) /\ UNCHANGED route /\ Same
ToOther == /\ Free /\ tab = "lists" /\ tab' = "other" /\ rows' = <<>> /\ clean' = (clean /\ loads = {})
           /\ UNCHANGED <<panel, items, busy, loads, route, n, loaded>> /\ Same

\* A row, or its button; the way back.
OpenFeed(i) == /\ Free /\ tab = "lists" /\ panel.kind = "lists" /\ i \in DOMAIN items /\ Step
               /\ ViewFeed(items[i].l) /\ clean' = (clean /\ loads = {}) /\ UNCHANGED <<here, route>> /\ Same
Back == Free /\ tab = "lists" /\ panel.kind = "feed" /\ Step /\ LoadLists(calls) /\ UNCHANGED <<here, route>> /\ Same

\* A link to a list: the tab is loaded when it was not shown, or is not marked as loaded, for
\* its load is out or failed; its panel is then taken for the posts, with the lists to come.
Follow == /\ Free /\ ~route /\ Step /\ route' = TRUE /\ UNCHANGED <<here, screen, loads, clean>> /\ Same
Routed(found) ==
    /\ route /\ route' = FALSE /\ UNCHANGED n /\ Same
    /\ IF ~found THEN UNCHANGED <<here, screen, loads, clean>>
       ELSE /\ tab' = "lists" /\ loaded' = (loaded /\ tab = "lists") /\ clean' = (loads = {})
            /\ IF loaded' THEN ViewFeed(1)
               ELSE LET b == Box
                        c == CHOOSE k \in 1..2 * MaxLoads + 1 : k \notin {b, panel.box} /\ \A l \in loads : l.box # k
                    IN /\ Cardinality(loads) + 1 < MaxLoads /\ rows' = <<>>
                       /\ panel' = [kind |-> "feed", box |-> c] /\ items' = <<>> /\ busy' = TRUE
                       /\ loads' = loads \cup {[kind |-> "lists", of |-> 0, box |-> b],
                                               [kind |-> "feed", of |-> 1, box |-> c]}

\* A member of a list: the profile is loaded, but its tab is not shown.
OpenMember == /\ Free /\ tab = "lists" /\ items # <<>> /\ Step /\ rows' = <<>> /\ clean' = FALSE
              /\ Cardinality(loads) < MaxLoads
              /\ loads' = loads \cup {[kind |-> "member", of |-> 0, box |-> Box]}
              /\ UNCHANGED <<here, panel, items, busy, route>> /\ Same

(***************************************************************************)
(* Prompts, one after another: name, description, kind; and what is sent.  *)
(***************************************************************************)

LastPrompt(what) == CASE what = "delete" -> 1 [] what = "edit" -> 2 [] OTHER -> 3

\* New, edit and delete; a starter pack asks for the lists first, and keeps to them.
Prompt(what, l) == /\ Free /\ tab = "lists" /\ Step /\ dialog' = [what |-> what, l |-> l, at |-> 1, of |-> owned]
                   /\ UNCHANGED <<lang, account, here, screen, loads, calls, route, clean, told>>
Create       == panel.kind = "lists" /\ Prompt("create", 0)
CreatePack   == panel.kind = "lists" /\ owned # {} /\ Prompt("pack", 0)
EditList(i)   == panel.kind = "lists" /\ i \in DOMAIN items /\ Prompt("edit", items[i].l)
DeleteList(i) == panel.kind = "lists" /\ i \in DOMAIN items /\ Prompt("delete", items[i].l)

Send(c) == calls' = calls \cup {c} /\ told' = (told /\ calls = {} /\ loads = {})
Call(what, l) == [what |-> what, l |-> l, box |-> panel.box, k |-> n]

\* A prompt is answered: the next one, or the call.
Answered(l) == /\ dialog # NoDialog /\ UNCHANGED n
               /\ IF dialog.at < LastPrompt(dialog.what)
                  THEN dialog' = [dialog EXCEPT !.at = @ + 1] /\ UNCHANGED <<calls, told>>
                  ELSE /\ dialog' = NoDialog
                       /\ l \in IF dialog.what = "pack" THEN dialog.of
                                ELSE IF dialog.what = "create" THEN ListIds \ owned ELSE {dialog.l}
                       /\ Send(Call(dialog.what, l))
               /\ UNCHANGED <<lang, account, here, screen, loads, route, clean>>
Cancelled == /\ dialog # NoDialog /\ dialog' = NoDialog
             /\ UNCHANGED <<lang, account, here, screen, loads, calls, route, n, clean, told>>

(***************************************************************************)
(* Muting and blocking: what a button does is read from its text, in       *)
(* Portuguese; its text is changed when the answer is there.               *)
(***************************************************************************)

Mute(i) == /\ Free /\ tab = "lists" /\ panel.kind = "lists" /\ i \in DOMAIN items /\ Step
           /\ Send(Call(IF items[i].mute /\ lang = "pt" THEN "unmute" ELSE "mute", items[i].l))
           /\ UNCHANGED <<lang, account, here, screen, loads, dialog, route, clean>>
Block(i) == /\ Free /\ tab = "lists" /\ panel.kind = "lists" /\ i \in DOMAIN items /\ Step
            /\ Send(Call(IF items[i].block /\ lang \in {"pt", "es"} /\ items[i].undo THEN "unblock"
                         ELSE "block", items[i].l))
            /\ UNCHANGED <<lang, account, here, screen, loads, dialog, route, clean>>

OfList == {"create", "edit", "delete", "pack"}

Served(c) ==
    /\ owned'  = CASE c.what = "create" -> owned \cup {c.l} [] c.what = "delete" -> owned \ {c.l}
                   [] OTHER -> owned
    /\ muted'  = CASE c.what = "mute" -> muted \cup {c.l} [] c.what \in {"unmute", "delete"} -> muted \ {c.l}
                   [] OTHER -> muted
    /\ blocks' = CASE c.what = "block" -> [blocks EXCEPT ![c.l] = @ + 1]
                   [] c.what = "unblock" /\ blocks[c.l] > 0 -> [blocks EXCEPT ![c.l] = @ - 1]
                   [] OTHER -> blocks
    /\ packs'  = IF c.what = "pack" THEN packs \cup {c.l} ELSE packs
    /\ twice'  = IF c.what = "block" /\ blocks[c.l] > 0 THEN twice \cup {c.l} ELSE twice

\* What the row of the call says after it.
Said(c, it) == IF it.l # c.l THEN it
               ELSE CASE c.what \in {"mute", "unmute"} -> [it EXCEPT !.mute = (c.what = "mute")]
                      [] c.what = "block"   -> [it EXCEPT !.block = TRUE]
                      [] c.what = "unblock" -> [it EXCEPT !.block = FALSE, !.undo = FALSE]

\* The row that was clicked is changed, if it is still there.
Switched(c) == /\ c.what \notin OfList /\ calls' = calls \ {c} /\ Served(c)
               /\ items' = IF panel.box = c.box THEN [i \in DOMAIN items |-> Said(c, items[i])] ELSE items
               /\ UNCHANGED <<lang, here, panel, busy, rows, loads, dialog, route, n, clean, told>>

\* Mutant: what the account has now is not loaded.
Done_NoReload(c) == /\ c.what \in OfList /\ calls' = calls \ {c} /\ Served(c)
                    /\ UNCHANGED <<lang, here, screen, loads, dialog, route, n, clean, told>>

\* The lists are loaded again, whatever is shown.
Done(c) == /\ c.what \in OfList /\ calls' = calls \ {c} /\ Served(c) /\ LoadLists(calls')
           /\ UNCHANGED <<lang, here, dialog, route, n, told>>
NotDone(c) == /\ calls' = calls \ {c} /\ Step /\ told' = FALSE
              /\ UNCHANGED <<lang, account, here, screen, loads, dialog, route, clean>>

Next == \/ ToLists \/ ToOther \/ Back \/ Follow \/ OpenMember \/ Create \/ CreatePack \/ Cancelled
        \/ \E i \in DOMAIN items : OpenFeed(i) \/ EditList(i) \/ DeleteList(i) \/ Mute(i) \/ Block(i)
        \/ \E found \in BOOLEAN : Routed(found)
        \/ \E l \in ListIds : Answered(l)
        \/ \E l \in loads : GotLists(l) \/ GotFeed(l) \/ GotPinned(l) \/ GotPage(l) \/ NotLoaded(l)
        \/ \E c \in calls : Switched(c) \/ Done(c) \/ NotDone(c)

Spec == Init /\ [][Next]_vars

(***************************************************************************)
(* Properties                                                              *)
(***************************************************************************)

Quiet == clean /\ loads = {} /\ calls = {} /\ tab = "lists"

\* What the keys move through is what the panel shows, as long as no answer came for a place
\* that was replaced, nor the posts of a member, since the rows were made anew.  After a link
\* that loads both the lists and the posts of one, so it is when the lists answer first: they
\* have no place by then, and the posts take their rows away.
RowsOnScreen == Quiet => /\ [i \in DOMAIN rows |-> rows[i].of] = [i \in DOMAIN items |-> items[i].l]
                         /\ \A i \in DOMAIN rows : rows[i].kind = IF panel.kind = "feed" THEN "post" ELSE "list"

\* The lists that are shown are those the account has, and their buttons say what it has of
\* each: what was created, changed or deleted is loaded again.  A list that was blocked twice
\* has two records, of which one is undone.
ListsAreOwn == Quiet /\ told /\ panel.kind = "lists" =>
    /\ {items[i].l : i \in DOMAIN items} = owned
    /\ \A i \in DOMAIN items :
          /\ items[i].mute = (items[i].l \in muted)
          /\ items[i].l \notin twice => items[i].block = (blocks[items[i].l] > 0)

(***************************************************************************)
(* What they rest on: a load that is out fills the panel that was made for *)
(* it, or it is not clean when that load comes.                            *)
(***************************************************************************)

Items == [l : ListIds, mute : BOOLEAN, block : BOOLEAN, undo : BOOLEAN]
OfRow == {"mute", "unmute", "block", "unblock"}
Typed == /\ owned \subseteq ListIds /\ blocks \in [ListIds -> Nat] /\ items \in Seq(Items)
         /\ \A l \in loads : l.kind = "feed" => l.of \in ListIds
         /\ dialog = NoDialog \/ dialog.what \in OfList
         /\ \A c \in calls : c.what \in OfList \cup OfRow /\ c.l \in ListIds

\* The keys have the rows of the panel.
Matched == /\ [i \in DOMAIN rows |-> rows[i].of] = [i \in DOMAIN items |-> items[i].l]
           /\ \A i \in DOMAIN rows : rows[i].kind = IF panel.kind = "feed" THEN "post" ELSE "list"

\* A load whose rows come when its place is gone, or the tab.
Doomed(l) == l.box # panel.box \/ tab # "lists"

OneLoad == clean =>
    \/ loads = {} /\ (tab = "lists" => Matched)
    \/ \E l \in loads : Doomed(l)
    \/ \E l \in loads : loads = {l} /\ l.kind = panel.kind /\ (l.kind = "lists" => rows = <<>>)

\* A list that was never blocked while it was blocked has one record.
BlockedOnce == \A l \in ListIds \ twice : blocks[l] <= 1

\* The panel shows what the account has, and the one call there is changes it in both.
Own == told /\ clean /\ panel.kind = "lists" /\ tab = "lists" =>
    \/ /\ loads = {}
       /\ {items[i].l : i \in DOMAIN items} = owned
       /\ \A i \in DOMAIN items :
             /\ items[i].mute = (items[i].l \in muted)
             /\ items[i].l \notin twice => items[i].block = (blocks[items[i].l] > 0)
       /\ \A c \in calls : calls = {c} /\ (c.what \in OfRow => c.box = panel.box)
    \/ loads # {} /\ (calls = {} \/ \E l \in loads : Doomed(l))

ListsInv == Typed /\ OneLoad /\ BlockedOnce /\ Own
=============================================================================
