--------------------------------- MODULE Desk ---------------------------------
(***************************************************************************)
(* The keys and the rows they act on: controllers/shortcuts.ts with the    *)
(* questions of utils/dialog.ts, the list of posts that opens over the     *)
(* page, the rows of components/post.ts and the switch of tabs.            *)
(*                                                                         *)
(* state.currentPosts is a reference, so lists have names; a row is a      *)
(* number.  Positions start at 1 and 0 is the -1 of the code.  Tab "a" is  *)
(* the timeline and "b" the search: neither is loaded again by a switch,   *)
(* and the search never moves the focus.  A load is one step here (the     *)
(* module Page has its steps).                                             *)
(*                                                                         *)
(* A row that takes the focus of the document sets focusedPostIndex to the *)
(* index it was made with; a closed dialog gives the focus back to what    *)
(* had it, and its close event comes later.  The keys act while a dialog   *)
(* is open, and the rows under it cannot take the focus.                   *)
(***************************************************************************)
EXTENDS Integers, Sequences, Functions

CONSTANTS Size,         \* rows of a tab
          MaxRows,      \* bound: rows that are made
          MaxAsks,      \* bound: questions and orders
          MaxLists      \* bound: a list of posts is shown while fewer lists than this were made

VARIABLES
    tab,        \* state.currentTab
    cur,        \* state.currentPosts: the name of a list
    focused,    \* state.focusedPostIndex
    list,       \* the lists, by name
    kept,       \* tabStates: posts and focusedIndex
    index,      \* dataset.index of each row
    home,       \* where each row is in the document
    held,       \* document.activeElement, when it is a row
    stack,      \* the open dialogs, the one on top last
    modal,      \* what the onclose of posts-list-modal has captured
    closing,    \* its close event is on its way
    coming,     \* lists of posts being fetched: how many
    scope,      \* the scope of the mutes is being asked for
    asked,      \* how many lists, questions and orders there have been
    calls,      \* deletions not answered yet
    seen        \* history: what has happened, by name

lists == <<tab, cur, focused, list, kept>>
rows  == <<index, home, held>>
over  == <<stack, modal, closing, coming, scope>>
work  == <<asked, calls>>
vars  == <<lists, rows, over, work, seen>>

Tabs == {"a", "b"}
Rows == list[cur]
HasFocus == focused \in DOMAIN Rows
Row  == Rows[focused]
Own(r) == r % 3 # 0

Init == /\ tab = "a" /\ cur = 1 /\ focused = 1 /\ held = 1
        /\ list = << [i \in 1..Size |-> i], <<>> >>
        /\ kept = [t \in Tabs |-> IF t = "a" THEN <<1, 1>> ELSE <<2, 0>>]
        /\ index = list[1] /\ home = [i \in 1..Size |-> "a"]
        /\ stack = <<>> /\ modal = [list |-> 0, prev |-> 0, idx |-> 0, was |-> <<0, 0>>]
        /\ closing = FALSE /\ coming = 0 /\ scope = FALSE
        /\ asked = 0 /\ calls = {} /\ seen = {}

Note(what, if) == IF if THEN {what} ELSE {}
Deleting == calls # {} \/ \E i \in DOMAIN stack : stack[i].kind \in {"x", "button"}

\* Whether a dialog of a kind is open, and where among the others.
Has(dialogs, kind) == \E i \in DOMAIN dialogs : dialogs[i].kind = kind
At(dialogs, kind)  == CHOOSE i \in DOMAIN dialogs : dialogs[i].kind = kind
PostsOpen == Has(stack, "posts")

\* The dialog on top, and those under it.
Top(dialogs)   == dialogs[Len(dialogs)]
Below(dialogs) == SubSeq(dialogs, 1, Len(dialogs) - 1)

\* The place whose rows can take the focus, with these dialogs open and on this tab.
InFront(dialogs, t) == IF dialogs = <<>> THEN t ELSE IF Top(dialogs).kind = "posts" THEN "m" ELSE "none"
View == InFront(stack, tab)

\* A call of focus on row r, after focusedPostIndex was set to i, when the rows are at h
\* and `old` has the focus; row 0 is none, and a row just made has index i.
Focus(r, i, h, front, old) ==
    IF r # 0 /\ h[r] = front
    THEN held' = r /\ focused' = IF old = r \/ r \notin DOMAIN index THEN i ELSE index[r]
    ELSE held' = old /\ focused' = i

RowAt(names, n, i) == IF i \in DOMAIN names[n] THEN names[n][i] ELSE 0
Spliced(L, i) == IF i \in DOMAIN L THEN SubSeq(L, 1, i - 1) \o SubSeq(L, i + 1, Len(L)) ELSE L

(***************************************************************************)
(* Moving among the rows.                                                  *)
(***************************************************************************)

\* Mutant: the row is not given the focus.
MoveTo_Silent(i) == /\ UNCHANGED <<tab, cur, list, kept, rows, over, work>>
                    /\ focused' = i /\ seen' = seen \cup Note("moved", Deleting)

MoveTo(i) == /\ UNCHANGED <<tab, cur, list, kept, index, home, over, work>>
             /\ Focus(Rows[i], i, home, View, held)
             /\ seen' = seen \cup Note("moved", Deleting)

KeyJ == focused < Len(Rows) /\ MoveTo(focused + 1)
KeyK == focused > 1 /\ focused <= Len(Rows) + 1 /\ MoveTo(focused - 1)
KeyDot == Rows # <<>> /\ MoveTo(1)

\* The focus event of a row, from the mouse or the Tab key.
RowFocus(r) == /\ home[r] = View /\ held # r
               /\ UNCHANGED <<tab, cur, list, kept, index, home, over, work>>
               /\ Focus(r, focused, home, View, held)
               /\ seen' = seen \cup Note("moved", Deleting)

\* n rows are made: their numbers, and their indexes.
NewRows(n) == [i \in 1..n |-> Len(index) + i]
MakeRows(n) == Len(index) + n <= MaxRows /\ index' = index \o [i \in 1..n |-> i]

\* The timeline is loaded again, and the focus put on a row; or a search is made, and the
\* place of the last one is kept.
Reload == /\ MakeRows(Size)
          /\ list' = Append(list, NewRows(Size)) /\ cur' = Len(list')
          /\ home' = [i \in DOMAIN index' |-> IF i > Len(index) THEN tab
                                               ELSE IF home[i] = tab THEN "gone" ELSE home[i]]
          /\ LET old == IF held # 0 /\ home[held] = tab THEN 0 ELSE held
             IN  IF tab = "a" THEN Focus(NewRows(Size)[1], 1, home', View, old)
                 ELSE held' = old /\ UNCHANGED focused
          /\ seen' = seen \cup Note("moved", Deleting) \cup Note("nested", PostsOpen \/ closing)
          /\ UNCHANGED <<tab, kept, over, work>>

\* A dialog, of which there is one element, closed wherever it is: the dialogs left, and what
\* focusedPostIndex is then.
Without(s, kind) == IF Has(s, kind) THEN Spliced(s, At(s, kind)) ELSE s
Back(s, kind, at) ==
    LET prev == s[At(s, kind)].prev
    IN  IF Has(s, kind) /\ prev # 0 /\ home[prev] = InFront(Without(s, kind), tab)
        THEN index[prev] ELSE at

\* switchTab to the other tab: the list of posts and the menu of mutes are closed, which gives the focus
\* back to a row at once; then what the keys move through is kept, though it is the list
\* of the dialog.
switchTab(t) ==
    LET rest == Without(Without(stack, "posts"), "menu")
        at   == Back(Without(stack, "posts"), "menu", Back(stack, "posts", focused))
    IN  /\ t # tab /\ tab' = t /\ stack' = rest
        /\ closing' = (closing \/ PostsOpen)
        /\ kept' = [kept EXCEPT ![tab] = <<cur, at>>]
        /\ cur' = kept[t][1]
        /\ Focus(IF t = "a" THEN RowAt(list, cur', kept[t][2]) ELSE 0,
                 kept[t][2], home, InFront(rest, t), 0)
        /\ seen' = seen \cup Note("moved", Deleting) \cup Note("nested", PostsOpen \/ closing)
        /\ UNCHANGED <<list, index, home, modal, coming, scope, work>>

(***************************************************************************)
(* The list of posts over the page.                                        *)
(***************************************************************************)

Fetch == /\ asked < MaxAsks /\ asked' = asked + 1
         /\ HasFocus /\ coming' = coming + 1
         /\ UNCHANGED <<lists, rows, stack, modal, closing, scope, calls, seen>>

\* The quotes of the post, the post it quotes, its replies and its tree.
KeyShiftQ == Fetch
KeyShiftO == Fetch
KeyShiftR == Fetch
KeyE      == Fetch

\* Mutant: the place is not captured.
Captured_NoIndex == [list |-> Len(list) + 1, prev |-> cur, idx |-> 1, was |-> <<cur, focused>>]

\* prevPosts and prevIdx.
Captured == [list |-> Len(list) + 1, prev |-> cur, idx |-> focused, was |-> <<cur, focused>>]

\* The answer is shown whatever is on the screen by then.
showPostsModal(n) ==
    /\ coming > 0 /\ coming' = coming - 1
    /\ MakeRows(n) /\ Len(list) < 2 + MaxLists
    /\ list' = Append(list, NewRows(n)) /\ modal' = Captured
    /\ stack' = IF PostsOpen THEN stack ELSE Append(stack, [kind |-> "posts", row |-> 0, prev |-> held])
    /\ home' = [i \in DOMAIN index' |-> IF i > Len(index) THEN "m"
                                         ELSE IF home[i] = "m" THEN "gone" ELSE home[i]]
    /\ IF n > 0 THEN cur' = Len(list') /\ Focus(NewRows(n)[1], 1, home', InFront(stack', tab), 0)
                ELSE held' = 0 /\ UNCHANGED <<cur, focused>>
    /\ seen' = seen \cup Note("moved", Deleting) \cup Note("nested", PostsOpen \/ closing)
    /\ UNCHANGED <<tab, kept, closing, scope, work>>

NoAnswer == /\ coming > 0 /\ coming' = coming - 1
            /\ UNCHANGED <<lists, rows, stack, modal, closing, scope, work, seen>>

(***************************************************************************)
(* Dialogs, questions, orders.                                             *)
(***************************************************************************)

\* close() of the dialog on top gives the focus back to what had it.
GiveBack == /\ stack' = Below(stack)
            /\ Focus(Top(stack).prev, focused, home, InFront(Below(stack), tab), 0)

CloseModal == /\ stack # <<>> /\ Top(stack).kind = "posts" /\ GiveBack
              /\ closing' = TRUE
              /\ seen' = seen \cup Note("moved", Deleting)
              /\ UNCHANGED <<tab, cur, list, kept, index, home, modal, coming, scope, work>>

onclose == /\ cur' = modal.prev
           /\ Focus(RowAt(list, modal.prev, modal.idx), modal.idx, home, View, held)

\* The close event; one stands for several that are on their way.
CloseEvent == /\ closing /\ closing' = FALSE
              /\ IF cur = modal.list THEN onclose ELSE UNCHANGED <<cur, focused, held>>
              /\ seen' = seen \cup Note("moved", Deleting)
                     \cup Note("lost", /\ "nested" \notin seen
                                       /\ \/ cur' # modal.was[1]
                                          \/ cur = modal.list /\ focused' # modal.was[2])
              /\ UNCHANGED <<tab, list, kept, index, home, stack, modal, coming, scope, work>>

\* A key acts on the row at focusedPostIndex, which should be the one the reader is on.
Acts == /\ HasFocus /\ asked < MaxAsks /\ asked' = asked + 1
        /\ UNCHANGED <<lists, index, home, modal, closing, calls>>
Wrong == Note("wrong", held \notin {0, Row})

Ask(kind, r) == /\ stack' = Append(stack, [kind |-> kind, row |-> r, prev |-> held]) /\ held' = 0

\* x, on a row of the account.
KeyX == /\ Acts /\ Own(Row) /\ Ask("x", Row) /\ UNCHANGED <<coming, scope>>
        /\ seen' = seen \cup Wrong \cup Note("moved", Deleting) \cup Note("wrong deletion", Wrong # {})

\* The button of a row, which has the focus then.
ButtonDelete(r) == /\ home[r] = View /\ Own(r)
                   /\ asked < MaxAsks /\ asked' = asked + 1
                   /\ stack' = Append(stack, [kind |-> "button", row |-> r, prev |-> 0]) /\ held' = 0
                   /\ seen' = seen \cup Note("moved", Deleting)
                   /\ UNCHANGED <<lists, index, home, modal, closing, coming, scope, calls>>

\* Report, mute and block ask first.
AltD == Acts /\ Ask("ask", Row) /\ UNCHANGED <<coming, scope>> /\ seen' = seen \cup Wrong
KeyM == Acts /\ Ask("ask", Row) /\ UNCHANGED <<coming, scope>> /\ seen' = seen \cup Wrong
KeyB == Acts /\ Ask("ask", Row) /\ UNCHANGED <<coming, scope>> /\ seen' = seen \cup Wrong

\* Hiding a reply, muting its thread and pinning do not.
Order  == Acts /\ UNCHANGED <<stack, held, coming, scope>> /\ seen' = seen \cup Wrong
AltO   == Order
ShiftM == Order
ShiftF == Order

\* The menu of mutes waits for the scope in force; one element, so it is not opened twice.
AltH == /\ Acts /\ ~scope /\ scope' = TRUE
        /\ seen' = seen \cup Wrong /\ UNCHANGED <<stack, held, coming>>
showMuteMenu == /\ scope /\ scope' = FALSE
                /\ IF Has(stack, "menu")
                   THEN UNCHANGED <<stack, held>> ELSE Ask("menu", 0)
                /\ UNCHANGED <<lists, index, home, modal, closing, coming, work, seen>>

\* confirmDialog and promptDialog resolve: the closed dialog gives the focus back first.
Answer(yes) == /\ stack # <<>> /\ Top(stack).kind # "posts" /\ GiveBack
               /\ calls' = IF yes /\ Top(stack).kind \in {"x", "button"}
                           THEN calls \cup {[by |-> Top(stack).kind, row |-> Top(stack).row]} ELSE calls
               /\ seen' = seen \cup Note("moved", calls # {})
               /\ UNCHANGED <<tab, cur, list, kept, index, home, modal, closing, coming, scope, asked>>

(***************************************************************************)
(* A deletion is answered.                                                 *)
(***************************************************************************)

\* The row leaves the document; position i leaves the list, and the focus goes to what
\* has its place.
Leaves(c, i) ==
    LET L == Spliced(Rows, i)
        f == IF focused > Len(L) THEN Len(L) ELSE focused
    IN  /\ list' = [list EXCEPT ![cur] = L] /\ home' = [home EXCEPT ![c.row] = "gone"]
        /\ Focus(RowAt(list', cur, f), f, home', View, IF held = c.row THEN 0 ELSE held)
        /\ seen' = seen \cup {"deleted"} \cup Note("strayed", "deleted" \notin seen /\ Range(Rows) \ Range(L) # {c.row})
        /\ calls' = calls \ {c}
        /\ UNCHANGED <<tab, cur, kept, index, over, asked>>

\* Mutant: the button too takes the row at the focus.
Deleted_AtFocus(c) == c \in calls /\ Leaves(c, focused)

\* After the key, the position of the focus, whatever it is now: -1 is the last one.
\* After the button, the row itself if the list has it.
Deleted(c) == /\ c \in calls
              /\ IF c.by = "x" THEN Leaves(c, IF focused = 0 THEN Len(Rows) ELSE focused)
                 ELSE IF c.row \in Range(Rows) THEN Leaves(c, CHOOSE i \in DOMAIN Rows : Rows[i] = c.row)
                 ELSE /\ calls' = calls \ {c} /\ home' = [home EXCEPT ![c.row] = "gone"]
                      /\ held' = IF held = c.row THEN 0 ELSE held
                      /\ seen' = seen \cup {"deleted"}
                      /\ UNCHANGED <<lists, index, over, asked>>

NotDeleted(c) == /\ c \in calls /\ calls' = calls \ {c}
                 /\ UNCHANGED <<lists, rows, over, asked, seen>>

\* What the reader does; a close event that is on its way comes before the next key.
Reader == \/ KeyJ \/ KeyK \/ KeyDot \/ Reload \/ CloseModal
          \/ KeyShiftQ \/ KeyShiftO \/ KeyShiftR \/ KeyE
          \/ KeyX \/ AltD \/ KeyM \/ KeyB \/ AltO \/ ShiftM \/ ShiftF \/ AltH
          \/ \E t \in Tabs : switchTab(t)
          \/ \E r \in DOMAIN home : RowFocus(r) \/ ButtonDelete(r)
          \/ \E yes \in BOOLEAN : Answer(yes)

Next == \/ ~closing /\ Reader
        \/ CloseEvent \/ showMuteMenu
        \/ NoAnswer \/ \E n \in 0..2 : showPostsModal(n)
        \/ \E c \in calls : Deleted(c) \/ NotDeleted(c)

Spec == Init /\ [][Next]_vars

(***************************************************************************)
(* Properties.                                                             *)
(***************************************************************************)

\* As long as no post was deleted from here, a key that acts on the focused post (delete,
\* mute, block, report, hide, pin) acts on the row that has the focus of the document,
\* across tabs, dialogs, answers that come late and loads.
ActsOnFocused == {"deleted", "nested"} \cap seen = {} => "wrong" \notin seen

\* The row that leaves the list at the first deletion is the row of the deleted post,
\* unless the list or the focus moved, or a second deletion was asked for, meanwhile.
OnlyDeletedLeave == {"moved", "nested"} \cap seen = {} => "strayed" \notin seen

\* Closing the list of posts puts back the list and the place it was opened from,
\* as long as it was not opened twice, nor left by a switch of tab or a load.
ModalRestores == "deleted" \notin seen => "lost" \notin seen

\* What the guide to the keys says (shortcuts.md): x deletes the focused post, here when
\* nothing moved between a question and its answer.
XIsOnFocused == "moved" \notin seen => "wrong deletion" \notin seen

(***************************************************************************)
(* What they rest on, as long as no post was deleted and the list of posts *)
(* was neither opened twice nor left.                                      *)
(***************************************************************************)

Clean == {"deleted", "nested"} \cap seen = {}

Dialogs == [kind : {"posts", "ask", "menu", "x", "button"}, row : Nat, prev : Nat]
Typed == /\ tab \in Tabs /\ cur \in DOMAIN list /\ focused \in Nat
         /\ index \in Seq(Nat) /\ home \in [DOMAIN index -> {"a", "b", "m", "gone"}]
         /\ list \in Seq(Seq(Nat))
         /\ kept \in [Tabs -> (DOMAIN list) \X Nat]
         /\ stack \in Seq(Dialogs)
         /\ \A i \in DOMAIN stack : stack[i].prev \in DOMAIN index \cup {0}

\* A row has the index of its place in the list.
Numbered == \A l \in DOMAIN list : \A i \in DOMAIN list[l] :
                list[l][i] \in DOMAIN index /\ index[list[l][i]] = i

\* The rows of a place are those of its list; Under is that of the tab.
Holds(l, place) == \A r \in DOMAIN index : home[r] = place <=> r \in Range(list[l])
Under  == IF PostsOpen \/ closing THEN modal.prev ELSE cur
Placed == Holds(Under, tab) /\ \A t \in Tabs \ {tab} : Holds(kept[t][1], t)

\* The list of posts that is open, or was, until its close event: the keys have it unless
\* it is empty.
Over == /\ modal.list \in DOMAIN list /\ modal.prev \in DOMAIN list \ {modal.list} /\ modal.idx \in Nat
        /\ modal.was = <<modal.prev, modal.idx>> /\ Holds(modal.list, "m")
        /\ cur = IF list[modal.list] = <<>> THEN modal.prev ELSE modal.list
OpenOnce == /\ PostsOpen \/ closing => Over
            /\ PostsOpen => ~closing
            /\ \A i, j \in DOMAIN stack : stack[i].kind = "posts" /\ stack[j].kind = "posts" => i = j

\* The row that has the focus can have it, and is the one of focusedPostIndex.
HeldIsFocused == held # 0 => /\ held \in DOMAIN index /\ home[held] = View
                             /\ ~(closing /\ cur = modal.list) /\ HasFocus => held = Row

\* The one deletion there is, asked for or sent: of the row at focusedPostIndex when it
\* was asked for with x.
OneDeletion ==
    /\ \A i \in DOMAIN stack : stack[i].kind \in {"x", "button"} =>
          /\ calls = {}
          /\ \A j \in DOMAIN stack : /\ stack[j].kind \in {"x", "button"} => j = i
                                     /\ stack[j].kind = "posts" => j < i
          /\ stack[i].kind = "x" => HasFocus /\ stack[i].row = Row /\ stack[i].prev \in {0, Row}
          /\ stack[i].kind = "button" => stack[i].prev = 0
    /\ \A c \in calls : calls = {c} /\ (c.by = "x" => HasFocus /\ c.row = Row)

Settled == /\ Typed /\ Numbered /\ Placed /\ OpenOnce /\ HeldIsFocused
           /\ ("moved" \notin seen => OneDeletion)
DeskInv == /\ Clean => Settled
           /\ ActsOnFocused /\ OnlyDeletedLeave /\ ModalRestores
=============================================================================
