-------------------------------- MODULE Finder --------------------------------
(***************************************************************************)
(* What the reader searches for: the GIF picker of components/             *)
(* gif_modal.ts and the tab of controllers/search.ts.                      *)
(*                                                                         *)
(* A query is a value, "trending" the empty one of the picker.  Neither    *)
(* compares an answer with what is asked for by then.  The rows of a       *)
(* search are its query; state.currentPosts is theirs while the tab is on  *)
(* the screen, and of another tab otherwise.                               *)
(***************************************************************************)
EXTENDS Integers, Sequences, FiniteSets

CONSTANTS Queries,      \* what may be typed
          MaxCalls      \* bound: requests of each of the two

VARIABLES
    open,       \* gif-picker-modal.open
    typed,      \* gif-search-input.value
    timer,      \* searchTimeout: the query it will search for, or Off
    gets,       \* the requests of the picker on their way
    calls,      \* how many there have been
    grid,       \* gif-results-grid: what it shows, and of which query
    overtaken,  \* history: two requests of the picker ran at once, or one was still due when it opened
    here,       \* state.currentTab is "search"
    mine,       \* state.currentPosts while the tab is on the screen, or what was kept of it
    other,      \* the currentPosts of the tab that is on the screen instead
    rows,       \* search-results
    busy,       \* its aria-busy
    hunts,      \* the searches on their way, in the order they were asked for
    asked,      \* how many there have been
    mixed       \* history: two searches ran at once, or the tab was left during one

picker == <<open, typed, timer, gets, calls, grid, overtaken>>
search == <<here, mine, other, rows, busy, hunts, asked, mixed>>
vars   == <<picker, search>>

Trending == "trending"
Off      == "off"
Waiting  == "waiting"
Failed   == "failed"

Init == /\ open = FALSE /\ typed = Trending /\ timer = Off /\ gets = {} /\ calls = 0
        /\ grid = Waiting /\ overtaken = FALSE
        /\ here = TRUE /\ mine = <<>> /\ other = <<>> /\ rows = <<>> /\ busy = FALSE
        /\ hunts = <<>> /\ asked = 0 /\ mixed = FALSE

(***************************************************************************)
(* The picker.                                                             *)
(***************************************************************************)

\* loadTrendingGifs and searchGifs up to their request.
Request(q) == /\ calls < MaxCalls /\ calls' = calls + 1
              /\ gets' = gets \cup {[query |-> q, n |-> calls']}
              /\ grid' = Waiting

InputGif(q) == /\ open /\ q # typed /\ typed' = q /\ timer' = q
               /\ UNCHANGED <<open, gets, calls, grid, overtaken, search>>

\* Mutant: nothing is loaded when the field is emptied.
Fire_NotTrending == /\ timer # Off /\ timer' = Off
                    /\ IF timer = Trending THEN UNCHANGED <<calls, gets, grid>> ELSE Request(timer)
                    /\ overtaken' = (overtaken \/ gets # {})
                    /\ UNCHANGED <<open, typed, search>>

\* 500 ms without a key; it runs also when the picker has been closed, or opened again
\* with an empty field.
Fire == /\ timer # Off /\ timer' = Off
        /\ Request(timer)
        /\ overtaken' = (overtaken \/ gets # {})
        /\ UNCHANGED <<open, typed, search>>

openGifPicker == /\ ~open /\ open' = TRUE /\ typed' = Trending
                 /\ Request(Trending)
                 /\ overtaken' = (overtaken \/ gets # {} \/ timer # Off)
                 /\ UNCHANGED <<timer, search>>

renderGifs(g) == /\ g \in gets /\ gets' = gets \ {g}
                 /\ grid' \in {g.query, Failed}
                 /\ UNCHANGED <<open, typed, timer, calls, overtaken, search>>

\* The cross, Escape, or a GIF.
CloseGif == /\ open /\ open' = FALSE
            /\ UNCHANGED <<typed, timer, gets, calls, grid, overtaken, search>>

(***************************************************************************)
(* The tab.                                                                *)
(***************************************************************************)

\* Mutant: the old rows are left to the new ones.
Search_Keeps(q) == /\ here /\ asked < MaxCalls /\ asked' = asked + 1
                   /\ hunts' = Append(hunts, q) /\ busy' = TRUE /\ rows' = <<>>
                   /\ mixed' = (mixed \/ hunts # <<>>)
                   /\ UNCHANGED <<here, mine, other, picker>>

Search(q) == /\ here /\ asked < MaxCalls /\ asked' = asked + 1
             /\ hunts' = Append(hunts, q) /\ busy' = TRUE /\ rows' = <<>>
             /\ mine' = <<>>
             /\ mixed' = (mixed \/ hunts # <<>>)
             /\ UNCHANGED <<here, other, picker>>

\* Mutant: only an answer ends the search.
Settled_OnAnswer(ok) == busy' = (busy /\ ~ok)

\* finally: the mark is taken away also when another search is on its way.
Settled(ok) == busy' = FALSE

\* The rows are pushed into the list of the tab that is on the screen by now.
Results(i, ok) ==
    /\ hunts' = SubSeq(hunts, 1, i - 1) \o SubSeq(hunts, i + 1, Len(hunts))
    /\ Settled(ok)
    /\ IF ok THEN /\ rows' = <<hunts[i]>>
                  /\ mine'  = IF here THEN Append(mine, hunts[i]) ELSE mine
                  /\ other' = IF here THEN other ELSE Append(other, hunts[i])
             ELSE rows' = <<>> /\ UNCHANGED <<mine, other>>
    /\ UNCHANGED <<here, asked, mixed, picker>>

\* switchTab, to another tab and back.
Switch == /\ here' = ~here /\ other' = <<>>
          /\ mixed' = (mixed \/ hunts # <<>>)
          /\ UNCHANGED <<mine, rows, busy, hunts, asked, picker>>

Answers == (\E g \in gets : renderGifs(g)) \/ \E i \in DOMAIN hunts, ok \in BOOLEAN : Results(i, ok)

Next == \/ Fire \/ openGifPicker \/ CloseGif \/ Switch \/ Answers
        \/ \E q \in Queries : InputGif(q) \/ Search(q)
        \/ InputGif(Trending)

(***************************************************************************)
(* Properties.                                                             *)
(***************************************************************************)

\* Once everything that was asked for is answered, the picker shows what its field says,
\* provided no two requests ran at once.
GridIsOfField == open /\ timer = Off /\ gets = {} /\ ~overtaken => grid \in {typed, Failed}

\* The rows on the screen are those the keys move through, provided no two searches ran at
\* once and the tab was not left during one.
RowsAreState == hunts = <<>> /\ ~mixed => (here => mine = rows) /\ other = <<>>

\* A search that has ended, in whatever way, is not announced as busy.
BusyEnds == hunts = <<>> => ~busy

(***************************************************************************)
(* What they rest on: the one request there is, or is due, is for what the *)
(* field says, and the one search for the rows of the tab.                 *)
(***************************************************************************)

OneRequest == open /\ ~overtaken =>
    \/ timer = typed /\ timer # Off
    \/ timer = Off /\ gets = {} /\ grid \in {typed, Failed}
    \/ timer = Off /\ \E g \in gets : gets = {g} /\ g.query = typed

OneSearch == ~mixed =>
    /\ other = <<>>
    /\ \/ hunts = <<>> /\ mine = rows
       \/ Len(hunts) = 1 /\ here /\ mine = <<>>

FinderInv == hunts \in Seq(Queries) /\ OneRequest /\ OneSearch /\ BusyEnds
=============================================================================
