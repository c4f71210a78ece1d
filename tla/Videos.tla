-------------------------------- MODULE Videos --------------------------------
(***************************************************************************)
(* The videos of the rows: which are tracked, which have a player, and     *)
(* when both end.  components/post.ts, from registerVideo to               *)
(* cleanupContainerVideos.                                                 *)
(*                                                                         *)
(* A row is made outside the document.  A load of the timeline keeps its   *)
(* rows aside for several requests, and then replaces those on the screen; *)
(* any other puts a row into the document in the step that makes it.       *)
(***************************************************************************)
EXTENDS FiniteSets

CONSTANT Video

VARIABLES
    where,      \* of each: "none", "aside", "page" (isConnected), "gone"
    inView,     \* those in the page that intersect its view
    registered, \* registeredVideos
    observer,   \* visibilityObserver exists
    watch,      \* what the observer has last said of each: "no" when it does not watch it, "new"
    playing,    \* activePlayers, and the plain sources that are connected
    sweeping    \* sweepTimer runs

vars == <<where, inView, registered, observer, watch, playing, sweeping>>

Page    == {v \in Video : where[v] = "page"}
Visible == Page \cap inView

Init == /\ where = [v \in Video |-> "none"] /\ inView = {}
        /\ registered = {} /\ observer = FALSE /\ watch = [v \in Video |-> "no"]
        /\ playing = {} /\ sweeping = FALSE

\* observe(v): what is watched already stays as it is.
Watching(V) == [v \in Video |-> IF v \in V /\ watch[v] = "no" THEN "new" ELSE watch[v]]

\* Mutant: the player stays.
forgetVideos_KeepPlayer(V) ==
    /\ registered' = registered \ V
    /\ watch' = [v \in Video |-> IF v \in V THEN "no" ELSE watch[v]]
    /\ sweeping' = (sweeping /\ registered' # {})
    /\ UNCHANGED playing

\* forgetVideo, of each of V: the player, the observer's watch, the entry, and the timer
\* with the last one.
forgetVideos(V) ==
    /\ registered' = registered \ V
    /\ watch' = [v \in Video |-> IF v \in V THEN "no" ELSE watch[v]]
    /\ sweeping' = (sweeping /\ registered' # {})
    /\ playing' = playing \ V

\* Mutant: a video outside the document does not start the timer.
observeVideo_OnlyConnected(v) ==
    /\ registered' = registered \cup {v} /\ UNCHANGED <<watch, observer, sweeping>>

\* registerVideo and registerInlineVideo, of a video outside the document.
observeVideo(v) == /\ registered' = registered \cup {v} /\ sweeping' = TRUE
                   /\ UNCHANGED <<watch, observer>>

\* A row, or a message of a conversation, is made, and kept aside or put into the document.
createPostArticle(v) == /\ where[v] = "none"
                        /\ where' \in {[where EXCEPT ![v] = w] : w \in {"aside", "page"}}
                        /\ observeVideo(v)
                        /\ UNCHANGED <<inView, playing>>

\* cleanupContainerVideos of the rows old of one panel, replaceChildren with those kept
\* aside, and bindContainerVideos of these: they may have been forgotten by then.
Replace(old) ==
    LET new == {v \in Video : where[v] = "aside"}
    IN  /\ where' = [v \in Video |-> IF v \in old THEN "gone" ELSE IF v \in new THEN "page" ELSE where[v]]
        /\ inView' = inView \ old
        /\ registered' = (registered \ old) \cup new
        /\ observer' = TRUE
        /\ watch' = [v \in Video |-> IF v \in old THEN "no" ELSE Watching(new)[v]]
        /\ playing' = playing \ old
        /\ sweeping' = (registered' # {})

\* The rows of a panel, or messages, are forgotten with cleanupContainerVideos, and removed.
Clear(old) == /\ old # {} /\ forgetVideos(old) /\ inView' = inView \ old
              /\ where' = [v \in Video |-> IF v \in old THEN "gone" ELSE where[v]] /\ UNCHANGED observer

\* A row, or a whole panel, is removed without a word to the videos; so are the rows of a
\* load that fails.
Remove(v) == /\ where[v] \in {"aside", "page"} /\ where' = [where EXCEPT ![v] = "gone"]
             /\ inView' = inView \ {v}
             /\ UNCHANGED <<registered, observer, watch, playing, sweeping>>

Scroll(v) == /\ v \in Page
             /\ inView' = IF v \in inView THEN inView \ {v} ELSE inView \cup {v}
             /\ UNCHANGED <<where, registered, observer, watch, playing, sweeping>>

\* What the observer has to say of a video it watches: at first, and when it changes.
Now(v) == IF v \in Visible THEN "in" ELSE "out"

onVisibilityChange(v) ==
    /\ watch[v] # "no" /\ watch[v] # Now(v)
    /\ IF where[v] = "page" \/ Now(v) = "in"
       THEN /\ watch' = [watch EXCEPT ![v] = Now(v)]
            /\ playing' = IF Now(v) = "in" THEN playing \cup {v} ELSE playing \ {v}
            /\ UNCHANGED <<registered, sweeping>>
       ELSE forgetVideos({v})
    /\ UNCHANGED <<where, inView, observer>>

\* Mutant: what was never watched is left to the observer.
sweepDetachedVideos_Watched ==
    /\ sweeping
    /\ LET gone == {v \in registered \ Page : watch[v] # "no"}
       IN  /\ registered' = registered \ gone /\ playing' = playing \ gone
           /\ watch' = [v \in Video |-> IF v \in gone THEN "no"
                                         ELSE IF observer THEN Watching(registered')[v] ELSE watch[v]]
           /\ sweeping' = (registered' # {})
    /\ UNCHANGED <<where, inView, observer>>

\* Mutant: the others are not handed to the observer.
sweepDetachedVideos_NoWatch ==
    /\ sweeping /\ forgetVideos(registered \ Page) /\ UNCHANGED <<where, inView, observer>>

\* Every 30 s: what has left the document is forgotten, the rest is watched; nothing is,
\* as long as no observer has been made.
sweepDetachedVideos ==
    /\ sweeping
    /\ LET gone == registered \ Page
       IN  /\ registered' = registered \ gone /\ playing' = playing \ gone
           /\ watch' = [v \in Video |-> IF v \in gone THEN "no"
                                         ELSE IF observer THEN Watching(registered')[v] ELSE watch[v]]
           /\ sweeping' = (registered' # {})
    /\ UNCHANGED <<where, inView, observer>>

Report == \E v \in Video : onVisibilityChange(v)

Next == \/ Report \/ sweepDetachedVideos
        \/ \E old \in SUBSET Page : Replace(old) \/ Clear(old)
        \/ \E v \in Video : createPostArticle(v) \/ Remove(v) \/ Scroll(v)

\* The timer fires as long as it runs, and the browser reports.
Fairness == /\ WF_vars(sweepDetachedVideos)
            /\ \A v \in Video : WF_vars(onVisibilityChange(v))

Spec == Init /\ [][Next]_vars /\ Fairness

(***************************************************************************)
(* Properties.                                                             *)
(***************************************************************************)

\* The timer that reclaims videos runs exactly while there is one to reclaim.
SweepIsOn == sweeping <=> registered # {}

\* A player belongs to a video that is tracked: no other code would end it.
PlayersAreTracked == playing \subseteq registered

\* What the two rest on: the observer watches nothing that is not tracked.
WatchedAreTracked == /\ sweeping \in BOOLEAN /\ watch \in [Video -> {"no", "new", "in", "out"}]
                     /\ \A v \in Video : watch[v] # "no" => v \in registered
VideosInv == SweepIsOn /\ PlayersAreTracked /\ WatchedAreTracked

\* A video that has left the document is forgotten, and its player with it, also when it
\* was never seen, so that the observer has nothing to say of it.
Left(v)         == where[v] = "gone"
Forgotten(v)    == v \notin registered \cup playing
GoneIsForgotten == \A v \in Video : Left(v) ~> Forgotten(v)

\* A video that stays in view plays, also when its row was added without
\* bindContainerVideos, or forgotten while it was kept aside, if there is an observer.
Seen(v)     == v \in Visible /\ observer
Served(v)   == v \in playing \/ v \notin Visible
InViewPlays == \A v \in Video : Seen(v) ~> Served(v)
=============================================================================
