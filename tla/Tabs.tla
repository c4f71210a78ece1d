--------------------------------- MODULE Tabs ----------------------------------
(***************************************************************************)
(* The tabs and their dialogs, with the bounds: the search and the pickers,*)
(* messages, profiles, their editor and subscriptions, feeds, lists; and   *)
(* the keys over all of them.                                              *)
(* TabsProofs is about them.                                               *)
(***************************************************************************)
EXTENDS Integers, FiniteSets, Slots

CONSTANTS Queries, Convos, People, Labels, FeedIds, ListIds,
          FinderCalls, ChatLimit, ChatSteps, ChatCrossings, ProfileSteps, ProfileLoads, EditorSteps,
          SubscriptionSteps, FeedsSteps, FeedsLoads, ListsSteps, ListsLoads,
          DeskSize, DeskRows, DeskAsks, DeskLists

ASSUME TabBounds ==
    {FinderCalls, ChatLimit, ChatSteps, ChatCrossings, ProfileSteps, ProfileLoads, EditorSteps,
     SubscriptionSteps, FeedsSteps, FeedsLoads, ListsSteps, ListsLoads,
     DeskSize, DeskRows, DeskAsks, DeskLists} \subseteq Nat

\* The keys begin on the first row of a tab that has rows.
ASSUME DeskAssumption == DeskSize >= 1

\* 0 is nobody and none, 1 the account and its first list; "off" is no query.
ASSUME SetsAssumption ==
    /\ 0 \notin Convos \cup People \cup FeedIds \cup ListIds
    /\ 1 \in People /\ 1 \in ListIds /\ "off" \notin Queries

\* A label is a number.
ASSUME LabelsAssumption == 1 \in Labels /\ Labels \subseteq Nat \ {0}

\* What can be put in an order.
ASSUME FinitenessAssumption == IsFiniteSet(FeedIds) /\ IsFiniteSet(ListIds)

FinderPart == INSTANCE Finder WITH
    MaxCalls <- FinderCalls,
    open <- v1, typed <- v2, timer <- v3, gets <- v4, calls <- v5, grid <- v6, overtaken <- v7,
    here <- v8, mine <- v9, other <- v10, rows <- v11, busy <- v12, hunts <- v13, asked <- v14,
    mixed <- v15

ChatPart == INSTANCE Chat WITH
    Limit <- ChatLimit, MaxSteps <- ChatSteps, MaxCrossings <- ChatCrossings,
    active <- v1, panel <- v2, form <- v3, posts <- v4, fetches <- v5, calls <- v6,
    server <- v7, sent <- v8, read <- v9, blind <- v10, last <- v11, owed <- v12, n <- v13,
    crossed <- v14

ProfilePart == INSTANCE Profile WITH
    MaxSteps <- ProfileSteps, MaxLoads <- ProfileLoads,
    tab <- v1, who <- v2, mode <- v3, header <- v4, box <- v5, content <- v6, rows <- v7,
    kept <- v8, cursor <- v9, last <- v10, busy <- v11, loads <- v12, ask <- v13, calls <- v14,
    follows <- v15, muted <- v16, n <- v17, clean <- v18, tangled <- v19, spilled <- v20

EditorPart == INSTANCE Editor WITH
    MaxSteps <- EditorSteps,
    record <- v1, open <- v2, opening <- v3, form <- v4, save <- v5, ok <- v6, fair <- v7,
    n <- v8

SubscriptionPart == INSTANCE Subscription WITH
    MaxSteps <- SubscriptionSteps,
    sub <- v1, shown <- v2, tick <- v3, handlers <- v4, puts <- v5, n <- v6

FeedsPart == INSTANCE Feeds WITH
    MaxSteps <- FeedsSteps, MaxLoads <- FeedsLoads,
    acct <- v1, listed <- v2, tab <- v3, mode <- v4, panel <- v5, rows <- v6, kept <- v7,
    busy <- v8, loads <- v9, ask <- v10, calls <- v11, route <- v12, uri <- v13, loaded <- v14,
    shows <- v15, n <- v16, wanted <- v17, blind <- v18, lost <- v19, clean <- v20,
    chosen <- v21

ListsPart == INSTANCE Lists WITH
    MaxSteps <- ListsSteps, MaxLoads <- ListsLoads,
    lang <- v1, owned <- v2, muted <- v3, blocks <- v4, packs <- v5, twice <- v6, tab <- v7,
    panel <- v8, items <- v9, busy <- v10, rows <- v11, loads <- v12, dialog <- v13,
    calls <- v14, route <- v15, n <- v16, clean <- v17, told <- v18,
    loaded <- v19

DeskPart == INSTANCE Desk WITH
    Size <- DeskSize, MaxRows <- DeskRows, MaxAsks <- DeskAsks, MaxLists <- DeskLists,
    tab <- v1, cur <- v2, focused <- v3, list <- v4, kept <- v5, index <- v6, home <- v7,
    held <- v8, stack <- v9, modal <- v10, closing <- v11, coming <- v12, scope <- v13,
    asked <- v14, calls <- v15, seen <- v16
================================================================================
