--------------------------------- MODULE Pages ---------------------------------
(***************************************************************************)
(* The parts of Parts and Tabs, and the form of a post.  They do not share *)
(* what their modules model, so that they are taken side by side: a        *)
(* behaviour is one of the part that it begins in, among those Taken; the  *)
(* variables that this part has no use for stay 0.                         *)
(***************************************************************************)
EXTENDS Parts, Tabs

CONSTANTS MaxTurns, MaxSends, MaxPosts,
          Taken         \* the parts that a run takes

ASSUME BoundsAssumption == {MaxTurns, MaxSends, MaxPosts} \subseteq Nat

VARIABLE part

vars == <<part, v1, v2, v3, v4, v5, v6, v7, v8, v9, v10, v11, v12, v13, v14, v15, v16, v17, v18,
          v19, v20, v21>>

ComposePart == INSTANCE Compose WITH
    shown <- v1, asking <- v2, draft <- v3, mode <- v4, target <- v5, texts <- v6,
    canSubmit <- v7, canAdd <- v8, send <- v9, repo <- v10, indexed <- v11, losses <- v12,
    uneasy <- v13

\* The variables from the n-th on, which a part with n - 1 of them leaves alone.
Zero7 ==
    v7 = 0 /\ v8 = 0 /\ v9 = 0 /\ v10 = 0 /\ v11 = 0 /\ v12 = 0 /\ v13 = 0 /\ v14 = 0 /\ v15 = 0 /\ v16 = 0 /\
    v17 = 0 /\ v18 = 0 /\ v19 = 0 /\ v20 = 0 /\ v21 = 0
Zero8 ==
    v8 = 0 /\ v9 = 0 /\ v10 = 0 /\ v11 = 0 /\ v12 = 0 /\ v13 = 0 /\ v14 = 0 /\ v15 = 0 /\ v16 = 0 /\ v17 = 0 /\
    v18 = 0 /\ v19 = 0 /\ v20 = 0 /\ v21 = 0
Zero9 ==
    v9 = 0 /\ v10 = 0 /\ v11 = 0 /\ v12 = 0 /\ v13 = 0 /\ v14 = 0 /\ v15 = 0 /\ v16 = 0 /\ v17 = 0 /\ v18 = 0 /\
    v19 = 0 /\ v20 = 0 /\ v21 = 0
Zero12 ==
    v12 = 0 /\ v13 = 0 /\ v14 = 0 /\ v15 = 0 /\ v16 = 0 /\ v17 = 0 /\ v18 = 0 /\ v19 = 0 /\ v20 = 0 /\ v21 = 0
Zero13 ==
    v13 = 0 /\ v14 = 0 /\ v15 = 0 /\ v16 = 0 /\ v17 = 0 /\ v18 = 0 /\ v19 = 0 /\ v20 = 0 /\ v21 = 0
Zero14 == v14 = 0 /\ v15 = 0 /\ v16 = 0 /\ v17 = 0 /\ v18 = 0 /\ v19 = 0 /\ v20 = 0 /\ v21 = 0
Zero15 == v15 = 0 /\ v16 = 0 /\ v17 = 0 /\ v18 = 0 /\ v19 = 0 /\ v20 = 0 /\ v21 = 0
Zero16 == v16 = 0 /\ v17 = 0 /\ v18 = 0 /\ v19 = 0 /\ v20 = 0 /\ v21 = 0
Zero17 == v17 = 0 /\ v18 = 0 /\ v19 = 0 /\ v20 = 0 /\ v21 = 0
Zero20 == v20 = 0 /\ v21 = 0
Zero21 == v21 = 0

Rest7 == <<v7, v8, v9, v10, v11, v12, v13, v14, v15, v16, v17, v18, v19, v20, v21>>
Rest8 == <<v8, v9, v10, v11, v12, v13, v14, v15, v16, v17, v18, v19, v20, v21>>
Rest9 == <<v9, v10, v11, v12, v13, v14, v15, v16, v17, v18, v19, v20, v21>>
Rest12 == <<v12, v13, v14, v15, v16, v17, v18, v19, v20, v21>>
Rest13 == <<v13, v14, v15, v16, v17, v18, v19, v20, v21>>
Rest14 == <<v14, v15, v16, v17, v18, v19, v20, v21>>
Rest15 == <<v15, v16, v17, v18, v19, v20, v21>>
Rest16 == <<v16, v17, v18, v19, v20, v21>>
Rest17 == <<v17, v18, v19, v20, v21>>
Rest20 == <<v20, v21>>
Rest21 == <<v21>>

Begin == \/ part = "compose" /\ ComposePart!Init /\ Zero14
         \/ part = "attach" /\ AttachPart!Init /\ Zero12
         \/ part = "preview" /\ PreviewPart!Init /\ Zero9
         \/ part = "mention" /\ MentionPart!Init /\ Zero13
         \/ part = "finder" /\ FinderPart!Init /\ Zero16
         \/ part = "videos" /\ VideosPart!Init /\ Zero8
         \/ part = "desk" /\ DeskPart!Init /\ Zero17
         \/ part = "toggle" /\ TogglePart!Init /\ Zero12
         \/ part = "chat" /\ ChatPart!Init /\ Zero15
         \/ part = "settings" /\ SettingsPart!Init /\ Zero17
         \/ part = "profile" /\ ProfilePart!Init /\ Zero21
         \/ part = "editor" /\ EditorPart!Init /\ Zero9
         \/ part = "subscription" /\ SubscriptionPart!Init /\ Zero7
         \/ part = "feeds" /\ FeedsPart!Init
         \/ part = "lists" /\ ListsPart!Init /\ Zero20

Init == part \in Taken /\ Begin

Next == \/ part = "compose" /\ ComposePart!Next /\ UNCHANGED Rest14 /\ UNCHANGED part
        \/ part = "attach" /\ AttachPart!Next /\ UNCHANGED Rest12 /\ UNCHANGED part
        \/ part = "preview" /\ PreviewPart!Next /\ UNCHANGED Rest9 /\ UNCHANGED part
        \/ part = "mention" /\ MentionPart!Next /\ UNCHANGED Rest13 /\ UNCHANGED part
        \/ part = "finder" /\ FinderPart!Next /\ UNCHANGED Rest16 /\ UNCHANGED part
        \/ part = "videos" /\ VideosPart!Next /\ UNCHANGED Rest8 /\ UNCHANGED part
        \/ part = "desk" /\ DeskPart!Next /\ UNCHANGED Rest17 /\ UNCHANGED part
        \/ part = "toggle" /\ TogglePart!Next /\ UNCHANGED Rest12 /\ UNCHANGED part
        \/ part = "chat" /\ ChatPart!Next /\ UNCHANGED Rest15 /\ UNCHANGED part
        \/ part = "settings" /\ SettingsPart!Next /\ UNCHANGED Rest17 /\ UNCHANGED part
        \/ part = "profile" /\ ProfilePart!Next /\ UNCHANGED Rest21 /\ UNCHANGED part
        \/ part = "editor" /\ EditorPart!Next /\ UNCHANGED Rest9 /\ UNCHANGED part
        \/ part = "subscription" /\ SubscriptionPart!Next /\ UNCHANGED Rest7 /\ UNCHANGED part
        \/ part = "feeds" /\ FeedsPart!Next /\ UNCHANGED part
        \/ part = "lists" /\ ListsPart!Next /\ UNCHANGED Rest20 /\ UNCHANGED part

\* Answers come, the timer of the videos fires, the browser reports what is in view.
Answered == part = "compose" /\ ComposePart!Answers /\ UNCHANGED Rest14 /\ UNCHANGED part
Swept    == part = "videos" /\ VideosPart!sweepDetachedVideos /\ UNCHANGED Rest8 /\ UNCHANGED part
Reported(v) == part = "videos" /\ VideosPart!onVisibilityChange(v) /\ UNCHANGED Rest8 /\ UNCHANGED part

Spec == /\ Init /\ [][Next]_vars
        /\ WF_vars(Answered) /\ WF_vars(Swept) /\ \A v \in Clips : WF_vars(Reported(v))

On(p, P) == part = p /\ P
In(p, P) == part = p => P

(***************************************************************************)
(* Properties: what each part must keep, together.  Many conjuncts are     *)
(* claimed of histories in which nothing crossed only: the modules say     *)
(* with each of them which histories these are, the comments here what is  *)
(* left out.                                                               *)
(***************************************************************************)

\* A thread is published in order and to the right root (compose.ts, post_builder.go): a
\* reply belongs to the thread of the post it answers, also when the index does not know
\* that post yet, and no post of a draft is published twice unless a submission failed.
ThreadIsRight == In("compose", ComposePart!ThreadIsRight)

\* What goes with a post (compose.ts): every image has the field for its text, what is sent
\* has no empty text, and its link was in its own text, whatever crossed.  One kind of medium
\* is attached, chosen for this draft, unless another was chosen or the draft left during a
\* read; the card shows the link unless two fetches were out at once.
DraftIsOwn ==
    /\ In("attach", /\ AttachPart!AltPerImage /\ AttachPart!OneKind
                    /\ AttachPart!OwnPieces /\ AttachPart!SentIsAccepted)
    /\ In("preview", PreviewPart!LinkIsOwn /\ PreviewPart!CardIsTheLink)

\* Answers to what was typed (mention_autocomplete.ts, gif_modal.ts, search.ts): however they
\* overtake one another Enter chooses a listed profile, and a search that has ended is not
\* busy.  What Enter replaces is a mention unless the list came late; the picker shows what
\* its field says unless two requests were out at once; the keys move through the rows of
\* the search unless two searches were, or its tab was left.
AnswersFitTheField ==
    /\ In("mention", MentionPart!ActiveIsListed /\ MentionPart!OnlyMentionReplaced)
    /\ In("finder", FinderPart!GridIsOfField /\ FinderPart!RowsAreState /\ FinderPart!BusyEnds)

\* A row of post.ts: the timer that reclaims videos runs exactly while there is one to
\* reclaim, and a video that plays is tracked, always; a button and its count agree with the
\* one record the repository has unless it was clicked while its call was out, or an answer
\* was lost.
RowIsHonest == /\ In("toggle", TogglePart!ButtonTellsTruth /\ TogglePart!CountIsHonest)
               /\ In("videos", VideosPart!SweepIsOn /\ VideosPart!PlayersAreTracked)

\* A key acts on the row that has the focus, across tabs, dialogs, late answers and loads;
\* what leaves the list is the deleted post; a dialog with posts gives back the list and
\* the place it was opened from (shortcuts.ts).
KeysHitTheirRow ==
    In("desk", DeskPart!ActsOnFocused /\ DeskPart!OnlyDeletedLeave /\ DeskPart!ModalRestores)

\* Direct messages (chat.ts): a message goes where it was typed, whatever crossed it.  Unless
\* something crossed or failed: it is sent once and replies to its own conversation, the
\* screen shows the conversation that is open, and nothing is marked as read unseen; one event
\* shows what is new if, besides, no row of the conversation is in the list twice.
ChatIsHonest ==
    In("chat", /\ ChatPart!GoesWhereTyped /\ ChatPart!ScreenIsOpen /\ ChatPart!RepliesStay
               /\ ChatPart!SentOnce /\ ChatPart!ReadIsShown /\ ChatPart!EventIsEnough)

\* What the reader is told of the settings is so (settings.ts, social.go), of calls that come
\* one after the other on a form that was filled: saved is saved, cancelled is restored, no
\* word leaves the account that was not taken off, and who is listed as muted, blocked or
\* subscribed to is.
SettingsAreKept ==
    In("settings", /\ SettingsPart!SavedIsKept /\ SettingsPart!CancelRestores
                   /\ SettingsPart!WordsStay /\ SettingsPart!ListedAreOn)

\* A profile (profile.ts, social.go): whatever crosses, the page is not left busy, the rows
\* of another tab are left alone until an answer comes while it is shown, and a subscription
\* goes to the one whose dialog it was made in.  After a load that had the page to itself the
\* keys move through what is on the screen, each post once, and the buttons say what the
\* account has unless a click crossed a load or a call.  An editor that was saved with nothing
\* crossing it leaves its form in the account.
ProfileIsHonest ==
    /\ In("profile", /\ ProfilePart!RowsOnScreen /\ ProfilePart!PostOnce
                     /\ ProfilePart!ButtonsTellTruth /\ ProfilePart!BusyEnds
                     /\ ProfilePart!OtherRowsStay)
    /\ In("editor", EditorPart!SavedIsForm)
    /\ In("subscription", SubscriptionPart!SubOfShown)

\* Feeds and lists (feeds.ts, lists.ts, link_router.ts): unless loads were answered side by
\* side, the keys move through what is shown, and the rows say what the account has of each
\* feed and list; the account has what was chosen of the feeds, one choice at a time from the
\* list that it has; the timeline shows a feed that was chosen by a key.
FeedsAndListsAreHonest ==
    /\ In("feeds", /\ FeedsPart!RowsOnScreen /\ FeedsPart!ChoicesKept
                   /\ FeedsPart!ButtonsTellTruth /\ FeedsPart!ChosenIsShown)
    /\ In("lists", ListsPart!RowsOnScreen /\ ListsPart!ListsAreOwn)

\* Saving the settings keeps the feeds that were pinned before: mutatePrefs writes back all
\* that it read.  Two changes at once, of which the second writes over the first, are not
\* covered.
PinsStay == [][In("settings", SettingsPart!PinsKept)]_vars

\* What a submission publishes is a chain, whatever is done to the form, and whatever
\* other submission runs, in the meantime: Compose implements Thread.
ThreadsGrow == /\ In("compose", ComposePart!Chain!Init)
               /\ [][In("compose", [ComposePart!Chain!Next]_<<ComposePart!ThreadView>>)]_vars

\* A submission ends, and the reader can send the form again.
ButtonComesBack == On("compose", ComposePart!Waiting) ~> On("compose", ~ComposePart!Waiting)

\* A video that has left the document is forgotten, and its player with it, also when it
\* was never seen; one that stays in view plays (post.ts).
VideosEndAndPlay ==
    \A v \in Clips :
        /\ On("videos", VideosPart!Left(v)) ~> On("videos", VideosPart!Forgotten(v))
        /\ On("videos", VideosPart!Seen(v)) ~> On("videos", VideosPart!Served(v))
=============================================================================
