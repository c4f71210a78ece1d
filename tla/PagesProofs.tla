------------------------------ MODULE PagesProofs ------------------------------
(***************************************************************************)
(* Theorems about the pages together, for any bounds.  A step of Pages is  *)
(* one of the part that the behaviour began in; PartsProofs has the        *)
(* inductive invariants of the parts, and ComposeProofs those of the       *)
(* dialog, whose state is the same here under other names.                 *)
(***************************************************************************)
EXTENDS Pages, PartsProofs, TabsProofs

\* What ComposeProofs shows of the dialog, of the same variables.
Threads == INSTANCE ComposeProofs WITH
    shown <- v1, asking <- v2, draft <- v3, mode <- v4, target <- v5, texts <- v6,
    canSubmit <- v7, canAdd <- v8, send <- v9, repo <- v10, indexed <- v11, losses <- v12,
    uneasy <- v13

\* The dialog of Pages is that of ComposeProofs: it comes the same way,
LEMMA SameInit == ComposePart!Init => Threads!Init
BY DEF ComposePart!Init, Threads!Init

\* a submission publishes the same post,
LEMMA SameNews ==
    ASSUME NEW s, NEW read
    PROVE  ComposePart!NewPost(s, read) = Threads!NewPost(s, read)
<1>1. \A p : ComposePart!RootInRecord(p) = Threads!RootInRecord(p)
  BY DEF ComposePart!RootInRecord, Threads!RootInRecord
<1>2. \A p : ComposePart!resolveThreadRoot(p, read) = Threads!resolveThreadRoot(p, read)
  BY <1>1 DEF ComposePart!resolveThreadRoot, Threads!resolveThreadRoot
<1> QED
  BY <1>2 DEF ComposePart!NewPost, Threads!NewPost

\* the answers do the same,
LEMMA SameAnswers == ComposePart!Answers => Threads!Answers
<1>1. ComposePart!Sends = Threads!Sends /\ ComposePart!OnItsWay = Threads!OnItsWay
  BY DEF ComposePart!Sends, Threads!Sends, ComposePart!OnItsWay, Threads!OnItsWay
<1>2. ASSUME NEW s, ComposePart!Failed(s) PROVE Threads!Failed(s)
  BY <1>1, <1>2, SameNews DEF ComposePart!Failed, Threads!Failed, ComposePart!Fail, Threads!Fail,
     ComposePart!dialog, Threads!dialog
<1>3. ASSUME NEW s, NEW read, ComposePart!Answered(s, read) PROVE Threads!Answered(s, read)
  BY <1>1, <1>3, SameNews DEF ComposePart!Answered, Threads!Answered, ComposePart!Carried,
     Threads!Carried, ComposePart!Finish, Threads!Finish
<1> QED
  BY <1>1, <1>2, <1>3 DEF ComposePart!Answers, Threads!Answers

\* what the reader does is the same,
LEMMA SameDialog ==
    /\ ComposePart!Open => Threads!Open
    /\ ComposePart!requestCloseComposeModal => Threads!requestCloseComposeModal
    /\ ComposePart!Confirm => Threads!Confirm
    /\ ComposePart!AddPost => Threads!AddPost
    /\ \A k : ComposePart!RemovePost(k) => Threads!RemovePost(k)
    /\ \A k, t : ComposePart!Type(k, t) => Threads!Type(k, t)
    /\ \A wait : ComposePart!Submit(wait) => Threads!Submit(wait)
    /\ ComposePart!Index => Threads!Index
<1>1. ComposePart!Open => Threads!Open
  BY DEF ComposePart!Open, Threads!Open, ComposePart!openComposeModal, Threads!openComposeModal,
     ComposePart!Posts, Threads!Posts, ComposePart!server, Threads!server
<1>2. ComposePart!requestCloseComposeModal => Threads!requestCloseComposeModal
  BY Zenon DEF ComposePart!requestCloseComposeModal, Threads!requestCloseComposeModal,
     ComposePart!server, Threads!server
<1>3. ComposePart!Confirm => Threads!Confirm
  BY DEF ComposePart!Confirm, Threads!Confirm, ComposePart!server, Threads!server
<1>4. ComposePart!AddPost => Threads!AddPost
  BY DEF ComposePart!AddPost, Threads!AddPost, ComposePart!server, Threads!server
<1>5. \A k : ComposePart!RemovePost(k) => Threads!RemovePost(k)
  BY Zenon DEF ComposePart!RemovePost, Threads!RemovePost, ComposePart!server, Threads!server, ComposePart!RemoveAt, Threads!RemoveAt
<1>6. \A k, t : ComposePart!Type(k, t) => Threads!Type(k, t)
  BY DEF ComposePart!Type, Threads!Type, ComposePart!server, Threads!server
<1>7. \A wait : ComposePart!Submit(wait) => Threads!Submit(wait)
  <2>1. ComposePart!OnItsWay = Threads!OnItsWay /\ (ComposePart!Sound <=> Threads!Sound)
    BY DEF ComposePart!OnItsWay, Threads!OnItsWay, ComposePart!Sends, Threads!Sends,
       ComposePart!Sound, Threads!Sound
  <2> QED
    BY <2>1 DEF ComposePart!Submit, Threads!Submit, ComposePart!dialog, Threads!dialog,
       ComposePart!server, Threads!server
<1>8. ComposePart!Index => Threads!Index
  BY DEF ComposePart!Index, Threads!Index, ComposePart!dialog, Threads!dialog
<1> QED
  BY <1>1, <1>2, <1>3, <1>4, <1>5, <1>6, <1>7, <1>8

\* and so are all its steps.
LEMMA SameSteps == [ComposePart!Next]_ComposePart!vars => [Threads!Next]_Threads!vars
<1>1. ComposePart!Next => Threads!Next
  BY SameAnswers, SameDialog, Zenon DEF ComposePart!Next, Threads!Next
<1>2. UNCHANGED ComposePart!vars => UNCHANGED Threads!vars
  BY DEF ComposePart!vars, Threads!vars, ComposePart!dialog, Threads!dialog, ComposePart!server,
     Threads!server
<1> QED
  BY <1>1, <1>2

\* What is shown there of the threads holds here,
LEMMA SameThread == Threads!ThreadIsRight => ComposePart!ThreadIsRight
<1>1. \A p : ComposePart!RootInRecord(p) = Threads!RootInRecord(p)
  BY DEF ComposePart!RootInRecord, Threads!RootInRecord
<1> QED
  BY <1>1 DEF Threads!ThreadIsRight, ComposePart!ThreadIsRight, Threads!RootIsRight, ComposePart!RootIsRight, Threads!PublishedOnce, ComposePart!PublishedOnce

\* the posts look the same to module Thread,
LEMMA SameView == ComposePart!ThreadView = Threads!ThreadView
BY DEF ComposePart!ThreadView, Threads!ThreadView

\* and so do the steps that it allows.
LEMMA SameChains ==
    /\ Threads!Chain!Init => ComposePart!Chain!Init
    /\ Threads!Chain!Next => ComposePart!Chain!Next
<1>1. /\ \A s : ComposePart!Chain!By(s) = Threads!Chain!By(s)
      /\ \A S : ComposePart!Chain!Max(S) = Threads!Chain!Max(S)
  BY SameView DEF ComposePart!Chain!By, Threads!Chain!By, ComposePart!Chain!Max, Threads!Chain!Max
<1>2. UNCHANGED Threads!ThreadView => UNCHANGED ComposePart!ThreadView
  BY DEF ComposePart!ThreadView, Threads!ThreadView
<1>3. ComposePart!ThreadView' = Threads!ThreadView'
  BY DEF ComposePart!ThreadView, Threads!ThreadView
<1>4. ASSUME NEW s, NEW p, Threads!Chain!Begin(s, p) PROVE ComposePart!Chain!Begin(s, p)
  BY <1>1, <1>3, <1>4, SameView DEF ComposePart!Chain!Begin, Threads!Chain!Begin
<1>5. ASSUME NEW s, Threads!Chain!Grow(s) PROVE ComposePart!Chain!Grow(s)
  BY <1>1, <1>3, <1>5, SameView DEF ComposePart!Chain!Grow, Threads!Chain!Grow
<1>6. Threads!Chain!Init => ComposePart!Chain!Init
  BY SameView DEF Threads!Chain!Init, ComposePart!Chain!Init
<1>7. Threads!Chain!Next => ComposePart!Chain!Next
  BY <1>4, <1>5, SameView DEF Threads!Chain!Next, ComposePart!Chain!Next
<1> QED
  BY <1>6, <1>7

-----------------------------------------------------------------------------
(***************************************************************************)
(* The steps, and what the parts keep in them.                             *)
(***************************************************************************)
\* A step of the whole is a step of the part that it began in, or leaves that part alone: the
\* row,
LEMMA StepOfRow ==
    [Next]_vars /\ part' = "toggle" => part = "toggle" /\ [TogglePart!Next]_TogglePart!vars
<1> SUFFICES ASSUME [Next]_vars, part' = "toggle"
             PROVE  part = "toggle" /\ [TogglePart!Next]_TogglePart!vars
  OBVIOUS
<1>1. CASE Next
  BY <1>1 DEF Next
<1>2. CASE UNCHANGED vars
  BY <1>2 DEF vars, TogglePart!vars, TogglePart!row
<1> QED
  BY <1>1, <1>2

\* the videos,
LEMMA StepOfVideos ==
    [Next]_vars /\ part' = "videos" => part = "videos" /\ [VideosPart!Next]_VideosPart!vars
<1> SUFFICES ASSUME [Next]_vars, part' = "videos"
             PROVE  part = "videos" /\ [VideosPart!Next]_VideosPart!vars
  OBVIOUS
<1>1. CASE Next
  BY <1>1 DEF Next
<1>2. CASE UNCHANGED vars
  BY <1>2 DEF vars, VideosPart!vars
<1> QED
  BY <1>1, <1>2

\* the pieces,
LEMMA StepOfAttach ==
    [Next]_vars /\ part' = "attach" => part = "attach" /\ [AttachPart!Next]_AttachPart!vars
<1> SUFFICES ASSUME [Next]_vars, part' = "attach"
             PROVE  part = "attach" /\ [AttachPart!Next]_AttachPart!vars
  OBVIOUS
<1>1. CASE Next
  BY <1>1 DEF Next
<1>2. CASE UNCHANGED vars
  BY <1>2 DEF vars, AttachPart!vars, AttachPart!pieces, AttachPart!field
<1> QED
  BY <1>1, <1>2

\* the link,
LEMMA StepOfPreview ==
    [Next]_vars /\ part' = "preview" => part = "preview" /\ [PreviewPart!Next]_PreviewPart!vars
<1> SUFFICES ASSUME [Next]_vars, part' = "preview"
             PROVE  part = "preview" /\ [PreviewPart!Next]_PreviewPart!vars
  OBVIOUS
<1>1. CASE Next
  BY <1>1 DEF Next
<1>2. CASE UNCHANGED vars
  BY <1>2 DEF vars, PreviewPart!vars
<1> QED
  BY <1>1, <1>2

\* the settings,
LEMMA StepOfSettings ==
    [Next]_vars /\ part' = "settings" => part = "settings" /\ [SettingsPart!Next]_SettingsPart!vars
<1> SUFFICES ASSUME [Next]_vars, part' = "settings"
             PROVE  part = "settings" /\ [SettingsPart!Next]_SettingsPart!vars
  OBVIOUS
<1>1. CASE Next
  BY <1>1 DEF Next
<1>2. CASE UNCHANGED vars
  BY <1>2 DEF vars, SettingsPart!vars, SettingsPart!page, SettingsPart!disk,
     SettingsPart!net, SettingsPart!hist
<1> QED
  BY <1>1, <1>2

\* messages,
LEMMA StepOfChat ==
    [Next]_vars /\ part' = "chat" => part = "chat" /\ [ChatPart!Next]_ChatPart!vars
<1> SUFFICES ASSUME [Next]_vars, part' = "chat"
             PROVE  part = "chat" /\ [ChatPart!Next]_ChatPart!vars
  OBVIOUS
<1>1. CASE Next
  BY <1>1 DEF Next
<1>2. CASE UNCHANGED vars
  BY <1>2 DEF vars, ChatPart!vars, ChatPart!view, ChatPart!acct, ChatPart!hist
<1> QED
  BY <1>1, <1>2

\* the mentions,
LEMMA StepOfMention ==
    [Next]_vars /\ part' = "mention" => part = "mention" /\ [MentionPart!Next]_MentionPart!vars
<1> SUFFICES ASSUME [Next]_vars, part' = "mention"
             PROVE  part = "mention" /\ [MentionPart!Next]_MentionPart!vars
  OBVIOUS
<1>1. CASE Next
  BY <1>1 DEF Next
<1>2. CASE UNCHANGED vars
  BY <1>2 DEF vars, MentionPart!vars, MentionPart!list
<1> QED
  BY <1>1, <1>2

\* the search and the picker,
LEMMA StepOfFinder ==
    [Next]_vars /\ part' = "finder" => part = "finder" /\ [FinderPart!Next]_FinderPart!vars
<1> SUFFICES ASSUME [Next]_vars, part' = "finder"
             PROVE  part = "finder" /\ [FinderPart!Next]_FinderPart!vars
  OBVIOUS
<1>1. CASE Next
  BY <1>1 DEF Next
<1>2. CASE UNCHANGED vars
  BY <1>2 DEF vars, FinderPart!vars, FinderPart!picker, FinderPart!search
<1> QED
  BY <1>1, <1>2

\* profiles,
LEMMA StepOfProfile ==
    [Next]_vars /\ part' = "profile" => part = "profile" /\ [ProfilePart!Next]_ProfilePart!vars
<1> SUFFICES ASSUME [Next]_vars, part' = "profile"
             PROVE  part = "profile" /\ [ProfilePart!Next]_ProfilePart!vars
  OBVIOUS
<1>1. CASE Next
  BY <1>1 DEF Next
<1>2. CASE UNCHANGED vars
  BY <1>2 DEF vars, ProfilePart!vars, ProfilePart!screen, ProfilePart!list,
     ProfilePart!place, ProfilePart!graph
<1> QED
  BY <1>1, <1>2

\* their editor,
LEMMA StepOfEditor ==
    [Next]_vars /\ part' = "editor" => part = "editor" /\ [EditorPart!Next]_EditorPart!vars
<1> SUFFICES ASSUME [Next]_vars, part' = "editor"
             PROVE  part = "editor" /\ [EditorPart!Next]_EditorPart!vars
  OBVIOUS
<1>1. CASE Next
  BY <1>1 DEF Next
<1>2. CASE UNCHANGED vars
  BY <1>2 DEF vars, EditorPart!vars
<1> QED
  BY <1>1, <1>2

\* subscriptions,
LEMMA StepOfSubscription ==
    [Next]_vars /\ part' = "subscription" => part = "subscription" /\ [SubscriptionPart!Next]_SubscriptionPart!vars
<1> SUFFICES ASSUME [Next]_vars, part' = "subscription"
             PROVE  part = "subscription" /\ [SubscriptionPart!Next]_SubscriptionPart!vars
  OBVIOUS
<1>1. CASE Next
  BY <1>1 DEF Next
<1>2. CASE UNCHANGED vars
  BY <1>2 DEF vars, SubscriptionPart!vars
<1> QED
  BY <1>1, <1>2

\* feeds,
LEMMA StepOfFeeds ==
    [Next]_vars /\ part' = "feeds" => part = "feeds" /\ [FeedsPart!Next]_FeedsPart!vars
<1> SUFFICES ASSUME [Next]_vars, part' = "feeds"
             PROVE  part = "feeds" /\ [FeedsPart!Next]_FeedsPart!vars
  OBVIOUS
<1>1. CASE Next
  BY <1>1 DEF Next
<1>2. CASE UNCHANGED vars
  BY <1>2 DEF vars, FeedsPart!vars, FeedsPart!saved, FeedsPart!screen, FeedsPart!line
<1> QED
  BY <1>1, <1>2

\* lists,
LEMMA StepOfListsTab ==
  ASSUME [Next]_vars, part' = "lists"
  PROVE  part = "lists" /\ [ListsPart!Next]_ListsPart!vars
<1>1. CASE Next
  BY <1>1 DEF Next
<1>2. CASE UNCHANGED vars
  BY <1>2 DEF vars, ListsPart!vars, ListsPart!account, ListsPart!here, ListsPart!screen
<1> QED
  BY <1>1, <1>2

\* the keys,
LEMMA StepOfDesk ==
  ASSUME [Next]_vars, part' = "desk"
  PROVE  part = "desk" /\ [DeskPart!Next]_DeskPart!vars
<1>1. CASE Next
  BY <1>1 DEF Next
<1>2. CASE UNCHANGED vars
  BY <1>2 DEF vars, DeskPart!vars, DeskPart!lists, DeskPart!rows, DeskPart!over, DeskPart!work
<1> QED
  BY <1>1, <1>2

\* the dialog.
LEMMA StepOfCompose ==
    [Next]_vars /\ part' = "compose" => part = "compose" /\ [ComposePart!Next]_ComposePart!vars
<1> SUFFICES ASSUME [Next]_vars, part' = "compose"
             PROVE  part = "compose" /\ [ComposePart!Next]_ComposePart!vars
  OBVIOUS
<1>1. CASE Next
  BY <1>1 DEF Next
<1>2. CASE UNCHANGED vars
  BY <1>2 DEF vars, ComposePart!vars, ComposePart!dialog, ComposePart!server
<1> QED
  BY <1>1, <1>2

\* What each of the parts rests on.
PagesInv == /\ In("toggle", TogglePart!RowInv) /\ In("videos", VideosPart!VideosInv)
            /\ In("attach", AttachPart!AttachInv) /\ In("preview", PreviewPart!PreviewInv)
            /\ In("settings", SettingsPart!SettingsInv) /\ In("chat", ChatPart!ChatInv)
            /\ In("mention", MentionPart!MentionInv) /\ In("finder", FinderPart!FinderInv)
            /\ In("profile", ProfilePart!ProfileInv) /\ In("editor", EditorPart!EditorInv)
            /\ In("subscription", SubscriptionPart!SubInv)
            /\ In("feeds", FeedsPart!FeedsInv) /\ In("lists", ListsPart!ListsInv)
            /\ In("desk", DeskPart!DeskInv)
            /\ In("compose", Threads!ComposeInv /\ Threads!Few)

\* The bound of the submissions is a number.
LEMMA SendsAreFew == MaxSends \in Nat
BY BoundsAssumption

\* Every part as it comes,
LEMMA InitPages == Init => PagesInv
<1> SUFFICES ASSUME Init PROVE PagesInv
  OBVIOUS
<1>1. ASSUME part = "compose" PROVE Threads!ComposeInv /\ Threads!Few
  <2>1. Threads!Init
    BY <1>1, SameInit DEF Init, Begin
  <2>2. v9 = <<>>
    BY <2>1 DEF Threads!Init
  <2>3. Threads!Few
    BY <2>2, SendsAreFew DEF Threads!Few
  <2> QED
    BY <2>1, <2>3, Threads!InitCompose
<1>2. ASSUME part = "toggle" PROVE TogglePart!RowInv
  BY <1>2, InitRow DEF Init, Begin
<1>3. ASSUME part = "videos" PROVE VideosPart!VideosInv
  BY <1>3, InitVideos DEF Init, Begin
<1>4. ASSUME part = "attach" PROVE AttachPart!AttachInv
  BY <1>4, InitAttach DEF Init, Begin
<1>5. ASSUME part = "preview" PROVE PreviewPart!PreviewInv
  BY <1>5, InitPreview DEF Init, Begin
<1>6. ASSUME part = "settings" PROVE SettingsPart!SettingsInv
  BY <1>6, InitSettings DEF Init, Begin
<1>7. ASSUME part = "chat" PROVE ChatPart!ChatInv
  BY <1>7, InitChat DEF Init, Begin
<1>8. ASSUME part = "mention" PROVE MentionPart!MentionInv
  BY <1>8, InitMention DEF Init, Begin
<1>9. ASSUME part = "finder" PROVE FinderPart!FinderInv
  BY <1>9, InitFinder DEF Init, Begin
<1>10. ASSUME part = "profile" PROVE ProfilePart!ProfileInv
  BY <1>10, InitProfile DEF Init, Begin
<1>11. ASSUME part = "editor" PROVE EditorPart!EditorInv
  BY <1>11, InitEditor DEF Init, Begin
<1>12. ASSUME part = "subscription" PROVE SubscriptionPart!SubInv
  BY <1>12, InitSubscription DEF Init, Begin
<1>13. ASSUME part = "feeds" PROVE FeedsPart!FeedsInv
  BY <1>13, InitFeeds DEF Init, Begin
<1>14. ASSUME part = "lists" PROVE ListsPart!ListsInv
  BY <1>14, InitLists DEF Init, Begin
<1>15. ASSUME part = "desk" PROVE DeskPart!DeskInv
  BY <1>15, InitDesk DEF Init, Begin
<1> QED
  BY <1>1, <1>2, <1>3, <1>4, <1>5, <1>6, <1>7, <1>8, <1>9, <1>10, <1>11, <1>12, <1>13, <1>14, <1>15
  DEF PagesInv, In

\* and every step of it, keep what it rests on,
LEMMA StepPages == PagesInv /\ [Next]_vars => PagesInv'
<1> SUFFICES ASSUME PagesInv, [Next]_vars PROVE PagesInv'
  OBVIOUS
<1>1. ASSUME part' = "compose" PROVE (Threads!ComposeInv /\ Threads!Few)'
  <2>1. Threads!ComposeInv /\ Threads!Few /\ [Threads!Next]_Threads!vars
    BY <1>1, StepOfCompose, SameSteps DEF PagesInv, In
  <2>2. Threads!ComposeInv'
    BY <2>1, Threads!StepCompose
  <2>3. Threads!Few'
    BY <2>1, SendsAreFew, Threads!StepsGrow
  <2> QED
    BY <2>2, <2>3
<1>2. ASSUME part' = "toggle" PROVE TogglePart!RowInv'
  BY <1>2, StepOfRow, StepRow DEF PagesInv, In
<1>3. ASSUME part' = "videos" PROVE VideosPart!VideosInv'
  BY <1>3, StepOfVideos, StepVideos DEF PagesInv, In
<1>4. ASSUME part' = "attach" PROVE AttachPart!AttachInv'
  BY <1>4, StepOfAttach, StepAttach DEF PagesInv, In
<1>5. ASSUME part' = "preview" PROVE PreviewPart!PreviewInv'
  BY <1>5, StepOfPreview, StepPreview DEF PagesInv, In
<1>6. ASSUME part' = "settings" PROVE SettingsPart!SettingsInv'
  BY <1>6, StepOfSettings, StepSettings DEF PagesInv, In
<1>7. ASSUME part' = "chat" PROVE ChatPart!ChatInv'
  BY <1>7, StepOfChat, StepChat DEF PagesInv, In
<1>8. ASSUME part' = "mention" PROVE MentionPart!MentionInv'
  BY <1>8, StepOfMention, StepMention DEF PagesInv, In
<1>9. ASSUME part' = "finder" PROVE FinderPart!FinderInv'
  BY <1>9, StepOfFinder, StepFinder DEF PagesInv, In
<1>10. ASSUME part' = "profile" PROVE ProfilePart!ProfileInv'
  BY <1>10, StepOfProfile, StepProfile DEF PagesInv, In
<1>11. ASSUME part' = "editor" PROVE EditorPart!EditorInv'
  BY <1>11, StepOfEditor, StepEditor DEF PagesInv, In
<1>12. ASSUME part' = "subscription" PROVE SubscriptionPart!SubInv'
  BY <1>12, StepOfSubscription, StepSubscription DEF PagesInv, In
<1>13. ASSUME part' = "feeds" PROVE FeedsPart!FeedsInv'
  BY <1>13, StepOfFeeds, StepFeeds DEF PagesInv, In
<1>14. ASSUME part' = "lists" PROVE ListsPart!ListsInv'
  <2>1. part = "lists" /\ [ListsPart!Next]_ListsPart!vars
    BY <1>14, StepOfListsTab
  <2> QED
    BY <2>1, StepLists DEF PagesInv, In
<1>15. ASSUME part' = "desk" PROVE DeskPart!DeskInv'
  <2>1. part = "desk" /\ [DeskPart!Next]_DeskPart!vars
    BY <1>15, StepOfDesk
  <2> QED
    BY <2>1, StepDesk DEF PagesInv, In
<1> QED
  BY <1>1, <1>2, <1>3, <1>4, <1>5, <1>6, <1>7, <1>8, <1>9, <1>10, <1>11, <1>12, <1>13, <1>14, <1>15
  DEF PagesInv, In

\* so that every behaviour does.
LEMMA PagesKeep == Spec => []PagesInv
BY InitPages, StepPages, PTL DEF Spec

-----------------------------------------------------------------------------
(***************************************************************************)
(* The theorems.                                                           *)
(***************************************************************************)
\* A button of a row tells the truth as long as it was never clicked while a call of its own
\* was out and no answer was lost: about a second click during the first call, which makes a
\* second record, nothing is said.  Of the videos it is unconditional: whatever comes into the
\* document and leaves it, the timer runs exactly while there is one to reclaim, and a player
\* belongs to a tracked video.
THEOREM RowsAreHonest == Spec => []RowIsHonest
<1>1. PagesInv => RowIsHonest
  BY RowTells DEF PagesInv, RowIsHonest, In, VideosPart!VideosInv
<1> QED
  BY PagesKeep, <1>1, PTL

\* Of any number of drafts.  Without a condition: every image has its field, each text that is
\* sent is one the server takes, and the link that goes with a draft was in its own text.  As
\* long as no other choice, and no new draft, came while files were read: one kind of medium
\* is attached, it was chosen for this draft, and no more images are sent than a post may have
\* - a read that ends in another draft puts its image there (compose.ts:397).  As long as no
\* two cards were fetched at once: the card that is shown is that of the link that is sent.
THEOREM DraftsAreOwn == Spec => []DraftIsOwn
<1>1. PagesInv => DraftIsOwn
  BY LinksAreOwn DEF PagesInv, DraftIsOwn, In, AttachPart!AttachInv
<1> QED
  BY PagesKeep, <1>1, PTL

\* What the reader is told of the settings is so, after any number of loads, edits, saves and
\* pins that came one after the other.  Nothing is said once an edit or a second call came
\* while a call was out, a form was saved that no load had filled, or a load failed.
THEOREM SettingsHold == Spec => []SettingsAreKept
<1>1. PagesInv => SettingsAreKept
  BY SettingsTell DEF PagesInv, SettingsAreKept, In
<1> QED
  BY PagesKeep, <1>1, PTL

\* No save of the settings takes away a feed that was pinned as long as nothing came while a
\* call was out: what is written back is then what the account has.  Two changes at once,
\* each of which writes what it read, are excluded.
THEOREM PinsAreKept == Spec => PinsStay
<1>1. PagesInv /\ [Next]_vars => [In("settings", SettingsPart!PinsKept)]_vars
  <2> SUFFICES ASSUME PagesInv, Next, part = "settings" PROVE SettingsPart!PinsKept
    BY DEF In
  <2>1. SettingsPart!SettingsInv /\ SettingsPart!Next
    BY DEF PagesInv, Next, In
  <2> QED
    BY <2>1, StepPins
<1> QED
  BY PagesKeep, <1>1, PTL DEF Spec, PinsStay

\* A message goes to the conversation it was typed in, whatever crosses it.  The rest is said
\* as long as nobody went to another conversation, or sent again, while something was out, no
\* call failed and no message was deleted: a reply is to a message of its own conversation,
\* each text is sent once, the screen is that of the conversation that is open, and what is
\* marked as read is shown or asked for.  An event is enough to show what is new if, besides,
\* the rows of the conversation are in the list once, not once for each of two fetches.
THEOREM MessagesAreHonest == Spec => []ChatIsHonest
<1>1. PagesInv => ChatIsHonest
  BY ChatTells DEF PagesInv, ChatIsHonest, In
<1> QED
  BY PagesKeep, <1>1, PTL

\* Of tabs with any number of rows, and any number of loads, dialogs, lists of posts and
\* deletions: a key acts on the row that has the focus as long as no post was deleted, the
\* first deletion takes the row it was asked for if nothing moved meanwhile, and closing a
\* list of posts puts back the list and the place it was opened from.
THEOREM KeysHit == Spec => []KeysHitTheirRow
<1>1. PagesInv => KeysHitTheirRow
  BY DeskTells DEF PagesInv, KeysHitTheirRow, In
<1> QED
  BY PagesKeep, <1>1, PTL

\* However the answers overtake one another, Enter chooses a profile that is listed, and a
\* search that has ended is not busy.  The rest has a condition: what Enter replaces is a
\* mention unless the list came when its mention was gone; the picker comes to show what its
\* field says if no two requests were out at once; and the keys move through the rows of the
\* search if no two searches were, and its tab was not left during one.
THEOREM AnswersFit == Spec => []AnswersFitTheField
<1>1. PagesInv => AnswersFitTheField
  BY FinderTells DEF PagesInv, AnswersFitTheField, In, MentionPart!MentionInv
<1> QED
  BY PagesKeep, <1>1, PTL

\* Whatever crosses: the page is not left busy when its loads have ended, the rows of the other
\* tab stay unless an answer came while it was shown, and a subscription goes to the one whose
\* dialog it was made in.  Of a profile whose last fresh load had the page to itself: the keys
\* move through what it shows, each post once, and, as long as no click crossed a load or a
\* call, its buttons say what the account has.  A saved editor leaves its form in the account
\* if it was loaded and saved with nothing in between that failed or changed it.
THEOREM ProfilesAreHonest == Spec => []ProfileIsHonest
<1>1. PagesInv => ProfileIsHonest
  BY ProfileTells DEF PagesInv, ProfileIsHonest, In, EditorPart!EditorInv, SubscriptionPart!SubInv
<1> QED
  BY PagesKeep, <1>1, PTL

\* Of any feeds and lists, and of a tab of which no load was answered beside another since its
\* rows were made anew: the keys move through what it shows, and the rows say what the account
\* has of each feed (after a failure, once a list has come that leaves none out) and of each
\* list (unless one was blocked twice).  The account has what was chosen of the feeds as long
\* as each choice was made from the list it has, one at a time; the timeline shows the feed
\* that was chosen by a key, and nothing is said of the other ways to choose one.
THEOREM FeedsAndListsHold == Spec => []FeedsAndListsAreHonest
<1>1. PagesInv => FeedsAndListsAreHonest
  BY FeedsTells, ListsTells DEF PagesInv, FeedsAndListsAreHonest, In
<1> QED
  BY PagesKeep, <1>1, PTL

\* A thread is published in order and to the right root, as ComposeProofs shows of the
\* dialog, for any drafts, submissions, answers and losses.
THEOREM ThreadsAreRight == Spec => []ThreadIsRight
<1>1. PagesInv => ThreadIsRight
  BY Threads!InvariantIsRight, SameThread DEF PagesInv, ThreadIsRight, In
<1> QED
  BY PagesKeep, <1>1, PTL

\* The dialog and its submissions implement module Thread: what a submission publishes is a
\* chain, whatever is done meanwhile.
THEOREM ThreadsAreChains == Spec => ThreadsGrow
<1>1. Init => In("compose", ComposePart!Chain!Init)
  <2> SUFFICES ASSUME Init, part = "compose" PROVE ComposePart!Chain!Init
    BY DEF In
  <2>1. v10 = <<>>
    BY DEF Init, Begin, ComposePart!Init
  <2> QED
    BY <2>1 DEF ComposePart!Chain!Init, ComposePart!ThreadView
<1>2. /\ PagesInv /\ [Next]_vars
      => [In("compose", [ComposePart!Chain!Next]_<<ComposePart!ThreadView>>)]_vars
  <2> SUFFICES ASSUME PagesInv, Next, part = "compose"
               PROVE  [ComposePart!Chain!Next]_<<ComposePart!ThreadView>>
    BY DEF In
  <2>1. part' = "compose"
    BY DEF Next
  <2>2. Threads!ComposeInv /\ Threads!Few /\ [Threads!Next]_Threads!vars
    BY <2>1, StepOfCompose, SameSteps DEF PagesInv, In
  <2>3. [Threads!Chain!Next]_(Threads!ThreadView)
    BY <2>2, SendsAreFew, Threads!StepsGrow
  <2>4. UNCHANGED Threads!ThreadView => UNCHANGED ComposePart!ThreadView
    BY DEF ComposePart!ThreadView, Threads!ThreadView
  <2> QED
    BY <2>3, <2>4, SameChains
<1> QED
  BY PagesKeep, <1>1, <1>2, PTL DEF Spec, ThreadsGrow
=============================================================================
