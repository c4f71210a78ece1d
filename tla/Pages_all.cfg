\* The parts end where their bounds end.
SPECIFICATION Spec
CHECK_DEADLOCK FALSE
CONSTANTS
  Clips = {"v1", "v2"}
  Urls = {"a", "b"}
  Queries = {"a", "b"}
  Convos = {1, 2}
  People = {1, 2}
  Labels = {1, 2}
  FeedIds = {1, 2}
  ListIds = {1, 2}
  MaxTurns = 2
  MaxSends = 2
  MaxPosts = 2
  AttachDrafts = 2
  AttachChoices = 2
  AttachLimit = 2
  PreviewDrafts = 2
  PreviewFetches = 2
  MentionText = 2
  MentionFound = 2
  MentionFetches = 2
  FinderCalls = 2
  DeskSize = 2
  DeskRows = 5
  DeskAsks = 2
  DeskLists = 1
  ToggleClicks = 4
  ToggleFailures = 1
  ChatLimit = 3
  ChatSteps = 4
  ChatCrossings = 1
  SettingsSteps = 4
  SettingsCrossings = 1
  ProfileSteps = 3
  ProfileLoads = 2
  EditorSteps = 6
  SubscriptionSteps = 3
  FeedsSteps = 3
  FeedsLoads = 2
  ListsSteps = 3
  ListsLoads = 3
  Taken = {"compose", "attach", "preview", "toggle", "videos", "mention", "finder", "desk", "chat", "settings", "profile", "editor", "subscription", "feeds", "lists"}
INVARIANT AnswersFitTheField
INVARIANT KeysHitTheirRow
INVARIANT ChatIsHonest
INVARIANT SettingsAreKept
INVARIANT ProfileIsHonest
INVARIANT FeedsAndListsAreHonest
PROPERTY PinsStay
INVARIANT ThreadIsRight
INVARIANT DraftIsOwn
INVARIANT RowIsHonest
PROPERTY ThreadsGrow
PROPERTY ButtonComesBack
PROPERTY VideosEndAndPlay
