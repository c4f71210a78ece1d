# Mixko in TLA+

Mixko is a desktop client for Bluesky: Go services bound to a web page through
Wails, an SQLite file that keeps the session, and background goroutines that tell
the page about new activity. This directory holds TLA+ models of the parts of it
that are hard to get right by testing, the TLC runs that check them on small
instances, and TLAPS proofs of what matters most for every instance.

Source lines below are those of the repository (`services/at_client.go:191` is
`src/services/at_client.go`, line 191). The definitions of the modules carry the
names of the code; `PROJECT.json` maps each of them to the lines it models.

Contents: [the system](#the-system), [the modules](#the-modules),
[the runs](#the-runs), [fairness](#fairness), [the proofs](#the-proofs),
[what is not modelled](#what-is-not-modelled), [the plan](#the-plan),
[checking it](#checking-it).

## The system

### Components, their state and what they do

**Session core** (`services/at_client.go`). State: the pointer `ATClient.client` to
one `xrpc.Client` (which carries the access and the refresh token), the lock `mu`
over it, and `inflight`, the refresh other callers may share, under `refreshMu`.
Every service call goes through `WithClient`: read the pointer, send a request, on an
expired token call `RefreshSession`, send it once more. `RefreshSession` is
single-flight: the first caller leads, the others wait for `call.done`. The leader's
`doRefresh` holds `mu` while it puts the refresh token in the place of the access
token, exchanges it, stores the new pair and saves it, or puts the old one back.
*Correct when*: two refreshes never present the same single-use token, no waiter is
forgotten, the refresh token never stays in the place of the access token, and what
is on disk can restart the session.

**Authentication** (`services/auth.go`, `controllers/auth.ts`). `CheckSession` reads
the row, installs a client and asks the server who it is; `RestoreSession` is that and
the handle for the page; `Login` creates a session, installs it and saves or erases
the row; `Logout` tells the server, drops the client and erases the row. `App.startup`
runs `CheckSession` in Go while `initApp` of the page runs `RestoreSession`: two
restorations of one row. *Correct when*: memory and disk agree once nothing is under
way, and logging out is final.

**Session database and key store** (`database/db.go`, `crypto.go`, `keystore*.go`). One
row `session_info`, encrypted with a key that lives in the Secret Service (when
`secret-tool` is installed) or in a file, and once lived in plaintext next to the
database. `loadOrCreateKey` finds, adopts or makes it at every start. *Correct when*
the next start can read what this one saved, wherever it was killed.

**Background sync** (`services/sync.go`). Three goroutines: a ticker that runs
`checkForUpdates` every minute; a Jetstream subscription that puts a token in a
one-slot channel at every commit to the account's own repository; a third that takes
the token, runs `checkForUpdates` too and waits for things to settle. State: the two
counts and the newest post last seen, under `SyncService.mu` - held for the comparison
only, neither for the request before it nor for the event after it. *Correct when* no
commit is folded away, growth is announced, nothing is announced for nothing, one
working host is enough and `Stop` ends everything.

**Application lifecycle** (`app.go`, `main.go`). `startup`: open the database,
`CheckSession` with the application's own context, then start sync; `shutdown`: `Stop`.

**Timeline and tabs** (`controllers/timeline.ts`, `tabs.ts`, `notifications.ts`,
`saved.ts`, `profile.ts`, `utils/pagination.ts`, `config/state.ts`). One global
`state.currentPosts` with its cursors, and a saved copy per tab, all mutated before and
after awaits by loads that nothing serialises. *Correct when* the list on the screen
belongs to the tab on the screen, has no post twice and loses none.

**Thread publishing** (`controllers/compose.ts`, `services/post_builder.go`). A thread is
published post by post, each a reply to the one before; a root is resolved through an
index that lags; a thread gate is a second record written after its post. *Correct when*
what is published is a prefix of the thread, in order, and an interruption is seen.

**Records on the server** (`services/social.go`, `moderation.go`, `post_builder.go`).
Preferences, the profile, thread gates and list membership are read, changed and written
back whole; some writes carry the version that was read, some do not.
*Correct when* no change of another client is undone.

**Chat** (`services/chat.go`, `controllers/chat.ts`, `auth.ts`). A list of
conversations, an open one with its form, background updates and read marks. *Correct
when* a message goes once to the conversation it was typed in and what is marked as read
was shown.

**Settings** (`controllers/settings.ts`, `services/social.go`). A form filled by five calls
in turn and saved by two, a cache of muted words, values of this machine. *Correct when*
"saved" and "cancelled" are true.

**Profiles** (`controllers/profile.ts`). Header, pinned post and rows of a profile from
several awaits, paged; follow, mute and block; the editor of one's own; the subscription
dialog. *Correct when* buttons, header and rows are of the same profile.

**Feeds and lists** (`controllers/feeds.ts`, `lists.ts`, `link_router.ts`,
`components/list.ts`). Modes of a tab, choices sent as whole lists, links that switch the
tab and load. *Correct when* choices do not undo each other and the keys move through what
is shown.

**Keys, dialogs and rows** (`controllers/shortcuts.ts`, `utils/dialog.ts`,
`components/post.ts`). Keys act on `state.focusedPostIndex`; questions and a dialog with
posts of its own lie over the page; a row has buttons that toggle a record, and videos that
an observer and a timer watch. *Correct when* a key acts on the row that has the focus, a
button says what the account has, and no video outlives its row.

**Fields that search** (`controllers/search.ts`, `components/gif_modal.ts`,
`mention_autocomplete.ts`). *Correct when* what is shown is what was typed.

**The rest**: one-shot reads that translate an answer (`feed.go`, `models.go`,
`search.go`, `notifications.go`), text functions (`post_util.go`), the updater, error
codes, and the page's rendering and wording.

### How they interact

* *Calls*: the page calls the bound Go services; each bound call runs on a goroutine of
  its own, so two clicks are two goroutines. Sync calls the same services.
* *Shared state*: `ATClient.client` (everybody), `session_info` (login, logout, refresh,
  restoration), the key (every start), `state.*` of the page (every handler).
* *Callbacks and messages*: Jetstream commits reach the trigger goroutine through the
  one-slot channel; sync reaches the page with `EventsEmit`; the page's handlers run to
  their next await.

### What is hard here

Goroutines meet in `RefreshSession` holding a token that may be used once; a kill can
fall between any two of {server rotates, memory, disk}; the fetches of two checkers
overlap; a read of the database is written back after another write; a key that is
"not found" may only be locked away; a list is replaced while a request for another tab
is on its way; an answer is applied to whatever the page shows by then; a row keeps the
index it was made with. `PROJECT.json` lists the hazards that matter most at the lines
where they bite, with the property that would catch each one, or the reason why none does.
Lesser ones are among the known divergences below.

## The modules

| module | models | proofs |
|---|---|---|
| `SharedRefresh` | what `RefreshSession` promises its callers (abstract) | |
| `ATClient` | session core, authentication, the session row, App.startup and initApp | `ATClientProofs` |
| `Sync` | `services/sync.go` with its three goroutines, accounts and their activity | `SyncProofs` |
| `KeyStore` | the key of the session row, found, adopted or made at every start | `KeyStoreProofs` |
| `Page` | loads of the timeline, notifications and saved posts over one page state, tabs, sync's events | `PageProofs` |
| `Thread` | what publishing a thread promises (abstract) | |
| `Compose` | the dialog of a post, its submission post by post, the root of a reply | `ComposeProofs`, `PagesProofs` |
| `Attach` | pictures, a video, a picture that moves, and their texts | `PartsProofs` |
| `Preview` | the card of the link in a text | `PartsProofs` |
| `Mention` | the suggestions for a mention in a text | `PartsProofs` |
| `Finder` | the picker of moving pictures, and the search tab | `TabsProofs` |
| `Videos` | the videos of rows, their observer and their timer | `PartsProofs` |
| `Desk` | the focused row, the keys that act on it, questions, the dialog with posts | `TabsProofs` |
| `Toggle` | the like, repost and bookmark buttons of a row | `PartsProofs` |
| `Chat` | direct messages and sync's event about them | `TabsProofs` |
| `Settings` | the settings page and the preferences of the account | `PartsProofs` |
| `Profile` | the profile page with its tabs and buttons | `TabsProofs` |
| `Editor` | the editor of one's own profile and labels | `TabsProofs` |
| `Subscription` | the dialog of activity subscriptions | `TabsProofs` |
| `Feeds` | the feeds tab, and which feed the timeline shows | `TabsProofs` |
| `Lists` | the lists tab, its dialogs and the links that end there | `TabsProofs` |
| `MCATClient`, `MCSync`, `MCKeyStore`, `MCPage` | symmetry for TLC, the posts of `Page`'s items | |
| `Slots` | the variables that hold the state of one part | |
| `Parts` | what belongs to a post, and the settings: instances of `Attach`, `Preview`, `Mention`, `Videos`, `Toggle`, `Settings` | `PartsProofs` |
| `Tabs` | the tabs, their dialogs and the keys: instances of `Finder`, `Chat`, `Profile`, `Editor`, `Subscription`, `Feeds`, `Lists`, `Desk` | `TabsProofs` |
| `Pages` | `Parts` and `Tabs` with `Compose`: fifteen parts, side by side | `PagesProofs` |

### ATClient

A goroutine is a thread with a program counter: `Boot` runs App.startup's
`CheckSession`, `Page` the page's `RestoreSession`, `Workers` are the goroutines of sync
(which start when startup is over), `Users` are calls, logins and logouts of the page,
of which several may run at once. One action is the code from one point where another
goroutine can see or change something to the next:

| action | code |
|---|---|
| `LoadSession`, `Reseal`, `Show` | `GetSession`, its re-encryption of a plaintext row, `RestoreSession`'s handle |
| `Install` | `SetClient`, from `CheckSession` and `Login` |
| `GetClient`, `Send`, `Answer` | `WithClient`: the pointer under `mu`, the token read without it, the request |
| `Lead`, `Join`, `Observe`, `WaitTimeout` | `RefreshSession` under `refreshMu`; the wait for `call.done` or `ctx.Done()` |
| `AcquireMu`, `SwapIn`, `Exchange`, `StoreTokens`, `SaveRefreshed`, `RestoreAccess` | `doRefresh` |
| `ClearInflight`, `CloseDone` | the leader's end: `inflight = nil`, then `close(call.done)` |
| `CreateSession`, `PersistLogin` | `Login` |
| `DropClient`, `EraseRow` | `Logout` (and `Login`'s erasure without "Remember me") |
| `Expire` | the server stops accepting an access token |

Tokens are pairs numbered in the order the server mints them. `spent` is the server's
memory of used refresh tokens, `dead` of refused access tokens. The server refuses a used
refresh token; `Env` says which misfortunes may happen: a request fails before it reaches
the server (`netfail`), its reply is lost after the server has rotated (`lost`), the
database fails (`dbfail`), an endpoint refuses a good token for its scope (`scope`, which
`isAuthExpired` takes for an expired one), a request with no deadline never ends
(`stall`). The read of `Auth.AccessJwt` in `WithClient`'s function races with the
assignment in `doRefresh`; the model lets it return the old or the new token, whichever
is there, or a torn string (`Torn`), which no server accepts.

Abstractions: `WithClient`'s function is one request (functions that make several see the
same interleavings, one request at a time); `deleteSession`'s effect on the server is left
out (the pair is thrown away by the client in any case); a crash is not an action because
nothing but the row survives it: a property of the row in every state is a property of
every crash. `Logout` is bound to the page (`frontend/wailsjs`), though no control of the
page calls it at this commit. A second login may begin while one is under way because the
form's button stays enabled.

### SharedRefresh

The abstract specification of `RefreshSession`, after the comment on it
(`at_client.go:191`, "Concurrent callers share a single refresh and all observe its
result."): one refresh is open at a time, newcomers join it, it closes to newcomers, then
one verdict goes to all who joined. `ATClient` implements it under the mapping `Party`,
`Told` and `inflight` (`SharesOneRefresh`).

### Sync

`poll`, `jet` and `trigger` are the goroutines. A check is `Guard` (is there a client),
then for notifications, chat and timeline in turn `FetchOk` or `FetchFails`, `Store` (the
critical section) and `Tell` (the event). `Commit` is a Jetstream event: the non-blocking
send. `LookForClient`, `Dial`, `Hangup`, `WakeUp` are `jetstreamLoop` with its host
rotation and backoff. The activity of an account is a number per kind: unread
notifications, unread messages, or the identity of the newest post. `Arrive`, `Read` and
`SignIn` are the world: something arrives, the user reads, another account signs in. Four
history variables are only observed: `news` (arrived beyond the last count and not yet
told), `told`, `pending` (a commit after the last check of `trigger` began) and `overlap`
(two checks have been under way at once).

Abstractions: time (a tick, a backoff and the settle delay may last any time), the ping
goroutine (it closes the socket when the context ends, which is the fairness of `Hangup`
then), the texts of the events. `Accounts` stands for `client.Auth.Did`.

### KeyStore

Each process launches, picks its store (`newKeyStore`), loads the key, falls back to the
legacy file, else makes one, saves it, removes the legacy file, opens the row and works;
it may be killed between any two steps and inside the file write, which truncates first.
A key is a number, a row is sealed by a key. `mishaps` is a history variable that names
what went wrong outside the steps of one process: `unseen` (the keyring hid a key it
has: `secret-tool` answers the same for "locked" and "no such item"), `moved` (another
store than at the last start), `torn` (a file write cut in half), `twice` (two processes
up at once).

### Page

The page is one thread: a handler runs to its next `await`. `StartFresh` is a fresh load
from its first line to its request (`loadTimeline`, `loadNotifications` or
`loadSavedPosts`, which differ in what they clear and when), `More` the key `j` on the
last row, `ArriveTimeline`, `ArriveNotifications`, `ArriveSaved` and `ArriveRestore` what
happens when an answer is there, `Fail` the `catch` blocks, `SwitchTab`, `Reload`,
`ToggleHide`, `Announce` and `AnnounceHere` the handlers that begin loads or spoil
`loaded`. A load under way is a record with the locals of its function; nothing in the
code keeps two of them apart, and nothing does in the model.

`state.currentPosts` is a reference: `tabStates[t].posts`, `previousPosts` and it may be
one array or several, and a load pushes into whichever array the state names *then*. So
lists have names (`cur`, `kept`, `load[l].prev`) and contents (`list`). `shown` is the
panel of each tab, the articles in the document. A feed is a number of items, the newest
the largest, an item brings the posts `Shows[i]` (a reply comes with its root), a cursor
is the oldest item of a page. `Rows` is what a page does to the list: the timeline adds item
by item (`AddItem`, an item that is there or hidden adds nothing, else its posts in turn),
notifications fold within the page, saved posts are looked up one by one. `PushAll` and
`AddAll` are folds over sequences, so that the module can be proved about.

Abstractions: the rows of one page appear at once; the focused row is any row at the time
of a reload and is not kept; hiding is a property of the item; a page may be short, never
empty with a cursor. The custom feed of the timeline, the other tabs and the filter on
mentions are left out.

History variables tell what a property may expect. `clean[t]`: the last fresh load of `t`
had the page to itself, from its first line to its end, without a switch. `halfway[t]`:
since then a load that had changed the panel has failed. `failed[t]`: the last fresh load
failed. `head[t]`, `news[t]`, `lost` name what was newest at the last load and at the last
announcement, and a reader who was not put back.

### Thread and Compose

`Thread` is the abstract promise: the posts of one submission are a chain, each the reply
to the one before; the first replies to whatever it was written for. `Compose` implements
it under `ThreadView` (`ThreadsGrow`): `Open`, `AddPost`, `RemovePost`, `Type` are the form,
`Submit` reads it whole in one step and sends the first post, `Answered` and `Failed` are
the end of one call, which sends the next post or ends the submission. The index of the
server lags (`indexed`, `Index`); `resolveThreadRoot` reads the record of the parent and
falls back to the parent itself, which `guessed` marks. `uneasy` (history) holds the drafts of
which a submission failed, or that were sent again while another submission ran: a
resubmission does publish the first posts again.

### Attach, Preview, Mention

`Attach`: choosing files begins a reading (`PickImages`, `PickVideo`) that ends later, file by
file; a picture of a picker and the removals come in between; `crossed` says that another
choice, a removal or another draft came during a reading. `Preview`: the link in the text,
a timer, a fetch, a card, each bound to the `PostLinkState` of its draft. `Mention`: a text of
characters `"@"`, `"a"`, `" "`, the timer of the search, the list; `late` says that the list
came when the mention was no longer there.

### Finder and Videos

`Finder` holds two searches that share nothing: the picker (a field, a delay, answers that
may overtake each other) and the search tab (rows put into `state.currentPosts` of whatever
tab is shown). `Videos`: a video is nowhere, in a row that is not in the document yet, in
the document, or gone; `registeredVideos`, the IntersectionObserver and what it has said
last, the players, the timer of the sweep. Every video is registered before its row, or its
message (`chat.ts:370`, the message is appended at `:478`), is in the document, so that only
`bindContainerVideos` or the sweep has it observed; panels are replaced with the rows that
were made (`Replace`), emptied after their videos are forgotten (`Clear`), or emptied without a
word to them (`Remove`).

### Desk and Toggle

`Desk`: `state.currentPosts` is a reference to a named list, rows carry the index they were
made with, `held` is the row that has the focus of the document. Keys ask questions
(`stack`), whose answers act on `focused` as it is by then; `KeyShiftQ`, `KeyE` and their like fetch
a list that opens over the page and takes over the list and the index until it closes.
`seen` (history) names what has happened: `"moved"`, `"nested"`, `"deleted"` guard what is
claimed, `"wrong"`, `"strayed"`, `"lost"` are what must not happen. `Toggle` is one button of
one row with several clicks on their way: the record the row carries, the label, the
count at the click, the count on the screen, and the records of the repository.

### Chat

`activeConvoId`, the panel and the form are three things; lists, messages and refreshes are
answered in any order. What is asked for is a bag (`fetches` counts the lists, the messages
and the refreshes of each conversation that are out), because each `GetMessages` is answered
to the call that made it: a conversation that was asked for twice has its rows pushed twice
(`chat.ts:479`). `Polled` is `updateChat` of `auth.ts`, `Unread` the comparison of
`sync.go` that leads to it. A text that was sent is kept with the conversation it was typed
in and the one it went to.

### Settings, Editor, Subscription

`Settings` is a load in five stages (`Stages`) and a save in several, with failures at each,
removals of muted words by the index their row was drawn with, and `mutatePrefs` in its two
requests. `Editor` saves a name, a picture and each label whose box differs from
`dataset.initial`; `UpdateProfile` writes a record without the rest when the reading failed.
`Subscription` is the one element that every opening adds handlers to.

### Profile, Feeds, Lists

Each is a tab whose loads run from await to await and put their rows wherever
`state.currentPosts` points by then; `clean` says that the last fresh load had the page to
itself. `Profile` has two kinds of tabs within the page, those of posts and those of people
(lists and packs load like people, replies and media like likes). A load that is to put the
focus back goes on page after page (`GotContent`, its parameter `on`): whether it has found
the post, and how many pages its budget allows, is left open. `Feeds` has the choices
(`wanted` against `acct`), the ways to choose the feed of the timeline (`chosen`), and which one
its posts are of (`shows`); the list of saved feeds may come with any of them left out, since
`feed.go:607` drops those whose generator is not returned (`Answers`). `Lists` has the dialogs, the places that loads made for their
rows (`panel.box`), the mark of a loaded tab (`loaded`), a link to a list whose owner is looked
up first, and the profile of a member that is loaded while the lists are on the screen
(`OpenMember`, `GotPinned`, `GotPage`: its rows go to whatever has the keys by then); `twice`
(history) holds the lists that were blocked while they were blocked. In which order feeds and lists come is
left open (`InOrder`): nothing that is claimed depends on it.

### Parts, Tabs and Pages

The fifteen parts wait for answers of their own and share only `state.currentPosts`, which
each models for itself. A behaviour of `Pages` is one of a single part: `part` says of which, and
the variables `v1` to `v21` (`Slots`) hold its state. The constant `Taken` names the parts that
a run takes: `Pages_all.cfg` takes all fifteen, and a part under work can be checked alone. The
states of a run are the sum of its parts', so nothing is multiplied and no part is hidden by
another. The
properties are the conjunctions of what the modules claim, each conjunct under the name and
the comment it has there. `Parts` and `Tabs` hold the instances and their bounds apart from
`Pages`, because each proof module is about one of them: the provers see every name of every
instance, and half as many make them twice as fast.

## The runs

Each run asks one question. Bounds are constants; the guards that apply them are
`nclient < MaxClient` and `Mint` (ATClient), `Arrive`'s range and `logins < MaxLogins`
(Sync), `made < MaxKeys` (KeyStore), `Post`'s range and `Trouble` (Page: everything that is
not a plain load or switch with nothing else under way counts against `MaxTroubles`); in the
parts of `Pages` the step or call that counts is guarded by `Step`, `MaxTurns`, `MaxSends`,
`MaxCalls` and their like, listed with the constants of each module. When the bound on token pairs is reached the server
refuses, as a failing network would, so nothing stops for want of a token.

| run | question | instance |
|---|---|---|
| `shared_refresh` | Do concurrent callers share one refresh, and does every path through it leave the client usable? | two workers and a user, signed in or after a login; requests, scope and database fail; three pairs |
| `session_row` | Is the row on disk as good as memory, and does Logout stick? | startup from a plaintext row, or signed in, with or without a row; two workers, a user that calls and logs out; three pairs |
| `startup` | Do both restorations of one row and a worker leave the row usable, and do they end? | startup, page and worker; lost replies; two clients |
| `double_restore` | *violation*: is a refresh token never presented twice at startup? | startup and page |
| `startup_stall` | *violation*: does every bounded operation end? | startup and page, startup's request stalls |
| `sync_events` | Is no commit folded away, and nothing announced twice? | two accounts, one sign-in, two posts, failing requests, Stop at any time |
| `sync_live` | Is growth announced, one host enough, does Stop end all, do the counts settle? | one account, two hosts of which the first refuses, two notifications, reading |
| `key_restarts` | Is the session readable and the key saved, wherever processes die? | two processes, both stores, three keys, every fault |
| `page_lists` | Do overlapping loads keep lists without duplicates, and does a load that had the page to itself leave state and screen alike? | three tabs, two loads, three items on pages of one, two troubles |
| `page_failure` | *violation*: does a failed load leave the state as the screen is? | the timeline, one load |
| `pages` | Does a post keep what it promises while it is written and shown, and do tabs, fields and dialogs keep theirs, when answers are late, fail or cross; do the button and the videos come to rest? | fifteen parts, each alone; two posts, two submissions, two drafts, four clicks, two videos; two conversations, people, feeds or lists, three or four steps of the reader, two or three loads; bounds in `Pages_all.cfg` |
| `delete_focused` | *violation*: does `x` delete the focused post? | a tab of four rows, two questions |

What they show:

* `shared_refresh`: `NoReplayedRefresh` and `NoLostWakeup` hold although the leader can fail
  at every step. `SwapConfined`: whoever reads the client without `mu` can meet the refresh
  token in the place of the access token, but only during an exchange, and never after
  it. `RetryCarriesNewToken` is an action property: the retry's token has not been replaced
  before it is sent. With one client (`MaxClient = 1`) a login is only possible from the
  signed-out start; with a second one the retry uses the pointer read before the refresh:
  its token is then the one that was refused, though no refresh has replaced it, and the
  property does not exclude that, see *known divergences*. Three callers are enough for a leader, a follower and a late
  401; three pairs are two token lifetimes.
* `session_row`: `DurableSession` says that outside the step from the server's rotation to
  `SaveSession`, when the row's token is used up so is every token in memory: a kill loses
  nothing the process still had. `LogoutSticks` needs `mu`: `Logout` cannot take the client
  away between a rotation and its save. `DiskFollowsMemory`: no late write undoes a
  newer one.
* `startup`: the two restorations end up with two clients on one row. Refresh tokens can be
  used up there (that is `double_restore`), but the row is never worse than memory, and
  each operation ends when each request ends.
* `double_restore` and `startup_stall` are findings, below.
* `sync_events`: two levels make "another post" and "the same post again" different, two
  accounts make a sign-in a change of everything a check reads.
* `sync_live`: the first host refuses every connection, so the stream lives only if the
  attempt counter moves on and wraps around.
* `key_restarts`: `SessionReadable` is claimed while `mishaps` is empty - which includes
  kills at every step, failing saves and removals, locked keyrings without a key, and
  a migration from the plaintext key; `KeyIsSaved` also after mishaps, except a second
  process. Each of the four mishaps does break `SessionReadable` in the model when it is
  left out of the guard: they are the known limits of the code listed below.
* `page_lists`: two troubles are enough for a new post during a load that then fails, or an
  announcement during a load that overlaps another. `NoPostTwice` holds of every
  interleaving; the rest is claimed of tabs whose last load was `clean`, because the code
  does go wrong otherwise (*known divergences*), and covers top-ups of a page stripped of
  replies, the restored place with its page of slack, and failures. Pages of one item put
  a boundary between any two; three items and a cap of three make the cap matter
  (`TypeOK` holds a restore to it).
* `page_failure` and `delete_focused` are findings, below.
* `pages`: thirteen properties over some eight hundred thousand states. `ThreadIsRight`: two posts to
  a draft and two submissions make a reply to a post that is not indexed, a failure in the
  middle, and a resubmission. `ThreadsGrow` is the refinement of `Thread`, `ButtonComesBack`
  that no path through a submission leaves the form locked. `DraftIsOwn`: two drafts, two
  readings, a limit of two pictures. `RowIsHonest`: four clicks, one failure; two videos,
  so that one goes while the other comes with the timer on. `VideosEndAndPlay` is liveness of
  the sweep and of the observer. `AnswersFitTheField`: two requests at
  once suffice for one to overtake the other. `KeysHitTheirRow`: two rows to a tab, two
  questions, one dialog with posts. `ChatIsHonest`: pages of three messages, so that a page
  becomes full, and four steps, which suffice for a conversation to be asked for twice.
  `SettingsAreKept`, `PinsStay`: two muted words (a removal shifts the other), one crossing.
  `ProfileIsHonest`, `FeedsAndListsAreHonest`: two loads at once, three of the lists (so that
  a link can load both the lists and the posts of one while the profile of a member is out), and three
  steps of the reader besides those that cost nothing.
  What each conjunct claims "as long as nothing crossed" is not a convenience: without the
  guard TLC finds the divergences listed below. `GoesWhereTyped`, `LinkIsOwn`, `AltPerImage`,
  `ActiveIsListed`, `BusyEnds`, `OtherRowsStay` (but for the rows that an answer brings while the
  other tab is shown), `SubOfShown`, `SweepIsOn` and `PlayersAreTracked` need no guard. What
  the other guards leave out of each hazard is noted with the hazard in `PROJECT.json`.

Deadlock is checked in every passing run except the two of Sync, where the goroutines
end when Stop is called and nothing is left to do, and off in the two violation runs of
ATClient, where startup and page are all there is.

### Findings

* **The row is restored twice** (`double_restore`; `auth.go:49`, `app.go:98`,
  `auth.ts:148`). The comment on `refreshMu` says "Refresh tokens are single-use: firing
  two in parallel would invalidate the session." The single flight protects one
  `xrpc.Client` at a time. App.startup installs a client from the row and refreshes it;
  the page, which read the row before that refresh was saved, installs a second client
  with the old pair, and its refresh presents a used token.
* **Startup can hold `mu` for ever** (`startup_stall`; `app.go:98`). `defaultCallTimeout`
  exists because "a stalled connection would hang a goroutine for the lifetime of the
  process". Startup calls `CheckSession` with the application's context, which has no
  deadline; if its refresh stalls, `doRefresh` holds `mu`, and the page's call, whose own
  context has a deadline, blocks in `RLock`, which no context ends.
* **A failure while the place is restored** (`page_failure`; `timeline.ts:145`). The
  `catch` block says "The feed on screen was never touched, so put the bookkeeping back
  with it rather than leaving the state describing a load that did not happen." It also
  catches the failure of a page fetched to find the reader's place, after the new feed is
  on the screen: the keys then move through articles that are no longer in the document.

* **x deletes the wrong post** (`delete_focused`; `shortcuts.ts:1159`). The guide says `X`
  deletes the "focused post" (`src/shortcuts.md:59`). After a deletion the list is spliced
  but the rows keep the `dataset.index` they were made with; the row that takes the focus
  sets `focusedPostIndex` one too high (`post.ts:780-785`), and the next `x` asks about, and
  deletes, the post after it.

### Known divergences no run is spent on

Each was met while modelling, and is the reason for a guard in a property or a bound:

* `at_client.go:276`: the retry uses the `*xrpc.Client` read before the refresh; after a
  login in between, it is sent with the old account's client, unrefreshed.
* `at_client.go:270`: a 401 answered after the shared refresh has ended starts another,
  needless one.
* `at_client.go:246` against `auth.go:113`: a login without "Remember me" erases the row, and
  its first refresh writes one.
* `auth.go:109`: two logins under way at once may leave one in memory and the other on disk.
* `db.go:130`: the re-encryption of a plaintext row can overwrite what a refresh saved in
  between, when startup and page both restore it.
* `sync.go:132`: when two checks overlap, the older answer may be stored last, and the same
  newest post be announced again by the next check (`EmittedOnce` is claimed until then).
* `sync.go:130`: when the newest post is deleted, the one before it is the newest again and is
  announced once more; the model has no deletions.
* `sync.go:93`: counts are compared with those of the last check; after reading k items, k new
  ones are no news, which the guard of `NewsIsAnnounced` leaves out; nothing is reset when the account changes.
* `sync.go:244`: the stream stays on the account it was opened for until it drops.
* `keystore.go:64`: killed between the save of the migrated key and the removal of the file,
  the plaintext key stays for good.
* `keystore_unix.go:44` (locked keyring: the key is replaced), `:23` (secret-tool installed
  later: a new key), `:102` (a file written in half stops every later start),
  `keystore.go:68` (two first starts make two keys).
* `timeline.ts:144`: a failed reload puts back posts and cursor, not the page counter, so the
  next reload may give up looking for the reader's place too early (`pagination.ts:77`).
* `pagination.ts:63`: "never more than were loaded before", where the budget is one page more
  (`:77`, "one page of slack").
* `timeline.ts:100`: of two fresh loads of the timeline under way at once the second finds
  every post already in the list, and swaps in an empty feed.
* `timeline.ts:72`, `saved.ts:55`: an answer that comes after a switch of tabs puts its
  articles into the list of the tab on the screen.
* `timeline.ts:124`: `loadMore` marks the tab as loaded; after an announcement and a failed
  load, the announced posts are not loaded. A load that was under way when sync spoke does
  the same.
* `notifications.ts:123`: the cursor is cleared and not put back when the load fails.
* `notifications.ts:288`: two `loadMore` at once add the same rows twice.
* `saved.ts:79`: a failed `loadMore` replaces the whole panel by its error.
* `shortcuts.ts:482`: hiding replies while another tab is on the screen leaves the timeline as
  it was.
* `auth.ts:74`: `new_timeline_posts` does nothing while the timeline is on the screen.

*Publishing.* `compose.ts:678`: after a failure the form stays whole, and sending it again
publishes the first posts again; Ctrl+Enter does not look at the disabled button, so a
draft can be sent twice at once. `post_builder.go:234`: the post exists before its thread gate,
and the gate's error is dropped. `post_builder.go:780`: `HideReply` reads the gate and writes it
back without a swap, and over it when the reading failed. A reading of files that is
overtaken puts its pictures into the next draft (`compose.ts:397`). Of two cards on their
way the last to come stays.

*Keys and dialogs.* `post.ts:699` and `shortcuts.ts:1159` act on the list and the index as they
are when the answer comes, so a deletion answered after a reload or a switch takes another
row out of the list. Two dialogs with posts opened one from the other restore the inner
list; a switch of tab while one is open saves the dialog's list as the tab's. The key `x`
compares the author with `loggedInHandle`, contrary to `state.ts:8-10`. A search does not
move `focusedPostIndex`, which stays that of the list before. The picker, closed while a
search is due and opened again, shows that search instead of what is trending.

*Rows.* Two clicks on a button before the first is answered make two records, of which one
is never undone.

*Chat.* The conversation opened from a profile sets `loaded`, which `switchTab` resets: the list
of conversations may come last and replace it on the screen while it stays the open one.
Sync announces a chat only when there is more unread than at its last tick; a full page
has the same length after another message and is not shown again (`auth.ts:125`). A
conversation that is opened, and announced by sync before its messages are there, is asked
for twice and has each row twice; the next refresh compares the number of messages with
twice as many rows, so that after n messages at first, 2n are taken for what is shown (`auth.ts:125`). The
answer of a send or a reaction that comes after the reader has left sets `activeConvoId`
back to that conversation.

*Settings.* A save before the load has filled the form, or after it has failed, erases muted
words, filters and notification preferences; edits made during a load are overwritten by
it; a failure of the second call is told as an error though the first has saved; a Cancel
whose load fails says "cancelled" all the same. A change of a labeler loads the page again,
over what was edited. `UpdateAllPreferences` writes `threadViewPref` with the sort order only.

*Profiles.* Answers that come late load into whichever tab is shown. Coming back to one's own
profile shows the tab within the page that another profile had. At the end of the followers
the first page comes again. A double click on Follow makes two records. While a second
load is out the header of the first is there with its buttons. `UpdateProfile` writes an
otherwise empty record when the read before it has failed (`social.go:863`). When
`GetSelfLabels` fails no box is checked. Boxes are read while a save runs, and an editor that
is opened again meanwhile resets them. The answer of a subscription closes the dialog even
when it shows somebody else by then.

*Feeds.* A feed opened from the tab or from a trend does not load a timeline that was loaded
before, though it is announced (`feeds.ts:127`); the Timeline button and Alt+1 reset
`currentFeedUri` without a load (`tabs.ts:31`). `GetSavedFeeds` returns nothing when the
names of feeds cannot be looked up, and leaves out those that are not found (`feed.go:607`);
the next choice then erases the rest. Two choices
at once: the second undoes the first (`feeds.ts:134`).

*Lists.* A muted list is recognised by the label of its button, in Portuguese only
(`components/list.ts`); the block of a list is undone neither in English nor before a
reload, and a click in between blocks it once more: of the two records the button then takes
off one, and says that the list is not blocked (`components/list.ts:155`). Only the first page of lists is loaded. A member that is opened from a list is loaded without
its tab being shown, and its posts are added to the rows of the lists (`profile.ts:204`, `:485`). A link to a list starts the load of the tab and that of the list, of
which either may come last: when the lists do, their rows have the keys while the posts are
on the screen; a link to a post takes over `currentPosts` and does not give it
back.

## Fairness

*ATClient.* `SF` on the steps a goroutine takes by itself: Go schedules every runnable
goroutine, and a `sync.RWMutex` does not starve a waiter, although `mu` may be taken and
released again and again while it waits - which is why `WF` would not do. `WF` on the
end of a request: the contexts of the bound calls and of sync have deadlines
(`CallContext`, `defaultCallTimeout`), so a request ends one way or the other. Startup's
context has none: with `stall` in `Env` its requests have no fairness. Beginning an
operation, `Expire` and the faults have no fairness.

*Sync.* `WF` on the steps of each goroutine. `SF` on leaving a `select` through
`ctx.Done()`: Go picks among the ready cases at random, so a ticker does not win for ever.
`SF` on a fetch that can succeed, in runs where fetches may fail: not all of them fail for
ever. `Hangup` is fair only once the context is cancelled, when the ping goroutine closes
the socket. A commit, an arrival, a sign-in and Stop itself have no fairness.

*Compose.* `WF` on the answers together: each call of a service has a deadline, so it is
answered or fails. The reader and the index have no fairness.

*Videos.* `WF` on the sweep, an interval timer that runs as long as it is set, and on the
observer's report about each video, which the browser owes for what has changed. Scrolling,
drawing and removing rows have no fairness.

*KeyStore*, *Page* and the other parts of `Pages` have no liveness property.

## The proofs

TLAPS proves these for every value of the constants that the named assumptions allow:
any number of goroutines, accounts, hosts, keys and processes, any faults and any bounds.

| theorem | states |
|---|---|
| `ATClientProofs!Typing` | `Spec => []TypeOK` |
| `ATClientProofs!RefreshTokenConfined` | `Spec => []SwapConfined` |
| `ATClientProofs!WaitersAreWoken` | `Spec => []NoLostWakeup` |
| `ATClientProofs!Implementation` | `Spec => SharesOneRefresh`: the refinement of `SharedRefresh` |
| `ATClientProofs!SingleUse` | `Spec => []NoReplayedRefresh`, once startup is over and while no reply is lost |
| `ATClientProofs!RetryIsNotSpent` | `Spec => RetryCarriesNewToken`, an action property, under the same two: not spent, which is not to say another than was refused |
| `ATClientProofs!RowIsOfSession` | `Spec => []DiskFollowsMemory`, with one session and a database that works |
| `ATClientProofs!LogoutIsFinal` | `Spec => []LogoutSticks`, with a database that works and logins one at a time |
| `ATClientProofs!NoSessionLost` | `Spec => []DurableSession`, with a database that works and nobody logging in |
| `SyncProofs!TypesHold` | `Spec => []TypeOK` |
| `SyncProofs!MailboxLosesNothing` | `Spec => []NoEventLost` |
| `SyncProofs!NewestPostOnce` | `Spec => []EmittedOnce` |
| `KeyStoreProofs!TypesHold` | `Spec => []TypeOK` |
| `KeyStoreProofs!SessionSurvives` | `Spec => []SessionReadable` |
| `KeyStoreProofs!KeysAreSaved` | `Spec => []KeyIsSaved` |
| `PageProofs!TypesHold` | `Spec => []TypeOK` |
| `PageProofs!PostsAreOnce` | `Spec => []NoPostTwice` |
| `PageProofs!StateIsShown` | `Spec => []StateIsOnScreen` |
| `PageProofs!NothingIsSkipped` | `Spec => []NothingSkipped` |
| `PageProofs!PlacesAreKept` | `Spec => []PlaceIsKept` |
| `PageProofs!NewsAreShown` | `Spec => []NewsIsShown`: of tabs whose last load had the page to itself and did not fail |
| `ComposeProofs!ThreadsAreRight` | `Spec => []ThreadIsRight` |
| `ComposeProofs!Implementation` | `Spec => ThreadsGrow`: the refinement of `Thread` |
| `PagesProofs!ThreadsAreRight`, `ThreadsAreChains` | the two above of the parts together |
| `PagesProofs!DraftsAreOwn` | `Spec => []DraftIsOwn`: `Attach` and `Preview` |
| `PagesProofs!RowsAreHonest` | `Spec => []RowIsHonest`: `Toggle` (one click at a time) and `Videos` |
| `PagesProofs!SettingsHold` | `Spec => []SettingsAreKept`: nothing crossed |
| `PagesProofs!PinsAreKept` | `Spec => PinsStay`, an action property: one change at a time |
| `PagesProofs!AnswersFit` | `Spec => []AnswersFitTheField`: `Mention` and `Finder` |
| `PagesProofs!MessagesAreHonest` | `Spec => []ChatIsHonest` |
| `PagesProofs!ProfilesAreHonest` | `Spec => []ProfileIsHonest`: `Profile`, `Editor` and `Subscription` |
| `PagesProofs!FeedsAndListsHold` | `Spec => []FeedsAndListsAreHonest`: loads and choices one at a time |
| `PagesProofs!KeysHit` | `Spec => []KeysHitTheirRow`: `Desk` |

Those of `Pages` hold of every behaviour, but several conjuncts of their properties are
conditions on what happened: they say nothing of a history in which the reader, or an answer,
came in between. Of each, this is claimed always, and this under its condition:

| theorem | always | as long as (history) |
|---|---|---|
| `DraftsAreOwn` | fields for images, texts that are sent, the link of a draft | one kind, own pieces: no other choice or draft during a reading (`crossed`); the card: no two fetches at once |
| `RowsAreHonest` | the sweep, the players | button and count: not clicked while its call was out, no answer lost (`tangled`) |
| `SettingsHold`, `PinsAreKept` | | nothing begun while a call was out, a filled form, no failed load (`crossed`) |
| `AnswersFit` | the chosen profile, the end of a search | the mention: its list was not late (`late`); the picker, the rows: no two requests at once (`overtaken`, `mixed`) |
| `MessagesAreHonest` | where a message goes | the rest: nothing crossed or failed (`crossed`); an event is enough: no row is there twice, and the page is not full |
| `ProfilesAreHonest` | the busy mark, the rows of another tab (`spilled` aside), the subscription | rows: a load alone (`clean`); buttons: no click in between (`tangled`); the editor: `fair` |
| `FeedsAndListsHold` | | rows: no loads side by side (`clean`), a whole list since a failure (`lost`), calls one at a time (`told`); choices: from the account's list (`blind`); the shown feed: chosen by a key |
| `KeysHit` | | no deletion, no second list of posts, nothing moved (`seen`) |

*Assumptions.* `NoThreadAssumption` (`NoThread` is no goroutine), `BoundAssumption`,
`HostsAssumption`, `LevelAssumption`, `AccountAssumption`, `KeysAssumption`,
`StoresAssumption`, `TabsAssumption`, `LoadsAssumption` (loads are finitely many: there is
always a name for a new list), `FeedAssumption`, `PostsAssumption` (an item brings at least
its own post): types of the constants, evaluated by TLC in every run. `Implementation` of
`ComposeProofs` takes `MaxSends` for a number. For the parts: the bounds are numbers
(`PartBounds`, `TabBounds`, `BoundsAssumption`); the form of a post is opened once at least
(`DialogAssumption`); 0, which stands for nobody and for none, is no conversation, person,
feed or list, 1 is a person and a list, which the page begins with, and what switches a search
off is no query (`SetsAssumption`); a label is a number, 1 is one (`LabelsAssumption`); feeds
and lists are finitely many, so that they can be put in an order (`FinitenessAssumption`); the
keys begin on a row, so a tab has one (`DeskAssumption`).
The theorems on `Page`, `Sync`, `KeyStore` and `Pages` have
no other hypotheses. Five of those on `ATClient` have, and each one excludes
something the code does get wrong, in the model and on a small instance:

* `StartupIsOver` (`SingleUse`, `RetryIsNotSpent`): the finding `double_restore`;
* `"lost" \notin Env` (the same two): after a lost reply the client itself holds a used
  token and can do nothing but present it;
* `"dbfail" \notin Env` (the three on the row): a write that fails leaves the row behind;
* `OneSession` (`RowIsOfSession`): startup and page restore one row twice, or two logins
  cross (`auth.go:109`), and the last to write the row need not be the last to install;
* `NoRivalReseal` (`LogoutIsFinal`, `NoSessionLost`): the re-encryption of a plaintext row
  overwrites what was saved in between (`db.go:130`);
* `LoginsDoNotOverlap` (`LogoutIsFinal`): a second login writes its row after the logout
  that ended the first;
* `NobodyLogsIn` (`NoSessionLost`): a login without "Remember me" leaves no row by intent.

*The session core.* `TypeOK` alone is not inductive: `access[client]` is written, so
`client # 0` must be known at the program points of a refresh, which only the lock
guarantees. `IInv` is `TypeOK` with `LockInv` (the goroutine that holds `mu` is the one
at a step of `doRefresh`, and a leader is at a step of a refresh), `ClientInv` (the client
is there where it is used), `SwapInv` (`SwapConfined`, and where exactly the refresh token
stands in) and `WaitInv` (`NoLostWakeup`; whoever waits does so for somebody else, and a
verdict is there once the leader has gone). Each part has a lemma for a step
(`StepTypeOK`, `StepLockInv`, ...), one case per action. `Implementation` uses `IInv`:
each step maps to `Lead`, `Join`, `Shut`, `Announce` or `Leave` of `SharedRefresh`, or to a
stutter.

*Single use.* `FreshInv` says that every pair that still works is in one place: in one
client, or in the hand of the one goroutine about to put it there (`OnePlace`), that a
client's pair is used up only under `mu`, between the exchange and the store (`Usable`),
and that what is exchanged is the client's own token (`Exchanging`). For the retry comes
`TokenInv`: the access token of a client is of the pair whose refresh token it has, or
the client is in the middle of a refresh.

*The row.* Few of the actions touch the pair of a client or the row; `StepKinds` sorts the
steps into those and the quiet ones once, and three invariants are proved from it.
`DiskInv` follows the newest pair from the service through the memory to the row.
`LogoutInv` says where a goroutine may be while nobody is signed in: none of them holds
anything it is about to write, because `Logout` takes `mu`, which a refresh keeps until it
has saved. `DurableInv` says that each pair that is used up has a successor in somebody's
hand, in the memory or in the row.

*Sync.* `NoEventLost` is inductive together with the typing of `pc`: a set `pending`
finds the token in the channel or the trigger goroutine at the start of a check. For
`EmittedOnce`: while no two checks overlap, what a check is about to tell is newer than what
it has last seen, and everything that was told has been seen.

*The key.* `KeyInv` takes the first half of `SessionReadable` (`Opens`) with what each step of a start knows
(`Stage`), who may be up (`Alone`), that a key at work is saved (`Saved`) and that a short
file is one being written (`Whole`); the last gives the other half.

*The lists.* What an answer makes of a list is the fold of `Push`. That a fold over a
sequence does one step after the other is proved from its definition first (`FoldExists` and
what follows it, by the least counterexample); from it comes `Follows`: the rows that were
there stay in front, what is added is of the tab, is new, and holds every visible item of
the page. Then each step is summed up once (`StepIsOne`), and the invariants are shown
against the summaries: `AllOnce`; `Here` and `Alone` (what `clean` means: all loads are of
the tab on the screen, and a fresh one is the only one); `NewsInv`; `Distinct` (which names
may be the same list - without it an answer could change the list another tab has kept);
`ScreenInv` (while a load has the page to itself, what it will put on the screen and what
is there already make up the list); `CoverInv` (the pages between the newest item and the
cursor have been added, whatever part of them is on its way).

*The place.* `PlaceIsKept` joins two units. A reload may fetch as many pages as the tab had and one
more; what it promises is a post, which some item brings. `PlaceInv` says how they meet. In
a tab whose loads had the page to themselves (`Clear`), the pages counted take in every item
from the newest of the last load to the cursor (`Deep`), and still do when a load for more
is on its way (`MoresDeep`). A reload that is on its way (`Search`) has asked for its first
page (`Begun`), or has fetched full pages from the newest item it has met to the cursor it
sends, and its list has what those items bring (`Gone`); for the timeline this needs `Whole`: a
list with one post of an item has all of them, since `AddItem` passes over an item whose own
post is there. What it owes, an item brings that its budget reaches (`Owes`), and the new items
of one page are what the page of slack is for. A reload that stops has used up its budget or
the feed, so it has been past that item, and its list has the post (`PlaceIsFound`).
TLC checked `PlaceInv` on the instance of `page_lists` first.

*Threads.* `ComposeInv` says of each submission on its way that its last post is the
newest of its own, that the root it carries is the root of that post, and that the number
of the next item is beyond all it has published; and of two submissions of one draft that
the draft is uneasy. From `Under` comes the step of `Thread` that each answer is.

*The parts.* Each module of a part ends with its inductive invariant, which `PartsProofs` and
`TabsProofs` show to be kept, one lemma per action or group of actions that do the same to
it. Most of them say the same kind of thing: as long as nothing crossed, there is one answer on
its way at most, and what it will do when it comes makes screen and account agree.

| invariant | besides the claims themselves, it says |
|---|---|
| `RowInv` (`Toggle`) | no call and `Agreed`, or one call that carries what the row had |
| `VideosInv` | what is watched is in the list of the sweep (`WatchedAreTracked`) |
| `AttachInv` | of the files chosen, one choice at most is still read, it is of this draft, and what it will bring has its place (`OneRead`) |
| `PreviewInv` | a fetch is for a link that stood in the text of its own draft (`OwnLinks`, `OneCall`) |
| `SettingsInv` | `Kept`: the form, the cache of words and the rows are those of the account, or the one call on its way makes them so |
| `MentionInv` | nothing is searched for before there was a mention (`Placed`); what a choice in a list that is shown would replace is one, unless the list came late (`Listed`) |
| `FinderInv` | the one request that is out or due is for what the field says (`OneRequest`); the keys have the rows of the last search, or one search is out and the tab is shown (`OneSearch`) |
| `ChatInv` | a form sends to its own conversation, and (`Kept`) what is out is for the conversation that is open; what was announced is shown, asked for, or has its rows there twice |
| `ProfileInv` | a clean load is the only one and finds what it has drawn itself (`OneLoad`, `Stage`); one call at a time, which follows somebody who is not followed (`OneFollow`), so there is one record each |
| `EditorInv` | what a save has done so far is in the record, label by label (`SavedSoFar`) |
| `SubInv` | the handlers are those of the one shown |
| `DeskInv` | as long as no post was deleted, and no list of posts opened over another or was left by a switch or a load (`Clean`): the index of a row is its position (`Numbered`), the rows in a place of the document are those of its list (`Placed`, `Over`), the row that has the focus is the one of `focusedPostIndex` (`HeldIsFocused`), and as long as nothing moved either, there is one deletion, of that row (`OneDeletion`) |
| `FeedsInv`, `ListsInv` | a clean load fills the panel that was made for it or spoils `clean` when it comes (`OneLoad`), and the one choice there is goes to both account and rows (`OneChoice`, `Own`) |

`PagesInv` is their conjunction, each under `part = ...`; `PagesProofs` needs one lemma for
each part that a step of `Pages` within it is a step of its module (`StepOfChat`, ...). What
`ComposeProofs` proves is used there through `Threads == INSTANCE ComposeProofs`, with the
lemmas that the definitions it brings are those of `Pages` (`SameInit` and what follows it).

*What the proofs brought to light.* `PlaceIsKept` had a premise that its history variable
made empty: the items that pushed the reader's post down were counted after the first page
had moved the mark they were counted from. Corrected, TLC refuted it on a larger
instance, and it now claims less: the post is an item of its own, or shown before an item
that nothing else brings (a later reply to the same thread may bring the item without the
post the reader was on); and something was found at all: when hiding replies leaves nothing
of the three pages that a reload tops up with, `currentPosts` is empty and nobody is put
back (`timeline.ts:129`), nor is there a last row to load more from.
`ListsAreOwn` said that a list whose button says so is not blocked. The invariant it needs,
one record to a blocked list, is not one: the button of a list that has just been blocked
blocks it again, and the record that is left is seen by nobody. The claim now excludes
the lists of `twice`.
`Desk` says what its claims rest on: a deleted post leaves the indexes of the rows after it as
they were (`shortcuts.ts:1159`), so the keys and the focus may disagree from then on, and
a list of posts that opens over another forgets the one beneath. The claims exclude these
two and the proof shows that nothing else has to be excluded.

*Only model-checked.* Liveness (`OperationsEnd`, `NewsIsAnnounced`, `StreamConnects`,
`StopEndsAll`, `Converges`, `ButtonComesBack`, `VideosEndAndPlay`) and everything under
fairness is out of the prover's reach and stays with TLC. Every safety property that a passing run
checks as an invariant is proved, five of `ATClient` under the hypotheses above.

## What is not modelled

* `ResolvePDSHost` and the reads of `feed.go`, `search.go`, `notifications.go`, `models.go`:
  one request and a translation of its answer; they keep nothing.
* `moderation.go`: one call of the page each, with its errors. Two of its limits are of this
  kind: the scoped mute is read back and undone, and a failed reading leaves a full mute
  (`:60`); only the first hundred blocks are searched, and one beyond them is reported as
  removed (`:141`).
* Of `post_builder.go`: thread gates, the upload of media, facets and embeds (`post_util.go`), and
  `HideReply`.
* Of the pages: `FollowAllInList`, the members of a list and of a pack (but the profile that is opened from
  them), reports, adding somebody
  to a list, the labels and the subscription by hand in the settings.
* The Windows and macOS key stores: builds of the same interface, one call of the
  system each.
* Migrations of the schema, the window and its dialogs, the updater, error codes.
* `wailsjs`: generated from the Go structures; it converts and has no control.
* The page's rendering, wording, sounds and themes.

`PROJECT.json` has each part with its status and reason.

## The plan

1. *(done)* `ATClient`, `SharedRefresh`: the session core, because everything goes through
   it. Proofs: typing, the swapped token, wakeups, the refinement, single use.
2. *(done)* `Sync` and `KeyStore`, with the theorems on the mailbox and the key.
3. *(done)* `Page`: the loads of three tabs and sync's events. Left: grouping across reasons and
   the filter on mentions; an abstract specification (a tab shows a prefix of its own
   feed, each post once).
4. *(done)* `Thread`, `Compose`, `Attach`, `Preview`, `Mention`: a post and a thread.
5. *(done)* `Desk`, `Toggle`, `Videos`, `Finder`: rows, keys, dialogs and searches.
6. *(done)* `Chat`, `Settings`, `Editor`, `Subscription`, `Profile`, `Feeds`, `Lists`.
7. *(done)* Proofs: the session row, the retry, the types of `Sync`, `KeyStore` and `Page`,
   `EmittedOnce`, the lists of `Page` and the place a reload keeps, threads with their
   refinement, and the other fourteen parts of `Pages`.

## Checking it

```
tlc -workers 2 -config ATClient_refresh.cfg MCATClient.tla
tlapm ATClientProofs.tla
```

and likewise for the other configurations and proof modules. The largest run has some
eight hundred thousand states; each run takes at most about two and a half minutes on two cores.
