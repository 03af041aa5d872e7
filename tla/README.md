# YoYo Messenger: specifications, model checking and proofs

YoYo Messenger is an iOS messenger without a server of its own. Every device talks
to Firebase (Auth, Firestore, Storage) through a handful of Swift services, and what
holds the data of several users together is the order in which the devices' callbacks
read documents and write them back. This directory models that: one TLA+ module per
component, TLC configurations, and proofs checked by TLAPS. Paths below are relative to
`src/YoYo/YoYo/` unless they start with `src/`. `PROJECT.json` maps every definition to
its lines.

- [1 The system](#1-the-system)
- [2 The modules](#2-the-modules)
- [3 The runs](#3-the-runs)
- [4 What is proved](#4-what-is-proved)
- [5 Where documents and code disagree](#5-where-documents-and-code-disagree)
- [6 Not modelled](#6-not-modelled)
- [7 Plan](#7-plan)

## 1 The system

| component | state | operations | talks to |
|---|---|---|---|
| Friend lists (`FriendService`, `SearchService`, `AddFriendViewController`, `MyFriendViewCell`) | one document per user, a list of `(uid, status)` | send a request; accept, cancel, unfriend, block, unblock; search; the tab's rows | writes BOTH users' documents from the device of the one who tapped |
| Conversation (`MessageViewController`, `MessagingService`) | collection of messages with a status SEND or SEEN; each chat screen's rows | fetch (two queries), two listeners, send, mark SEEN, cover by a video preview, close | the same collection from both ends |
| Chats tab (`ChatViewController`, `MessagingService`) | `chatModels`, `searchBuffer`, what the table drew | three-query fetch started by each report of two listeners; search bar; tap on a row | reads messages and profiles |
| Story player (`StoryExplorerViewController`, `StoryViewByViewController`) | index, one named timer, an image load | taps, long press, swipes, viewers sheet, load completion, timer | reports views through `StoryService` |
| Stories tab and views (`StoriesViewController`, `StoryService`) | stories with `viewedBy` and an expiry date; copies on each device | two fetches, a listener, open, `addViews`, post | the friends list, to know whose stories to ask for |
| Sign-up, sign-in, log-out (`AuthenticationService`, `CreateAccountController`, `LoginViewController`, `HomeTabController`) | Auth's accounts and current user, profiles, one stored credential | create, mail, upload, save; sign in by hand or by face; log out; auth listener | every service asks Auth for the current user |
| Friends tab (`FriendsViewController`) | rows, search buffer | listener, two-query fetches, search bar, leave and come back; the buttons of the rows | friend lists |
| Settings and profile (`SettingsService`, `SettingsViewController`) | profile document, photo | change name, photo, password; log out | Auth, Storage, Firestore |
| Media (`StorageService`, `SendMediaMessageViewController`, `UploadImageStoryViewController`) | files by name | upload, ask for a URL, make a thumbnail, delete | conversation, stories, profile |
| Firestore's write path (`src/YoYo/Pods/FirebaseFirestore`: `SyncEngine`, `LocalStore`, `RemoteStore`, `WriteStream`) | a queue of writes per user on disk, a pipeline, a stream and its state | keep a write, send, acknowledge; token, handshake, backoff, idleness; change of user | carries every write of every service |
| Compose, Cells, Previews | none of their own | layout | |

Components interact in four ways: **shared documents** written by several devices
(friends lists, stories, messages); **callbacks** of requests that outlive the screen
that asked; **listeners** of Firestore and Auth that a screen registers and removes with
its appearance; and **delegates**, called synchronously.

What is hard in this code:

- *Read-modify-write across devices.* A friends list and a story are fetched, changed
  and written back whole, with no transaction (`FriendService.swift:72`,
  `StoryService.swift:124`).
- *Two documents, no atomicity.* Each friend action changes two lists one after the
  other; an error, a killed app or another chain comes between.
- *Queries of different times.* A fetch joins answers that are not of one snapshot,
  while listeners bring newer state in between (`DatabaseService.swift:241`).
- *Several requests for one thing.* A new photo is delete, upload, URL, read, write
  (`SettingsService.swift:56`); a post is upload, URL, thumbnail, upload, URL, save. Files
  are shared by everything that has the same user and title (`StorageService.swift:53`).
- *Writes nobody waits for.* They leave through a stream that breaks, idles, changes its
  user and is given tokens by another thread.
- *Callbacks after the fact.* An image that loads under a finger, a sign-in that answers
  after another one, a fetch that answers after its chat was closed.
- *Listeners that are registered once and removed often* (`HomeTabController.swift:25`,
  `StoriesViewController.swift:46`).

What makes each component correct: friendship by consent and blocks that stay on their
side; no message lost, doubled or falsely SEEN; a list of chats that catches up; a
player that obeys gestures and skips nothing; viewers who are friends and counted once;
a home screen that only a verified, registered user gets to and can leave; pictures that
open; writes that leave in order, as the user who made them. `PROJECT.json`
lists the hazards line by line with the properties about each.

## 2 The modules

| module | models | extends / instantiates |
|---|---|---|
| `Friendship` | the abstract promise: one shared tie per pair of users | |
| `FriendLists` | the two-list protocol, query by query | instantiates `Friendship` |
| `FriendsTab` | one user's friends tab over everybody's lists | extends `FriendLists` |
| `FriendListsProofs` | the invariant whatever overlaps; serial use: the refinement of `Friendship`; the friends tab | extends `FriendsTab` |
| `Conversation`, `ConversationProofs` | both ends of one conversation; its proofs | |
| `StoryPlayer`, `StoryPlayerProofs` | the player; its proofs | |
| `StoryFeed`, `StoryFeedProofs` | the stories tab and the viewers of stories; its proofs | |
| `Account`, `AccountProofs` | signing up, in and out on one device; its proofs | |
| `ChatList`, `ChatListProofs` | the chats tab; its proofs | |
| `Bucket` | files by name, URLs and their tokens | |
| `Profile` | changes of name and photo on a user's devices | extends `Bucket` |
| `Posts` | messages and stories with pictures and videos | extends `Bucket` |
| `Uploads`, `UploadsProofs` | both over the same files; its proofs | extends `Profile`, `Posts` |
| `Outbox` | the abstract promise: a queue of writes per user, sent oldest first | |
| `WriteQueue` | Firestore's write path | instantiates `Outbox` |
| `WriteQueueProofs` | its inductive invariant, the refinement of `Outbox` | `WriteQueue`, TLAPS |
| `MC...` | symmetry sets and special starts for TLC | the module of that name |

Definitions named after a mutation (`NewStatusSwapped`, `UploadFirst`, ..., each
commented "Mutant:") belong to no specification. Each is a plausible slip in the
definition that follows it, and TLC finds the property violated when it takes that
definition's place; `PROJECT.json` pairs them.

### Abstractions common to all

- A write takes effect when it is issued. Firestore applies writes to the local cache
  at once, queues them on disk and delivers them in order (`WriteQueue`: in order per
  user, and in the end); a device sees its own writes before the server does, and the
  modules of the app do not model devices that are offline.
- The type invariants are in `FriendLists`, `Conversation`, `StoryPlayer`, `StoryFeed`,
  `Account` and `WriteQueue`; those that were true by construction are left out.
- Dates order documents as they were written. Rows that only the layout sorts have no dates.
- A document is what the properties tell apart: an entry is `(uid, status)`, a message
  its sender, status and place, a story its owner, viewers and whether it has expired.
- Killing an app ends its chains and screens; nothing issued before is undone.
- Alerts, spinners, texts, pictures and scrolling are left out.

### FriendLists

`store[u]` holds the documents whose `uid` is `u`: the code looks a list up by a query
and takes the first, so there may be two. A tap starts a **chain** `ops[s]`: read my
list (`Read`, `ReadNothing`), edit it (`Edited`, the code of `createFriendRequest...`
and `performAction`), check that a document exists (`CheckExists` writes,
`CheckNone` goes on to `Add`), then the same on the peer's list. `ReadError`,
`CheckError` end a half with the code's own early returns, `ReadTraps` is
`remove(at: 0)` on an empty list, and `Kill` may come anywhere. `shown[u]` is the
friends tab as it was last filled (`Refresh`) and `results[u]` the search (`Search`); a
button acts on these copies, not on the document. `CheckNone` and `Add` are one callback
in the code; they are two steps because other devices' queries do not find the new document
before it has reached the backend. `Buttons` says which buttons a cell
of a status offers. Several chains, of one device or of many, interleave between any
two queries. `asked`, `agreed` and `blocked` are histories of what users pressed. Left out are
search cells whose button is enabled again when the table reuses them, and
`userModel.first!` of a user without a profile (`FriendService.swift:168`).

`SerialSpec` is the same program used one tap at a time on fresh screens; there
`ImplementsFriendship` maps both lists to `Friendship`'s one tie, a chain between its halves
counting by the list it has already written.

### Conversation

`view[v]` is one `MessageViewController`: its rows (copies), its fetch in flight
(`FetchedMine`, then `FetchedTheirs`, which REPLACES the rows), what each of its two
listeners was told. `HearMine` and `HearTheirs` append what was added, tick what was
modified, and mark rows SEEN when something was added, as `newMessageDetected` and
`modifiedMessageDetected` do. `Cover` and `Uncover` are a video preview, which removes
the listeners and registers new ones; a closed view stays alive until its fetch has answered.
One order is assumed of Firestore (`ListenersAhead`): one client answers
listeners and one-shot queries on the same query from one cache and in order, so before the
second query answers, the listeners have told what the first and the second saw. The
assumption is dropped once a cover has replaced the listeners.

### ChatList

`fetches` is a sequence of overlapping chains: messages sent, messages received,
profiles. Identical queries are answered in the order asked (`InTurn`), profiles of
different sets of users are not. `shown` is what the table drew at its last reload and
`chatModels` what a tap is looked up in; they differ after `EditingEnds`. `touched` remembers that
the search bar changed the list after the last fetch. Failed fetches are left out.

### StoryPlayer

`live` is whether `self.timer` runs, `orphans` counts timers that run although
`self.timer` no longer names them, `loading` is the image view's load. `PlayStoryAt`
keeps the code's range test `index == totalStories || index < 0`. A gesture stops
`self.timer` only. A dismissed player is kept alive by its closures, so completions still act.
`HoldCancelled` is a long press that the system takes away: no branch of `longPressed` runs, and the story stays paused. A dismissal while the sheet of viewers is up is left out.

### StoryFeed

`feed`, `mine` and `player` hold copies of stories: id -> viewers when fetched. `View`
writes the player's copy back with one more viewer. The listener is registered by
`Load` on the uids of ALL entries (`Registered`; without a list it is not registered, and an
empty list may be there or not) and removed for good by `Left`; each
report starts both fetches; with no ACCPETED friend the friends' chain ends without calling back.
`Expire` passes a story's 24 hours at any time. Profiles and stories of one fetch are one step;
at most one fetch of one's own stories is tracked (they are all the same query). The upload before `Post` is in `Posts`.

### Account

One device, the services behind it, and any number of chains in flight; a chain
carries what was sent and the present text of its screen's fields, because the code
reads the fields again when answers come. All screens are presented over each other;
`front` tells whether a chain's screen can still present. `SignedIn` and the callback (`Verified`,
`Unverified`) are two steps: Auth sets the current user, and only then calls back.
`AuthChanged` is the home screen's listener, `CoverHome` what removes it. `accepted` is history.
A failed save of Core Data, and the time alerts are on screen, are left out.
`GlobalState.userModel` is written and never read.

### FriendsTab

The rows are `shown[Me]` of `FriendLists`, so a button of this tab starts a chain there.
`Hear` is the listener, and each report starts a fetch: the list (`ListAnswered`; an
empty list empties the table at once), then the profiles of those in it
(`ProfilesAnswered`). Both queries of the list, the listener's and the fetch's, are one
view in Firestore's client, which tells the listener first; so a fetch is answered with what the
listener has told (`Answer`). Identical queries are answered in turn (`InTurn`), profiles
of different users are not, so a fetch may be overtaken by a younger one. `passed` counts the
fetches in flight that were, `rowsFrom` remembers what filled the rows: the newest fetch to
end, an overtaken one, or something else (an error, the search bar). `RowsCatchUp` is about the rows of a
newest fetch; those of an overtaken one stay wrong (`RowsAlwaysCatchUp`, section 5).
Leaving removes the listener, coming back does nothing.
The other users look at their lists whenever they like and tap on fresh screens; this
user taps on whatever the tab shows.

### Bucket, Profile, Posts, Uploads

A file is a name, `[folder, uid, title, ext]`; the time in the name is a constant, so it
tells nothing apart. `files` gives the number of the upload a name holds. A URL is a name
and an upload, and `Opens` only while the name still holds that upload: Storage gives a
new token to a new upload and drops it with the file (external).

`Profile` has one document and the settings page of each device: what it shows, and one
change of each kind under way. A photo goes through `PhotoStages`; both kinds read the
profile and write all of it back. `raced` and `crossed` remember that a change read
between another's read and write, or overlapped another photo.

`Posts` has one slot per post. A picture is uploaded, its URL asked for, and the message
or story saved; a video for a friend gets a thumbnail, made from the URL of the video
(`ThumbnailMade`, or `ThumbnailFailed`, which says nothing), uploaded under the title
with "thumbnail" behind it. `Uploads` interleaves both. A failed request has no effect; the end of the app
is one of the failures, for these chains.

### WriteQueue

One device. `Write` is a `setData` of the app: a task for the worker queue, which also
gets `change` (Auth has another user) and `token` (for a stream). `RunWrite` is
`SyncEngine::WriteMutations`: the write goes to the queue of the current user and, while
there is room, to `pipeline`. A batch is its number, and queues are in the order of their
numbers, so both are sets. `Filled` is `FillWritePipeline`, `Restarted` is
`RestartNetwork`, `Closed` is what `Stream::Close` resets. A token carries `close_count_` as it was
when it was asked for, and `RunStaleToken` drops it if the stream was closed since. Auth
changes its user before the notification reaches Firestore (`AuthChanges`, `Notified`),
possibly several times: the notifications wait for the main queue (`notices`).
A token given in between is of the new user (`early`). Streams that break, refused writes,
network changes and restarts of the app are `Faults`. Tasks called for and not run are
lost with the app, queues are not.

Assumed of the backend (external): it takes the requests of a stream in their order and
answers in that order; requests of a broken stream that it has not taken are lost; it
does not recognise a write it has taken before; it ends a write stream only with an error
(one that ends well with writes unanswered would fail the assertion of
`OnWriteStreamClose`, which relies on this). Stream tokens, the online state, the watch
stream, callbacks to the app and `DisableNetwork`, which the app never calls, are left out.

`ImplementsOutbox` maps what is called for, kept, taken and refused to `Outbox`; streams,
pipelines, tokens and faults are stutters.

## 3 The runs

Sizes and times are those of TLC with two workers.

| run | bounds | states | shows |
|---|---|---|---|
| `FriendLists_overlap` | 2 users, 2 chains at once, 3 taps, 1 error, 1 kill | 441 k | `FriendsByConsent`, `BlockSides`, `RequestsWereMade`, whatever overlaps, fails or dies |
| `FriendLists_serial` | 3 users, 4 taps | 54 k | `ImplementsFriendship`; `Mirrored`; `RemovesOnlyItsRow`, which includes that no app stops |
| `FriendsTab_mine` | 3 users, from empty lists or with one friend, 1 chain, 2 taps (the friendship counts as one), 2 fetches, one of error, leave and search | 407 k | `RowsCatchUp`, `RequestArrives` |
| `Conversation_safe` | 2 views, 2 messages, a cover, an error | 2.9 M | `NoDoubles`, `IncomingShown`, `SeenWasLoaded` |
| `Conversation_live` | 2 views, 2 messages | 105 k | `OpenChatGetsSeen` |
| `ChatList_tab` | 2 friends, 3 messages, 2 fetches, 1 leave, 1 search | 395 k | `ListCatchesUp`, `BadgeAppears` |
| `StoryPlayer_plays` | 3 stories of any kinds, 5 gestures, 1 failure or cancelled press | 9.1 k | `NoStorySkipped`, `OneTimer`, `VideosObeyGestures`, `DismissedVideosStop`, `PlayerMovesOn` |
| `StoryFeed_tab` | 2 users, both post, one watches; 1 story, 2 fetches, 1 leave, 2 plays, 2 changes of friends | 98 k | `ViewersCountedOnce`, `OnlyFriendsView`, `NewStoryAppears` |
| `Account_device` | 2 accounts, 1 chain at a time, 4 taps, one each of error, kill, reset, edit, cover | 838 k | `LateReadsAgree`, `HomeIsRegistered`, `LogoutLeaves`, `SignInEnters` |
| `Uploads_shared` | 2 users, 3 titles, 2 devices, 2 changes or posts, 1 failure | 233 k | `PictureOpens`, `FieldsKept`, `PostsShowTheirs`, `PostIsSaved` |
| `WriteQueue_sends` | 2 users, 3 writes, pipeline of 2, 2 changes of user, 1 fault | 327 k | `NoAssertFails`, `TakenFromItsAuthor`, `ImplementsOutbox`, `EveryWriteLeaves` |
| `FriendLists_lostblock` | 3 users, two of them friends, 2 chains, 2 taps | | violates `OthersLeaveBlockAlone` |

**Why the bounds are enough.** Each is the least at which the hazard happens, and
every property's mutant is killed within them. Two chains show every lost update of
two writers, and three taps a request, its acceptance and one action against either.
With three users an edit can hit the row of somebody else. Two views are two ends of a
chat, or one user's chat closed and opened again. Two changes or posts are the two that meet in a
file or in the profile; the titles are one, that of its thumbnail, and another one. Three writes with a pipeline of two leave one behind it, and two changes of
user are one away and back. Three stories have a first, a middle and a last. Two
fetches give every order of answers. The bounds on errors and kills are ones because
each of them ends its chain. The proofs of section 4 have no bounds.

**What the conditions in the properties say.** Several properties are true only under a condition,
stated in the formula by a counter or a history variable: `NoDoubles` of chats
never covered, `OneTimer` of images only, the `...Video...` properties of videos
only, `LateReadsAgree` before text is edited under a request, `LogoutLeaves` before a
cover, `NewStoryAppears` while friendships stay, `ListCatchesUp` and `BadgeAppears` with the search bar
left alone (`touched`), `RowsCatchUp` of rows from a fetch that no younger one overtook (`rowsFrom`),
`RequestArrives` for a tab that was not left, `PlayerMovesOn` before a failed image or a
cancelled press, `FieldsKept` while no change reads between another's read and write
(`raced`), `PictureOpens` without failures, races and overlapping photos (`crossed`),
`PostsShowTheirs` and `PostIsSaved` of titles nobody else uses for that user (`OwnTitle`),
`TakenFromItsAuthor` while no token was given before the notification (`early`).
The unconditional ones the code does not keep (section 5). Where the condition
is a bound instead, it is one chain at a time (`Account_device`), friends who have all written before
(`ChatList_tab`) and serial use (`FriendLists_serial`).

**Symmetry** is used in safety runs only (users and chains in `FriendLists`, views in
`Conversation`); the runs with liveness have none.

**Fairness.** Firestore, Auth and Storage clients retry until they have an answer, so a
query in flight is answered and a listener that has something to tell is called: weak fairness of
the answer steps. `StoryPlayer` adds that timers run out, that a finger is
lifted and that the sheet of viewers is closed. `WriteQueue` has the worker queue, which
runs what it holds; Auth, which notifies and gives tokens; the backend, which
completes handshakes, takes what was sent and answers; and the backoff timer, each under weak fairness of
its own, because none waits for another. Faults are bounded, never fair. No user is ever obliged to tap,
come back, open or follow a link.

**Deadlock** is checked in `FriendLists_overlap`, where a screen can always be filled
again. Elsewhere a finished behaviour really stops: a dismissed player, a conversation
with both chats closed, a home screen whose listener is gone, queues that are empty.

## 4 What is proved

For all values of the constants (the bounds included):

- `FriendListsProofs`: `TypeCorrect`, `ConsentHolds`, `BlockSidesHold`, `RequestsHold`.
  The four properties speak of documents only, and a document is written from a copy
  a chain made earlier, after a tap on a row copied earlier still. So the inductive
  invariant says of EVERY copy of an entry (`StoreOK` in documents, `ChainsOK` in chains,
  `ShownOK` on screens) that what the two users pressed accounts for it
  (`EntryOK`), and of every chain that its tap accounts for what it will write on
  either side. Unblocking turns UNBLOCK and BLOCKED into ACCPETED, so `BlocksOK` adds
  that whoever was blocked had been a friend. Histories only grow, so copies stay
  justified however stale they are (`StaysOK`). The lemmas are about the edits
  (`PerformActionRows`, `EditedOK`), and about one slot or one document changing;
  `StepIInv` has one step per action.
- Serial use, in the same module: `SharedFact` (the refinement of `Friendship`), `MirrorHolds` and
  `RemovalHolds`, of `SerialSpec` while no query fails (`MaxErrors = 0`; a half that
  fails leaves the two lists of a pair apart, so this is not a matter of the proof). A list
  with one row per user is a map from users to statuses (`Standing`); the lemmas
  `Appended`, `Removed` and `Restated` say that each edit changes that map at one
  user (`Changes`). `Offers` and `Makes` are what a button asks for and what it
  makes, on either side (`TwoHalves`). The invariant `SInv` says that a chain alone
  was tapped on a row that is still there, and works on a list that is still what it read
  (`ChainGood`), and that all other pairs mirror each other (`PairsOK`). Then every
  step is `Faithful`: the write of the first half is the abstract button
  (`FirstHalf`, `ButtonDoes`), that of the second a stutter (`SecondHalf`), and
  everything else writes nothing. `TiesAgree` says that the abstract ties of a pair
  never differ, so that what is implemented is worth having, and `ListsAgree` carries it
  over to the lists. `Faithful` also says whose chain changes a row, which gives
  `RemovalHolds` and `SerialUseKeepsBlocks`: the blocks that a third user's request
  (`FriendLists_lostblock`) or the blocker's own request to a third user undoes take
  chains that overlap. Since no entry is of the list's
  owner, whatever overlaps (`NobodyBefriendsHimself`), the two halves of a chain are always about two lists.
- The friends tab, in the same module. Its rows are older than any list, so what the
  theorems above say of `Spec` has to be said anew of `TabSpec`: `TabOK` claims of the
  snapshot the listener told, of every fetch in flight and of the search buffer what `IInv`
  claims of a screen, and `TabInvariant` and `TabKeepsPromises` follow.
  `RowsCatchUp` (`RowsCatchUpHolds`, for any users and any number of fetches, errors,
  leaves and searches) needs `LastOK` besides: the last fetch of a listening tab waits for
  the list or carries what the listener last told. When it ends it has overtaken all
  others, and what it leaves is what was told; from then until the next report the
  fetches in flight are all overtaken, and each that ends says so in `rowsFrom`. So rows that
  are from a newest fetch, once nothing is in flight, are those that the last one left.
- `ConversationProofs`: `ConversationTypes`, `NothingIncomingIsLost`,
  `FetchAndListenersDoNotDouble`, `SeenMeansLoaded`, for any number of views, messages,
  covers and failed queries. The invariant speaks of one view at a time (`ViewInv`), at
  every stage of its fetch. What the listener of the friend's messages told is always on
  the screen: the second answer, which replaces the rows, holds all of the friend's
  messages. While no preview ever covered an open chat, its rows are distinct and
  everything in them was told, so that what a listener reports next is new to them;
  the fetch keeps this because the listeners are ahead of it (`ListenersAhead`).
  `SeenLoaded` adds that a SEEN message stays in a view of its receiver: rows of the
  friend are replaced, never lost. A longer collection disturbs none of this (`Grows`,
  `StaysRight`). That the rows are a sorted copy of a set without loss or doubles is
  `ByDateIsOrder`: the rank of a row is a bijection onto the places.
- `ChatListProofs`: `CatchesUp` and `SortedByLatest` between friends who have all written
  (`Known = Friends`), `CatchesUpInOrder` for any friends, provided `ProfilesInOrder`.
  Messages are added and become seen, nothing else, so what was read at two
  times is ordered (`Before`). The last fetch in flight knows at each stage at least what the
  listeners have told (`LastCovers`): what it asks for is asked after that. No later fetch
  has come further than an older one (`StagesFall`), so when the last one ends none is left, and
  the list is then of a time between what was told and now (`Drawn`); settled, both are
  the same. When all have written, every fetch finds all of them (`KnownFound`), asks for
  the same profiles, and is answered in turn. `LatestFirstIsOrder` says of the sorting that
  everybody with messages has one row and that no row is above one with a later message.
- `StoryPlayerProofs`: `TypeCorrect` and `AllStoriesViewed` from `TypeOK /\
  NoStorySkipped` (a story is played only from a neighbour that was reported);
  `ImagesOneTimer` from `ImageInv` (a load and a timer exclude each other);
  `VideosObey` and `VideosStayDismissed` from `VideoInv` (the only
  timer runs only while a story is playing).
- `AccountProofs`: `AccountTypes` for any number of chains; `LateReadsHold` and
  `HomeHolds` for one chain at a time (`OneChain`; with two both are false,
  section 5). Answers come long after the tap, so
  a chain is safe only if what it reads late is still what it set: the invariant says
  of a chain in flight which of its typed text, e-mail, user ID and current user agree
  (`ChainAgrees`), and that nobody is at home while it flies, so that neither the log
  out nor the automatic login changes the current user under it. `Shape` adds to the types
  that a chain in front is of the screen that is, and that a prompt has a
  credential to send.
- `StoryFeedProofs`: `FeedTypes`, `CountedOnce`, `FriendsView`. The views of a story
  are overwritten by a copy of any age, so `IInv` claims of every copy on every
  device, in both lists and in an open player, what is claimed of the collection
  (`GoodViewers`), and that the device's user may open it (`MayOpen`). Stories are
  never removed, they keep their owners and friendships are not forgotten (`Grows`), so what
  was good stays good (`StaysGood`), and one viewer more is good too (`OneMoreViewer`).
- `UploadsProofs`: `PictureStaysOpen`, `NothingLost`, `PostsKeepTheirs`, for any number of
  devices, posts, titles and users. The argument is about names: a request puts or
  removes one, and every other is `Kept`. All pictures of the profile have one name,
  in a folder that no post writes to, so only a change of photo touches it, and
  `PictureAt` says for each of its stages what the file and its URL are.
  `RaceOK`: until a read falls between another's read and write at most one copy of the
  profile waits to be written back, and it is the profile. A post whose names nobody
  else has finds at each stage what the one before left (`PostAt`); whether it is
  alone is decided anew whenever another post starts.
- `WriteQueueProofs`: `WriteTypes`, `AssertsHold`, `WritesHaveTheirAuthor` and
  `WriteQueueImplementsOutbox`. The sets of the model stand for sequences in the order of
  their numbers, so the invariant says where each write is. `PipelineIsFirst`: the
  pipeline is the front of the current user's queue, without gaps, which makes
  "the next batches after the last one" the right ones and the first answer the
  oldest write. `SentIsPipeline`: on a stream that shook hands, everything of the
  pipeline is sent, and what the backend has taken is the front of that.
  `StreamAgrees`: the state, the token, the timer and the handshake fit together.
  `AskedOnce`, `TokenOnce`: at most one request and one token carry the present
  `close_count_`, and only a starting stream waits for it; this is what makes dropping
  stale tokens enough. `TokenOfUser` and `WriteOfUser`: a task in the worker queue is
  of the user who will be current when it runs, for a write always, for a current
  token unless `early`; the user "who will be" is that of the last change before it
  (`Becomes`). `WritesInOrder`: writes still to run have greater numbers than
  all that are kept. With these a step of `WriteQueue` is a step of `Outbox` or a
  stutter: `Forget` when the app restarts, `Call`, `Keep`, `Take`, `Acknowledge` and
  `Refuse` for the actions of those names, and nothing else.

The assumptions are those of the modules on their constants: document ids are positive
numbers, bounds are natural numbers, there is at least one story and a kind for it, a
pipeline holds at least one write, and nobody is nobody (`NoUser`).

`CatchesUp` assumes what its run does (friends who have all written); without that the
property is false (section 5), and `CatchesUpInOrder` says that answers about profiles out of
order (`ProfilesInOrder`) are the only reason.
`MaxErrors = 0` is assumed where `SerialSpec` is.

Every safety property of the passing runs is thereby proved. Only model-checked is all
liveness (fairness and `ENABLED` are beyond the prover): `RequestArrives`,
`OpenChatGetsSeen`, `BadgeAppears`, `PlayerMovesOn`, `NewStoryAppears`, `LogoutLeaves`,
`SignInEnters`, `PostIsSaved` and `EveryWriteLeaves`.

## 5 Where documents and code disagree

One run, `FriendLists_lostblock`, shows a plain expectation that the code does not
keep: ann and bob are friends, cho requests ann's friendship, her chain reads ann's
list, ann blocks bob, and cho's chain writes ann's list back as it was, with the request
(`createFriendRequestForFriend`, `FriendService.swift:136`): the block is gone.
`OthersLeaveBlockAlone` allows it to the blocker's own taps; they do the same, as the first
row of the table says.

These further ones are stated in the modules, below the properties that hold, and TLC
finds them violated at the instance given (others of the module's bounds 0, or as in the
module's run):

| property | instance | what happens |
|---|---|---|
| `FriendLists!OtherPairsLeaveBlockAlone` | as `FriendLists_lostblock` | a user's own request to a third one, tapped just before Block, puts his list back without the block (`FriendService.swift:40`) |
| `FriendLists!RemovesOnlyItsRow`, `NeverTraps` under `Spec` | 3 users, 1 chain, 4 taps | a button on an outdated row cancels index 0: somebody else's row, or a trap on the empty list |
| `Conversation!TicksUpToDate` | 2 views, 1 message | a SEEN heard between the two queries is overwritten by the first, older answer |
| `Conversation!OwnMessagesShown` | 2 views, 1 message | a message sent between the two queries vanishes from its sender's chat |
| `Conversation!SeenOnScreen` | 2 views, 1 message | a fetch that answers after the chat was closed marks messages SEEN |
| `StoryPlayer!HeldMeansPaused` | 2 stories, 2 gestures | an image that loads under the finger starts its timer (`src/README.md:61`: "User can pause the story by holding the screen") |
| `StoryPlayer!NeverTraps` | 2 stories, 3 gestures | two timers step over the `==` of the range test |
| `StoryPlayer!DismissedStaysDismissed` | 2 stories, 3 gestures | an image that loads after the dismissal plays on and reports views |
| `StoryFeed!FrontTabCatchesUp` (`FairSpec`) | 2 users, 1 story, 1 fetch, 1 leave | the listener does not survive the first leave |
| `StoryFeed!ViewsKept` | 2 watchers of one story | the second of two views is written over the first (`src/README.md:61`) |
| `StoryFeed!ExpiredUnseen` | the same, 1 play | expiry is tested when stories are fetched, not when one is opened |
| `Account!LoginIsRemembered` | 2 accounts, 1 chain, 5 taps | a stored credential is never replaced |
| `Account!LogoutAlwaysLeaves` | 1 account, 1 cover | the auth listener went with the first full-screen cover (`src/README.md:78`) |
| `Account!LateReadsAgree` | 2 accounts, 2 chains, 4 taps | the first of two sign-ups writes its profile under the user of the second |
| `Account!HomeIsRegistered` | 2 accounts, 2 chains, 4 taps | the later of two sign-ins makes an unverified user that of the home screen |
| `ChatList!ListCatchesUp` | `Known = {ann}`, 3 messages, 3 fetches | fetches that ask for different profiles are answered out of order |
| `ChatList!AllChatsShown` | 2 friends, 2 messages, 1 search | clearing the text puts back a buffer that was never filled |
| `ChatList!RowOpensItsChat` | the same | the end of editing changes the list but not the table |
| `FriendsTab!RowsAlwaysCatchUp` | as the run, or 2 users, 2 taps, 2 fetches | a fetch that waits for profiles is overtaken, and ends last: by one of other profiles, or, with 2 users, by the empty list, which is shown at once |
| `FriendsTab!FrontTabCatchesUp` | 2 users, 1 chain, 2 taps, 2 fetches, 1 leave | the listener does not survive the first leave |
| `FriendLists!NeverTraps` in `FriendsTab` | 2 users, 1 chain, 3 taps | Cancel, tapped again before the rows have changed, removes from an empty list |
| `Uploads!PictureCanChange` | 1 change, 1 failure | the upload fails after the old photo was deleted; from then on the delete fails first, and no photo can be set again |
| `Uploads!NoFieldLost` | 2 changes | name and photo changed at once: the later write restores the older field, a dead URL included |
| `Uploads!EveryPostShowsItsOwn` | 2 posts | a second post of that title replaces the file of the first |
| `Uploads!NoPostEndsSilently` | 1 post, 1 failure, or 2 posts of one title | a thumbnail that cannot be made is printed to the console |
| `WriteQueue!AlwaysFromItsAuthor` | 1 write, 1 change | Auth gives the token of its new user to a stream over the old user's queue |
| `WriteQueue!NeverGoesBack` | 2 writes, 1 fault | what the backend has taken from a broken stream is sent again after a later write |

`LateReadsAgree` fails in the same way without its condition: text typed under a
sign-in is what gets stored. That every registered account has a profile fails with one
failed request, which strands the account for good.

## 6 Not modelled

- **Compose**: a list of friends fetched once, without a listener; its search bar is the
  code of `ChatViewController`, which `ChatList` models, and a tap on a row opens
  `Conversation`.
- **Password reset** from the settings page: one mail, no state of the app.
- **Cells and previews**: layout and playback without state of their own.
- **Application delegates, Core Data classes**: generated. The one stored credential is
  a variable of `Account`.
- **Pods**: vendored. Firestore's write path is modelled from its source, because the
  order and the author of every write rest on it; the order in which its client answers
  queries and listeners is mapped to its event manager and query API. Its backend, Storage, Auth and the
  image loader are modelled from their use, where the map says `external`. Most of their
  code (TLS, gRPC, LevelDB, image formats) decides nothing that the properties tell apart.
- The limit of ten values of an `in` query, encodings, date formats, validation of
  fields: outside what the properties tell apart, or beyond an instance TLC can hold.

## 7 Plan

Done: the modules of section 2, in the order friend lists (core), conversation, player,
feed, account, chats, friends tab, uploads, write path; the runs of section 3; the proofs
of section 4.

Left, by worth:

1. `Conversation`: an abstract chat log (each end shows a subset, only grows), to
   be implemented when listeners are ahead and nothing is covered.
2. `WriteQueue` under the app: `FriendLists` over queues that are late, so that a
   read does not see another device's writes in the order of the taps.
3. The dismissal under the viewers sheet, in `StoryPlayer`; `Compose`.

Proofs: the safety of every module that the prover can reach is proved (section 4). What
the items above add would be proved with them.
