# A TLA+ model of the blue-book backend

blue-book is a small social network: an HTTP server (Go, chi) whose handlers
run SQL (sqlc, pgx) against one PostgreSQL database. The server keeps no state
of its own between calls: every hard question about it is a question about
transactions of concurrent requests on shared rows. The modules in this
directory model those transactions statement by statement, check them with TLC
and prove the most important results with TLAPS.

Paths below are relative to `src/` of the repository.

## 1. The system

| Component | Code | State | Operations | What makes it correct |
|---|---|---|---|---|
| Store | `internal/db/store.go`, `sqlc/schema.sql` | all tables; row locks of PostgreSQL | `ExecTx` | a failed transaction leaves nothing behind and gives its locks back |
| Likes | `internal/api/like.go`, `sqlc/query/like.sql` | `likes`, `like_count` of posts and comments, `notifications` | LikePost, UnlikePost, LikeComment, UnlikeComment | counters equal rows, the response shows one's own vote, an acknowledged like stays |
| Comments | `internal/api/comment.go` | `comments`, `posts.comment_count`, `notifications` | Create, Delete | no dangling reply, counter equals rows |
| Collections and folders | `internal/api/collection.go` | `collections`, `collection_folders`, `posts.collect_count` | Collect, Uncollect, Create/Update/DeleteFolder | counter equals rows, a collection is in a folder of its owner |
| Posts | `internal/api/post.go` | `posts`, `post_media`, `post_tags`, `tags` | Create, Update, Delete | media and tags of one update, deletion takes everything along |
| View counter | `internal/api/post.go` (GetByID) | `posts.view_count` | IncrementViewCount | a view is counted once, and shown from the next on |
| Notifications | `internal/api/notification.go` | `notifications` | created by other handlers; MarkRead, MarkAllRead | point at rows that exist, are read once |
| Follows | `internal/api/follow.go` | `follows`, `notifications` | Follow, Unfollow | one row, one notification |
| Accounts, sessions, API keys | `internal/api/user.go`, `internal/pkg/jwt` | `users`, `user_sessions`, `api_keys` | Register, Login, Refresh, Logout, ChangePassword, keys | a session that was ended stays ended |
| Search | `internal/api/discovery.go` | `search_terms`, `search_history` | Search, Suggestions, DeleteHistory | terms count every search, the history is in the order of the searches, cleared history is gone |
| Tags and topics | `internal/api/discovery.go` | `tags`, `topics` | CreateTag; lists | a name is one tag |
| Feeds | `internal/api/post.go` | none | pages by cursor | no post skipped or repeated |
| Lists | `internal/api/post.go` (Pagination) and seventeen lists of six handlers | none | pages by number, viewer states | what repeats or is missed has a reason; a mark is shown at its own row |
| Media | `internal/api/media.go`, `internal/pkg/media/media.go` | object storage, `post_media` | Presign, ImageDimensions, CDNURL, ObjectKeyFromURL | the object meant is the object read, with its size |
| Seeder | `internal/seed`, `cmd/seed` | all tables, an SQL file | Run, ExportSQL | counters and references fit the rows |
| Command line client | `cmd/bluebook` | none | one request per command; media upload | |
| Profiles, rendering, wiring | `internal/api/user.go`, `internal/pkg/render`, `cmd/main.go` | none | reads | |

The components interact through rows only. A like of a comment locks the
comment's row; a deletion of the post must delete that comment by
`ON DELETE CASCADE`; a comment needs the row of its post and of its parent to
exist at the moment of the INSERT, which PostgreSQL ensures with a key-share
lock. There are no callbacks, queues or background jobs. Two things besides the
server write: the object storage, to which clients upload with presigned URLs
while posts refer to the objects, and the seeder, which may run on the
database of a running server, as may the SQL file it exports.

What is hard: handlers take several statements, and at READ COMMITTED other
requests commit between any two of them; some handlers read outside the
transaction they then run; statements wait for row locks, in different orders;
`middleware.Timeout` cancels a request anywhere, the commit included;
counters are kept next to the rows they count. `PROJECT.json` lists these
hazards one by one, at their lines, with the properties that cover them.

## 2. Modules

| Module | Models |
|---|---|
| `Store` | tables, row locks, and the life of a request in `ExecTx` |
| `Likes` | the four like handlers |
| `Comments` | creating and deleting comments |
| `Collections` | Collect, Uncollect, DeleteFolder |
| `Engagement` | deleting a post, the composition of all of these, every property |
| `Reactions` | abstract: users mark items, each once, and the tally moves with the mark |
| `EngagementMC` | small instances for TLC |
| `EngagementProofs` | theorems about `Engagement`, its refinement of `Reactions` included |
| `Feed`, `FeedMC` | feeds walked by cursor; instance |
| `Pages`, `PagesMC` | the seventeen lists read by page number, with their viewer states and the widths of the integers; instance |
| `ListsProofs` | theorems about `Feed` and `Pages`; since it extends both, `Feed` says `FeedSpec`, `FeedTypeOK` where the others say `Spec`, `TypeOK` |
| `Inbox`, `InboxMC`, `InboxProofs` | everything that locks rows of notifications: Follow, Unfollow, MarkRead, MarkAllRead, and the deletions of posts and comments with their cascades; instance; theorems |
| `Accounts`, `AccountsMC`, `AccountsProofs` | users, sessions and API keys; instance; theorems |
| `Writes`, `WritesMC`, `WritesProofs` | Create, Update and Delete of posts with media and tags, CreateTag; instance; theorems |
| `Searches`, `SearchesMC`, `SearchesProofs` | Search, Suggestions and DeleteHistory; instance; theorems |
| `Uploads`, `UploadsMC`, `UploadsProofs` | uploads, the media of a post from key to size to URL and back, the view counter; instance; theorems |
| `Seeding`, `SeedingMC`, `SeedingProofs` | the seeder, its exported file and the import, beside visitors of the server; instance; theorems |

`Likes`, `Comments` and `Collections` extend `Store`; `Engagement` extends the
three, and instantiates `Reactions` twice. The other eight components share no
rows with them whose interplay the properties need, and are modules of their
own: `Writes` covers the part of a post that `Engagement` leaves out (content,
media, tags), `Inbox` the notifications of follows, and the locks on all
notifications: a deletion is in both modules, in `Engagement` with what it does to
comments, collections and counters, in `Inbox` with the rows of notifications it
deletes one by one. Their modules say what
they do; the end of this section says how they correspond to the code.

### State (Engagement)

Tables are sets and functions: `posts`, `comments`, `folders` are the live
rows; `likes` and `collections` are sets of pairs `<<user, target>>`; `filed`
is `collections.folder_id`; `like_count`, `collect_count`, `comment_count` are
the counter columns; `notifications` is a set of records. Identities are
UUIDs in the code, so no row is created twice: a comment or notification that
request `r` writes is named `r`, and the columns of a comment, which never
change, are read from the request that wrote it (`Comment`). A UUID is either
a post's or a comment's, so `target_type` is implied by the target.

A request is one HTTP call. `pc[r]` is the statement it runs next, `job[r]`
its input, `answer[r]` how it was answered. What its open transaction has
written is not in the tables yet: `work[r]` keeps the rows-affected count, the
new counter value, what the response will show and whether a notification was
inserted; `locks` keeps the row locks. The commit applies all of it in one
step; `Rollback` forgets it. This is what READ COMMITTED lets others see. A
counter's new value can be computed when the row lock is granted, because no
one else can change the row before the commit.

### Locks (Engagement)

Three lock modes are enough: `ForUpdate` (DELETE; also the wait of an INSERT
for an uncommitted row of the same key), `NoKeyUpdate` (UPDATE of a counter or
of `folder_id`), `KeyShare` (a foreign-key check). `Acquire` lets a statement
proceed once it gets all its locks, and it then sees the last committed
version of the row. Cascades take their locks row by row, in any order. A cycle of
waiting transactions (`OnCycle`) is broken by `DeadlockVictim`, PostgreSQL's
detector, which the handlers answer with 500.

### Steps and failures (Engagement)

Each statement of a handler is one action, named for it; consecutive reads of
columns that never change are one action (`LookupThread`). A handler that
finds no row rolls back and answers 404, and so on through its early returns.
Two failures are modelled beyond those: `Timeout` lets any request fail at any
statement, and a commit may take effect although the client is told 500
(`Committed`, `CommitComment`). After Create has committed, `LoadAuthor` may
still fail: the comment exists and the answer is 500.

`RecalculatePostCommentCount` is two actions. The subquery counts in the
snapshot with which the UPDATE began (`SnapshotCount`); the row lock may have
to be waited for (`RecountComments`), after which PostgreSQL rechecks the row
and does not count again.

A client starts a call only with posts, comments and folders it can see;
they may be gone by the time the statements run.

### The other components

**Feed.** One client walks a feed: `FirstPage` asks for a first page,
`ReadPage` is `parseFeedCursor` with the list query (`LIMIT n + 1`),
`SendPage` is `newCursorPageResponse`, `LosePage` any failure after the query.
`created_at` is `NOW()` at the start of the creating transaction, so `Publish`
may make visible a post that is older than what the client has already seen,
and posts may share a `created_at`. `remained` is what the list has contained
ever since the walk began; no code keeps it, the properties are about it.

**Pages.** `Pagination` and `newPageResponse` computed with Go's `int` and the
queries' `int32`, which wrap at `IntHalf` and `Int32Half` (`Signed`). A handler
is the sequence of its statements (`Calls`): the row that must exist
(`LookupFolder`, 404), the page (`ReadRows`), the count (`CountRows`) and the
viewer's states (`ApplyViewerStates`), or a count for each row (`CountEach`),
each in a later snapshot than the one before; any of them may fail. What sets
the lists apart is how rows that stay can change places: not at all when the
order is by a creation time, upwards only in the lists of searches, both ways
in recommendations and search results; and whether the count finds rows the
page joins away (`ListLikedPosts` with likes of deleted posts). Two kinds of
client: one that walks until it has had the total, one that asks for any page.

**Inbox.** A request of Follow or Unfollow is a transaction of up to six
statements; what it has changed is in its record (`wrote`, `note`) until
`Commit`. A key that is being inserted or deleted makes others wait
(`Unlocked`); an unfollow does not see a row that is still being inserted.
MarkAllRead is one UPDATE but three actions: the rows of its snapshot
(`ScanUnread`), each of them locked and rechecked in any order (`VisitRow`),
and the end of the scan (`AllVisited`), because other marks commit in between.
A deletion (`DeleteItem`) goes row by row too, to whatever refers to a row it has
deleted: the comments of a post, the replies of a comment, the notifications of
either. It and a mark wait for each other's rows (`HoldsRow`); a row that was
deleted meanwhile is passed over. The deletion of a comment then waits for the post's
row (`RecountComments`) and holds it until it commits. The notifications of likes
and comments stand at the beginning (`Told`, with what they refer to in `Refers`).
`undone` counts how often a follow was taken back; no code keeps it.

**Writes.** Of what a write stores only its origin is kept: `title[p]`,
`media[p]` name the requests. `ReadImages` stands for the image headers, read
before the transaction. Create and Update lock the post (`WritePost`) and then
media and tags; Delete scans the media (`ScanMedia`), deletes what is left of
its snapshot (`DeleteMedia`) and only then locks the post. A tag's row stays
locked from its upsert to the end (`UpsertTag`), hence the importance of the
order in which clients list tags. `normalizePostTags` is `NormalTags` on
spellings that trim and fold to names.

**Accounts.** `Register` and `UpdateProfile` enter a username
(`EnterName`), which waits while another transaction is entering or giving up
the same name (`NameInDoubt`), then commit the user (`CommitUser`); Register
creates its session in a second transaction. `Login` compares the password
before it creates a session; `Refresh` looks its session up, then revokes it
(`RevokeSession`, whose row count nobody looks at) and creates another in one
transaction. `Logout` and `ChangePassword` revoke row by row as MarkAllRead
does (`ScanSessions`, `RevokeRow`, `AllRevoked`). A rename changes a key of
the user's row and so waits for, and blocks, foreign keys that refer to it
(`Renames`, `RefersTo`). Key operations are single statements; a call with a
key is `LookupKey` and `TouchAPIKey`. Passwords and tokens are named after the
request that made them; expiry is a lookup that fails; `before` remembers the
sessions of the user when a call came in, for the properties only.

**Searches.** Search runs two statements before it reads: `RecordSearchTerm`
(an upsert that adds 1) and, for a caller who is signed in, `AddSearchHistory`
(an upsert that sets `searched_at` to `NOW()`). Each is two actions: the
statement begins, which fixes `NOW()` and its snapshot (`Issue`), and takes
effect. Either may be lost: the error is logged and the search goes on.
DeleteHistory deletes the rows of its snapshot that still exist. `writer`,
`recorded` and the field `prior` (calls answered before this one came in) are
for the properties.

**Uploads.** The object storage is a function from keys to files; a file has a
length, the length of the prefix that holds its header, and a size, in units
of 64 KiB. `ImageDimensions` is one range request, repeated with four times as
many bytes. A reference is a key or an absolute URL, as a path of segments,
because that is what `ObjectKeyFromURL` and `CDNURL` work on. A PUT is two steps:
its signature is checked when it begins (`BeginPut`), and the object is there when
all of it has arrived (`LandPut`), by when the URL may have expired. `StartEdit` is a
client that sends back what GetByID has shown it. `means` says which object the
client had in mind, `landed` how many PUTs have landed on an object, and `seen` how
many of them had when its header was read; no code keeps them.

**Seeding.** `Run` statement by statement: the truncations (`TRUNCATE ...
CASCADE` also empties the tables that refer to the one named), users, cards,
posts with media, comments, likes with their counters, follows, and the
exported file, which holds what `Run` collected. `Abort` is any error.
`ImportPart` is one `INSERT` of the file: foreign keys are off, and
`ON CONFLICT (id)` does not excuse a username that another id has. Visitors
register, like, unlike and delete, each atomically. `visits` and `mishaps` are
for the properties.

In Inbox, Writes and Accounts, a request is made once, so the record of an answered request
is its history; who holds what and who waits for whom is read off the records.

## 3. Runs

Users alice (author of the post and of the reply `c2`) and bob (author of
`c1`, owner of the folder, who already likes and collects the post) in module
`EngagementMC`. Requests are interchangeable, hence the symmetry set; it is
left out of the liveness run.

| Run | Distinct states | Requests | Question |
|---|---|---|---|
| `threads` | 894,459 | 3: comments, replies, deletions, comment likes | threads, notifications, deletions; where the comment counter drifts (posts and comments only, no folders) |
| `everything` | 793,500 | 3: all ten operations | counters of likes and collections, responses, acknowledged likes, folders and their deletion; likes and collections implement `Reactions`; every deadlock over these rows involves a post's deletion |
| `answered` | 22,770 | 2, with fairness | every request is answered |
| `recount` | violation | 2 | the comment counter is *not* exact once comments are deleted |
| `feeds` | 181,644 | `FeedMC`: 4 posts of 2 authors, two with one `created_at`; page sizes 1 and 2 | nothing shown twice, nothing skipped |
| `pages` | 1,509,310 | `PagesMC`: 3 rows, two of them marked, int of 4 bits, int32 of 3 | what repeats or is missed, and why; the page number; marks |
| `inbox` | 192,411 | `InboxMC`: one of ann, two of ben, who follow each other; ben's comment on ann's post, liked by ann and by cat | notifications match follows; reads; deadlocks over notifications; every request answered |
| `accounts` | 352,377 | `AccountsMC`: three calls by ann (two sessions, a key) and whoever registers; two names | unique names; sessions and keys end when they should, once; deadlocks; every call answered |
| `writes` | 131,593 | `WritesMC`: two of ann, the author, one of ben; two tags in two orders | a post is one write; deadlocks; every write answered |
| `search` | 2,952,295 | `SearchesMC`: 3 calls by ann or nobody; two keywords, one of them spelt in upper case, and a blank | terms, history, clearing |
| `seeding` | 4,268,633 | `SeedingMC`: two seedings of two users and a post, one import, two visitors' requests | counters; rows that refer to none |
| `uploads` | 3,365,386 | `UploadsMC`: three calls, one uploaded object, one card, four files, at most two PUTs | the object read, its size; views |

Bounds of the `Engagement` runs: one or two posts (with the comments a run needs), two
users, two or three calls. Each hazard is a race of two or three calls about
one row and its children; three calls give every pair a third one that undoes,
deletes or follows. A counter never exceeds the number of rows, so nothing is
cut off by a guard: the only bound is the number of requests. The runs end in
states where all requests are answered; `Quiet` lets the server wait there, so
deadlock checking stays on and would report a request that can never move.

Bounds of the others. `feeds`: four posts make up to four pages, so a walk can
lose the post its cursor names, gain one above and one below, and meet the
tie, in any order. `pages`: with 4 and 3 bits the offset overflows the query's
integer and Go's own for pages that the enumeration reaches; the
relation of widths (the code's are 64 and 32) matters, their size does not.
Three rows make three pages of one row: one already shown, one on its way, one
to come; any of them may be deleted, leave, come back or change places. Two
rows are marked, so that marks which slip by one place show.
`inbox`, `writes` and `accounts`: three calls again, two of them by one user; in
`inbox` two notifications of one user hang on a comment and its post, so that a
mark and a cascade can take them in opposite orders;
in `accounts` they are numbered as they come in (it makes no difference which
of three calls is called 1), and a second user is one who registers. In these
clients may do all calls in all orders, and each call is made once, so the
system stops when all are answered (`CHECK_DEADLOCK FALSE`);
`EveryRequestAnswered`, `EveryWriteAnswered` and `EveryCallAnswered` take
over from the deadlock
check, since a request that can never move is never answered.
`search`: three calls, so that two searches overlap while a third one, or a
deletion, comes before, between or after; one user suffices because rows of two
users never meet. `seeding`: the first seeding draws up to two comments (one
may answer the other) and a like, the second a like, each a follow; two visits
are enough to vote twice, to take a username, or to vote for and delete a post.
A file is imported once. `uploads`: the files have a header that fits the
first range, ends with the last byte of the last one, ends just behind it, or
none; two PUTs (`MaxPuts`) are enough for one to land before and one after a header
is read, before and after the URL expires; `Base` is the bucket's path, as when
`CDN_BASE_URL` points at the bucket. In these three nothing obliges anyone to
go on, so the system may stop.

### The properties

* `LikeCountExact`, `CollectCountExact`: a counter of a live row equals its
  rows in every state between two statements. `CommentCountExact` says so of
  comments and fails (below); `DriftOnlyByRecount` shows that nothing but the
  commit of a comment's deletion ever moves counter and rows apart.
* `OwnVoteShown`: flag and count in the response, though read by two
  statements while others vote, are those the commit establishes.
* `AckedLikeKept`: a like answered with success stays unless its user takes
  it back.
* `ThreadIntegrity`, `FiledInOwnFolder`: comments, notifications, folders and
  what they refer to exist and belong together, though the handlers check this
  in statements before the one that writes.
* `DeletedMeansGone`: an acknowledged deletion removed everything that hangs
  on the row, including what was being attached to it: posts and comments in the
  run `threads`, folders in `everything`.
* `DeadlockNeedsPostDeletion`: the other handlers of `Engagement`, among themselves,
  never deadlock over posts, comments, likes, collections and folders. It says
  nothing of the rows of notifications, which are next.
* `VotesAreReactions`: refinement of `Reactions`, once for likes and once for
  collections: a vote is one atomic step that moves mark and tally together.
* `EveryRequestAnswered`: liveness.
* `NewestFirst`, `NothingSkipped`: every page is older than all pages before
  it, and a walk that ends has shown every post that was in the list all the
  time, whatever is published late, deleted, followed or lost.
* `RepeatNeedsArrival`, `MissNeedsDeparture`: by page number neither holds, and
  these say when it may fail: a row repeats only if one arrived or moved, is missed
  only if one left or sank; in the lists of searches, whose keywords only rise, a search never
  hides another. `PageAnswered`: within the query's integer, the page asked for
  is the page answered. `MarksOfOwnRow`: the states read after the page mark the
  rows they belong to, whatever was deleted in between.
* `NoticesMatchFollows`: a user has had as many notifications of another as
  there were follows, however the calls race. `ReadOnceByRecipient`, `AllReadMeansRead`:
  the time of reading is set once and by the recipient; after MarkAllRead
  nothing is unread that was when it began, also if another request was
  marking it, unless it was deleted. `DeadlockNeedsScans`: requests that wait for
  each other include two MarkAllRead of one user; or a MarkAllRead and a deletion
  that has a notification of its caller, as one of each is enough; or the deletion
  of a post and another deletion. Follows, single marks, the marks of different
  users and deletions of comments alone never deadlock here. With
  `DeadlockNeedsPostDeletion` this gives, by an argument that no run checks:
  MarkAllRead waits for nothing but notifications of its own user, and what it
  holds nobody else wants but marks of that user and deletions. Hence a cycle through it has another MarkAllRead of its user or a
  deletion on it, and a cycle without MarkAllRead has the deletion of a post.
* `NamesUnique`: although only an index keeps two calls apart.
  `RefreshReplaces`: a session and the one it was refreshed into are never
  active together. `AllSessionsEnded`: an acknowledged Logout, or a password
  in force, means that all sessions from before that call are ended.
  `EndedOnceByOwner`: sessions and keys end once, by their own user, and no key
  is touched afterwards.
  `DeadlockNeedsTwoOfAKind`: two calls that end all sessions, or two renames.
* `PostIsOneWrite`: title, media and tags of a post come from one request of
  its owner. `DeadlockNeedsTagOrder`: a deadlock needs a deletion, or tag lists that no
  common order explains; sorting the tags would leave only the former.
* `TermCountExact`: no search that was recorded is lost from `search_count`.
  `NewestSearchFirst`: the history has a search above one that was answered
  before it began, unless that one was searched again, or an overlapping search
  of the same keyword set the entry back: it took its `NOW()` before it got the
  row. `ClearedStaysCleared`: DeleteHistory leaves only what a search wrote that
  had not been answered when the deletion was asked for.
* `MeantObjectIsRead`: an image is stored under the key of the object its client
  meant, whether named by key, by a card's URL or by the URL GetByID showed,
  and is refused only for a reason in that object, the store or the CDN's base.
  `SizeWrongNeedsPut`: width and height of a posted image differ from its object's
  only if a PUT has landed on the object since the header was read, whether that
  PUT began before or after, and whether or not the URL has expired.
  `ViewsAddUp`: `view_count` is the number of views counted, and none of them saw itself.
* `SeededLikesAddUp`: `like_count` is short by one exactly where the seeder
  stands or was stopped between a like and its counter, and too high by at most
  one for each vote that both the seeder drew and a visitor cast or took back.
  `WholeUnlessImportRaced`: no row refers to one that is not there, aborted
  seedings included, unless an import met a taken username or a deletion.

### Fairness

`Fairness` asks that a request whose next statement can run eventually runs it
(goroutines are scheduled, PostgreSQL grants locks), and that a deadlock is
eventually resolved (`deadlock_timeout`). Weak fairness is enough: with a
finite number of calls a lock that is free stays free until someone waiting
takes it. Nothing obliges a client to call, or a statement to time out;
`EveryRequestAnswered` holds without the router's timeout.

`Inbox`, `Writes` and `Accounts` ask for less: as long as some request can go
on or is in a deadlock, one goes on or is aborted. Since every request takes
finitely many steps and is made once, progress of the whole is progress of
each.

### What the violation shows

`recount`: bob deletes a comment while alice creates one. The recount counts
in its snapshot, waits for the post's row until alice commits, then writes
the count without alice's comment. `comment_count` stays short until another
deletion recounts.

### What else was seen

The models do these things because the code does; nothing in the repository
says otherwise, so no run calls them wrong.

* A deleted comment or post leaves its likes in `likes` (no foreign key,
  `sqlc/schema.sql:133`). Unliking answers 404 and rolls back;
  `CountLikedPosts` counts them and `ListLikedPosts` joins them away, so the
  total of that list can exceed its rows (`counted` in `Pages`).
* A page number so large that `(page - 1) * page_size` wraps to a negative
  `int` whose lower half is not negative is accepted by the query and answered
  with a page below 1 (`internal/api/post.go:39`), although `pageResponse` is
  tagged `min=1`. `PageAnswered` speaks of offsets that fit.
* Seeded comments are not added to `comment_count`, and an import starts
  `like_count` at 0 with the likes in the table.
* If `CDN_BASE_URL` has a path other than the bucket's, an image URL that
  GetByID showed is not found again when it is sent back; the URL of a video is
  stored as the key.

## 4. Proofs

Eight modules hold theorems; each EXTENDS the module it is about (`ListsProofs`
the two it is about), and TLAPS checks them for every value of the constants
that the named assumption of that module allows. The assumptions say what the
code and the schema guarantee of the values a run starts from: finite sets of
users and requests, rows that satisfy the foreign keys, identities that are not
used twice. TLC evaluates them in every run.

All proofs have one shape. The invariant a run checks is a conjunct of a
stronger one, `Inv` (`CycleInv` and `AnswerInv` in `EngagementProofs`, `FeedInv`
and `WalkInv` in `ListsProofs` for the two kinds of walks), that is inductive.
Where requests are concurrent it says what a request holds at the statement it has reached, that no two
requests hold the same, and what follows for the tables. A lemma for each
statement shows that it keeps what is said of its own request; one lemma per
module shows that it disturbs no other request, because what that one relies on
is locked. A new row's identity is fresh, so nothing that is said of live rows
can be spoilt by a row that comes back. Every inductive invariant was checked
by TLC on the instances of section 3.

### Engagement

From `StoreAssumption`: any finite sets of users, old comments and requests, any
posts and folders. Each invariant contains the one before it.

| Invariant | Adds | Gives |
|---|---|---|
| `TypeInv` | whatever comment a table or an input names was written by a committed Create (`NamesWritten`): its columns are those of its request | `TypeCorrect` |
| `LikeInv` | locks do not conflict; a vote that touched a row holds its lock and has counted under the lock of the target (`VoteOK`) | `LikeCountsExact` |
| `ThreadInv` | the locks a request may hold at each statement (`LocksFit`), locked rows are there (`RowsLive`), what Create and the two deletions have pinned, doomed and left to do (`CreateOK`, `DeleteOK`, `PurgeOK`), what a notification refers to (`NoteOK`) | `ThreadsSound`, `DriftsByRecountOnly` |
| `ShelfInv` | the same for collections and folders (`ShelfOK`, `FolderOK`, `ShelvesPurged`) | `CollectionsCounted`, `FoldersOwned` |
| `AnswerInv` | what the response has read (`ShownOK`), that a like not written again is there or was withdrawn (`VoteStands`), that what was deleted is not there (`GoneOK`) | `OwnVotesShown`, `LikesKept`, `DeletionsComplete`, `VotesRefine` |
| `CycleInv` | to `ShelfInv`: among any comments one answers none of them (`Rooted`) | `Deadlocks` |

* Counters (`LikeCountsExact`, `CollectionsCounted`). A commit of one vote
  changes one key and one counter; by the locks no other open vote is about
  that key or has counted from that counter. `like_count` has to be right for
  rows that are gone, too, because a vote can be under way while its target goes.
* Threads. A comment being created pins its post and its parent, so neither can
  go before it is there; a deletion has doomed a set that is closed under
  replies when it commits, and whoever has pinned a row of that set would have
  made it wait.
* `DriftsByRecountOnly`: an action property. Create adds 1 to the value it read
  under the row lock and appears in the same commit, so that the difference of
  counter and comments stays what it was, whatever it was.
* `VotesRefine`: `Spec => VotesAreReactions`. The initial states agree, and each
  step is one of `Reactions` or changes nothing it sees: the commit of a vote is
  an abstract mark, withdrawal or no change; a deletion's commit makes rows
  vanish; Create makes one appear. Every other statement is a stutter.
* `Deadlocks`: `Spec => []DeadlockNeedsPostDeletion`. A request on a cycle waits
  for one on it, and one on it waits for it (`CycleGoesOn`, `CycleComesFrom`,
  from the least set closed under waiting). It holds a lock and wants one,
  which leaves seven statements (`CycleSteps`). Without the deletion of a post,
  a like that notifies waits for nobody on the cycle, for it has locked its
  target; so counting comments or collections does not, since the only update of a
  post it could wait for is that like's; so unfiling does not; and nobody waits
  for a vote that is about to count. What is left is a cycle of comment deletions
  alone (`CycleOfCascades`). Each one's first comment answers one that another
  of them deletes, so the comments they have deleted would all be replies to
  each other: `Rooted` says there are no such comments. It rests on
  `RepliesAssumption`, which says so of the comments of the start (the INSERT
  finds the parent there, and no query updates `parent_id`).

### The other components

* `ListsProofs`, about `Feed`, from `FeedAssumption` (any finite set of posts with any times,
  distinct ids and authors, any positive page sizes). The lemma `WalkSound` is
  `FeedSpec => []FeedInv`. What has been shown lies at the cursor or above it
  (`Passed`), what is still owed lies below, and a row left out of a page is
  older than every row in it (`Owed`). That `(created_at, id)` is a total order
  (`Order`) and that a page that is not full holds everything (`WholePage`) are
  the two facts it rests on. Hence `PagesDescend` and `WalkComplete`.
* `ListsProofs`, about `Pages`, from `PagesAssumption` (finitely many rows, any page sizes, any
  widths of the two integers). `ControlInv` ties the state of a call to the
  statements it has left (`Ordered`) and its offset to the page it was asked
  for. Hence `TypeCorrect`, `Answered` (a quotient is determined by its multiples,
  and a number that fits is kept by both integers) and `Marks`. `WalkInv` adds how
  far the pages of a walk reach in the list (`Reached`): until a row arrives, all
  that was shown stands within (`NoRepeats`); until one leaves, all that stayed and
  was not shown stands behind, and when the total is reached there is none
  (`NoMisses`). A row that arrives or rises moves the others back only, one that
  leaves or sinks forward only. Hence `Repeats` and `Misses`, which suppose
  `ListsFit`: no list has more rows than the `int32` of the queries counts (2^31);
  a longer one cannot be walked to its end, because its offsets overflow.
* `InboxProofs`, from `InboxAssumption` (any users, follows, posts, comments and
  notifications; a comment or notification refers to at most one comment, and
  comments have more comments below them the higher they stand). `Inv` says which
  statement a request may be at, which pairs and notices it has written or taken,
  that a deletion has taken what it was asked to and what hangs on that, and a
  deletion of a comment only comments below it (`Fits`), and that no row is taken
  twice (`Exclusive`). Hence `NoticesExact`, `AllRead`, the action property
  `ReadOnce`, and `Deadlocks`: whoever holds a row and waits is a MarkAllRead or a
  deletion (`WaitingHolder`), since a follow or a single mark waits before it holds
  anything. A MarkAllRead waits for its opponents only (`ReadAllOpposed`). Without
  one, and without the deletion of a post, what is left are deletions of comments:
  each waits for one that was asked to delete a comment further down
  (`CommentsWaitDown`), so the one furthest down waits for nobody (`Least`).
* `SearchesProofs`, from `SearchesAssumption`. `Inv` relates times to answers: a
  call's statement takes its time after the answers of all calls prior to it
  (`Order`), an entry holds the time of the search that wrote it last (`Written`),
  and what a DeleteHistory will leave was written since (`Spared`). Hence
  `TermCounts`, `HistoryRanked` (with the two exceptions of `NewestSearchFirst`: the
  lower keyword searched again, or an entry set back by an overlapping search) and
  the action property `Cleared`.
* `WritesProofs`, from `WritesAssumption`. The lock on the post's row makes the
  media and tags a transaction has seen those that are there (`HoldsPost`), the
  tags it has upserted are the first of its list (`HoldsTags`), and a new post is
  new (`Known`). Hence `OneWrite`; and `Deadlocks`: among writes that wait for each
  other, take the one whose tag comes last in the common order; it waits for a tag
  that comes later still. `TypeCorrect` includes that `normalizePostTags` returns
  different names, at most `MaxTags` of them, by a least counterexample, since an
  induction over the list cannot be stated to this prover.
* `AccountsProofs`, from `AccountsAssumption`. `Inv` says which names, user rows
  and session rows a call holds, and that no two hold the same (`Apart`). Hence
  `OneNameEach`, `Replaced`, `LoggedOut`, the action property `EndsOnce`, and
  `Deadlocks`.
* `UploadsProofs`, from `UploadsAssumption`. `Inv` follows a reference from what
  a client names (`Meant`) to the row that is stored (`Right`), which has the size of
  its object until one more PUT lands, for any paths and any `MaxPuts`. Hence `ViewsCounted`,
  `SizeKept`, and the action property `MeantIsRead`, which rests on a lemma that
  `ObjectKeyFromURL` undoes `CDNURL` when the base is the bucket.

* `SeedingProofs`, from `SeedingAssumption` (finitely many names and titles, any
  bounds, `None` is not a vote). Neither property is inductive. `Inv` adds, beside
  the types, four parts that lean on each other:
  * `Control`: there is no import while `Run` is at work, and once its
    truncations are over no mishap either; a vote is in hand only between its
    INSERT and its count.
  * `Gathered`: past the truncations the posts and comments of the tables are among
    those `Run` has collected, since nobody else writes any, and so is whatever
    a like is on. Hence a new post or comment has no like yet (a comment's number
    is above all of its post: `Numbered`), and its `like_count`, 0, is right.
    What `Run` has collected refers to itself only (`WholeIn`), so its file does.
  * `References`: an import brings back the users before what refers to them, and
    the posts before their media and comments. Between two of its INSERTs the
    users and the posts of the file are in, or a name was taken or a post deleted.
    That a reply is to a comment of the same post is in the types: without it the
    deletion of a post could leave a reply without its parent.
  * `Counted`: every like is a visitor's, collected, or the one in hand, and the one
    in hand has its row unless a visitor took it back. Hence a step that counts
    without inserting, or the other way round, is about a vote that both the
    seeder and a visitor had a part in (`AddLikeCounted`, `LikeCounted`,
    `UnlikeCounted`, `IncrementCounted`).

  `Invariance` is `Spec => []Inv`; hence `TypeCorrect`, `WholeAfterwards` and
  `LikesAddUp`. TLC agrees with `Inv` on all states of the run `seeding`.

### What stays with TLC

Liveness (`EveryRequestAnswered`, `EveryWriteAnswered`, `EveryCallAnswered`):
fairness speaks of ENABLED, which the provers do not treat.
`CommentCountExact` is false. What recursive definitions compute for every
input would need induction over data. All other properties of the runs
are theorems.

## 5. Not modelled, and the plan

`PROJECT.json` gives the status of each component. Left out for good:
rendering and validation, token signing and password hashing, image decoding,
text search and ranking (`Pages` lets rows change places instead), the scanning
of rows in generated code, profiles (independent reads of counts), the commands
of the client that send one request and print the answer, start-up, and the
creation and renaming of folders (one row of one's own in one statement). `users`
rows are never deleted by the server, so foreign keys to users always hold and
are not modelled, except in `Accounts`, where a rename blocks them, and in
`Seeding`, which empties the table. The deletion of a post is in three modules,
each with the children it is about: comments, collections and notifications in
`Engagement`, the locks on notifications, against those of marks, in `Inbox`, media
and tags in `Writes`. What `Inbox` leaves to `Engagement` is how the notifications
of likes and comments come to be: their inserts lock no notification that was there.

What remains: shorter proofs where one statement is handled in several lemmas,
and one invariant for what `Engagement` and `Seeding` say of `like_count` apart.
