--------------------------------- MODULE Feed ---------------------------------
(***************************************************************************)
(* The feeds a client walks by cursor (internal/api/post.go: ListFeed,     *)
(* ListFollowingFeed, ListByUser): pages of posts, newest first, each page *)
(* starting below the last post of the page before.  Posts are published   *)
(* and deleted, and the viewer follows and unfollows authors, between any  *)
(* two statements.                                                         *)
(*                                                                         *)
(* created_at is NOW() at the start of the creating transaction, so a post *)
(* may become visible after posts with a later created_at, and two posts   *)
(* may share one.                                                          *)
(***************************************************************************)
EXTENDS Naturals, FiniteSets

CONSTANTS
  Posts, Users,
  Author,           \* Author[p]: posts.user_id
  CreatedAt, Id,    \* the columns a feed is ordered by; Id[p] as a number
  Limits,           \* the page sizes clients ask for
  None              \* no cursor yet

ASSUME FeedAssumption ==
  /\ IsFiniteSet(Posts) /\ None \notin Posts
  /\ Author \in [Posts -> Users]
  /\ CreatedAt \in [Posts -> Nat] /\ Id \in [Posts -> Nat]
  /\ \A p, q \in Posts : Id[p] = Id[q] => p = q
  /\ Limits \subseteq Nat \ {0}

VARIABLES
  live, gone,   \* the posts that are there, and those that were
  followed,     \* the authors the viewer follows
  feed,         \* the list being walked: [name, user]
  cursor,       \* the post the last page ended with
  stage,        \* "asked": a page is wanted; "read": its rows are read
  limit, batch, \* page size of the request, rows it read
  shown,        \* what the client has received in this walk
  remained      \* what the list has contained ever since the walk began

feedWalk == <<feed, cursor, stage, limit, batch, shown>>
feedVars == <<live, gone, followed, feedWalk, remained>>

-----------------------------------------------------------------------------
(* Lists and pages *)

\* (p.created_at, p.id) < (q.created_at, q.id)
Older(p, q) ==
  \/ CreatedAt[p] < CreatedAt[q]
  \/ CreatedAt[p] = CreatedAt[q] /\ Id[p] < Id[q]

FollowingPosts == {p \in live : Author[p] \in followed}
PostsByUser(u) == {p \in live : Author[p] = u}

Feeds == [name: {"all", "following", "user"}, user: Users]

Listed(f) ==
  CASE f.name = "all" -> live
    [] f.name = "following" -> FollowingPosts
    [] f.name = "user" -> PostsByUser(f.user)

\* Slip: only the time is compared, and not strictly.
Below_TimeOnly(c) == IF c = None THEN Posts ELSE {p \in Posts : CreatedAt[p] <= CreatedAt[c]}

\* The rows a cursor lets through; the first page has none (the epoch).
Below(c) == IF c = None THEN Posts ELSE {p \in Posts : Older(p, c)}

\* ORDER BY created_at DESC, id DESC LIMIT n: n rows, or all if there are
\* fewer, and none that is left out is newer than one of them.
Newest(S, n) ==
  {B \in SUBSET S : /\ \A p \in S, q \in B : Older(q, p) => p \in B
                    /\ \/ Cardinality(B) = n
                       \/ Cardinality(B) < n /\ B = S}

\* newCursorPageResponse: the next page starts below the last item sent.
HasMore == Cardinality(batch) > limit
Oldest(S) == {c \in S : \A q \in S : q = c \/ Older(c, q)}

\* Slip: the cursor is that of the row past the limit, which is not sent.
NextCursor_PastLimit(items) == Oldest(batch)
NextCursor(items) == Oldest(items)

-----------------------------------------------------------------------------
(* The walk *)

\* A client asks for the first page.
FirstPage(f) ==
  /\ stage \in {"idle", "ended"}
  /\ feed' = f /\ cursor' = None /\ stage' = "asked" /\ shown' = {}
  /\ remained' = Listed(f)
  /\ UNCHANGED <<live, gone, followed, limit, batch>>

\* parseFeedCursor and the list query, with one row more than the page.
ReadPage(n) ==
  /\ stage = "asked"
  /\ limit' = n /\ stage' = "read"
  /\ batch' \in Newest(Listed(feed) \cap Below(cursor), n + 1)
  /\ UNCHANGED <<live, gone, followed, feed, cursor, shown, remained>>

\* The viewer's states are read and the page is sent; the client goes on from
\* its cursor while there is one.
SendPage ==
  /\ stage = "read"
  /\ \E items \in Newest(batch, limit) :
       /\ shown' = shown \cup items
       /\ IF HasMore THEN cursor' \in NextCursor(items) /\ stage' = "asked"
          ELSE UNCHANGED cursor /\ stage' = "ended"
  /\ batch' = {}
  /\ UNCHANGED <<live, gone, followed, feed, limit, remained>>

\* The viewer's states cannot be read, or the page does not arrive: the
\* client asks for it again.
LosePage ==
  /\ stage = "read"
  /\ stage' = "asked" /\ batch' = {}
  /\ UNCHANGED <<live, gone, followed, feed, cursor, limit, shown, remained>>

-----------------------------------------------------------------------------
(* What goes on around the walk *)

Publish(p) ==
  /\ p \notin live \cup gone
  /\ live' = live \cup {p}
  /\ UNCHANGED <<gone, followed, feedWalk, remained>>

RemovePost(p) ==
  /\ p \in live
  /\ live' = live \ {p} /\ gone' = gone \cup {p}
  /\ remained' = remained \ {p}
  /\ UNCHANGED <<followed, feedWalk>>

Follow(u) ==
  /\ followed' = followed \cup {u}
  /\ UNCHANGED <<live, gone, feedWalk, remained>>

Unfollow(u) ==
  /\ followed' = followed \ {u}
  /\ remained' = IF feed.name = "following" THEN {p \in remained : Author[p] # u} ELSE remained
  /\ UNCHANGED <<live, gone, feedWalk>>

FeedInit ==
  /\ live \in SUBSET Posts /\ gone = {} /\ followed \in SUBSET Users
  /\ feed \in Feeds /\ cursor = None /\ stage = "idle"
  /\ limit = 0 /\ batch = {} /\ shown = {} /\ remained = {}

FeedNext ==
  \/ \E f \in Feeds : FirstPage(f)
  \/ \E n \in Limits : ReadPage(n)
  \/ SendPage \/ LosePage
  \/ \E p \in Posts : Publish(p) \/ RemovePost(p)
  \/ \E u \in Users : Follow(u) \/ Unfollow(u)

FeedSpec == FeedInit /\ [][FeedNext]_feedVars

-----------------------------------------------------------------------------
(* Properties *)

FeedTypeOK ==
  /\ live \subseteq Posts /\ gone \subseteq Posts /\ followed \subseteq Users
  /\ feed \in Feeds /\ cursor \in Posts \cup {None}
  /\ stage \in {"idle", "asked", "read", "ended"}
  /\ limit \in Nat /\ batch \subseteq Posts
  /\ shown \subseteq Posts /\ remained \subseteq live

\* All rows read for a page are older than all posts the client already has,
\* so a walk shows no post twice, although posts are published with a
\* created_at in the past, share a created_at, or come back into the list
\* when an author is followed again.
NewestFirst == stage = "read" => \A p \in batch, q \in shown : Older(p, q)

\* When a walk ends the client has received every post that was in the list
\* from its beginning to its end, also when the post its cursor names has
\* been deleted or pages had to be asked for again.
NothingSkipped == stage = "ended" => remained \subseteq shown
=============================================================================
