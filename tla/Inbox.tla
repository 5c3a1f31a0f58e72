-------------------------------- MODULE Inbox --------------------------------
(***************************************************************************)
(* Everything that locks rows of notifications: Follow and Unfollow        *)
(* (internal/api/follow.go), MarkRead and MarkAllRead (notification.go),   *)
(* and the deletions of posts and comments (post.go, comment.go), which    *)
(* take the notifications of likes and comments along, ON DELETE CASCADE.  *)
(* Statement by statement, at READ COMMITTED; a mark and a cascade take    *)
(* their rows one after the other.                                         *)
(*                                                                         *)
(* A request is made once, and the notification it inserts is named after  *)
(* it.  How the notifications of likes and comments come to be, and what   *)
(* else a deletion meets, is in Likes, Comments and Engagement: here they  *)
(* are there from the beginning, and no one else locks posts and comments. *)
(***************************************************************************)
EXTENDS Naturals, FiniteSets

CONSTANTS
  Users,
  Targets,           \* the ids clients want to follow, of users or of no one
  Requests,          \* requests under way at the same time
  Caller,            \* Caller[r]: the user whose token request r carries
  OldFollows,        \* the follows that stand at the beginning, each with
                     \* a notification of the same name
  Posts, Comments,
  Author,            \* Author[x]: who wrote post or comment x, and may delete it
  Told,              \* Told[n]: <<actor_id, recipient_id>> of the notifications
                     \* of likes and comments that stand at the beginning
  Refers,            \* Refers[x]: the posts and comments a comment or such a
                     \* notification refers to, by foreign keys with cascade
  Replies,           \* Replies[c]: how many comments are below comment c
  None

Pairs == Users \X Users
Items == Posts \cup Comments
FollowNotices == OldFollows \cup Requests
Notices == FollowNotices \cup DOMAIN Told
Rows == Notices \cup Items

ASSUME InboxAssumption ==
  /\ IsFiniteSet(Users) /\ IsFiniteSet(Requests) /\ IsFiniteSet(OldFollows)
  /\ Caller \in [Requests -> Users]
  /\ OldFollows \subseteq Pairs
  /\ None \notin Notices \cup Pairs /\ OldFollows \cap Requests = {}
  /\ Author \in [Items -> Users] /\ Replies \in [Comments -> Nat]
  /\ Told \in [DOMAIN Told -> Pairs] /\ DOMAIN Told \cap FollowNotices = {}
  /\ Items \cap (Notices \cup {None}) = {} /\ Posts \cap Comments = {}
  /\ Refers \in [Comments \cup DOMAIN Told -> SUBSET Items]
  /\ \A x \in Comments \cup DOMAIN Told : \A c, d \in Refers[x] \cap Comments : c = d
  /\ \A c \in Comments : \A d \in Refers[c] \cap Comments : Replies[c] < Replies[d]

VARIABLES
  follows,  \* the pairs <<follower_id, following_id>>
  notice,   \* notice[n]: its <<actor_id, recipient_id>>, or None
  gone,     \* the posts and comments that have been deleted
  read_at,  \* read_at[n]: the request whose NOW() it holds, or None
  undone,   \* undone[p]: how often the pair's row has been deleted
  req       \* the requests

tables == <<follows, notice, gone, read_at, undone>>
vars == <<tables, req>>

-----------------------------------------------------------------------------
(* Requests *)

Ops == {"follow", "unfollow", "markRead", "markAllRead", "delete"}

\* wrote: the pair's row was inserted or deleted; note: the notification
\* inserted; scope: the rows MarkAllRead set out to update; todo: those it has
\* still to visit; took: the rows it, MarkRead or a deletion has locked and
\* changed.
Fresh(op, on, at) ==
  [op |-> op, on |-> on, at |-> at, status |-> "none", wrote |-> FALSE,
   note |-> None, shown |-> FALSE, count |-> 0, scope |-> {}, todo |-> {}, took |-> {}]

Free(r) == req[r].at \in {"idle", "done"}
Pair(r) == <<Caller[r], req[r].on>>

Set(r, new) == req' = [req EXCEPT ![r] = new]

\* Slip: the transaction is not ended, and keeps its locks.
Answer_InTx(r, status) == Set(r, [req[r] EXCEPT !.at = "done", !.status = status])

\* The transaction has ended, its locks are given back.  What is remembered
\* of it is its answer, and what MarkAllRead answers for.
Answer(r, status) ==
  Set(r, [Fresh("none", None, "done") EXCEPT
            !.status = status, !.scope = IF status = "ok" THEN req[r].scope ELSE {}])

\* The row of pair p is locked by r; row n of another table is: one r has
\* taken, or the post whose comments the deletion of a comment has recounted.
HoldsPair(r, p) == req[r].wrote /\ Pair(r) = p
HoldsRow(r, n) ==
  \/ n \in req[r].took
  \/ /\ req[r].op = "delete" /\ req[r].at = "commit" /\ req[r].on \in Comments
     /\ n \in Refers[req[r].on] \cap Posts
LockedFor(r, n) == \E s \in Requests \ {r} : HoldsRow(s, n)

Unlocked(r, p) == \A s \in Requests \ {r} : ~HoldsPair(s, p)

\* What transaction r sees of the follows.
Seen(r) ==
  IF ~req[r].wrote THEN follows
  ELSE IF req[r].op = "follow" THEN follows \cup {Pair(r)} ELSE follows \ {Pair(r)}

There(n) == IF n \in Items THEN n \notin gone ELSE notice[n] # None

Inbox(u) == {n \in Notices : notice[n] # None /\ notice[n][2] = u}

-----------------------------------------------------------------------------
(* Follow and Unfollow *)

\* Nobody follows themselves; unfollowing oneself is let through.
StartFollow(r, v) ==
  /\ req[r].at = "idle" /\ v # Caller[r]
  /\ Set(r, Fresh("follow", v, "lookup"))
  /\ UNCHANGED tables

StartUnfollow(r, v) ==
  /\ req[r].at = "idle"
  /\ Set(r, Fresh("unfollow", v, "lookup"))
  /\ UNCHANGED tables

\* GetUserByID: a stranger is answered with 404.
LookupTarget(r) ==
  /\ req[r].at = "lookup" /\ req[r].op # "delete"
  /\ IF req[r].on \in Users THEN Set(r, [req[r] EXCEPT !.at = "write"])
     ELSE Answer(r, "missing")
  /\ UNCHANGED tables

\* Slip: the rows the INSERT wrote are not counted.
AddFollow_AlwaysNotifies(r) ==
  /\ req[r].at = "write" /\ req[r].op = "follow"
  /\ Unlocked(r, Pair(r))
  /\ Set(r, [req[r] EXCEPT !.wrote = Pair(r) \notin follows, !.at = "notify"])
  /\ UNCHANGED tables

\* INSERT ... ON CONFLICT DO NOTHING waits for a transaction that is
\* inserting or deleting the same key, and then finds the row or inserts it.
AddFollow(r) ==
  /\ req[r].at = "write" /\ req[r].op = "follow"
  /\ Unlocked(r, Pair(r))
  /\ LET new == Pair(r) \notin follows
     IN  Set(r, [req[r] EXCEPT !.wrote = new, !.at = IF new THEN "notify" ELSE "flag"])
  /\ UNCHANGED tables

\* DELETE waits for a transaction that is deleting the row it sees; a row
\* that is being inserted it does not see.
RemoveFollow(r) ==
  /\ req[r].at = "write" /\ req[r].op = "unfollow"
  /\ Pair(r) \in follows => Unlocked(r, Pair(r))
  /\ Set(r, [req[r] EXCEPT !.wrote = Pair(r) \in follows, !.at = "flag"])
  /\ UNCHANGED tables

\* CreateFollowNotification
Notify(r) ==
  /\ req[r].at = "notify"
  /\ Set(r, [req[r] EXCEPT !.note = r, !.at = "flag"])
  /\ UNCHANGED tables

\* IsFollowing, then GetFollowerCount in a later snapshot.
ReadFlag(r) ==
  /\ req[r].at = "flag"
  /\ Set(r, [req[r] EXCEPT !.shown = Pair(r) \in Seen(r), !.at = "count"])
  /\ UNCHANGED tables

ReadCount(r) ==
  /\ req[r].at = "count"
  /\ Set(r, [req[r] EXCEPT
               !.count = Cardinality({u \in Users : <<u, req[r].on>> \in Seen(r)}),
               !.at = "commit"])
  /\ UNCHANGED tables

-----------------------------------------------------------------------------
(* MarkRead and MarkAllRead *)

StartMarkRead(r, n) ==
  /\ req[r].at = "idle"
  /\ Set(r, Fresh("markRead", n, "write"))
  /\ UNCHANGED tables

\* MarkNotificationRead: only the recipient's own; otherwise 404.
MarkRead(r) ==
  /\ req[r].at = "write" /\ req[r].op = "markRead"
  /\ LET n == req[r].on
     IN  IF n \in Inbox(Caller[r])
         THEN /\ ~LockedFor(r, n)
              /\ Set(r, [req[r] EXCEPT !.took = {n}, !.at = "commit"])
         ELSE Answer(r, "missing")
  /\ UNCHANGED tables

StartMarkAllRead(r) ==
  /\ req[r].at = "idle"
  /\ Set(r, Fresh("markAllRead", None, "scan"))
  /\ UNCHANGED tables

\* Slip: the recipient is not compared.
ScanUnread_Everyones(r) ==
  LET unread == {n \in Notices : notice[n] # None /\ read_at[n] = None}
  IN  /\ req[r].at = "scan"
      /\ Set(r, [req[r] EXCEPT !.scope = unread, !.todo = unread, !.at = "rows"])
      /\ UNCHANGED tables

\* The snapshot of MarkAllNotificationsRead: the unread rows of the caller.
ScanUnread(r) ==
  LET unread == {n \in Inbox(Caller[r]) : read_at[n] = None}
  IN  /\ req[r].at = "scan"
      /\ Set(r, [req[r] EXCEPT !.scope = unread, !.todo = unread, !.at = "rows"])
      /\ UNCHANGED tables

-----------------------------------------------------------------------------
(* The deletion of a post or a comment *)

StartDelete(r, x) ==
  /\ req[r].at = "idle"
  /\ Set(r, Fresh("delete", x, "lookup"))
  /\ UNCHANGED tables

\* GetPostByID, GetCommentByID, before the transaction: 404, 403.
LookupItem(r) ==
  LET x == req[r].on
  IN  /\ req[r].at = "lookup" /\ req[r].op = "delete"
      /\ IF x \in gone THEN Answer(r, "missing")
         ELSE IF Author[x] # Caller[r] THEN Answer(r, "forbidden")
         ELSE Set(r, [req[r] EXCEPT !.at = "write"])
      /\ UNCHANGED tables

\* DeletePost, DeleteComment: the row is waited for while another deletion has
\* it.  If it is gone, Delete of a comment answers 404; that of a post does not
\* count the rows.
DeleteItem(r) ==
  LET x == req[r].on
  IN  /\ req[r].at = "write" /\ req[r].op = "delete"
      /\ ~LockedFor(r, x)
      /\ IF x \notin gone THEN Set(r, [req[r] EXCEPT !.took = {x}, !.at = "rows"])
         ELSE IF x \in Posts THEN Set(r, [req[r] EXCEPT !.at = "commit"])
         ELSE Answer(r, "missing")
      /\ UNCHANGED tables

\* RecalculatePostCommentCount waits for the post's row while a deletion of the
\* post, or of another of its comments, has it.
RecountComments(r) ==
  /\ req[r].at = "recount"
  /\ \A p \in Refers[req[r].on] \cap Posts : ~LockedFor(r, p)
  /\ Set(r, [req[r] EXCEPT !.at = "commit"])
  /\ UNCHANGED tables

-----------------------------------------------------------------------------
(* Row by row: MarkAllRead and the cascade of a deletion *)

\* A deletion goes on to the rows that refer to one it has deleted.
ToVisit(r) ==
  IF req[r].op = "delete"
  THEN {n \in (Comments \cup DOMAIN Told) \ req[r].took :
          There(n) /\ Refers[n] \cap req[r].took # {}}
  ELSE req[r].todo

Wants(r, n) == There(n) /\ (req[r].op = "delete" \/ read_at[n] = None)

\* Slip: rows that are locked are skipped.
VisitRow_SkipsLocked(r) ==
  /\ req[r].at = "rows"
  /\ \E n \in ToVisit(r) :
       Set(r, [req[r] EXCEPT !.todo = @ \ {n},
                             !.took = IF Wants(r, n) /\ ~LockedFor(r, n)
                                      THEN @ \cup {n} ELSE @])
  /\ UNCHANGED tables

\* Each row, in whatever order the plan gives, is waited for, and updated if
\* it is still unread, or deleted if it is still there.
VisitRow(r) ==
  /\ req[r].at = "rows"
  /\ \E n \in ToVisit(r) :
       /\ ~LockedFor(r, n)
       /\ Set(r, [req[r] EXCEPT !.todo = @ \ {n},
                                !.took = IF Wants(r, n) THEN @ \cup {n} ELSE @])
  /\ UNCHANGED tables

AllVisited(r) ==
  /\ req[r].at = "rows" /\ ToVisit(r) = {}
  /\ LET recounts == req[r].op = "delete" /\ req[r].on \in Comments
     IN  Set(r, [req[r] EXCEPT !.at = IF recounts THEN "recount" ELSE "commit"])
  /\ UNCHANGED tables

-----------------------------------------------------------------------------
(* The end of a request *)

\* The rows r has marked, and those it has deleted.
Marked(r) == IF req[r].op = "delete" THEN {} ELSE req[r].took
Deleted(r) == IF req[r].op = "delete" THEN req[r].took ELSE {}

\* What a commit makes of the tables other than read_at.
CommitRows(r) ==
  /\ follows' = Seen(r)
  /\ notice' = [n \in Notices |-> IF n = req[r].note THEN Pair(r)
                                  ELSE IF n \in Deleted(r) THEN None ELSE notice[n]]
  /\ gone' = gone \cup (Deleted(r) \cap Items)
  /\ undone' = [p \in Pairs |-> undone[p] +
                 IF p = Pair(r) /\ req[r].wrote /\ req[r].op = "unfollow" THEN 1 ELSE 0]

\* Slip: read_at = NOW(), also where the notification has been read.
Commit_NewTime(r) ==
  /\ req[r].at = "commit"
  /\ CommitRows(r)
  /\ read_at' = [n \in Notices |-> IF n \in Marked(r) THEN r ELSE read_at[n]]
  /\ \E status \in {"ok", "failed"} : Answer(r, status)

\* The commit takes effect; its confirmation may be lost.  MarkRead keeps
\* the time of a row that was read: COALESCE(read_at, NOW()).
Commit(r) ==
  /\ req[r].at = "commit"
  /\ CommitRows(r)
  /\ read_at' = [n \in Notices |->
                  IF n \in Marked(r) /\ read_at[n] = None THEN r ELSE read_at[n]]
  /\ \E status \in {"ok", "failed"} : Answer(r, status)

\* The 30 s timeout cancels any statement, and the transaction rolls back.
Timeout(r) ==
  /\ ~Free(r)
  /\ Answer(r, "failed")
  /\ UNCHANGED tables

\* r waits for s.
WaitsFor(r, s) ==
  /\ r # s
  /\ \/ /\ req[r].at = "write" /\ req[r].op \in {"follow", "unfollow"}
        /\ HoldsPair(s, Pair(r))
        /\ req[r].op = "unfollow" => Pair(r) \in follows
     \/ /\ req[r].at = "write" /\ req[r].op = "markRead"
        /\ req[r].on \in Inbox(Caller[r]) /\ HoldsRow(s, req[r].on)
     \/ req[r].at = "write" /\ req[r].op = "delete" /\ HoldsRow(s, req[r].on)
     \/ req[r].at = "recount" /\ \E p \in Refers[req[r].on] \cap Posts : HoldsRow(s, p)
     \/ /\ req[r].at = "rows" /\ \E n \in ToVisit(r) : HoldsRow(s, n)
        /\ \A n \in ToVisit(r) : LockedFor(r, n)

\* A set of requests each of which waits for one of them.
Deadlocked(S) == S # {} /\ \A r \in S : \E s \in S : WaitsFor(r, s)

\* PostgreSQL's detector aborts one of them.
DeadlockVictim(r) == (\E S \in SUBSET Requests : r \in S /\ Deadlocked(S)) /\ Timeout(r)

-----------------------------------------------------------------------------

Start(r) ==
  \/ \E v \in Targets : StartFollow(r, v) \/ StartUnfollow(r, v)
  \/ \E n \in Notices : StartMarkRead(r, n)
  \/ StartMarkAllRead(r)
  \/ \E x \in Items : StartDelete(r, x)

Step(r) ==
  \/ LookupTarget(r) \/ AddFollow(r) \/ RemoveFollow(r) \/ Notify(r)
  \/ ReadFlag(r) \/ ReadCount(r)
  \/ MarkRead(r) \/ ScanUnread(r)
  \/ LookupItem(r) \/ DeleteItem(r) \/ RecountComments(r)
  \/ VisitRow(r) \/ AllVisited(r)
  \/ Commit(r)

Init ==
  /\ follows = OldFollows /\ undone = [p \in Pairs |-> 0]
  /\ notice = [n \in Notices |-> IF n \in OldFollows THEN n
                                ELSE IF n \in DOMAIN Told THEN Told[n] ELSE None]
  /\ gone = {}
  /\ read_at = [n \in Notices |-> None]
  /\ req = [r \in Requests |-> Fresh("none", None, "idle")]

Next == \E r \in Requests : Start(r) \/ Step(r) \/ Timeout(r) \/ DeadlockVictim(r)

Spec == Init /\ [][Next]_vars

\* As long as some request can go on, or is in a deadlock, one goes on or is
\* aborted.  That is enough, because every request takes finitely many steps.
FairSpec == Spec /\ WF_vars(\E r \in Requests : Step(r) \/ DeadlockVictim(r))

-----------------------------------------------------------------------------
(* Properties *)

Points == {"idle", "lookup", "write", "notify", "flag", "count",
           "scan", "rows", "recount", "commit", "done"}
Statuses == {"none", "ok", "missing", "forbidden", "failed"}

Requested ==
  [op: Ops \cup {"none"}, on: Targets \cup Rows \cup {None}, at: Points,
   status: Statuses, wrote: BOOLEAN, note: Requests \cup {None}, shown: BOOLEAN,
   count: Nat, scope: SUBSET Notices, todo: SUBSET Notices, took: SUBSET Rows]

TypeOK ==
  /\ follows \subseteq Pairs
  /\ notice \in [Notices -> Pairs \cup {None}]
  /\ gone \subseteq Items
  /\ read_at \in [Notices -> Requests \cup {None}]
  /\ undone \in [Pairs -> Nat]
  /\ req \in [Requests -> Requested]

\* A follow is told of exactly once: the follow notifications a user has had of
\* another are as many as the follows that were taken back, and the one that
\* stands, however the calls of Follow and Unfollow overlap, fail or repeat.
NoticesMatchFollows ==
  \A p \in Pairs :
    Cardinality({n \in FollowNotices : notice[n] = p})
      = undone[p] + IF p \in follows THEN 1 ELSE 0

\* When MarkAllRead is answered with success, all notifications that were
\* unread when it began are read, also those other requests were marking, or
\* have been deleted.
AllReadMeansRead ==
  \A r \in Requests : req[r].status = "ok" =>
    \A n \in req[r].scope : read_at[n] # None \/ notice[n] = None

\* Requests that wait for each other have among them
\*  - two calls of MarkAllRead by one user, or
\*  - a MarkAllRead and a deletion that has a notification of its caller, or
\*  - the deletions of a post and of another post or comment.
\* Follows, single marks, the marks of different users, and comments deleted
\* along their replies never do without.
Opposed(r, s) ==
  \/ /\ req[r].op = "markAllRead" /\ req[s].op = "markAllRead"
     /\ Caller[r] = Caller[s]
  \/ /\ req[r].op = "markAllRead" /\ req[s].op = "delete"
     /\ Inbox(Caller[r]) \cap req[s].took # {}
  \/ /\ req[r].op = "delete" /\ req[s].op = "delete"
     /\ req[r].on \in Posts /\ req[s].on # req[r].on

DeadlockNeedsScans ==
  \A S \in SUBSET Requests : Deadlocked(S) =>
    \E r, s \in S : r # s /\ Opposed(r, s)

\* read_at is written once, by a request of the recipient; marking again, or
\* all at once, keeps the first time.
ReadsOnce ==
  \A n \in Notices : read_at'[n] # read_at[n] =>
    read_at[n] = None /\ Caller[read_at'[n]] = notice[n][2]

ReadOnceByRecipient == [][ReadsOnce]_vars

\* Every request is answered, although requests wait for each other's rows.
EveryRequestAnswered == \A r \in Requests : ~Free(r) ~> req[r].at = "done"
=============================================================================
