------------------------------- MODULE Store -------------------------------
(***************************************************************************)
(* The relational store behind every handler (internal/db/store.go and     *)
(* sqlc/schema.sql): the tables that carry the engagement of users with    *)
(* posts, the row locks of PostgreSQL at READ COMMITTED, and the life of a *)
(* transaction run by Store.ExecTx.                                        *)
(*                                                                         *)
(* A request is one HTTP call, served once.  Its statements are separate   *)
(* steps, because other requests commit between them.  What a transaction  *)
(* has written and not committed is kept in work[r] and locks; Commit      *)
(* actions of the other modules apply it to the tables in one step, and a  *)
(* rollback forgets it.  Since a row is locked from its first write to the *)
(* commit, the new value of a counter can be computed when the row lock is *)
(* granted, from the last committed value.                                 *)
(*                                                                         *)
(* A comment or a notification gets a fresh UUID from its request, so the  *)
(* request itself serves as that identity: no row is ever created twice.   *)
(***************************************************************************)
EXTENDS Naturals, FiniteSets

CONSTANTS
  Users, Posts, Folders,  \* accounts, posts and collection folders
  OldComments,            \* comments already there at the start
  Requests,               \* the HTTP calls of a behaviour
  Author,                 \* Author[p]: posts.user_id
  OldComment,             \* OldComment[c]: columns post, parent, user
  FolderOwner,            \* FolderOwner[f]: collection_folders.user_id
  OldLikes,               \* likes at the start, pairs <<user, target>>
  OldCollections,         \* collections at the start, pairs <<user, post>>
  OldFiled,               \* their folder_id
  Ops,                    \* the operations clients call
  None                    \* SQL NULL

CommentIds == OldComments \cup Requests
Targets == Posts \cup CommentIds

ASSUME StoreAssumption ==
  /\ IsFiniteSet(Users) /\ IsFiniteSet(OldComments) /\ IsFiniteSet(Requests)
  /\ Posts \cap CommentIds = {}
  /\ OldComments \cap Requests = {}
  /\ Folders \cap Targets = {}
  /\ None \notin Users \cup Targets \cup Folders
  /\ Author \in [Posts -> Users]
  /\ OldComment \in [OldComments -> [post: Posts, user: Users,
                                     parent: OldComments \cup {None}]]
  /\ \A c \in OldComments : OldComment[c].parent # None =>
       OldComment[OldComment[c].parent].post = OldComment[c].post
  /\ FolderOwner \in [Folders -> Users]
  /\ OldLikes \subseteq Users \X (Posts \cup OldComments)
  /\ OldCollections \subseteq Users \X Posts
  /\ OldFiled \in [Users \X Posts -> Folders \cup {None}]
  /\ \A k \in Users \X Posts : OldFiled[k] # None =>
       k \in OldCollections /\ FolderOwner[OldFiled[k]] = k[1]

\* parent_id is written by the INSERT, which finds the parent there, and by no
\* UPDATE: however replies are picked, one answers none of the others.
ASSUME RepliesAssumption ==
  \A S \in SUBSET OldComments : S # {} => \E c \in S : OldComment[c].parent \notin S

VARIABLES
  posts, comments, folders,   \* the live rows of these tables
  likes,                      \* pairs <<user_id, target_id>>
  collections, filed,         \* pairs <<user_id, post_id>>, their folder_id
  like_count,                 \* posts.like_count and comments.like_count
  collect_count,              \* posts.collect_count
  comment_count,              \* posts.comment_count
  notifications,              \* rows of notifications
  locks,                      \* row locks held by open transactions
  pc, job, work,              \* a request's next statement, input, writes
  answer                      \* the status a request was answered with

tables == <<posts, comments, folders, likes, collections, filed,
            like_count, collect_count, comment_count, notifications>>
vars == <<tables, locks, pc, job, work, answer>>

-----------------------------------------------------------------------------
(* Rows and what relates them. *)

\* The immutable columns of a comment: those of the request that wrote it.
Comment(c) ==
  IF c \in OldComments THEN OldComment[c]
  ELSE [post |-> job[c].item, user |-> job[c].user, parent |-> job[c].ref]

Live(t) == t \in posts \cup comments
Owner(t) == IF t \in Posts THEN Author[t] ELSE Comment(t).user
Likers(t) == {u \in Users : <<u, t>> \in likes}
Collectors(p) == {u \in Users : <<u, p>> \in collections}
Thread(p) == {c \in comments : Comment(c).post = p}

Notifications == [id: Requests, recipient: Users, actor: Users,
                  post: Posts, comment: CommentIds \cup {None}]

Notice(r, recipient, post, comment) ==
  [id |-> r, recipient |-> recipient, actor |-> job[r].user,
   post |-> post, comment |-> comment]

-----------------------------------------------------------------------------
(* Row locks.  A DELETE, or an INSERT as seen by others inserting the same *)
(* key, excludes every other lock; an UPDATE of a non-key column excludes  *)
(* another; a foreign-key check only keeps the referenced row from being   *)
(* deleted.                                                                *)

PostRow(p) == <<"posts", p, None>>
CommentRow(c) == <<"comments", c, None>>
FolderRow(f) == <<"folders", f, None>>
LikeRow(u, t) == <<"likes", u, t>>
CollectionRow(u, p) == <<"collections", u, p>>
TargetRow(t) == IF t \in Posts THEN PostRow(t) ELSE CommentRow(t)

Keys == Users \cup Targets \cup Folders \cup {None}
Rows == {"posts", "comments", "folders", "likes", "collections"} \X Keys \X Keys
Modes == {"KeyShare", "NoKeyUpdate", "ForUpdate"}

Delete(row) == [row |-> row, mode |-> "ForUpdate"]
Update(row) == [row |-> row, mode |-> "NoKeyUpdate"]
Reference(row) == [row |-> row, mode |-> "KeyShare"]

Conflict(m, n) == "ForUpdate" \in {m, n} \/ (m = "NoKeyUpdate" /\ n = "NoKeyUpdate")

Holds(r, d) == [req |-> r, row |-> d.row, mode |-> d.mode] \in locks

\* The requests whose locks keep r from taking one of the locks D.
Blockers(r, D) ==
  {s \in Requests \ {r} : \E d \in D : \E l \in locks :
     l.req = s /\ l.row = d.row /\ Conflict(l.mode, d.mode)}

\* A statement proceeds once it gets every row lock it needs; the row it
\* then sees is the last committed version.
Acquire(r, D) ==
  /\ Blockers(r, D) = {}
  /\ locks' = locks \cup {[req |-> r, row |-> d.row, mode |-> d.mode] : d \in D}

-----------------------------------------------------------------------------
(* The life of a request. *)

Blank == [rows |-> 0, val |-> 0, flag |-> FALSE, shown |-> 0, note |-> FALSE]
Work == [rows: {0, 1}, val: Nat, flag: BOOLEAN, shown: Nat, note: BOOLEAN]
Answers == {"none", "ok", "bad", "forbidden", "missing", "failed"}

NoJob == [op |-> "none", user |-> None, item |-> None, ref |-> None]
Jobs == [op: Ops, user: Users, item: Targets \cup Folders,
         ref: CommentIds \cup Folders \cup {None}]

InFlight(r) == pc[r] \notin {"idle", "done"}

Begin(r, op, u, x, y, first) ==
  /\ pc[r] = "idle"
  /\ op \in Ops
  /\ job' = [job EXCEPT ![r] = [op |-> op, user |-> u, item |-> x, ref |-> y]]
  /\ pc' = [pc EXCEPT ![r] = first]
  /\ UNCHANGED <<tables, locks, work, answer>>

\* The next statement of the handler; nothing is committed yet.
Goto(r, step) ==
  /\ pc' = [pc EXCEPT ![r] = step]
  /\ UNCHANGED <<tables, job, answer>>

\* The transaction is over and its locks are released.
Close(r, step) ==
  /\ pc' = [pc EXCEPT ![r] = step]
  /\ locks' = {l \in locks : l.req # r}
  /\ work' = [work EXCEPT ![r] = Blank]
  /\ UNCHANGED job

Reply(r, a) == answer' = [answer EXCEPT ![r] = a]

\* Slip: the rollback is not deferred, and the locks stay.
Rollback_NotDeferred(r, a) ==
  /\ pc' = [pc EXCEPT ![r] = "done"]
  /\ Reply(r, a)
  /\ UNCHANGED <<tables, locks, work, job>>

\* fn returned an error, so the deferred tx.Rollback runs; or the handler
\* answers before it opened a transaction.
Rollback(r, a) == Close(r, "done") /\ Reply(r, a) /\ UNCHANGED tables

\* tx.Commit took effect.  Its confirmation may still be lost to the
\* cancelled context, and the client then sees an error.
Committed(r) == Close(r, "done") /\ \E a \in {"ok", "failed"} : Reply(r, a)

\* Any statement, the commit included, may fail: the 30 s timeout of the
\* router cancels the context, or the connection breaks.
Timeout(r) == InFlight(r) /\ Rollback(r, "failed")

StoreInit ==
  /\ posts = Posts
  /\ comments = OldComments
  /\ folders = Folders
  /\ likes = OldLikes
  /\ collections = OldCollections
  /\ filed = OldFiled
  /\ like_count = [t \in Targets |-> Cardinality({u \in Users : <<u, t>> \in OldLikes})]
  /\ collect_count = [p \in Posts |-> Cardinality({u \in Users : <<u, p>> \in OldCollections})]
  /\ comment_count = [p \in Posts |-> Cardinality({c \in OldComments : OldComment[c].post = p})]
  /\ notifications = {}
  /\ locks = {}
  /\ pc = [r \in Requests |-> "idle"]
  /\ job = [r \in Requests |-> NoJob]
  /\ work = [r \in Requests |-> Blank]
  /\ answer = [r \in Requests |-> "none"]
=============================================================================
