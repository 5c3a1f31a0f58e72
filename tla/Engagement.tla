----------------------------- MODULE Engagement -----------------------------
(***************************************************************************)
(* Likes, comments, collections and the deletion of posts against one      *)
(* database.  Requests interleave statement by statement; PostgreSQL's     *)
(* deadlock detector breaks cycles of waiting transactions.                *)
(***************************************************************************)
EXTENDS Likes, Comments, Collections, Integers

PostSteps == {"LookupOwn", "DeletePostRow", "CascadePost", "CommitDeletePost"}
Steps == {"idle", "done"} \cup LikeSteps \cup CommentSteps \cup CollectionSteps \cup PostSteps

-----------------------------------------------------------------------------
(* PostHandler.Delete (internal/api/post.go) *)

StartDeletePost(r) ==
  \E u \in Users, p \in posts : Begin(r, "DeletePost", u, p, None, "LookupOwn")

\* GetPostByID outside the transaction: 404 and 403.
LookupOwn(r) ==
  /\ pc[r] = "LookupOwn"
  /\ IF job[r].item \notin posts THEN Rollback(r, "missing")
     ELSE IF Author[job[r].item] # job[r].user THEN Rollback(r, "forbidden")
     ELSE Goto(r, "DeletePostRow") /\ UNCHANGED <<locks, work>>

\* DELETE FROM posts, its row count not checked: a post that is gone by now
\* is answered like one that was deleted.
DeletePostRowLocks(r) ==
  IF job[r].item \in posts THEN {Delete(PostRow(job[r].item))} ELSE {}

DeletePostRow(r) ==
  /\ pc[r] = "DeletePostRow"
  /\ Acquire(r, DeletePostRowLocks(r))
  /\ UNCHANGED work
  /\ Goto(r, IF job[r].item \in posts THEN "CascadePost" ELSE "CommitDeletePost")

\* post_id ... ON DELETE CASCADE of comments and collections, row by row.
ShelvedRows(r) == {CollectionRow(u, job[r].item) : u \in Collectors(job[r].item)}
CascadePostLocks(r) ==
  {d \in {Delete(CommentRow(c)) : c \in Thread(job[r].item)} \cup
         {Delete(row) : row \in ShelvedRows(r)} : ~Holds(r, d)}

CascadePost(r) ==
  /\ pc[r] = "CascadePost"
  /\ UNCHANGED work
  /\ IF CascadePostLocks(r) = {}
     THEN UNCHANGED locks /\ Goto(r, "CommitDeletePost")
     ELSE (\E d \in CascadePostLocks(r) : Acquire(r, {d})) /\ Goto(r, "CascadePost")

\* The likes of the post and of its comments stay: no foreign key ties them.
CommitDeletePost(r) ==
  LET p == job[r].item
      Shelved == {k \in collections : Holds(r, Delete(CollectionRow(k[1], k[2])))}
  IN  /\ pc[r] = "CommitDeletePost"
      /\ IF Holds(r, Delete(PostRow(p)))
         THEN /\ posts' = posts \ {p}
              /\ comments' = comments \ Doomed(r)
              /\ collections' = collections \ Shelved
              /\ filed' = [k \in DOMAIN filed |-> IF k \in Shelved THEN None ELSE filed[k]]
              /\ notifications' = {n \in notifications :
                                     n.post # p /\ n.comment \notin Doomed(r)}
         ELSE UNCHANGED <<posts, comments, collections, filed, notifications>>
      /\ Committed(r)
      /\ UNCHANGED <<folders, likes, like_count, collect_count, comment_count>>

PostDemand(r) ==
  CASE pc[r] = "DeletePostRow" -> DeletePostRowLocks(r)
    [] pc[r] = "CascadePost" -> CascadePostLocks(r)
    [] OTHER -> {}

PostStep(r) ==
  LookupOwn(r) \/ DeletePostRow(r) \/ CascadePost(r) \/ CommitDeletePost(r)

-----------------------------------------------------------------------------
(* The whole system *)

Demand(r) == LikeDemand(r) \cup CommentDemand(r) \cup CollectionDemand(r) \cup PostDemand(r)
WaitsFor(r) == Blockers(r, Demand(r))

\* r is on a cycle of waiting transactions: it belongs to every set of requests
\* that holds those r waits for and is closed under waiting.
OnCycle(r) ==
  \A S \in SUBSET Requests :
    (WaitsFor(r) \subseteq S /\ \A s \in S : WaitsFor(s) \subseteq S) => r \in S

\* deadlock_timeout expired in one of the transactions of the cycle: SQLSTATE
\* 40P01, which the handlers answer with 500.
DeadlockVictim(r) == InFlight(r) /\ OnCycle(r) /\ Rollback(r, "failed")

Start(r) == StartLike(r) \/ StartComment(r) \/ StartCollection(r) \/ StartDeletePost(r)
Step(r) == LikeStep(r) \/ CommentStep(r) \/ CollectionStep(r) \/ PostStep(r)

\* No request is being served: the server waits for one.
Quiet == (\A r \in Requests : ~InFlight(r)) /\ UNCHANGED vars

Init == StoreInit

Next ==
  \/ \E r \in Requests : Start(r) \/ Step(r) \/ Timeout(r) \/ DeadlockVictim(r)
  \/ Quiet

Spec == Init /\ [][Next]_vars

\* A goroutine whose next statement can run runs it, and PostgreSQL resolves
\* deadlocks.  Nothing obliges clients to call or statements to fail.
Fairness == \A r \in Requests : WF_vars(Step(r)) /\ WF_vars(DeadlockVictim(r))
FairSpec == Spec /\ Fairness

-----------------------------------------------------------------------------
(* Type invariant *)

\* A request is at a statement of the handler it called, with the kind of
\* input that handler takes.
Fits(step, j) ==
  /\ step = "idle" <=> j = NoJob
  /\ step \in LikeSteps => j.op \in LikeOps
  /\ step \in CreateSteps => j.op = "CreateComment"
  /\ step \in DeleteSteps => j.op = "DeleteComment"
  /\ step \in ShelfSteps => j.op \in {"Collect", "Uncollect"}
  /\ step \in FolderSteps => j.op = "DeleteFolder"
  /\ step \in PostSteps => j.op = "DeletePost"
  /\ j.op \in PostLikeOps \cup {"CreateComment", "Collect", "Uncollect", "DeletePost"}
       => j.item \in Posts
  /\ j.op \in CommentLikeOps \cup {"DeleteComment"} => j.item \in CommentIds
  /\ j.op = "CreateComment" => j.ref \in CommentIds \cup {None}
  /\ j.op \in {"Collect", "Uncollect"} => j.ref \in Folders \cup {None}
  /\ j.op = "DeleteFolder" => j.item \in Folders

TablesOK ==
  /\ posts \subseteq Posts /\ comments \subseteq CommentIds /\ folders \subseteq Folders
  /\ likes \subseteq Users \X Targets
  /\ collections \subseteq Users \X Posts
  /\ filed \in [Users \X Posts -> Folders \cup {None}]
  /\ like_count \in [Targets -> Nat]
  /\ collect_count \in [Posts -> Nat]
  /\ comment_count \in [Posts -> Nat]
  /\ notifications \subseteq Notifications

LockType == [req: Requests, row: Rows, mode: Modes]

ControlOK ==
  /\ locks \subseteq LockType
  /\ pc \in [Requests -> Steps]
  /\ job \in [Requests -> Jobs \cup {NoJob}]
  /\ \A r \in Requests : Fits(pc[r], job[r])
  /\ work \in [Requests -> Work]
  /\ answer \in [Requests -> Answers]

TypeOK == TablesOK /\ ControlOK

-----------------------------------------------------------------------------
(* Inductive invariant: what makes LikeCountExact and the type invariant hold. *)

\* A comment that anyone can name was written by a request that committed:
\* no identity becomes live a second time.
Written(c) == c \in Requests => job[c].op = "CreateComment" /\ pc[c] \in {"LoadAuthor", "done"}

NamesWritten ==
  /\ \A c \in comments : Written(c)
  /\ \A r \in Requests : Written(job[r].item) /\ Written(job[r].ref)

TypeInv == TypeOK /\ NamesWritten

\* Only open transactions hold locks, and no two hold conflicting ones; a
\* request that has not begun has written nothing.
LocksOK ==
  /\ \A r \in Requests : pc[r] = "idle" => work[r] = Blank
  /\ \A l \in locks : InFlight(l.req)
  /\ \A l, m \in locks : l.req # m.req /\ l.row = m.row => ~Conflict(l.mode, m.mode)

HoldsLike(r) == Holds(r, Delete(LikeRow(job[r].user, job[r].item)))
HoldsTarget(r) == Holds(r, Update(TargetRow(job[r].item)))

\* The target has been read, and it was there.
TargetRead(r) ==
  pc[r] \in {"NotifyLiked", "CommitLike"} \/ (pc[r] = "ReadLiked" /\ ~OnPost(r))

\* A vote that touched a row keeps the row locked and counts from the last
\* committed value, with the target locked if there is one.
VoteOK(r) ==
  /\ pc[r] \in {"AddLike", "RemoveLike"} =>
       work[r].rows = 0 /\ (pc[r] = "AddLike" <=> Adding(r))
  /\ pc[r] = "BumpLikes" => work[r].rows = 1
  /\ work[r].rows = 1 => HoldsLike(r) /\ (Liked(r) \in likes <=> ~Adding(r))
  /\ HoldsTarget(r) => work[r].rows = 1 /\ work[r].val = NewLikeCount(r)
  /\ work[r].rows = 1 /\ pc[r] # "BumpLikes" /\ (Live(job[r].item) \/ TargetRead(r))
       => HoldsTarget(r)

CountsOK == \A t \in Targets : like_count[t] = Cardinality(Likers(t))

LikeInv ==
  /\ TypeInv /\ LocksOK /\ CountsOK
  /\ \A r \in Requests : pc[r] \in LikeSteps => VoteOK(r)

-----------------------------------------------------------------------------
(* Safety: what the counters say about the tables *)

\* posts.like_count and comments.like_count are the number of likes of the
\* row, whatever likes, unlikes, rollbacks and deletions interleave: the row
\* count of the INSERT or DELETE decides whether the counter moves.
LikeCountExact == \A t \in posts \cup comments : like_count[t] = Cardinality(Likers(t))

\* posts.collect_count is the number of collections of the post, although
\* ON CONFLICT DO NOTHING, Uncollect and deletions race for the same row.
CollectCountExact == \A p \in posts : collect_count[p] = Cardinality(Collectors(p))

\* posts.comment_count is the number of comments of the post (the column is
\* documented as exactly that); DeleteComment's recount breaks it.
CommentCountExact == \A p \in posts : comment_count[p] = Cardinality(Thread(p))

\* When a like or unlike that changed a row is about to answer, the response
\* it will send agrees with the tables as they will be once it commits: the
\* flag is the user's own vote and the count includes it.
OwnVoteShown ==
  \A r \in Requests : pc[r] = "CommitLike" /\ work[r].rows = 1 =>
    /\ work[r].flag = Adding(r)
    /\ work[r].shown = Cardinality(IF Adding(r) THEN Likers(job[r].item) \cup {job[r].user}
                                   ELSE Likers(job[r].item) \ {job[r].user})

-----------------------------------------------------------------------------
(* Safety: what the rows say about each other *)

\* A comment belongs to a live post and answers a live comment of the same
\* post, and a notification leads to a live post and comment and tells its
\* recipient of someone else's action, though Create checks this in statements
\* of their own and the post or the parent may be deleted between them.
ThreadIntegrity ==
  /\ \A c \in comments :
       /\ Comment(c).post \in posts
       /\ Comment(c).parent # None =>
            /\ Comment(c).parent \in comments
            /\ Comment(Comment(c).parent).post = Comment(c).post
  /\ \A n \in notifications :
       /\ n.post \in posts /\ n.recipient # n.actor
       /\ n.comment # None => n.comment \in comments /\ Comment(n.comment).post = n.post

\* A collection is filed in a live folder of the user who collected, or in
\* none, whichever of Collect, Uncollect and DeleteFolder comes first.
FiledInOwnFolder ==
  \A k \in Users \X Posts : filed[k] # None =>
    k \in collections /\ filed[k] \in folders /\ FolderOwner[filed[k]] = k[1]

\* Once the deletion of a post, a comment or a folder is answered with
\* success, the row is gone with all that hangs on it, also what requests
\* that were already running tried to attach to it.
DeletedMeansGone ==
  \A r \in Requests : answer[r] = "ok" =>
    LET x == job[r].item
    IN  /\ job[r].op = "DeletePost" =>
             x \notin posts /\ Thread(x) = {} /\ Collectors(x) = {}
        /\ job[r].op = "DeleteComment" =>
             x \notin comments /\ \A c \in comments : Comment(c).parent # x
        /\ job[r].op = "DeleteFolder" =>
             x \notin folders /\ \A k \in collections : filed[k] # x

\* A like answered with success stays until its user takes it back: no other
\* request loses it.
AckedLikeKept ==
  \A r \in Requests : answer[r] = "ok" /\ job[r].op \in {"LikePost", "LikeComment"} =>
    \/ Liked(r) \in likes
    \/ \E s \in Requests : /\ job[s].op \in {"UnlikePost", "UnlikeComment"}
                           /\ Liked(s) = Liked(r)

\* A cycle of waiting transactions always runs through the deletion of a
\* post: the other handlers lock child rows before the post, DeletePost
\* locks the post before its children.  The locks on notifications, which
\* marks take too, are in Inbox.
DeadlockNeedsPostDeletion ==
  \A r \in Requests : OnCycle(r) => \E s \in Requests : job[s].op = "DeletePost" /\ OnCycle(s)

-----------------------------------------------------------------------------
(* Action properties and liveness *)

Drift(p) == comment_count[p] - Cardinality(Thread(p))

Recounts == \E r \in Requests : pc[r] = "CommitDeleteComment" /\ pc'[r] = "done"
DriftNeedsRecount == \A p \in posts \cap posts' : Drift(p)' # Drift(p) => Recounts

\* The comment counter of a live post parts from the comments, or comes back
\* to them, only when the deletion of a comment commits; creating never does.
DriftOnlyByRecount == [][DriftNeedsRecount]_vars

\* Every request is answered: a transaction waits for others only, those
\* finish or are on a cycle that PostgreSQL breaks.
EveryRequestAnswered ==
  \A r \in Requests : InFlight(r) ~> pc[r] = "done"

-----------------------------------------------------------------------------
(* Refinement *)

Shown(f, S) == [t \in S |-> IF Live(t) THEN f[t] ELSE 0]

LikeReactions == INSTANCE Reactions WITH
  Items <- Targets, Cascades <- FALSE, live <- posts \cup comments,
  marks <- likes, tally <- Shown(like_count, Targets)

CollectReactions == INSTANCE Reactions WITH
  Items <- Posts, Cascades <- TRUE, live <- posts,
  marks <- collections, tally <- Shown(collect_count, Posts)

\* Statement by statement, the like handlers implement atomic marking; so do
\* the collection handlers, and deletions take collections along.
VotesAreReactions == LikeReactions!Spec /\ CollectReactions!Spec
=============================================================================
