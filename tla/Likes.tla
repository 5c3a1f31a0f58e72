------------------------------- MODULE Likes -------------------------------
(***************************************************************************)
(* The like handlers (internal/api/like.go): LikePost, UnlikePost,         *)
(* LikeComment and UnlikeComment.  Each is one transaction: insert or      *)
(* delete the row of likes, move the counter of the target if a row was    *)
(* touched, read what the response shows, notify the owner of the target.  *)
(* likes.target_id references no table.                                    *)
(***************************************************************************)
EXTENDS Store

PostLikeOps == {"LikePost", "UnlikePost"}
CommentLikeOps == {"LikeComment", "UnlikeComment"}
LikeOps == PostLikeOps \cup CommentLikeOps
LikeSteps == {"AddLike", "RemoveLike", "BumpLikes", "ReadLiked", "ReadTarget",
              "NotifyLiked", "CommitLike"}

OnPost(r) == job[r].op \in PostLikeOps
Adding(r) == job[r].op \in {"LikePost", "LikeComment"}
Liked(r) == <<job[r].user, job[r].item>>

\* A client names a target it has seen; by the time the statements run the
\* target may be gone.
StartLike(r) ==
  \E u \in Users :
    \/ \E op \in PostLikeOps, t \in posts :
         Begin(r, op, u, t, None, IF op = "LikePost" THEN "AddLike" ELSE "RemoveLike")
    \/ \E op \in CommentLikeOps, t \in comments :
         Begin(r, op, u, t, None, IF op = "LikeComment" THEN "AddLike" ELSE "RemoveLike")

\* The order of the reads differs: a post handler asks for the like and then
\* the post, a comment handler for the comment, then (after notifying) the like.
AfterBump(r) == IF OnPost(r) THEN "ReadLiked" ELSE "ReadTarget"
AfterLiked(r) == IF OnPost(r) THEN "ReadTarget" ELSE "CommitLike"
AfterTarget(r) == IF OnPost(r) THEN "CommitLike" ELSE "ReadLiked"

\* INSERT ... ON CONFLICT DO NOTHING waits for a transaction that inserted or
\* deleted the same key, then finds the key there or not.
AddLikeLocks(r) == {Delete(LikeRow(job[r].user, job[r].item))}

\* Slip: the row count of the INSERT is not looked at.
AddLike_IgnoresRows(r) ==
  /\ pc[r] = "AddLike"
  /\ Acquire(r, AddLikeLocks(r))
  /\ work' = [work EXCEPT ![r].rows = 1]
  /\ Goto(r, "BumpLikes")

AddLike(r) ==
  /\ pc[r] = "AddLike"
  /\ IF Liked(r) \in likes
     THEN /\ Blockers(r, AddLikeLocks(r)) = {}
          /\ UNCHANGED <<locks, work>>
          /\ Goto(r, AfterBump(r))
     ELSE /\ Acquire(r, AddLikeLocks(r))
          /\ work' = [work EXCEPT ![r].rows = 1]
          /\ Goto(r, "BumpLikes")

\* DELETE sees committed rows only: it does not wait for an uncommitted insert.
RemoveLikeLocks(r) ==
  IF Liked(r) \in likes THEN {Delete(LikeRow(job[r].user, job[r].item))} ELSE {}

\* Slip: the row count of the DELETE is not looked at.
RemoveLike_IgnoresRows(r) ==
  /\ pc[r] = "RemoveLike"
  /\ Acquire(r, RemoveLikeLocks(r))
  /\ work' = [work EXCEPT ![r].rows = 1]
  /\ Goto(r, "BumpLikes")

RemoveLike(r) ==
  /\ pc[r] = "RemoveLike"
  /\ Acquire(r, RemoveLikeLocks(r))
  /\ IF Liked(r) \in likes
     THEN work' = [work EXCEPT ![r].rows = 1] /\ Goto(r, "BumpLikes")
     ELSE UNCHANGED work /\ Goto(r, AfterBump(r))

\* UPDATE ... SET like_count = like_count + 1, or GREATEST(like_count - 1, 0).
\* On a target that is gone it updates no row, which is not an error.
BumpLikesLocks(r) == IF Live(job[r].item) THEN {Update(TargetRow(job[r].item))} ELSE {}

NewLikeCount(r) ==
  LET n == like_count[job[r].item]
  IN  IF Adding(r) THEN n + 1 ELSE IF n > 0 THEN n - 1 ELSE 0

BumpLikes(r) ==
  /\ pc[r] = "BumpLikes"
  /\ Acquire(r, BumpLikesLocks(r))
  /\ work' = [work EXCEPT ![r].val = NewLikeCount(r)]
  /\ Goto(r, AfterBump(r))

\* IsPostLiked / IsCommentLiked: committed rows and the transaction's own.
ReadLiked(r) ==
  /\ pc[r] = "ReadLiked"
  /\ work' = [work EXCEPT ![r].flag =
       IF work[r].rows = 1 THEN Adding(r) ELSE Liked(r) \in likes]
  /\ UNCHANGED locks
  /\ Goto(r, AfterLiked(r))

\* Slip: the read goes to the pool instead of the transaction.
ReadTarget_OutsideTx(r) ==
  /\ pc[r] = "ReadTarget"
  /\ Live(job[r].item)
  /\ work' = [work EXCEPT ![r].shown = like_count[job[r].item]]
  /\ UNCHANGED locks
  /\ Goto(r, AfterTarget(r))

\* GetPostByID / GetCommentByID: without a row the handler returns ErrNoRows,
\* the like is rolled back and the answer is 404.
ReadTarget(r) ==
  /\ pc[r] = "ReadTarget"
  /\ IF Live(job[r].item)
     THEN /\ work' = [work EXCEPT ![r].shown =
               IF Holds(r, Update(TargetRow(job[r].item))) THEN work[r].val
               ELSE like_count[job[r].item]]
          /\ UNCHANGED locks
          /\ Goto(r, IF Adding(r) /\ work[r].rows = 1 /\ Owner(job[r].item) # job[r].user
                     THEN "NotifyLiked" ELSE AfterTarget(r))
     ELSE Rollback(r, "missing")

\* CreatePostNotification / CreateCommentNotification: the foreign keys of the
\* new row reference the post, and the comment that was liked.
NoticePost(r) == IF OnPost(r) THEN job[r].item ELSE Comment(job[r].item).post
NoticeComment(r) == IF OnPost(r) THEN None ELSE job[r].item

NotifyLikedLocks(r) ==
  {Reference(PostRow(NoticePost(r)))} \cup
  IF OnPost(r) THEN {} ELSE {Reference(CommentRow(job[r].item))}

NotifyLiked(r) ==
  /\ pc[r] = "NotifyLiked"
  /\ Acquire(r, NotifyLikedLocks(r))
  /\ work' = [work EXCEPT ![r].note = TRUE]
  /\ Goto(r, AfterTarget(r))

\* Slip: DELETE FROM likes without the user in its WHERE clause.
CommitLike_AnyUser(r) ==
  /\ pc[r] = "CommitLike"
  /\ likes' = IF work[r].rows = 0 THEN likes
              ELSE IF Adding(r) THEN likes \cup {Liked(r)}
              ELSE {k \in likes : k[2] # job[r].item}
  /\ Committed(r)
  /\ UNCHANGED <<posts, comments, folders, collections, filed, like_count,
                 collect_count, comment_count, notifications>>

CommitLike(r) ==
  /\ pc[r] = "CommitLike"
  /\ likes' = IF work[r].rows = 0 THEN likes
              ELSE IF Adding(r) THEN likes \cup {Liked(r)} ELSE likes \ {Liked(r)}
  /\ like_count' = IF Holds(r, Update(TargetRow(job[r].item)))
                   THEN [like_count EXCEPT ![job[r].item] = work[r].val]
                   ELSE like_count
  /\ notifications' =
       IF work[r].note
       THEN notifications \cup
              {Notice(r, Owner(job[r].item), NoticePost(r), NoticeComment(r))}
       ELSE notifications
  /\ Committed(r)
  /\ UNCHANGED <<posts, comments, folders, collections, filed, collect_count,
                 comment_count>>

\* The row locks the next statement of a like handler needs.
LikeDemand(r) ==
  CASE pc[r] = "AddLike" -> AddLikeLocks(r)
    [] pc[r] = "RemoveLike" -> RemoveLikeLocks(r)
    [] pc[r] = "BumpLikes" -> BumpLikesLocks(r)
    [] pc[r] = "NotifyLiked" -> NotifyLikedLocks(r)
    [] OTHER -> {}

LikeStep(r) ==
  \/ AddLike(r) \/ RemoveLike(r) \/ BumpLikes(r) \/ ReadLiked(r)
  \/ ReadTarget(r) \/ NotifyLiked(r) \/ CommitLike(r)
=============================================================================
