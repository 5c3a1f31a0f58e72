------------------------------ MODULE Comments ------------------------------
(***************************************************************************)
(* The comment handlers that change state (internal/api/comment.go):       *)
(* Create and Delete.  Creating adds one to posts.comment_count; deleting  *)
(* a comment cascades to its replies, so the handler recomputes the count  *)
(* from the comments table instead.                                        *)
(***************************************************************************)
EXTENDS Store

CreateSteps == {"LookupThread", "InsertComment", "BumpComments", "CommitComment",
                "LoadAuthor"}
DeleteSteps == {"LookupComment", "DeleteCommentRow", "CascadeReplies",
                "SnapshotCount", "RecountComments", "CommitDeleteComment"}
CommentSteps == CreateSteps \cup DeleteSteps

\* A client names a post and maybe a comment it replies to; nothing makes the
\* two belong together before the handler looks.
StartComment(r) ==
  \E u \in Users :
    \/ \E p \in posts, parent \in comments \cup {None} :
         Begin(r, "CreateComment", u, p, parent, "LookupThread")
    \/ \E c \in comments : Begin(r, "DeleteComment", u, c, None, "LookupComment")

-----------------------------------------------------------------------------
(* Create *)

Replying(r) == job[r].ref # None
Recipient(r) == IF Replying(r) THEN Comment(job[r].ref).user ELSE Author[job[r].item]

\* GetPostByID, then GetCommentByID: the columns read never change, so the two
\* reads are one step.
LookupThread(r) ==
  /\ pc[r] = "LookupThread"
  /\ IF ~Live(job[r].item) \/ (Replying(r) /\ ~Live(job[r].ref))
     THEN Rollback(r, "missing")
     ELSE IF Replying(r) /\ Comment(job[r].ref).post # job[r].item
     THEN Rollback(r, "bad")
     ELSE Goto(r, "InsertComment") /\ UNCHANGED <<locks, work>>

\* Slip: comments without foreign keys.
InsertCommentLocks_NoReferences(r) == {}

\* The foreign keys of the new row: if the post or the parent was deleted in
\* the meantime the INSERT fails, and the answer is 500.
InsertCommentLocks(r) ==
  {Reference(PostRow(job[r].item))} \cup
  IF Replying(r) THEN {Reference(CommentRow(job[r].ref))} ELSE {}

InsertComment(r) ==
  /\ pc[r] = "InsertComment"
  /\ IF Live(job[r].item) /\ (Replying(r) => Live(job[r].ref))
     THEN /\ Acquire(r, InsertCommentLocks(r))
          /\ work' = [work EXCEPT ![r].rows = 1]
          /\ Goto(r, "BumpComments")
     ELSE Blockers(r, InsertCommentLocks(r)) = {} /\ Rollback(r, "failed")

\* Slip: the count is read and written back without a row lock.
BumpCommentsLocks_None(r) == {}

\* Slip: SELECT ... FOR UPDATE before the count is written.
BumpCommentsLocks_ForUpdate(r) == {Delete(PostRow(job[r].item))}

\* IncrementPostCommentCount, then CreateCommentNotification, whose foreign
\* keys need only locks the transaction has by now.
BumpCommentsLocks(r) == {Update(PostRow(job[r].item))}

BumpComments(r) ==
  /\ pc[r] = "BumpComments"
  /\ Acquire(r, BumpCommentsLocks(r))
  /\ work' = [work EXCEPT ![r].val = comment_count[job[r].item] + 1,
                          ![r].note = (Recipient(r) # job[r].user)]
  /\ Goto(r, "CommitComment")

CommitComment(r) ==
  /\ pc[r] = "CommitComment"
  /\ comments' = comments \cup {r}
  /\ comment_count' = [comment_count EXCEPT ![job[r].item] = work[r].val]
  /\ notifications' = IF work[r].note
                      THEN notifications \cup {Notice(r, Recipient(r), job[r].item, r)}
                      ELSE notifications
  /\ \/ Close(r, "LoadAuthor") /\ UNCHANGED answer
     \/ Close(r, "done") /\ Reply(r, "failed")
  /\ UNCHANGED <<posts, folders, likes, collections, filed, like_count, collect_count>>

\* The author is read for the response after the comment is committed: when
\* this fails (Timeout) the client gets 500 for a comment that exists.
LoadAuthor(r) == pc[r] = "LoadAuthor" /\ Rollback(r, "ok")

-----------------------------------------------------------------------------
(* Delete *)

\* Outside the transaction.
LookupComment(r) ==
  /\ pc[r] = "LookupComment"
  /\ IF ~Live(job[r].item) THEN Rollback(r, "missing")
     ELSE IF Comment(job[r].item).user # job[r].user THEN Rollback(r, "forbidden")
     ELSE Goto(r, "DeleteCommentRow") /\ UNCHANGED <<locks, work>>

DeleteCommentRowLocks(r) ==
  IF Live(job[r].item) THEN {Delete(CommentRow(job[r].item))} ELSE {}

DeleteCommentRow(r) ==
  /\ pc[r] = "DeleteCommentRow"
  /\ IF Live(job[r].item)
     THEN /\ Acquire(r, DeleteCommentRowLocks(r))
          /\ work' = [work EXCEPT ![r].rows = 1]
          /\ Goto(r, "CascadeReplies")
     ELSE Rollback(r, "missing")

\* parent_id ... ON DELETE CASCADE, one row at a time and transitively.
Doomed(r) == {c \in comments : Holds(r, Delete(CommentRow(c)))}
RepliesLeft(r) == {c \in comments \ Doomed(r) : Comment(c).parent \in Doomed(r)}
CascadeRepliesLocks(r) == {Delete(CommentRow(c)) : c \in RepliesLeft(r)}

CascadeReplies(r) ==
  /\ pc[r] = "CascadeReplies"
  /\ UNCHANGED work
  /\ IF RepliesLeft(r) = {}
     THEN UNCHANGED locks /\ Goto(r, "SnapshotCount")
     ELSE /\ \E c \in RepliesLeft(r) : Acquire(r, {Delete(CommentRow(c))})
          /\ Goto(r, "CascadeReplies")

\* RecalculatePostCommentCount is one UPDATE in two steps: its subquery counts
\* in the snapshot the statement began with, and the row lock may have to be
\* waited for after that.  The row is then read again, the subquery is not.
SnapshotCount(r) ==
  /\ pc[r] = "SnapshotCount"
  /\ work' = [work EXCEPT ![r].val =
       Cardinality(Thread(Comment(job[r].item).post) \ Doomed(r))]
  /\ UNCHANGED locks
  /\ Goto(r, "RecountComments")

RecountCommentsLocks(r) == {Update(PostRow(Comment(job[r].item).post))}

\* The GetPostByID that follows only reads back the value just written.
RecountComments(r) ==
  /\ pc[r] = "RecountComments"
  /\ Acquire(r, RecountCommentsLocks(r))
  /\ UNCHANGED work
  /\ Goto(r, "CommitDeleteComment")

\* Slip: notifications.comment_id without a foreign key.
CommitDeleteComment_KeepsNotices(r) ==
  /\ pc[r] = "CommitDeleteComment"
  /\ comments' = comments \ Doomed(r)
  /\ comment_count' = [comment_count EXCEPT ![Comment(job[r].item).post] = work[r].val]
  /\ Committed(r)
  /\ UNCHANGED <<posts, folders, likes, collections, filed, like_count, collect_count,
                 notifications>>

\* notifications.comment_id ... ON DELETE CASCADE.
CommitDeleteComment(r) ==
  /\ pc[r] = "CommitDeleteComment"
  /\ comments' = comments \ Doomed(r)
  /\ comment_count' = [comment_count EXCEPT ![Comment(job[r].item).post] = work[r].val]
  /\ notifications' = {n \in notifications : n.comment \notin Doomed(r)}
  /\ Committed(r)
  /\ UNCHANGED <<posts, folders, likes, collections, filed, like_count, collect_count>>

CommentDemand(r) ==
  CASE pc[r] = "InsertComment" -> InsertCommentLocks(r)
    [] pc[r] = "BumpComments" -> BumpCommentsLocks(r)
    [] pc[r] = "DeleteCommentRow" -> DeleteCommentRowLocks(r)
    [] pc[r] = "CascadeReplies" -> CascadeRepliesLocks(r)
    [] pc[r] = "RecountComments" -> RecountCommentsLocks(r)
    [] OTHER -> {}

CommentStep(r) ==
  \/ LookupThread(r) \/ InsertComment(r) \/ BumpComments(r) \/ CommitComment(r)
  \/ LoadAuthor(r) \/ LookupComment(r) \/ DeleteCommentRow(r) \/ CascadeReplies(r)
  \/ SnapshotCount(r) \/ RecountComments(r) \/ CommitDeleteComment(r)
=============================================================================
