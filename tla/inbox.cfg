\* Follows, marks of notifications, and deletions that take notifications along.
CONSTANTS
  ann = ann  ben = ben  cat = cat  r1 = r1  r2 = r2  r3 = r3
  post = post  comment = comment  like1 = like1  like2 = like2
  None = None
  Users = {ann, ben, cat}
  Targets = {ann, ben, nobody}
  Requests = {r1, r2, r3}
  Caller <- MCCaller
  OldFollows <- MCOldFollows
  Posts = {post}
  Comments = {comment}
  Author <- MCAuthor
  Told <- MCTold
  Refers <- MCRefers
  Replies <- MCReplies
SPECIFICATION FairSpec
INVARIANTS NoticesMatchFollows AllReadMeansRead DeadlockNeedsScans
PROPERTIES ReadOnceByRecipient EveryRequestAnswered
CHECK_DEADLOCK FALSE
