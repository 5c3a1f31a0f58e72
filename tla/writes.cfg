\* Two requests of ann and one of ben write posts and tags.
CONSTANTS
  ann = ann  ben = ben  p1 = p1  p2 = p2  r1 = r1  r2 = r2  r3 = r3  go = go  sql = sql
  None = None  Blank = Blank  TooLong = TooLong
  Posts = {p1, p2}
  OldPosts = {p1}
  Owner <- MCOwner
  Names = {go, sql}
  NameOf <- MCNameOf
  MaxTags = 3
  Requests = {r1, r2, r3}
  Caller <- MCCaller
  Bodies <- MCBodies
SPECIFICATION FairSpec
INVARIANTS PostIsOneWrite DeadlockNeedsTagOrder
PROPERTIES EveryWriteAnswered
CHECK_DEADLOCK FALSE
