\* Any three calls by ann and whoever registers.
CONSTANTS
  ann = ann  s1 = s1  s2 = s2  k1 = k1  x = x  y = y
  None = None
  Requests = {1, 2, 3}
  Names = {x, y}
  OldUsers = {ann}
  OldName <- MCOldName
  OldSessions = {s1, s2}
  OldKeys = {k1}
  OldOwner <- MCOldOwner
SPECIFICATION FairSpec
INVARIANTS NamesUnique RefreshReplaces AllSessionsEnded DeadlockNeedsTwoOfAKind
PROPERTIES EndedOnceByOwner EveryCallAnswered
CHECK_DEADLOCK FALSE
