\* Searches, suggestions and cleared histories.
CONSTANTS
  ann = ann  ben = ben  go = go  GoUp = GoUp  db = db  blank = blank
  r1 = r1  r2 = r2  r3 = r3
  None = None
  Users = {ann}
  Inputs = {GoUp, db, blank}
  Keyword <- MCKeyword
  Requests = {r1, r2, r3}
SPECIFICATION Spec
SYMMETRY Symmetry
INVARIANTS TermCountExact NewestSearchFirst
PROPERTIES ClearedStaysCleared
CHECK_DEADLOCK FALSE
