\* Walks over the three feeds while posts come and go.
CONSTANTS
  ann = ann  ben = ben  p1 = p1  p2 = p2  p3 = p3  p4 = p4
  None = None
  Posts = {p1, p2, p3, p4}
  Users = {ann, ben}
  Author <- MCAuthor
  CreatedAt <- MCCreatedAt
  Id <- MCId
  Limits = {1, 2}
SPECIFICATION FeedSpec
INVARIANTS NewestFirst NothingSkipped
