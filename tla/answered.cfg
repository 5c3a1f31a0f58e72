\* Every request is answered, also when transactions deadlock.
CONSTANTS
  alice = alice  bob = bob  p1 = p1  p2 = p2  c1 = c1  c2 = c2  shelf = shelf
  None = None
  Users = {alice, bob}
  Posts = {p1}
  Folders = {}
  OldComments = {c1, c2}
  Requests = {r1, r2}
  Ops = {"LikeComment", "UnlikePost", "CreateComment", "DeleteComment", "Uncollect", "DeletePost"}
  Author <- MCAuthor
  OldComment <- MCOldComment
  FolderOwner <- MCFolderOwner
  OldLikes <- MCOldLikes
  OldCollections <- MCOldCollections
  OldFiled <- MCOldFiled
SPECIFICATION FairSpec
PROPERTIES EveryRequestAnswered
