\* Comments and replies on two posts, with deletions of both.
CONSTANTS
  alice = alice  bob = bob  p1 = p1  p2 = p2  c1 = c1  c2 = c2  shelf = shelf
  None = None
  Users = {alice, bob}
  Posts = {p1, p2}
  Folders = {}
  OldComments = {c1, c2}
  Requests = {r1, r2, r3}
  Ops = {"CreateComment", "DeleteComment", "DeletePost", "LikeComment"}
  Author <- MCAuthor
  OldComment <- MCOldComment
  FolderOwner <- MCFolderOwner
  OldLikes <- MCOldLikes
  OldCollections <- MCOldCollections
  OldFiled <- MCOldFiled
SPECIFICATION Spec
SYMMETRY Symmetry
INVARIANTS ThreadIntegrity DeletedMeansGone
PROPERTIES DriftOnlyByRecount
