\* All operations of three concurrent requests.
CONSTANTS
  alice = alice  bob = bob  p1 = p1  p2 = p2  c1 = c1  c2 = c2  shelf = shelf
  None = None
  Users = {alice, bob}
  Posts = {p1}
  Folders = {shelf}
  OldComments = {c1}
  Requests = {r1, r2, r3}
  Ops = {"LikePost", "UnlikePost", "LikeComment", "UnlikeComment", "CreateComment", "DeleteComment", "Collect", "Uncollect", "DeleteFolder", "DeletePost"}
  Author <- MCAuthor
  OldComment <- MCOldComment
  FolderOwner <- MCFolderOwner
  OldLikes <- MCOldLikes
  OldCollections <- MCOldCollections
  OldFiled <- MCOldFiled
SPECIFICATION Spec
SYMMETRY Symmetry
INVARIANTS LikeCountExact OwnVoteShown AckedLikeKept DeadlockNeedsPostDeletion CollectCountExact FiledInOwnFolder DeletedMeansGone
PROPERTIES VotesAreReactions
