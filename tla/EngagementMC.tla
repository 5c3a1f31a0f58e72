---------------------------- MODULE EngagementMC ----------------------------
(***************************************************************************)
(* Small instances of Engagement.  Two users; alice wrote the posts, bob   *)
(* the old comment c1, which alice answered with c2; bob owns the folder.  *)
(***************************************************************************)
EXTENDS Engagement, TLC

CONSTANTS alice, bob, p1, p2, c1, c2, shelf

MCAuthor == [p \in Posts |-> alice]
MCOldComment ==
  [c \in OldComments |->
     IF c = c1 THEN [post |-> p1, user |-> bob, parent |-> None]
     ELSE [post |-> p1, user |-> alice, parent |-> c1]]
MCFolderOwner == [f \in Folders |-> bob]

\* bob already likes the post and c1, and has the post on his shelf.
MCOldLikes == {<<bob, t>> : t \in {p1, c1} \cap (Posts \cup OldComments)}
MCOldCollections == {<<bob, p1>>}
MCOldFiled ==
  [k \in Users \X Posts |-> IF k = <<bob, p1>> /\ shelf \in Folders THEN shelf ELSE None]

\* Requests are interchangeable: their identities only name rows they create.
Symmetry == Permutations(Requests)
=============================================================================
