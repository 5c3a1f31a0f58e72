-------------------------------- MODULE FeedMC --------------------------------
(***************************************************************************)
(* Feed with four posts by two authors; the first two share a created_at,  *)
(* and their ids decide.                                                   *)
(***************************************************************************)
EXTENDS Feed

CONSTANTS ann, ben, p1, p2, p3, p4

MCAuthor == [p \in Posts |-> IF p \in {p1, p3} THEN ann ELSE ben]
MCCreatedAt == [p \in Posts |-> CASE p = p3 -> 2 [] p = p4 -> 3 [] OTHER -> 1]
MCId == [p \in Posts |-> CASE p = p1 -> 1 [] p = p2 -> 2 [] p = p3 -> 4 [] p = p4 -> 3]
=============================================================================
