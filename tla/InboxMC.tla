------------------------------- MODULE InboxMC -------------------------------
(***************************************************************************)
(* Inbox with one request of ann and two of ben, who follow each other.    *)
(* ben's comment on ann's post is liked by ann and by cat.                 *)
(***************************************************************************)
EXTENDS Inbox

CONSTANTS ann, ben, cat, r1, r2, r3, post, comment, like1, like2

MCCaller == [r \in Requests |-> IF r = r1 THEN ann ELSE ben]
MCOldFollows == {<<ann, ben>>, <<ben, ann>>}

MCAuthor == [x \in Items |-> IF x = post THEN ann ELSE ben]
MCTold == [n \in {like1, like2} |-> IF n = like1 THEN <<ann, ben>> ELSE <<cat, ben>>]
MCRefers == [x \in {comment, like1, like2} |-> IF x = comment THEN {post} ELSE {post, comment}]
MCReplies == [c \in Comments |-> 0]
=============================================================================
