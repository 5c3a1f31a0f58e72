----------------------------- MODULE SearchesMC -----------------------------
(* Two keywords, one of them written in two ways, and a blank. *)
EXTENDS Searches, TLC

CONSTANTS ann, ben, go, GoUp, db, blank, r1, r2, r3

MCKeyword == go :> go @@ GoUp :> go @@ db :> db @@ blank :> None

Symmetry == Permutations(Requests)
=============================================================================
