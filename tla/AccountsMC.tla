------------------------------ MODULE AccountsMC ------------------------------
(***************************************************************************)
(* Accounts with ann, who is called x and has two sessions and a key;      *)
(* others may register.                                                    *)
(***************************************************************************)
EXTENDS Accounts

CONSTANTS ann, s1, s2, k1, x, y

MCOldName == [u \in {ann} |-> x]
MCOldOwner == [i \in {s1, s2, k1} |-> ann]
=============================================================================
