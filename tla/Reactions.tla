------------------------------ MODULE Reactions ------------------------------
(***************************************************************************)
(* What a like or a collection promises, without requests, transactions or *)
(* locks: users mark live items, each at most once, and the tally an item  *)
(* shows moves in the same step as the mark.  When an item vanishes its    *)
(* marks either go with it (Cascades) or stay behind.                      *)
(***************************************************************************)
EXTENDS Naturals, FiniteSets

CONSTANTS Users, Items, Cascades

VARIABLES live, marks, tally

MarksOf(t) == {u \in Users : <<u, t>> \in marks}

Init ==
  /\ live \subseteq Items
  /\ marks \subseteq Users \X live
  /\ tally = [t \in Items |-> Cardinality(MarksOf(t))]

Mark(u, t) ==
  /\ t \in live /\ <<u, t>> \notin marks
  /\ marks' = marks \cup {<<u, t>>}
  /\ tally' = [tally EXCEPT ![t] = @ + 1]
  /\ UNCHANGED live

Unmark(u, t) ==
  /\ t \in live /\ <<u, t>> \in marks
  /\ marks' = marks \ {<<u, t>>}
  /\ tally' = [tally EXCEPT ![t] = @ - 1]
  /\ UNCHANGED live

Appear(t) ==
  /\ t \in Items \ live /\ MarksOf(t) = {}
  /\ live' = live \cup {t}
  /\ UNCHANGED <<marks, tally>>

Vanish(S) ==
  /\ live' = live \ S
  /\ marks' = IF Cascades THEN {m \in marks : m[2] \notin S} ELSE marks
  /\ tally' = [t \in Items |-> IF t \in S THEN 0 ELSE tally[t]]

Next ==
  \/ \E u \in Users, t \in Items : Mark(u, t) \/ Unmark(u, t)
  \/ \E t \in Items : Appear(t)
  \/ \E S \in SUBSET live : Vanish(S)

Spec == Init /\ [][Next]_<<live, marks, tally>>
=============================================================================
