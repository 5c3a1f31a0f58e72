------------------------------- MODULE WritesMC -------------------------------
(***************************************************************************)
(* Writes with a post of ann's, one she may yet create, and tags that are  *)
(* written in two ways and in two orders.                                  *)
(***************************************************************************)
EXTENDS Writes

CONSTANTS ann, ben, p1, p2, r1, r2, r3, go, sql

MCOwner == [p \in Posts |-> ann]
MCCaller == [r \in Requests |-> IF r = r3 THEN ben ELSE ann]
MCNameOf ==
  [s \in {"go", "#Go", "sql", " ", "long"} |->
     CASE s \in {"go", "#Go"} -> go [] s = "sql" -> sql [] s = " " -> Blank [] OTHER -> TooLong]
MCBodies ==
  {[tags |-> <<"#Go", "sql", "go">>, media |-> FALSE],
   [tags |-> <<"sql", " ", "go">>, media |-> TRUE],
   [tags |-> <<"long">>, media |-> FALSE], [tags |-> <<"go", "go", "go", "go">>, media |-> FALSE]}
=============================================================================
