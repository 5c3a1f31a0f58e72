----------------------------- MODULE InboxProofs -----------------------------
(***************************************************************************)
(* Proofs about Inbox, for any number of users, follows and concurrent     *)
(* requests.  The inductive invariant, Inv, says three things beside the   *)
(* types: what each request may hold at the point it has reached (Fits:    *)
(* AtPoint, HoldsFollow, HoldsMarks, HoldsCascade), that no row is held by *)
(* two requests (Exclusive), and the count the notifications keep          *)
(* (NoticesMatchFollows).                                                  *)
(***************************************************************************)
EXTENDS Inbox, FiniteSetTheorems, WellFoundedInduction, TLAPS

-----------------------------------------------------------------------------
(* The inductive invariant *)

\* The statements request q of caller c may be at.
AtPoint(q) ==
  /\ q.at \in {"idle", "done"} => q.op = "none"
  /\ q.at = "lookup" => q.op \in {"follow", "unfollow", "delete"}
  /\ q.at \in {"notify", "flag", "count"} => q.op \in {"follow", "unfollow"}
  /\ q.at = "notify" => q.wrote /\ q.op = "follow"
  /\ q.at \in {"write", "notify", "flag", "count", "commit"}
     /\ q.op \in {"follow", "unfollow"} => q.on \in Users
  /\ q.at = "write" => q.op # "markAllRead"
  /\ q.at = "scan" => q.op = "markAllRead"
  /\ q.at = "rows" => q.op \in {"markAllRead", "delete"}
  /\ q.at = "recount" => q.op = "delete" /\ q.on \in Comments
  /\ q.op = "delete" => q.on \in Items
  /\ q.at # "done" => q.status = "none"

\* A transaction that has written a follow will make the pair follow, and
\* bring the notification named after it; one that has written an unfollow
\* deletes a follow that stands.
HoldsFollow(r, q) ==
  /\ q.wrote => /\ q.op \in {"follow", "unfollow"}
                /\ q.at \in {"notify", "flag", "count", "commit"}
                /\ <<Caller[r], q.on>> \in follows <=> q.op = "unfollow"
  /\ q.note = IF q.wrote /\ q.op = "follow" /\ q.at # "notify" THEN r ELSE None
  /\ q.at # "done" => notice[r] = None

\* The rows a mark has taken or has still to visit are its caller's, and no
\* unread row MarkAllRead found is forgotten, or vanishes unless by a cascade.
HoldsMarks(r, q) ==
  /\ q.op # "delete" => q.took \subseteq Inbox(Caller[r])
  /\ q.todo # {} => q.at = "rows" /\ q.op = "markAllRead"
  /\ \A n \in q.todo : notice[n] = None \/ n \in Inbox(Caller[r])
  /\ q.scope # {} => q.op = "markAllRead" \/ q.at = "done"
  /\ \A n \in q.todo \cup q.scope : notice[n] = None => n \in DOMAIN Told
  /\ q.at # "done" \/ q.status = "ok" =>
       \A n \in q.scope : n \in q.todo \cup q.took \/ read_at[n] # None \/ notice[n] = None

\* The deletion of comment c takes no post, and comments that are no higher
\* above their replies than c is.
AlongReplies(c, took) ==
  took \cap Posts = {} /\ \A n \in took \cap Comments : Replies[n] <= Replies[c]

\* The rows a deletion has taken are there, and hang on the one it was asked
\* to delete.
HoldsCascade(r, q) ==
  /\ q.took # {} => q.at \in {"rows", "recount", "commit"}
  /\ q.op = "delete" /\ q.at \in {"rows", "recount"} => q.on \in q.took
  /\ q.op = "delete" =>
       \A n \in q.took :
         /\ There(n)
         /\ n # q.on => n \in Comments \cup DOMAIN Told /\ Refers[n] \cap q.took # {}
  /\ q.op = "delete" /\ q.on \in Comments => AlongReplies(q.on, q.took)

Fits(r, q) == AtPoint(q) /\ HoldsFollow(r, q) /\ HoldsMarks(r, q) /\ HoldsCascade(r, q)

\* q, a request of r, holds nothing any other request holds.
Alone(r, q) ==
  \A s \in Requests \ {r} :
    /\ q.wrote /\ req[s].wrote => <<Caller[r], q.on>> # Pair(s)
    /\ q.took \cap req[s].took = {}

Exclusive == \A r \in Requests : Alone(r, req[r])

Inv ==
  /\ TypeOK /\ Exclusive
  /\ \A r \in Requests : Fits(r, req[r])
  /\ NoticesMatchFollows

-----------------------------------------------------------------------------
(* The inductive invariant is one *)

\* What is said of a request depends on nothing but its own record and the
\* tables: a statement of r that leaves the tables alone keeps the invariant
\* if what it makes of r's record is right.
LEMMA StatementKeeps ==
  ASSUME Inv, NEW r \in Requests, NEW q \in Requested,
         Set(r, q), UNCHANGED tables,
         Fits(r, q), Alone(r, q)
  PROVE  Inv'
<1>1. /\ req' \in [Requests -> Requested] /\ req'[r] = q
      /\ \A s \in Requests \ {r} : req'[s] = req[s]
  BY DEF Inv, TypeOK, Set
<1>2. TypeOK'
  BY <1>1 DEF Inv, TypeOK, tables
<1>3. Exclusive'
  BY <1>1 DEF Inv, Exclusive, Alone, Pair
<1>4. ASSUME NEW s \in Requests PROVE Fits(s, req[s])'
  <2>1. PICK o : o = req'[s] /\ Fits(s, o)
    BY <1>1 DEF Inv
  <2>2. QED
    BY <2>1 DEF Fits, AtPoint, HoldsFollow, HoldsMarks, HoldsCascade, There, Inbox, tables
<1>5. NoticesMatchFollows'
  BY DEF Inv, NoticesMatchFollows, tables
<1>6. QED
  BY <1>2, <1>3, <1>4, <1>5 DEF Inv

\* A request that has just begun holds nothing.
LEMMA FreshHoldsNothing ==
  ASSUME Inv, NEW r \in Requests, notice[r] = None,
         NEW op \in Ops, NEW on \in Targets \cup Rows \cup {None},
         NEW at \in {"lookup", "write", "scan"},
         AtPoint(Fresh(op, on, at))
  PROVE  LET q == Fresh(op, on, at) IN q \in Requested /\ Fits(r, q) /\ Alone(r, q)
BY DEF Fresh, Requested, Points, Statuses, Fits, AtPoint, HoldsFollow, HoldsMarks, HoldsCascade,
       AlongReplies, Alone

\* A request that is answered without a commit holds nothing.
LEMMA RefusalKeeps ==
  ASSUME Inv, NEW r \in Requests, NEW status \in {"missing", "forbidden", "failed"},
         Answer(r, status), UNCHANGED tables
  PROVE  Inv'
<1> DEFINE q == [Fresh("none", None, "done") EXCEPT !.status = status, !.scope = {}]
<1>1. q \in Requested /\ Set(r, q)
  BY DEF Answer, Fresh, Requested, Points, Statuses
<1>2. Fits(r, q) /\ Alone(r, q)
  BY DEF Fresh, Fits, AtPoint, HoldsFollow, HoldsMarks, HoldsCascade, Alone
<1>3. QED
  BY <1>1, <1>2, StatementKeeps

\* The requests that begin.
LEMMA StartKeeps ==
  ASSUME Inv, NEW r \in Requests, Start(r)
  PROVE  Inv'
<1>1. req[r].at = "idle" => notice[r] = None
  BY DEF Inv, Fits, HoldsFollow
<1>2. ASSUME NEW v \in Targets, StartFollow(r, v) \/ StartUnfollow(r, v) PROVE Inv'
  <2>1. PICK op \in {"follow", "unfollow"} :
          Set(r, Fresh(op, v, "lookup")) /\ req[r].at = "idle"
    BY <1>2 DEF StartFollow, StartUnfollow
  <2>2. AtPoint(Fresh(op, v, "lookup"))
    BY DEF AtPoint, Fresh
  <2>3. op \in Ops
    BY DEF Ops
  <2>4. QED
    BY <1>1, <1>2, <2>1, <2>2, <2>3, FreshHoldsNothing, StatementKeeps DEF StartFollow, StartUnfollow
<1>3. ASSUME NEW n \in Notices, StartMarkRead(r, n) PROVE Inv'
  <2>1. AtPoint(Fresh("markRead", n, "write")) /\ "markRead" \in Ops
    BY DEF AtPoint, Fresh, Ops
  <2>2. QED
    BY <1>1, <1>3, <2>1, FreshHoldsNothing, StatementKeeps DEF StartMarkRead, Rows
<1>4. ASSUME StartMarkAllRead(r) PROVE Inv'
  <2>1. AtPoint(Fresh("markAllRead", None, "scan")) /\ "markAllRead" \in Ops
    BY DEF AtPoint, Fresh, Ops
  <2>2. QED
    BY <1>1, <1>4, <2>1, FreshHoldsNothing, StatementKeeps DEF StartMarkAllRead
<1>5. ASSUME NEW x \in Items, StartDelete(r, x) PROVE Inv'
  <2>1. AtPoint(Fresh("delete", x, "lookup")) /\ "delete" \in Ops
    BY DEF AtPoint, Fresh, Ops
  <2>2. QED
    BY <1>1, <1>5, <2>1, FreshHoldsNothing, StatementKeeps DEF StartDelete, Rows
<1>6. QED
  BY <1>2, <1>3, <1>4, <1>5 DEF Start

\* Follow and Unfollow, up to the commit.
LEMMA FollowKeeps ==
  ASSUME Inv, NEW r \in Requests,
         \/ LookupTarget(r) \/ AddFollow(r) \/ RemoveFollow(r)
         \/ Notify(r) \/ ReadFlag(r) \/ ReadCount(r)
  PROVE  Inv'
<1> USE DEF Points
<1> DEFINE q == req[r]
<1>0. /\ q \in Requested /\ Fits(r, q) /\ Alone(r, q)
      /\ UNCHANGED tables
  BY DEF Inv, TypeOK, Exclusive, LookupTarget, AddFollow, RemoveFollow, Notify, ReadFlag, ReadCount
<1>1. ASSUME LookupTarget(r) PROVE Inv'
  <2>1. CASE q.on \in Users
    <3> DEFINE new == [q EXCEPT !.at = "write"]
    <3>1. Set(r, new) /\ new \in Requested
      BY <1>0, <1>1, <2>1 DEF LookupTarget, Requested
    <3>2. Fits(r, new) /\ Alone(r, new)
      BY <1>0, <1>1, <2>1 DEF LookupTarget, Requested, Fits, AtPoint, HoldsFollow, HoldsMarks, HoldsCascade, Alone
    <3>3. QED
      BY <1>0, <3>1, <3>2, StatementKeeps
  <2>2. CASE q.on \notin Users
    BY <1>0, <1>1, <2>2, RefusalKeeps DEF LookupTarget
  <2>3. QED
    BY <2>1, <2>2
<1>2. ASSUME AddFollow(r) PROVE Inv'
  <2> DEFINE adds == Pair(r) \notin follows
             new == [q EXCEPT !.wrote = adds, !.at = IF adds THEN "notify" ELSE "flag"]
  <2>1. Set(r, new) /\ new \in Requested
    BY <1>0, <1>2 DEF AddFollow, Requested
  <2>2. Fits(r, new)
    BY <1>0, <1>2 DEF AddFollow, Requested, Fits, AtPoint, HoldsFollow, HoldsMarks, HoldsCascade, Pair
  <2>3. Alone(r, new)
    BY <1>0, <1>2 DEF AddFollow, Requested, Alone, Unlocked, HoldsPair, Pair
  <2>4. QED
    BY <1>0, <2>1, <2>2, <2>3, StatementKeeps
<1>3. ASSUME RemoveFollow(r) PROVE Inv'
  <2> DEFINE removes == Pair(r) \in follows
             new == [q EXCEPT !.wrote = removes, !.at = "flag"]
  <2>0. removes \in BOOLEAN /\ Set(r, new)
    BY <1>3 DEF RemoveFollow
  <2> HIDE DEF removes
  <2>1. Set(r, new) /\ new \in Requested
    BY <1>0, <2>0 DEF Requested
  <2> USE DEF removes
  <2>2. Fits(r, new)
    BY <1>0, <1>3 DEF RemoveFollow, Requested, Fits, AtPoint, HoldsFollow, HoldsMarks, HoldsCascade, Pair
  <2>3. Alone(r, new)
    BY <1>0, <1>3 DEF RemoveFollow, Requested, Alone, Unlocked, HoldsPair, Pair
  <2>4. QED
    BY <1>0, <2>1, <2>2, <2>3, StatementKeeps
<1>4. ASSUME Notify(r) PROVE Inv'
  <2> DEFINE new == [q EXCEPT !.note = r, !.at = "flag"]
  <2>1. Set(r, new) /\ new \in Requested
    BY <1>0, <1>4 DEF Notify, Requested
  <2>2. Fits(r, new) /\ Alone(r, new)
    BY <1>0, <1>4 DEF Notify, Requested, Fits, AtPoint, HoldsFollow, HoldsMarks, HoldsCascade, Alone
  <2>3. QED
    BY <1>0, <2>1, <2>2, StatementKeeps
<1>5. ASSUME ReadFlag(r) PROVE Inv'
  <2> DEFINE follower == Pair(r) \in Seen(r)
             new == [q EXCEPT !.shown = follower, !.at = "count"]
  <2>0. follower \in BOOLEAN /\ q.at = "flag" /\ Set(r, new)
    BY <1>5 DEF ReadFlag
  <2> HIDE DEF follower
  <2>1. Set(r, new) /\ new \in Requested
    BY <1>0, <2>0 DEF Requested
  <2>2. Fits(r, new) /\ Alone(r, new)
    BY <1>0, <1>5 DEF ReadFlag, Requested, Fits, AtPoint, HoldsFollow, HoldsMarks, HoldsCascade, Alone
  <2>3. QED
    BY <1>0, <2>1, <2>2, StatementKeeps
<1>6. ASSUME ReadCount(r) PROVE Inv'
  <2> DEFINE many == Cardinality({u \in Users : <<u, q.on>> \in Seen(r)})
             new == [q EXCEPT !.count = many, !.at = "commit"]
  <2>1. many \in Nat
    BY InboxAssumption, FS_Subset, FS_CardinalityType
  <2> HIDE DEF many
  <2>2. Set(r, new) /\ new \in Requested
    BY <1>0, <1>6, <2>1 DEF ReadCount, Requested, many
  <2>3. Fits(r, new) /\ Alone(r, new)
    BY <1>0, <1>6 DEF ReadCount, Requested, Fits, AtPoint, HoldsFollow, HoldsMarks, HoldsCascade, Alone
  <2>4. QED
    BY <1>0, <2>2, <2>3, StatementKeeps
<1>7. QED
  BY <1>1, <1>2, <1>3, <1>4, <1>5, <1>6

\* The two marks, up to the commit.
LEMMA MarkKeeps ==
  ASSUME Inv, NEW r \in Requests,
         MarkRead(r) \/ ScanUnread(r)
  PROVE  Inv'
<1> USE DEF Points
<1> DEFINE q == req[r]
<1>0. /\ q \in Requested /\ Fits(r, q) /\ Alone(r, q)
      /\ UNCHANGED tables
  BY DEF Inv, TypeOK, Exclusive, MarkRead, ScanUnread
<1>1. ASSUME MarkRead(r) PROVE Inv'
  <2>1. CASE q.on \in Inbox(Caller[r])
    <3> DEFINE new == [q EXCEPT !.took = {q.on}, !.at = "commit"]
    <3>1. Set(r, new) /\ new \in Requested
      BY <1>0, <1>1, <2>1 DEF MarkRead, Requested, Inbox, Rows
    <3>2. Fits(r, new)
      BY <1>0, <1>1, <2>1 DEF MarkRead, Requested, Fits, AtPoint, HoldsFollow, HoldsMarks, HoldsCascade, Inbox
    <3>3. Alone(r, new)
      BY <1>0, <1>1, <2>1 DEF MarkRead, Requested, Alone, LockedFor, HoldsRow
    <3>4. QED
      BY <1>0, <3>1, <3>2, <3>3, StatementKeeps
  <2>2. CASE q.on \notin Inbox(Caller[r])
    BY <1>0, <1>1, <2>2, RefusalKeeps DEF MarkRead
  <2>3. QED
    BY <2>1, <2>2
<1>2. ASSUME ScanUnread(r) PROVE Inv'
  <2> DEFINE unread == {n \in Inbox(Caller[r]) : read_at[n] = None}
             new == [q EXCEPT !.scope = unread, !.todo = unread, !.at = "rows"]
  <2>1. Set(r, new) /\ new \in Requested
    BY <1>0, <1>2 DEF ScanUnread, Requested, Inbox
  <2>2. Fits(r, new) /\ Alone(r, new)
    BY <1>0, <1>2 DEF ScanUnread, Requested, Fits, AtPoint, HoldsFollow, HoldsMarks,
                      HoldsCascade, Alone, Inbox
  <2>3. QED
    BY <1>0, <2>1, <2>2, StatementKeeps
<1>3. QED
  BY <1>1, <1>2

\* A deletion, up to the rows that hang on what it deletes.
LEMMA DeleteKeeps ==
  ASSUME Inv, NEW r \in Requests,
         LookupItem(r) \/ DeleteItem(r) \/ RecountComments(r)
  PROVE  Inv'
<1> USE DEF Points
<1> DEFINE q == req[r]
<1>0. /\ q \in Requested /\ Fits(r, q) /\ Alone(r, q)
      /\ UNCHANGED tables
  BY DEF Inv, TypeOK, Exclusive, LookupItem, DeleteItem, RecountComments
<1>1. ASSUME LookupItem(r) PROVE Inv'
  <2> DEFINE new == [q EXCEPT !.at = "write"]
  <2>1. CASE Set(r, new)
    <3>1. new \in Requested
      BY <1>0 DEF Requested
    <3>2. Fits(r, new) /\ Alone(r, new)
      BY <1>0, <1>1 DEF LookupItem, Requested, Fits, AtPoint, HoldsFollow, HoldsMarks,
                        HoldsCascade, Alone
    <3>3. QED
      BY <1>0, <2>1, <3>1, <3>2, StatementKeeps
  <2>2. CASE Answer(r, "missing") \/ Answer(r, "forbidden")
    BY <1>0, <2>2, RefusalKeeps
  <2>3. QED
    BY <1>1, <2>1, <2>2 DEF LookupItem
<1>2. ASSUME DeleteItem(r) PROVE Inv'
  <2>0. q.at = "write" /\ q.op = "delete" /\ ~LockedFor(r, q.on) /\ q.on \in Items
    BY <1>0, <1>2 DEF DeleteItem, Fits, AtPoint
  <2>1. CASE q.on \notin gone
    <3> DEFINE new == [q EXCEPT !.took = {q.on}, !.at = "rows"]
    <3>1. Set(r, new) /\ new \in Requested
      BY <1>0, <1>2, <2>0, <2>1 DEF DeleteItem, Requested, Rows
    <3>2. q.on \in Comments => AlongReplies(q.on, {q.on})
      BY InboxAssumption DEF AlongReplies
    <3>3. Fits(r, new)
      BY <1>0, <2>0, <2>1, <3>2
      DEF Requested, Fits, AtPoint, HoldsFollow, HoldsMarks, HoldsCascade, There
    <3>4. Alone(r, new)
      BY <1>0, <2>0 DEF Requested, Alone, LockedFor, HoldsRow
    <3>5. QED
      BY <1>0, <3>1, <3>3, <3>4, StatementKeeps
  <2>2. CASE q.on \in gone /\ Set(r, [q EXCEPT !.at = "commit"])
    <3> DEFINE new == [q EXCEPT !.at = "commit"]
    <3>1. new \in Requested
      BY <1>0 DEF Requested
    <3>2. Fits(r, new) /\ Alone(r, new)
      BY <1>0, <2>0 DEF Requested, Fits, AtPoint, HoldsFollow, HoldsMarks, HoldsCascade, Alone
    <3>3. QED
      BY <1>0, <2>2, <3>1, <3>2, StatementKeeps
  <2>3. CASE Answer(r, "missing")
    BY <1>0, <2>3, RefusalKeeps
  <2>4. QED
    BY <1>2, <2>1, <2>2, <2>3 DEF DeleteItem
<1>3. ASSUME RecountComments(r) PROVE Inv'
  <2> DEFINE new == [q EXCEPT !.at = "commit"]
  <2>1. Set(r, new) /\ new \in Requested
    BY <1>0, <1>3 DEF RecountComments, Requested
  <2>2. Fits(r, new) /\ Alone(r, new)
    BY <1>0, <1>3 DEF RecountComments, Requested, Fits, AtPoint, HoldsFollow, HoldsMarks,
                      HoldsCascade, Alone
  <2>3. QED
    BY <1>0, <2>1, <2>2, StatementKeeps
<1>4. QED
  BY <1>1, <1>2, <1>3

\* MarkAllRead and the cascade of a deletion, row by row.
LEMMA VisitKeeps ==
  ASSUME Inv, NEW r \in Requests, VisitRow(r) \/ AllVisited(r)
  PROVE  Inv'
<1> USE DEF Points
<1> DEFINE q == req[r]
<1>0. /\ q \in Requested /\ Fits(r, q) /\ Alone(r, q) /\ q.at = "rows"
      /\ UNCHANGED tables
  BY DEF Inv, TypeOK, Exclusive, VisitRow, AllVisited
<1>1. ASSUME VisitRow(r) PROVE Inv'
  <2>1. PICK n \in ToVisit(r) :
          /\ ~LockedFor(r, n)
          /\ Set(r, [q EXCEPT !.todo = @ \ {n},
                              !.took = IF Wants(r, n) THEN @ \cup {n} ELSE @])
    BY <1>1 DEF VisitRow
  <2> DEFINE took == IF Wants(r, n) THEN q.took \cup {n} ELSE q.took
             new == [q EXCEPT !.todo = q.todo \ {n}, !.took = took]
  <2>2. n \in Rows
    BY <1>0, <2>1 DEF ToVisit, Requested, Rows, Items, Notices
  <2>3. took \subseteq Rows /\ q.took \subseteq took
    BY <1>0, <2>2 DEF Requested
  <2>4. Set(r, new)
    BY <2>1
  <2>5. HoldsMarks(r, new)
    <3>1. CASE q.op = "delete"
      BY <1>0, <3>1 DEF Requested, Fits, HoldsMarks
    <3>2. CASE q.op # "delete"
      <4>1. n \in q.todo /\ n \in Notices /\ n \notin Items
        BY <1>0, <2>1, <3>2, InboxAssumption DEF ToVisit, Requested
      <4>2. notice[n] # None => n \in Inbox(Caller[r])
        BY <1>0, <4>1 DEF Fits, HoldsMarks
      <4>3. Wants(r, n) <=> notice[n] # None /\ read_at[n] = None
        BY <3>2, <4>1 DEF Wants, There
      <4>4. took \subseteq Inbox(Caller[r])
        BY <1>0, <3>2, <4>2, <4>3 DEF Fits, HoldsMarks
      <4>5. n \in took \/ read_at[n] # None \/ notice[n] = None
        BY <4>3
      <4> HIDE DEF took
      <4>6. QED
        BY <1>0, <2>3, <3>2, <4>4, <4>5 DEF Requested, Fits, HoldsMarks, AtPoint
    <3>3. QED
      BY <3>1, <3>2
  <2>6. HoldsCascade(r, new)
    <3>1. CASE q.op = "delete"
      <4>1. /\ n \in Comments \cup DOMAIN Told /\ There(n) /\ Refers[n] \cap q.took # {}
            /\ took = q.took \cup {n}
        BY <2>1, <3>1 DEF ToVisit, Wants
      <4>2. ASSUME q.on \in Comments PROVE AlongReplies(q.on, took)
        <5>1. AlongReplies(q.on, q.took)
          BY <1>0, <3>1, <4>2 DEF Fits, HoldsCascade
        <5>2. n \notin Posts
          BY <4>1, InboxAssumption DEF Items, Notices
        <5>3. ASSUME n \in Comments PROVE Replies[n] <= Replies[q.on]
          <6>1. PICK d \in Refers[n] \cap q.took : d \in Comments
            BY <4>1, <5>1, <5>3, InboxAssumption DEF AlongReplies, Items
          <6>2. Replies[n] < Replies[d] /\ Replies[d] <= Replies[q.on]
            BY <5>1, <5>3, <6>1, InboxAssumption DEF AlongReplies
          <6>3. Replies[n] \in Nat /\ Replies[d] \in Nat /\ Replies[q.on] \in Nat
            BY <4>2, <5>3, <6>1, InboxAssumption
          <6>4. QED
            BY <6>2, <6>3
        <5>4. QED
          BY <4>1, <5>1, <5>2, <5>3 DEF AlongReplies
      <4> HIDE DEF took
      <4>3. QED
        BY <1>0, <3>1, <4>1, <4>2 DEF Requested, Fits, HoldsCascade
    <3>2. CASE q.op # "delete"
      <4> HIDE DEF took
      <4>1. QED
        BY <1>0, <3>2 DEF Requested, HoldsCascade
    <3>3. QED
      BY <3>1, <3>2
  <2>7. Alone(r, new)
    <3>1. \A s \in Requests \ {r} : took \cap req[s].took = {}
      BY <1>0, <2>1 DEF Alone, LockedFor, HoldsRow
    <3> HIDE DEF took
    <3>2. QED
      BY <1>0, <3>1 DEF Requested, Alone
  <2> HIDE DEF took
  <2>8. new \in Requested
    BY <1>0, <2>3 DEF Requested
  <2>9. AtPoint(new) /\ HoldsFollow(r, new)
    BY <1>0 DEF Requested, Fits, AtPoint, HoldsFollow
  <2>10. QED
    BY <1>0, <2>4, <2>5, <2>6, <2>7, <2>8, <2>9, StatementKeeps DEF Fits
<1>2. ASSUME AllVisited(r) PROVE Inv'
  <2> DEFINE recounts == q.op = "delete" /\ q.on \in Comments
             at == IF recounts THEN "recount" ELSE "commit"
             new == [q EXCEPT !.at = at]
  <2>1. Set(r, new) /\ at \in {"recount", "commit"} /\ (at = "recount" <=> recounts)
    BY <1>2 DEF AllVisited
  <2>2. q.todo = {}
    BY <1>0, <1>2 DEF AllVisited, ToVisit, Fits, HoldsMarks
  <2> HIDE DEF at
  <2>3. new \in Requested
    BY <1>0, <2>1 DEF Requested
  <2>4. Fits(r, new) /\ Alone(r, new)
    BY <1>0, <2>1, <2>2 DEF Requested, Fits, AtPoint, HoldsFollow, HoldsMarks, HoldsCascade, Alone
  <2>5. QED
    BY <1>0, <2>1, <2>3, <2>4, StatementKeeps
<1>3. QED
  BY <1>1, <1>2

\* A notification more is one that was none before.
LEMMA OneMoreNotice ==
  ASSUME Inv, NEW r \in Requests, notice[r] = None, NEW p \in Pairs,
         \A n \in FollowNotices : notice'[n] = IF n = r THEN p ELSE notice[n],
         NEW o \in Pairs
  PROVE  Cardinality({n \in FollowNotices : notice'[n] = o})
           = Cardinality({n \in FollowNotices : notice[n] = o}) + IF o = p THEN 1 ELSE 0
<1> DEFINE told == {n \in FollowNotices : notice[n] = o}
           tells == {n \in FollowNotices : notice'[n] = o}
<1>1. IsFiniteSet(told) /\ Cardinality(told) \in Nat /\ r \notin told
  <2>1. IsFiniteSet(FollowNotices)
    BY InboxAssumption, FS_Union DEF FollowNotices
  <2>2. IsFiniteSet(told)
    BY <2>1, FS_Subset
  <2>3. QED
    BY <2>2, FS_CardinalityType, InboxAssumption
<1>2. tells = IF o = p THEN told \cup {r} ELSE told
  BY InboxAssumption DEF FollowNotices
<1>3. Cardinality(tells) = Cardinality(told) + IF o = p THEN 1 ELSE 0
  <2> HIDE DEF told, tells
  <2>1. Cardinality(told \cup {r}) = Cardinality(told) + 1
    BY <1>1, FS_AddElement
  <2>2. CASE o = p
    BY <1>2, <2>1, <2>2
  <2>3. CASE o # p
    BY <1>1, <1>2, <2>3
  <2>4. QED
    BY <2>2, <2>3
<1>4. QED
  BY <1>3

\* What a commit does to the notifications: it adds marks, brings the one named
\* after it, and deletes what it has taken.
LEMMA CommitMoves ==
  ASSUME Inv, NEW r \in Requests, Commit(r), NEW n \in Notices
  PROVE  /\ notice[n] # None => notice'[n] = IF n \in Deleted(r) THEN None ELSE notice[n]
         /\ n \in DOMAIN Told => (notice[n] = None => notice'[n] = None)
         /\ n \in FollowNotices /\ (n # r \/ notice[n] # None) => notice'[n] = notice[n]
         /\ n \in FollowNotices => notice'[n] = IF n = req[r].note THEN Pair(r) ELSE notice[n]
         /\ n \in Marked(r) \/ read_at[n] # None => read_at'[n] # None
<1>1. req[r] \in Requested /\ Fits(r, req[r])
  BY DEF Inv, TypeOK
<1>2. req[r].note = None \/ (req[r].note = r /\ notice[r] = None)
  BY <1>1 DEF Commit, Fits, HoldsFollow
<1>3. None \notin Notices /\ r \in FollowNotices /\ FollowNotices \cap DOMAIN Told = {}
  BY InboxAssumption DEF FollowNotices, Notices
<1>4. Deleted(r) \cap FollowNotices = {}
  BY <1>1, InboxAssumption DEF Deleted, Fits, AtPoint, HoldsCascade, Items, Notices
<1>5. notice'[n] = IF n = req[r].note THEN Pair(r)
                   ELSE IF n \in Deleted(r) THEN None ELSE notice[n]
  BY DEF Commit, CommitRows
<1>6. n \in Marked(r) \/ read_at[n] # None => read_at'[n] # None
  BY <1>3 DEF Commit, Notices, FollowNotices
<1>7. QED
  BY <1>2, <1>3, <1>4, <1>5, <1>6

\* A commit moves one pair, which no other request holds.
LEMMA CommitSparesPairs ==
  ASSUME Inv, NEW r \in Requests, Commit(r), NEW s \in Requests \ {r}, req[s].wrote
  PROVE  Pair(s) \in follows' <=> Pair(s) \in follows
BY DEF Inv, Exclusive, Alone, Commit, CommitRows, Seen, Pair

\* The end of a transaction that takes effect.
LEMMA CommitKeeps ==
  ASSUME Inv, NEW r \in Requests, Commit(r)
  PROVE  Inv'
<1> USE DEF Points, Statuses
<1> DEFINE q == req[r]
<1>1. q \in Requested /\ Fits(r, q) /\ Alone(r, q) /\ q.at = "commit"
  BY DEF Inv, TypeOK, Exclusive, Commit
<1>2. PICK status \in {"ok", "failed"} : Answer(r, status)
  BY DEF Commit
<1> DEFINE new == [Fresh("none", None, "done") EXCEPT
                     !.status = status, !.scope = IF status = "ok" THEN q.scope ELSE {}]
<1>3. /\ new \in Requested
      /\ new.op = "none" /\ new.at = "done" /\ new.status = status
      /\ new.wrote = FALSE /\ new.note = None
      /\ new.todo = {} /\ new.took = {}
      /\ new.scope = IF status = "ok" THEN q.scope ELSE {}
  BY <1>1, <1>2 DEF Requested, Fresh
<1>4. /\ req' \in [Requests -> Requested] /\ req'[r] = new
      /\ \A s \in Requests \ {r} : req'[s] = req[s]
  BY <1>2, <1>3 DEF Inv, TypeOK, Answer, Set
<1> HIDE DEF new
<1>5. q.wrote => Pair(r) \in Pairs
  BY <1>1, InboxAssumption DEF Fits, AtPoint, HoldsFollow, Pair, Pairs
<1>6. TypeOK'
  <2>1. follows' \subseteq Pairs
    BY <1>5 DEF Inv, TypeOK, Commit, CommitRows, Seen
  <2>2. notice' \in [Notices -> Pairs \cup {None}]
    <3>1. q.note # None => Pair(r) \in Pairs
      BY <1>1, <1>5 DEF Fits, HoldsFollow
    <3>2. None \notin Notices
      BY InboxAssumption
    <3>3. QED
      BY <3>1, <3>2 DEF Inv, TypeOK, Commit, CommitRows
  <2>3. read_at' \in [Notices -> Requests \cup {None}]
    BY DEF Inv, TypeOK, Commit
  <2>4. undone' \in [Pairs -> Nat]
    BY DEF Inv, TypeOK, Commit, CommitRows
  <2>5. gone' \subseteq Items
    BY DEF Inv, TypeOK, Commit, CommitRows
  <2>6. QED
    BY <1>4, <2>1, <2>2, <2>3, <2>4, <2>5 DEF TypeOK
<1>7. Exclusive'
  BY <1>3, <1>4 DEF Inv, Exclusive, Alone, Pair
<1>8. Fits(r, req[r])'
  <2>1. AtPoint(req[r])'
    BY <1>3, <1>4 DEF AtPoint
  <2>2. HoldsFollow(r, req[r])'
    BY <1>3, <1>4 DEF HoldsFollow
  <2>3. HoldsMarks(r, req[r])'
    <3>1. ASSUME NEW n \in q.scope
          PROVE  /\ read_at'[n] # None \/ notice'[n] = None
                 /\ notice'[n] = None => n \in DOMAIN Told
      <4>1. /\ n \in Notices /\ q.op = "markAllRead" /\ q.todo = {}
            /\ n \in q.took \/ read_at[n] # None \/ notice[n] = None
            /\ notice[n] = None => n \in DOMAIN Told
        BY <1>1 DEF Fits, HoldsMarks, Requested
      <4>2. notice'[n] = None <=> notice[n] = None
        BY <4>1, CommitMoves DEF Deleted, Notices
      <4>3. QED
        BY <4>1, <4>2, CommitMoves DEF Marked
    <3>2. QED
      BY <1>3, <1>4, <3>1 DEF HoldsMarks
  <2>4. HoldsCascade(r, req[r])'
    BY <1>3, <1>4 DEF HoldsCascade
  <2>5. QED
    BY <2>1, <2>2, <2>3, <2>4 DEF Fits
<1>9. ASSUME NEW s \in Requests \ {r} PROVE Fits(s, req[s])'
  <2>1. Fits(s, req[s]) /\ req[s] \in Requested /\ req'[s] = req[s]
    BY <1>4 DEF Inv, TypeOK
  <2>2. AtPoint(req[s])'
    BY <2>1 DEF Fits, AtPoint
  <2>3. HoldsFollow(s, req[s])'
    <3>1. req'[s] = req[s] /\ notice'[s] = notice[s]
      BY <2>1, CommitMoves DEF Notices, FollowNotices
    <3>2. req[s].wrote => (Pair(s) \in follows' <=> Pair(s) \in follows)
      BY CommitSparesPairs
    <3>3. QED
      BY <2>1, <3>1, <3>2 DEF Fits, HoldsFollow, Pair
  <2>4. req[s].took \cap Deleted(r) = {}
    BY <1>1 DEF Alone, Deleted
  <2>5. HoldsMarks(s, req[s])'
    <3>1. req[s].op # "delete" => req[s].took \subseteq Inbox(Caller[s])'
      BY <2>1, <2>4, CommitMoves DEF Fits, HoldsMarks, Requested, Inbox
    <3>2. \A n \in req[s].todo : notice'[n] = None \/ n \in Inbox(Caller[s])'
      BY <2>1, CommitMoves DEF Fits, HoldsMarks, Requested, Inbox
    <3>3. ASSUME NEW n \in req[s].todo \cup req[s].scope, n \notin DOMAIN Told
          PROVE  notice'[n] # None
      <4>1. n \in FollowNotices /\ notice[n] # None
        BY <2>1, <3>3 DEF Fits, HoldsMarks, Requested, Notices
      <4>2. QED
        BY <4>1, CommitMoves DEF Notices
    <3>4. ASSUME req[s].at # "done" \/ req[s].status = "ok", NEW n \in req[s].scope
          PROVE  n \in req[s].todo \cup req[s].took \/ read_at'[n] # None \/ notice'[n] = None
      <4>1. /\ n \in Notices
            /\ notice[n] = None => n \in DOMAIN Told
            /\ n \in req[s].todo \cup req[s].took \/ read_at[n] # None \/ notice[n] = None
        BY <2>1, <3>4 DEF Fits, HoldsMarks, Requested
      <4>2. QED
        BY <4>1, CommitMoves
    <3>5. /\ req[s].todo # {} => req[s].at = "rows" /\ req[s].op = "markAllRead"
          /\ req[s].scope # {} => req[s].op = "markAllRead" \/ req[s].at = "done"
      BY <2>1 DEF Fits, HoldsMarks
    <3>6. QED
      BY <2>1, <3>1, <3>2, <3>3, <3>4, <3>5 DEF HoldsMarks
  <2>6. HoldsCascade(s, req[s])'
    BY <2>1, <2>4, CommitMoves DEF Fits, HoldsCascade, Requested, There, Commit, CommitRows, Rows
  <2>7. QED
    BY <2>2, <2>3, <2>5, <2>6 DEF Fits
<1>10. NoticesMatchFollows'
  <2> DEFINE Before(p) == Cardinality({n \in FollowNotices : notice[n] = p})
             After(p) == Cardinality({n \in FollowNotices : notice'[n] = p})
  <2> SUFFICES ASSUME NEW p \in Pairs
      PROVE  After(p) = undone'[p] + IF p \in follows' THEN 1 ELSE 0
    BY DEF NoticesMatchFollows
  <2>1. /\ Before(p) = undone[p] + IF p \in follows THEN 1 ELSE 0
        /\ undone[p] \in Nat
        /\ undone'[p] = undone[p] +
             IF p = Pair(r) /\ q.wrote /\ q.op = "unfollow" THEN 1 ELSE 0
    BY DEF Inv, TypeOK, NoticesMatchFollows, Commit, CommitRows
  <2>2. CASE q.wrote /\ q.op = "follow"
    <3>1. /\ q.note = r /\ notice[r] = None /\ Pair(r) \notin follows
          /\ follows' = follows \cup {Pair(r)}
      BY <1>1, <2>2 DEF Commit, CommitRows, Seen, Fits, HoldsFollow, Pair
    <3>2. \A n \in FollowNotices : notice'[n] = IF n = r THEN Pair(r) ELSE notice[n]
      BY <3>1, CommitMoves DEF Notices
    <3>3. After(p) = Before(p) + IF p = Pair(r) THEN 1 ELSE 0
      BY <1>5, <2>2, <3>1, <3>2, OneMoreNotice
    <3> HIDE DEF Before, After
    <3>4. QED
      BY <2>1, <2>2, <3>1, <3>3
  <2>3. CASE ~(q.wrote /\ q.op = "follow")
    <3>1. q.note = None /\ \A n \in FollowNotices : notice'[n] = notice[n]
      BY <1>1, <2>3, InboxAssumption, CommitMoves DEF Fits, HoldsFollow, Notices, FollowNotices
    <3>2. After(p) = Before(p)
      BY <3>1
    <3> HIDE DEF Before, After
    <3>3. CASE q.wrote
      <4>1. /\ q.op = "unfollow" /\ Pair(r) \in follows
            /\ follows' = follows \ {Pair(r)}
        BY <1>1, <2>3, <3>3 DEF Commit, CommitRows, Seen, Fits, HoldsFollow, Pair
      <4>2. QED
        BY <2>1, <3>2, <3>3, <4>1
    <3>4. CASE ~q.wrote
      BY <2>1, <3>2, <3>4 DEF Commit, CommitRows, Seen
    <3>5. QED
      BY <3>3, <3>4
  <2>4. QED
    BY <2>2, <2>3
<1>11. QED
  BY <1>6, <1>7, <1>8, <1>9, <1>10 DEF Inv

\* Before the first request nothing is held, and every follow that stands
\* has the notification named after it.
LEMMA InitHolds == Init => Inv
<1> SUFFICES ASSUME Init PROVE Inv
  OBVIOUS
<1> USE DEF Init
<1>1. \A r \in Requests :
        req[r] = Fresh("none", None, "idle") /\ req[r] \in Requested
  BY DEF Requested, Fresh, Points, Statuses
<1>2. TypeOK
  BY <1>1, InboxAssumption DEF TypeOK, Pairs, Notices
<1>3. Exclusive
  BY <1>1 DEF Exclusive, Alone, Fresh
<1>4. \A r \in Requests : Fits(r, req[r])
  BY <1>1, InboxAssumption
  DEF Fits, AtPoint, HoldsFollow, HoldsMarks, HoldsCascade, Fresh, Notices, FollowNotices
<1>5. NoticesMatchFollows
  <2> SUFFICES ASSUME NEW p \in Pairs
      PROVE  Cardinality({n \in FollowNotices : notice[n] = p})
               = IF p \in OldFollows THEN 1 ELSE 0
    BY DEF NoticesMatchFollows
  <2>1. {n \in FollowNotices : notice[n] = p} = IF p \in OldFollows THEN {p} ELSE {}
    BY InboxAssumption DEF Notices, FollowNotices, Pairs
  <2>2. Cardinality({p}) = 1 /\ Cardinality({}) = 0
    BY FS_Singleton, FS_EmptySet
  <2>3. QED
    BY <2>1, <2>2
<1>6. QED
  BY <1>2, <1>3, <1>4, <1>5 DEF Inv

\* Every step keeps the invariant.
LEMMA NextKeeps == Inv /\ [Next]_vars => Inv'
<1> SUFFICES ASSUME Inv, [Next]_vars PROVE Inv'
  OBVIOUS
<1>1. CASE Next
  <2>1. PICK r \in Requests : Start(r) \/ Step(r) \/ Timeout(r) \/ DeadlockVictim(r)
    BY <1>1 DEF Next
  <2>2. CASE Start(r)
    BY <2>2, StartKeeps
  <2>3. CASE Step(r)
    BY <2>3, FollowKeeps, MarkKeeps, DeleteKeeps, VisitKeeps, CommitKeeps DEF Step
  <2>4. CASE Timeout(r) \/ DeadlockVictim(r)
    BY <2>4, RefusalKeeps DEF Timeout, DeadlockVictim
  <2>5. QED
    BY <2>1, <2>2, <2>3, <2>4
<1>2. CASE UNCHANGED vars
  BY <1>2 DEF vars, tables, Inv, TypeOK, Exclusive, Alone, Pair, Fits, AtPoint, HoldsFollow,
              HoldsMarks, HoldsCascade, Inbox, There, NoticesMatchFollows
<1>3. QED
  BY <1>1, <1>2

\* The invariant holds in every state.
THEOREM Invariant == Spec => []Inv
BY InitHolds, NextKeeps, PTL DEF Spec

-----------------------------------------------------------------------------
(* What follows from it *)

\* The tables and the requests have the types their columns and variables
\* declare, whatever order the requests run in.
THEOREM TypeCorrect == Spec => []TypeOK
<1>1. Inv => TypeOK
  BY DEF Inv
<1>2. QED
  BY <1>1, Invariant, PTL

\* A follow is told of exactly once, however the calls of Follow and Unfollow
\* overlap, fail or repeat (follow.go: CreateFollowNotification only when the
\* INSERT wrote a row).
THEOREM NoticesExact == Spec => []NoticesMatchFollows
<1>1. Inv => NoticesMatchFollows
  BY DEF Inv
<1>2. QED
  BY <1>1, Invariant, PTL

\* When MarkAllRead has answered with success, every notification of its user
\* that was unread when it began is read or has been deleted, also those whose
\* rows other requests held (notification.go: MarkAllRead).
THEOREM AllRead == Spec => []AllReadMeansRead
<1>1. Inv => AllReadMeansRead
  <2> SUFFICES ASSUME Inv, NEW r \in Requests, req[r].status = "ok", NEW n \in req[r].scope
      PROVE  read_at[n] # None \/ notice[n] = None
    BY DEF AllReadMeansRead
  <2>1. req[r].at = "done" /\ req[r].todo \cup req[r].took = {}
    BY DEF Inv, TypeOK, Requested, Fits, AtPoint, HoldsMarks, HoldsCascade
  <2>2. QED
    BY <2>1 DEF Inv, Fits, HoldsMarks
<1>2. QED
  BY <1>1, Invariant, PTL

\* A request that waits for another's rows holds rows itself only when it is a
\* MarkAllRead or a deletion: everything else waits once, and writes afterwards.
LEMMA WaitingHolder ==
  ASSUME Inv, NEW r \in Requests, NEW s \in Requests, NEW t \in Requests,
         WaitsFor(r, s), WaitsFor(s, t)
  PROVE  /\ req[s].op \in {"markAllRead", "delete"} /\ req[s].at \in {"rows", "recount"}
         /\ req[s].op = "delete" => req[s].on \in req[s].took
<1>1. req[s] \in Requested /\ Fits(s, req[s])
  BY DEF Inv, TypeOK
<1>2. req[s].at \in {"write", "rows", "recount"}
  BY DEF WaitsFor
<1>3. ~req[s].wrote
  BY <1>1, <1>2 DEF Fits, HoldsFollow
<1>4. req[s].took # {}
  BY <1>2, <1>3 DEF WaitsFor, HoldsPair, HoldsRow
<1>5. req[s].at \in {"rows", "recount"}
  BY <1>1, <1>2, <1>4 DEF Fits, HoldsCascade
<1>6. QED
  BY <1>1, <1>5 DEF Fits, AtPoint, HoldsCascade

\* A MarkAllRead that waits for a MarkAllRead or a deletion is opposed to it.
LEMMA ReadAllOpposed ==
  ASSUME Inv, NEW s \in Requests, NEW t \in Requests, WaitsFor(s, t),
         req[s].op = "markAllRead", req[s].at = "rows",
         req[t].op \in {"markAllRead", "delete"}, req[t].at # "commit"
  PROVE  s # t /\ Opposed(s, t)
<1>1. /\ req[s] \in Requested /\ Fits(s, req[s])
      /\ req[t] \in Requested /\ Fits(t, req[t])
  BY DEF Inv, TypeOK
<1>2. PICK n \in req[s].todo : n \in req[t].took /\ s # t
  BY DEF WaitsFor, ToVisit, HoldsRow
<1>3. n \in Notices /\ n \notin Items
  BY <1>1, <1>2, InboxAssumption DEF Requested
<1>4. notice[n] = None \/ n \in Inbox(Caller[s])
  BY <1>1, <1>2 DEF Fits, HoldsMarks
<1>5. CASE req[t].op = "markAllRead"
  <2>1. n \in Inbox(Caller[t])
    BY <1>1, <1>2, <1>5 DEF Fits, HoldsMarks
  <2>2. Caller[s] = Caller[t]
    BY <1>4, <2>1 DEF Inbox
  <2>3. QED
    BY <1>2, <1>5, <2>2 DEF Opposed
<1>6. CASE req[t].op = "delete"
  <2>1. notice[n] # None
    BY <1>1, <1>2, <1>3, <1>6 DEF Fits, HoldsCascade, There
  <2>2. QED
    BY <1>2, <1>4, <1>6, <2>1 DEF Opposed
<1>7. QED
  BY <1>5, <1>6

\* Between the deletions of comments a wait leads down the replies: the one
\* that is waited for deletes a reply to what the other has taken.
LEMMA CommentsWaitDown ==
  ASSUME Inv, NEW s \in Requests, NEW t \in Requests, WaitsFor(s, t),
         \A u \in {s, t} : /\ req[u].op = "delete" /\ req[u].on \in Comments
                           /\ req[u].at \in {"rows", "recount"}
  PROVE  Replies[req[t].on] < Replies[req[s].on]
<1>1. /\ req[s] \in Requested /\ Fits(s, req[s]) /\ Alone(s, req[s])
      /\ req[t] \in Requested /\ Fits(t, req[t]) /\ s # t
  BY DEF Inv, TypeOK, Exclusive, WaitsFor
<1>2. AlongReplies(req[s].on, req[s].took) /\ AlongReplies(req[t].on, req[t].took)
  BY <1>1 DEF Fits, HoldsCascade
<1>3. req[s].took \cap req[t].took = {}
  BY <1>1 DEF Alone
<1>4. req[s].at # "recount"
  BY <1>2 DEF WaitsFor, HoldsRow, AlongReplies
<1>5. PICK n \in ToVisit(s) : n \in req[t].took
  BY <1>4 DEF WaitsFor, HoldsRow
<1>6. n \in Comments \cup DOMAIN Told /\ Refers[n] \cap req[s].took # {}
  BY <1>5 DEF ToVisit
<1>7. PICK c \in Refers[n] \cap req[s].took : c \in Comments
  BY <1>2, <1>6, InboxAssumption DEF AlongReplies, Items
<1>8. n = req[t].on
  <2>1. SUFFICES ASSUME n # req[t].on PROVE FALSE
    OBVIOUS
  <2>2. Refers[n] \cap req[t].took # {}
    BY <1>1, <1>5, <2>1 DEF Fits, HoldsCascade
  <2>3. PICK d \in Refers[n] \cap req[t].took : d \in Comments
    BY <1>2, <1>6, <2>2, InboxAssumption DEF AlongReplies, Items
  <2>4. c = d
    BY <1>6, <1>7, <2>3, InboxAssumption
  <2>5. QED
    BY <1>3, <1>7, <2>3, <2>4
<1>9. Replies[n] < Replies[c]
  BY <1>7, <1>8, InboxAssumption
<1>10. Replies[c] <= Replies[req[s].on]
  BY <1>2, <1>7 DEF AlongReplies
<1>11. Replies[n] \in Nat /\ Replies[c] \in Nat /\ Replies[req[s].on] \in Nat
  BY <1>7, <1>8, InboxAssumption
<1>12. QED
  BY <1>8, <1>9, <1>10, <1>11

\* A set of numbers that is not empty has a least one.
LEMMA Least ==
  ASSUME NEW T \in SUBSET Nat, T # {}
  PROVE  \E m \in T : \A n \in T : m <= n
<1> DEFINE R == OpToRel(<, Nat)
<1>1. IsWellFoundedOn(R, Nat)
  BY NatLessThanWellFounded
<1> HIDE DEF R
<1>2. PICK m \in T : \A n \in T : <<n, m>> \notin R
  BY <1>1, WFMin
<1>3. \A n \in T : ~(n < m)
  BY <1>2 DEF R, OpToRel
<1>4. QED
  BY <1>3

\* Whatever waits in a circle has in it two calls of MarkAllRead by one user,
\* a MarkAllRead and a deletion that has a notification of its user, or the
\* deletion of a post and another deletion (notification.sql:
\* MarkAllNotificationsRead; schema.sql: ON DELETE CASCADE).
THEOREM Deadlocks == Spec => []DeadlockNeedsScans
<1>1. Inv => DeadlockNeedsScans
  <2> SUFFICES ASSUME Inv, NEW S \in SUBSET Requests, Deadlocked(S)
      PROVE  \E r, s \in S : r # s /\ Opposed(r, s)
    BY DEF DeadlockNeedsScans
  <2> DEFINE H == {s \in S : \E r \in S : WaitsFor(r, s)}
  <2>1. H # {} /\ \A s \in H : \E t \in H : WaitsFor(s, t)
    BY DEF Deadlocked
  <2>2. \A s \in H : /\ req[s].op \in {"markAllRead", "delete"}
                     /\ req[s].at \in {"rows", "recount"}
                     /\ req[s].op = "delete" => req[s].on \in req[s].took
    BY <2>1, WaitingHolder
  <2>3. CASE \E s \in H : req[s].op = "markAllRead"
    <3>1. PICK s \in H, t \in H : req[s].op = "markAllRead" /\ WaitsFor(s, t)
      BY <2>1, <2>3
    <3>2. req[s].at = "rows"
      <4>1. Fits(s, req[s])
        BY DEF Inv
      <4>2. QED
        BY <2>2, <3>1, <4>1 DEF Fits, AtPoint
    <3>3. QED
      BY <2>2, <3>1, <3>2, ReadAllOpposed
  <2>4. CASE \E s \in H : req[s].op = "delete" /\ req[s].on \in Posts
    <3>1. PICK s \in H, t \in H :
            WaitsFor(s, t) /\ req[s].op = "delete" /\ req[s].on \in Posts
      BY <2>1, <2>4
    <3>2. s # t
      BY <3>1 DEF WaitsFor
    <3>3. CASE req[t].op = "delete"
      <4>1. req[s].on # req[t].on
        BY <2>2, <3>1, <3>2, <3>3 DEF Inv, Exclusive, Alone
      <4>2. QED
        BY <3>1, <3>2, <3>3, <4>1 DEF Opposed
    <3>4. QED
      BY <2>2, <2>3, <3>3
  <2>5. CASE \A s \in H : req[s].op = "delete" /\ req[s].on \notin Posts
    <3>1. \A s \in H : req[s].on \in Comments
      BY <2>5 DEF Inv, Fits, AtPoint, Items
    <3> DEFINE heights == {Replies[req[s].on] : s \in H}
    <3>2. heights \in SUBSET Nat /\ heights # {}
      BY <2>1, <3>1, InboxAssumption
    <3>3. PICK s \in H : \A t \in H : Replies[req[s].on] <= Replies[req[t].on]
      <4>1. PICK m \in heights : \A n \in heights : m <= n
        BY <3>2, Least
      <4>2. QED
        BY <4>1
    <3>4. PICK t \in H : WaitsFor(s, t)
      BY <2>1
    <3>5. Replies[req[t].on] < Replies[req[s].on]
      BY <2>2, <2>5, <3>1, <3>4, CommentsWaitDown
    <3>6. Replies[req[s].on] <= Replies[req[t].on]
      BY <3>3
    <3>7. Replies[req[s].on] \in Nat /\ Replies[req[t].on] \in Nat
      BY <3>1, InboxAssumption
    <3>8. QED
      BY <3>5, <3>6, <3>7
  <2>6. QED
    BY <2>2, <2>3, <2>4, <2>5
<1>2. QED
  BY <1>1, Invariant, PTL

\* read_at is written once, by a request of the recipient (notification.go:
\* MarkRead keeps the time, COALESCE(read_at, NOW())).
THEOREM ReadOnce == Spec => ReadOnceByRecipient
<1>1. ASSUME Inv, [Next]_vars PROVE ReadsOnce
  <2> SUFFICES ASSUME NEW n \in Notices, read_at'[n] # read_at[n]
      PROVE  read_at[n] = None /\ Caller[read_at'[n]] = notice[n][2]
    BY DEF ReadsOnce
  <2>1. PICK r \in Requests : Commit(r)
    BY <1>1 DEF Next, vars, tables, Start, Step, StartFollow, StartUnfollow, StartMarkRead,
                StartMarkAllRead, StartDelete, LookupTarget, AddFollow, RemoveFollow, Notify,
                ReadFlag, ReadCount, MarkRead, ScanUnread, LookupItem, DeleteItem,
                RecountComments, VisitRow, AllVisited, Timeout, DeadlockVictim
  <2>2. n \in Marked(r) /\ read_at[n] = None /\ read_at'[n] = r
    BY <2>1 DEF Commit
  <2>3. QED
    BY <1>1, <2>2 DEF Inv, Fits, HoldsMarks, Marked, Inbox
<1>2. Inv /\ [Next]_vars => [ReadsOnce]_vars
  BY <1>1
<1>3. QED
  BY <1>2, Invariant, PTL DEF Spec, ReadOnceByRecipient
=============================================================================
