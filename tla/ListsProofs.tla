---------------------------- MODULE ListsProofs ----------------------------
(***************************************************************************)
(* Proofs about the lists a client walks page by page, by cursor (Feed)    *)
(* and by page number (Pages), for any rows, page sizes, widths of the     *)
(* integers and interleavings with what happens to the lists.              *)
(*                                                                         *)
(* Of a walk by cursor FeedInv says that what has been shown lies at the   *)
(* cursor or above, what is still owed below it.  Of one by page number    *)
(* ControlInv ties the state of a call to the statements it has left and   *)
(* to the page it was asked for; WalkInv adds where in the list the rows   *)
(* stand that a walk has shown, and those it still has to show.            *)
(***************************************************************************)
EXTENDS Feed, Pages, FiniteSetTheorems, SequenceTheorems, TLAPS

-----------------------------------------------------------------------------
(* Feed *)

\* (created_at, id) orders posts totally.
LEMMA Order ==
  /\ \A p, q \in Posts : p = q \/ Older(p, q) \/ Older(q, p)
  /\ \A p, q \in Posts : Older(p, q) => p # q /\ ~Older(q, p)
  /\ \A p, q, s \in Posts : Older(p, q) /\ Older(q, s) => Older(p, s)
BY FeedAssumption DEF Older

\* A page whose rows fit its limit has all of them.
LEMMA WholePage ==
  ASSUME NEW S \in SUBSET Posts, NEW n \in Nat, Cardinality(S) <= n,
         NEW B \in Newest(S, n)
  PROVE  B = S
<1>1. IsFiniteSet(S)
  BY FeedAssumption, FS_Subset
<1>2. B \subseteq S
  BY DEF Newest
<1>3. Cardinality(B) \in Nat /\ Cardinality(S) \in Nat /\ IsFiniteSet(B)
  BY <1>1, <1>2, FS_Subset, FS_CardinalityType
<1>4. CASE Cardinality(B) = n
  BY <1>1, <1>2, <1>3, <1>4, FS_Subset
<1>5. CASE Cardinality(B) < n
  BY <1>3, <1>5 DEF Newest
<1> QED
  BY <1>4, <1>5 DEF Newest

-----------------------------------------------------------------------------
\* What has been shown lies at the cursor or above, what is still owed lies
\* below; rows left out of a page are older than all it holds.
Passed == IF cursor = None THEN {} ELSE {q \in Posts : q = cursor \/ Older(cursor, q)}

Owed ==
  /\ stage \in {"asked", "read"} => remained \ Below(cursor) \subseteq shown
  /\ stage = "read" =>
       /\ HasMore \/ remained \subseteq shown \cup batch
       /\ \A p \in remained \ shown, q \in batch : p \in batch \/ Older(p, q)
  /\ NothingSkipped
  /\ stage = "idle" => remained = {}

FeedInv ==
  /\ FeedTypeOK
  /\ remained \subseteq Listed(feed)
  /\ batch \subseteq Below(cursor)
  /\ stage \in {"asked", "read"} => shown \subseteq Passed
  /\ Owed

LEMMA FeedStart == FeedInit => FeedInv
BY FeedAssumption DEF FeedInit, FeedInv, FeedTypeOK, Owed, NothingSkipped, Passed, Below, Feeds

LEMMA FirstPagePreserves ==
  ASSUME FeedInv, NEW f \in Feeds, FirstPage(f)
  PROVE  FeedInv'
<1>1. Listed(f) \subseteq live
  BY DEF Listed, FollowingPosts, PostsByUser, Feeds
<1>2. Listed(feed)' = Listed(f)
  BY DEF FirstPage, Listed, FollowingPosts, PostsByUser
<1> QED
  BY <1>1, <1>2
  DEF FirstPage, FeedInv, FeedTypeOK, Owed, NothingSkipped, Passed, Below

LEMMA ReadPagePreserves ==
  ASSUME FeedInv, NEW n \in Limits, ReadPage(n)
  PROVE  FeedInv'
<1> DEFINE S == Listed(feed) \cap Below(cursor)
<1>1. n \in Nat
  BY FeedAssumption
<1>2. batch' \in Newest(S, n + 1) /\ batch' \subseteq S
  BY DEF ReadPage, Newest
<1>3. S \in SUBSET Posts /\ remained \subseteq Posts
  BY DEF FeedInv, FeedTypeOK, Listed, FollowingPosts, PostsByUser, Below, Feeds
<1>4. Listed(feed)' = Listed(feed)
  BY DEF ReadPage, Listed, FollowingPosts, PostsByUser
<1>5. remained \ shown \subseteq S
  BY DEF FeedInv, Owed, ReadPage
<1>6. Cardinality(batch') \in Nat
  BY <1>2, <1>3, FeedAssumption, FS_Subset, FS_CardinalityType
<1>7. HasMore' \/ remained \subseteq shown \cup batch'
  <2>1. CASE HasMore'
    BY <2>1
  <2>2. CASE ~HasMore'
    <3>1. Cardinality(batch') < n + 1
      BY <2>2, <1>1, <1>6 DEF HasMore, ReadPage
    <3>2. batch' = S
      BY <3>1, <1>1, <1>6, <1>2 DEF Newest
    <3> QED
      BY <3>2, <1>5
  <2> QED
    BY <2>1, <2>2
<1>8. \A p \in remained \ shown, q \in batch' : p \in batch' \/ Older(p, q)
  <2> SUFFICES ASSUME NEW p \in remained \ shown, NEW q \in batch', p \notin batch'
               PROVE  Older(p, q)
    OBVIOUS
  <2>1. ~Older(q, p)
    BY <1>2, <1>5 DEF Newest
  <2> QED
    BY <2>1, Order, <1>2, <1>3
<1>9. Owed'
  BY <1>7, <1>8 DEF FeedInv, Owed, NothingSkipped, ReadPage, Below, Older
<1>10. FeedTypeOK'
  BY <1>1, <1>2, <1>3 DEF FeedInv, FeedTypeOK, ReadPage
<1>11. (batch \subseteq Below(cursor))' /\ (shown \subseteq Passed)'
  BY <1>2 DEF FeedInv, ReadPage, Below, Passed, Older
<1> QED
  BY <1>4, <1>9, <1>10, <1>11 DEF FeedInv, ReadPage

LEMMA SendPagePreserves ==
  ASSUME FeedInv, SendPage
  PROVE  FeedInv'
<1>1. PICK items \in Newest(batch, limit) :
        /\ shown' = shown \cup items
        /\ IF HasMore THEN cursor' \in NextCursor(items) /\ stage' = "asked"
           ELSE UNCHANGED cursor /\ stage' = "ended"
  BY DEF SendPage
<1>2. items \subseteq batch /\ batch \subseteq Posts /\ shown \subseteq Posts
  BY DEF Newest, FeedInv, FeedTypeOK
<1>3. Listed(feed)' = Listed(feed)
  BY DEF SendPage, Listed, FollowingPosts, PostsByUser
<1>4. remained \subseteq Posts /\ remained' = remained /\ batch' = {}
  BY DEF FeedInv, FeedTypeOK, SendPage
<1>5. CASE HasMore
  <2>1. PICK c \in items : cursor' = c /\ \A q \in items : q = c \/ Older(c, q)
    BY <1>1, <1>5 DEF NextCursor, Oldest
  <2>2. c \in Posts /\ c # None /\ c \in Below(cursor)
    BY <2>1, <1>2, FeedAssumption DEF FeedInv
  <2>3. remained \ Below(c) \subseteq shown \cup items
    <3> SUFFICES ASSUME NEW p \in remained, p \notin Below(c), p \notin shown
                 PROVE  p \in items
      OBVIOUS
    <3>1. p = c \/ Older(c, p)
      BY <2>2, <1>4, Order DEF Below
    <3>2. p \in batch
      BY <3>1, <2>1, <1>2, <1>4, Order DEF FeedInv, Owed, SendPage
    <3> QED
      BY <3>1, <3>2, <2>1 DEF Newest
  <2>4. shown \cup items \subseteq {q \in Posts : q = c \/ Older(c, q)}
    <3>1. \A q \in shown : q \in Posts /\ Older(c, q)
      <4> SUFFICES ASSUME NEW q \in shown
                   PROVE  q \in Posts /\ Older(c, q)
        OBVIOUS
      <4>1. q \in Passed /\ cursor # None
        BY DEF FeedInv, SendPage, Passed
      <4>2. Older(c, cursor) /\ (q = cursor \/ Older(cursor, q)) /\ cursor \in Posts
        BY <4>1, <2>2 DEF Passed, Below, FeedInv, FeedTypeOK
      <4> QED
        BY <4>2, <1>2, <2>2, Order
    <3> QED
      BY <3>1, <2>1, <1>2
  <2>5. Owed'
    BY <2>1, <2>2, <2>3, <1>1, <1>4, <1>5 DEF Owed, NothingSkipped, Below, Older
  <2>6. (shown \subseteq Passed)'
    BY <2>1, <2>2, <2>4, <1>1 DEF Passed, Older
  <2>7. FeedTypeOK'
    BY <2>1, <2>2, <1>1, <1>2, <1>4, <1>5 DEF FeedTypeOK, FeedInv, SendPage
  <2> QED
    BY <2>5, <2>6, <2>7, <1>3, <1>4 DEF FeedInv
<1>6. CASE ~HasMore
  <2>1. Cardinality(batch) \in Nat /\ limit \in Nat
    BY <1>2, FeedAssumption, FS_Subset, FS_CardinalityType DEF FeedInv, FeedTypeOK
  <2>2. items = batch
    BY <2>1, <1>1, <1>2, <1>6, WholePage DEF HasMore
  <2>3. remained \subseteq shown \cup items
    BY <2>2, <1>6 DEF FeedInv, Owed, SendPage
  <2>4. Owed'
    BY <2>3, <1>1, <1>4, <1>6 DEF Owed, NothingSkipped
  <2>5. FeedTypeOK'
    BY <1>1, <1>2, <1>4, <1>6 DEF FeedTypeOK, FeedInv, SendPage
  <2> QED
    BY <2>4, <2>5, <1>1, <1>3, <1>4, <1>6 DEF FeedInv
<1> QED
  BY <1>5, <1>6

LEMMA LosePagePreserves ==
  ASSUME FeedInv, LosePage
  PROVE  FeedInv'
BY DEF LosePage, FeedInv, FeedTypeOK, Owed, NothingSkipped, Passed, Below, Older,
       Listed, FollowingPosts, PostsByUser

\* What goes on around a walk can only take posts out of what it still owes.
LEMMA Around ==
  ASSUME FeedInv, UNCHANGED feedWalk, remained' \subseteq remained,
         remained' \subseteq Listed(feed)', remained' \subseteq live',
         live' \subseteq Posts, gone' \subseteq Posts, followed' \subseteq Users
  PROVE  FeedInv'
<1>1. FeedTypeOK'
  BY DEF feedWalk, FeedInv, FeedTypeOK
<1>2. Owed'
  BY DEF feedWalk, FeedInv, Owed, NothingSkipped, Below, Older, HasMore
<1>3. (batch \subseteq Below(cursor))' /\ (stage \in {"asked", "read"} => shown \subseteq Passed)'
  BY DEF feedWalk, FeedInv, Below, Passed, Older
<1> QED
  BY <1>1, <1>2, <1>3 DEF FeedInv

LEMMA FeedStep == FeedInv /\ [FeedNext]_feedVars => FeedInv'
<1> SUFFICES ASSUME FeedInv, [FeedNext]_feedVars
             PROVE  FeedInv'
  OBVIOUS
<1> USE DEF Listed, FollowingPosts, PostsByUser
<1>0. feed \in Feeds /\ remained \subseteq Listed(feed) /\ remained \subseteq live
      /\ live \subseteq Posts /\ gone \subseteq Posts /\ followed \subseteq Users
  BY DEF FeedInv, FeedTypeOK
<1>1. ASSUME NEW f \in Feeds, FirstPage(f) PROVE FeedInv'
  BY <1>1, FirstPagePreserves
<1>2. ASSUME NEW n \in Limits, ReadPage(n) PROVE FeedInv'
  BY <1>2, ReadPagePreserves
<1>3. CASE SendPage
  BY <1>3, SendPagePreserves
<1>4. CASE LosePage
  BY <1>4, LosePagePreserves
<1>5. ASSUME NEW p \in Posts, Publish(p) PROVE FeedInv'
  BY <1>0, <1>5, Around DEF Publish, feedWalk, Feeds
<1>6. ASSUME NEW p \in Posts, RemovePost(p) PROVE FeedInv'
  BY <1>0, <1>6, Around DEF RemovePost, feedWalk, Feeds
<1>7. ASSUME NEW u \in Users, Follow(u) PROVE FeedInv'
  BY <1>0, <1>7, Around DEF Follow, feedWalk, Feeds
<1>8. ASSUME NEW u \in Users, Unfollow(u) PROVE FeedInv'
  BY <1>0, <1>8, Around DEF Unfollow, feedWalk, Feeds
<1>9. CASE UNCHANGED feedVars
  BY <1>0, <1>9, Around DEF feedVars, feedWalk
<1>10. CASE FeedNext
  BY <1>10, <1>1, <1>2, <1>3, <1>4, <1>5, <1>6, <1>7, <1>8 DEF FeedNext
<1> QED
  BY <1>9, <1>10

-----------------------------------------------------------------------------
\* The invariant of the walk holds in every reachable state.
LEMMA WalkSound == FeedSpec => []FeedInv
BY FeedStart, FeedStep, PTL DEF FeedSpec

\* ListFeed, ListFollowingFeed and ListByUser never read a post again that
\* the walk has already shown: each page lies below all that was shown.
THEOREM PagesDescend == FeedSpec => []NewestFirst
<1>1. FeedInv => NewestFirst
  <2> SUFFICES ASSUME FeedInv, stage = "read", NEW p \in batch, NEW q \in shown
               PROVE  Older(p, q)
    BY DEF NewestFirst
  <2>1. q \in Posts /\ p \in Posts /\ cursor # None /\ (q = cursor \/ Older(cursor, q))
    BY DEF FeedInv, FeedTypeOK, Passed
  <2>2. Older(p, cursor) /\ cursor \in Posts
    BY <2>1 DEF FeedInv, FeedTypeOK, Below
  <2> QED
    BY <2>1, <2>2, Order
<1> QED
  BY <1>1, WalkSound, PTL

\* A walk that reached its last page has shown every post that stayed in the
\* list all the time.
THEOREM WalkComplete == FeedSpec => []NothingSkipped
<1>1. FeedInv => NothingSkipped
  BY DEF FeedInv, Owed
<1> QED
  BY <1>1, WalkSound, PTL

-----------------------------------------------------------------------------
(* Arithmetic of page numbers *)

\* The quotient is the number whose multiple fits under a.
LEMMA DivUnique ==
  ASSUME NEW a \in Int, NEW b \in Nat \ {0}, NEW q \in Int, q * b <= a, a < q * b + b
  PROVE  a \div b = q
<1>1. a = b * (a \div b) + (a % b) /\ a % b \in 0..(b - 1) /\ a \div b \in Int
  OBVIOUS
<1>2. CASE a \div b > q
  OBVIOUS
<1>3. CASE a \div b < q
  OBVIOUS
<1>4. QED
  BY <1>1, <1>2, <1>3

\* A number below the divisor is its own remainder.
LEMMA ModSmall ==
  ASSUME NEW a \in Nat, NEW b \in Nat, a < b
  PROVE  a % b = a
OBVIOUS

\* A number that fits is kept by a signed integer.
LEMMA SignedFits ==
  ASSUME NEW half \in Nat \ {0}, NEW n \in 0..(half - 1)
  PROVE  Signed(n, half) = n
BY ModSmall DEF Signed

\* A signed integer holds an integer.
LEMMA SignedTyped ==
  ASSUME NEW half \in Nat \ {0}, NEW n \in Int
  PROVE  Signed(n, half) \in Int
BY DEF Signed

\* newPageResponse gives back the page that Pagination was asked for.
LEMMA PageOfOffset ==
  ASSUME NEW p \in Nat \ {0}, NEW s \in Nat \ {0}
  PROVE  PageNumber((p - 1) * s, s) = p
<1>1. (p - 1) * s \in Nat
  OBVIOUS
<1>2. ((p - 1) * s) \div s = p - 1
  BY <1>1, DivUnique
<1>3. QED
  BY <1>1, <1>2 DEF PageNumber

\* The four kinds of handlers, by their statements.
LEMMA HandlerStatements ==
  ASSUME NEW h \in Handlers
  PROVE  h.does \in {<<"rows", "count", "viewer">>, <<"rows", "count">>,
                     <<"folder", "rows", "count", "viewer">>, <<"rows", "count", "each">>}
BY DEF Handlers, ListByPost, List, FollowersOf, FollowedBy, Collected, ListFolderPosts,
       ListFolders, LikedPosts, Trending, ListHistory, TopicList, PostsOfTopic, PostsOfTag,
       Recommended, searchPosts, searchUsers, searchTags, Calls
-----------------------------------------------------------------------------
(* Lists that have each row once *)

Distinct(s) == \A i, j \in 1..Len(s) : s[i] = s[j] => i = j

\* The members of a sequence.
LEMMA SetOfSeq ==
  ASSUME NEW S, NEW s \in Seq(S)
  PROVE  /\ ToSet(s) \subseteq S
         /\ \A x : x \in ToSet(s) <=> \E i \in 1..Len(s) : s[i] = x
BY DEF ToSet

\* What a list is without the row at place j.
LEMMA Removed ==
  ASSUME NEW S, NEW s \in Seq(S), Distinct(s), NEW j \in 1..Len(s)
  PROVE  LET t == RemoveAt(s, j)
         IN  /\ t \in Seq(S) /\ Distinct(t) /\ Len(t) = Len(s) - 1
             /\ ToSet(t) = ToSet(s) \ {s[j]}
             /\ \A k \in 1..Len(t) : t[k] = IF k < j THEN s[k] ELSE s[k + 1]
<1> DEFINE a == SubSeq(s, 1, j - 1)
           b == SubSeq(s, j + 1, Len(s))
           t == a \o b
<1>1. a \in Seq(S) /\ Len(a) = j - 1 /\ \A k \in 1..(j - 1) : a[k] = s[k]
  OBVIOUS
<1>2. b \in Seq(S) /\ Len(b) = Len(s) - j /\ \A k \in 1..(Len(s) - j) : b[k] = s[j + k]
  OBVIOUS
<1> HIDE DEF a, b
<1>3. /\ t \in Seq(S) /\ Len(t) = Len(s) - 1
      /\ \A k \in 1..Len(t) : t[k] = IF k < j THEN s[k] ELSE s[k + 1]
  <2>1. /\ t \in Seq(S) /\ Len(t) = Len(a) + Len(b)
        /\ \A k \in 1..(Len(a) + Len(b)) : t[k] = IF k <= Len(a) THEN a[k] ELSE b[k - Len(a)]
    <3>1. a \in Seq(S) /\ b \in Seq(S)
      BY <1>1, <1>2
    <3>2. QED
      BY <3>1, ConcatProperties, Zenon
  <2>2. QED
    BY <1>1, <1>2, <2>1
<1> HIDE DEF t
<1>4. Distinct(t)
  BY <1>3 DEF Distinct
<1>5. ToSet(t) = ToSet(s) \ {s[j]}
  <2>1. ASSUME NEW x \in ToSet(t) PROVE x \in ToSet(s) \ {s[j]}
    BY <1>3, SetOfSeq DEF Distinct
  <2>2. ASSUME NEW x \in ToSet(s) \ {s[j]} PROVE x \in ToSet(t)
    <3>1. PICK i \in 1..Len(s) : s[i] = x /\ i # j
      BY SetOfSeq
    <3>2. CASE i < j
      BY <1>3, <3>1, <3>2, SetOfSeq
    <3>3. CASE i > j
      <4>1. t[i - 1] = x /\ i - 1 \in 1..Len(t)
        BY <1>3, <3>1, <3>3
      <4>2. QED
        BY <1>3, <4>1, SetOfSeq
    <3>4. QED
      BY <3>1, <3>2, <3>3
  <2>3. QED
    BY <2>1, <2>2
<1>6. t = RemoveAt(s, j)
  BY DEF t, a, b, RemoveAt
<1>7. QED
  BY <1>3, <1>4, <1>5, <1>6

\* What a list is with another row at place i.
LEMMA Inserted ==
  ASSUME NEW S, NEW s \in Seq(S), Distinct(s), NEW x \in S, x \notin ToSet(s),
         NEW i \in 1..(Len(s) + 1)
  PROVE  LET t == InsertAt(s, i, x)
         IN  /\ t \in Seq(S) /\ Distinct(t) /\ Len(t) = Len(s) + 1
             /\ ToSet(t) = ToSet(s) \cup {x}
             /\ \A k \in 1..Len(t) :
                  t[k] = IF k < i THEN s[k] ELSE IF k = i THEN x ELSE s[k - 1]
<1> DEFINE a == SubSeq(s, 1, i - 1)
           b == SubSeq(s, i, Len(s))
           t == a \o <<x>> \o b
<1>1. a \in Seq(S) /\ Len(a) = i - 1 /\ \A k \in 1..(i - 1) : a[k] = s[k]
  OBVIOUS
<1>2. b \in Seq(S) /\ Len(b) = Len(s) - i + 1 /\ \A k \in 1..(Len(s) - i + 1) : b[k] = s[i + k - 1]
  OBVIOUS
<1> HIDE DEF a, b
<1>3. /\ t \in Seq(S) /\ Len(t) = Len(s) + 1
      /\ \A k \in 1..Len(t) : t[k] = IF k < i THEN s[k] ELSE IF k = i THEN x ELSE s[k - 1]
  <2>1. /\ a \o <<x>> \in Seq(S) /\ Len(a \o <<x>>) = i
        /\ \A k \in 1..i : (a \o <<x>>)[k] = IF k < i THEN a[k] ELSE x
    BY <1>1, ConcatProperties
  <2>2. /\ t \in Seq(S) /\ Len(t) = i + Len(b)
        /\ \A k \in 1..(i + Len(b)) : t[k] = IF k <= i THEN (a \o <<x>>)[k] ELSE b[k - i]
    <3>1. b \in Seq(S) /\ a \o <<x>> \in Seq(S) /\ Len(a \o <<x>>) = i
      BY <1>2, <2>1
    <3>2. QED
      BY <3>1, ConcatProperties, Zenon
  <2> HIDE DEF t
  <2>3. i \in Nat /\ Len(s) \in Nat /\ 1 <= i /\ i <= Len(s) + 1 /\ Len(t) = Len(s) + 1
    BY <1>2, <2>2
  <2>4. ASSUME NEW k \in 1..Len(t)
        PROVE  t[k] = IF k < i THEN s[k] ELSE IF k = i THEN x ELSE s[k - 1]
    <3>1. CASE k <= i
      BY <1>1, <2>1, <2>2, <2>3, <3>1
    <3>2. CASE ~(k <= i)
      <4>1. t[k] = b[k - i]
        BY <2>2, <2>3, <3>2
      <4>2. k - i \in 1..(Len(s) - i + 1) /\ i + (k - i) - 1 = k - 1
        BY <2>3, <3>2
      <4>3. b[k - i] = s[k - 1]
        BY <1>2, <4>2
      <4> QED
        BY <2>3, <3>2, <4>1, <4>3
    <3> QED
      BY <3>1, <3>2
  <2> QED
    BY <2>2, <2>3, <2>4
<1> HIDE DEF t
<1>4. Distinct(t)
  <2>1. \A k \in 1..Len(s) : s[k] # x
    BY SetOfSeq
  <2>2. ASSUME NEW k \in 1..Len(t), NEW m \in 1..Len(t), k < m PROVE t[k] # t[m]
    <3>1. CASE m < i
      <4>1. k \in 1..Len(s) /\ m \in 1..Len(s) /\ t[k] = s[k] /\ t[m] = s[m]
        BY <1>3, <2>2, <3>1
      <4> QED
        BY <2>2, <4>1 DEF Distinct
    <3>2. CASE m = i
      <4>1. k \in 1..Len(s) /\ t[k] = s[k] /\ t[m] = x
        BY <1>3, <2>2, <3>2
      <4> QED
        BY <2>1, <4>1
    <3>3. CASE m > i /\ k < i
      <4>1. k \in 1..Len(s) /\ m - 1 \in 1..Len(s) /\ k # m - 1 /\ t[k] = s[k] /\ t[m] = s[m - 1]
        BY <1>3, <2>2, <3>3
      <4> QED
        BY <4>1 DEF Distinct
    <3>4. CASE m > i /\ k = i
      <4>1. m - 1 \in 1..Len(s) /\ t[k] = x /\ t[m] = s[m - 1]
        BY <1>3, <2>2, <3>4
      <4> QED
        BY <2>1, <4>1
    <3>5. CASE k > i
      <4>1. k - 1 \in 1..Len(s) /\ m - 1 \in 1..Len(s) /\ k - 1 # m - 1
        BY <1>3, <2>2, <3>5
      <4>2. t[k] = s[k - 1] /\ t[m] = s[m - 1]
        BY <1>3, <2>2, <3>5
      <4>3. QED
        BY <4>1, <4>2 DEF Distinct
    <3>6. QED
      BY <2>2, <3>1, <3>2, <3>3, <3>4, <3>5
  <2>3. QED
    BY <2>2 DEF Distinct
<1>5. ToSet(t) = ToSet(s) \cup {x}
  <2>1. ASSUME NEW y \in ToSet(t) PROVE y \in ToSet(s) \cup {x}
    <3>1. PICK k \in 1..Len(t) : t[k] = y
      BY <1>3, SetOfSeq
    <3>2. CASE k < i
      BY <1>3, <3>1, <3>2, SetOfSeq
    <3>3. CASE k > i
      <4>1. k - 1 \in 1..Len(s) /\ s[k - 1] = y
        BY <1>3, <3>1, <3>3
      <4>2. QED
        BY <4>1, SetOfSeq
    <3>4. QED
      BY <1>3, <3>1, <3>2, <3>3
  <2>2. ASSUME NEW y \in ToSet(s) PROVE y \in ToSet(t)
    <3>1. PICK k \in 1..Len(s) : s[k] = y
      BY SetOfSeq
    <3>2. CASE k < i
      BY <1>3, <3>1, <3>2, SetOfSeq
    <3>3. CASE k >= i
      <4>1. t[k + 1] = y /\ k + 1 \in 1..Len(t)
        BY <1>3, <3>1, <3>3
      <4>2. QED
        BY <1>3, <4>1, SetOfSeq
    <3>4. QED
      BY <3>1, <3>2, <3>3
  <2>3. x \in ToSet(t)
    BY <1>3, SetOfSeq
  <2>4. QED
    BY <2>1, <2>2, <2>3
<1>6. t = InsertAt(s, i, x)
  BY DEF t, a, b, InsertAt
<1>7. QED
  BY <1>3, <1>4, <1>5, <1>6

\* A list that has each row once is no longer than there are rows for it.
LEMMA ListShort ==
  ASSUME NEW s \in Seq(Rows), Distinct(s), NEW T, T \subseteq Rows \ ToSet(s)
  PROVE  Len(s) + Cardinality(T) <= Cardinality(Rows) /\ Cardinality(T) \in Nat
<1> DEFINE U == Rows \ T
<1>1. IsFiniteSet(Rows) /\ IsFiniteSet(T) /\ IsFiniteSet(U)
  BY PagesAssumption, FS_Subset
<1>2. Cardinality(Rows) = Cardinality(U) + Cardinality(T)
  <2>1. Rows = U \cup T /\ U \cap T = {}
    OBVIOUS
  <2> HIDE DEF U
  <2>2. Cardinality(U \cup T) = Cardinality(U) + Cardinality(T) - Cardinality(U \cap T)
    BY <1>1, FS_Union
  <2>3. Cardinality(U \cap T) = 0
    BY <2>1, FS_EmptySet
  <2>4. Cardinality(U) \in Nat /\ Cardinality(T) \in Nat
    BY <1>1, FS_CardinalityType
  <2>5. Cardinality(Rows) = Cardinality(U \cup T)
    BY <2>1
  <2>6. QED
    BY <2>2, <2>3, <2>4, <2>5
<1>3. s \in Injection(1..Len(s), U)
  BY SetOfSeq DEF Injection, IsInjective, Distinct
<1>4. Cardinality(1..Len(s)) <= Cardinality(U)
  BY <1>1, <1>3, FS_Injection
<1>5. Cardinality(1..Len(s)) = Len(s)
  <2>1. Len(s) \in Nat
    OBVIOUS
  <2>2. Cardinality(1..Len(s)) = IF 1 > Len(s) THEN 0 ELSE Len(s) - 1 + 1
    BY <2>1, FS_Interval
  <2>3. QED
    BY <2>1, <2>2
<1>6. QED
  BY <1>1, <1>2, <1>4, <1>5, FS_CardinalityType

\* A row of the list is at its place.
LEMMA PlaceIs ==
  ASSUME TypeOK, NEW x \in ToSet(list)
  PROVE  Place(x) \in 1..Len(list) /\ list[Place(x)] = x
<1>1. \E i \in 1..Len(list) : list[i] = x
  BY SetOfSeq DEF TypeOK
<1>2. QED
  BY <1>1 DEF Place

\* What the list is without a row.
LEMMA WithoutIs ==
  ASSUME TypeOK, NEW x \in Rows
  PROVE  LET t == Without(x)
         IN  /\ t \in Seq(Rows) /\ Distinct(t) /\ ToSet(t) = ToSet(list) \ {x}
             /\ x \notin ToSet(list) => t = list
             /\ x \in ToSet(list) =>
                  /\ Len(t) = Len(list) - 1
                  /\ \A k \in 1..Len(t) : t[k] = IF k < Place(x) THEN list[k] ELSE list[k + 1]
<1>1. list \in Seq(Rows) /\ Distinct(list)
  BY DEF TypeOK, Distinct
<1>2. CASE x \in ToSet(list)
  <2>1. Place(x) \in 1..Len(list) /\ list[Place(x)] = x
    BY <1>2, PlaceIs
  <2>2. Without(x) = RemoveAt(list, Place(x))
    BY <1>2 DEF Without
  <2> DEFINE t == RemoveAt(list, Place(x))
  <2>3. /\ t \in Seq(Rows) /\ Distinct(t) /\ Len(t) = Len(list) - 1
        /\ ToSet(t) = ToSet(list) \ {list[Place(x)]}
        /\ \A k \in 1..Len(t) : t[k] = IF k < Place(x) THEN list[k] ELSE list[k + 1]
    BY <1>1, <2>1, Removed, Zenon
  <2> HIDE DEF t
  <2>4. Without(x) = t
    BY <2>2 DEF t
  <2>5. QED
    BY <1>2, <2>1, <2>3, <2>4
<1>3. CASE x \notin ToSet(list)
  BY <1>1, <1>3 DEF Without
<1>4. QED
  BY <1>2, <1>3

\* The window is the rows behind the offset, at most limit of them.
LEMMA WindowIs ==
  ASSUME NEW S, list \in Seq(S), NEW o \in Nat, NEW m \in Nat
  PROVE  LET w == WindowOf(o, m)
         IN  /\ w \in Seq(S) /\ Len(w) <= m
             /\ \A x : x \in ToSet(w) <=> \E i \in 1..Len(list) : o < i /\ i <= o + m /\ list[i] = x
<1> DEFINE e == IF o + m < Len(list) THEN o + m ELSE Len(list)
           w == SubSeq(list, o + 1, e)
<1>1. Len(list) \in Nat /\ e \in Nat /\ e <= Len(list) /\ e <= o + m
  OBVIOUS
<1>2. \A i \in 1..Len(list) : i <= e <=> i <= o + m
  OBVIOUS
<1> HIDE DEF e
<1>3. /\ w \in Seq(S) /\ Len(w) = (IF o + 1 <= e THEN e - o ELSE 0)
      /\ \A k \in 1..(e - o) : w[k] = list[o + k]
  BY <1>1
<1> HIDE DEF w
<1>4. ASSUME NEW x \in ToSet(w)
      PROVE  \E i \in 1..Len(list) : o < i /\ i <= o + m /\ list[i] = x
  <2>1. PICK k \in 1..Len(w) : w[k] = x
    BY <1>3, SetOfSeq
  <2>2. /\ o + k \in 1..Len(list) /\ o < o + k /\ o + k <= o + m /\ list[o + k] = x
    BY <1>1, <1>3, <2>1
  <2>3. QED
    BY <2>2
<1>5. ASSUME NEW i \in 1..Len(list), o < i, i <= o + m
      PROVE  list[i] \in ToSet(w)
  <2>1. i - o \in 1..Len(w) /\ w[i - o] = list[i]
    BY <1>1, <1>2, <1>3, <1>5
  <2>2. QED
    BY <1>3, <2>1, SetOfSeq
<1>6. Len(w) <= m
  BY <1>1, <1>3
<1>7. w = WindowOf(o, m)
  BY DEF w, e, WindowOf
<1>8. QED
  BY <1>3, <1>4, <1>5, <1>6, <1>7

\* Pagination returns an offset and a size that is allowed.
LEMMA Paged ==
  ASSUME NEW page \in Int, NEW size \in Int
  PROVE  Pagination(page, size) \in [offset : Int, limit : 1..MaxSize]
<1> DEFINE p == IF page < 1 THEN 1 ELSE page
           s == CASE size < 1 -> DefaultSize [] size > MaxSize -> MaxSize [] OTHER -> size
<1>1. s \in 1..MaxSize
  BY PagesAssumption
<1>2. (p - 1) * s \in Int
  BY <1>1
<1>3. Signed((p - 1) * s, IntHalf) \in Int
  BY <1>2, SignedTyped, PagesAssumption
<1>4. QED
  BY <1>1, <1>3 DEF Pagination

\* The page size sent is that of the call, whatever page it asks for next.
LEMMA LimitKept ==
  ASSUME NEW page \in Int, NEW size \in 1..MaxSize
  PROVE  Pagination(page, size).limit = size
BY PagesAssumption DEF Pagination

\* A handler runs at least one statement.
LEMMA DoesTyped ==
  ASSUME NEW h \in Handlers
  PROVE  h.does \in Seq(Statements) /\ h.does # <<>>
<1>1. h.does \in {<<"rows", "count", "viewer">>, <<"rows", "count">>,
                  <<"folder", "rows", "count", "viewer">>, <<"rows", "count", "each">>}
  BY HandlerStatements
<1>2. /\ <<"rows", "count", "viewer">> \in Seq(Statements)
      /\ <<"rows", "count">> \in Seq(Statements)
      /\ <<"folder", "rows", "count", "viewer">> \in Seq(Statements)
      /\ <<"rows", "count", "each">> \in Seq(Statements)
  BY DEF Statements
<1>3. /\ <<"rows", "count", "viewer">> # <<>> /\ <<"rows", "count">> # <<>>
      /\ <<"folder", "rows", "count", "viewer">> # <<>> /\ <<"rows", "count", "each">> # <<>>
  OBVIOUS
<1>4. QED
  BY <1>1, <1>2, <1>3, Zenon

\* The page number is an integer.
LEMMA PageTyped ==
  ASSUME TypeOK
  PROVE  Page \in Int
<1>1. args.offset \in Int /\ args.limit \in Nat \ {0}
  BY PagesAssumption DEF TypeOK
<1>2. QED
  BY <1>1 DEF Page, PageNumber

\* Every initial state is well typed.
LEMMA TypeInit == Init => TypeOK
<1> SUFFICES ASSUME Init PROVE TypeOK
  OBVIOUS
<1>1. list \in Seq(Rows) /\ \A i, j \in 1..Len(list) : list[i] = list[j] => i = j
  <2>1. PICK s \in SUBSET Rows : list \in SetToSeqs(s)
    BY DEF Init
  <2>2. Cardinality(s) \in Nat
    BY PagesAssumption, FS_Subset, FS_CardinalityType
  <2>3. list \in [1..Cardinality(s) -> s]
        /\ \A i, j \in 1..Cardinality(s) : i # j => list[i] # list[j]
    BY <2>1 DEF SetToSeqs
  <2> DEFINE n == Cardinality(s)
  <2> HIDE DEF n
  <2>4. n \in Nat /\ list \in [1..n -> s] /\ \A i, j \in 1..n : i # j => list[i] # list[j]
    BY <2>2, <2>3 DEF n
  <2>5. list \in Seq(s) /\ Len(list) = n
    BY <2>4, SeqDef, LenProperties
  <2>6. QED
    BY <2>4, <2>5
<1>2. Pagination(0, 0) \in [offset : Int, limit : 1..MaxSize]
  BY Paged
<1>3. deleted \subseteq Rows \ ToSet(list) /\ counted \subseteq deleted
  BY DEF Init
<1>4. folder \in BOOLEAN /\ handler \in Handlers /\ arrived \in BOOLEAN /\ left \in BOOLEAN
  BY Zenon DEF Init
<1>5. mode \in {"one", "walk"} /\ asked \in Int /\ total \in Nat
  BY DEF Init
<1>6. todo \in Seq(Statements) /\ window \in Seq(Rows)
  BY DEF Init
<1>7. status \in Statuses /\ (status = "open" <=> todo # <<>>)
  BY DEF Init, Statuses
<1>8. marks \subseteq Rows /\ seen \subseteq Rows /\ stayed \subseteq ToSet(list)
  BY DEF Init
<1>9. args \in [offset : Int, limit : 1..MaxSize]
  BY <1>2 DEF Init
<1>10. QED
  BY <1>1, <1>3, <1>4, <1>5, <1>6, <1>7, <1>8, <1>9, Zenon DEF TypeOK
-----------------------------------------------------------------------------
(* Type correctness *)

DataOK ==
  /\ list \in Seq(Rows) /\ Distinct(list)
  /\ deleted \subseteq Rows \ ToSet(list) /\ counted \subseteq deleted
  /\ folder \in BOOLEAN

CallOK ==
  /\ handler \in Handlers /\ mode \in {"one", "walk"}
  /\ asked \in Int /\ args \in [offset : Int, limit : 1..MaxSize]
  /\ todo \in Seq(Statements) /\ status \in Statuses /\ (status = "open" <=> todo # <<>>)
  /\ window \in Seq(Rows) /\ total \in Nat /\ marks \subseteq Rows

WalkOK ==
  /\ seen \subseteq Rows /\ stayed \subseteq ToSet(list)
  /\ arrived \in BOOLEAN /\ left \in BOOLEAN

\* TypeOK says one thing each of the list, the call and the walk.
LEMMA TypeParts == TypeOK <=> DataOK /\ CallOK /\ WalkOK
BY Zenon DEF TypeOK, DataOK, CallOK, WalkOK, Distinct

\* The list keeps its types where it does not change.
LEMMA DataKept == DataOK /\ UNCHANGED data => DataOK'
BY Zenon DEF DataOK, data

\* So does the call.
LEMMA CallKept == CallOK /\ UNCHANGED call => CallOK'
BY Zenon DEF CallOK, call

\* So does the walk.
LEMMA WalkKept == WalkOK /\ UNCHANGED <<walk, list>> => WalkOK'
BY Zenon DEF WalkOK, walk

\* A statement that succeeds leaves the rest of the call's statements.
LEMMA ProceedKeeps ==
  ASSUME CallOK, status = "open", Proceed,
         window' \in Seq(Rows), total' \in Nat, marks' \subseteq Rows
  PROVE  CallOK'
<1>1. todo \in Seq(Statements) /\ todo # <<>>
  BY DEF CallOK
<1>2. todo' \in Seq(Statements) /\ Len(todo') = Len(todo) - 1 /\ Len(todo) \in Nat \ {0}
  BY <1>1 DEF Proceed
<1>3. todo' = <<>> <=> Len(todo) = 1
  <2>1. todo' # <<>> => Len(todo') \in Nat \ {0}
    BY <1>2, EmptySeq, Zenon
  <2>2. todo' = <<>> => Len(todo') = 0
    BY EmptySeq, Zenon
  <2>3. QED
    BY <1>2, <2>1, <2>2
<1>4. status' \in Statuses /\ (status' = "open" <=> todo' # <<>>)
  BY <1>3 DEF Proceed, Statuses
<1>5. UNCHANGED <<handler, mode, asked, args>>
  BY DEF Proceed
<1>6. QED
  BY <1>2, <1>4, <1>5, Zenon DEF CallOK

\* A call that is refused or fails has no statements left.
LEMMA RefuseKeeps ==
  ASSUME CallOK, NEW answer \in {"missing", "refused", "failed"}, Refuse(answer)
  PROVE  CallOK'
<1>1. todo' \in Seq(Statements) /\ status' \in Statuses /\ (status' = "open" <=> todo' # <<>>)
  BY DEF Refuse, Statuses
<1>2. UNCHANGED <<handler, mode, asked, args, window, total, marks>>
  BY DEF Refuse
<1>3. QED
  BY <1>1, <1>2, Zenon DEF CallOK

\* Begin starts a call that is well typed.
LEMMA BeginType ==
  ASSUME DataOK, CallOK, WalkOK, NEW m \in {"walk", "one"}, NEW page \in Int, NEW size \in Int,
         Begin(m, page, size)
  PROVE  DataOK' /\ CallOK' /\ WalkOK'
<1>1. UNCHANGED data /\ handler' = handler
  BY DEF Begin
<1>2. mode' \in {"one", "walk"} /\ asked' \in Int /\ total' \in Nat /\ marks' \subseteq Rows
  BY DEF Begin
<1>3. args' \in [offset : Int, limit : 1..MaxSize]
  BY Paged DEF Begin
<1>4. todo' \in Seq(Statements) /\ todo' # <<>>
  BY DoesTyped DEF Begin, CallOK
<1>5. status' \in Statuses /\ status' = "open" /\ window' \in Seq(Rows)
  BY DEF Begin, Statuses
<1>6. CallOK'
  BY <1>1, <1>2, <1>3, <1>4, <1>5, Zenon DEF CallOK
<1>7. seen' \subseteq Rows /\ stayed' = ToSet(list')
  BY <1>1 DEF Begin, data
<1>8. arrived' \in BOOLEAN /\ left' \in BOOLEAN
  BY Zenon DEF Begin
<1>9. QED
  BY <1>1, <1>6, <1>7, <1>8, DataKept, Zenon DEF WalkOK

\* ReadRows fills the window with rows, or is refused.
LEMMA ReadRowsType ==
  ASSUME DataOK, CallOK, WalkOK, ReadRows
  PROVE  DataOK' /\ CallOK' /\ WalkOK'
<1> DEFINE offset == Signed(args.offset, Int32Half)
<1>1. status = "open"
  BY DEF ReadRows, Due
<1>2. offset \in Int
  <2>1. args.offset \in Int /\ Int32Half \in Nat \ {0}
    BY PagesAssumption DEF CallOK
  <2>2. QED
    BY <2>1, SignedTyped
<1>3. CASE offset < 0 /\ Refuse("refused")
  BY <1>3, RefuseKeeps, DataKept, WalkKept DEF Refuse, data
<1>4. CASE /\ offset >= 0 /\ Proceed
           /\ window' = WindowOf(offset, args.limit)
           /\ UNCHANGED <<total, marks>>
  <2>1. offset \in Nat /\ args.limit \in Nat /\ list \in Seq(Rows)
    BY <1>2, <1>4, PagesAssumption DEF CallOK, DataOK
  <2>2. window' \in Seq(Rows)
    BY <1>4, <2>1, WindowIs
  <2>3. total' \in Nat /\ marks' \subseteq Rows
    BY <1>4 DEF CallOK
  <2>4. QED
    BY <1>1, <1>4, <2>2, <2>3, ProceedKeeps, DataKept, WalkKept DEF Proceed, data
<1>5. QED
  BY <1>3, <1>4 DEF ReadRows

\* So do the other statements keep the types.
LEMMA StatementType ==
  ASSUME DataOK, CallOK, WalkOK, LookupFolder \/ CountRows \/ ApplyViewerStates \/ CountEach \/ Fail
  PROVE  DataOK' /\ CallOK' /\ WalkOK'
<1>1. Proceed \/ Refuse("missing") \/ Refuse("failed")
  BY DEF LookupFolder, CountRows, ApplyViewerStates, CountEach, Fail
<1>2. UNCHANGED data /\ UNCHANGED walk
  BY <1>1 DEF Proceed, Refuse
<1>3. DataOK' /\ WalkOK'
  BY <1>2, DataKept, WalkKept DEF data
<1>4. CASE Refuse("missing") \/ Refuse("failed")
  <2>1. Refuse("missing") => CallOK'
    BY RefuseKeeps, Zenon
  <2>2. Refuse("failed") => CallOK'
    BY RefuseKeeps, Zenon
  <2>3. QED
    BY <1>3, <1>4, <2>1, <2>2
<1>5. CASE Proceed /\ ~Refuse("missing") /\ ~Refuse("failed")
  <2>1. status = "open"
    BY DEF LookupFolder, CountRows, ApplyViewerStates, CountEach, Fail, Due
  <2>2. CASE CountRows
    <3>1. Cardinality(counted) \in Nat
      BY PagesAssumption, FS_Subset, FS_CardinalityType DEF DataOK
    <3>2. Len(list) \in Nat
      BY DEF DataOK
    <3>3. total' = Len(list) + Cardinality(counted) /\ UNCHANGED <<window, marks>>
      BY <2>2 DEF CountRows
    <3>4. total' \in Nat /\ window' \in Seq(Rows) /\ marks' \subseteq Rows
      BY <3>1, <3>2, <3>3 DEF CallOK
    <3>5. QED
      BY <1>3, <1>5, <2>1, <3>4, ProceedKeeps
  <2>3. CASE ApplyViewerStates
    <3>1. UNCHANGED <<window, total>> /\ marks' \subseteq ToSet(window)
      BY <2>3 DEF ApplyViewerStates
    <3>2. total' \in Nat /\ window' \in Seq(Rows) /\ marks' \subseteq Rows
      BY <3>1, SetOfSeq DEF CallOK
    <3>3. QED
      BY <1>3, <1>5, <2>1, <3>2, ProceedKeeps
  <2>4. CASE LookupFolder \/ CountEach
    <3>1. UNCHANGED <<window, total, marks>>
      BY <1>5, <2>4 DEF LookupFolder, CountEach
    <3>2. total' \in Nat /\ window' \in Seq(Rows) /\ marks' \subseteq Rows
      BY <3>1 DEF CallOK
    <3>3. QED
      BY <1>3, <1>5, <2>1, <3>2, ProceedKeeps
  <2>5. QED
    BY <1>5, <2>2, <2>3, <2>4 DEF Fail
<1>6. QED
  BY <1>1, <1>3, <1>4, <1>5

\* NextPage opens the next call, or ends the walk.
LEMMA NextPageType ==
  ASSUME TypeOK, DataOK, CallOK, WalkOK, NextPage
  PROVE  DataOK' /\ CallOK' /\ WalkOK'
<1>1. /\ UNCHANGED data /\ status = "ok" /\ handler' = handler /\ mode' = mode
      /\ stayed' = stayed /\ arrived' = arrived /\ left' = left
  BY DEF NextPage
<1>2. window' \in Seq(Rows) /\ total' \in Nat /\ marks' \subseteq Rows
  BY DEF NextPage
<1>3. Page \in Int
  BY PageTyped
<1> handler' \in Handlers /\ mode' \in {"one", "walk"}
  BY <1>1 DEF CallOK
<1>4. ASSUME mode = "walk", Page * args.limit < total PROVE CallOK'
  <2>1. asked' = Page + 1 /\ args' = Pagination(Page + 1, args.limit)
        /\ todo' = handler.does /\ status' = "open"
    BY <1>4 DEF NextPage
  <2>2. args.limit \in Int /\ Page + 1 \in Int
    BY <1>3, PagesAssumption DEF CallOK
  <2>3. args' \in [offset : Int, limit : 1..MaxSize]
    BY <2>1, <2>2, Paged
  <2>4. todo' \in Seq(Statements) /\ todo' # <<>> /\ status' \in Statuses
    BY <2>1, DoesTyped DEF CallOK, Statuses
  <2>5. QED
    <3>1. asked' \in Int /\ (status' = "open" <=> todo' # <<>>)
      BY <2>1, <2>2, <2>4
    <3>2. QED
      BY <1>2, <2>3, <2>4, <3>1, Zenon DEF CallOK
<1>5. ASSUME ~(mode = "walk" /\ Page * args.limit < total) PROVE CallOK'
  <2>1. UNCHANGED <<asked, args, todo>> /\ status' = "closed"
    BY <1>5 DEF NextPage
  <2>2. todo' = <<>> /\ todo' \in Seq(Statements) /\ status' \in Statuses /\ status' # "open"
    BY <1>1, <2>1 DEF CallOK, Statuses
  <2>3. asked' = asked /\ args' = args
    BY <2>1
  <2>4. (status' = "open" <=> todo' # <<>>)
    BY <2>2
  <2>5. QED
    BY <1>2, <2>2, <2>3, <2>4, Zenon DEF CallOK
<1>6. CallOK'
  BY <1>4, <1>5
<1>7. seen' \subseteq Rows
  BY SetOfSeq DEF NextPage, WalkOK, CallOK
<1>8. UNCHANGED list
  BY <1>1 DEF data
<1>9. QED
  BY <1>1, <1>6, <1>7, <1>8, DataKept, Zenon DEF WalkOK

\* A row that arrives was not in the list.
LEMMA ArriveType ==
  ASSUME DataOK, CallOK, WalkOK, NEW x \in Rows, NEW i \in 1..(Len(list) + 1), Arrive(x, i)
  PROVE  DataOK' /\ CallOK' /\ WalkOK'
<1>1. list \in Seq(Rows) /\ Distinct(list) /\ x \notin ToSet(list) /\ x \notin deleted
  BY DEF DataOK, Arrive
<1> DEFINE t == InsertAt(list, i, x)
<1>2. t \in Seq(Rows) /\ Distinct(t) /\ ToSet(t) = ToSet(list) \cup {x}
  BY <1>1, Inserted
<1> HIDE DEF t
<1>3. list' = t /\ UNCHANGED <<deleted, counted, folder, call, seen, stayed, left>> /\ arrived' = TRUE
  BY DEF Arrive, t
<1>4. list' \in Seq(Rows) /\ Distinct(list') /\ ToSet(list') = ToSet(list) \cup {x}
  BY <1>2, <1>3
<1>5. deleted' \subseteq Rows \ ToSet(list') /\ counted' \subseteq deleted'
  BY <1>1, <1>3, <1>4 DEF DataOK
<1>6. folder' \in BOOLEAN /\ arrived' \in BOOLEAN /\ left' \in BOOLEAN /\ seen' \subseteq Rows
  BY <1>3, Zenon DEF DataOK, WalkOK
<1>7. stayed' \subseteq ToSet(list')
  BY <1>3, <1>4 DEF WalkOK
<1>8. CallOK'
  BY <1>3, CallKept
<1>9. Distinct(list)'
  BY <1>4 DEF Distinct
<1>10. QED
  BY <1>4, <1>5, <1>6, <1>7, <1>8, <1>9, Zenon DEF DataOK, WalkOK

\* A row that leaves is gone from the list, and the others are not.
LEMMA LeaveType ==
  ASSUME TypeOK, DataOK, CallOK, WalkOK, NEW x \in Rows, Leave(x)
  PROVE  DataOK' /\ CallOK' /\ WalkOK'
<1> DEFINE t == Without(x)
<1>1. t \in Seq(Rows) /\ Distinct(t) /\ ToSet(t) = ToSet(list) \ {x}
  BY WithoutIs, Zenon
<1> HIDE DEF t
<1>2. list' = t /\ UNCHANGED <<deleted, counted, folder, call, seen, arrived>>
      /\ stayed' = stayed \ {x} /\ left' = TRUE
  BY DEF Leave, t
<1>3. list' \in Seq(Rows) /\ Distinct(list)' /\ ToSet(list') = ToSet(list) \ {x}
  BY <1>1, <1>2 DEF Distinct
<1>4. deleted' \subseteq Rows \ ToSet(list') /\ counted' \subseteq deleted'
  BY <1>2, <1>3 DEF DataOK
<1>5. folder' \in BOOLEAN /\ arrived' \in BOOLEAN /\ left' \in BOOLEAN /\ seen' \subseteq Rows
  BY <1>2, Zenon DEF DataOK, WalkOK
<1>6. stayed' \subseteq ToSet(list')
  BY <1>2, <1>3 DEF WalkOK
<1>7. CallOK'
  BY <1>2, CallKept
<1>8. QED
  BY <1>3, <1>4, <1>5, <1>6, <1>7, Zenon DEF DataOK, WalkOK

\* A row that is deleted is gone from the list.
LEMMA DeleteType ==
  ASSUME TypeOK, DataOK, CallOK, WalkOK, NEW x \in Rows, Delete(x)
  PROVE  DataOK' /\ CallOK' /\ WalkOK'
<1> DEFINE t == Without(x)
<1>1. t \in Seq(Rows) /\ Distinct(t) /\ ToSet(t) = ToSet(list) \ {x}
  BY WithoutIs, Zenon
<1> HIDE DEF t
<1>2. /\ list' = t /\ UNCHANGED <<folder, call, seen, arrived>>
      /\ deleted' = deleted \cup {x} /\ counted' \subseteq counted \cup {x}
      /\ stayed' = stayed \ {x}
  BY DEF Delete, t
<1>3. list' \in Seq(Rows) /\ Distinct(list)' /\ ToSet(list') = ToSet(list) \ {x}
  BY <1>1, <1>2 DEF Distinct
<1>4. deleted' \subseteq Rows \ ToSet(list') /\ counted' \subseteq deleted'
  BY <1>2, <1>3 DEF DataOK
<1>5. folder' \in BOOLEAN /\ arrived' \in BOOLEAN /\ seen' \subseteq Rows
  BY <1>2, Zenon DEF DataOK, WalkOK
<1>6. left' \in BOOLEAN
  BY Zenon DEF Delete
<1>7. stayed' \subseteq ToSet(list')
  BY <1>2, <1>3 DEF WalkOK
<1>8. CallOK'
  BY <1>2, CallKept
<1>9. QED
  BY <1>3, <1>4, <1>5, <1>6, <1>7, <1>8, Zenon DEF DataOK, WalkOK

\* A row that moves is taken out and put back elsewhere.
LEMMA MovedIs ==
  ASSUME TypeOK, NEW x \in ToSet(list), NEW i \in 1..Len(list)
  PROVE  LET t == InsertAt(Without(x), i, x)
         IN  t \in Seq(Rows) /\ Distinct(t) /\ ToSet(t) = ToSet(list)
<1> DEFINE u == Without(x)
           t == InsertAt(u, i, x)
<1>1. x \in Rows /\ Len(list) \in Nat
  BY SetOfSeq DEF TypeOK
<1>2. u \in Seq(Rows) /\ Distinct(u) /\ ToSet(u) = ToSet(list) \ {x} /\ Len(u) = Len(list) - 1
  BY <1>1, WithoutIs, Zenon
<1> HIDE DEF u
<1>3. x \notin ToSet(u) /\ i \in 1..(Len(u) + 1)
  BY <1>1, <1>2
<1>4. t \in Seq(Rows) /\ Distinct(t) /\ ToSet(t) = ToSet(u) \cup {x}
  BY <1>1, <1>2, <1>3, Inserted
<1> HIDE DEF t
<1>5. ToSet(t) = ToSet(list)
  BY <1>2, <1>4
<1>6. QED
  BY <1>4, <1>5 DEF t, u

\* A row that moves stays in the list.
LEMMA MoveType ==
  ASSUME TypeOK, DataOK, CallOK, WalkOK, NEW x \in Rows, NEW i \in Nat, Move(x, i)
  PROVE  DataOK' /\ CallOK' /\ WalkOK'
<1> DEFINE t == InsertAt(Without(x), i, x)
<1>1. i \in 1..Len(list) /\ x \in ToSet(list)
  BY DEF Move
<1>2. t \in Seq(Rows) /\ Distinct(t) /\ ToSet(t) = ToSet(list)
  BY <1>1, MovedIs, Zenon
<1> HIDE DEF t
<1>3. /\ list' = t /\ UNCHANGED <<deleted, counted, folder, call, seen>>
      /\ stayed' = stayed \ {x} /\ arrived' = TRUE
  BY DEF Move, t
<1>4. list' \in Seq(Rows) /\ Distinct(list)' /\ ToSet(list') = ToSet(list)
  BY <1>2, <1>3 DEF Distinct
<1>5. deleted' \subseteq Rows \ ToSet(list') /\ counted' \subseteq deleted'
  BY <1>3, <1>4 DEF DataOK
<1>6. folder' \in BOOLEAN /\ arrived' \in BOOLEAN /\ seen' \subseteq Rows
  BY <1>3, Zenon DEF DataOK, WalkOK
<1>7. left' \in BOOLEAN
  BY Zenon DEF Move
<1>8. stayed' \subseteq ToSet(list')
  BY <1>3, <1>4 DEF WalkOK
<1>9. CallOK'
  BY <1>3, CallKept
<1>10. QED
  BY <1>4, <1>5, <1>6, <1>7, <1>8, <1>9, Zenon DEF DataOK, WalkOK

\* Without its folder the list is empty.
LEMMA DropFolderType ==
  ASSUME DataOK, CallOK, WalkOK, DropFolder
  PROVE  DataOK' /\ CallOK' /\ WalkOK'
<1>1. /\ list' = <<>> /\ UNCHANGED <<deleted, counted, call, seen, arrived>>
      /\ stayed' = {} /\ left' = TRUE /\ folder' = FALSE
  BY DEF DropFolder
<1>2. list' \in Seq(Rows) /\ Distinct(list)' /\ ToSet(list') = {}
  BY <1>1 DEF Distinct, ToSet
<1>3. deleted' \subseteq Rows \ ToSet(list') /\ counted' \subseteq deleted'
  BY <1>1, <1>2 DEF DataOK
<1>4. folder' \in BOOLEAN /\ arrived' \in BOOLEAN /\ left' \in BOOLEAN /\ seen' \subseteq Rows
  BY <1>1, Zenon DEF DataOK, WalkOK
<1>5. stayed' \subseteq ToSet(list')
  BY <1>1
<1>6. CallOK'
  BY <1>1, CallKept
<1>7. QED
  BY <1>2, <1>3, <1>4, <1>5, <1>6, Zenon DEF DataOK, WalkOK

\* Every step is one of these, with inputs of these kinds.
LEMMA NextCases ==
  ASSUME Next
  PROVE  \/ \E m \in {"walk", "one"}, page \in Int, size \in Int :
              (m = "walk" => page = 1) /\ Begin(m, page, size)
         \/ LookupFolder \/ ReadRows \/ CountRows \/ ApplyViewerStates \/ CountEach \/ Fail
         \/ NextPage
         \/ \E x \in Rows, i \in Nat : i \in 1..(Len(list) + 1) /\ Arrive(x, i)
         \/ \E x \in Rows, i \in Nat : Move(x, i)
         \/ \E x \in Rows : Leave(x) \/ Delete(x)
         \/ DropFolder
<1>1. PageParams \subseteq Int /\ SizeParams \subseteq Int
  BY PagesAssumption DEF PageParams, SizeParams
<1>2. ASSUME NEW x \in Rows, NEW i \in 1..(Cardinality(Rows) + 1), i <= Len(list) + 1, Arrive(x, i)
      PROVE  \E y \in Rows, j \in Nat : j \in 1..(Len(list) + 1) /\ Arrive(y, j)
  <2>1. i \in Nat /\ i \in 1..(Len(list) + 1)
    BY <1>2
  <2>2. QED
    BY <1>2, <2>1, Zenon
<1>3. ASSUME NEW x \in Rows, NEW i \in 1..(Cardinality(Rows) + 1), Move(x, i)
      PROVE  \E y \in Rows, j \in Nat : Move(y, j)
  <2>1. i \in Nat
    OBVIOUS
  <2>2. QED
    BY <1>3, <2>1, Zenon
<1>4. CASE (\E size \in SizeParams : Begin("walk", 1, size))
           \/ \E page \in PageParams, size \in SizeParams : Begin("one", page, size)
  <2>1. 1 \in Int /\ "walk" \in {"walk", "one"} /\ "one" \in {"walk", "one"} /\ "one" # "walk"
    OBVIOUS
  <2>2. \E m \in {"walk", "one"}, page \in Int, size \in Int :
          (m = "walk" => page = 1) /\ Begin(m, page, size)
    BY <1>1, <1>4, <2>1, Zenon
  <2>3. QED
    BY <2>2, Zenon
<1>5. QED
  BY <1>2, <1>3, <1>4, Zenon DEF Next

\* Every step keeps the types.
LEMMA TypeStep ==
  ASSUME TypeOK, [Next]_vars
  PROVE  TypeOK'
<1>1. DataOK /\ CallOK /\ WalkOK
  BY TypeParts
<1>2. SUFFICES DataOK' /\ CallOK' /\ WalkOK'
  BY Zenon DEF TypeOK, DataOK, CallOK, WalkOK, Distinct
<1>3. CASE UNCHANGED vars
  <2>1. UNCHANGED data /\ UNCHANGED call /\ UNCHANGED walk /\ UNCHANGED list
    BY <1>3 DEF vars, data
  <2>2. QED
    BY <1>1, <2>1, DataKept, CallKept, WalkKept
<1>4. ASSUME NEW m \in {"walk", "one"}, NEW page \in Int, NEW size \in Int, Begin(m, page, size)
      PROVE  DataOK' /\ CallOK' /\ WalkOK'
  BY <1>1, <1>4, BeginType
<1>5. ASSUME LookupFolder \/ ReadRows \/ CountRows \/ ApplyViewerStates \/ CountEach \/ Fail
             \/ NextPage
      PROVE  DataOK' /\ CallOK' /\ WalkOK'
  BY <1>1, <1>5, StatementType, ReadRowsType, NextPageType, Zenon
<1>6. ASSUME NEW x \in Rows, NEW i \in 1..(Len(list) + 1), Arrive(x, i)
      PROVE  DataOK' /\ CallOK' /\ WalkOK'
  BY <1>1, <1>6, ArriveType, Zenon
<1>7. ASSUME NEW x \in Rows, NEW i \in Nat, Move(x, i)
      PROVE  DataOK' /\ CallOK' /\ WalkOK'
  BY <1>1, <1>7, MoveType, Zenon
<1>8. ASSUME NEW x \in Rows, Leave(x) \/ Delete(x)
      PROVE  DataOK' /\ CallOK' /\ WalkOK'
  BY <1>1, <1>8, LeaveType, DeleteType, Zenon
<1>9. ASSUME DropFolder
      PROVE  DataOK' /\ CallOK' /\ WalkOK'
  BY <1>1, <1>9, DropFolderType, Zenon
<1>10. CASE Next
  BY <1>4, <1>5, <1>6, <1>7, <1>8, <1>9, <1>10, NextCases, Zenon
<1>11. QED
  BY <1>3, <1>10

\* Every variable keeps its type in every behaviour: the list shows no row
\* twice, the count finds only deleted rows beyond it, and the call is open as
\* long as statements are left.
THEOREM TypeCorrect == Spec => []TypeOK
<1>1. TypeOK /\ [Next]_vars => TypeOK'
  BY TypeStep
<1>2. QED
  BY TypeInit, <1>1, PTL DEF Spec
-----------------------------------------------------------------------------
(* The statements of a call, and what its page means to them *)

\* The statement t can come directly after s, and s can be the last.
Follows(s, t) ==
  \/ s = "folder" /\ t = "rows"
  \/ s = "rows" /\ t = "count"
  \/ s = "count" /\ t \in {"viewer", "each"}

Closing == {"count", "viewer", "each"}

Ordered(s) ==
  /\ \A i \in 1..(Len(s) - 1) : Follows(s[i], s[i + 1])
  /\ s # <<>> => s[Len(s)] \in Closing

Unread == status = "open" /\ todo[1] \in {"folder", "rows"}
Uncounted == status = "open" /\ todo[1] \in {"folder", "rows", "count"}

\* How the state of the call goes with the statements it has left.
Control ==
  /\ Ordered(todo)
  /\ status = "open" /\ "viewer" \in ToSet(handler.does) => todo[Len(todo)] = "viewer"
  /\ Unread => window = <<>>
  /\ status = "idle" => mode = "one"

\* What the page asked for means to the queries.
Params ==
  /\ args.offset = Signed(((IF asked < 1 THEN 1 ELSE asked) - 1) * args.limit, IntHalf)
  /\ Len(window) <= args.limit
  /\ status = "refused" => Signed(args.offset, Int32Half) < 0

ControlInv == TypeOK /\ Control /\ Params

\* The tail of a sequence, and when it is empty.
LEMMA TailEmpty ==
  ASSUME NEW S, NEW s \in Seq(S), s # <<>>
  PROVE  /\ Tail(s) \in Seq(S) /\ Len(s) \in Nat \ {0} /\ Len(Tail(s)) = Len(s) - 1
         /\ \A i \in 1..Len(Tail(s)) : Tail(s)[i] = s[i + 1]
         /\ Tail(s) = <<>> <=> Len(s) = 1
<1> DEFINE t == Tail(s)
<1>1. /\ t \in Seq(S) /\ Len(s) \in Nat \ {0} /\ Len(t) = Len(s) - 1
      /\ \A i \in 1..Len(t) : t[i] = s[i + 1]
  BY HeadTailProperties
<1>2. t # <<>> => Len(t) \in Nat \ {0}
  BY <1>1, EmptySeq, Zenon
<1>3. t = <<>> => Len(t) = 0
  BY EmptySeq, Zenon
<1> HIDE DEF t
<1>4. t = <<>> <=> Len(s) = 1
  BY <1>1, <1>2, <1>3
<1>5. QED
  BY <1>1, <1>4 DEF t

\* What is left of an ordered sequence of statements is ordered.
LEMMA TailOrdered ==
  ASSUME NEW s \in Seq(Statements), s # <<>>, Ordered(s)
  PROVE  /\ Ordered(Tail(s))
         /\ Tail(s) # <<>> => Tail(s)[Len(Tail(s))] = s[Len(s)] /\ Follows(s[1], Tail(s)[1])
         /\ Tail(s) = <<>> => Len(s) = 1 /\ s[1] \in Closing
<1> DEFINE t == Tail(s)
<1>1. /\ t \in Seq(Statements) /\ Len(s) \in Nat \ {0} /\ Len(t) = Len(s) - 1
      /\ \A i \in 1..Len(t) : t[i] = s[i + 1]
  BY TailEmpty
<1>2. t # <<>> => Len(t) \in Nat \ {0}
  BY <1>1, EmptySeq, Zenon
<1>3. t = <<>> => Len(s) = 1
  BY TailEmpty, Zenon
<1> HIDE DEF t
<1>4. \A i \in 1..(Len(t) - 1) : Follows(t[i], t[i + 1])
  <2>1. ASSUME NEW i \in 1..(Len(t) - 1) PROVE Follows(t[i], t[i + 1])
    <3>1. i + 1 \in 1..(Len(s) - 1) /\ i \in 1..Len(t) /\ i + 1 \in 1..Len(t)
      BY <1>1
    <3>2. t[i] = s[i + 1] /\ t[i + 1] = s[(i + 1) + 1]
      BY <1>1, <3>1
    <3>3. QED
      BY <3>1, <3>2 DEF Ordered
  <2>2. QED
    BY <2>1
<1>5. ASSUME t # <<>>
      PROVE  t[Len(t)] = s[Len(s)] /\ Follows(s[1], t[1])
  <2>1. Len(t) \in 1..Len(t) /\ 1 \in 1..Len(t) /\ Len(t) + 1 = Len(s) /\ 1 \in 1..(Len(s) - 1)
    BY <1>1, <1>2, <1>5
  <2>2. t[Len(t)] = s[Len(t) + 1] /\ t[1] = s[1 + 1]
    BY <1>1, <2>1
  <2>3. QED
    BY <2>1, <2>2 DEF Ordered
<1>6. t = <<>> => Len(s) = 1 /\ s[1] \in Closing
  <2>1. s[Len(s)] \in Closing
    BY DEF Ordered
  <2>2. QED
    BY <1>3, <2>1
<1>7. t # <<>> => t[Len(t)] \in Closing
  BY <1>5 DEF Ordered
<1>8. QED
  BY <1>4, <1>5, <1>6, <1>7 DEF Ordered, t

\* The statements of every handler are ordered, and start with a read.
LEMMA DoesOrdered ==
  ASSUME NEW h \in Handlers
  PROVE  /\ Ordered(h.does) /\ h.does[1] \in {"folder", "rows"}
         /\ "viewer" \in ToSet(h.does) => h.does[Len(h.does)] = "viewer"
<1>1. h.does \in {<<"rows", "count", "viewer">>, <<"rows", "count">>,
                  <<"folder", "rows", "count", "viewer">>, <<"rows", "count", "each">>}
  BY HandlerStatements
<1>2. CASE h.does = <<"rows", "count", "viewer">>
  BY <1>2 DEF Ordered, Follows, Closing, ToSet
<1>3. CASE h.does = <<"rows", "count">>
  BY <1>3 DEF Ordered, Follows, Closing, ToSet
<1>4. CASE h.does = <<"folder", "rows", "count", "viewer">>
  BY <1>4 DEF Ordered, Follows, Closing, ToSet
<1>5. CASE h.does = <<"rows", "count", "each">>
  BY <1>5 DEF Ordered, Follows, Closing, ToSet
<1>6. QED
  BY <1>1, <1>2, <1>3, <1>4, <1>5

\* The offset that Pagination computes.
LEMMA Parsed ==
  ASSUME NEW page \in Int, NEW size \in Int
  PROVE  LET a == Pagination(page, size)
         IN  a.offset = Signed(((IF page < 1 THEN 1 ELSE page) - 1) * a.limit, IntHalf)
BY DEF Pagination

\* No call has begun.
LEMMA ControlInit == Init => Control /\ Params
<1> SUFFICES ASSUME Init PROVE Control /\ Params
  OBVIOUS
<1>1. todo = <<>> /\ window = <<>> /\ status = "idle" /\ mode = "one" /\ asked = 0
      /\ args = Pagination(0, 0)
  BY DEF Init
<1>2. args.limit \in 1..MaxSize
  BY <1>1, Paged
<1>3. args.offset = Signed(((IF asked < 1 THEN 1 ELSE asked) - 1) * args.limit, IntHalf)
  BY <1>1, Parsed
<1>4. Len(window) <= args.limit
  BY <1>1, <1>2, PagesAssumption
<1>5. Control
  BY <1>1 DEF Control, Ordered, Unread
<1>6. QED
  BY <1>1, <1>3, <1>4, <1>5 DEF Params

\* Control and Params speak of the call alone.
LEMMA CallKeepsControl == UNCHANGED call /\ Control /\ Params => Control' /\ Params'
BY DEF call, Control, Params, Unread

\* A call begins with its first statement, which reads.
LEMMA BeginControl ==
  ASSUME TypeOK, NEW m \in {"walk", "one"}, NEW page \in Int, NEW size \in Int, Begin(m, page, size)
  PROVE  Control' /\ Params' /\ Unread'
<1>1. /\ todo' = handler.does /\ handler' = handler /\ status' = "open" /\ window' = <<>>
      /\ args' = Pagination(page, size) /\ asked' = page /\ handler \in Handlers
  BY DEF Begin, TypeOK
<1>2. Control' /\ Unread'
  BY <1>1, DoesOrdered DEF Control, Unread
<1>3. Len(window') <= args'.limit
  <2>1. args'.limit \in 1..MaxSize
    BY <1>1, Paged
  <2>2. Len(window') = 0
    BY <1>1
  <2>3. QED
    BY <2>1, <2>2, PagesAssumption
<1>4. QED
  BY <1>1, <1>2, <1>3, Parsed DEF Params

\* So does the call for the next page.
LEMMA NextPageControl ==
  ASSUME TypeOK, Control, Params, NextPage
  PROVE  Control' /\ Params'
<1>1. handler' = handler /\ handler \in Handlers /\ status = "ok" /\ window' = <<>>
  BY DEF NextPage, TypeOK
<1>2. ASSUME mode = "walk", Page * args.limit < total PROVE Control' /\ Params'
  <2>1. asked' = Page + 1 /\ args' = Pagination(Page + 1, args.limit)
        /\ todo' = handler.does /\ status' = "open"
    BY <1>2 DEF NextPage
  <2>2. Control'
    BY <1>1, <2>1, DoesOrdered DEF Control, Unread
  <2>3. Page + 1 \in Int /\ args.limit \in Int
    BY PageTyped, PagesAssumption DEF TypeOK
  <2>4. args'.offset = Signed(((IF asked' < 1 THEN 1 ELSE asked') - 1) * args'.limit, IntHalf)
    BY <2>1, <2>3, Parsed
  <2>5. Len(window') <= args'.limit
    <3>1. args'.limit \in 1..MaxSize
      BY <2>1, <2>3, Paged
    <3>2. Len(window') = 0
      BY <1>1
    <3>3. QED
      BY <3>1, <3>2, PagesAssumption
  <2>6. QED
    BY <2>1, <2>2, <2>4, <2>5 DEF Params
<1>3. ASSUME ~(mode = "walk" /\ Page * args.limit < total) PROVE Control' /\ Params'
  <2>1. UNCHANGED <<asked, args, todo>> /\ status' = "closed"
    BY <1>3 DEF NextPage
  <2>2. args.limit \in 1..MaxSize
    BY DEF TypeOK
  <2>3. QED
    BY <1>1, <2>1, <2>2, PagesAssumption DEF Control, Params, Unread
<1>4. QED
  BY <1>2, <1>3

\* A statement that succeeds leaves an ordered rest.
LEMMA ProceedControl ==
  ASSUME TypeOK, Control, status = "open", Proceed, Unread' => window' = <<>>
  PROVE  Control'
<1>1. todo \in Seq(Statements) /\ todo # <<>> /\ Ordered(todo)
  BY DEF TypeOK, Control
<1>2. todo' = Tail(todo) /\ handler' = handler /\ status' # "idle"
  BY DEF Proceed
<1>3. status' = "open" => todo' # <<>>
  <2>1. Tail(todo) = <<>> <=> Len(todo) = 1
    BY <1>1, TailEmpty
  <2>2. QED
    BY <1>2, <2>1 DEF Proceed
<1>4. QED
  BY <1>1, <1>2, <1>3, TailOrdered DEF Control

\* Nothing is left of a call that was refused.
LEMMA RefuseControl ==
  ASSUME Control, NEW answer \in {"missing", "refused", "failed"}, Refuse(answer)
  PROVE  Control'
<1>1. todo' = <<>> /\ status' = answer
  BY DEF Refuse
<1>2. QED
  BY <1>1 DEF Control, Ordered, Unread

\* After a statement the call is past reading the rows, unless it was LookupFolder.
LEMMA After ==
  ASSUME TypeOK, Control, NEW s, Due(s), Proceed, s # "folder"
  PROVE  ~Unread' /\ (s # "rows" => ~Unread /\ ~Uncounted')
<1>1. todo \in Seq(Statements) /\ todo # <<>> /\ Ordered(todo) /\ Head(todo) = s /\ todo[1] = s
  BY DEF TypeOK, Control, Due
<1>2. todo' = Tail(todo)
  BY DEF Proceed
<1>3. s \in Statements
  BY <1>1, HeadTailProperties
<1>4. todo' # <<>> => Follows(s, todo'[1])
  BY <1>1, <1>2, TailOrdered
<1>5. status' = "open" => todo' # <<>>
  <2>1. Tail(todo) = <<>> <=> Len(todo) = 1
    BY <1>1, TailEmpty
  <2>2. QED
    BY <1>2, <2>1 DEF Proceed
<1>6. QED
  BY <1>1, <1>3, <1>4, <1>5 DEF Follows, Unread, Uncounted, Statements

\* The number of the page follows from what the queries were given.
LEMMA PageIs ==
  ASSUME NEW page \in Int, NEW size \in Nat \ {0}, NEW p \in Nat \ {0},
         p = (IF page < 1 THEN 1 ELSE page), (p - 1) * size < Int32Half
  PROVE  /\ Signed((p - 1) * size, IntHalf) = (p - 1) * size
         /\ Signed((p - 1) * size, Int32Half) = (p - 1) * size
         /\ PageNumber((p - 1) * size, size) = p
         /\ (p - 1) * size \in Nat
<1>1. (p - 1) * size \in Nat
  OBVIOUS
<1> DEFINE o == (p - 1) * size
<1>2. /\ o \in 0..(Int32Half - 1) /\ o \in 0..(IntHalf - 1)
      /\ Int32Half \in Nat \ {0} /\ IntHalf \in Nat \ {0}
  BY <1>1, PagesAssumption
<1>3. PageNumber(o, size) = p
  BY PageOfOffset
<1> HIDE DEF o
<1>4. Signed(o, IntHalf) = o /\ Signed(o, Int32Half) = o
  BY <1>2, SignedFits
<1>5. QED
  BY <1>1, <1>3, <1>4 DEF o

\* ReadRows is refused only for an offset that does not fit.
LEMMA ReadRowsControl ==
  ASSUME TypeOK, Control, Params, ReadRows
  PROVE  Control' /\ Params'
<1> DEFINE offset == Signed(args.offset, Int32Half)
<1>1. status = "open" /\ Due("rows")
  BY DEF ReadRows, Due
<1>2. args.offset \in Int /\ Int32Half \in Nat \ {0} /\ args.limit \in Nat /\ list \in Seq(Rows)
  BY PagesAssumption DEF TypeOK
<1>3. offset \in Int
  BY <1>2, SignedTyped
<1>4. CASE offset < 0 /\ Refuse("refused")
  <2>1. Control'
    BY <1>4, RefuseControl
  <2>2. UNCHANGED <<asked, args, window>>
    BY <1>4 DEF Refuse
  <2>3. QED
    BY <1>4, <2>1, <2>2 DEF Params
<1>5. CASE offset >= 0 /\ Proceed /\ window' = WindowOf(offset, args.limit)
  <2>1. Len(window') <= args.limit
    BY <1>2, <1>3, <1>5, WindowIs
  <2>2. UNCHANGED <<asked, args>> /\ status' # "refused"
    BY <1>5 DEF Proceed
  <2>3. ~Unread'
    BY <1>1, <1>5, After
  <2>4. Control'
    BY <1>1, <1>5, <2>3, ProceedControl
  <2>5. QED
    BY <2>1, <2>2, <2>4 DEF Params
<1>6. QED
  BY <1>4, <1>5 DEF ReadRows

\* The other statements leave the window as it is.
LEMMA StatementControl ==
  ASSUME TypeOK, Control, Params,
         LookupFolder \/ CountRows \/ ApplyViewerStates \/ CountEach \/ Fail
  PROVE  Control' /\ Params'
<1>1. status = "open" /\ window' = window /\ (Proceed \/ Refuse("missing") \/ Refuse("failed"))
  BY DEF LookupFolder, CountRows, ApplyViewerStates, CountEach, Fail, Due, Refuse
<1>2. UNCHANGED <<asked, args>> /\ status' # "refused"
  BY <1>1 DEF Proceed, Refuse
<1>3. Params'
  BY <1>1, <1>2 DEF Params
<1>4. CASE Refuse("missing") \/ Refuse("failed")
  <2>1. Refuse("missing") => Control'
    BY RefuseControl, Zenon
  <2>2. Refuse("failed") => Control'
    BY RefuseControl, Zenon
  <2>3. QED
    BY <1>3, <1>4, <2>1, <2>2
<1>5. CASE Proceed /\ LookupFolder
  <2>1. Head(todo) = "folder" /\ todo \in Seq(Statements) /\ todo # <<>>
    BY <1>1, <1>5 DEF LookupFolder, Due, TypeOK
  <2>2. Unread
    BY <1>1, <2>1 DEF Unread
  <2>3. window' = <<>>
    BY <1>1, <2>2 DEF Control
  <2>4. QED
    BY <1>1, <1>3, <1>5, <2>3, ProceedControl
<1>6. CASE Proceed /\ (CountRows \/ ApplyViewerStates \/ CountEach)
  <2>1. Due("count") \/ Due("viewer") \/ Due("each")
    BY <1>6 DEF CountRows, ApplyViewerStates, CountEach
  <2>2. Due("count") => ~Unread'
    BY <1>6, After, Zenon
  <2>3. Due("viewer") => ~Unread'
    BY <1>6, After, Zenon
  <2>4. Due("each") => ~Unread'
    BY <1>6, After, Zenon
  <2>5. QED
    BY <1>1, <1>3, <1>6, <2>1, <2>2, <2>3, <2>4, ProceedControl
<1>7. QED
  BY <1>1, <1>4, <1>5, <1>6 DEF Fail

\* What goes on around a call changes nothing in it.
LEMMA WorldKeepsCall ==
  ASSUME \/ \E x \in Rows, i \in Nat : i \in 1..(Len(list) + 1) /\ Arrive(x, i)
         \/ \E x \in Rows, i \in Nat : Move(x, i)
         \/ \E x \in Rows : Leave(x) \/ Delete(x)
         \/ DropFolder
         \/ UNCHANGED vars
  PROVE  UNCHANGED call
BY DEF Arrive, Move, Leave, Delete, DropFolder, vars

\* Every step keeps Control and Params.
LEMMA ControlStep ==
  ASSUME TypeOK, Control, Params, [Next]_vars
  PROVE  Control' /\ Params'
<1>1. ASSUME NEW m \in {"walk", "one"}, NEW page \in Int, NEW size \in Int, Begin(m, page, size)
      PROVE  Control' /\ Params'
  BY <1>1, BeginControl
<1>2. ASSUME ReadRows PROVE Control' /\ Params'
  BY <1>2, ReadRowsControl
<1>3. ASSUME LookupFolder \/ CountRows \/ ApplyViewerStates \/ CountEach \/ Fail
      PROVE  Control' /\ Params'
  BY <1>3, StatementControl
<1>4. ASSUME NextPage PROVE Control' /\ Params'
  BY <1>4, NextPageControl
<1>5. ASSUME \/ \E x \in Rows, i \in Nat : i \in 1..(Len(list) + 1) /\ Arrive(x, i)
             \/ \E x \in Rows, i \in Nat : Move(x, i)
             \/ \E x \in Rows : Leave(x) \/ Delete(x)
             \/ DropFolder
             \/ UNCHANGED vars
      PROVE  Control' /\ Params'
  BY <1>5, WorldKeepsCall, CallKeepsControl
<1>6. QED
  BY <1>1, <1>2, <1>3, <1>4, <1>5, NextCases, Zenon

\* ControlInv is an invariant.
LEMMA ControlAlways == Spec => []ControlInv
<1>1. Init => ControlInv
  BY TypeInit, ControlInit DEF ControlInv
<1>2. ControlInv /\ [Next]_vars => ControlInv'
  BY TypeStep, ControlStep, Zenon DEF ControlInv
<1>3. QED
  BY <1>1, <1>2, PTL DEF Spec

\* ControlInv is enough for PageAnswered.
LEMMA PagesAnswered ==
  ASSUME ControlInv
  PROVE  PageAnswered
<1> SUFFICES ASSUME (asked - 1) * MaxSize < Int32Half
             PROVE  /\ status # "refused"
                    /\ status = "ok" => /\ Page = (IF asked < 1 THEN 1 ELSE asked)
                                        /\ Len(window) <= args.limit /\ args.limit <= MaxSize
  BY DEF PageAnswered
<1> DEFINE p == IF asked < 1 THEN 1 ELSE asked
<1>1. asked \in Int /\ args.limit \in 1..MaxSize /\ MaxSize \in Nat /\ Len(window) <= args.limit
      /\ Int32Half \in Nat \ {0}
  BY PagesAssumption DEF ControlInv, TypeOK, Params
<1>2. p \in Nat \ {0}
  BY <1>1
<1>3. (p - 1) * args.limit < Int32Half
  <2>1. CASE asked < 1
    BY <1>1, <2>1
  <2>2. CASE asked >= 1
    <3>1. (asked - 1) * args.limit <= (asked - 1) * MaxSize
      BY <1>1, <2>2
    <3>2. QED
      BY <1>1, <2>2, <3>1
  <2>3. QED
    BY <1>1, <2>1, <2>2
<1>4. args.offset = Signed((p - 1) * args.limit, IntHalf)
      /\ (status = "refused" => Signed(args.offset, Int32Half) < 0)
  BY DEF ControlInv, Params
<1>5. p = (IF asked < 1 THEN 1 ELSE asked) /\ args.limit \in Nat \ {0}
  BY <1>1
<1> HIDE DEF p
<1>6. /\ Signed((p - 1) * args.limit, IntHalf) = (p - 1) * args.limit
      /\ Signed((p - 1) * args.limit, Int32Half) = (p - 1) * args.limit
      /\ PageNumber((p - 1) * args.limit, args.limit) = p
      /\ (p - 1) * args.limit \in Nat
  BY <1>1, <1>2, <1>3, <1>5, PageIs
<1>7. args.offset = (p - 1) * args.limit
  BY <1>4, <1>6
<1>8. Page = p /\ status # "refused"
  <2>1. Signed(args.offset, Int32Half) = args.offset /\ PageNumber(args.offset, args.limit) = p
        /\ args.offset \in Nat
    BY <1>6, <1>7
  <2>2. QED
    BY <1>4, <2>1 DEF Page
<1>9. QED
  BY <1>1, <1>5, <1>8

\* A page whose offset fits the query's integer is answered, under its own
\* number and with no more rows than a page has, for every width of the integers.
THEOREM Answered == Spec => []PageAnswered
BY ControlAlways, PagesAnswered, PTL

\* No marks at the start.
LEMMA MarksInit == Init => MarksOfOwnRow
BY DEF Init, MarksOfOwnRow

\* MarksOfOwnRow is kept: the marks are read by the last statement, by id.
LEMMA MarksStep ==
  ASSUME ControlInv, MarksOfOwnRow, [Next]_vars
  PROVE  MarksOfOwnRow'
<1>1. TypeOK /\ Control
  BY DEF ControlInv
<1>2. SUFFICES ASSUME status' = "ok", "viewer" \in ToSet(handler'.does)
               PROVE  marks' \subseteq Marked /\ (ToSet(window') \cap Marked) \ marks' \subseteq deleted'
  BY DEF MarksOfOwnRow
<1>3. ASSUME UNCHANGED call, deleted \subseteq deleted'
      PROVE  marks' \subseteq Marked /\ (ToSet(window') \cap Marked) \ marks' \subseteq deleted'
  <2>1. UNCHANGED <<status, handler, marks, window>>
    BY <1>3 DEF call
  <2>2. QED
    BY <1>2, <1>3, <2>1 DEF MarksOfOwnRow
<1>4. ASSUME NEW s, Due(s), Proceed
      PROVE  s = "viewer"
  <2>1. todo \in Seq(Statements) /\ todo # <<>> /\ status = "open" /\ Head(todo) = s
    BY <1>1, <1>4 DEF TypeOK, Due
  <2>2. Len(todo) = 1 /\ handler' = handler
    BY <1>2, <1>4 DEF Proceed
  <2>3. todo[1] = "viewer"
    BY <1>1, <1>2, <2>1, <2>2 DEF Control
  <2>4. QED
    BY <2>1, <2>3
<1>5. ASSUME NEW m \in {"walk", "one"}, NEW page \in Int, NEW size \in Int, Begin(m, page, size)
      PROVE  FALSE
  BY <1>2, <1>5 DEF Begin
<1>6. ASSUME LookupFolder \/ ReadRows \/ CountRows \/ CountEach \/ Fail
      PROVE  FALSE
  <2>1. Proceed \/ Refuse("missing") \/ Refuse("refused") \/ Refuse("failed")
    BY <1>6 DEF LookupFolder, ReadRows, CountRows, CountEach, Fail
  <2>2. Proceed
    BY <1>2, <2>1 DEF Refuse
  <2>3. Due("folder") \/ Due("rows") \/ Due("count") \/ Due("each")
    BY <1>2, <1>6 DEF LookupFolder, ReadRows, CountRows, CountEach, Fail, Refuse
  <2>4. QED
    BY <1>4, <2>2, <2>3
<1>7. ASSUME ApplyViewerStates
      PROVE  marks' \subseteq Marked /\ (ToSet(window') \cap Marked) \ marks' \subseteq deleted'
  <2>1. UNCHANGED <<window, deleted>> /\ marks' = {x \in ToSet(window) \ deleted : x \in Marked}
    BY <1>7 DEF ApplyViewerStates, Proceed, data
  <2>2. QED
    BY <2>1
<1>8. ASSUME NextPage
      PROVE  FALSE
  BY <1>2, <1>8 DEF NextPage
<1>9. ASSUME \/ \E x \in Rows, i \in Nat : i \in 1..(Len(list) + 1) /\ Arrive(x, i)
             \/ \E x \in Rows, i \in Nat : Move(x, i)
             \/ \E x \in Rows : Leave(x) \/ Delete(x)
             \/ DropFolder
             \/ UNCHANGED vars
      PROVE  marks' \subseteq Marked /\ (ToSet(window') \cap Marked) \ marks' \subseteq deleted'
  <2>1. deleted \subseteq deleted'
    BY <1>9 DEF Arrive, Move, Leave, Delete, DropFolder, vars, data
  <2>2. QED
    BY <1>3, <1>9, <2>1, WorldKeepsCall
<1>10. QED
  BY <1>5, <1>6, <1>7, <1>8, <1>9, NextCases, Zenon

\* The viewer's marks are those of the rows they are shown at, however many
\* rows are deleted between the statements of the request.
THEOREM Marks == Spec => []MarksOfOwnRow
<1>1. ControlInv /\ MarksOfOwnRow /\ [Next]_vars => MarksOfOwnRow'
  BY MarksStep
<1>2. QED
  BY ControlAlways, MarksInit, <1>1, PTL DEF Spec
-----------------------------------------------------------------------------
(* Walks *)

\* No list is longer than the offsets of its queries can reach.
ListsFit == Cardinality(Rows) <= Int32Half

\* A walk that has not ended; what it was shown; how far its pages reach.
Walking == mode = "walk" /\ status \in {"open", "ok"}
Had == seen \cup ToSet(window)
Reached == args.offset + (IF Unread THEN 0 ELSE args.limit)

WalkAt ==
  /\ total <= Cardinality(Rows)
  /\ Walking => /\ asked \in Nat \ {0} /\ args.offset = (asked - 1) * args.limit
                /\ args.offset < Int32Half

\* Until a row arrives, the rows that were shown stand before those to be shown.
NoRepeats ==
  Walking /\ ~arrived =>
    /\ ToSet(window) \cap seen = {}
    /\ \A i \in 1..Len(list) : list[i] \in Had => i <= Reached

\* Until a row leaves, the rows in place all the time that were not shown stand
\* behind those that were; the total counts them.
NoMisses ==
  /\ Walking /\ ~left =>
       /\ \A i \in 1..Len(list) : list[i] \in stayed \ Had => i > Reached
       /\ ~Uncounted /\ total <= Reached => stayed \subseteq Had
  /\ mode = "walk" /\ status = "closed" /\ ~left => stayed \subseteq seen

WalkInv == ControlInv /\ WalkAt /\ NoRepeats /\ NoMisses

\* No walk has begun.
LEMMA WalkInit == Init => WalkAt /\ NoRepeats /\ NoMisses
<1>1. Cardinality(Rows) \in Nat
  BY PagesAssumption, FS_CardinalityType
<1>2. QED
  BY <1>1 DEF Init, WalkAt, NoRepeats, NoMisses, Walking

\* A walk begins in front of the whole list.
LEMMA BeginWalk ==
  ASSUME TypeOK, NEW m \in {"walk", "one"}, NEW page \in Int, NEW size \in Int,
         m = "walk" => page = 1, Begin(m, page, size)
  PROVE  WalkAt' /\ NoRepeats' /\ NoMisses'
<1>1. /\ mode' = m /\ asked' = page /\ args' = Pagination(page, size) /\ status' = "open"
      /\ window' = <<>> /\ seen' = {} /\ list' = list /\ total' = 0
  BY DEF Begin, data
<1>2. Cardinality(Rows) \in Nat
  BY PagesAssumption, FS_CardinalityType
<1>3. CASE m = "one"
  BY <1>1, <1>2, <1>3 DEF WalkAt, NoRepeats, NoMisses, Walking
<1>4. CASE m = "walk"
  <2>1. args' \in [offset : Int, limit : 1..MaxSize]
    BY <1>1, Paged
  <2>2. Unread' /\ Uncounted'
    BY BeginControl DEF Unread, Uncounted
  <2>3. args'.offset = Signed((1 - 1) * args'.limit, IntHalf)
    BY <1>1, <1>4, Parsed
  <2>4. (1 - 1) * args'.limit = 0 /\ args'.limit \in Nat \ {0} /\ Int32Half \in Nat \ {0}
        /\ IntHalf \in Nat \ {0}
    BY <2>1, PagesAssumption
  <2>5. args'.offset = 0
    BY <2>3, <2>4, SignedFits
  <2>6. WalkAt'
    BY <1>1, <1>2, <1>4, <2>4, <2>5 DEF WalkAt
  <2>7. Had' = {} /\ Reached' = 0
    BY <1>1, <2>2, <2>5 DEF Had, Reached, ToSet
  <2>8. NoRepeats'
    BY <1>1, <2>7 DEF NoRepeats
  <2>9. NoMisses'
    BY <1>1, <2>2, <2>7 DEF NoMisses
  <2>10. QED
    BY <2>6, <2>8, <2>9
<1>5. QED
  BY <1>3, <1>4

\* One page further.
LEMMA NextProduct ==
  ASSUME NEW a \in Int, NEW b \in Int
  PROVE  ((a + 1) - 1) * b = (a - 1) * b + b /\ a * b = (a - 1) * b + b
OBVIOUS

\* The walk stands on the page it asked for.
LEMMA AtPage ==
  ASSUME TypeOK, WalkAt, Walking
  PROVE  Page = asked /\ args.offset \in Nat /\ Signed(args.offset, Int32Half) = args.offset
<1>1. asked \in Nat \ {0} /\ args.offset = (asked - 1) * args.limit /\ args.offset < Int32Half
  BY DEF WalkAt
<1>2. args.limit \in Nat \ {0} /\ asked \in Int /\ asked = IF asked < 1 THEN 1 ELSE asked
  BY <1>1, PagesAssumption DEF TypeOK
<1>3. /\ PageNumber((asked - 1) * args.limit, args.limit) = asked
      /\ Signed((asked - 1) * args.limit, Int32Half) = (asked - 1) * args.limit
      /\ (asked - 1) * args.limit \in Nat
  BY <1>1, <1>2, PageIs
<1>4. QED
  BY <1>1, <1>3 DEF Page

\* The next page begins where the last one ended; the last ends at the total.
LEMMA NextPageWalk ==
  ASSUME ListsFit, TypeOK, Control, WalkAt, NoRepeats, NoMisses, NextPage
  PROVE  WalkAt' /\ NoRepeats' /\ NoMisses'
<1>1. /\ UNCHANGED list /\ status = "ok" /\ mode' = mode /\ stayed' = stayed
      /\ arrived' = arrived /\ left' = left
      /\ seen' = Had /\ window' = <<>> /\ total' = 0
  BY DEF NextPage, data, Had
<1>2. Cardinality(Rows) \in Nat
  BY PagesAssumption, FS_CardinalityType
<1>3. Had' = Had /\ ToSet(window') = {} /\ ~Unread /\ ~Uncounted
  BY <1>1 DEF Had, ToSet, Unread, Uncounted
<1>4. Reached = args.offset + args.limit /\ args.limit \in 1..MaxSize /\ args.limit \in Nat \ {0}
  BY <1>3, PagesAssumption DEF Reached, TypeOK
<1>5. ASSUME mode = "walk", Page * args.limit < total
      PROVE  WalkAt' /\ NoRepeats' /\ NoMisses'
  <2>1. Walking
    BY <1>1, <1>5 DEF Walking
  <2>2. Page = asked /\ asked \in Nat \ {0} /\ args.offset = (asked - 1) * args.limit
    BY <2>1, AtPage DEF WalkAt
  <2>3. /\ asked' = asked + 1 /\ args' = Pagination(asked + 1, args.limit)
        /\ todo' = handler.does /\ status' = "open"
    BY <1>5, <2>2 DEF NextPage
  <2>4. ((asked + 1) - 1) * args.limit = args.offset + args.limit
        /\ asked * args.limit = args.offset + args.limit
    BY <1>4, <2>2, NextProduct
  <2>5. ((asked + 1) - 1) * args.limit < Int32Half
    BY <1>2, <1>4, <1>5, <2>2, <2>4, PagesAssumption DEF ListsFit, WalkAt, TypeOK
  <2>6. args'.limit = args.limit
    BY <1>4, <2>2, <2>3, LimitKept
  <2>7. args'.offset = Signed(((asked + 1) - 1) * args.limit, IntHalf)
    <3>1. asked + 1 \in Int /\ args.limit \in Int /\ ~(asked + 1 < 1)
      BY <1>4, <2>2
    <3>2. QED
      BY <2>3, <2>6, <3>1, Parsed
  <2>8. args'.offset = ((asked + 1) - 1) * args.limit
    <3> DEFINE p == asked + 1
    <3>1. p \in Nat \ {0} /\ p \in Int /\ p = (IF p < 1 THEN 1 ELSE p) /\ args.limit \in Nat \ {0}
      BY <1>4, <2>2
    <3>2. (p - 1) * args.limit < Int32Half /\ args'.offset = Signed((p - 1) * args.limit, IntHalf)
      BY <2>5, <2>7
    <3> HIDE DEF p
    <3>3. Signed((p - 1) * args.limit, IntHalf) = (p - 1) * args.limit
      BY <3>1, <3>2, PageIs
    <3>4. args'.offset = (p - 1) * args.limit
      BY <3>2, <3>3
    <3>5. QED
      BY <3>4 DEF p
  <2>9. Unread' /\ Uncounted'
    BY <2>3, DoesOrdered DEF Unread, Uncounted, TypeOK
  <2>10. Reached' = Reached
    BY <1>4, <2>4, <2>8, <2>9 DEF Reached, TypeOK
  <2>11. WalkAt'
    <3>1. asked' \in Nat \ {0} /\ args'.offset = (asked' - 1) * args'.limit /\ args'.offset < Int32Half
      BY <2>2, <2>3, <2>5, <2>6, <2>8
    <3>2. QED
      BY <1>1, <1>2, <3>1 DEF WalkAt
  <2>12. NoRepeats'
    BY <1>1, <1>3, <2>1, <2>10 DEF NoRepeats
  <2>13. NoMisses'
    BY <1>1, <1>3, <2>1, <2>3, <2>9, <2>10 DEF NoMisses
  <2>14. QED
    BY <2>11, <2>12, <2>13
<1>6. ASSUME ~(mode = "walk" /\ Page * args.limit < total)
      PROVE  WalkAt' /\ NoRepeats' /\ NoMisses'
  <2>1. status' = "closed"
    BY <1>6 DEF NextPage
  <2>2. WalkAt' /\ NoRepeats'
    BY <1>1, <1>2, <2>1 DEF WalkAt, NoRepeats, Walking
  <2>3. ASSUME mode = "walk", ~left PROVE stayed \subseteq Had
    <3>1. Walking
      BY <1>1, <2>3 DEF Walking
    <3>2. Page = asked /\ asked \in Nat \ {0} /\ args.offset = (asked - 1) * args.limit
      BY <3>1, AtPage DEF WalkAt
    <3>3. asked * args.limit = Reached
      BY <1>4, <3>2, NextProduct
    <3>4. Page * args.limit = Reached /\ Reached \in Int /\ total \in Int
      BY <1>4, <3>2, <3>3 DEF TypeOK
    <3>5. total <= Reached
      BY <1>6, <2>3, <3>4
    <3>6. QED
      BY <1>3, <2>3, <3>1, <3>5 DEF NoMisses
  <2>4. NoMisses'
    BY <1>1, <2>1, <2>3 DEF NoMisses, Walking
  <2>5. QED
    BY <2>2, <2>4
<1>7. QED
  BY <1>5, <1>6

\* A call that was refused or failed has ended; its walk is not complete.
LEMMA RefuseWalk ==
  ASSUME TypeOK, WalkAt, NEW answer \in {"missing", "refused", "failed"}, Refuse(answer)
  PROVE  WalkAt' /\ NoRepeats' /\ NoMisses'
<1>1. status' \notin {"open", "ok", "closed"} /\ total' = total
  BY DEF Refuse
<1>2. QED
  BY <1>1 DEF WalkAt, NoRepeats, NoMisses, Walking

\* A statement that succeeds changes nothing but the call.
LEMMA ProceedFrame ==
  ASSUME Proceed, status = "open"
  PROVE  /\ UNCHANGED <<list, mode, asked, args, seen, stayed, arrived, left>>
         /\ Walking' <=> Walking
         /\ status' # "closed"
BY DEF Proceed, data, walk, Walking

\* The window is the part of the list between the old reach and the new.
LEMMA ReadRowsWalk ==
  ASSUME TypeOK, Control, WalkAt, NoRepeats, NoMisses, ReadRows
  PROVE  WalkAt' /\ NoRepeats' /\ NoMisses'
<1> DEFINE offset == Signed(args.offset, Int32Half)
<1>1. status = "open" /\ Due("rows") /\ Head(todo) = "rows" /\ todo # <<>> /\ todo \in Seq(Statements)
  BY DEF ReadRows, Due, TypeOK
<1>2. CASE Refuse("refused")
  BY <1>2, RefuseWalk
<1>3. CASE offset >= 0 /\ Proceed /\ window' = WindowOf(offset, args.limit) /\ UNCHANGED total
  <2>1. Unread /\ window = <<>>
    BY <1>1 DEF Control, Unread
  <2>2. ~Unread'
    BY <1>1, <1>3, After
  <2>3. /\ UNCHANGED <<list, mode, asked, args, seen, stayed, arrived, left>>
        /\ Walking' <=> Walking
        /\ status' # "closed"
    BY <1>1, <1>3, ProceedFrame
  <2>4. WalkAt'
    BY <1>3, <2>3 DEF WalkAt
  <2>5. ASSUME Walking PROVE NoRepeats' /\ NoMisses'
    <3>1. offset = args.offset /\ offset \in Nat
      BY <2>5, AtPage
    <3>2. args.limit \in Nat \ {0} /\ list \in Seq(Rows) /\ Len(list) \in Nat /\ Distinct(list)
          /\ stayed \subseteq ToSet(list)
      BY PagesAssumption DEF TypeOK, Distinct
    <3>3. Reached = offset /\ Reached' = offset + args.limit
      BY <2>1, <2>2, <2>3, <3>1 DEF Reached, TypeOK
    <3>4. \A x : x \in ToSet(window') <=>
                   \E i \in 1..Len(list) : offset < i /\ i <= offset + args.limit /\ list[i] = x
      BY <1>3, <3>1, <3>2, WindowIs
    <3>5. Had = seen /\ Had' = seen \cup ToSet(window')
      BY <2>1, <2>3 DEF Had, ToSet
    <3> HIDE DEF offset
    <3>6. ASSUME ~arrived
          PROVE  /\ ToSet(window') \cap seen = {}
                 /\ \A i \in 1..Len(list) : list[i] \in Had' => i <= Reached'
      <4>1. \A i \in 1..Len(list) : list[i] \in seen => i <= offset
        BY <2>5, <3>3, <3>5, <3>6 DEF NoRepeats
      <4>2. ASSUME NEW x \in ToSet(window'), x \in seen PROVE FALSE
        <5>1. PICK i \in 1..Len(list) : offset < i /\ list[i] = x
          BY <3>4
        <5>2. QED
          BY <3>1, <4>1, <4>2, <5>1
      <4>3. ASSUME NEW i \in 1..Len(list), list[i] \in Had' PROVE i <= Reached'
        <5>1. CASE list[i] \in seen
          BY <3>1, <3>2, <3>3, <4>1, <5>1
        <5>2. CASE list[i] \in ToSet(window')
          <6>1. PICK j \in 1..Len(list) : j <= offset + args.limit /\ list[j] = list[i]
            BY <3>4, <5>2
          <6>2. i = j
            BY <3>2, <6>1 DEF Distinct
          <6>3. QED
            BY <3>3, <6>1, <6>2
        <5>3. QED
          BY <3>5, <4>3, <5>1, <5>2
      <4>4. QED
        BY <4>2, <4>3
    <3>7. NoRepeats'
      BY <2>3, <3>6 DEF NoRepeats
    <3>8. ASSUME ~left
          PROVE  \A i \in 1..Len(list) : list[i] \in stayed \ Had' => i > Reached'
      <4>1. ASSUME NEW i \in 1..Len(list), list[i] \in stayed, list[i] \notin Had' PROVE i > Reached'
        <5>1. i > offset
          BY <2>5, <3>3, <3>5, <3>8, <4>1 DEF NoMisses
        <5>2. ~(i <= offset + args.limit)
          BY <3>4, <3>5, <4>1, <5>1
        <5>3. QED
          BY <3>1, <3>2, <3>3, <5>2
      <4>2. QED
        BY <4>1
    <3>9. Uncounted'
      <4>1. todo' = Tail(todo) /\ Ordered(todo) /\ todo[1] = "rows"
        BY <1>1, <1>3 DEF Proceed, Control
      <4>2. Tail(todo) # <<>>
        BY <1>1, <4>1, TailOrdered DEF Closing
      <4>3. todo'[1] = "count"
        BY <1>1, <4>1, <4>2, TailOrdered DEF Follows
      <4>4. status' = "open"
        BY <1>1, <1>3, <4>2, TailEmpty DEF Proceed
      <4>5. QED
        BY <4>3, <4>4 DEF Uncounted
    <3>10. NoMisses'
      BY <2>3, <3>8, <3>9 DEF NoMisses
    <3>11. QED
      BY <3>7, <3>10
  <2>6. ASSUME ~Walking PROVE NoRepeats' /\ NoMisses'
    BY <2>3, <2>6 DEF NoRepeats, NoMisses
  <2>7. QED
    BY <2>4, <2>5, <2>6
<1>4. QED
  BY <1>2, <1>3 DEF ReadRows

\* The total is at least the length of the list, so when the walk reaches it
\* no row in place can stand behind.
LEMMA CountRowsWalk ==
  ASSUME TypeOK, Control, WalkAt, NoRepeats, NoMisses, CountRows
  PROVE  WalkAt' /\ NoRepeats' /\ NoMisses'
<1>1. /\ status = "open" /\ Due("count") /\ Proceed /\ window' = window
      /\ total' = Len(list) + Cardinality(counted)
  BY DEF CountRows, Due
<1>2. ~Unread /\ ~Unread' /\ ~Uncounted'
  BY <1>1, After
<1>3. /\ UNCHANGED <<list, mode, asked, args, seen, stayed, arrived, left>>
      /\ Walking' <=> Walking
      /\ status' # "closed"
  BY <1>1, ProceedFrame
<1>4. list \in Seq(Rows) /\ Distinct(list) /\ Len(list) \in Nat
  BY DEF TypeOK, Distinct
<1>5. counted \subseteq Rows \ ToSet(list)
  BY DEF TypeOK
<1>6. total' <= Cardinality(Rows) /\ Len(list) <= total'
  BY <1>1, <1>4, <1>5, ListShort
<1>7. Had' = Had /\ Reached' = Reached
  BY <1>1, <1>2, <1>3 DEF Had, Reached
<1>8. WalkAt'
  BY <1>3, <1>6 DEF WalkAt
<1>9. NoRepeats'
  BY <1>1, <1>3, <1>7 DEF NoRepeats
<1>10. ASSUME Walking, ~left, total' <= Reached PROVE stayed \subseteq Had
  <2>1. Reached \in Int /\ total' \in Int
    <3>1. args.offset \in Int /\ args.limit \in Int
      BY PagesAssumption DEF TypeOK
    <3>2. total' \in Nat
      <4>1. Cardinality(counted) \in Nat
        BY PagesAssumption, FS_Subset, FS_CardinalityType DEF TypeOK
      <4>2. QED
        BY <1>1, <1>4, <4>1
    <3>3. QED
      BY <3>1, <3>2 DEF Reached
  <2>2. ASSUME NEW x \in stayed, x \notin Had PROVE FALSE
    <3>1. PICK i \in 1..Len(list) : list[i] = x
      BY <1>4, <2>2, SetOfSeq DEF TypeOK
    <3>2. i > Reached
      BY <1>10, <2>2, <3>1 DEF NoMisses
    <3>3. QED
      BY <1>4, <1>6, <1>10, <2>1, <3>2
  <2>3. QED
    BY <2>2
<1>11. NoMisses'
  BY <1>3, <1>7, <1>10 DEF NoMisses
<1>12. QED
  BY <1>8, <1>9, <1>11

\* Statements after the count change nothing that the walk compares.
LEMMA LaterWalk ==
  ASSUME TypeOK, Control, WalkAt, NoRepeats, NoMisses, ApplyViewerStates \/ CountEach
  PROVE  WalkAt' /\ NoRepeats' /\ NoMisses'
<1>1. /\ status = "open" /\ (Due("viewer") \/ Due("each")) /\ Proceed
      /\ window' = window /\ total' = total
  BY DEF ApplyViewerStates, CountEach, Due
<1>2. ~Unread /\ ~Unread' /\ ~Uncounted'
  <2>1. Due("viewer") => ~Unread /\ ~Unread' /\ ~Uncounted'
    BY <1>1, After
  <2>2. Due("each") => ~Unread /\ ~Unread' /\ ~Uncounted'
    BY <1>1, After
  <2>3. QED
    BY <1>1, <2>1, <2>2
<1>3. ~Uncounted
  BY <1>1 DEF Uncounted, Due, TypeOK
<1>4. /\ UNCHANGED <<list, mode, asked, args, seen, stayed, arrived, left>>
      /\ Walking' <=> Walking
      /\ status' # "closed"
  BY <1>1, ProceedFrame
<1>5. Had' = Had /\ Reached' = Reached
  BY <1>1, <1>2, <1>4 DEF Had, Reached
<1>6. QED
  BY <1>1, <1>2, <1>3, <1>4, <1>5 DEF WalkAt, NoRepeats, NoMisses

\* The lookup of the folder reads no row.
LEMMA LookupFolderWalk ==
  ASSUME TypeOK, Control, WalkAt, NoRepeats, NoMisses, LookupFolder
  PROVE  WalkAt' /\ NoRepeats' /\ NoMisses'
<1>1. status = "open" /\ Head(todo) = "folder" /\ todo # <<>> /\ todo \in Seq(Statements)
  BY DEF LookupFolder, Due, TypeOK
<1>2. CASE Refuse("missing")
  BY <1>2, RefuseWalk
<1>3. CASE Proceed /\ UNCHANGED <<window, total>>
  <2>1. todo' = Tail(todo) /\ Ordered(todo) /\ todo[1] = "folder"
    BY <1>1, <1>3 DEF Proceed, Control
  <2>2. Tail(todo) # <<>>
    BY <1>1, <2>1, TailOrdered DEF Closing
  <2>3. todo'[1] = "rows"
    BY <1>1, <2>1, <2>2, TailOrdered DEF Follows
  <2>4. status' = "open"
    BY <1>1, <1>3, <2>2, TailEmpty DEF Proceed
  <2>5. Unread /\ Uncounted /\ Unread' /\ Uncounted'
    BY <1>1, <2>1, <2>3, <2>4 DEF Unread, Uncounted
  <2>6. /\ UNCHANGED <<list, mode, asked, args, seen, stayed, arrived, left>>
        /\ Walking' <=> Walking
        /\ status' # "closed"
    BY <1>1, <1>3, ProceedFrame
  <2>7. Had' = Had /\ Reached' = Reached
    BY <1>3, <2>5, <2>6 DEF Had, Reached
  <2>8. QED
    BY <1>3, <2>5, <2>6, <2>7 DEF WalkAt, NoRepeats, NoMisses
<1>4. QED
  BY <1>2, <1>3 DEF LookupFolder

\* No row that was there may come to stand further back, unless a row arrived.
LEMMA WorldRepeats ==
  ASSUME TypeOK, NoRepeats, UNCHANGED call, seen' = seen, list' \in Seq(Rows),
         ~arrived' => /\ ~arrived
                      /\ \A k \in 1..Len(list') :
                           \E j \in 1..Len(list) : k <= j /\ list[j] = list'[k]
  PROVE  NoRepeats'
<1>1. Had' = Had /\ Reached' = Reached /\ window' = window /\ (Walking' <=> Walking)
  BY DEF call, Had, Reached, Unread, Walking
<1>2. Reached \in Int /\ Len(list) \in Nat /\ Len(list') \in Nat
  BY PagesAssumption DEF Reached, TypeOK
<1>3. ASSUME Walking, ~arrived', NEW k \in 1..Len(list'), list'[k] \in Had PROVE k <= Reached
  <2>1. PICK j \in 1..Len(list) : k <= j /\ list[j] = list'[k]
    BY <1>3
  <2>2. j <= Reached
    BY <1>3, <2>1 DEF NoRepeats
  <2>3. QED
    BY <1>2, <2>1, <2>2
<1>4. QED
  BY <1>1, <1>3 DEF NoRepeats

\* No row that stayed may come further to the front, unless a row left.
LEMMA WorldMisses ==
  ASSUME TypeOK, NoMisses, UNCHANGED call, seen' = seen, stayed' \subseteq stayed, list' \in Seq(Rows),
         ~left' => /\ ~left
                   /\ \A k \in 1..Len(list') : list'[k] \in stayed' =>
                        \E j \in 1..Len(list) : j <= k /\ list[j] = list'[k]
  PROVE  NoMisses'
<1>1. /\ Had' = Had /\ Reached' = Reached /\ status' = status /\ mode' = mode /\ total' = total
      /\ (Walking' <=> Walking) /\ (Uncounted' <=> Uncounted)
  BY DEF call, Had, Reached, Unread, Uncounted, Walking
<1>2. Reached \in Int /\ Len(list) \in Nat /\ Len(list') \in Nat
  BY PagesAssumption DEF Reached, TypeOK
<1>3. ASSUME Walking, ~left', NEW k \in 1..Len(list'), list'[k] \in stayed' \ Had PROVE k > Reached
  <2>1. PICK j \in 1..Len(list) : j <= k /\ list[j] = list'[k]
    BY <1>3
  <2>2. j > Reached
    BY <1>3, <2>1 DEF NoMisses
  <2>3. QED
    BY <1>2, <2>1, <2>2
<1>4. QED
  BY <1>1, <1>3 DEF NoMisses

\* WalkAt speaks of the call alone.
LEMMA WorldAt == UNCHANGED call /\ WalkAt => WalkAt'
BY DEF call, WalkAt, Walking

\* A row that arrives pushes others back.
LEMMA ArriveWalk ==
  ASSUME TypeOK, NoRepeats, NoMisses, NEW x \in Rows, NEW i \in 1..(Len(list) + 1), Arrive(x, i)
  PROVE  NoRepeats' /\ NoMisses'
<1>1. list \in Seq(Rows) /\ Distinct(list) /\ x \notin ToSet(list) /\ stayed \subseteq ToSet(list)
      /\ Len(list) \in Nat
  BY DEF TypeOK, Distinct, Arrive
<1> DEFINE t == InsertAt(list, i, x)
<1>2. /\ t \in Seq(Rows) /\ Len(t) = Len(list) + 1
      /\ \A k \in 1..Len(t) : t[k] = IF k < i THEN list[k] ELSE IF k = i THEN x ELSE list[k - 1]
  BY <1>1, Inserted
<1> HIDE DEF t
<1>3. list' = t /\ UNCHANGED <<call, seen, stayed, left>> /\ arrived' = TRUE
  BY DEF Arrive, t
<1>4. ASSUME NEW k \in 1..Len(t), t[k] \in stayed
      PROVE  \E j \in 1..Len(list) : j <= k /\ list[j] = t[k]
  <2>1. t[k] # x
    BY <1>1, <1>4
  <2>2. CASE k < i
    <3>1. k \in 1..Len(list) /\ k <= k /\ list[k] = t[k]
      BY <1>1, <1>2, <2>2
    <3>2. QED
      BY <3>1
  <2>3. CASE k > i
    <3>1. k - 1 \in 1..Len(list) /\ k - 1 <= k /\ list[k - 1] = t[k]
      BY <1>1, <1>2, <2>3
    <3>2. QED
      BY <3>1
  <2>4. QED
    BY <1>2, <2>1, <2>2, <2>3
<1>5. NoRepeats'
  BY <1>2, <1>3, WorldRepeats
<1>6. NoMisses'
  BY <1>2, <1>3, <1>4, WorldMisses
<1>7. QED
  BY <1>5, <1>6

\* Rows that leave only bring others forward.
LEMMA Forward ==
  ASSUME TypeOK, NEW x \in Rows
  PROVE  /\ Without(x) \in Seq(Rows)
         /\ \A k \in 1..Len(Without(x)) :
              \E j \in 1..Len(list) : k <= j /\ list[j] = Without(x)[k]
<1> DEFINE t == Without(x)
<1>1. /\ t \in Seq(Rows)
      /\ x \notin ToSet(list) => t = list
      /\ x \in ToSet(list) =>
           /\ Len(t) = Len(list) - 1
           /\ \A k \in 1..Len(t) : t[k] = IF k < Place(x) THEN list[k] ELSE list[k + 1]
  BY WithoutIs, Zenon
<1>2. Len(list) \in Nat
  BY DEF TypeOK
<1> HIDE DEF t
<1>3. ASSUME NEW k \in 1..Len(t)
      PROVE  \E j \in 1..Len(list) : k <= j /\ list[j] = t[k]
  <2>1. CASE x \in ToSet(list)
    <3>1. k \in 1..Len(list) /\ k + 1 \in 1..Len(list) /\ k <= k /\ k <= k + 1
      BY <1>1, <1>2, <2>1
    <3>2. t[k] = list[k] \/ t[k] = list[k + 1]
      BY <1>1, <2>1
    <3>3. QED
      BY <3>1, <3>2
  <2>2. CASE x \notin ToSet(list)
    <3>1. t = list /\ k <= k
      BY <1>1, <2>2
    <3>2. QED
      BY <3>1
  <2>3. QED
    BY <2>1, <2>2
<1>4. QED
  BY <1>1, <1>3 DEF t

\* A row that leaves draws others forward.
LEMMA LeaveWalk ==
  ASSUME TypeOK, NoRepeats, NoMisses, NEW x \in Rows, Leave(x)
  PROVE  NoRepeats' /\ NoMisses'
<1>1. /\ list' = Without(x) /\ UNCHANGED <<call, seen, arrived>>
      /\ stayed' \subseteq stayed /\ left' = TRUE
  BY DEF Leave
<1>2. NoRepeats'
  BY <1>1, Forward, WorldRepeats
<1>3. NoMisses'
  BY <1>1, Forward, WorldMisses
<1>4. QED
  BY <1>2, <1>3

\* So does one that is deleted, if it was in the list.
LEMMA DeleteWalk ==
  ASSUME TypeOK, NoRepeats, NoMisses, NEW x \in Rows, Delete(x)
  PROVE  NoRepeats' /\ NoMisses'
<1>1. /\ list' = Without(x) /\ UNCHANGED <<call, seen, arrived>>
      /\ stayed' \subseteq stayed /\ left' = (left \/ x \in ToSet(list))
  BY DEF Delete
<1>2. NoRepeats'
  BY <1>1, Forward, WorldRepeats
<1>3. CASE x \in ToSet(list)
  BY <1>1, <1>2, <1>3, Forward, WorldMisses
<1>4. CASE x \notin ToSet(list)
  <2>1. list' = list
    BY <1>1, <1>4 DEF Without
  <2>2. \A k \in 1..Len(list) : k <= k
    BY DEF TypeOK
  <2>3. NoMisses'
    BY <1>1, <1>4, <2>1, <2>2, Forward, WorldMisses
  <2>4. QED
    BY <1>2, <2>3
<1>5. QED
  BY <1>3, <1>4

\* A row that rises brings none of the others forward.
LEMMA Backward ==
  ASSUME TypeOK, NEW x \in ToSet(list), NEW i \in 1..Len(list), i < Place(x)
  PROVE  LET t == InsertAt(Without(x), i, x)
         IN  \A k \in 1..Len(t) :
               t[k] # x => \E j \in 1..Len(list) : j <= k /\ list[j] = t[k]
<1> DEFINE u == Without(x)
           t == InsertAt(u, i, x)
<1>1. x \in Rows /\ Len(list) \in Nat /\ Place(x) \in 1..Len(list)
  BY SetOfSeq, PlaceIs DEF TypeOK
<1>2. /\ u \in Seq(Rows) /\ Distinct(u) /\ ToSet(u) = ToSet(list) \ {x} /\ Len(u) = Len(list) - 1
      /\ \A k \in 1..Len(u) : u[k] = IF k < Place(x) THEN list[k] ELSE list[k + 1]
  BY <1>1, WithoutIs, Zenon
<1> HIDE DEF u
<1>3. x \notin ToSet(u) /\ i \in 1..(Len(u) + 1)
  BY <1>1, <1>2
<1>4. /\ t \in Seq(Rows) /\ Len(t) = Len(u) + 1
      /\ \A k \in 1..Len(t) : t[k] = IF k < i THEN u[k] ELSE IF k = i THEN x ELSE u[k - 1]
  BY <1>1, <1>2, <1>3, Inserted
<1> HIDE DEF t
<1>5. ASSUME NEW k \in 1..Len(t), t[k] # x
      PROVE  \E j \in 1..Len(list) : j <= k /\ list[j] = t[k]
  <2>1. Len(t) = Len(list)
    BY <1>1, <1>2, <1>4
  <2>2. CASE k < i
    <3>1. k \in 1..Len(u) /\ k \in 1..Len(list) /\ k <= k
      BY <1>1, <1>2, <2>1, <2>2
    <3>2. t[k] = list[k]
      BY <1>1, <1>2, <1>4, <2>2, <3>1
    <3>3. QED
      BY <3>1, <3>2
  <2>3. CASE k > i
    <3>1. k - 1 \in 1..Len(u) /\ t[k] = u[k - 1]
      BY <1>1, <1>2, <1>4, <2>1, <2>3
    <3>2. CASE k - 1 < Place(x)
      <4>1. k - 1 \in 1..Len(list) /\ k - 1 <= k /\ list[k - 1] = t[k]
        BY <1>1, <1>2, <3>1, <3>2
      <4>2. QED
        BY <4>1
    <3>3. CASE k - 1 >= Place(x)
      <4>1. k \in 1..Len(list) /\ k <= k /\ list[k] = t[k]
        BY <1>1, <1>2, <2>1, <3>1, <3>3
      <4>2. QED
        BY <4>1
    <3>4. QED
      BY <1>1, <3>1, <3>2, <3>3
  <2>4. QED
    BY <1>4, <1>5, <2>2, <2>3
<1>6. QED
  BY <1>5 DEF t, u

\* A row that moves arrives at a place; unless it rises, it also leaves one.
LEMMA MoveWalk ==
  ASSUME TypeOK, NoRepeats, NoMisses, NEW x \in Rows, NEW i \in Nat, Move(x, i)
  PROVE  NoRepeats' /\ NoMisses'
<1> DEFINE t == InsertAt(Without(x), i, x)
<1>1. i \in 1..Len(list) /\ x \in ToSet(list)
  BY DEF Move
<1>2. t \in Seq(Rows)
  BY <1>1, MovedIs
<1>3. ASSUME i < Place(x)
      PROVE  \A k \in 1..Len(t) : t[k] # x => \E j \in 1..Len(list) : j <= k /\ list[j] = t[k]
  BY <1>1, <1>3, Backward, Zenon
<1> HIDE DEF t
<1>4. /\ list' = t /\ UNCHANGED <<call, seen>> /\ arrived' = TRUE
      /\ stayed' = stayed \ {x} /\ left' = (left \/ ~(i < Place(x)))
  BY DEF Move, t
<1>5. NoRepeats'
  BY <1>2, <1>4, WorldRepeats
<1>6. NoMisses'
  BY <1>2, <1>3, <1>4, WorldMisses
<1>7. QED
  BY <1>5, <1>6

\* With its folder, every row leaves.
LEMMA DropFolderWalk ==
  ASSUME TypeOK, NoRepeats, NoMisses, DropFolder
  PROVE  NoRepeats' /\ NoMisses'
<1>1. /\ list' = <<>> /\ UNCHANGED <<call, seen, arrived>>
      /\ stayed' = {} /\ left' = TRUE
  BY DEF DropFolder
<1>2. NoRepeats'
  BY <1>1, WorldRepeats
<1>3. NoMisses'
  BY <1>1, WorldMisses
<1>4. QED
  BY <1>2, <1>3

\* What goes on around a walk keeps what is said of it.
LEMMA WorldWalk ==
  ASSUME TypeOK, WalkAt, NoRepeats, NoMisses,
         \/ \E x \in Rows, i \in Nat : i \in 1..(Len(list) + 1) /\ Arrive(x, i)
         \/ \E x \in Rows, i \in Nat : Move(x, i)
         \/ \E x \in Rows : Leave(x) \/ Delete(x)
         \/ DropFolder
         \/ UNCHANGED vars
  PROVE  WalkAt' /\ NoRepeats' /\ NoMisses'
<1>1. WalkAt'
  BY WorldKeepsCall, WorldAt
<1>2. ASSUME UNCHANGED vars PROVE NoRepeats' /\ NoMisses'
  BY <1>2 DEF vars, data, call, walk, NoRepeats, NoMisses, Walking, Had, Reached, Unread, Uncounted
<1>3. QED
  BY <1>1, <1>2, ArriveWalk, MoveWalk, LeaveWalk, DeleteWalk, DropFolderWalk, Zenon

\* Every step keeps WalkInv.
LEMMA WalkStep ==
  ASSUME ListsFit, WalkInv, [Next]_vars
  PROVE  WalkInv'
<1>1. TypeOK /\ Control /\ Params /\ WalkAt /\ NoRepeats /\ NoMisses
  BY DEF WalkInv, ControlInv
<1>2. ControlInv'
  BY <1>1, TypeStep, ControlStep, Zenon DEF ControlInv
<1>3. ASSUME NEW m \in {"walk", "one"}, NEW page \in Int, NEW size \in Int,
             m = "walk" => page = 1, Begin(m, page, size)
      PROVE  WalkAt' /\ NoRepeats' /\ NoMisses'
  BY <1>1, <1>3, BeginWalk
<1>4. ASSUME LookupFolder \/ ReadRows \/ CountRows \/ ApplyViewerStates \/ CountEach \/ NextPage
      PROVE  WalkAt' /\ NoRepeats' /\ NoMisses'
  BY <1>1, <1>4, LookupFolderWalk, ReadRowsWalk, CountRowsWalk, LaterWalk, NextPageWalk, Zenon
<1>5. ASSUME Fail PROVE WalkAt' /\ NoRepeats' /\ NoMisses'
  BY <1>1, <1>5, RefuseWalk DEF Fail
<1>6. WalkAt' /\ NoRepeats' /\ NoMisses'
  BY <1>1, <1>3, <1>4, <1>5, WorldWalk, NextCases, Zenon
<1>7. QED
  BY <1>2, <1>6 DEF WalkInv

\* WalkInv is an invariant.
LEMMA WalkAlways ==
  ASSUME ListsFit
  PROVE  Spec => []WalkInv
<1>1. Init => WalkInv
  BY TypeInit, ControlInit, WalkInit DEF WalkInv, ControlInv
<1>2. WalkInv /\ [Next]_vars => WalkInv'
  BY WalkStep
<1>3. QED
  BY <1>1, <1>2, PTL DEF Spec

\* NoRepeats at the end of a call is RepeatNeedsArrival.
LEMMA NoRepeatsMeans == WalkInv => RepeatNeedsArrival
BY DEF WalkInv, NoRepeats, Walking, RepeatNeedsArrival

\* NoMisses at the end of a walk is MissNeedsDeparture.
LEMMA NoMissesMeans == WalkInv => MissNeedsDeparture
BY DEF WalkInv, NoMisses, MissNeedsDeparture

\* A walk repeats a row only when one arrived or rose, for every list, page
\* size and sequence of changes around its requests.
THEOREM Repeats ==
  ASSUME ListsFit
  PROVE  Spec => []RepeatNeedsArrival
BY WalkAlways, NoRepeatsMeans, PTL

\* A walk that is complete by its total misses a row that stayed only when
\* another left or sank.
THEOREM Misses ==
  ASSUME ListsFit
  PROVE  Spec => []MissNeedsDeparture
BY WalkAlways, NoMissesMeans, PTL
=============================================================================
