-------------------------------- MODULE Pages --------------------------------
(***************************************************************************)
(* The lists read by page number: Pagination and newPageResponse of        *)
(* internal/api/post.go, and the seventeen lists of six handlers that use  *)
(* them.  Each reads one window of rows, counts them all and looks up what *)
(* the viewer did to the rows shown, every statement in a snapshot of its  *)
(* own, while rows come, go and change places.                             *)
(*                                                                         *)
(* A viewer who is not signed in has no marks and is left out.  Users,     *)
(* tags and topics are never deleted: in lists of users Delete, and for    *)
(* tags and topics DropFolder, only add behaviours.                        *)
(*                                                                         *)
(* Go's int and the int32 of the generated queries hold the integers from  *)
(* -IntHalf to IntHalf - 1 and from -Int32Half to Int32Half - 1 (2^63 and  *)
(* 2^31 in the code).  What the viewer marked (liked, collected, follows)  *)
(* does not change during a call.                                          *)
(***************************************************************************)
EXTENDS Integers, FiniteSets, Sequences, SequencesExt

CONSTANTS Rows, Marked, IntHalf, Int32Half, DefaultSize, MaxSize

ASSUME PagesAssumption ==
  /\ IsFiniteSet(Rows) /\ Marked \subseteq Rows
  /\ IntHalf \in Nat /\ Int32Half \in 1..IntHalf
  /\ MaxSize \in Nat /\ DefaultSize \in 1..MaxSize

VARIABLES
  list, deleted,         \* the list in its order; rows that exist no more
  counted,               \* deleted rows that the count still finds
  folder,                \* whether the folder, tag or topic of the list exists
  handler, mode,         \* the handler called, for one page or for all
  asked, args,           \* the page asked for; what Pagination made of it
  todo, status,          \* its statements to come, and the state of the call
  window, total, marks,  \* what the page shows: rows, total, the viewer's marks
  seen, stayed,          \* rows received in this walk; rows in place all the time
  arrived, left          \* whether rows were pushed back, or drawn forward

data == <<list, deleted, counted, folder>>
call == <<handler, mode, asked, args, todo, status, window, total, marks>>
walk == <<seen, stayed, arrived, left>>
vars == <<data, call, walk>>

-----------------------------------------------------------------------------
(* The lists, by their queries: how rows that stay can change places, and  *)
(* whether the count finds rows that the page joins away.                  *)

Steady == [moves |-> {}, orphans |-> FALSE]
Ranked(moves) == [moves |-> moves, orphans |-> FALSE]

ListCommentsByPostID == Steady
ListNotifications == Steady
ListFollowers == Steady
ListFollowing == Steady
ListCollections == Steady
ListCollectionFolderPosts == Steady
ListCollectionFolders == Steady
ListTopics == Steady
ListTopicPosts == Steady
ListTagPosts == Steady
SearchTags == Steady

\* likes.target_id is no foreign key: likes of deleted posts are counted.
ListLikedPosts == [moves |-> {}, orphans |-> TRUE]

\* A search moves its keyword up and none down.
ListTrendingSearches == Ranked({"up"})
ListSearchHistory == Ranked({"up"})

\* Scores and relevance rise and fall; users are listed by name and renamed.
ListRecommendedPosts == Ranked({"up", "down"})
SearchPosts == Ranked({"up", "down"})
SearchUsers == Ranked({"up", "down"})

(* The handlers, by their statements. *)

Calls(does, query) == [does |-> does, list |-> query]

ListByPost == Calls(<<"rows", "count", "viewer">>, ListCommentsByPostID)
List == Calls(<<"rows", "count">>, ListNotifications)
FollowersOf == Calls(<<"rows", "count", "viewer">>, ListFollowers)
FollowedBy == Calls(<<"rows", "count", "viewer">>, ListFollowing)
Collected == Calls(<<"rows", "count", "viewer">>, ListCollections)
ListFolderPosts == Calls(<<"folder", "rows", "count", "viewer">>, ListCollectionFolderPosts)
ListFolders == Calls(<<"rows", "count">>, ListCollectionFolders)
LikedPosts == Calls(<<"rows", "count", "viewer">>, ListLikedPosts)
Trending == Calls(<<"rows", "count">>, ListTrendingSearches)
ListHistory == Calls(<<"rows", "count">>, ListSearchHistory)
TopicList == Calls(<<"rows", "count", "each">>, ListTopics)
PostsOfTopic == Calls(<<"folder", "rows", "count", "viewer">>, ListTopicPosts)
PostsOfTag == Calls(<<"folder", "rows", "count", "viewer">>, ListTagPosts)
Recommended == Calls(<<"rows", "count", "viewer">>, ListRecommendedPosts)
searchPosts == Calls(<<"rows", "count", "viewer">>, SearchPosts)
searchUsers == Calls(<<"rows", "count", "viewer">>, SearchUsers)
searchTags == Calls(<<"rows", "count">>, SearchTags)

Handlers ==
  {ListByPost, List, FollowersOf, FollowedBy, Collected, ListFolderPosts,
   ListFolders, LikedPosts, Trending, ListHistory, TopicList, PostsOfTopic,
   PostsOfTag, Recommended, searchPosts, searchUsers, searchTags}

-----------------------------------------------------------------------------
(* Pagination and newPageResponse *)

\* The value of n in a signed integer that holds those from -half to half - 1.
Signed(n, half) ==
  LET m == n % (2 * half) IN IF m >= half THEN m - 2 * half ELSE m

\* Slip: the end of the page is computed in the query's integer, and overflows
\* a page before its start does.
Pagination_Narrow(page, size) ==
  LET p == IF page < 1 THEN 1 ELSE page
      s == CASE size < 1 -> DefaultSize [] size > MaxSize -> MaxSize [] OTHER -> size
  IN  [offset |-> Signed(p * s, Int32Half) - s, limit |-> s]

\* A parameter below 1 stands for one that is missing or does not parse.
Pagination(page, size) ==
  LET p == IF page < 1 THEN 1 ELSE page
      s == CASE size < 1 -> DefaultSize [] size > MaxSize -> MaxSize [] OTHER -> size
  IN  [offset |-> Signed((p - 1) * s, IntHalf), limit |-> s]

\* Slip: one row too many.
WindowOf_OneMore(offset, limit) ==
  SubSeq(list, offset + 1, IF offset + limit < Len(list) THEN offset + limit + 1 ELSE Len(list))

\* ORDER BY ... LIMIT limit OFFSET offset
WindowOf(offset, limit) ==
  SubSeq(list, offset + 1, IF offset + limit < Len(list) THEN offset + limit ELSE Len(list))

\* offset/pageSize + 1; Go divides towards zero.
PageNumber(offset, limit) ==
  IF offset >= 0 THEN offset \div limit + 1 ELSE 1 - ((-offset) \div limit)

Page == PageNumber(args.offset, args.limit)

-----------------------------------------------------------------------------
(* One request *)

Begin(m, page, size) ==
  /\ status = "idle"
  /\ mode' = m /\ asked' = page /\ args' = Pagination(page, size)
  /\ todo' = handler.does /\ status' = "open"
  /\ window' = <<>> /\ total' = 0 /\ marks' = {}
  /\ seen' = {} /\ stayed' = ToSet(list) /\ arrived' = FALSE /\ left' = FALSE
  /\ UNCHANGED <<data, handler>>

Due(statement) == status = "open" /\ Head(todo) = statement

\* The statement succeeded; after the last one the page is sent.
Proceed ==
  /\ todo' = Tail(todo)
  /\ status' = IF Len(todo) = 1 THEN "ok" ELSE "open"
  /\ UNCHANGED <<data, walk, handler, mode, asked, args>>

Refuse(answer) ==
  /\ status' = answer /\ todo' = <<>>
  /\ UNCHANGED <<data, walk, handler, mode, asked, args, window, total, marks>>

\* GetCollectionFolderByID, GetTagByID, GetTopicByID: 404 when there is no such row.
LookupFolder ==
  /\ Due("folder")
  /\ \/ folder /\ Proceed /\ UNCHANGED <<window, total, marks>>
     \/ ~folder /\ Refuse("missing")

\* The list query, with int32(offset); PostgreSQL refuses a negative OFFSET.
ReadRows ==
  LET offset == Signed(args.offset, Int32Half)
  IN  /\ Due("rows")
      /\ \/ offset < 0 /\ Refuse("refused")
         \/ /\ offset >= 0 /\ Proceed
            /\ window' = WindowOf(offset, args.limit)
            /\ UNCHANGED <<total, marks>>

\* Slip: the count is taken from the page.
CountRows_OfPage ==
  /\ Due("count") /\ Proceed
  /\ total' = Len(window)
  /\ UNCHANGED <<window, marks>>

\* The count query has no join.
CountRows ==
  /\ Due("count") /\ Proceed
  /\ total' = Len(list) + Cardinality(counted)
  /\ UNCHANGED <<window, marks>>

\* Slip: the states are matched to the rows by their places.
ApplyViewerStates_ByPlace ==
  LET states == SelectSeq(window, LAMBDA x : x \notin deleted)
  IN  /\ Due("viewer") /\ Proceed
      /\ marks' = {window[i] : i \in {j \in 1..Len(states) : states[j] \in Marked}}
      /\ UNCHANGED <<window, total>>

\* applyViewerPostStates, applyViewerCommentLikedStates, applyViewerFollowingStates:
\* one state for each row of the page that still exists, matched by its id.
ApplyViewerStates ==
  /\ Due("viewer") /\ Proceed
  /\ marks' = {x \in ToSet(window) \ deleted : x \in Marked}
  /\ UNCHANGED <<window, total>>

\* ListTopics counts the posts of each topic it shows.
CountEach == Due("each") /\ Proceed /\ UNCHANGED <<window, total, marks>>

\* Any statement may fail; the answer is 500.
Fail == status = "open" /\ Refuse("failed")

\* A client that walks asks for the next page until it has had the total.
NextPage ==
  /\ status = "ok"
  /\ IF mode = "walk" /\ Page * args.limit < total
     THEN /\ asked' = Page + 1 /\ args' = Pagination(Page + 1, args.limit)
          /\ todo' = handler.does /\ status' = "open"
     ELSE UNCHANGED <<asked, args, todo>> /\ status' = "closed"
  /\ seen' = seen \cup ToSet(window)
  /\ window' = <<>> /\ marks' = {} /\ total' = 0
  /\ UNCHANGED <<data, handler, mode, stayed, arrived, left>>

-----------------------------------------------------------------------------
(* What goes on around it *)

\* The list has a row once; without it, the others keep their order.
Place(x) == CHOOSE i \in 1..Len(list) : list[i] = x
Without(x) == IF x \in ToSet(list) THEN RemoveAt(list, Place(x)) ELSE list

\* A row is inserted (or comes back), at any place its timestamp gives it.
Arrive(x, i) ==
  /\ x \notin ToSet(list) \cup deleted
  /\ list' = InsertAt(list, i, x) /\ arrived' = TRUE
  /\ UNCHANGED <<deleted, counted, folder, call, seen, stayed, left>>

\* The row leaves the list; what it stands for (a user, a post) remains.
Leave(x) ==
  /\ x \in ToSet(list)
  /\ list' = Without(x) /\ stayed' = stayed \ {x} /\ left' = TRUE
  /\ UNCHANGED <<deleted, counted, folder, call, seen, arrived>>

\* A post or comment is deleted, and its rows in the lists by cascade.
Delete(x) ==
  /\ x \notin deleted
  /\ deleted' = deleted \cup {x}
  /\ counted' = IF handler.list.orphans /\ x \in ToSet(list) THEN counted \cup {x} ELSE counted
  /\ list' = Without(x) /\ stayed' = stayed \ {x}
  /\ left' = (left \/ x \in ToSet(list))
  /\ UNCHANGED <<folder, call, seen, arrived>>

\* The row changes places, in the direction the order of the list allows.
Move(x, i) ==
  LET up == i < Place(x)
  IN  /\ i \in 1..Len(list) /\ x \in ToSet(list) /\ list[i] # x
      /\ (IF up THEN "up" ELSE "down") \in handler.list.moves
      /\ list' = InsertAt(Without(x), i, x)
      /\ stayed' = stayed \ {x}
      /\ arrived' = TRUE /\ left' = (left \/ ~up)
      /\ UNCHANGED <<deleted, counted, folder, call, seen>>

\* DeleteFolder: its collections stay, filed nowhere.
DropFolder ==
  /\ folder /\ handler = ListFolderPosts
  /\ folder' = FALSE /\ list' = <<>> /\ stayed' = {} /\ left' = TRUE
  /\ UNCHANGED <<deleted, counted, call, seen, arrived>>

PageParams == 0..(IntHalf - 1)
SizeParams == 0..(MaxSize + 1)

Init ==
  /\ \E s \in SUBSET Rows : list \in SetToSeqs(s)
  /\ deleted = {} /\ counted = {} /\ folder \in BOOLEAN
  /\ handler \in Handlers /\ mode = "one" /\ asked = 0 /\ args = Pagination(0, 0)
  /\ todo = <<>> /\ status = "idle" /\ window = <<>> /\ total = 0 /\ marks = {}
  /\ seen = {} /\ stayed = {} /\ arrived = FALSE /\ left = FALSE

Next ==
  \/ \E size \in SizeParams : Begin("walk", 1, size)
  \/ \E page \in PageParams, size \in SizeParams : Begin("one", page, size)
  \/ LookupFolder \/ ReadRows \/ CountRows \/ ApplyViewerStates \/ CountEach \/ Fail
  \/ NextPage
  \/ \E x \in Rows, i \in 1..(Cardinality(Rows) + 1) :
       i <= Len(list) + 1 /\ (Arrive(x, i) \/ Move(x, i))
  \/ \E x \in Rows : Leave(x) \/ Delete(x)
  \/ DropFolder

Spec == Init /\ [][Next]_vars

-----------------------------------------------------------------------------
(* Type invariant *)

Statements == {"folder", "rows", "count", "viewer", "each"}
Statuses == {"idle", "open", "ok", "missing", "refused", "failed", "closed"}

TypeOK ==
  /\ list \in Seq(Rows) /\ \A i, j \in 1..Len(list) : list[i] = list[j] => i = j
  /\ deleted \subseteq Rows \ ToSet(list) /\ counted \subseteq deleted
  /\ folder \in BOOLEAN /\ handler \in Handlers /\ mode \in {"one", "walk"}
  /\ asked \in Int /\ args \in [offset: Int, limit: 1..MaxSize]
  /\ todo \in Seq(Statements) /\ status \in Statuses /\ (status = "open" <=> todo # <<>>)
  /\ window \in Seq(Rows) /\ total \in Nat /\ marks \subseteq Rows
  /\ seen \subseteq Rows /\ stayed \subseteq ToSet(list)
  /\ arrived \in BOOLEAN /\ left \in BOOLEAN

-----------------------------------------------------------------------------
(* Properties *)

\* A walk by page number shows a row twice only if a row arrived or changed
\* places meanwhile: rows that leave never push one back onto a later page.
RepeatNeedsArrival ==
  mode = "walk" /\ status = "ok" /\ ToSet(window) \cap seen # {} => arrived

\* A walk that is complete by the total it was told misses a row that stood in
\* the list all the time only if another left it or sank, although each page
\* and its total are read in different snapshots.  In the lists of searches,
\* where keywords only rise, no search of one keyword hides another.
MissNeedsDeparture ==
  mode = "walk" /\ status = "closed" /\ ~(stayed \subseteq seen) => left

\* A page whose offset fits the query's integer is not refused, and is
\* answered under the number the client asked for with at most a page of rows.
PageAnswered ==
  (asked - 1) * MaxSize < Int32Half =>
    /\ status # "refused"
    /\ status = "ok" => /\ Page = (IF asked < 1 THEN 1 ELSE asked)
                        /\ Len(window) <= args.limit /\ args.limit <= MaxSize

\* The marks of the viewer are those of the rows they are shown at: rows that
\* are deleted after the page was read lose theirs, and shift no other's.
MarksOfOwnRow ==
  status = "ok" /\ "viewer" \in ToSet(handler.does) =>
    /\ marks \subseteq Marked
    /\ (ToSet(window) \cap Marked) \ marks \subseteq deleted
=============================================================================
