------------------------------ MODULE Seeding ------------------------------
(***************************************************************************)
(* The seeder (internal/seed, cmd/seed), the SQL file it exports and that  *)
(* file's import, beside the visitors of a server on the same database.    *)
(* Every statement of the seeder and of the file is a transaction of its   *)
(* own.  The visitors' transactions are atomic here: they touch a row the  *)
(* seeder touches in one statement (Engagement has them step by step).     *)
(* What the seeder draws at random is any choice; the order of its draws   *)
(* within one loop is left open.                                           *)
(***************************************************************************)
EXTENDS Integers, FiniteSets, Sequences

CONSTANTS Names, Titles, None,
          Seedings,  \* bound on the runs of the seeder
          Visits,    \* bound on the visitors' requests
          Comments,  \* bound on the comments of a post in each seeding
          Likes,     \* bound on the likes of each seeding
          Follows    \* bound on the follows of a seeding

VARIABLES
  db,        \* the rows of each table
  count,     \* like_count of the posts and comments that are in db
  seeder,    \* where Run stands
  memory,    \* the rows Run has collected for the export
  file,      \* the exported rows, None before there is a file
  importing, \* how far an import of file has come, 0 when there is none
  visits,    \* the pairs of user and target each visitor's vote changed
  requests,  \* the visitors' requests so far
  mishaps    \* what befell the rows since the last complete truncation

vars == <<db, count, seeder, memory, file, importing, visits, requests, mishaps>>

Tables == {"users", "posts", "post_media", "comments", "likes", "follows"}

\* A user is <<seeding, name>>, 0 for one who registered; a post <<seeding,
\* title>>, a comment <<seeding, title, number>>: new ids in every seeding.
Users == (0..Seedings) \X Names
Posts == (1..Seedings) \X Titles
CommentIds == UNION {{n} \X Titles \X (1..Comments[n]) : n \in 1..Seedings}
Targets == Posts \cup CommentIds
PostOf(id) == <<id[1], id[2]>>

ASSUME SeedingAssumption ==
  /\ IsFiniteSet(Names) /\ IsFiniteSet(Titles)
  /\ {Seedings, Visits, Follows} \subseteq Nat
  /\ Comments \in [1..Seedings -> Nat] /\ Likes \in [1..Seedings -> Nat]
  /\ None \notin Users \X Targets

Empty == [t \in Tables |-> {}]
Nowhere == [run |-> 0, at |-> "idle", left |-> {}, post |-> None, pair |-> None]

Ids(rows) == {row.id : row \in rows}
PresentIn(d) == Ids(d["posts"]) \cup Ids(d["comments"])
Present == PresentIn(db)

\* The database becomes d: a row's like_count goes with it.
Keep(d) == /\ db' = d
           /\ count' = [t \in Targets |-> IF t \in PresentIn(d) THEN count[t] ELSE 0]

Plus(d, table, rows) == [d EXCEPT ![table] = @ \cup rows]
Insert(table, rows) == db' = Plus(db, table, rows)
Collect(table, rows) == memory' = Plus(memory, table, rows)

Running == seeder.at \notin {"idle", "done", "failed"}
Go(at, left) == seeder' = [seeder EXCEPT !.at = at, !.left = left]
\* The rows collected go out of scope; the likes stay for the properties.
Return(at) ==
  /\ seeder' = [seeder EXCEPT !.at = at, !.left = {}, !.post = None]
  /\ memory' = [Empty EXCEPT !["likes"] = memory["likes"]]

Outside == <<file, importing, visits, requests, mishaps>>

-----------------------------------------------------------------------------
(* Run *)

Order == <<"likes", "follows", "comments", "post_media", "posts", "users">>

\* The tables a TRUNCATE ... CASCADE empties: those that refer to it as well.
Cascade == [likes |-> {"likes"}, follows |-> {"follows"}, comments |-> {"comments"},
            post_media |-> {"post_media"}, posts |-> {"posts", "post_media", "comments"},
            users |-> Tables]

Run ==
  /\ ~Running /\ importing = 0 /\ seeder.run < Seedings
  /\ seeder' = [run |-> seeder.run + 1, at |-> "truncate", left |-> 1..Len(Order),
                post |-> None, pair |-> None]
  /\ memory' = Empty
  /\ mishaps' = mishaps \cup {"truncating"}
  /\ UNCHANGED <<db, count, file, importing, visits, requests>>

\* Nothing of before is left when users has been emptied.
truncateAll ==
  LET i == CHOOSE i \in seeder.left : \A j \in seeder.left : i <= j
      last == seeder.left = {i}
  IN  /\ seeder.at = "truncate"
      /\ Keep([t \in Tables |-> IF t \in Cascade[Order[i]] THEN {} ELSE db[t]])
      /\ IF last THEN Go("users", Names) ELSE Go("truncate", seeder.left \ {i})
      /\ visits' = IF last THEN {} ELSE visits
      /\ mishaps' = IF last THEN {} ELSE mishaps
      /\ UNCHANGED <<memory, file, importing, requests>>

\* The unique index on username refuses a name a visitor has registered.
seedUsers ==
  \E n \in seeder.left :
    /\ seeder.at = "users"
    /\ n \notin {u[2] : u \in db["users"]}
    /\ Insert("users", {<<seeder.run, n>>}) /\ Collect("users", {<<seeder.run, n>>})
    /\ IF seeder.left = {n} THEN Go("cards", {}) ELSE Go("users", seeder.left \ {n})
    /\ UNCHANGED <<count, Outside>>

\* All cards are fetched and uploaded before the first post.
fetchCards ==
  /\ seeder.at = "cards"
  /\ Go("posts", Titles)
  /\ UNCHANGED <<db, count, memory, Outside>>

CreatePost ==
  \E t \in seeder.left, u \in memory["users"] :
    LET post == [id |-> <<seeder.run, t>>, user |-> u]
    IN  /\ seeder.at = "posts"
        /\ Insert("posts", {post}) /\ Collect("posts", {post})
        /\ seeder' = [seeder EXCEPT !.at = "post_media", !.left = @ \ {t}, !.post = post.id]
        /\ UNCHANGED <<count, Outside>>

\* The foreign key refuses the media of a post a visitor has deleted since.
CreatePostMedia ==
  LET medium == [id |-> seeder.post, post |-> seeder.post]
      ready == [seeder EXCEPT !.post = None]
  IN  /\ seeder.at = "post_media" /\ seeder.post \in Ids(db["posts"])
      /\ Insert("post_media", {medium}) /\ Collect("post_media", {medium})
      /\ seeder' = IF seeder.left # {} THEN [ready EXCEPT !.at = "posts"]
                  ELSE [ready EXCEPT !.at = "comments", !.left = Ids(memory["posts"])]
      /\ UNCHANGED <<count, Outside>>

\* A comment, or a reply to the last that is none, without comment_count.
seedComments ==
  \E p \in seeder.left, u \in memory["users"], parent \in Ids(memory["comments"]) \cup {None} :
    LET earlier == {c \in memory["comments"] : c.post = p}
        k == Cardinality(earlier) + 1
        top == {c.id : c \in {d \in earlier : d.parent = None}}
        comment == [id |-> <<p[1], p[2], k>>, post |-> p, user |-> u, parent |-> parent]
    IN  /\ seeder.at = "comments" /\ k <= Comments[seeder.run]
        /\ parent # None => parent \in top /\ \A id \in top : id[3] <= parent[3]
        /\ p \in Ids(db["posts"]) /\ parent \in Ids(db["comments"]) \cup {None}
        /\ Insert("comments", {comment}) /\ Collect("comments", {comment})
        /\ UNCHANGED <<count, seeder, Outside>>

EnoughComments ==
  \E p \in seeder.left :
    /\ seeder.at = "comments"
    /\ IF seeder.left = {p} THEN Go("likes", {}) ELSE Go("comments", seeder.left \ {p})
    /\ UNCHANGED <<db, count, memory, Outside>>

\* AddPostLike and AddCommentLike: whether there was a row is not looked at,
\* and no foreign key asks for the target.
AddLike ==
  \E u \in memory["users"], t \in Ids(memory["posts"]) \cup Ids(memory["comments"]) :
    /\ seeder.at = "likes" /\ <<u, t>> \notin memory["likes"]
    /\ Cardinality(memory["likes"]) < Likes[seeder.run]
    \* The posts come first.
    /\ Len(t) = 2 => \A pair \in memory["likes"] : Len(pair[2]) = 2
    /\ Insert("likes", {<<u, t>>})
    /\ seeder' = [seeder EXCEPT !.at = "increment", !.pair = <<u, t>>]
    /\ UNCHANGED <<count, memory, Outside>>

\* Slip: one count for the post whatever is liked.
IncrementLikeCount_OfPost ==
  LET t == SubSeq(seeder.pair[2], 1, 2)
  IN  /\ seeder.at = "increment"
      /\ count' = IF t \in Present THEN [count EXCEPT ![t] = @ + 1] ELSE count
      /\ Collect("likes", {seeder.pair})
      /\ seeder' = [seeder EXCEPT !.at = "likes", !.pair = None]
      /\ UNCHANGED <<db, Outside>>

\* In a statement of its own; nothing happens when the target is gone.
IncrementLikeCount ==
  LET t == seeder.pair[2]
  IN  /\ seeder.at = "increment"
      /\ count' = IF t \in Present THEN [count EXCEPT ![t] = @ + 1] ELSE count
      /\ Collect("likes", {seeder.pair})
      /\ seeder' = [seeder EXCEPT !.at = "likes", !.pair = None]
      /\ UNCHANGED <<db, Outside>>

EnoughLikes ==
  /\ seeder.at = "likes"
  /\ Go("follows", {})
  /\ UNCHANGED <<db, count, memory, Outside>>

seedFollows ==
  \E u, v \in memory["users"] :
    /\ seeder.at = "follows" /\ u # v /\ <<u, v>> \notin memory["follows"]
    /\ Cardinality(memory["follows"]) < Follows
    /\ Insert("follows", {<<u, v>>}) /\ Collect("follows", {<<u, v>>})
    /\ UNCHANGED <<count, seeder, Outside>>

\* Slip: the last user is left out.
ExportSQL_OneUserShort ==
  /\ seeder.at = "follows"
  /\ file' = [memory EXCEPT !["users"] = @ \ {CHOOSE u \in @ : TRUE}]
  /\ Return("done")
  /\ UNCHANGED <<db, count, importing, visits, requests, mishaps>>

\* The file holds what Run collected, whatever has become of it since.
ExportSQL ==
  /\ seeder.at = "follows"
  /\ file' = memory
  /\ Return("done")
  /\ UNCHANGED <<db, count, importing, visits, requests, mishaps>>

\* The file cannot be written: the error is logged, the seeding is done.
ExportFails ==
  /\ seeder.at = "follows"
  /\ Return("done")
  /\ UNCHANGED <<db, count, Outside>>

\* Any error ends Run; what is written stays, and nothing is exported.
Abort ==
  /\ Running
  /\ Return("failed")
  /\ UNCHANGED <<db, count, Outside>>

-----------------------------------------------------------------------------
(* The file, fed to the database, once: one INSERT per table *)

Parts == <<"users", "posts", "post_media", "comments", "likes", "follows">>

StartImport ==
  /\ ~Running /\ importing = 0 /\ file # None
  /\ importing' = 1
  /\ mishaps' = mishaps \cup {"import"}
  /\ UNCHANGED <<db, count, seeder, memory, file, visits, requests>>

\* ON CONFLICT (id) does not excuse a name that another id has.
NameTaken ==
  \E u \in file["users"], v \in db["users"] : u # v /\ u[2] = v[2]

\* The rows whose key is not there.  Foreign keys are off, an INSERT that fails
\* does not stop the import, and like_count starts at 0.
ImportPart ==
  LET part == Parts[importing]
      refused == part = "users" /\ NameTaken
      new == CASE refused -> {}
               [] part \in {"posts", "post_media", "comments"} ->
                    {row \in file[part] : row.id \notin Ids(db[part])}
               [] OTHER -> file[part]
  IN  /\ importing > 0
      /\ Insert(part, new)
      /\ IF importing = Len(Parts) THEN importing' = 0 /\ file' = None
         ELSE importing' = importing + 1 /\ UNCHANGED file
      /\ mishaps' = IF refused THEN mishaps \cup {"name taken"} ELSE mishaps
      /\ UNCHANGED <<count, seeder, memory, visits, requests>>

-----------------------------------------------------------------------------
(* The visitors *)

Visit == /\ requests < Visits
         /\ requests' = requests + 1
         /\ UNCHANGED <<seeder, memory, file, importing>>

Register ==
  \E n \in Names :
    /\ Visit
    /\ n \notin {u[2] : u \in db["users"]}
    /\ Insert("users", {<<0, n>>})
    /\ UNCHANGED <<count, visits, mishaps>>

\* LikePost, LikeComment.
Like ==
  \E u \in db["users"], t \in Present :
    /\ Visit
    /\ <<u, t>> \notin db["likes"]
    /\ Insert("likes", {<<u, t>>})
    /\ count' = [count EXCEPT ![t] = @ + 1]
    /\ visits' = visits \cup {<<u, t>>}
    /\ UNCHANGED mishaps

\* UnlikePost, UnlikeComment: GREATEST(like_count - 1, 0).
Unlike ==
  \E u \in db["users"], t \in Present :
    /\ Visit
    /\ <<u, t>> \in db["likes"]
    /\ db' = [db EXCEPT !["likes"] = @ \ {<<u, t>>}]
    /\ count' = [count EXCEPT ![t] = IF @ > 0 THEN @ - 1 ELSE 0]
    /\ visits' = visits \cup {<<u, t>>}
    /\ UNCHANGED mishaps

\* Media and comments go with the post, likes stay.
DeletePost ==
  \E post \in db["posts"] :
    LET p == post.id
    IN  /\ Visit
        /\ post.user \in db["users"]
        /\ Keep([db EXCEPT !["posts"] = @ \ {post},
                           !["comments"] = {c \in @ : c.post # p},
                           !["post_media"] = {m \in @ : m.post # p}])
        /\ mishaps' = IF importing > 0 THEN mishaps \cup {"deleted"} ELSE mishaps
        /\ UNCHANGED visits

-----------------------------------------------------------------------------
Init ==
  /\ db = Empty /\ count = [t \in Targets |-> 0]
  /\ seeder = Nowhere /\ memory = Empty
  /\ file = None /\ importing = 0
  /\ visits = {} /\ requests = 0 /\ mishaps = {}

Next ==
  \/ Run \/ truncateAll \/ seedUsers \/ fetchCards \/ CreatePost \/ CreatePostMedia
  \/ seedComments \/ EnoughComments \/ AddLike \/ IncrementLikeCount \/ EnoughLikes
  \/ seedFollows \/ ExportSQL \/ ExportFails \/ Abort
  \/ StartImport \/ ImportPart
  \/ Register \/ Like \/ Unlike \/ DeletePost

Spec == Init /\ [][Next]_vars

-----------------------------------------------------------------------------
(* Properties *)

\* A comment is numbered within its post, and a reply is to one of the same post.
CommentRows ==
  {c \in [id : CommentIds, post : Posts, user : Users, parent : CommentIds \cup {None}] :
     /\ c.post = PostOf(c.id)
     /\ c.parent # None => c.post = PostOf(c.parent)}

\* The rows of each table of d.
TablesOK(d) ==
  /\ d = [t \in Tables |-> d[t]]
  /\ d["users"] \subseteq Users
  /\ d["posts"] \subseteq [id : Posts, user : Users]
  /\ d["post_media"] \subseteq [id : Posts, post : Posts]
  /\ d["comments"] \subseteq CommentRows
  /\ d["likes"] \subseteq Users \X Targets
  /\ d["follows"] \subseteq Users \X Users

\* What is left to do belongs to the statement that Run stands at.
SeederOK ==
  /\ seeder = [run |-> seeder.run, at |-> seeder.at, left |-> seeder.left,
               post |-> seeder.post, pair |-> seeder.pair]
  /\ seeder.run \in 0..Seedings
  /\ seeder.at \in {"idle", "truncate", "users", "cards", "posts", "post_media", "comments",
                    "likes", "increment", "follows", "done", "failed"}
  /\ seeder.at = "truncate" => seeder.left \subseteq 1..Len(Order)
  /\ seeder.at = "users" => seeder.left \subseteq Names
  /\ seeder.at \in {"posts", "post_media"} => seeder.left \subseteq Titles
  /\ seeder.at = "comments" => seeder.left \subseteq Posts
  /\ seeder.post \in Posts \cup {None} /\ seeder.pair \in Users \X Targets \cup {None}

\* The tables, the rows collected and those of the file have the schema's columns,
\* and like_count is never negative.
TypeOK ==
  /\ TablesOK(db) /\ TablesOK(memory) /\ (file # None => TablesOK(file))
  /\ count \in [Targets -> Nat]
  /\ SeederOK
  /\ importing \in 0..Len(Parts) /\ requests \in Nat
  /\ visits \subseteq Users \X Targets
  /\ mishaps \subseteq {"truncating", "import", "name taken", "deleted"}

\* like_count against the rows, as the seeder, which counts apart from its
\* INSERT, leaves them: short by one exactly where Run is or was stopped between
\* the two, and too high by at most one for each user whose vote the seeder drew
\* and a visitor cast or took back as well.
SeededLikesAddUp ==
  {"import", "truncating"} \cap mishaps = {} =>
    \A t \in Present :
      LET rows == {u \in db["users"] : <<u, t>> \in db["likes"]}
          drawn == memory["likes"] \cup {seeder.pair}
          twice == {pair \in visits \cap drawn : pair[2] = t}
          owed == IF \E u \in db["users"] : seeder.pair = <<u, t>> THEN 1 ELSE 0
      IN  count[t] - Cardinality(rows) + owed \in 0..Cardinality(twice)

\* The foreign keys of the schema.
WholeIn(d) ==
  /\ \A row \in d["posts"] \cup d["comments"] : row.user \in d["users"]
  /\ \A pair \in d["likes"] : pair[1] \in d["users"]
  /\ \A pair \in d["follows"] : {pair[1], pair[2]} \subseteq d["users"]
  /\ \A row \in d["comments"] \cup d["post_media"] : row.post \in Ids(d["posts"])
  /\ \A c \in d["comments"] : c.parent # None => c.parent \in Ids(d["comments"])

\* Whatever a seeding, an aborted one or an import leaves refers to rows that are
\* there, although an import switches the foreign keys off: unless it met a
\* username that another seeding gave to another id, or a post was deleted while
\* it ran.
WholeUnlessImportRaced ==
  importing = 0 /\ mishaps \cap {"name taken", "deleted"} = {} => WholeIn(db)
=============================================================================
