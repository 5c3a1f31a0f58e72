--------------------------- MODULE SeedingProofs ---------------------------
(***************************************************************************)
(* Proofs about the seeder beside visitors and imports, for any names,     *)
(* titles and numbers of seedings, comments, likes and follows.  Inv, the  *)
(* inductive invariant, has four parts beside the types: Control says      *)
(* where the seeder, an import and the mishaps stand to each other;        *)
(* Gathered what Run has collected, and that past the truncations the      *)
(* tables hold no post, comment or like of anybody else's; References what *)
(* refers to what, also half-way through an import; Counted how like_count *)
(* comes about.                                                            *)
(***************************************************************************)
EXTENDS Seeding, FiniteSetTheorems, TLAPS

-----------------------------------------------------------------------------
(* Ids and tables *)

\* A post is told by its seeding and title, and is no comment.
LEMMA PostIds ==
  \A p \in Posts : /\ p = <<p[1], p[2]>> /\ p[1] \in 1..Seedings /\ p[2] \in Titles
                   /\ p \notin CommentIds
<1>1. ASSUME NEW p \in Posts, p \in CommentIds PROVE FALSE
  <2>1. PICK n \in 1..Seedings : p \in {n} \X Titles \X (1..Comments[n])
    BY <1>1 DEF CommentIds
  <2>2. DOMAIN p = 1..3
    BY <2>1
  <2>3. DOMAIN p = 1..2
    BY DEF Posts
  <2> QED
    BY <2>2, <2>3
<1> QED
  BY <1>1 DEF Posts

\* A comment names the seeding, the post and its number in it.
LEMMA CommentIdOf ==
  \A id \in CommentIds : id[1] \in 1..Seedings /\ id[3] \in 1..Comments[id[1]] /\ PostOf(id) \in Posts
BY DEF CommentIds, PostOf, Posts

\* The number of a comment is the third part of its id.
LEMMA NewCommentId ==
  ASSUME NEW p \in Posts, NEW k \in 1..Comments[p[1]]
  PROVE  /\ <<p[1], p[2], k>> \in CommentIds
         /\ PostOf(<<p[1], p[2], k>>) = p
         /\ <<p[1], p[2], k>>[3] = k
BY DEF CommentIds, PostOf, Posts

\* So many users at most.
LEMMA UsersFinite == IsFiniteSet(Users)
<1>1. 0 \in Int /\ Seedings \in Int
  BY SeedingAssumption
<1>2. IsFiniteSet(0..Seedings)
  BY <1>1, FS_Interval
<1> QED
  BY <1>2, FS_Product, SeedingAssumption DEF Users

\* Empty tables are typed and refer to nothing.
LEMMA EmptyOK == TablesOK(Empty) /\ WholeIn(Empty) /\ \A t \in Tables : Empty[t] = {}
BY DEF TablesOK, WholeIn, Empty, Tables, Ids

\* Rows added to one table leave the others alone.
LEMMA PlusIs ==
  ASSUME NEW d, NEW t \in Tables, NEW rows, d = [u \in Tables |-> d[u]]
  PROVE  /\ Plus(d, t, rows) = [u \in Tables |-> Plus(d, t, rows)[u]]
         /\ Plus(d, t, rows)[t] = d[t] \cup rows
         /\ \A u \in Tables \ {t} : Plus(d, t, rows)[u] = d[u]
BY DEF Plus

\* A user refers to nothing.
LEMMA PlusUsers ==
  ASSUME NEW d, TablesOK(d), NEW rows \in SUBSET Users
  PROVE  /\ TablesOK(Plus(d, "users", rows))
         /\ WholeIn(d) => WholeIn(Plus(d, "users", rows))
<1> DEFINE e == Plus(d, "users", rows)
<1>1. /\ e = [u \in Tables |-> e[u]] /\ e["users"] = d["users"] \cup rows
      /\ e["posts"] = d["posts"] /\ e["post_media"] = d["post_media"]
      /\ e["comments"] = d["comments"] /\ e["likes"] = d["likes"] /\ e["follows"] = d["follows"]
  BY PlusIs DEF Tables, TablesOK
<1> HIDE DEF e
<1>2. /\ TablesOK(e)
      /\ WholeIn(d) => WholeIn(e)
  BY <1>1 DEF TablesOK, WholeIn
<1> QED
  BY <1>2 DEF e

\* A post refers to its author.
LEMMA PlusPosts ==
  ASSUME NEW d, TablesOK(d), NEW rows \in SUBSET [id : Posts, user : Users]
  PROVE  /\ TablesOK(Plus(d, "posts", rows))
         /\ WholeIn(d) /\ (\A row \in rows : row.user \in d["users"])
              => WholeIn(Plus(d, "posts", rows))
<1> DEFINE e == Plus(d, "posts", rows)
<1>1. /\ e = [u \in Tables |-> e[u]] /\ e["users"] = d["users"]
      /\ e["posts"] = d["posts"] \cup rows /\ e["post_media"] = d["post_media"]
      /\ e["comments"] = d["comments"] /\ e["likes"] = d["likes"] /\ e["follows"] = d["follows"]
  BY PlusIs DEF Tables, TablesOK
<1> HIDE DEF e
<1>2. Ids(d["posts"]) \subseteq Ids(d["posts"] \cup rows)
  BY DEF Ids
<1>3. TablesOK(e)
  BY <1>1 DEF TablesOK
<1>4. ASSUME WholeIn(d), \A row \in rows : row.user \in d["users"]
      PROVE  WholeIn(e)
  BY <1>1, <1>2, <1>4 DEF WholeIn
<1> QED
  BY <1>3, <1>4 DEF e

\* A medium refers to its post.
LEMMA PlusMedia ==
  ASSUME NEW d, TablesOK(d), NEW rows \in SUBSET [id : Posts, post : Posts]
  PROVE  /\ TablesOK(Plus(d, "post_media", rows))
         /\ WholeIn(d) /\ (\A row \in rows : row.post \in Ids(d["posts"]))
              => WholeIn(Plus(d, "post_media", rows))
<1> DEFINE e == Plus(d, "post_media", rows)
<1>1. /\ e = [u \in Tables |-> e[u]] /\ e["users"] = d["users"]
      /\ e["posts"] = d["posts"] /\ e["post_media"] = d["post_media"] \cup rows
      /\ e["comments"] = d["comments"] /\ e["likes"] = d["likes"] /\ e["follows"] = d["follows"]
  BY PlusIs DEF Tables, TablesOK
<1> HIDE DEF e
<1>2. /\ TablesOK(e)
      /\ WholeIn(d) /\ (\A row \in rows : row.post \in Ids(d["posts"]))
           => WholeIn(e)
  BY <1>1 DEF TablesOK, WholeIn
<1> QED
  BY <1>2 DEF e

\* A comment refers to author, post and parent, which may come with it.
LEMMA PlusComments ==
  ASSUME NEW d, TablesOK(d), NEW rows \in SUBSET CommentRows
  PROVE  /\ TablesOK(Plus(d, "comments", rows))
         /\ WholeIn(d) /\ (\A row \in rows : /\ row.user \in d["users"] /\ row.post \in Ids(d["posts"])
                                             /\ row.parent # None => row.parent \in Ids(d["comments"] \cup rows))
              => WholeIn(Plus(d, "comments", rows))
<1> DEFINE e == Plus(d, "comments", rows)
<1>1. /\ e = [u \in Tables |-> e[u]] /\ e["users"] = d["users"]
      /\ e["posts"] = d["posts"] /\ e["post_media"] = d["post_media"]
      /\ e["comments"] = d["comments"] \cup rows /\ e["likes"] = d["likes"]
      /\ e["follows"] = d["follows"]
  BY PlusIs DEF Tables, TablesOK
<1> HIDE DEF e
<1>2. Ids(d["comments"]) \subseteq Ids(d["comments"] \cup rows)
  BY DEF Ids
<1>3. TablesOK(e)
  BY <1>1 DEF TablesOK
<1>4. ASSUME WholeIn(d), \A row \in rows : /\ row.user \in d["users"] /\ row.post \in Ids(d["posts"])
                                           /\ row.parent # None => row.parent \in Ids(d["comments"] \cup rows)
      PROVE  WholeIn(e)
  BY <1>1, <1>2, <1>4 DEF WholeIn
<1> QED
  BY <1>3, <1>4 DEF e

\* A like refers to its user; no foreign key asks for the target.
LEMMA PlusLikes ==
  ASSUME NEW d, TablesOK(d), NEW rows \in SUBSET (Users \X Targets)
  PROVE  /\ TablesOK(Plus(d, "likes", rows))
         /\ WholeIn(d) /\ (\A pair \in rows : pair[1] \in d["users"])
              => WholeIn(Plus(d, "likes", rows))
<1> DEFINE e == Plus(d, "likes", rows)
<1>1. /\ e = [u \in Tables |-> e[u]] /\ e["users"] = d["users"]
      /\ e["posts"] = d["posts"] /\ e["post_media"] = d["post_media"]
      /\ e["comments"] = d["comments"] /\ e["likes"] = d["likes"] \cup rows
      /\ e["follows"] = d["follows"]
  BY PlusIs DEF Tables, TablesOK
<1> HIDE DEF e
<1>2. /\ TablesOK(e)
      /\ WholeIn(d) /\ (\A pair \in rows : pair[1] \in d["users"])
           => WholeIn(e)
  BY <1>1 DEF TablesOK, WholeIn
<1> QED
  BY <1>2 DEF e

\* A follow refers to two users.
LEMMA PlusFollows ==
  ASSUME NEW d, TablesOK(d), NEW rows \in SUBSET (Users \X Users)
  PROVE  /\ TablesOK(Plus(d, "follows", rows))
         /\ WholeIn(d) /\ (\A pair \in rows : {pair[1], pair[2]} \subseteq d["users"])
              => WholeIn(Plus(d, "follows", rows))
<1> DEFINE e == Plus(d, "follows", rows)
<1>1. /\ e = [u \in Tables |-> e[u]] /\ e["users"] = d["users"]
      /\ e["posts"] = d["posts"] /\ e["post_media"] = d["post_media"]
      /\ e["comments"] = d["comments"] /\ e["likes"] = d["likes"]
      /\ e["follows"] = d["follows"] \cup rows
  BY PlusIs DEF Tables, TablesOK
<1> HIDE DEF e
<1>2. /\ TablesOK(e)
      /\ WholeIn(d) /\ (\A pair \in rows : {pair[1], pair[2]} \subseteq d["users"])
           => WholeIn(e)
  BY <1>1 DEF TablesOK, WholeIn
<1> QED
  BY <1>2 DEF e

-----------------------------------------------------------------------------
(* The inductive invariant *)

\* Past the truncations: what Run adds is added to tables that were emptied.
Filling == Running /\ seeder.at # "truncate"

\* No import while Run is at work, and nothing has befallen the rows once the last
\* truncation is over; the truncations left are the last ones of Order; a vote is in
\* hand only between its INSERT and its count, also when Run was stopped there.
Control ==
  /\ importing > 0 => ~Running /\ file # None /\ "import" \in mishaps
  /\ {"name taken", "deleted"} \cap mishaps # {} => "import" \in mishaps
  /\ seeder.at = "truncate" => /\ memory = Empty /\ "truncating" \in mishaps
                               /\ \E k \in 1..6 : seeder.left = k..6
  /\ Filling => mishaps = {}
  /\ Running => seeder.run > 0
  /\ seeder.pair # None => seeder.at \in {"increment", "failed"}
  /\ seeder.at = "increment" => seeder.pair # None

\* No comment has a number above that of the comments collected for its post.
Numbered ==
  \A c \in memory["comments"] :
    c.id[3] <= Cardinality({d \in memory["comments"] : d.post = c.post})

\* The tables and the rows collected: users of this seeding are never deleted, and
\* nobody but the seeder adds posts and comments, so a like is on something of its.
Collected ==
  /\ memory["users"] \subseteq db["users"]
  /\ \A p \in Ids(memory["posts"]) : p[1] = seeder.run
  /\ Ids(db["posts"]) \subseteq Ids(memory["posts"])
  /\ Ids(db["comments"]) \subseteq Ids(memory["comments"])
  /\ \A pair \in db["likes"] : pair[2] \in PresentIn(memory)
  /\ Numbered

\* What each statement of Run finds collected.
Stage ==
  /\ seeder.at \in {"users", "cards"} => memory["posts"] = {}
  /\ seeder.at \in {"posts", "post_media"} =>
       \A t \in seeder.left : <<seeder.run, t>> \notin Ids(memory["posts"])
  /\ seeder.at = "post_media" => seeder.post \in Ids(memory["posts"])
  /\ seeder.at = "comments" => seeder.left \subseteq Ids(memory["posts"])
  /\ seeder.at = "increment" =>
       seeder.pair[1] \in memory["users"] /\ seeder.pair[2] \in PresentIn(memory)

\* The rows for the export refer to each other only.
Gathered ==
  /\ IsFiniteSet(memory["comments"])
  /\ Running => WholeIn(memory)
  /\ Filling => Collected
  /\ Stage

\* No import has met a taken name, and no post was deleted during one.
Unraced == {"name taken", "deleted"} \cap mishaps = {}

\* Mid-way through an import the users and the posts of the file are in, or the
\* import has met a taken name or a deletion.
References ==
  /\ file # None => WholeIn(file)
  /\ Unraced =>
       /\ WholeIn(db)
       /\ importing > 1 => file["users"] \subseteq db["users"]
       /\ importing > 2 => Ids(file["posts"]) \subseteq Ids(db["posts"])

\* All tables have been emptied at once, and no file has been imported since.
Clean == {"import", "truncating"} \cap mishaps = {}

\* A like is the seeder's, collected or on its way, or a visitor's; the seeder's one
\* in hand has its row unless a visitor has taken it back.
Counted ==
  /\ IsFiniteSet(visits)
  /\ \A t \in Targets \ Present : count[t] = 0
  /\ Clean =>
      /\ db["likes"] \subseteq visits \cup memory["likes"] \cup {seeder.pair}
      /\ seeder.pair # None =>
           seeder.pair \in db["likes"] \cup visits /\ seeder.pair[1] \in db["users"]
  /\ SeededLikesAddUp

\* The inductive invariant.
Inv == TypeOK /\ Control /\ Gathered /\ References /\ Counted

-----------------------------------------------------------------------------
(* The initial states, and types *)

\* The ids of typed rows.
LEMMA IdsTyped ==
  ASSUME NEW d, TablesOK(d)
  PROVE  /\ Ids(d["posts"]) \subseteq Posts /\ Ids(d["comments"]) \subseteq CommentIds
         /\ PresentIn(d) \subseteq Targets
BY DEF TablesOK, Ids, PresentIn, CommentRows, Targets

\* With no row, no run and no import nothing is owed.
LEMMA InitInv == Init => Inv
<1> SUFFICES ASSUME Init PROVE Inv
  OBVIOUS
<1>1. seeder = Nowhere /\ db = Empty /\ memory = Empty /\ ~Running
  BY DEF Init, Running, Nowhere
<1>2. TypeOK
  BY <1>1, EmptyOK, SeedingAssumption DEF Init, TypeOK, SeederOK, Nowhere
<1>3. Control
  BY <1>1 DEF Init, Control, Filling, Nowhere
<1>4. Gathered
  BY <1>1, EmptyOK, FS_EmptySet DEF Init, Gathered, Stage, Filling, Nowhere, Tables
<1>5. References
  BY <1>1, EmptyOK DEF Init, References
<1>6. Counted
  BY <1>1, EmptyOK, FS_EmptySet DEF Init, Counted, SeededLikesAddUp, Nowhere, Tables, Present, PresentIn, Ids
<1> QED
  BY <1>2, <1>3, <1>4, <1>5, <1>6 DEF Inv

\* The next comment of a post: its number is the first that is free.
LEMMA NextComment ==
  ASSUME TypeOK, Gathered, Running, seeder.at = "comments", NEW p \in seeder.left,
         NEW k, k = Cardinality({c \in memory["comments"] : c.post = p}) + 1, k <= Comments[seeder.run]
  PROVE  /\ p \in Posts /\ <<p[1], p[2], k>> \in CommentIds /\ PostOf(<<p[1], p[2], k>>) = p
         /\ <<p[1], p[2], k>> \notin Ids(memory["comments"])
         /\ k \in Nat
<1> DEFINE earlier == {c \in memory["comments"] : c.post = p}
<1>1. TablesOK(memory) /\ p \in Ids(memory["posts"]) /\ Ids(memory["posts"]) \subseteq Posts
  BY IdsTyped DEF Gathered, Stage, TypeOK
<1>2. p \in Posts /\ p[1] = seeder.run
  BY <1>1 DEF Gathered, Collected, Filling
<1>3. IsFiniteSet(earlier)
  BY FS_Subset DEF Gathered
<1>4. Cardinality(earlier) \in Nat
  BY <1>3, FS_CardinalityType
<1>5. k \in 1..Comments[p[1]] /\ k \in Nat
  <2>1. Comments[p[1]] \in Nat
    BY <1>2, PostIds, SeedingAssumption
  <2> HIDE DEF earlier
  <2>2. k = Cardinality(earlier) + 1
    BY DEF earlier
  <2> QED
    BY <1>2, <1>4, <2>1, <2>2
<1>6. <<p[1], p[2], k>> \in CommentIds /\ PostOf(<<p[1], p[2], k>>) = p
  BY <1>2, <1>5, NewCommentId
<1>7. ASSUME NEW c \in memory["comments"], c.id = <<p[1], p[2], k>> PROVE FALSE
  <2>1. c.post = p
    BY <1>1, <1>6, <1>7 DEF TablesOK, CommentRows
  <2>2. c.id[3] <= Cardinality(earlier)
    BY <2>1 DEF Gathered, Collected, Filling, Numbered
  <2>3. c.id[3] = k
    BY <1>7
  <2>4. k = Cardinality(earlier) + 1
    OBVIOUS
  <2> HIDE DEF earlier
  <2> QED
    BY <1>4, <2>2, <2>3, <2>4
<1> QED
  BY <1>2, <1>5, <1>6, <1>7 DEF Ids

\* What seedComments inserts.
LEMMA CommentOf ==
  ASSUME Inv, seedComments
  PROVE  \E p \in seeder.left, u \in memory["users"], parent \in Ids(memory["comments"]) \cup {None}, k \in Nat :
           LET comment == [id |-> <<p[1], p[2], k>>, post |-> p, user |-> u, parent |-> parent]
           IN  /\ seeder.at = "comments" /\ p \in Ids(db["posts"]) /\ parent \in Ids(db["comments"]) \cup {None}
               /\ comment \in CommentRows /\ comment.id \notin Ids(memory["comments"])
               /\ k = Cardinality({c \in memory["comments"] : c.post = p}) + 1
               /\ Insert("comments", {comment}) /\ Collect("comments", {comment})
               /\ UNCHANGED <<count, seeder, Outside>>
<1>1. PICK p \in seeder.left, u \in memory["users"], parent \in Ids(memory["comments"]) \cup {None} :
    LET earlier == {c \in memory["comments"] : c.post = p}
        k == Cardinality(earlier) + 1
        top == {c.id : c \in {d \in earlier : d.parent = None}}
        comment == [id |-> <<p[1], p[2], k>>, post |-> p, user |-> u, parent |-> parent]
    IN  /\ seeder.at = "comments" /\ k <= Comments[seeder.run]
        /\ parent # None => parent \in top /\ \A id \in top : id[3] <= parent[3]
        /\ p \in Ids(db["posts"]) /\ parent \in Ids(db["comments"]) \cup {None}
        /\ Insert("comments", {comment}) /\ Collect("comments", {comment})
        /\ UNCHANGED <<count, seeder, Outside>>
  BY DEF seedComments
<1> DEFINE k == Cardinality({c \in memory["comments"] : c.post = p}) + 1
           comment == [id |-> <<p[1], p[2], k>>, post |-> p, user |-> u, parent |-> parent]
<1>2. TypeOK /\ Gathered /\ TablesOK(memory) /\ Running
  BY <1>1 DEF Inv, TypeOK, Running
<1>3. /\ p \in Posts /\ <<p[1], p[2], k>> \in CommentIds /\ PostOf(<<p[1], p[2], k>>) = p
      /\ <<p[1], p[2], k>> \notin Ids(memory["comments"]) /\ k \in Nat
  BY <1>1, <1>2, NextComment
<1>4. u \in Users /\ parent \in CommentIds \cup {None}
  BY <1>2, IdsTyped DEF TablesOK
<1>5. parent # None => PostOf(parent) = p
  BY <1>1, <1>2 DEF TablesOK, CommentRows
<1>6. /\ seeder.at = "comments" /\ p \in Ids(db["posts"]) /\ parent \in Ids(db["comments"]) \cup {None}
      /\ Insert("comments", {comment}) /\ Collect("comments", {comment})
      /\ UNCHANGED <<count, seeder, Outside>>
  BY <1>1
<1>7. k = Cardinality({c \in memory["comments"] : c.post = p}) + 1
  OBVIOUS
<1> HIDE DEF k
<1>8. comment \in CommentRows /\ comment.id \notin Ids(memory["comments"])
  BY <1>3, <1>4, <1>5 DEF CommentRows
<1> QED
  BY <1>3, <1>6, <1>7, <1>8

\* The statements of the seeder change tables, memory and its own state only.
LEMMA StayTyped ==
  ASSUME TypeOK, TablesOK(db)', TablesOK(memory)', SeederOK', UNCHANGED <<count, Outside>>
  PROVE  TypeOK'
BY DEF TypeOK, Outside

\* A visit is one request more.
LEMMA VisitCounted ==
  ASSUME TypeOK, Visit
  PROVE  requests' \in Nat
<1>1. requests \in Nat
  BY DEF TypeOK
<1>2. requests' = requests + 1
  BY DEF Visit
<1> QED
  BY <1>1, <1>2

\* The visitors change the tables, like_count, visits and mishaps only.
LEMMA VisitTyped ==
  ASSUME TypeOK, TablesOK(db)', count' \in [Targets -> Nat], visits' \subseteq Users \X Targets,
         mishaps' \subseteq {"truncating", "import", "name taken", "deleted"}, Visit
  PROVE  TypeOK'
<1>1. UNCHANGED <<seeder, memory, file, importing>> /\ requests' = requests + 1 /\ requests \in Nat
  BY DEF TypeOK, Visit
<1>2. SeederOK' /\ TablesOK(memory)' /\ (file' # None => TablesOK(file)')
  BY <1>1 DEF TypeOK, SeederOK
<1>3. requests' \in Nat
  BY VisitCounted
<1>4. importing' \in 0..Len(Parts)
  BY <1>1 DEF TypeOK
<1> QED
  BY <1>2, <1>3, <1>4 DEF TypeOK

\* Where Go may lead, and with what is left to do there.
LEMMA GoTyped ==
  ASSUME SeederOK, NEW at, NEW left, Go(at, left),
         at \in {"users", "cards", "posts", "comments", "likes", "follows", "truncate"},
         at = "truncate" => left \subseteq 1..Len(Order),
         at = "users" => left \subseteq Names,
         at = "posts" => left \subseteq Titles,
         at = "comments" => left \subseteq Posts
  PROVE  SeederOK'
BY DEF SeederOK, Go

\* Run is over: its rows are gone, but for the likes.
LEMMA ReturnTyped ==
  ASSUME TypeOK, NEW at \in {"done", "failed"}, Return(at),
         file' # None => TablesOK(file)', UNCHANGED <<db, count, importing, visits, requests, mishaps>>
  PROVE  TypeOK'
<1>1. TablesOK(memory)'
  BY DEF Return, TypeOK, TablesOK, Empty, Tables
<1>2. SeederOK'
  BY DEF Return, TypeOK, SeederOK
<1> QED
  BY <1>1, <1>2 DEF TypeOK

\* like_count starts at 0 again where a row has gone.
LEMMA KeepTyped ==
  ASSUME TypeOK, NEW d, Keep(d)
  PROVE  count' \in [Targets -> Nat]
BY DEF TypeOK, Keep

\* The tables without a post and what goes with it.
Without(d, post) ==
  [d EXCEPT !["posts"] = @ \ {post},
            !["comments"] = {c \in @ : c.post # post.id},
            !["post_media"] = {m \in @ : m.post # post.id}]

\* Without leaves users, likes and follows alone.
LEMMA WithoutIs ==
  ASSUME NEW d, TablesOK(d), NEW post
  PROVE  /\ Without(d, post) = [u \in Tables |-> Without(d, post)[u]]
         /\ Without(d, post)["users"] = d["users"]
         /\ Without(d, post)["posts"] = d["posts"] \ {post}
         /\ Without(d, post)["post_media"] = {m \in d["post_media"] : m.post # post.id}
         /\ Without(d, post)["comments"] = {c \in d["comments"] : c.post # post.id}
         /\ Without(d, post)["likes"] = d["likes"]
         /\ Without(d, post)["follows"] = d["follows"]
BY DEF Without, TablesOK, Tables

\* Fewer rows are typed as well.
LEMMA WithoutTyped ==
  ASSUME NEW d, TablesOK(d), NEW post
  PROVE  TablesOK(Without(d, post))
<1> DEFINE e == Without(d, post)
<1>1. /\ e = [u \in Tables |-> e[u]] /\ e["users"] = d["users"]
      /\ e["posts"] \subseteq d["posts"] /\ e["post_media"] \subseteq d["post_media"]
      /\ e["comments"] \subseteq d["comments"] /\ e["likes"] = d["likes"] /\ e["follows"] = d["follows"]
  BY WithoutIs
<1> HIDE DEF e
<1>2. TablesOK(e)
  BY <1>1 DEF TablesOK
<1> QED
  BY <1>2 DEF e

\* The statements of an import: the rows of one table that are not there.
LEMMA ImportSteps ==
  ASSUME Inv, ImportPart
  PROVE  /\ importing \in 1..6 /\ TablesOK(file) /\ file # None
         /\ importing = 1 => \/ NameTaken /\ mishaps' = mishaps \cup {"name taken"} /\ Insert("users", {})
                             \/ ~NameTaken /\ mishaps' = mishaps /\ Insert("users", file["users"])
         /\ importing # 1 => mishaps' = mishaps
         /\ importing = 2 => \E rows \in SUBSET file["posts"] :
                               Insert("posts", rows) /\ Ids(file["posts"]) \subseteq Ids(rows) \cup Ids(db["posts"])
         /\ importing = 3 => \E rows \in SUBSET file["post_media"] : Insert("post_media", rows)
         /\ importing = 4 => \E rows \in SUBSET file["comments"] :
                               Insert("comments", rows) /\ Ids(file["comments"]) \subseteq Ids(rows) \cup Ids(db["comments"])
         /\ importing = 5 => Insert("likes", file["likes"])
         /\ importing = 6 => Insert("follows", file["follows"])
         /\ importing < 6 => importing' = importing + 1 /\ file' = file
         /\ importing = 6 => importing' = 0 /\ file' = None
<1>1. importing \in 1..6 /\ TablesOK(file) /\ file # None
  <2>1. importing \in 0..Len(Parts) /\ importing > 0
    BY DEF Inv, TypeOK, ImportPart
  <2>2. file # None /\ TablesOK(file)
    BY <2>1 DEF Inv, TypeOK, Control
  <2> QED
    BY <2>1, <2>2 DEF Parts
<1>2. Len(Parts) = 6 /\ Parts[1] = "users"
  BY DEF Parts
<1>3. importing = 1 => \/ NameTaken /\ mishaps' = mishaps \cup {"name taken"} /\ Insert("users", {})
                       \/ ~NameTaken /\ mishaps' = mishaps /\ Insert("users", file["users"])
  <2> SUFFICES ASSUME importing = 1
               PROVE  \/ NameTaken /\ mishaps' = mishaps \cup {"name taken"} /\ Insert("users", {})
                      \/ ~NameTaken /\ mishaps' = mishaps /\ Insert("users", file["users"])
    OBVIOUS
  <2>1. CASE NameTaken
    BY <1>2, <2>1 DEF ImportPart
  <2>2. CASE ~NameTaken
    BY <1>2, <2>2 DEF ImportPart
  <2> QED
    BY <2>1, <2>2
<1>4. importing # 1 => mishaps' = mishaps
  <2>1. importing # 1 => Parts[importing] # "users"
    BY <1>1 DEF Parts
  <2> QED
    BY <2>1 DEF ImportPart
<1>5. importing = 2 => \E rows \in SUBSET file["posts"] :
                         Insert("posts", rows) /\ Ids(file["posts"]) \subseteq Ids(rows) \cup Ids(db["posts"])
  <2> SUFFICES ASSUME importing = 2
               PROVE  \E rows \in SUBSET file["posts"] :
                         Insert("posts", rows) /\ Ids(file["posts"]) \subseteq Ids(rows) \cup Ids(db["posts"])
    OBVIOUS
  <2> DEFINE rows == {row \in file["posts"] : row.id \notin Ids(db["posts"])}
  <2>1. Insert("posts", rows)
    BY DEF ImportPart, Parts
  <2>2. Ids(file["posts"]) \subseteq Ids(rows) \cup Ids(db["posts"])
    BY DEF Ids
  <2> QED
    BY <2>1, <2>2
<1>6. importing = 3 => \E rows \in SUBSET file["post_media"] : Insert("post_media", rows)
  BY DEF ImportPart, Parts
<1>7. importing = 4 => \E rows \in SUBSET file["comments"] :
                         Insert("comments", rows) /\ Ids(file["comments"]) \subseteq Ids(rows) \cup Ids(db["comments"])
  <2> SUFFICES ASSUME importing = 4
               PROVE  \E rows \in SUBSET file["comments"] :
                         Insert("comments", rows) /\ Ids(file["comments"]) \subseteq Ids(rows) \cup Ids(db["comments"])
    OBVIOUS
  <2> DEFINE rows == {row \in file["comments"] : row.id \notin Ids(db["comments"])}
  <2>1. Insert("comments", rows)
    BY DEF ImportPart, Parts
  <2>2. Ids(file["comments"]) \subseteq Ids(rows) \cup Ids(db["comments"])
    BY DEF Ids
  <2> QED
    BY <2>1, <2>2
<1>8. importing = 5 => Insert("likes", file["likes"])
  BY DEF ImportPart, Parts
<1>9. importing = 6 => Insert("follows", file["follows"])
  BY DEF ImportPart, Parts
<1>10. /\ importing < 6 => importing' = importing + 1 /\ file' = file
       /\ importing = 6 => importing' = 0 /\ file' = None
  <2>1. IF importing = Len(Parts) THEN importing' = 0 /\ file' = None
        ELSE importing' = importing + 1 /\ UNCHANGED file
    BY DEF ImportPart
  <2> QED
    BY <1>1, <1>2, <2>1
<1> QED
  BY <1>1, <1>3, <1>4, <1>5, <1>6, <1>7, <1>8, <1>9, <1>10

\* An import inserts typed rows.
LEMMA ImportTyped ==
  ASSUME Inv, ImportPart
  PROVE  TablesOK(db)' /\ (file' # None => TablesOK(file)') /\ importing' \in 0..Len(Parts)
<1>1. TablesOK(db) /\ TablesOK(file) /\ importing \in 1..6 /\ Len(Parts) = 6
  BY ImportSteps DEF Inv, TypeOK, Parts
<1>2. (file' # None => TablesOK(file)') /\ importing' \in 0..Len(Parts)
  <2>1. /\ importing < 6 => importing' = importing + 1 /\ file' = file
        /\ importing = 6 => importing' = 0 /\ file' = None
    BY ImportSteps
  <2>2. importing' \in 0..Len(Parts)
    BY <1>1, <2>1
  <2>3. file' = file \/ file' = None
    BY <1>1, <2>1
  <2> QED
    BY <1>1, <2>2, <2>3
<1>3. CASE importing = 1
  <2>1. \E rows \in {{}, file["users"]} : Insert("users", rows)
    BY <1>3, ImportSteps
  <2>2. {} \in SUBSET Users /\ file["users"] \in SUBSET Users
    BY <1>1 DEF TablesOK
  <2> QED
    BY <1>1, <1>2, <2>1, <2>2, PlusUsers DEF Insert
<1>4. CASE importing = 2
  <2>1. PICK rows \in SUBSET file["posts"] : Insert("posts", rows)
    BY <1>4, ImportSteps
  <2>2. rows \in SUBSET [id : Posts, user : Users]
    BY <1>1 DEF TablesOK
  <2> QED
    BY <1>1, <1>2, <2>1, <2>2, PlusPosts DEF Insert
<1>5. CASE importing = 3
  <2>1. PICK rows \in SUBSET file["post_media"] : Insert("post_media", rows)
    BY <1>5, ImportSteps
  <2>2. rows \in SUBSET [id : Posts, post : Posts]
    BY <1>1 DEF TablesOK
  <2> QED
    BY <1>1, <1>2, <2>1, <2>2, PlusMedia DEF Insert
<1>6. CASE importing = 4
  <2>1. PICK rows \in SUBSET file["comments"] : Insert("comments", rows)
    BY <1>6, ImportSteps
  <2>2. rows \in SUBSET CommentRows
    BY <1>1 DEF TablesOK
  <2> QED
    BY <1>1, <1>2, <2>1, <2>2, PlusComments DEF Insert
<1>7. CASE importing = 5
  <2>1. file["likes"] \in SUBSET (Users \X Targets) /\ Insert("likes", file["likes"])
    BY <1>1, <1>7, ImportSteps DEF TablesOK
  <2> QED
    BY <1>1, <1>2, <2>1, PlusLikes DEF Insert
<1>8. CASE importing = 6
  <2>1. file["follows"] \in SUBSET (Users \X Users) /\ Insert("follows", file["follows"])
    BY <1>1, <1>8, ImportSteps DEF TablesOK
  <2> QED
    BY <1>1, <1>2, <2>1, PlusFollows DEF Insert
<1> QED
  BY <1>1, <1>3, <1>4, <1>5, <1>6, <1>7, <1>8

\* Every step keeps the types.
LEMMA TypeNext ==
  ASSUME Inv, [Next]_vars
  PROVE  TypeOK'
<1>0. TypeOK /\ TablesOK(db) /\ TablesOK(memory) /\ SeederOK /\ count \in [Targets -> Nat]
  BY DEF Inv, TypeOK
<1>1. CASE Run
  <2>1. SeederOK'
    BY <1>0, <1>1, SeedingAssumption DEF Run, SeederOK
  <2>2. TablesOK(memory)' /\ mishaps' = mishaps \cup {"truncating"}
        /\ UNCHANGED <<db, count, file, importing, visits, requests>>
    BY <1>1, EmptyOK DEF Run
  <2> QED
    BY <1>0, <2>1, <2>2 DEF TypeOK
<1>2. CASE truncateAll
  <2> DEFINE d == [t \in Tables |-> IF t \in Cascade[Order[CHOOSE i \in seeder.left : \A j \in seeder.left : i <= j]]
                                    THEN {} ELSE db[t]]
  <2>1. /\ Keep(d) /\ UNCHANGED <<memory, file, importing, requests>> /\ visits' \subseteq visits
        /\ mishaps' \subseteq mishaps
    BY <1>2 DEF truncateAll
  <2>2. TablesOK(d)
    BY <1>0 DEF TablesOK, Tables
  <2> HIDE DEF d
  <2>3. TablesOK(db)' /\ TablesOK(memory)' /\ count' \in [Targets -> Nat]
    BY <1>0, <2>1, <2>2, KeepTyped DEF Keep
  <2>4. Go("users", Names) \/ \E i : Go("truncate", seeder.left \ {i})
    BY <1>2 DEF truncateAll
  <2>5. seeder.left \subseteq 1..Len(Order)
    BY <1>0, <1>2 DEF SeederOK, truncateAll
  <2>6. SeederOK'
    BY <1>0, <2>4, <2>5, GoTyped
  <2> QED
    BY <1>0, <2>1, <2>3, <2>6 DEF TypeOK
<1>3. CASE seedUsers
  <2>1. PICK n \in seeder.left :
      /\ seeder.at = "users"
      /\ Insert("users", {<<seeder.run, n>>}) /\ Collect("users", {<<seeder.run, n>>})
      /\ IF seeder.left = {n} THEN Go("cards", {}) ELSE Go("users", seeder.left \ {n})
      /\ UNCHANGED <<count, Outside>>
    BY <1>3 DEF seedUsers
  <2>2. n \in Names /\ {<<seeder.run, n>>} \in SUBSET Users /\ seeder.left \subseteq Names
    BY <1>0, <2>1 DEF SeederOK, Users
  <2>3. TablesOK(db)' /\ TablesOK(memory)'
    BY <1>0, <2>1, <2>2, PlusUsers DEF Insert, Collect
  <2> QED
    <3>1. SeederOK'
      BY <1>0, <2>1, <2>2, GoTyped
    <3>2. UNCHANGED <<count, Outside>>
      BY <2>1
    <3> QED
      BY <1>0, <2>3, <3>1, <3>2, StayTyped
<1>4. CASE fetchCards
  <2>1. SeederOK'
    BY <1>0, <1>4, GoTyped DEF fetchCards, SeederOK
  <2>2. UNCHANGED <<db, count, memory, Outside>>
    BY <1>4 DEF fetchCards
  <2> QED
    BY <1>0, <2>1, <2>2, StayTyped
<1>5. CASE CreatePost
  <2>1. PICK t \in seeder.left, u \in memory["users"] :
      /\ seeder.at = "posts"
      /\ Insert("posts", {[id |-> <<seeder.run, t>>, user |-> u]})
      /\ Collect("posts", {[id |-> <<seeder.run, t>>, user |-> u]})
      /\ seeder' = [seeder EXCEPT !.at = "post_media", !.left = @ \ {t}, !.post = <<seeder.run, t>>]
      /\ UNCHANGED <<count, Outside>>
    BY <1>5 DEF CreatePost
  <2>2. <<seeder.run, t>> \in Posts /\ u \in Users
    <3>1. seeder.run > 0 /\ seeder.run \in 0..Seedings /\ t \in Titles
      BY <1>0, <2>1 DEF SeederOK, Inv, Control, Running
    <3>2. seeder.run \in 1..Seedings
      BY <3>1, SeedingAssumption
    <3> QED
      BY <1>0, <3>1, <3>2 DEF Posts, TablesOK
  <2>3. TablesOK(db)' /\ TablesOK(memory)'
    BY <1>0, <2>1, <2>2, PlusPosts DEF Insert, Collect
  <2>4. SeederOK'
    BY <1>0, <2>1, <2>2 DEF SeederOK
  <2> QED
    BY <1>0, <2>1, <2>3, <2>4, StayTyped
<1>6. CASE CreatePostMedia
  <2>1. seeder.post \in Posts /\ Ids(memory["posts"]) \subseteq Posts
    BY <1>0, <1>6, IdsTyped DEF CreatePostMedia
  <2>2. TablesOK(db)' /\ TablesOK(memory)'
    BY <1>0, <1>6, <2>1, PlusMedia DEF CreatePostMedia, Insert, Collect
  <2>4. SeederOK'
    BY <1>0, <1>6, <2>1 DEF SeederOK, CreatePostMedia
  <2> QED
    BY <1>0, <1>6, <2>2, <2>4, StayTyped DEF CreatePostMedia
<1>7. CASE seedComments
  <2>1. PICK comment \in CommentRows : /\ Insert("comments", {comment}) /\ Collect("comments", {comment})
                                       /\ UNCHANGED <<count, seeder, Outside>>
    BY <1>7, CommentOf
  <2>2. TablesOK(db)' /\ TablesOK(memory)'
    BY <1>0, <2>1, PlusComments DEF Insert, Collect
  <2> QED
    BY <1>0, <2>1, <2>2, StayTyped DEF SeederOK
<1>8. CASE EnoughComments
  <2>1. SeederOK'
    BY <1>0, <1>8, GoTyped DEF EnoughComments, SeederOK
  <2>2. UNCHANGED <<db, count, memory, Outside>>
    BY <1>8 DEF EnoughComments
  <2> QED
    BY <1>0, <2>1, <2>2, StayTyped
<1>9. CASE AddLike
  <2>1. PICK u \in memory["users"], t \in PresentIn(memory) :
      /\ seeder.at = "likes" /\ Insert("likes", {<<u, t>>})
      /\ seeder' = [seeder EXCEPT !.at = "increment", !.pair = <<u, t>>]
      /\ UNCHANGED <<count, memory, Outside>>
    BY <1>9 DEF AddLike, PresentIn
  <2>2. <<u, t>> \in Users \X Targets
    BY <1>0, IdsTyped DEF TablesOK
  <2>3. TablesOK(db)'
    BY <1>0, <2>1, <2>2, PlusLikes DEF Insert
  <2>4. SeederOK'
    BY <1>0, <2>1, <2>2 DEF SeederOK
  <2> QED
    BY <1>0, <2>1, <2>3, <2>4, StayTyped
<1>10. CASE IncrementLikeCount
  <2>1. seeder.pair \in Users \X Targets /\ seeder.pair[2] \in Targets
    BY <1>0, <1>10 DEF IncrementLikeCount, Inv, Control, SeederOK
  <2>2. TablesOK(memory)'
    BY <1>0, <1>10, <2>1, PlusLikes DEF IncrementLikeCount, Collect
  <2>3. count' \in [Targets -> Nat]
    BY <1>0, <1>10, <2>1 DEF IncrementLikeCount
  <2>4. SeederOK'
    BY <1>0, <1>10 DEF SeederOK, IncrementLikeCount
  <2> QED
    BY <1>0, <1>10, <2>2, <2>3, <2>4 DEF IncrementLikeCount, TypeOK, Outside
<1>11. CASE EnoughLikes
  <2>1. SeederOK'
    BY <1>0, <1>11, GoTyped DEF EnoughLikes, SeederOK
  <2>2. UNCHANGED <<db, count, memory, Outside>>
    BY <1>11 DEF EnoughLikes
  <2> QED
    BY <1>0, <2>1, <2>2, StayTyped
<1>12. CASE seedFollows
  <2>1. PICK u \in memory["users"], v \in memory["users"] :
      /\ Insert("follows", {<<u, v>>}) /\ Collect("follows", {<<u, v>>})
      /\ UNCHANGED <<count, seeder, Outside>>
    BY <1>12 DEF seedFollows
  <2>2. {<<u, v>>} \in SUBSET (Users \X Users)
    BY <1>0 DEF TablesOK
  <2>3. TablesOK(db)' /\ TablesOK(memory)'
    BY <1>0, <2>1, <2>2, PlusFollows DEF Insert, Collect
  <2> QED
    BY <1>0, <2>1, <2>3, StayTyped DEF SeederOK
<1>13. CASE ExportSQL
  BY <1>0, <1>13, ReturnTyped DEF ExportSQL
<1>14. CASE ExportFails
  BY <1>0, <1>14, ReturnTyped DEF ExportFails, TypeOK, Outside
<1>15. CASE Abort
  BY <1>0, <1>15, ReturnTyped DEF Abort, TypeOK, Outside
<1>16. CASE StartImport
  <2>1. importing' \in 0..Len(Parts)
    BY <1>16 DEF StartImport, Parts
  <2>2. SeederOK'
    BY <1>0, <1>16 DEF StartImport, SeederOK
  <2> QED
    BY <1>0, <1>16, <2>1, <2>2 DEF StartImport, TypeOK
<1>17. CASE ImportPart
  <2>1. TablesOK(db)' /\ (file' # None => TablesOK(file)') /\ importing' \in 0..Len(Parts)
    BY <1>17, ImportTyped DEF Inv
  <2>2. UNCHANGED <<count, seeder, memory, visits, requests>>
    BY <1>17 DEF ImportPart
  <2>3. mishaps' \subseteq mishaps \cup {"name taken"}
    BY <1>17 DEF ImportPart
  <2>4. SeederOK'
    BY <1>0, <2>2 DEF SeederOK
  <2> QED
    BY <1>0, <2>1, <2>2, <2>3, <2>4 DEF TypeOK
<1>18. CASE Register
  <2>1. PICK n \in Names : Visit /\ Insert("users", {<<0, n>>}) /\ UNCHANGED <<count, visits, mishaps>>
    BY <1>18 DEF Register
  <2>2. {<<0, n>>} \in SUBSET Users
    BY SeedingAssumption DEF Users
  <2>3. TablesOK(db)'
    BY <1>0, <2>1, <2>2, PlusUsers DEF Insert
  <2> QED
    BY <1>0, <2>1, <2>3, VisitTyped DEF TypeOK
<1>19. CASE Like
  <2>1. PICK u \in db["users"], t \in Present : /\ Visit /\ Insert("likes", {<<u, t>>})
      /\ count' = [count EXCEPT ![t] = @ + 1] /\ visits' = visits \cup {<<u, t>>} /\ UNCHANGED mishaps
    BY <1>19 DEF Like
  <2>2. <<u, t>> \in Users \X Targets /\ t \in Targets
    BY <1>0, IdsTyped DEF TablesOK, Present
  <2>3. TablesOK(db)'
    BY <1>0, <2>1, <2>2, PlusLikes DEF Insert
  <2>4. count' \in [Targets -> Nat]
    BY <1>0, <2>1, <2>2
  <2> QED
    BY <1>0, <2>1, <2>2, <2>3, <2>4, VisitTyped DEF TypeOK
<1>20. CASE Unlike
  <2>1. PICK u \in db["users"], t \in Present : /\ Visit /\ db' = [db EXCEPT !["likes"] = @ \ {<<u, t>>}]
      /\ count' = [count EXCEPT ![t] = IF @ > 0 THEN @ - 1 ELSE 0]
      /\ visits' = visits \cup {<<u, t>>} /\ UNCHANGED mishaps
    BY <1>20 DEF Unlike
  <2>2. <<u, t>> \in Users \X Targets /\ t \in Targets
    BY <1>0, IdsTyped DEF TablesOK, Present
  <2>3. TablesOK(db)'
    BY <1>0, <2>1 DEF TablesOK, Tables
  <2>4. count' \in [Targets -> Nat]
    BY <1>0, <2>1, <2>2
  <2> QED
    BY <1>0, <2>1, <2>2, <2>3, <2>4, VisitTyped DEF TypeOK
<1>21. CASE DeletePost
  <2>1. PICK post \in db["posts"] :
      /\ Visit /\ Keep(Without(db, post)) /\ UNCHANGED visits
      /\ mishaps' = IF importing > 0 THEN mishaps \cup {"deleted"} ELSE mishaps
    BY <1>21 DEF DeletePost, Without
  <2>2. TablesOK(db)' /\ count' \in [Targets -> Nat]
    BY <1>0, <2>1, WithoutTyped, KeepTyped DEF Keep
  <2> QED
    BY <1>0, <2>1, <2>2, VisitTyped DEF TypeOK
<1>22. CASE UNCHANGED vars
  BY <1>0, <1>22 DEF TypeOK, SeederOK, vars
<1> QED
  BY <1>1, <1>2, <1>3, <1>4, <1>5, <1>6, <1>7, <1>8, <1>9, <1>10, <1>11, <1>12, <1>13, <1>14, <1>15, <1>16,
     <1>17, <1>18, <1>19, <1>20, <1>21, <1>22 DEF Next

-----------------------------------------------------------------------------
(* Control *)

\* A step from one insertion to the next.
LEMMA ControlGoesOn ==
  ASSUME SeederOK, Control, Filling, UNCHANGED Outside, seeder'.run = seeder.run,
         seeder'.at \in {"users", "cards", "posts", "post_media", "comments", "likes", "increment", "follows"},
         seeder'.pair # None <=> seeder'.at = "increment"
  PROVE  Control' /\ Filling'
<1>1. UNCHANGED <<file, importing, mishaps>>
  BY DEF Outside
<1>2. Running /\ Running' /\ Filling'
  BY DEF Filling, Running
<1>3. importing > 0 => FALSE
  BY <1>2 DEF Control
<1>4. mishaps = {} /\ seeder.run > 0
  BY <1>2 DEF Control
<1> QED
  BY <1>1, <1>2, <1>3, <1>4 DEF Control

\* Run ends: nothing is said of the mishaps any more.
LEMMA ControlReturns ==
  ASSUME SeederOK, Control, Running, NEW at \in {"done", "failed"}, Return(at),
         at = "done" => seeder.at = "follows", UNCHANGED <<importing, mishaps>>
  PROVE  Control' /\ ~Running'
<1>1. importing > 0 => FALSE
  BY DEF Control
<1>2. seeder'.at = at /\ seeder'.pair = seeder.pair /\ ~Running' /\ ~Filling'
  BY DEF Return, SeederOK, Running, Filling
<1> QED
  BY <1>1, <1>2 DEF Control

\* Visitors who meet no import.
LEMMA ControlStays ==
  ASSUME Control, UNCHANGED <<seeder, memory, file, importing, mishaps>>
  PROVE  Control'
BY DEF Control, Running, Filling

\* Every step keeps Control.
LEMMA ControlNext ==
  ASSUME Inv, [Next]_vars
  PROVE  Control'
<1>0. TypeOK /\ SeederOK /\ Control /\ TablesOK(memory)
  BY DEF Inv, TypeOK
<1>00. seeder.at \in {"users", "cards", "posts", "post_media", "comments", "likes", "increment", "follows"} => Running /\ Filling
  BY DEF Running, Filling
<1>01. Running /\ seeder.at \notin {"increment", "failed"} => seeder.pair = None
  BY <1>0 DEF Control
<1>1. CASE Run
  <2>1. /\ seeder'.at = "truncate" /\ seeder'.left = 1..6 /\ seeder'.pair = None
        /\ seeder'.run = seeder.run + 1
        /\ memory' = Empty /\ mishaps' = mishaps \cup {"truncating"} /\ importing' = 0
    BY <1>1 DEF Run, Order
  <2>2. seeder.run \in Nat
    BY <1>0, SeedingAssumption DEF SeederOK
  <2>4. ~(importing' > 0) /\ ~Filling' /\ Running'
    BY <2>1 DEF Filling, Running
  <2>5. {"name taken", "deleted"} \cap mishaps' # {} => "import" \in mishaps'
    BY <1>0, <2>1 DEF Control
  <2>6. seeder'.run > 0
    BY <2>1, <2>2
  <2>7. \E k \in 1..6 : seeder'.left = k..6
    <3>1. 1 \in 1..6
      OBVIOUS
    <3> QED
      BY <2>1, <3>1
  <2> QED
    BY <2>1, <2>4, <2>5, <2>6, <2>7 DEF Control
<1>2. CASE truncateAll
  <2> DEFINE i == CHOOSE i \in seeder.left : \A j \in seeder.left : i <= j
  <2>1. PICK k \in 1..6 : seeder.left = k..6
    BY <1>0, <1>2 DEF truncateAll, Control
  <2>2. i = k
    BY <2>1
  <2>3. /\ IF seeder.left = {i} THEN Go("users", Names) ELSE Go("truncate", seeder.left \ {i})
        /\ mishaps' = IF seeder.left = {i} THEN {} ELSE mishaps
        /\ UNCHANGED <<memory, file, importing>> /\ seeder.at = "truncate"
    BY <1>2 DEF truncateAll
  <2>4. importing > 0 => FALSE
    BY <1>0, <2>3 DEF Control, Running
  <2> HIDE DEF i
  <2>5. CASE seeder.left = {i}
    <3>1. Go("users", Names) /\ mishaps' = {}
      BY <2>3, <2>5
    <3>2. seeder'.at = "users" /\ seeder'.run = seeder.run /\ seeder'.pair = seeder.pair
      BY <1>0, <3>1 DEF Go, SeederOK
    <3> QED
      BY <1>0, <2>3, <2>4, <3>1, <3>2 DEF Control, Filling, Running
  <2>6. CASE seeder.left # {i}
    <3>1. Go("truncate", seeder.left \ {i}) /\ mishaps' = mishaps
      BY <2>3, <2>6
    <3>2. /\ seeder'.at = "truncate" /\ seeder'.run = seeder.run /\ seeder'.pair = seeder.pair
          /\ seeder'.left = seeder.left \ {i}
      BY <1>0, <3>1 DEF Go, SeederOK
    <3>3. k + 1 \in 1..6 /\ seeder'.left = (k + 1)..6
      BY <2>1, <2>2, <2>6, <3>2
    <3> QED
      BY <1>0, <2>3, <2>4, <3>1, <3>2, <3>3 DEF Control, Filling, Running
  <2> QED
    BY <2>5, <2>6
<1>3. CASE seedUsers
  <2>1. /\ seeder.at = "users" /\ UNCHANGED Outside
        /\ Go("cards", {}) \/ \E n : Go("users", seeder.left \ {n})
    BY <1>3 DEF seedUsers
  <2>2. seeder'.at \in {"users", "cards"} /\ seeder'.run = seeder.run /\ seeder'.pair = seeder.pair
    BY <1>0, <2>1 DEF Go, SeederOK
  <2> QED
    BY <1>0, <1>00, <1>01, <2>1, <2>2, ControlGoesOn
<1>4. CASE fetchCards
  <2>1. /\ seeder.at = "cards" /\ UNCHANGED Outside /\ seeder'.at = "posts"
        /\ seeder'.run = seeder.run /\ seeder'.pair = seeder.pair
    BY <1>0, <1>4 DEF fetchCards, Go, SeederOK
  <2> QED
    BY <1>0, <1>00, <1>01, <2>1, ControlGoesOn
<1>5. CASE CreatePost
  <2>1. /\ seeder.at = "posts" /\ UNCHANGED Outside /\ seeder'.at = "post_media"
        /\ seeder'.run = seeder.run /\ seeder'.pair = seeder.pair
    BY <1>0, <1>5 DEF CreatePost, SeederOK
  <2> QED
    BY <1>0, <1>00, <1>01, <2>1, ControlGoesOn
<1>6. CASE CreatePostMedia
  <2>1. /\ seeder.at = "post_media" /\ UNCHANGED Outside /\ seeder'.at \in {"posts", "comments"}
        /\ seeder'.run = seeder.run /\ seeder'.pair = seeder.pair
    BY <1>0, <1>6 DEF CreatePostMedia, SeederOK
  <2> QED
    BY <1>0, <1>00, <1>01, <2>1, ControlGoesOn
<1>7. CASE seedComments
  <2>1. seeder.at = "comments" /\ UNCHANGED <<seeder, Outside>>
    BY <1>7 DEF seedComments
  <2> QED
    BY <1>0, <1>00, <1>01, <2>1, ControlGoesOn
<1>8. CASE EnoughComments
  <2>1. /\ seeder.at = "comments" /\ UNCHANGED Outside
        /\ Go("likes", {}) \/ \E n : Go("comments", seeder.left \ {n})
    BY <1>8 DEF EnoughComments
  <2>2. seeder'.at \in {"likes", "comments"} /\ seeder'.run = seeder.run /\ seeder'.pair = seeder.pair
    BY <1>0, <2>1 DEF Go, SeederOK
  <2> QED
    BY <1>0, <1>00, <1>01, <2>1, <2>2, ControlGoesOn
<1>9. CASE AddLike
  <2>1. PICK u \in memory["users"], t \in PresentIn(memory) :
      /\ seeder.at = "likes"
      /\ seeder' = [seeder EXCEPT !.at = "increment", !.pair = <<u, t>>]
      /\ UNCHANGED Outside
    BY <1>9 DEF AddLike, PresentIn
  <2>2. <<u, t>> \in Users \X Targets
    BY <1>0, IdsTyped DEF TablesOK
  <2>3. seeder'.at = "increment" /\ seeder'.run = seeder.run /\ seeder'.pair # None
    BY <1>0, <2>1, <2>2, SeedingAssumption DEF SeederOK
  <2> QED
    BY <1>0, <1>00, <2>1, <2>3, ControlGoesOn
<1>10. CASE IncrementLikeCount
  <2>1. /\ seeder.at = "increment" /\ UNCHANGED Outside /\ seeder'.at = "likes"
        /\ seeder'.run = seeder.run /\ seeder'.pair = None
    BY <1>0, <1>10 DEF IncrementLikeCount, SeederOK
  <2> QED
    BY <1>0, <1>00, <2>1, ControlGoesOn
<1>11. CASE EnoughLikes
  <2>1. /\ seeder.at = "likes" /\ UNCHANGED Outside /\ seeder'.at = "follows"
        /\ seeder'.run = seeder.run /\ seeder'.pair = seeder.pair
    BY <1>0, <1>11 DEF EnoughLikes, Go, SeederOK
  <2> QED
    BY <1>0, <1>00, <1>01, <2>1, ControlGoesOn
<1>12. CASE seedFollows
  <2>1. seeder.at = "follows" /\ UNCHANGED <<seeder, Outside>>
    BY <1>12 DEF seedFollows
  <2> QED
    BY <1>0, <1>00, <1>01, <2>1, ControlGoesOn
<1>13. CASE ExportSQL
  BY <1>0, <1>00, <1>13, ControlReturns DEF ExportSQL
<1>14. CASE ExportFails
  BY <1>0, <1>00, <1>14, ControlReturns DEF ExportFails, Outside
<1>15. CASE Abort
  BY <1>0, <1>15, ControlReturns DEF Abort, Outside
<1>16. CASE StartImport
  BY <1>0, <1>16 DEF StartImport, Control, Running, Filling
<1>17. CASE ImportPart
  <2>1. /\ importing \in 1..6 /\ file # None /\ "import" \in mishaps /\ ~Running
        /\ mishaps' = mishaps \/ mishaps' = mishaps \cup {"name taken"}
        /\ UNCHANGED <<seeder, memory>>
    BY <1>0, <1>17, ImportSteps DEF ImportPart, Control
  <2>2. /\ importing < 6 => importing' = importing + 1 /\ file' = file
        /\ importing = 6 => importing' = 0 /\ file' = None
    BY <1>17, ImportSteps
  <2>3. importing' > 0 => file' # None
    <3>1. CASE importing < 6
      BY <2>1, <2>2, <3>1
    <3>2. CASE importing = 6
      BY <2>2, <3>2
    <3>3. importing \in 1..6
      BY <1>17, ImportSteps
    <3> QED
      BY <3>1, <3>2, <3>3
  <2>4. "import" \in mishaps' /\ ~Running' /\ ~Filling'
    BY <2>1 DEF Running, Filling
  <2> QED
    BY <1>0, <2>1, <2>3, <2>4 DEF Control, Running, Filling
<1>18. CASE Register
  <2>1. UNCHANGED <<seeder, memory, file, importing, mishaps>>
    BY <1>18 DEF Register, Visit
  <2> QED
    BY <1>0, <2>1, ControlStays
<1>19. CASE Like
  <2>1. UNCHANGED <<seeder, memory, file, importing, mishaps>>
    BY <1>19 DEF Like, Visit
  <2> QED
    BY <1>0, <2>1, ControlStays
<1>20. CASE Unlike
  <2>1. UNCHANGED <<seeder, memory, file, importing, mishaps>>
    BY <1>20 DEF Unlike, Visit
  <2> QED
    BY <1>0, <2>1, ControlStays
<1>21. CASE DeletePost
  <2>1. /\ mishaps' = IF importing > 0 THEN mishaps \cup {"deleted"} ELSE mishaps
        /\ UNCHANGED <<seeder, memory, file, importing>>
    BY <1>21 DEF DeletePost, Visit
  <2>2. CASE importing > 0
    BY <1>0, <2>1, <2>2 DEF Control, Running, Filling
  <2>3. CASE ~(importing > 0)
    BY <1>0, <2>1, <2>3 DEF Control, Running, Filling
  <2> QED
    BY <2>2, <2>3
<1>22. CASE UNCHANGED vars
  BY <1>0, <1>22 DEF vars, Control, Running, Filling
<1> QED
  BY <1>1, <1>2, <1>3, <1>4, <1>5, <1>6, <1>7, <1>8, <1>9, <1>10, <1>11, <1>12, <1>13, <1>14, <1>15, <1>16,
     <1>17, <1>18, <1>19, <1>20, <1>21, <1>22 DEF Next

-----------------------------------------------------------------------------
(* What Run has collected *)

\* What each INSERT leaves of the tables that Gathered speaks of.
LEMMA PlusTables ==
  ASSUME NEW d, TablesOK(d), NEW rows
  PROVE  /\ LET e == Plus(d, "users", rows)
            IN  /\ e["users"] = d["users"] \cup rows /\ e["posts"] = d["posts"]
                /\ e["comments"] = d["comments"] /\ e["likes"] = d["likes"]
         /\ LET e == Plus(d, "posts", rows)
            IN  /\ e["posts"] = d["posts"] \cup rows /\ e["users"] = d["users"]
                /\ e["comments"] = d["comments"] /\ e["likes"] = d["likes"]
         /\ LET e == Plus(d, "post_media", rows)
            IN  /\ e["users"] = d["users"] /\ e["posts"] = d["posts"]
                /\ e["comments"] = d["comments"] /\ e["likes"] = d["likes"]
         /\ LET e == Plus(d, "comments", rows)
            IN  /\ e["comments"] = d["comments"] \cup rows /\ e["users"] = d["users"]
                /\ e["posts"] = d["posts"] /\ e["likes"] = d["likes"]
         /\ LET e == Plus(d, "likes", rows)
            IN  /\ e["likes"] = d["likes"] \cup rows /\ e["users"] = d["users"]
                /\ e["posts"] = d["posts"] /\ e["comments"] = d["comments"]
         /\ LET e == Plus(d, "follows", rows)
            IN  /\ e["users"] = d["users"] /\ e["posts"] = d["posts"]
                /\ e["comments"] = d["comments"] /\ e["likes"] = d["likes"]
BY DEF Plus, TablesOK, Tables

\* The seeder does nothing: the visitors must leave its rows alone.
LEMMA GatheredStays ==
  ASSUME Gathered, UNCHANGED <<seeder, memory>>, Filling => Collected'
  PROVE  Gathered'
<1>1. (Running' <=> Running) /\ (Filling' <=> Filling)
  BY DEF Running, Filling
<1>2. Stage'
  BY DEF Gathered, Stage
<1> QED
  BY <1>1, <1>2 DEF Gathered

\* When Run is over nothing is collected.
LEMMA GatheredReturns ==
  ASSUME SeederOK, TablesOK(memory), NEW at \in {"done", "failed"}, Return(at)
  PROVE  Gathered'
<1>1. seeder'.at = at /\ memory'["comments"] = {}
  BY DEF Return, SeederOK, Empty, Tables
<1> QED
  BY <1>1, FS_EmptySet DEF Gathered, Stage, Running, Filling

\* A post of this seeding with a title it has not used.
LEMMA CreatePostGathers ==
  ASSUME Inv, CreatePost, Filling, Filling'
  PROVE  Gathered'
<1>0. Gathered /\ Collected /\ Stage /\ WholeIn(memory) /\ TablesOK(db) /\ TablesOK(memory) /\ SeederOK
  BY DEF Inv, Gathered, TypeOK, Filling
<1>1. PICK t \in seeder.left, u \in memory["users"] :
    /\ seeder.at = "posts"
    /\ Insert("posts", {[id |-> <<seeder.run, t>>, user |-> u]})
    /\ Collect("posts", {[id |-> <<seeder.run, t>>, user |-> u]})
    /\ seeder' = [seeder EXCEPT !.at = "post_media", !.left = @ \ {t}, !.post = <<seeder.run, t>>]
  BY DEF CreatePost
<1> DEFINE post == [id |-> <<seeder.run, t>>, user |-> u]
<1>2. post \in [id : Posts, user : Users] /\ post.user = u /\ post.id = <<seeder.run, t>>
  <2>1. seeder.run \in 1..Seedings /\ t \in Titles
    <3>1. seeder.run > 0 /\ seeder.run \in 0..Seedings /\ t \in Titles
      BY <1>0, <1>1 DEF SeederOK, Inv, Control, Filling
    <3> QED
      BY <3>1, SeedingAssumption
  <2> QED
    BY <1>0, <2>1 DEF Posts, TablesOK
<1>3. /\ db' = Plus(db, "posts", {post}) /\ memory' = Plus(memory, "posts", {post})
      /\ seeder'.at = "post_media" /\ seeder'.left = seeder.left \ {t} /\ seeder'.post = post.id
      /\ seeder'.run = seeder.run
  BY <1>0, <1>1 DEF Insert, Collect, SeederOK
<1>4. seeder.left \subseteq seeder.left /\ \A v \in seeder.left \ {t} : <<seeder.run, v>> # post.id
  BY <1>2
<1> HIDE DEF post
<1>5. /\ db'["posts"] = db["posts"] \cup {post}
      /\ UNCHANGED <<db["users"], db["comments"], db["likes"]>>
      /\ memory'["posts"] = memory["posts"] \cup {post}
      /\ UNCHANGED <<memory["users"], memory["comments"]>>
  BY <1>0, <1>3, PlusTables
<1>6. WholeIn(memory)'
  BY <1>0, <1>2, <1>3, PlusPosts
<1>7. /\ Ids(db["posts"])' = Ids(db["posts"]) \cup {post.id}
      /\ Ids(memory["posts"])' = Ids(memory["posts"]) \cup {post.id}
      /\ UNCHANGED <<Ids(db["comments"]), Ids(memory["comments"])>>
  BY <1>5 DEF Ids
<1>8. PresentIn(memory) \subseteq PresentIn(memory)'
  BY <1>7 DEF PresentIn
<1>9. Numbered'
  BY <1>0, <1>5 DEF Collected, Numbered
<1>10. post.id[1] = seeder.run
  BY <1>2
<1>11. Collected'
  BY <1>0, <1>3, <1>5, <1>7, <1>8, <1>9, <1>10 DEF Collected
<1>12. Stage'
  BY <1>0, <1>1, <1>3, <1>4, <1>7 DEF Stage
<1> QED
  BY <1>0, <1>5, <1>6, <1>11, <1>12 DEF Gathered

\* A comment with the next number of its post.
LEMMA SeedCommentsGathers ==
  ASSUME Inv, seedComments, Filling, Filling'
  PROVE  Gathered'
<1>0. Gathered /\ Collected /\ Stage /\ WholeIn(memory) /\ TablesOK(db) /\ TablesOK(memory) /\ SeederOK
  BY DEF Inv, Gathered, TypeOK, Filling
<1>1. PICK p \in seeder.left, u \in memory["users"], parent \in Ids(memory["comments"]) \cup {None}, k \in Nat :
    LET comment == [id |-> <<p[1], p[2], k>>, post |-> p, user |-> u, parent |-> parent]
    IN  /\ seeder.at = "comments" /\ p \in Ids(db["posts"]) /\ parent \in Ids(db["comments"]) \cup {None}
        /\ comment \in CommentRows /\ comment.id \notin Ids(memory["comments"])
        /\ k = Cardinality({c \in memory["comments"] : c.post = p}) + 1
        /\ Insert("comments", {comment}) /\ Collect("comments", {comment})
        /\ UNCHANGED <<count, seeder, Outside>>
  BY CommentOf
<1> DEFINE comment == [id |-> <<p[1], p[2], k>>, post |-> p, user |-> u, parent |-> parent]
           C(q) == {c \in memory["comments"] : c.post = q}
           D(q) == {c \in memory'["comments"] : c.post = q}
<1>2. /\ seeder.at = "comments" /\ comment \in CommentRows /\ comment.id \notin Ids(memory["comments"])
      /\ k = Cardinality(C(p)) + 1 /\ UNCHANGED seeder
      /\ db' = Plus(db, "comments", {comment}) /\ memory' = Plus(memory, "comments", {comment})
      /\ comment.id[3] = k /\ comment.post = p /\ comment.user = u /\ comment.parent = parent
  BY <1>1 DEF Insert, Collect
<1>3. p \in Ids(memory["posts"])
  BY <1>0, <1>2 DEF Stage
<1> HIDE DEF comment
<1>4. /\ db'["comments"] = db["comments"] \cup {comment}
      /\ UNCHANGED <<db["users"], db["posts"], db["likes"]>>
      /\ memory'["comments"] = memory["comments"] \cup {comment}
      /\ UNCHANGED <<memory["users"], memory["posts"]>>
  BY <1>0, <1>2, PlusTables
<1>5. WholeIn(memory)'
  <2>1. Ids(memory["comments"]) \subseteq Ids(memory["comments"] \cup {comment})
    BY DEF Ids
  <2>2. {comment} \in SUBSET CommentRows
    BY <1>2
  <2> HIDE DEF C, D
  <2> QED
    BY <1>0, <1>2, <1>3, <2>1, <2>2, PlusComments
<1>6. /\ Ids(db["comments"])' = Ids(db["comments"]) \cup {comment.id}
      /\ Ids(memory["comments"])' = Ids(memory["comments"]) \cup {comment.id}
      /\ UNCHANGED <<Ids(db["posts"]), Ids(memory["posts"])>>
  BY <1>4 DEF Ids
<1>7. PresentIn(memory) \subseteq PresentIn(memory)'
  BY <1>6 DEF PresentIn
<1>8. IsFiniteSet(memory["comments"]) /\ IsFiniteSet(memory'["comments"])
  BY <1>0, <1>4, FS_AddElement DEF Gathered
<1>9. \A q : IsFiniteSet(C(q)) /\ IsFiniteSet(D(q))
  BY <1>8, FS_Subset
<1>10. \A q : Cardinality(C(q)) \in Nat /\ Cardinality(D(q)) \in Nat
  BY <1>9, FS_CardinalityType
<1>11. \A q : C(q) \subseteq D(q) /\ D(p) = C(p) \cup {comment} /\ comment \notin C(p)
  BY <1>2, <1>4 DEF Ids
<1>12. Numbered'
  <2> SUFFICES ASSUME NEW c \in memory'["comments"]
               PROVE  c.id[3] <= Cardinality(D(c.post))
    BY DEF Numbered
  <2>1. CASE c = comment
    <3> DEFINE X == C(p)
               Y == D(p)
    <3>0. IsFiniteSet(X) /\ Y = X \cup {comment} /\ comment \notin X
      BY <1>9, <1>11
    <3>1. Cardinality(Y) = Cardinality(X) + 1
      <4> HIDE DEF X, Y
      <4> QED
        BY <3>0, FS_AddElement
    <3> HIDE DEF C, D
    <3> QED
      BY <1>2, <1>10, <2>1, <3>1
  <2>2. CASE c # comment
    <3> DEFINE n == c.id[3]
               q == c.post
    <3>1. c \in memory["comments"]
      BY <1>4, <2>2
    <3>2. n <= Cardinality(C(q))
      BY <1>0, <3>1 DEF Collected, Numbered
    <3>3. n \in Nat
      <4>1. c.id \in CommentIds
        BY <1>0, <3>1 DEF TablesOK, CommentRows
      <4>2. Comments[c.id[1]] \in Nat /\ n \in 1..Comments[c.id[1]]
        BY <4>1, CommentIdOf, SeedingAssumption
      <4> QED
        BY <4>2
    <3>4. Cardinality(C(q)) <= Cardinality(D(q))
      <4> DEFINE X == C(q)
                 Y == D(q)
      <4>1. IsFiniteSet(Y) /\ X \in SUBSET Y
        BY <1>9, <1>11
      <4>2. Cardinality(X) <= Cardinality(Y)
        <5> HIDE DEF X, Y
        <5> QED
          BY <4>1, FS_Subset
      <4> QED
        BY <4>2
    <3> HIDE DEF C, D, n
    <3>5. n <= Cardinality(D(q))
      BY <1>10, <3>2, <3>3, <3>4
    <3> QED
      BY <3>5 DEF n
  <2> QED
    BY <2>1, <2>2
<1>13. Collected'
  BY <1>0, <1>2, <1>4, <1>6, <1>7, <1>12 DEF Collected
<1>14. Stage'
  BY <1>0, <1>2, <1>6 DEF Stage
<1> QED
  BY <1>5, <1>8, <1>13, <1>14 DEF Gathered

\* When users has been emptied all is empty.
LEMMA LastTruncation ==
  ASSUME TypeOK, Control, truncateAll, seeder'.at # "truncate"
  PROVE  seeder'.at = "users" /\ mishaps' = {} /\ visits' = {} /\ \A t \in Tables : db'[t] = {}
<1> DEFINE i == CHOOSE i \in seeder.left : \A j \in seeder.left : i <= j
<1>1. PICK k \in 1..6 : seeder.left = k..6
  BY DEF truncateAll, Control
<1>2. i = k
  BY <1>1
<1>3. /\ db' = [t \in Tables |-> IF t \in Cascade[Order[i]] THEN {} ELSE db[t]]
      /\ IF seeder.left = {i} THEN Go("users", Names) ELSE Go("truncate", seeder.left \ {i})
      /\ mishaps' = IF seeder.left = {i} THEN {} ELSE mishaps
      /\ visits' = IF seeder.left = {i} THEN {} ELSE visits
  BY DEF truncateAll, Keep
<1> HIDE DEF i
<1>4. SeederOK
  BY DEF TypeOK
<1>5. seeder.left = {i} /\ seeder'.at = "users"
  BY <1>3, <1>4 DEF Go, SeederOK
<1>6. i = 6
  <2>1. 6 \in k..6
    OBVIOUS
  <2> QED
    BY <1>1, <1>5, <2>1
<1>7. Cascade[Order[i]] = Tables
  BY <1>6 DEF Cascade, Order
<1> QED
  BY <1>3, <1>5, <1>7

\* Every step keeps Gathered.
LEMMA GatheredNext ==
  ASSUME Inv, [Next]_vars
  PROVE  Gathered'
<1>0. TypeOK /\ SeederOK /\ Control /\ Gathered /\ Stage /\ TablesOK(db) /\ TablesOK(memory)
  BY DEF Inv, TypeOK, Gathered
<1>00. seeder.at \in {"users", "cards", "posts", "post_media", "comments", "likes", "increment", "follows"} =>
         Filling /\ Collected /\ WholeIn(memory) /\ IsFiniteSet(memory["comments"])
  BY <1>0 DEF Running, Filling, Gathered
<1>1. CASE Run
  <2>1. seeder'.at = "truncate" /\ memory' = Empty
    BY <1>1 DEF Run
  <2> QED
    BY <2>1, EmptyOK, FS_EmptySet DEF Gathered, Filling, Stage, Tables
<1>2. CASE truncateAll
  <2>1. memory' = Empty /\ seeder.at = "truncate"
    BY <1>0, <1>2 DEF truncateAll, Control
  <2>2. /\ IsFiniteSet(memory'["comments"]) /\ WholeIn(memory)' /\ memory'["posts"] = {}
        /\ memory'["users"] = {} /\ memory'["comments"] = {}
    BY <2>1, EmptyOK, FS_EmptySet DEF Tables
  <2>3. CASE seeder'.at = "truncate"
    BY <2>2, <2>3 DEF Gathered, Filling, Stage
  <2>4. CASE seeder'.at # "truncate"
    <3>1. seeder'.at = "users" /\ \A t \in Tables : db'[t] = {}
      BY <1>0, <1>2, <2>4, LastTruncation
    <3>2. /\ db'["posts"] = {} /\ db'["comments"] = {} /\ db'["likes"] = {}
          /\ Ids({}) = {}
      BY <3>1 DEF Tables, Ids
    <3>3. Numbered'
      BY <2>2 DEF Numbered
    <3>4. Collected'
      BY <2>2, <3>2, <3>3 DEF Collected
    <3>5. Stage'
      BY <2>2, <3>1 DEF Stage
    <3> QED
      BY <2>2, <3>4, <3>5 DEF Gathered
  <2> QED
    BY <2>3, <2>4
<1>3. CASE seedUsers
  <2>1. PICK n \in seeder.left :
      /\ seeder.at = "users"
      /\ Insert("users", {<<seeder.run, n>>}) /\ Collect("users", {<<seeder.run, n>>})
      /\ IF seeder.left = {n} THEN Go("cards", {}) ELSE Go("users", seeder.left \ {n})
    BY <1>3 DEF seedUsers
  <2>2. seeder'.at \in {"users", "cards"} /\ seeder'.run = seeder.run
    BY <1>0, <2>1 DEF Go, SeederOK
  <2>3. {<<seeder.run, n>>} \in SUBSET Users
    BY <1>0, <2>1 DEF SeederOK, Users
  <2> DEFINE new == {<<seeder.run, n>>}
  <2>4. db' = Plus(db, "users", new) /\ memory' = Plus(memory, "users", new) /\ new \in SUBSET Users
    BY <2>1, <2>3 DEF Insert, Collect
  <2> HIDE DEF new
  <2>5. /\ db'["users"] = db["users"] \cup new /\ UNCHANGED <<db["posts"], db["comments"], db["likes"]>>
        /\ memory'["users"] = memory["users"] \cup new
        /\ UNCHANGED <<memory["posts"], memory["comments"]>>
    BY <1>0, <2>4, PlusTables
  <2>6. WholeIn(memory)'
    BY <1>0, <1>00, <2>1, <2>4, PlusUsers
  <2>7. Collected'
    BY <1>00, <2>1, <2>2, <2>5 DEF Collected, Numbered, PresentIn
  <2>8. Stage'
    BY <1>0, <2>1, <2>2, <2>5 DEF Stage
  <2> QED
    BY <1>00, <2>1, <2>5, <2>6, <2>7, <2>8 DEF Gathered
<1>4. CASE fetchCards
  <2>1. /\ seeder.at = "cards" /\ UNCHANGED <<db, memory>>
        /\ seeder'.at = "posts" /\ seeder'.run = seeder.run
    BY <1>0, <1>4 DEF fetchCards, Go, SeederOK
  <2>2. Ids(memory["posts"])' = {}
    BY <1>0, <2>1 DEF Stage, Ids
  <2>3. Collected'
    BY <1>00, <2>1 DEF Collected, Numbered
  <2>4. Stage'
    BY <2>1, <2>2 DEF Stage
  <2> QED
    BY <1>00, <2>1, <2>3, <2>4 DEF Gathered
<1>5. CASE CreatePost
  <2>1. Filling /\ Filling'
    BY <1>0, <1>00, <1>5 DEF CreatePost, Filling, Running, SeederOK
  <2> QED
    BY <1>5, <2>1, CreatePostGathers
<1>6. CASE CreatePostMedia
  <2> DEFINE new == {[id |-> seeder.post, post |-> seeder.post]}
  <2>1. /\ seeder.at = "post_media" /\ db' = Plus(db, "post_media", new)
        /\ memory' = Plus(memory, "post_media", new)
        /\ seeder'.run = seeder.run
        /\ \/ seeder'.at = "posts" /\ seeder'.left = seeder.left
           \/ seeder'.at = "comments" /\ seeder'.left = Ids(memory["posts"])
    BY <1>0, <1>6 DEF CreatePostMedia, Insert, Collect, SeederOK
  <2>2. seeder.post \in Ids(memory["posts"]) /\ Ids(memory["posts"]) \subseteq Posts
    BY <1>0, <2>1, IdsTyped DEF Stage
  <2>3. new \in SUBSET [id : Posts, post : Posts] /\ \A row \in new : row.post \in Ids(memory["posts"])
    BY <2>2
  <2> HIDE DEF new
  <2>4. UNCHANGED <<db["users"], db["posts"], db["comments"], db["likes"],
                    memory["users"], memory["posts"], memory["comments"]>>
    BY <1>0, <2>1, PlusTables
  <2>5. WholeIn(memory)'
    BY <1>0, <1>00, <2>1, <2>3, PlusMedia
  <2>6. Collected'
    BY <1>00, <2>1, <2>4 DEF Collected, Numbered, PresentIn
  <2>7. Stage'
    BY <1>0, <2>1, <2>4 DEF Stage
  <2> QED
    BY <1>00, <2>1, <2>4, <2>5, <2>6, <2>7 DEF Gathered
<1>7. CASE seedComments
  <2>1. Filling /\ Filling'
    BY <1>00, <1>7 DEF seedComments, Filling, Running
  <2> QED
    BY <1>7, <2>1, SeedCommentsGathers
<1>8. CASE EnoughComments
  <2>1. PICK p \in seeder.left :
      /\ seeder.at = "comments"
      /\ IF seeder.left = {p} THEN Go("likes", {}) ELSE Go("comments", seeder.left \ {p})
      /\ UNCHANGED <<db, memory>>
    BY <1>8 DEF EnoughComments
  <2>2. /\ seeder'.at \in {"likes", "comments"} /\ seeder'.left \subseteq seeder.left
        /\ seeder'.run = seeder.run
    BY <1>0, <2>1 DEF Go, SeederOK
  <2>3. Collected'
    BY <1>00, <2>1, <2>2 DEF Collected, Numbered
  <2>4. Stage'
    BY <1>0, <2>1, <2>2 DEF Stage
  <2> QED
    BY <1>00, <2>1, <2>3, <2>4 DEF Gathered
<1>9. CASE AddLike
  <2>1. PICK u \in memory["users"], t \in PresentIn(memory) :
      /\ seeder.at = "likes" /\ Insert("likes", {<<u, t>>})
      /\ seeder' = [seeder EXCEPT !.at = "increment", !.pair = <<u, t>>]
      /\ UNCHANGED memory
    BY <1>9 DEF AddLike, PresentIn
  <2>2. /\ seeder'.at = "increment" /\ seeder'.pair[1] = u /\ seeder'.pair[2] = t
        /\ seeder'.run = seeder.run
    BY <1>0, <2>1 DEF SeederOK
  <2>3. /\ db'["likes"] = db["likes"] \cup {<<u, t>>}
        /\ UNCHANGED <<db["users"], db["posts"], db["comments"]>>
    BY <1>0, <2>1, PlusTables DEF Insert
  <2>4. \A pair \in db'["likes"] : pair[2] \in PresentIn(memory)
    BY <1>00, <2>1, <2>3 DEF Collected
  <2>5. Collected'
    BY <1>00, <2>1, <2>2, <2>3, <2>4 DEF Collected, Numbered
  <2>6. Stage'
    BY <2>1, <2>2 DEF Stage
  <2> QED
    BY <1>00, <2>1, <2>5, <2>6 DEF Gathered
<1>10. CASE IncrementLikeCount
  <2>1. /\ seeder.at = "increment" /\ memory' = Plus(memory, "likes", {seeder.pair}) /\ UNCHANGED db
        /\ seeder'.at = "likes" /\ seeder'.run = seeder.run
    BY <1>0, <1>10 DEF IncrementLikeCount, Collect, SeederOK
  <2>2. seeder.pair \in Users \X Targets /\ seeder.pair[1] \in memory["users"]
    BY <1>0, <2>1 DEF Control, SeederOK, Stage
  <2>3. UNCHANGED <<memory["users"], memory["posts"], memory["comments"]>>
    BY <1>0, <2>1, PlusTables
  <2>4. WholeIn(memory)'
    BY <1>0, <1>00, <2>1, <2>2, PlusLikes
  <2>5. Collected'
    BY <1>00, <2>1, <2>3 DEF Collected, Numbered, PresentIn
  <2>6. Stage'
    BY <2>1 DEF Stage
  <2> QED
    BY <1>00, <2>1, <2>3, <2>4, <2>5, <2>6 DEF Gathered
<1>11. CASE EnoughLikes
  <2>1. /\ seeder.at = "likes" /\ seeder'.at = "follows" /\ seeder'.run = seeder.run
        /\ UNCHANGED <<db, memory>>
    BY <1>0, <1>11 DEF EnoughLikes, Go, SeederOK
  <2>2. Collected' /\ Stage'
    BY <1>00, <2>1 DEF Collected, Numbered, Stage
  <2> QED
    BY <1>00, <2>1, <2>2 DEF Gathered
<1>12. CASE seedFollows
  <2>1. PICK u \in memory["users"], v \in memory["users"] :
      /\ seeder.at = "follows"
      /\ Insert("follows", {<<u, v>>}) /\ Collect("follows", {<<u, v>>})
      /\ UNCHANGED seeder
    BY <1>12 DEF seedFollows
  <2>2. {<<u, v>>} \in SUBSET (Users \X Users) /\ \A pair \in {<<u, v>>} : {pair[1], pair[2]} \subseteq memory["users"]
    BY <1>0 DEF TablesOK
  <2>3. UNCHANGED <<db["users"], db["posts"], db["comments"], db["likes"],
                    memory["users"], memory["posts"], memory["comments"]>>
    BY <1>0, <2>1, PlusTables DEF Insert, Collect
  <2>4. WholeIn(memory)'
    BY <1>0, <1>00, <2>1, <2>2, PlusFollows DEF Collect
  <2>5. Collected' /\ Stage'
    BY <1>00, <2>1, <2>3 DEF Collected, Numbered, PresentIn, Stage
  <2> QED
    BY <1>00, <2>1, <2>3, <2>4, <2>5 DEF Gathered
<1>13. CASE ExportSQL
  BY <1>0, <1>13, GatheredReturns DEF ExportSQL
<1>14. CASE ExportFails
  BY <1>0, <1>14, GatheredReturns DEF ExportFails
<1>15. CASE Abort
  BY <1>0, <1>15, GatheredReturns DEF Abort
<1>16. CASE StartImport
  <2>1. ~Filling /\ UNCHANGED <<seeder, memory>>
    BY <1>16 DEF StartImport, Filling
  <2> QED
    BY <1>0, <2>1, GatheredStays
<1>17. CASE ImportPart
  <2>1. ~Filling /\ UNCHANGED <<seeder, memory>>
    BY <1>0, <1>17 DEF ImportPart, Filling, Control
  <2> QED
    BY <1>0, <2>1, GatheredStays
<1>18. CASE Register
  <2>1. PICK n \in Names : Insert("users", {<<0, n>>}) /\ UNCHANGED <<seeder, memory>>
    BY <1>18 DEF Register, Visit
  <2>2. db["users"] \subseteq db'["users"] /\ UNCHANGED <<db["posts"], db["comments"], db["likes"]>>
    BY <1>0, <2>1, PlusTables DEF Insert
  <2>3. Filling => Collected'
    BY <1>0, <2>1, <2>2 DEF Gathered, Collected, Numbered
  <2> QED
    BY <1>0, <2>1, <2>3, GatheredStays
<1>19. CASE Like
  <2>1. PICK u \in db["users"], t \in Present : Insert("likes", {<<u, t>>}) /\ UNCHANGED <<seeder, memory>>
    BY <1>19 DEF Like, Visit
  <2>2. /\ db'["likes"] = db["likes"] \cup {<<u, t>>}
        /\ UNCHANGED <<db["users"], db["posts"], db["comments"]>>
    BY <1>0, <2>1, PlusTables DEF Insert
  <2>3. ASSUME Filling PROVE Collected'
    <3>1. Collected
      BY <1>0, <2>3 DEF Gathered
    <3>2. t \in PresentIn(memory)
      BY <3>1 DEF Collected, Present, PresentIn
    <3>3. \A pair \in db'["likes"] : pair[2] \in PresentIn(memory)
      BY <2>2, <3>1, <3>2 DEF Collected
    <3> QED
      BY <2>1, <2>2, <3>1, <3>3 DEF Collected, Numbered
  <2> QED
    BY <1>0, <2>1, <2>3, GatheredStays
<1>20. CASE Unlike
  <2>1. PICK u, t : db' = [db EXCEPT !["likes"] = @ \ {<<u, t>>}] /\ UNCHANGED <<seeder, memory>>
    BY <1>20 DEF Unlike, Visit
  <2>2. db'["likes"] \subseteq db["likes"] /\ UNCHANGED <<db["users"], db["posts"], db["comments"]>>
    BY <1>0, <2>1 DEF TablesOK, Tables
  <2>3. Filling => Collected'
    BY <1>0, <2>1, <2>2 DEF Gathered, Collected, Numbered
  <2> QED
    BY <1>0, <2>1, <2>3, GatheredStays
<1>21. CASE DeletePost
  <2>1. PICK post : db' = Without(db, post) /\ UNCHANGED <<seeder, memory>>
    BY <1>21 DEF DeletePost, Visit, Without, Keep
  <2>2. /\ db'["posts"] \subseteq db["posts"] /\ db'["comments"] \subseteq db["comments"]
        /\ UNCHANGED <<db["users"], db["likes"]>>
    <3> DEFINE e == Without(db, post)
    <3>1. /\ e["posts"] \subseteq db["posts"] /\ e["comments"] \subseteq db["comments"]
          /\ e["users"] = db["users"] /\ e["likes"] = db["likes"]
      BY <1>0, WithoutIs
    <3>2. db' = e
      BY <2>1
    <3> HIDE DEF e
    <3> QED
      BY <3>1, <3>2
  <2>3. /\ Ids(db'["posts"]) \subseteq Ids(db["posts"])
        /\ Ids(db'["comments"]) \subseteq Ids(db["comments"])
    BY <2>2 DEF Ids
  <2>4. Filling => Collected'
    BY <1>0, <2>1, <2>2, <2>3 DEF Gathered, Collected, Numbered
  <2> QED
    BY <1>0, <2>1, <2>4, GatheredStays
<1>22. CASE UNCHANGED vars
  <2>1. UNCHANGED <<db, seeder, memory>>
    BY <1>22 DEF vars
  <2>2. Filling => Collected'
    BY <1>0, <2>1 DEF Gathered, Collected, Numbered
  <2> QED
    BY <1>0, <2>1, <2>2, GatheredStays
<1> QED
  BY <1>1, <1>2, <1>3, <1>4, <1>5, <1>6, <1>7, <1>8, <1>9, <1>10, <1>11, <1>12, <1>13, <1>14, <1>15, <1>16,
     <1>17, <1>18, <1>19, <1>20, <1>21, <1>22 DEF Next

-----------------------------------------------------------------------------
(* References *)

\* While Run is at work there is no import.
LEMMA ReferencesGoOn ==
  ASSUME TypeOK, Control, References, Running, UNCHANGED <<file, importing, mishaps>>,
         WholeIn(db) => WholeIn(db)'
  PROVE  References'
<1>1. importing' = 0
  <2>1. importing \in 0..Len(Parts) /\ ~(importing > 0)
    BY DEF Control, TypeOK
  <2>2. Len(Parts) = 6
    BY DEF Parts
  <2> QED
    BY <2>1, <2>2
<1>2. Unraced' <=> Unraced
  BY DEF Unraced
<1>3. ~(importing' > 1) /\ ~(importing' > 2)
  BY <1>1
<1> QED
  BY <1>2, <1>3 DEF References

\* Users are added, posts left alone.
LEMMA ReferencesStay ==
  ASSUME References, UNCHANGED <<file, importing, mishaps>>, WholeIn(db) => WholeIn(db)',
         db["users"] \subseteq db'["users"], UNCHANGED db["posts"]
  PROVE  References'
<1>1. Unraced' <=> Unraced
  BY DEF Unraced
<1> QED
  BY <1>1 DEF References

\* A TRUNCATE takes along what refers to its table.
LEMMA TruncationKeepsWhole ==
  ASSUME TypeOK, Control, truncateAll, WholeIn(db)
  PROVE  WholeIn(db)'
<1>0. TablesOK(db)
  BY DEF TypeOK
<1> DEFINE i == CHOOSE i \in seeder.left : \A j \in seeder.left : i <= j
<1>1. PICK k \in 1..6 : seeder.left = k..6
  BY DEF truncateAll, Control
<1>2. i = k
  BY <1>1
<1>3. db' = [t \in Tables |-> IF t \in Cascade[Order[i]] THEN {} ELSE db[t]]
  BY DEF truncateAll, Keep
<1> HIDE DEF i
<1>4. i = 1 \/ i = 2 \/ i = 3 \/ i = 4 \/ i = 5 \/ i = 6
  BY <1>2
<1>5. CASE i = 1
  <2>1. Cascade[Order[i]] = {"likes"}
    BY <1>5 DEF Order, Cascade
  <2> QED
    BY <1>3, <2>1 DEF Tables, WholeIn
<1>6. CASE i = 2
  <2>1. Cascade[Order[i]] = {"follows"}
    BY <1>6 DEF Order, Cascade
  <2> QED
    BY <1>3, <2>1 DEF Tables, WholeIn
<1>7. CASE i = 3
  <2>1. Cascade[Order[i]] = {"comments"}
    BY <1>7 DEF Order, Cascade
  <2> QED
    BY <1>3, <2>1 DEF Tables, WholeIn
<1>8. CASE i = 4
  <2>1. Cascade[Order[i]] = {"post_media"}
    BY <1>8 DEF Order, Cascade
  <2> QED
    BY <1>3, <2>1 DEF Tables, WholeIn
<1>9. CASE i = 5
  <2>1. Cascade[Order[i]] = {"posts", "post_media", "comments"}
    BY <1>9 DEF Order, Cascade
  <2> QED
    BY <1>3, <2>1 DEF Tables, WholeIn
<1>10. CASE i = 6
  <2>1. Cascade[Order[i]] = Tables
    BY <1>10 DEF Order, Cascade
  <2> QED
    BY <1>3, <2>1 DEF Tables, WholeIn
<1> QED
  BY <1>4, <1>5, <1>6, <1>7, <1>8, <1>9, <1>10

\* A reply to a comment of another post would be left without its parent.
LEMMA WithoutWhole ==
  ASSUME NEW d, TablesOK(d), WholeIn(d), NEW post \in d["posts"]
  PROVE  WholeIn(Without(d, post))
<1> DEFINE e == Without(d, post)
           p == post.id
<1>1. /\ e["users"] = d["users"] /\ e["posts"] = d["posts"] \ {post}
      /\ e["post_media"] = {m \in d["post_media"] : m.post # p}
      /\ e["comments"] = {c \in d["comments"] : c.post # p}
      /\ e["likes"] = d["likes"] /\ e["follows"] = d["follows"]
  BY WithoutIs
<1> HIDE DEF e
<1>2. \A q \in Ids(d["posts"]) : q # p => q \in Ids(e["posts"])
  BY <1>1 DEF Ids
<1>3. ASSUME NEW c \in e["comments"], c.parent # None PROVE c.parent \in Ids(e["comments"])
  <2>1. PICK a \in d["comments"] : a.id = c.parent
    BY <1>1, <1>3 DEF WholeIn, Ids
  <2>2. a.post = PostOf(a.id) /\ c.post = PostOf(c.parent) /\ c.post # p
    BY <1>1, <1>3 DEF TablesOK, CommentRows
  <2> QED
    BY <1>1, <2>1, <2>2 DEF Ids
<1>4. WholeIn(e)
  BY <1>1, <1>2, <1>3 DEF WholeIn
<1> QED
  BY <1>4 DEF e

\* An import brings back users before what refers to them, and posts before their
\* media and comments: unless a name was taken all of them refer to rows there.
LEMMA ImportReferences ==
  ASSUME Inv, ImportPart
  PROVE  References'
<1>0. References /\ TablesOK(db) /\ TablesOK(file) /\ file # None /\ WholeIn(file) /\ importing \in 1..6
  BY ImportSteps DEF Inv, TypeOK, References
<1>1. file' # None => WholeIn(file)'
  <2>1. /\ importing < 6 => importing' = importing + 1 /\ file' = file
        /\ importing = 6 => importing' = 0 /\ file' = None
    BY ImportSteps
  <2>2. importing \in 1..6
    BY ImportSteps
  <2>3. file' = file \/ file' = None
    BY <2>1, <2>2
  <2> QED
    BY <1>0, <2>3
<1>2. ASSUME Unraced'
      PROVE  /\ WholeIn(db)'
             /\ importing' > 1 => file'["users"] \subseteq db'["users"]
             /\ importing' > 2 => Ids(file'["posts"]) \subseteq Ids(db'["posts"])
  <2>0. mishaps \subseteq mishaps'
    BY DEF ImportPart
  <2>1. Unraced
    BY <1>2, <2>0 DEF Unraced
  <2>2. /\ WholeIn(db)
        /\ importing > 1 => file["users"] \subseteq db["users"]
        /\ importing > 2 => Ids(file["posts"]) \subseteq Ids(db["posts"])
    BY <1>0, <2>1 DEF References
  <2>3. CASE importing = 1
    <3>0. importing' = 2 /\ file' = file
      <4>1. importing < 6 => importing' = importing + 1 /\ file' = file
        BY ImportSteps
      <4> QED
        BY <2>3, <4>1
    <3>1. db' = Plus(db, "users", file["users"]) /\ importing' = 2 /\ file' = file
      <4>1. \/ mishaps' = mishaps \cup {"name taken"}
            \/ Insert("users", file["users"])
        BY <2>3, ImportSteps
      <4>2. "name taken" \notin mishaps'
        BY <1>2 DEF Unraced
      <4> QED
        BY <3>0, <4>1, <4>2 DEF Insert
    <3>2. file["users"] \in SUBSET Users
      BY <1>0 DEF TablesOK
    <3>3. WholeIn(db)'
      BY <1>0, <2>2, <3>1, <3>2, PlusUsers
    <3>4. db'["users"] = db["users"] \cup file["users"]
      BY <1>0, <3>1, PlusTables
    <3> QED
      BY <3>1, <3>3, <3>4
  <2>4. CASE importing = 2
    <3>1. PICK rows \in SUBSET file["posts"] :
            Insert("posts", rows) /\ Ids(file["posts"]) \subseteq Ids(rows) \cup Ids(db["posts"])
      BY <2>4, ImportSteps
    <3>2. importing' = 3 /\ file' = file /\ db' = Plus(db, "posts", rows)
      BY <2>4, <3>1, ImportSteps DEF Insert
    <3>3. file["users"] \subseteq db["users"]
      BY <2>2, <2>4
    <3>4. rows \in SUBSET [id : Posts, user : Users] /\ \A row \in rows : row.user \in db["users"]
      BY <1>0, <3>3 DEF TablesOK, WholeIn
    <3>5. WholeIn(db)'
      BY <1>0, <2>2, <3>2, <3>4, PlusPosts
    <3>6. db'["posts"] = db["posts"] \cup rows /\ db'["users"] = db["users"]
      BY <1>0, <3>2, PlusTables
    <3>7. Ids(db'["posts"]) = Ids(db["posts"]) \cup Ids(rows)
      BY <3>6 DEF Ids
    <3> QED
      BY <3>1, <3>2, <3>3, <3>5, <3>6, <3>7
  <2>5. CASE importing = 3
    <3>1. PICK rows \in SUBSET file["post_media"] : Insert("post_media", rows)
      BY <2>5, ImportSteps
    <3>2. importing' = 4 /\ file' = file /\ db' = Plus(db, "post_media", rows)
      BY <2>5, <3>1, ImportSteps DEF Insert
    <3>3. file["users"] \subseteq db["users"] /\ Ids(file["posts"]) \subseteq Ids(db["posts"])
      BY <2>2, <2>5
    <3>4. rows \in SUBSET [id : Posts, post : Posts] /\ \A row \in rows : row.post \in Ids(db["posts"])
      BY <1>0, <3>3 DEF TablesOK, WholeIn
    <3>5. WholeIn(db)'
      BY <1>0, <2>2, <3>2, <3>4, PlusMedia
    <3>6. db'["posts"] = db["posts"] /\ db'["users"] = db["users"]
      BY <1>0, <3>2, PlusTables
    <3> QED
      BY <3>2, <3>3, <3>5, <3>6
  <2>6. CASE importing = 4
    <3>1. PICK rows \in SUBSET file["comments"] :
            Insert("comments", rows) /\ Ids(file["comments"]) \subseteq Ids(rows) \cup Ids(db["comments"])
      BY <2>6, ImportSteps
    <3>2. importing' = 5 /\ file' = file /\ db' = Plus(db, "comments", rows)
      BY <2>6, <3>1, ImportSteps DEF Insert
    <3>3. file["users"] \subseteq db["users"] /\ Ids(file["posts"]) \subseteq Ids(db["posts"])
      BY <2>2, <2>6
    <3>4. Ids(rows) \cup Ids(db["comments"]) = Ids(db["comments"] \cup rows)
      BY DEF Ids
    <3>5. /\ rows \in SUBSET CommentRows
          /\ \A row \in rows : /\ row.user \in db["users"] /\ row.post \in Ids(db["posts"])
                               /\ row.parent # None => row.parent \in Ids(db["comments"] \cup rows)
      BY <1>0, <3>1, <3>3, <3>4 DEF TablesOK, WholeIn
    <3>6. WholeIn(db)'
      BY <1>0, <2>2, <3>2, <3>5, PlusComments
    <3>7. db'["posts"] = db["posts"] /\ db'["users"] = db["users"]
      BY <1>0, <3>2, PlusTables
    <3> QED
      BY <3>2, <3>3, <3>6, <3>7
  <2>7. CASE importing = 5
    <3>1. importing' = 6 /\ file' = file /\ db' = Plus(db, "likes", file["likes"])
      BY <2>7, ImportSteps DEF Insert
    <3>2. file["users"] \subseteq db["users"] /\ Ids(file["posts"]) \subseteq Ids(db["posts"])
      BY <2>2, <2>7
    <3>3. file["likes"] \in SUBSET (Users \X Targets) /\ \A pair \in file["likes"] : pair[1] \in db["users"]
      BY <1>0, <3>2 DEF TablesOK, WholeIn
    <3>4. WholeIn(db)'
      BY <1>0, <2>2, <3>1, <3>3, PlusLikes
    <3>5. db'["posts"] = db["posts"] /\ db'["users"] = db["users"]
      BY <1>0, <3>1, PlusTables
    <3> QED
      BY <3>1, <3>2, <3>4, <3>5
  <2>8. CASE importing = 6
    <3>1. importing' = 0 /\ db' = Plus(db, "follows", file["follows"])
      BY <2>8, ImportSteps DEF Insert
    <3>2. file["users"] \subseteq db["users"]
      BY <2>2, <2>8
    <3>3. /\ file["follows"] \in SUBSET (Users \X Users)
          /\ \A pair \in file["follows"] : {pair[1], pair[2]} \subseteq db["users"]
      BY <1>0, <3>2 DEF TablesOK, WholeIn
    <3>4. WholeIn(db)'
      BY <1>0, <2>2, <3>1, <3>3, PlusFollows
    <3> QED
      BY <3>1, <3>4
  <2>9. importing = 1 \/ importing = 2 \/ importing = 3 \/ importing = 4 \/ importing = 5 \/ importing = 6
    <3>1. importing \in 1..6
      BY ImportSteps
    <3> QED
      BY <3>1
  <2> QED
    BY <2>3, <2>4, <2>5, <2>6, <2>7, <2>8, <2>9
<1> QED
  BY <1>1, <1>2 DEF References

\* Every step keeps References.
LEMMA ReferencesNext ==
  ASSUME Inv, [Next]_vars
  PROVE  References'
<1>0. /\ TypeOK /\ SeederOK /\ Control /\ Gathered /\ Stage /\ References
      /\ TablesOK(db) /\ TablesOK(memory)
  BY DEF Inv, TypeOK, Gathered
<1>00. seeder.at \in {"users", "cards", "posts", "post_media", "comments", "likes", "increment", "follows"} =>
         Running /\ Filling /\ Collected /\ WholeIn(memory) /\ memory["users"] \subseteq db["users"]
  BY <1>0 DEF Running, Filling, Gathered, Collected
<1>1. CASE Run
  <2>1. UNCHANGED <<db, file, importing>> /\ mishaps' = mishaps \cup {"truncating"}
    BY <1>1 DEF Run
  <2>2. Unraced' <=> Unraced
    BY <2>1 DEF Unraced
  <2> QED
    BY <1>0, <2>1, <2>2 DEF References
<1>2. CASE truncateAll
  <2>1. UNCHANGED <<file, importing>> /\ Running
    BY <1>2 DEF truncateAll, Running
  <2>2. CASE seeder'.at # "truncate"
    <3>1. \A t \in Tables : db'[t] = {}
      BY <1>0, <1>2, <2>2, LastTruncation
    <3>2. WholeIn(db)'
      BY <3>1 DEF Tables, WholeIn
    <3>3. ~(importing > 0)
      BY <1>0, <2>1 DEF Control
    <3>4. importing \in 0..6
      BY <1>0 DEF TypeOK, Parts
    <3>5. ~(importing' > 1) /\ ~(importing' > 2)
      BY <2>1, <3>3, <3>4
    <3> QED
      BY <1>0, <2>1, <3>2, <3>5 DEF References
  <2>3. CASE seeder'.at = "truncate"
    <3>1. mishaps' = mishaps
      BY <1>0, <1>2, <2>3 DEF truncateAll, Go, SeederOK
    <3>2. WholeIn(db) => WholeIn(db)'
      BY <1>0, <1>2, TruncationKeepsWhole
    <3> QED
      BY <1>0, <2>1, <3>1, <3>2, ReferencesGoOn
  <2> QED
    BY <2>2, <2>3
<1>3. CASE seedUsers
  <2>1. PICK n \in seeder.left : seeder.at = "users" /\ Insert("users", {<<seeder.run, n>>}) /\ UNCHANGED Outside
    BY <1>3 DEF seedUsers
  <2>2. {<<seeder.run, n>>} \in SUBSET Users
    BY <1>0, <2>1 DEF SeederOK, Users
  <2>3. WholeIn(db) => WholeIn(db)'
    BY <1>0, <2>1, <2>2, PlusUsers DEF Insert
  <2> QED
    BY <1>0, <1>00, <2>1, <2>3, ReferencesGoOn DEF Outside
<1>4. CASE fetchCards
  <2>1. Running /\ UNCHANGED <<db, file, importing, mishaps>>
    BY <1>00, <1>4 DEF fetchCards, Outside
  <2> QED
    BY <1>0, <2>1, ReferencesGoOn
<1>5. CASE CreatePost
  <2>1. PICK t \in seeder.left, u \in memory["users"] :
      /\ seeder.at = "posts" /\ UNCHANGED Outside
      /\ Insert("posts", {[id |-> <<seeder.run, t>>, user |-> u]})
    BY <1>5 DEF CreatePost
  <2> DEFINE post == [id |-> <<seeder.run, t>>, user |-> u]
  <2>2. post \in [id : Posts, user : Users] /\ post.user \in db["users"]
    <3>1. seeder.run > 0 /\ seeder.run \in 0..Seedings /\ t \in Titles
      BY <1>0, <1>00, <2>1 DEF SeederOK, Control
    <3>2. seeder.run \in 1..Seedings
      BY <3>1, SeedingAssumption
    <3> QED
      BY <1>0, <1>00, <2>1, <3>1, <3>2 DEF Posts, TablesOK
  <2>3. db' = Plus(db, "posts", {post})
    BY <2>1 DEF Insert
  <2> HIDE DEF post
  <2>4. WholeIn(db) => WholeIn(db)'
    BY <1>0, <2>2, <2>3, PlusPosts
  <2> QED
    BY <1>0, <1>00, <2>1, <2>4, ReferencesGoOn DEF Outside
<1>6. CASE CreatePostMedia
  <2> DEFINE new == {[id |-> seeder.post, post |-> seeder.post]}
  <2>1. /\ seeder.at = "post_media" /\ seeder.post \in Ids(db["posts"]) /\ UNCHANGED Outside
        /\ db' = Plus(db, "post_media", new)
    BY <1>6 DEF CreatePostMedia, Insert
  <2>2. new \in SUBSET [id : Posts, post : Posts] /\ \A row \in new : row.post \in Ids(db["posts"])
    BY <1>0, <2>1, IdsTyped
  <2> HIDE DEF new
  <2>3. WholeIn(db) => WholeIn(db)'
    BY <1>0, <2>1, <2>2, PlusMedia
  <2> QED
    BY <1>0, <1>00, <2>1, <2>3, ReferencesGoOn DEF Outside
<1>7. CASE seedComments
  <2>1. PICK comment \in CommentRows :
      /\ seeder.at = "comments" /\ UNCHANGED <<seeder, Outside>>
      /\ comment.post \in Ids(db["posts"]) /\ comment.user \in memory["users"]
      /\ comment.parent \in Ids(db["comments"]) \cup {None}
      /\ Insert("comments", {comment})
    BY <1>7, CommentOf
  <2>2. \A row \in {comment} : /\ row.user \in db["users"] /\ row.post \in Ids(db["posts"])
                               /\ row.parent # None => row.parent \in Ids(db["comments"] \cup {comment})
    BY <1>00, <2>1 DEF Ids
  <2>3. WholeIn(db) => WholeIn(db)'
    BY <1>0, <2>1, <2>2, PlusComments DEF Insert
  <2> QED
    BY <1>0, <1>00, <2>1, <2>3, ReferencesGoOn DEF Outside
<1>8. CASE EnoughComments
  <2>1. Running /\ UNCHANGED <<db, file, importing, mishaps>>
    BY <1>00, <1>8 DEF EnoughComments, Outside
  <2> QED
    BY <1>0, <2>1, ReferencesGoOn
<1>9. CASE AddLike
  <2>1. PICK u \in memory["users"], t \in PresentIn(memory) :
      seeder.at = "likes" /\ Insert("likes", {<<u, t>>}) /\ UNCHANGED Outside
    BY <1>9 DEF AddLike, PresentIn
  <2>2. {<<u, t>>} \in SUBSET (Users \X Targets) /\ \A pair \in {<<u, t>>} : pair[1] \in db["users"]
    <3>1. u \in db["users"]
      BY <1>00, <2>1
    <3>2. <<u, t>> \in Users \X Targets
      BY <1>0, IdsTyped DEF TablesOK
    <3> QED
      BY <3>1, <3>2
  <2>3. WholeIn(db) => WholeIn(db)'
    BY <1>0, <2>1, <2>2, PlusLikes DEF Insert
  <2> QED
    BY <1>0, <1>00, <2>1, <2>3, ReferencesGoOn DEF Outside
<1>10. CASE IncrementLikeCount
  <2>1. Running /\ UNCHANGED <<db, file, importing, mishaps>>
    BY <1>00, <1>10 DEF IncrementLikeCount, Outside
  <2> QED
    BY <1>0, <2>1, ReferencesGoOn
<1>11. CASE EnoughLikes
  <2>1. Running /\ UNCHANGED <<db, file, importing, mishaps>>
    BY <1>00, <1>11 DEF EnoughLikes, Outside
  <2> QED
    BY <1>0, <2>1, ReferencesGoOn
<1>12. CASE seedFollows
  <2>1. PICK u \in memory["users"], v \in memory["users"] :
      seeder.at = "follows" /\ Insert("follows", {<<u, v>>}) /\ UNCHANGED Outside
    BY <1>12 DEF seedFollows
  <2>2. {<<u, v>>} \in SUBSET (Users \X Users) /\ \A pair \in {<<u, v>>} : {pair[1], pair[2]} \subseteq db["users"]
    BY <1>0, <1>00, <2>1 DEF TablesOK
  <2>3. WholeIn(db) => WholeIn(db)'
    BY <1>0, <2>1, <2>2, PlusFollows DEF Insert
  <2> QED
    BY <1>0, <1>00, <2>1, <2>3, ReferencesGoOn DEF Outside
<1>13. CASE ExportSQL
  <2>1. file' = memory /\ WholeIn(memory) /\ Running /\ UNCHANGED <<db, importing, mishaps>>
    BY <1>00, <1>13 DEF ExportSQL
  <2>2. importing \in 0..6 /\ ~(importing > 0)
    BY <1>0, <2>1 DEF TypeOK, Control, Parts
  <2>3. ~(importing' > 1) /\ ~(importing' > 2)
    BY <2>1, <2>2
  <2>4. Unraced' <=> Unraced
    BY <2>1 DEF Unraced
  <2> QED
    BY <1>0, <2>1, <2>3, <2>4 DEF References
<1>14. CASE ExportFails
  <2>1. Running /\ UNCHANGED <<db, file, importing, mishaps>>
    BY <1>00, <1>14 DEF ExportFails, Outside
  <2> QED
    BY <1>0, <2>1, ReferencesGoOn
<1>15. CASE Abort
  <2>1. Running /\ UNCHANGED <<db, file, importing, mishaps>>
    BY <1>15 DEF Abort, Outside
  <2> QED
    BY <1>0, <2>1, ReferencesGoOn
<1>16. CASE StartImport
  <2>1. importing' = 1 /\ mishaps' = mishaps \cup {"import"} /\ UNCHANGED <<db, file>>
    BY <1>16 DEF StartImport
  <2>2. Unraced' <=> Unraced
    BY <2>1 DEF Unraced
  <2>3. ~(importing' > 1) /\ ~(importing' > 2)
    BY <2>1
  <2> QED
    BY <1>0, <2>1, <2>2, <2>3 DEF References
<1>17. CASE ImportPart
  BY <1>17, ImportReferences
<1>18. CASE Register
  <2>1. PICK n \in Names : Insert("users", {<<0, n>>}) /\ UNCHANGED <<file, importing, mishaps>>
    BY <1>18 DEF Register, Visit
  <2>2. {<<0, n>>} \in SUBSET Users
    BY SeedingAssumption DEF Users
  <2>3. WholeIn(db) => WholeIn(db)'
    BY <1>0, <2>1, <2>2, PlusUsers DEF Insert
  <2>4. db["users"] \subseteq db'["users"] /\ UNCHANGED db["posts"]
    BY <1>0, <2>1, PlusTables DEF Insert
  <2> QED
    BY <1>0, <2>1, <2>3, <2>4, ReferencesStay
<1>19. CASE Like
  <2>1. PICK u \in db["users"], t \in Present : Insert("likes", {<<u, t>>}) /\ UNCHANGED <<file, importing, mishaps>>
    BY <1>19 DEF Like, Visit
  <2>2. {<<u, t>>} \in SUBSET (Users \X Targets) /\ \A pair \in {<<u, t>>} : pair[1] \in db["users"]
    BY <1>0, <2>1, IdsTyped DEF TablesOK, Present
  <2>3. WholeIn(db) => WholeIn(db)'
    BY <1>0, <2>1, <2>2, PlusLikes DEF Insert
  <2>4. db["users"] \subseteq db'["users"] /\ UNCHANGED db["posts"]
    BY <1>0, <2>1, PlusTables DEF Insert
  <2> QED
    BY <1>0, <2>1, <2>3, <2>4, ReferencesStay
<1>20. CASE Unlike
  <2>1. PICK u, t : db' = [db EXCEPT !["likes"] = @ \ {<<u, t>>}] /\ UNCHANGED <<file, importing, mishaps>>
    BY <1>20 DEF Unlike, Visit
  <2>2. /\ db'["likes"] \subseteq db["likes"]
        /\ UNCHANGED <<db["users"], db["posts"], db["post_media"], db["comments"], db["follows"]>>
    BY <1>0, <2>1 DEF TablesOK, Tables
  <2>3. WholeIn(db) => WholeIn(db)'
    BY <2>2 DEF WholeIn
  <2> QED
    BY <1>0, <2>1, <2>2, <2>3, ReferencesStay
<1>21. CASE DeletePost
  <2>1. PICK post \in db["posts"] :
      /\ db' = Without(db, post) /\ UNCHANGED <<file, importing>>
      /\ mishaps' = IF importing > 0 THEN mishaps \cup {"deleted"} ELSE mishaps
    BY <1>21 DEF DeletePost, Visit, Without, Keep
  <2>2. CASE importing > 0
    <3>1. ~Unraced'
      BY <2>1, <2>2 DEF Unraced
    <3> QED
      BY <1>0, <2>1, <3>1 DEF References
  <2>3. CASE ~(importing > 0)
    <3>1. importing \in 0..6
      BY <1>0 DEF TypeOK, Parts
    <3>2. ~(importing' > 1) /\ ~(importing' > 2)
      BY <2>1, <2>3, <3>1
    <3>3. Unraced' <=> Unraced
      BY <2>1, <2>3 DEF Unraced
    <3>4. WholeIn(db) => WholeIn(db)'
      BY <1>0, <2>1, WithoutWhole
    <3> QED
      BY <1>0, <2>1, <3>2, <3>3, <3>4 DEF References
  <2> QED
    BY <2>2, <2>3
<1>22. CASE UNCHANGED vars
  <2>1. UNCHANGED <<db, file, importing, mishaps>>
    BY <1>22 DEF vars
  <2> QED
    BY <1>0, <2>1, ReferencesStay
<1> QED
  BY <1>1, <1>2, <1>3, <1>4, <1>5, <1>6, <1>7, <1>8, <1>9, <1>10, <1>11, <1>12, <1>13, <1>14, <1>15, <1>16,
     <1>17, <1>18, <1>19, <1>20, <1>21, <1>22 DEF Next

-----------------------------------------------------------------------------
(* like_count and the rows of likes *)

\* The parts of SeededLikesAddUp for the target t.
LikedBy(t) == {u \in db["users"] : <<u, t>> \in db["likes"]}
Twice(t) == {pair \in visits \cap (memory["likes"] \cup {seeder.pair}) : pair[2] = t}
Owed(t) == IF \E u \in db["users"] : seeder.pair = <<u, t>> THEN 1 ELSE 0
AddsUp(t) == count[t] - Cardinality(LikedBy(t)) + Owed(t) \in 0..Cardinality(Twice(t))

\* SeededLikesAddUp, target by target.
LEMMA AddUp ==
  /\ SeededLikesAddUp <=> (Clean => \A t \in Present : AddsUp(t))
  /\ SeededLikesAddUp' <=> (Clean' => \A t \in Present' : AddsUp(t)')
<1>1. SeededLikesAddUp <=> (Clean => \A t \in Present : AddsUp(t))
  BY DEF SeededLikesAddUp, Clean, AddsUp, LikedBy, Twice, Owed
<1>2. SeededLikesAddUp' <=> (Clean' => \A t \in Present' : AddsUp(t)')
  BY DEF SeededLikesAddUp, Clean, AddsUp, LikedBy, Twice, Owed
<1> QED
  BY <1>1, <1>2

\* The numbers it compares are natural numbers.
LEMMA Counts ==
  ASSUME TablesOK(db), IsFiniteSet(visits), NEW t
  PROVE  /\ IsFiniteSet(LikedBy(t)) /\ IsFiniteSet(Twice(t))
         /\ Cardinality(LikedBy(t)) \in Nat /\ Cardinality(Twice(t)) \in Nat
         /\ Owed(t) \in {0, 1}
<1>1. IsFiniteSet(Users) /\ LikedBy(t) \subseteq Users
  BY UsersFinite DEF LikedBy, TablesOK
<1>2. Twice(t) \subseteq visits
  BY DEF Twice
<1>3. IsFiniteSet(LikedBy(t)) /\ IsFiniteSet(Twice(t))
  BY <1>1, <1>2, FS_Subset
<1> QED
  BY <1>3, FS_CardinalityType DEF Owed

\* They are after a step.
LEMMA CountsNext ==
  ASSUME TablesOK(db)', IsFiniteSet(visits)', NEW t
  PROVE  /\ IsFiniteSet(LikedBy(t)') /\ IsFiniteSet(Twice(t)')
         /\ Cardinality(LikedBy(t)') \in Nat /\ Cardinality(Twice(t)') \in Nat
         /\ Owed(t)' \in {0, 1}
<1>1. IsFiniteSet(Users) /\ LikedBy(t)' \subseteq Users
  BY UsersFinite DEF LikedBy, TablesOK
<1>2. Twice(t)' \subseteq visits'
  BY DEF Twice
<1>3. IsFiniteSet(LikedBy(t)') /\ IsFiniteSet(Twice(t)')
  BY <1>1, <1>2, FS_Subset
<1> QED
  BY <1>3, FS_CardinalityType DEF Owed

\* What is counted again can only become more.
LEMMA TwiceGrows ==
  ASSUME TablesOK(db), IsFiniteSet(visits), TablesOK(db)', IsFiniteSet(visits)', NEW t,
         Twice(t) \subseteq Twice(t)'
  PROVE  Cardinality(Twice(t)) <= Cardinality(Twice(t)')
<1> DEFINE S == Twice(t)
           T == Twice(t)'
<1>1. IsFiniteSet(T) /\ S \in SUBSET T
  BY CountsNext
<1> HIDE DEF S, T
<1>2. Cardinality(S) <= Cardinality(T)
  BY <1>1, FS_Subset
<1> QED
  BY <1>2 DEF S, T

\* The sum stands when only the votes cast twice change, and grow.
LEMMA AddsUpStill ==
  ASSUME TypeOK, IsFiniteSet(visits), TypeOK', IsFiniteSet(visits)', NEW t \in Targets, AddsUp(t),
         count'[t] = count[t], LikedBy(t)' = LikedBy(t), Owed(t)' = Owed(t), Twice(t) \subseteq Twice(t)'
  PROVE  AddsUp(t)'
<1>1. TablesOK(db) /\ TablesOK(db)' /\ count[t] \in Nat
  BY DEF TypeOK
<1> DEFINE c == count[t]
           r == Cardinality(LikedBy(t))
           o == Owed(t)
           m == Cardinality(Twice(t))
           n == Cardinality(Twice(t)')
<1>2. c \in Nat /\ r \in Nat /\ o \in {0, 1} /\ m \in Nat
  BY <1>1, Counts
<1>3. n \in Nat
  BY <1>1, CountsNext
<1>4. m <= n
  BY <1>1, TwiceGrows
<1>5. c - r + o \in 0..m
  BY DEF AddsUp
<1>6. AddsUp(t)' <=> c - r + o \in 0..n
  BY DEF AddsUp
<1> HIDE DEF c, r, o, m, n
<1>7. c - r + o \in 0..n
  BY <1>2, <1>3, <1>4, <1>5
<1> QED
  BY <1>6, <1>7

\* As long as an import or a truncation is not over nothing is said.
LEMMA CountedUnclean ==
  ASSUME Counted, ~Clean', UNCHANGED <<count, visits>>, Present \subseteq Present'
  PROVE  Counted'
<1>1. \A t \in Targets \ Present' : count'[t] = 0
  BY DEF Counted
<1> QED
  BY <1>1, AddUp DEF Counted

\* Without an import the foreign keys were never off.
LEMMA CleanIsWhole ==
  ASSUME Inv, Clean
  PROVE  WholeIn(db) /\ \A pair \in db["likes"] : pair[1] \in db["users"]
<1>1. Unraced
  BY DEF Inv, Control, Clean, Unraced
<1> QED
  BY <1>1 DEF Inv, References, WholeIn

\* Rows come that nobody has liked; no vote is cast or counted.
LEMMA CountedGrows ==
  ASSUME Inv, TypeOK', Counted, UNCHANGED <<count, visits, db["likes"], memory["likes"], seeder.pair>>,
         db["users"] \subseteq db'["users"], Present \subseteq Present', Clean' => Clean,
         Clean => \A n \in Present' \ Present : seeder.pair = None /\ \A pair \in db["likes"] : pair[2] # n
  PROVE  Counted'
<1>0. /\ TypeOK /\ TablesOK(db) /\ TablesOK(db)' /\ IsFiniteSet(visits) /\ IsFiniteSet(visits)'
      /\ Present' \subseteq Targets
  BY IdsTyped DEF Inv, TypeOK, Counted, Present
<1>1. \A t \in Targets \ Present' : count'[t] = 0
  BY DEF Counted
<1>2. ASSUME Clean'
      PROVE  /\ db'["likes"] \subseteq visits' \cup memory'["likes"] \cup {seeder'.pair}
             /\ seeder'.pair # None =>
                  seeder'.pair \in db'["likes"] \cup visits' /\ seeder'.pair[1] \in db'["users"]
  BY <1>2 DEF Counted
<1>3. ASSUME Clean', NEW t \in Present'
      PROVE  AddsUp(t)'
  <2>1. /\ Clean /\ t \in Targets /\ db'["users"] \subseteq Users
        /\ \A pair \in db["likes"] : pair[1] \in db["users"]
        /\ seeder.pair # None => seeder.pair[1] \in db["users"]
    BY <1>0, <1>3, CleanIsWhole DEF TablesOK, Counted
  <2>2. LikedBy(t)' = LikedBy(t)
    <3>1. \A u \in db'["users"] : <<u, t>> \in db["likes"] => u \in db["users"]
      BY <2>1
    <3> QED
      BY <3>1 DEF LikedBy
  <2>3. Twice(t)' = Twice(t)
    BY DEF Twice
  <2>4. Owed(t)' = Owed(t)
    <3>1. ASSUME NEW u \in db'["users"], seeder.pair = <<u, t>> PROVE u \in db["users"]
      <4>1. seeder.pair \in Users \X Targets
        BY <2>1, <3>1
      <4>2. seeder.pair # None /\ seeder.pair[1] = u
        BY <3>1, <4>1, SeedingAssumption
      <4> QED
        BY <2>1, <4>2
    <3> QED
      BY <3>1 DEF Owed
  <2>5. CASE t \in Present
    <3>1. AddsUp(t)
      BY <2>1, <2>5, AddUp DEF Counted
    <3> QED
      BY <1>0, <2>1, <2>2, <2>3, <2>4, <3>1, AddsUpStill
  <2>6. CASE t \notin Present
    <3>1. count'[t] = 0 /\ seeder.pair = None /\ \A pair \in db["likes"] : pair[2] # t
      BY <1>3, <2>1, <2>6 DEF Counted
    <3>2. LikedBy(t)' = {}
      BY <2>2, <3>1 DEF LikedBy
    <3>3. Owed(t) = 0
      <4>1. ASSUME NEW u \in db["users"] PROVE None # <<u, t>>
        <5>1. <<u, t>> \in Users \X Targets
          BY <1>0, <2>1 DEF TablesOK
        <5> QED
          BY <5>1, SeedingAssumption
      <4> QED
        BY <3>1, <4>1 DEF Owed
    <3>4. Cardinality(LikedBy(t)') = 0 /\ Cardinality(Twice(t)') \in Nat
      BY <1>0, <3>2, FS_EmptySet, CountsNext
    <3> DEFINE n == Cardinality(Twice(t)')
               r == Cardinality(LikedBy(t)')
    <3>5. AddsUp(t)' <=> 0 - r + 0 \in 0..n
      BY <2>4, <3>1, <3>3 DEF AddsUp
    <3>6. r = 0 /\ n \in Nat
      BY <3>4
    <3> HIDE DEF n, r
    <3> QED
      BY <3>5, <3>6
  <2> QED
    BY <2>5, <2>6
<1> QED
  BY <1>0, <1>1, <1>2, <1>3, AddUp DEF Counted

\* The seeder's INSERT, which its count follows.
LEMMA AddLikeCounted ==
  ASSUME Inv, TypeOK', AddLike
  PROVE  Counted'
<1>1. PICK u \in memory["users"], t \in PresentIn(memory) :
    /\ seeder.at = "likes" /\ <<u, t>> \notin memory["likes"] /\ Insert("likes", {<<u, t>>})
    /\ seeder' = [seeder EXCEPT !.at = "increment", !.pair = <<u, t>>]
    /\ UNCHANGED <<count, memory, visits, mishaps>>
  BY DEF AddLike, PresentIn, Outside
<1>0. /\ TypeOK /\ SeederOK /\ TablesOK(db) /\ TablesOK(memory) /\ TablesOK(db)' /\ Counted
      /\ IsFiniteSet(visits)
      /\ IsFiniteSet(visits)' /\ visits \subseteq Users \X Targets /\ count \in [Targets -> Nat]
  BY <1>1 DEF Inv, TypeOK, Counted
<1>2. seeder.pair = None /\ u \in db["users"]
  <2>1. Collected /\ seeder.at = "likes"
    BY <1>1 DEF Inv, Gathered, Filling, Running
  <2> QED
    BY <1>1, <2>1 DEF Inv, Control, Collected
<1>3. <<u, t>> \in Users \X Targets
  BY <1>0, IdsTyped DEF TablesOK
<1> DEFINE vote == <<u, t>>
<1>4. /\ vote \in Users \X Targets /\ vote # None /\ vote \notin memory["likes"] /\ vote[1] = u
      /\ vote[2] = t
      /\ seeder'.pair = vote /\ db' = Plus(db, "likes", {vote})
  BY <1>0, <1>1, <1>3, SeedingAssumption DEF SeederOK, Insert
<1> HIDE DEF vote
<1>5. db'["likes"] = db["likes"] \cup {vote} /\ UNCHANGED <<db["users"], db["posts"], db["comments"]>>
  BY <1>0, <1>4, PlusTables
<1>6. Present' = Present /\ Present \subseteq Targets
  BY <1>0, <1>5, IdsTyped DEF Present, PresentIn, Ids
<1>7. \A s \in Targets \ Present' : count'[s] = 0
  BY <1>0, <1>1, <1>6 DEF Counted
<1>8. Clean' <=> Clean
  BY <1>1 DEF Clean
<1>9. \A w \in visits \cup db["likes"] : w # None
  BY <1>0, SeedingAssumption DEF TablesOK
<1>10. ASSUME Clean
       PROVE  /\ db'["likes"] \subseteq visits' \cup memory'["likes"] \cup {seeder'.pair}
              /\ seeder'.pair \in db'["likes"] /\ seeder'.pair[1] \in db'["users"]
  BY <1>0, <1>1, <1>2, <1>4, <1>5, <1>9, <1>10 DEF Counted
<1>11. ASSUME Clean, NEW s \in Present
       PROVE  AddsUp(s)'
  <2>1. AddsUp(s) /\ s \in Targets
    BY <1>0, <1>6, <1>11, AddUp DEF Counted
  <2>2. Owed(s) = 0
    <3>1. \A v \in db["users"] : None # <<v, s>>
      <4>1. \A v \in db["users"] : <<v, s>> \in Users \X Targets
        BY <1>0, <2>1 DEF TablesOK
      <4> QED
        BY <4>1, SeedingAssumption
    <3> QED
      BY <1>2, <3>1 DEF Owed
  <2>3. Twice(s) \subseteq Twice(s)'
    BY <1>1, <1>2, <1>9 DEF Twice
  <2>4. CASE s # t
    <3>1. LikedBy(s)' = LikedBy(s)
      <4>1. \A v : <<v, s>> # vote
        BY <1>4, <2>4
      <4> QED
        BY <1>5, <4>1 DEF LikedBy
    <3>2. Owed(s)' = 0
      <4>1. \A v : <<v, s>> # vote
        BY <1>4, <2>4
      <4> QED
        BY <1>4, <4>1 DEF Owed
    <3> QED
      BY <1>0, <1>1, <2>1, <2>2, <2>3, <3>1, <3>2, AddsUpStill
  <2>5. CASE s = t
    <3> DEFINE c == count[s]
               r == Cardinality(LikedBy(s))
               r1 == Cardinality(LikedBy(s)')
               m == Cardinality(Twice(s))
               m1 == Cardinality(Twice(s)')
    <3>1. c \in Nat /\ r \in Nat /\ r1 \in Nat /\ m \in Nat /\ m1 \in Nat /\ m <= m1
      BY <1>0, <2>1, <2>3, Counts, CountsNext, TwiceGrows
    <3>2. c - r + 0 \in 0..m
      BY <2>1, <2>2 DEF AddsUp
    <3>3. Owed(s)' = 1
      <4>1. seeder'.pair = <<u, s>> /\ u \in db'["users"]
        BY <1>2, <1>4, <1>5, <2>5 DEF vote
      <4> QED
        BY <4>1 DEF Owed
    <3>4. AddsUp(s)' <=> c - r1 + 1 \in 0..m1
      BY <1>1, <3>3 DEF AddsUp
    <3>5. CASE vote \notin db["likes"]
      <4>1. LikedBy(s)' = LikedBy(s) \cup {u} /\ u \notin LikedBy(s)
        BY <1>2, <1>5, <2>5, <3>5 DEF LikedBy, vote
      <4>2. r1 = r + 1
        <5> DEFINE S == LikedBy(s)
        <5>1. IsFiniteSet(S) /\ u \notin S /\ LikedBy(s)' = S \cup {u}
          BY <1>0, <4>1, Counts
        <5>2. Cardinality(S \cup {u}) = Cardinality(S) + 1
          <6> HIDE DEF S
          <6> QED
            BY <5>1, FS_AddElement
        <5> QED
          BY <5>1, <5>2
      <4> HIDE DEF c, r, r1, m, m1
      <4>3. c - r1 + 1 \in 0..m1
        BY <3>1, <3>2, <4>2
      <4> QED
        BY <3>4, <4>3
    <3>6. CASE vote \in db["likes"]
      <4>1. LikedBy(s)' = LikedBy(s)
        BY <1>5, <3>6 DEF LikedBy
      <4>2. vote \in visits
        BY <1>0, <1>2, <1>4, <1>11, <3>6 DEF Counted
      <4>3. vote \in Twice(s)' /\ vote \notin Twice(s)
        BY <1>1, <1>2, <1>4, <2>5, <4>2 DEF Twice
      <4>4. m1 >= m + 1
        <5> DEFINE S == Twice(s)
                   T == Twice(s)'
        <5>1. IsFiniteSet(S) /\ IsFiniteSet(T) /\ S \cup {vote} \in SUBSET T /\ vote \notin S
          BY <1>0, <2>3, <4>3, Counts, CountsNext
        <5>2. /\ Cardinality(S \cup {vote}) = Cardinality(S) + 1
              /\ Cardinality(S \cup {vote}) <= Cardinality(T)
          <6> HIDE DEF S, T
          <6> QED
            BY <5>1, FS_AddElement, FS_Subset
        <5>3. Cardinality(S) \in Nat /\ Cardinality(T) \in Nat
          BY <3>1
        <5> HIDE DEF S, T
        <5>4. Cardinality(T) >= Cardinality(S) + 1
          BY <5>2, <5>3
        <5> QED
          BY <5>4 DEF S, T
      <4>5. r1 = r
        BY <4>1
      <4> HIDE DEF c, r, r1, m, m1
      <4>6. c - r1 + 1 \in 0..m1
        BY <3>1, <3>2, <4>4, <4>5
      <4> QED
        BY <3>4, <4>6
    <3> QED
      BY <3>5, <3>6
  <2> QED
    BY <2>4, <2>5
<1> QED
  BY <1>0, <1>6, <1>7, <1>8, <1>10, <1>11, AddUp DEF Counted

\* The seeder's count catches up with the row.
LEMMA IncrementCounted ==
  ASSUME Inv, TypeOK', IncrementLikeCount
  PROVE  Counted'
<1> DEFINE vote == seeder.pair
           t == seeder.pair[2]
<1>1. /\ seeder.at = "increment" /\ UNCHANGED <<db, visits, mishaps>>
      /\ count' = IF t \in Present THEN [count EXCEPT ![t] = @ + 1] ELSE count
      /\ memory' = Plus(memory, "likes", {vote}) /\ seeder' = [seeder EXCEPT !.at = "likes", !.pair = None]
  BY DEF IncrementLikeCount, Collect, Outside
<1>0. /\ TypeOK /\ SeederOK /\ TablesOK(db) /\ TablesOK(memory) /\ TablesOK(db)' /\ Counted
      /\ IsFiniteSet(visits)
      /\ IsFiniteSet(visits)' /\ visits \subseteq Users \X Targets /\ count \in [Targets -> Nat]
  BY <1>1 DEF Inv, TypeOK, Counted
<1>2. vote \in Users \X Targets /\ vote # None /\ vote[1] \in db["users"]
  <2>1. Collected /\ Stage /\ Control
    BY <1>1 DEF Inv, Gathered, Filling, Running
  <2> QED
    BY <1>0, <1>1, <2>1 DEF Control, SeederOK, Stage, Collected
<1>3. vote = <<vote[1], t>> /\ t \in Targets
  BY <1>2
<1>4. memory'["likes"] = memory["likes"] \cup {vote} /\ seeder'.pair = None
  BY <1>0, <1>1, PlusTables DEF SeederOK
<1>5. Present' = Present /\ Present \subseteq Targets
  BY <1>0, <1>1, IdsTyped DEF Present
<1>6. \A s \in Targets : s # t \/ s \notin Present => count'[s] = count[s]
  BY <1>0, <1>1
<1>7. t \in Present => count'[t] = count[t] + 1
  BY <1>0, <1>1, <1>3
<1> HIDE DEF vote, t
<1>8. \A s \in Targets \ Present' : count'[s] = 0
  BY <1>0, <1>5, <1>6 DEF Counted
<1>9. Clean' <=> Clean
  BY <1>1 DEF Clean
<1>10. ASSUME Clean
       PROVE  db'["likes"] \subseteq visits' \cup memory'["likes"] \cup {seeder'.pair}
  BY <1>0, <1>1, <1>4, <1>10 DEF Counted, vote
<1>11. ASSUME Clean, NEW s \in Present
       PROVE  AddsUp(s)'
  <2>1. AddsUp(s) /\ s \in Targets
    BY <1>0, <1>5, <1>11, AddUp DEF Counted
  <2>2. Twice(s) \subseteq Twice(s)' /\ LikedBy(s)' = LikedBy(s)
    BY <1>1, <1>4 DEF Twice, LikedBy, vote
  <2>3. Owed(s)' = 0
    <3>1. \A v \in db["users"] : None # <<v, s>>
      <4>1. \A v \in db["users"] : <<v, s>> \in Users \X Targets
        BY <1>0, <2>1 DEF TablesOK
      <4> QED
        BY <4>1, SeedingAssumption
    <3> QED
      BY <1>1, <1>4, <3>1 DEF Owed
  <2>4. CASE s # t
    <3>1. Owed(s) = 0
      <4>1. \A v : <<v, s>> # vote
        BY <1>3, <2>4
      <4> QED
        BY <4>1 DEF Owed, vote
    <3>2. count'[s] = count[s]
      BY <1>6, <2>1, <2>4
    <3> QED
      BY <1>0, <2>1, <2>2, <2>3, <3>1, <3>2, AddsUpStill
  <2>5. CASE s = t
    <3> DEFINE c == count[s]
               r == Cardinality(LikedBy(s))
               m == Cardinality(Twice(s))
               m1 == Cardinality(Twice(s)')
    <3>1. c \in Nat /\ r \in Nat /\ m \in Nat /\ m1 \in Nat /\ m <= m1
      BY <1>0, <2>1, <2>2, Counts, CountsNext, TwiceGrows
    <3>2. Owed(s) = 1
      BY <1>2, <1>3, <2>5 DEF Owed, vote
    <3>3. c - r + 1 \in 0..m
      BY <2>1, <3>2 DEF AddsUp
    <3>4. AddsUp(s)' <=> (c + 1) - r + 0 \in 0..m1
      BY <1>7, <2>2, <2>3, <2>5 DEF AddsUp
    <3> HIDE DEF c, r, m, m1
    <3>5. (c + 1) - r + 0 \in 0..m1
      BY <3>1, <3>3
    <3> QED
      BY <3>4, <3>5
  <2> QED
    BY <2>4, <2>5
<1> QED
  BY <1>0, <1>4, <1>5, <1>8, <1>9, <1>10, <1>11, AddUp DEF Counted

\* A visitor's vote comes with its count.
LEMMA LikeCounted ==
  ASSUME Inv, TypeOK', Like
  PROVE  Counted'
<1>1. PICK u \in db["users"], t \in Present :
    /\ UNCHANGED <<seeder, memory, mishaps>>
    /\ <<u, t>> \notin db["likes"] /\ Insert("likes", {<<u, t>>})
    /\ count' = [count EXCEPT ![t] = @ + 1] /\ visits' = visits \cup {<<u, t>>}
  BY DEF Like, Visit
<1> DEFINE vote == <<u, t>>
<1>0. /\ TypeOK /\ TablesOK(db) /\ TablesOK(db)' /\ Counted /\ IsFiniteSet(visits)
      /\ visits \subseteq Users \X Targets /\ count \in [Targets -> Nat]
  BY DEF Inv, TypeOK, Counted
<1>2. IsFiniteSet(visits)'
  BY <1>0, <1>1, FS_AddElement
<1>3. Present \subseteq Targets
  BY <1>0, IdsTyped DEF Present
<1>4. /\ db'["likes"] = db["likes"] \cup {vote}
      /\ UNCHANGED <<db["users"], db["posts"], db["comments"]>>
      /\ visits' = visits \cup {vote} /\ vote \notin db["likes"]
  BY <1>0, <1>1, PlusTables DEF Insert
<1>5. Present' = Present
  BY <1>4 DEF Present, PresentIn, Ids
<1>6. \A s \in Targets : s # t => count'[s] = count[s]
  BY <1>0, <1>1
<1>7. count'[t] = count[t] + 1
  BY <1>0, <1>1, <1>3
<1>8. \A s \in Targets \ Present' : count'[s] = 0
  BY <1>0, <1>5, <1>6 DEF Counted
<1>9. Clean' <=> Clean
  BY <1>1 DEF Clean
<1>10. ASSUME Clean
       PROVE  /\ db'["likes"] \subseteq visits' \cup memory'["likes"] \cup {seeder'.pair}
              /\ seeder'.pair # None =>
                   seeder'.pair \in db'["likes"] \cup visits' /\ seeder'.pair[1] \in db'["users"]
  BY <1>0, <1>1, <1>4, <1>10 DEF Counted
<1>11. ASSUME Clean, NEW s \in Present
       PROVE  AddsUp(s)'
  <2>1. AddsUp(s) /\ s \in Targets
    BY <1>0, <1>3, <1>11, AddUp DEF Counted
  <2>2. Twice(s) \subseteq Twice(s)' /\ Owed(s)' = Owed(s)
    BY <1>1, <1>4 DEF Twice, Owed
  <2>4. CASE s # t
    <3>1. LikedBy(s)' = LikedBy(s)
      <4>1. \A v : <<v, s>> # vote
        BY <2>4
      <4> QED
        BY <1>4, <4>1 DEF LikedBy
    <3>2. count'[s] = count[s]
      BY <1>6, <2>1, <2>4
    <3> QED
      BY <1>0, <1>2, <2>1, <2>2, <3>1, <3>2, AddsUpStill
  <2>5. CASE s = t
    <3> DEFINE c == count[s]
               r == Cardinality(LikedBy(s))
               r1 == Cardinality(LikedBy(s)')
               o == Owed(s)
               m == Cardinality(Twice(s))
               m1 == Cardinality(Twice(s)')
    <3>1. c \in Nat /\ r \in Nat /\ r1 \in Nat /\ m \in Nat /\ m1 \in Nat /\ m <= m1 /\ o \in {0, 1}
      BY <1>0, <1>2, <2>1, <2>2, Counts, CountsNext, TwiceGrows
    <3>2. c - r + o \in 0..m
      BY <2>1 DEF AddsUp
    <3>3. LikedBy(s)' = LikedBy(s) \cup {u} /\ u \notin LikedBy(s)
      BY <1>4, <2>5 DEF LikedBy
    <3>4. r1 = r + 1
      <4> DEFINE S == LikedBy(s)
      <4>1. IsFiniteSet(S) /\ u \notin S /\ LikedBy(s)' = S \cup {u}
        BY <1>0, <3>3, Counts
      <4>2. Cardinality(S \cup {u}) = Cardinality(S) + 1
        <5> HIDE DEF S
        <5> QED
          BY <4>1, FS_AddElement
      <4> QED
        BY <4>1, <4>2
    <3>5. AddsUp(s)' <=> (c + 1) - r1 + o \in 0..m1
      BY <1>7, <2>2, <2>5 DEF AddsUp
    <3> HIDE DEF c, r, r1, o, m, m1
    <3>6. (c + 1) - r1 + o \in 0..m1
      BY <3>1, <3>2, <3>4
    <3> QED
      BY <3>5, <3>6
  <2> QED
    BY <2>4, <2>5
<1> QED
  BY <1>2, <1>5, <1>8, <1>9, <1>10, <1>11, AddUp DEF Counted

\* A visitor takes a vote back, whose count may still be owed.
LEMMA UnlikeCounted ==
  ASSUME Inv, TypeOK', Unlike
  PROVE  Counted'
<1>1. PICK u \in db["users"], t \in Present :
    /\ UNCHANGED <<seeder, memory, mishaps>>
    /\ <<u, t>> \in db["likes"] /\ db' = [db EXCEPT !["likes"] = @ \ {<<u, t>>}]
    /\ count' = [count EXCEPT ![t] = IF @ > 0 THEN @ - 1 ELSE 0] /\ visits' = visits \cup {<<u, t>>}
  BY DEF Unlike, Visit
<1> DEFINE vote == <<u, t>>
<1>0. /\ TypeOK /\ TablesOK(db) /\ TablesOK(db)' /\ Counted /\ IsFiniteSet(visits)
      /\ visits \subseteq Users \X Targets /\ count \in [Targets -> Nat]
  BY DEF Inv, TypeOK, Counted
<1>2. IsFiniteSet(visits)'
  BY <1>0, <1>1, FS_AddElement
<1>3. Present \subseteq Targets
  BY <1>0, IdsTyped DEF Present
<1>4. /\ db'["likes"] = db["likes"] \ {vote} /\ UNCHANGED <<db["users"], db["posts"], db["comments"]>>
      /\ visits' = visits \cup {vote} /\ vote \in db["likes"]
  BY <1>0, <1>1 DEF TablesOK, Tables
<1>5. Present' = Present
  BY <1>4 DEF Present, PresentIn, Ids
<1>6. \A s \in Targets : s # t => count'[s] = count[s]
  BY <1>0, <1>1
<1>7. count'[t] = IF count[t] > 0 THEN count[t] - 1 ELSE 0
  BY <1>0, <1>1, <1>3
<1>8. \A s \in Targets \ Present' : count'[s] = 0
  BY <1>0, <1>5, <1>6 DEF Counted
<1>9. Clean' <=> Clean
  BY <1>1 DEF Clean
<1>10. ASSUME Clean
       PROVE  /\ db'["likes"] \subseteq visits' \cup memory'["likes"] \cup {seeder'.pair}
              /\ seeder'.pair # None =>
                   seeder'.pair \in db'["likes"] \cup visits' /\ seeder'.pair[1] \in db'["users"]
  BY <1>0, <1>1, <1>4, <1>10 DEF Counted
<1>11. ASSUME Clean, NEW s \in Present
       PROVE  AddsUp(s)'
  <2>1. AddsUp(s) /\ s \in Targets
    BY <1>0, <1>3, <1>11, AddUp DEF Counted
  <2>2. Twice(s) \subseteq Twice(s)' /\ Owed(s)' = Owed(s)
    BY <1>1, <1>4 DEF Twice, Owed
  <2>4. CASE s # t
    <3>1. LikedBy(s)' = LikedBy(s)
      <4>1. \A v : <<v, s>> # vote
        BY <2>4
      <4> QED
        BY <1>4, <4>1 DEF LikedBy
    <3>2. count'[s] = count[s]
      BY <1>6, <2>1, <2>4
    <3> QED
      BY <1>0, <1>2, <2>1, <2>2, <3>1, <3>2, AddsUpStill
  <2>5. CASE s = t
    <3> DEFINE c == count[s]
               r == Cardinality(LikedBy(s))
               r1 == Cardinality(LikedBy(s)')
               o == Owed(s)
               m == Cardinality(Twice(s))
               m1 == Cardinality(Twice(s)')
    <3>1. c \in Nat /\ r \in Nat /\ r1 \in Nat /\ m \in Nat /\ m1 \in Nat /\ m <= m1 /\ o \in {0, 1}
      BY <1>0, <1>2, <2>1, <2>2, Counts, CountsNext, TwiceGrows
    <3>2. c - r + o \in 0..m
      BY <2>1 DEF AddsUp
    <3>3. LikedBy(s)' = LikedBy(s) \ {u} /\ u \in LikedBy(s)
      BY <1>4, <2>5 DEF LikedBy
    <3>4. r1 = r - 1
      <4> DEFINE S == LikedBy(s)
      <4>1. IsFiniteSet(S) /\ u \in S /\ LikedBy(s)' = S \ {u}
        BY <1>0, <3>3, Counts
      <4>2. Cardinality(S \ {u}) = Cardinality(S) - 1
        <5> HIDE DEF S
        <5> QED
          BY <4>1, FS_RemoveElement
      <4> QED
        BY <4>1, <4>2
    <3>5. CASE c > 0
      <4>1. AddsUp(s)' <=> (c - 1) - r1 + o \in 0..m1
        BY <1>7, <2>2, <2>5, <3>5 DEF AddsUp
      <4> HIDE DEF c, r, r1, o, m, m1
      <4>2. (c - 1) - r1 + o \in 0..m1
        BY <3>1, <3>2, <3>4
      <4> QED
        BY <4>1, <4>2
    \* There is one row and its count is owed: it is the seeder's, or a visitor
    \* has taken back the seeder's before.
    <3>6. CASE ~(c > 0)
      <4>1. AddsUp(s)' <=> 0 - r1 + o \in 0..m1
        BY <1>7, <2>2, <2>5, <3>6 DEF AddsUp
      <4>2. c = 0 /\ o = 1 /\ r = 1 /\ r1 = 0
        <5> HIDE DEF c, r, r1, o, m, m1
        <5> QED
          BY <3>1, <3>2, <3>4, <3>6
      <4>3. PICK v \in db["users"] : seeder.pair = <<v, s>>
        BY <4>2 DEF Owed
      <4>4. seeder.pair # None
        <5>1. <<v, s>> \in Users \X Targets
          BY <1>0, <2>1 DEF TablesOK
        <5> QED
          BY <4>3, <5>1, SeedingAssumption
      <4>5. seeder.pair \in db["likes"] => v = u
        <5>1. r = 1 /\ IsFiniteSet(LikedBy(s))
          BY <1>0, <4>2, Counts
        <5>2. LikedBy(s)' = {}
          <6> DEFINE T == LikedBy(s)'
          <6>1. IsFiniteSet(T) /\ Cardinality(T) = 0
            BY <1>0, <1>2, <4>2, CountsNext
          <6> HIDE DEF T
          <6>2. T = {}
            BY <6>1, FS_EmptySet
          <6> QED
            BY <6>2 DEF T
        <5>3. LikedBy(s) = {u}
          BY <3>3, <5>2
        <5> QED
          BY <4>3, <5>3 DEF LikedBy
      <4>6. seeder.pair \in Twice(s)'
        <5>1. seeder.pair \in db["likes"] \cup visits
          BY <1>0, <1>11, <4>4 DEF Counted
        <5>2. seeder.pair \in visits'
          BY <1>4, <2>5, <4>3, <4>5, <5>1
        <5>3. seeder.pair[2] = s
          BY <4>3
        <5> QED
          BY <1>1, <5>2, <5>3 DEF Twice
      <4>7. m1 >= 1
        <5> DEFINE T == Twice(s)'
        <5>1. IsFiniteSet(T) /\ T # {} /\ Cardinality(T) \in Nat
          BY <1>0, <1>2, <4>6, CountsNext
        <5>2. Cardinality(T) # 0
          <6> HIDE DEF T
          <6> QED
            BY <5>1, FS_EmptySet
        <5> HIDE DEF T
        <5>3. Cardinality(T) >= 1
          BY <5>1, <5>2
        <5> QED
          BY <5>3 DEF T
      <4> HIDE DEF c, r, r1, o, m, m1
      <4>8. 0 - r1 + o \in 0..m1
        BY <3>1, <4>2, <4>7
      <4> QED
        BY <4>1, <4>8
    <3> QED
      BY <3>5, <3>6
  <2> QED
    BY <2>4, <2>5
<1> QED
  BY <1>2, <1>5, <1>8, <1>9, <1>10, <1>11, AddUp DEF Counted

\* The rows that go are no longer spoken of.
LEMMA DeletePostCounted ==
  ASSUME Inv, TypeOK', DeletePost
  PROVE  Counted'
<1>1. PICK post \in db["posts"] :
    /\ Keep(Without(db, post)) /\ UNCHANGED <<seeder, memory, visits>>
    /\ mishaps' = IF importing > 0 THEN mishaps \cup {"deleted"} ELSE mishaps
  BY DEF DeletePost, Without, Visit
<1>0. /\ TypeOK /\ TablesOK(db) /\ TablesOK(db)' /\ Counted /\ IsFiniteSet(visits)
      /\ IsFiniteSet(visits)'
  BY <1>1 DEF Inv, TypeOK, Counted
<1>2. /\ db'["posts"] \subseteq db["posts"] /\ db'["comments"] \subseteq db["comments"]
      /\ UNCHANGED <<db["users"], db["likes"]>>
  <2> DEFINE e == Without(db, post)
  <2>1. /\ e["posts"] \subseteq db["posts"] /\ e["comments"] \subseteq db["comments"]
        /\ e["users"] = db["users"] /\ e["likes"] = db["likes"]
    BY <1>0, WithoutIs
  <2>2. db' = e
    BY <1>1 DEF Keep
  <2> HIDE DEF e
  <2> QED
    BY <2>1, <2>2
<1>3. Present' \subseteq Present /\ Present \subseteq Targets
  BY <1>0, <1>2, IdsTyped DEF Present, PresentIn, Ids
<1>4. count' = [t \in Targets |-> IF t \in Present' THEN count[t] ELSE 0]
  BY <1>1 DEF Keep, Present
<1>5. Clean' => Clean
  BY <1>1 DEF Clean
<1>6. \A t \in Targets \ Present' : count'[t] = 0
  BY <1>4
<1>7. ASSUME Clean
      PROVE  /\ db'["likes"] \subseteq visits' \cup memory'["likes"] \cup {seeder'.pair}
             /\ seeder'.pair # None =>
                  seeder'.pair \in db'["likes"] \cup visits' /\ seeder'.pair[1] \in db'["users"]
  BY <1>0, <1>1, <1>2, <1>7 DEF Counted
<1>8. ASSUME Clean, NEW t \in Present'
      PROVE  AddsUp(t)'
  <2>1. AddsUp(t) /\ t \in Targets /\ count'[t] = count[t]
    BY <1>0, <1>3, <1>4, <1>8, AddUp DEF Counted
  <2>2. LikedBy(t)' = LikedBy(t) /\ Owed(t)' = Owed(t) /\ Twice(t) \subseteq Twice(t)'
    BY <1>1, <1>2 DEF LikedBy, Owed, Twice
  <2> QED
    BY <1>0, <2>1, <2>2, AddsUpStill
<1> QED
  BY <1>0, <1>5, <1>6, <1>7, <1>8, AddUp DEF Counted

\* Half-way through nothing is said, and at the end nothing is left.
LEMMA TruncationCounted ==
  ASSUME Inv, TypeOK', truncateAll
  PROVE  Counted'
<1>0. TypeOK /\ SeederOK /\ Control /\ Counted /\ IsFiniteSet(visits)
  BY DEF Inv, TypeOK, Counted
<1>1. count' = [t \in Targets |-> IF t \in Present' THEN count[t] ELSE 0]
  BY DEF truncateAll, Keep, Present
<1>2. \A t \in Targets \ Present' : count'[t] = 0
  BY <1>1
<1>3. IsFiniteSet(visits)'
  BY <1>0, FS_EmptySet DEF truncateAll
<1>4. CASE seeder'.at = "truncate"
  <2>1. mishaps' = mishaps /\ "truncating" \in mishaps
    BY <1>0, <1>4 DEF truncateAll, Go, SeederOK, Control
  <2>2. ~Clean'
    BY <2>1 DEF Clean
  <2> QED
    BY <1>2, <1>3, <2>2, AddUp DEF Counted
<1>5. CASE seeder'.at # "truncate"
  <2>1. \A t \in Tables : db'[t] = {}
    BY <1>0, <1>5, LastTruncation
  <2>2. db'["likes"] = {} /\ Present' = {}
    BY <2>1 DEF Tables, Present, PresentIn, Ids
  <2>3. seeder'.pair = None
    BY <1>0, <1>5 DEF truncateAll, Go, SeederOK, Control
  <2> QED
    BY <1>2, <1>3, <2>2, <2>3, AddUp DEF Counted
<1> QED
  BY <1>4, <1>5

\* The rows of any table may be added to: what was there stays.
LEMMA PlusPresent ==
  ASSUME TablesOK(db), NEW t \in Tables, NEW rows, Insert(t, rows)
  PROVE  Present \subseteq Present'
<1>1. db["posts"] \subseteq db'["posts"] /\ db["comments"] \subseteq db'["comments"]
  BY DEF Insert, Plus, TablesOK, Tables
<1> QED
  BY <1>1 DEF Present, PresentIn, Ids

\* An import deletes nothing.
LEMMA ImportPresent ==
  ASSUME Inv, ImportPart
  PROVE  Present \subseteq Present'
<1>1. importing \in 1..6 /\ TablesOK(db)
  BY ImportSteps DEF Inv, TypeOK
<1>2. CASE importing = 1
  <2>1. \E rows : Insert("users", rows)
    BY <1>2, ImportSteps
  <2> QED
    BY <1>1, <2>1, PlusPresent DEF Tables
<1>3. CASE importing = 2
  <2>1. \E rows : Insert("posts", rows)
    BY <1>3, ImportSteps
  <2> QED
    BY <1>1, <2>1, PlusPresent DEF Tables
<1>4. CASE importing = 3
  <2>1. \E rows : Insert("post_media", rows)
    BY <1>4, ImportSteps
  <2> QED
    BY <1>1, <2>1, PlusPresent DEF Tables
<1>5. CASE importing = 4
  <2>1. \E rows : Insert("comments", rows)
    BY <1>5, ImportSteps
  <2> QED
    BY <1>1, <2>1, PlusPresent DEF Tables
<1>6. CASE importing = 5
  <2>1. \E rows : Insert("likes", rows)
    BY <1>6, ImportSteps
  <2> QED
    BY <1>1, <2>1, PlusPresent DEF Tables
<1>7. CASE importing = 6
  <2>1. \E rows : Insert("follows", rows)
    BY <1>7, ImportSteps
  <2> QED
    BY <1>1, <2>1, PlusPresent DEF Tables
<1>8. importing = 1 \/ importing = 2 \/ importing = 3 \/ importing = 4 \/ importing = 5 \/ importing = 6
  BY <1>1
<1> QED
  BY <1>2, <1>3, <1>4, <1>5, <1>6, <1>7, <1>8

\* Neither the users nor anything a like can be on changes.
LEMMA CountedStays ==
  ASSUME Inv, TypeOK',
         UNCHANGED <<count, visits, mishaps, db["users"], db["posts"], db["comments"], db["likes"],
                     memory["likes"], seeder.pair>>
  PROVE  Counted'
<1>1. Present' = Present
  BY DEF Present, PresentIn
<1>2. Clean' <=> Clean
  BY DEF Clean
<1>3. Counted
  BY DEF Inv
<1> QED
  BY <1>1, <1>2, <1>3, CountedGrows

\* The new post has no like: no like is on anything Run has not collected.
LEMMA CreatePostCounted ==
  ASSUME Inv, TypeOK', CreatePost
  PROVE  Counted'
<1>0. /\ Counted /\ Collected /\ Stage /\ TablesOK(db) /\ TablesOK(memory) /\ SeederOK
      /\ seeder.pair = None
      /\ seeder.at = "posts"
  BY DEF CreatePost, Inv, TypeOK, Gathered, Control, Filling, Running
<1>1. PICK t \in seeder.left, u \in memory["users"] :
    /\ Insert("posts", {[id |-> <<seeder.run, t>>, user |-> u]})
    /\ Collect("posts", {[id |-> <<seeder.run, t>>, user |-> u]})
    /\ seeder' = [seeder EXCEPT !.at = "post_media", !.left = @ \ {t}, !.post = <<seeder.run, t>>]
    /\ UNCHANGED <<count, visits, mishaps>>
  BY DEF CreatePost, Outside
<1> DEFINE id == <<seeder.run, t>>
           post == [id |-> id, user |-> u]
<1>2. id \in Posts /\ post.id = id /\ id \notin Ids(memory["posts"])
  <2>1. seeder.run \in 1..Seedings /\ t \in Titles
    <3>1. seeder.run > 0 /\ seeder.run \in 0..Seedings /\ t \in Titles
      BY <1>0, <1>1 DEF SeederOK, Inv, Control, Running
    <3> QED
      BY <3>1, SeedingAssumption
  <2>2. id \in Posts /\ post.id = id
    BY <2>1 DEF Posts
  <2>3. id \notin Ids(memory["posts"])
    BY <1>0, <1>1 DEF Stage
  <2> QED
    BY <2>2, <2>3
<1>3. /\ db' = Plus(db, "posts", {post}) /\ memory' = Plus(memory, "posts", {post})
      /\ UNCHANGED seeder.pair
  BY <1>0, <1>1 DEF Insert, Collect, SeederOK
<1> HIDE DEF post
<1>4. /\ db'["posts"] = db["posts"] \cup {post}
      /\ UNCHANGED <<db["users"], db["comments"], db["likes"]>>
      /\ UNCHANGED memory["likes"]
  BY <1>0, <1>3, PlusTables
<1>5. Present' = Present \cup {id}
  BY <1>2, <1>4 DEF Present, PresentIn, Ids
<1>6. id \notin PresentIn(memory)
  BY <1>0, <1>2, IdsTyped, PostIds DEF PresentIn
<1> HIDE DEF id
<1>7. \A n \in Present' \ Present : seeder.pair = None /\ \A pair \in db["likes"] : pair[2] # n
  BY <1>0, <1>5, <1>6 DEF Collected
<1>8. Clean' <=> Clean
  BY <1>1 DEF Clean
<1> QED
  BY <1>0, <1>1, <1>3, <1>4, <1>5, <1>7, <1>8, CountedGrows

\* Nor has the new comment.
LEMMA SeedCommentsCounted ==
  ASSUME Inv, TypeOK', seedComments
  PROVE  Counted'
<1>0. /\ Counted /\ Collected /\ Stage /\ TablesOK(db) /\ TablesOK(memory) /\ seeder.pair = None
      /\ seeder.at = "comments"
  BY DEF seedComments, Inv, TypeOK, Gathered, Control, Filling, Running
<1>1. PICK p \in seeder.left, u \in memory["users"], parent \in Ids(memory["comments"]) \cup {None}, k \in Nat :
    LET comment == [id |-> <<p[1], p[2], k>>, post |-> p, user |-> u, parent |-> parent]
    IN  /\ comment \in CommentRows /\ comment.id \notin Ids(memory["comments"])
        /\ Insert("comments", {comment}) /\ Collect("comments", {comment})
        /\ UNCHANGED <<count, seeder, Outside>>
  BY CommentOf
<1> DEFINE comment == [id |-> <<p[1], p[2], k>>, post |-> p, user |-> u, parent |-> parent]
<1>2. /\ comment \in CommentRows /\ comment.id \notin Ids(memory["comments"])
      /\ db' = Plus(db, "comments", {comment}) /\ memory' = Plus(memory, "comments", {comment})
      /\ UNCHANGED <<count, visits, mishaps, seeder>>
  BY <1>1 DEF Insert, Collect, Outside
<1> HIDE DEF comment
<1>3. /\ db'["comments"] = db["comments"] \cup {comment}
      /\ UNCHANGED <<db["users"], db["posts"], db["likes"]>>
      /\ UNCHANGED memory["likes"]
  BY <1>0, <1>2, PlusTables
<1>4. Present' = Present \cup {comment.id}
  BY <1>3 DEF Present, PresentIn, Ids
<1>5. comment.id \notin PresentIn(memory)
  <2>1. comment.id \in CommentIds
    BY <1>2 DEF CommentRows
  <2> QED
    BY <1>0, <1>2, <2>1, IdsTyped, PostIds DEF PresentIn
<1>6. \A n \in Present' \ Present : seeder.pair = None /\ \A pair \in db["likes"] : pair[2] # n
  BY <1>0, <1>4, <1>5 DEF Collected
<1>7. Clean' <=> Clean
  BY <1>2 DEF Clean
<1> QED
  BY <1>0, <1>2, <1>3, <1>4, <1>6, <1>7, CountedGrows

\* Every step keeps Counted.
LEMMA CountedNext ==
  ASSUME Inv, [Next]_vars
  PROVE  Counted'
<1>0. TypeOK /\ TypeOK' /\ SeederOK /\ Control /\ Counted /\ TablesOK(db) /\ TablesOK(memory)
  BY TypeNext DEF Inv, TypeOK
<1>1. CASE Run
  <2>1. UNCHANGED <<db, count, visits>> /\ ~Clean'
    BY <1>1 DEF Run, Clean
  <2>2. Present' = Present
    BY <2>1 DEF Present
  <2> QED
    BY <1>0, <2>1, <2>2, CountedUnclean
<1>2. CASE truncateAll
  BY <1>0, <1>2, TruncationCounted
<1>3. CASE seedUsers
  <2>1. PICK n \in seeder.left :
      /\ db' = Plus(db, "users", {<<seeder.run, n>>}) /\ memory' = Plus(memory, "users", {<<seeder.run, n>>})
      /\ UNCHANGED <<count, visits, mishaps>>
    BY <1>3 DEF seedUsers, Insert, Collect, Outside
  <2>2. UNCHANGED seeder.pair
    BY <1>0, <1>3 DEF seedUsers, Go, SeederOK
  <2> DEFINE new == {<<seeder.run, n>>}
  <2>3. db' = Plus(db, "users", new) /\ memory' = Plus(memory, "users", new)
    BY <2>1
  <2> HIDE DEF new
  <2>4. /\ db'["users"] = db["users"] \cup new /\ UNCHANGED <<db["posts"], db["comments"], db["likes"]>>
        /\ UNCHANGED memory["likes"]
    BY <1>0, <2>3, PlusTables
  <2>5. Present' = Present /\ (Clean' <=> Clean)
    BY <2>1, <2>4 DEF Present, PresentIn, Clean
  <2> QED
    BY <1>0, <2>1, <2>2, <2>4, <2>5, CountedGrows
<1>4. CASE fetchCards
  BY <1>0, <1>4, CountedStays DEF fetchCards, Go, SeederOK, Outside
<1>5. CASE CreatePost
  BY <1>0, <1>5, CreatePostCounted
<1>6. CASE CreatePostMedia
  <2> DEFINE new == {[id |-> seeder.post, post |-> seeder.post]}
  <2>1. /\ db' = Plus(db, "post_media", new) /\ memory' = Plus(memory, "post_media", new)
        /\ UNCHANGED <<count, visits, mishaps>>
    BY <1>6 DEF CreatePostMedia, Insert, Collect, Outside
  <2>2. UNCHANGED seeder.pair
    BY <1>0, <1>6 DEF CreatePostMedia, SeederOK
  <2> HIDE DEF new
  <2>3. UNCHANGED <<db["users"], db["posts"], db["comments"], db["likes"], memory["likes"]>>
    BY <1>0, <2>1, PlusTables
  <2> QED
    BY <1>0, <2>1, <2>2, <2>3, CountedStays
<1>7. CASE seedComments
  BY <1>0, <1>7, SeedCommentsCounted
<1>8. CASE EnoughComments
  BY <1>0, <1>8, CountedStays DEF EnoughComments, Go, SeederOK, Outside
<1>9. CASE AddLike
  BY <1>0, <1>9, AddLikeCounted
<1>10. CASE IncrementLikeCount
  BY <1>0, <1>10, IncrementCounted
<1>11. CASE EnoughLikes
  BY <1>0, <1>11, CountedStays DEF EnoughLikes, Go, SeederOK, Outside
<1>12. CASE seedFollows
  <2>1. PICK u, v :
      /\ db' = Plus(db, "follows", {<<u, v>>}) /\ memory' = Plus(memory, "follows", {<<u, v>>})
      /\ UNCHANGED <<count, visits, mishaps, seeder>>
    BY <1>12 DEF seedFollows, Insert, Collect, Outside
  <2>2. UNCHANGED <<db["users"], db["posts"], db["comments"], db["likes"], memory["likes"]>>
    BY <1>0, <2>1, PlusTables
  <2> QED
    BY <1>0, <2>1, <2>2, CountedStays
<1>13. CASE ExportSQL \/ ExportFails \/ Abort
  <2>1. UNCHANGED <<db, count, visits, mishaps>> /\ \E at : Return(at)
    BY <1>13 DEF ExportSQL, ExportFails, Abort, Outside
  <2>2. UNCHANGED <<memory["likes"], seeder.pair>>
    BY <1>0, <2>1 DEF Return, SeederOK, Empty, Tables
  <2> QED
    BY <1>0, <2>1, <2>2, CountedStays
<1>14. CASE StartImport
  <2>1. UNCHANGED <<db, count, visits>> /\ ~Clean'
    BY <1>14 DEF StartImport, Clean
  <2>2. Present' = Present
    BY <2>1 DEF Present
  <2> QED
    BY <1>0, <2>1, <2>2, CountedUnclean
<1>15. CASE ImportPart
  <2>1. UNCHANGED <<count, visits>> /\ mishaps \subseteq mishaps' /\ importing > 0
    BY <1>15 DEF ImportPart
  <2>2. ~Clean'
    BY <1>0, <2>1 DEF Control, Clean
  <2>3. Present \subseteq Present'
    BY <1>15, ImportPresent
  <2> QED
    BY <1>0, <2>1, <2>2, <2>3, CountedUnclean
<1>16. CASE Register
  <2>1. PICK n \in Names : /\ db' = Plus(db, "users", {<<0, n>>})
                           /\ UNCHANGED <<count, visits, mishaps, seeder, memory>>
    BY <1>16 DEF Register, Visit, Insert
  <2>2. db["users"] \subseteq db'["users"] /\ UNCHANGED <<db["posts"], db["comments"], db["likes"]>>
    BY <1>0, <2>1, PlusTables
  <2>3. Present' = Present /\ (Clean' <=> Clean)
    BY <2>1, <2>2 DEF Present, PresentIn, Clean
  <2> QED
    BY <1>0, <2>1, <2>2, <2>3, CountedGrows
<1>17. CASE Like
  BY <1>0, <1>17, LikeCounted
<1>18. CASE Unlike
  BY <1>0, <1>18, UnlikeCounted
<1>19. CASE DeletePost
  BY <1>0, <1>19, DeletePostCounted
<1>20. CASE UNCHANGED vars
  BY <1>0, <1>20, CountedStays DEF vars
<1> QED
  BY <1>1, <1>2, <1>3, <1>4, <1>5, <1>6, <1>7, <1>8, <1>9, <1>10, <1>11, <1>12, <1>13, <1>14, <1>15,
     <1>16, <1>17, <1>18, <1>19, <1>20 DEF Next

-----------------------------------------------------------------------------
(* Results *)

\* The invariant is inductive.
LEMMA InvNext == Inv /\ [Next]_vars => Inv'
BY TypeNext, ControlNext, GatheredNext, ReferencesNext, CountedNext DEF Inv

\* It holds in every reachable state.
LEMMA Invariance == Spec => []Inv
BY InitInv, InvNext, PTL DEF Spec

\* Whatever a seeding, an import of its file and the visitors do beside each
\* other, the tables hold rows of their types and the seeder stands at a
\* statement of Run (seed.go, Run).
THEOREM TypeCorrect == Spec => []TypeOK
<1>1. Inv => TypeOK
  BY DEF Inv
<1> QED
  BY <1>1, Invariance, PTL

\* Outside an import all rows refer to rows that are there, also after an
\* aborted seeding and although the file switches the foreign keys off, unless
\* an import met a taken username or a post was deleted while it ran.
THEOREM WholeAfterwards == Spec => []WholeUnlessImportRaced
<1>1. Inv => WholeUnlessImportRaced
  BY DEF Inv, References, Unraced, WholeUnlessImportRaced
<1> QED
  BY <1>1, Invariance, PTL

\* like_count is off from the rows of likes by the seeder's statement that is
\* to come or was cut off, and by the votes of which the seeder counted one
\* that a visitor had cast or taken back: by nothing else.
THEOREM LikesAddUp == Spec => []SeededLikesAddUp
<1>1. Inv => SeededLikesAddUp
  BY DEF Inv, Counted
<1> QED
  BY <1>1, Invariance, PTL
=============================================================================
