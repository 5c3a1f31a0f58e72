-------------------------- MODULE EngagementProofs --------------------------
(***************************************************************************)
(* Proofs about Engagement, for any number of users, posts, comments,      *)
(* folders and concurrent requests.  Each part strengthens the invariant   *)
(* of the one before it: types (TypeInv), votes (LikeInv), threads         *)
(* (ThreadInv), collections (ShelfInv), answers (AnswerInv) and chains of  *)
(* replies (CycleInv); the counters' drift, deadlocks and the refinement   *)
(* of Reactions follow from them.                                          *)
(***************************************************************************)
EXTENDS Engagement, FiniteSetTheorems, TLAPS

-----------------------------------------------------------------------------
(* The inductive invariants, beside TypeInv and LikeInv of Engagement *)

\* The post a call is about: the one it names, or that of the comment it names.
PostOf(r) == IF job[r].item \in CommentIds THEN Comment(job[r].item).post ELSE job[r].item

\* The row locks a call j about post p may have taken before a statement.
Allowed(step, j, p) ==
  CASE step = "BumpLikes" -> {Delete(LikeRow(j.user, j.item))}
    [] step \in {"ReadLiked", "ReadTarget", "NotifyLiked", "CommitLike"} ->
         {Delete(LikeRow(j.user, j.item)), Update(TargetRow(j.item)),
          Reference(PostRow(p)), Reference(TargetRow(j.item))}
    [] step = "BumpComments" -> {Reference(PostRow(j.item)), Reference(CommentRow(j.ref))}
    [] step = "CommitComment" ->
         {Reference(PostRow(j.item)), Reference(CommentRow(j.ref)), Update(PostRow(j.item))}
    [] step \in {"CascadeReplies", "SnapshotCount", "RecountComments"} ->
         {Delete(CommentRow(c)) : c \in CommentIds}
    [] step = "CommitDeleteComment" ->
         {Delete(CommentRow(c)) : c \in CommentIds} \cup {Update(PostRow(p))}
    [] step = "BumpCollects" ->
         {Delete(CollectionRow(j.user, j.item)), Reference(PostRow(j.item)),
          Reference(FolderRow(j.ref))}
    [] step \in {"ReadShelf", "CommitCollection"} ->
         {Delete(CollectionRow(j.user, j.item)), Reference(PostRow(j.item)),
          Reference(FolderRow(j.ref)), Update(PostRow(j.item))}
    [] step \in {"CascadeUnfile", "CommitDeleteFolder"} ->
         {Delete(FolderRow(j.item))} \cup
         {Update(CollectionRow(k[1], k[2])) : k \in Users \X Posts}
    [] step \in {"CascadePost", "CommitDeletePost"} ->
         {Delete(PostRow(j.item))} \cup {Delete(CommentRow(c)) : c \in CommentIds} \cup
         {Delete(CollectionRow(u, j.item)) : u \in Users}
    [] OTHER -> {}

MayHold(r) == Allowed(pc[r], job[r], PostOf(r))
LocksFit == \A l \in locks : [row |-> l.row, mode |-> l.mode] \in MayHold(l.req)

\* r has locked the row in some mode: nobody else can delete it.
Pins(r, row) == Holds(r, Delete(row)) \/ Holds(r, Update(row)) \/ Holds(r, Reference(row))

\* A locked row is there.
RowsLive ==
  \A r \in Requests :
    /\ \A p \in Posts : Pins(r, PostRow(p)) => p \in posts
    /\ \A c \in CommentIds : Pins(r, CommentRow(c)) => c \in comments

\* A comment being created answers one of its post, pins what it hangs on
\* and counts from the last committed value.
CreateOK(r) ==
  /\ pc[r] \in {"InsertComment", "BumpComments", "CommitComment"} /\ Replying(r) =>
       Comment(job[r].ref).post = job[r].item
  /\ pc[r] \in {"BumpComments", "CommitComment"} =>
       \A d \in InsertCommentLocks(r) : Holds(r, d)
  /\ pc[r] = "CommitComment" =>
       /\ Holds(r, Update(PostRow(job[r].item)))
       /\ work[r].val = comment_count[job[r].item] + 1
       /\ work[r].note => Recipient(r) # job[r].user

\* A deletion of a comment has locked it and goes down from it; once the
\* cascade is through, no reply to a doomed comment is left.
DeleteOK(r) ==
  /\ pc[r] \in {"CascadeReplies", "SnapshotCount", "RecountComments", "CommitDeleteComment"} =>
       /\ Holds(r, Delete(CommentRow(job[r].item)))
       /\ \A c \in Doomed(r) : /\ Comment(c).post = PostOf(r)
                               /\ c = job[r].item \/ Comment(c).parent \in Doomed(r)
  /\ pc[r] \in {"SnapshotCount", "RecountComments", "CommitDeleteComment"} =>
       RepliesLeft(r) = {}
  /\ pc[r] = "CommitDeleteComment" => Holds(r, Update(PostRow(PostOf(r))))

\* A deletion of a post dooms its comments and no others, if the post was there.
PurgeOK(r) ==
  /\ pc[r] \in {"CascadePost", "CommitDeletePost"} => Doomed(r) \subseteq Thread(job[r].item)
  /\ pc[r] = "CascadePost" => Holds(r, Delete(PostRow(job[r].item)))
  /\ pc[r] = "CommitDeletePost" =>
       IF Holds(r, Delete(PostRow(job[r].item))) THEN Thread(job[r].item) \subseteq Doomed(r)
       ELSE job[r].item \notin posts

\* The owner of a target is told of somebody else's like only, and the rows
\* the notification references are pinned.
NoteOK(r) ==
  /\ pc[r] = "NotifyLiked" => work[r].rows = 1 /\ Owner(job[r].item) # job[r].user
  /\ pc[r] \in LikeSteps /\ work[r].note =>
       /\ Owner(job[r].item) # job[r].user
       /\ \A d \in NotifyLikedLocks(r) : Holds(r, d)

ThreadInv ==
  /\ LikeInv /\ LocksFit /\ RowsLive /\ ThreadIntegrity
  /\ \A r \in Requests : CreateOK(r) /\ DeleteOK(r) /\ PurgeOK(r) /\ NoteOK(r)

\* A collection in progress: what it pins, and what it counts from.
ShelfOK(r) ==
  /\ job[r].op = "Uncollect" => job[r].ref = None
  /\ pc[r] \in ShelfSteps \ {"LookupShelf"} /\ IntoFolder(r) =>
       FolderOwner[job[r].ref] = job[r].user
  /\ pc[r] \in {"LookupShelf", "AddCollection", "RemoveCollection"} => work[r].rows = 0
  /\ pc[r] \in {"LookupShelf", "AddCollection"} => Collecting(r)
  /\ pc[r] = "RemoveCollection" => ~Collecting(r)
  /\ pc[r] = "BumpCollects" => work[r].rows = 1
  /\ pc[r] \in ShelfSteps /\ work[r].rows = 1 =>
       /\ Holds(r, Delete(CollectionRow(job[r].user, job[r].item)))
       /\ Collected(r) \in collections <=> ~Collecting(r)
       /\ Collecting(r) => /\ Holds(r, Reference(PostRow(job[r].item)))
                           /\ IntoFolder(r) => Holds(r, Reference(FolderRow(job[r].ref)))
  /\ pc[r] \in ShelfSteps /\ Holds(r, Update(PostRow(job[r].item))) =>
       work[r].rows = 1 /\ work[r].val = NewCollectCount(r)
  /\ pc[r] = "ReadShelf" /\ work[r].rows = 1 /\ job[r].item \in posts =>
       Holds(r, Update(PostRow(job[r].item)))
  /\ pc[r] = "CommitCollection" /\ work[r].rows = 1 =>
       Holds(r, Update(PostRow(job[r].item)))

\* A deletion of a folder has locked it, and what it unfiles is filed in it.
FolderOK(r) ==
  /\ pc[r] \in {"CascadeUnfile", "CommitDeleteFolder"} =>
       /\ Holds(r, Delete(FolderRow(job[r].item)))
       /\ \A k \in Users \X Posts :
            Holds(r, Update(CollectionRow(k[1], k[2]))) => filed[k] = job[r].item
  /\ pc[r] = "CommitDeleteFolder" => FiledLeft(r) = {}

\* A deletion of a post takes all its collections along.
ShelvesPurged(r) ==
  pc[r] = "CommitDeletePost" /\ Holds(r, Delete(PostRow(job[r].item))) =>
    \A u \in Collectors(job[r].item) : Holds(r, Delete(CollectionRow(u, job[r].item)))

CollectionsLive == \A k \in collections : k[2] \in posts
FoldersLive == \A r \in Requests : \A f \in Folders : Pins(r, FolderRow(f)) => f \in folders

ShelfInv ==
  /\ ThreadInv /\ FoldersLive /\ CollectionsLive /\ CollectCountExact /\ FiledInOwnFolder
  /\ \A r \in Requests : ShelfOK(r) /\ FolderOK(r) /\ ShelvesPurged(r)

\* What the flag and the count of an answer will be.
ShownOK(r) ==
  /\ work[r].rows = 1 /\ (IF OnPost(r) THEN pc[r] \in {"ReadTarget", "NotifyLiked", "CommitLike"}
                          ELSE pc[r] = "CommitLike") => work[r].flag = Adding(r)
  /\ work[r].rows = 1 /\ pc[r] \in LikeSteps /\ TargetRead(r) => work[r].shown = work[r].val

\* A like that found the vote already there is as good as one that wrote it.
LikeStands(r) ==
  \/ Liked(r) \in likes
  \/ \E s \in Requests : job[s].op \in {"UnlikePost", "UnlikeComment"} /\ Liked(s) = Liked(r)

VoteStands(r) ==
  /\ pc[r] \in LikeSteps \ {"AddLike"} /\ Adding(r) /\ work[r].rows = 0 => LikeStands(r)
  /\ answer[r] = "ok" /\ Adding(r) => LikeStands(r)

\* What a deletion answered with success said is gone.
GoneOK(r) ==
  /\ pc[r] # "done" => answer[r] = "none"
  /\ answer[r] = "ok" /\ job[r].op = "DeletePost" => job[r].item \notin posts
  /\ answer[r] = "ok" /\ job[r].op = "DeleteComment" => job[r].item \notin comments
  /\ answer[r] = "ok" /\ job[r].op = "DeleteFolder" => job[r].item \notin folders

\* A vote is about a target that has been there.
VotesWritten == \A k \in likes : Written(k[2])

AnswerInv ==
  /\ ShelfInv /\ VotesWritten
  /\ \A r \in Requests : ShownOK(r) /\ VoteStands(r) /\ GoneOK(r)

\* Among any comments there is one that answers none of them.
Rooted == \A S \in SUBSET comments : S # {} => \E c \in S : Comment(c).parent \notin S

CycleInv == ShelfInv /\ Rooted

-----------------------------------------------------------------------------
(* Locks and control *)

\* Taking locks keeps the lock table well typed.
LEMMA AcquireTyped ==
  ASSUME NEW r \in Requests, NEW D, D \subseteq [row: Rows, mode: Modes],
         locks \subseteq LockType, Acquire(r, D)
  PROVE  locks' \subseteq LockType
BY DEF Acquire, LockType

\* The row of any target, comment, collection or like is a row.
LEMMA RowTyped ==
  /\ \A x \in Keys : PostRow(x) \in Rows /\ CommentRow(x) \in Rows
                     /\ FolderRow(x) \in Rows /\ TargetRow(x) \in Rows
  /\ \A x, y \in Keys : LikeRow(x, y) \in Rows /\ CollectionRow(x, y) \in Rows
BY DEF PostRow, CommentRow, FolderRow, TargetRow, LikeRow, CollectionRow, Rows, Keys

\* A lock a statement asks for names a row and a mode.
LEMMA DemandTyped ==
  ASSUME NEW row \in Rows
  PROVE  /\ Delete(row) \in [row: Rows, mode: Modes]
         /\ Update(row) \in [row: Rows, mode: Modes]
         /\ Reference(row) \in [row: Rows, mode: Modes]
BY DEF Delete, Update, Reference, Modes

\* A statement or the end of a transaction moves one request on, and leaves
\* the identities of committed comments what they are.
LEMMA MoveControl ==
  ASSUME TypeInv, NEW r \in Requests, NEW step \in Steps,
         InFlight(r), step # "idle", pc[r] = "LoadAuthor" => step = "done",
         Fits(step, job[r]),
         pc' = [pc EXCEPT ![r] = step], UNCHANGED job,
         locks' \subseteq LockType, work' \in [Requests -> Work],
         answer' \in [Requests -> Answers]
  PROVE  /\ ControlOK'
         /\ \A c : Written(c) => Written(c)'
         /\ \A s \in Requests : (Written(job[s].item) /\ Written(job[s].ref))'
<1>1. ControlOK'
  BY DEF TypeInv, TypeOK, ControlOK, Fits
<1>2. \A c : Written(c) => Written(c)'
  BY DEF TypeInv, TypeOK, ControlOK, Written, InFlight
<1>3. QED
  BY <1>1, <1>2 DEF TypeInv, NamesWritten

\* A statement that locks rows D and notes w keeps the tables as they are.
LEMMA GotoTyped ==
  ASSUME TypeInv, NEW r \in Requests, NEW step \in Steps \ {"idle", "done"},
         InFlight(r), pc[r] # "LoadAuthor", Fits(step, job[r]), Goto(r, step),
         locks' \subseteq LockType, work' \in [Requests -> Work]
  PROVE  TypeInv'
<1>1. /\ pc' = [pc EXCEPT ![r] = step] /\ UNCHANGED <<job, answer>>
      /\ UNCHANGED <<posts, comments, folders, likes, collections, filed,
                     like_count, collect_count, comment_count, notifications>>
  BY DEF Goto, tables
<1>2. answer' \in [Requests -> Answers]
  BY <1>1 DEF TypeInv, TypeOK, ControlOK
<1>3. /\ ControlOK' /\ \A c : Written(c) => Written(c)'
      /\ \A s \in Requests : (Written(job[s].item) /\ Written(job[s].ref))'
  BY <1>1, <1>2, MoveControl
<1>4. TablesOK'
  BY <1>1 DEF TypeInv, TypeOK, TablesOK
<1>5. QED
  BY <1>1, <1>3, <1>4 DEF TypeInv, TypeOK, NamesWritten

\* The end of a transaction, whatever the tables become.
LEMMA CloseTyped ==
  ASSUME TypeInv, NEW r \in Requests, NEW step \in {"done", "LoadAuthor"},
         InFlight(r), pc[r] = "LoadAuthor" => step = "done",
         Fits(step, job[r]), Close(r, step), answer' \in [Requests -> Answers]
  PROVE  /\ ControlOK'
         /\ \A c : Written(c) => Written(c)'
         /\ \A s \in Requests : (Written(job[s].item) /\ Written(job[s].ref))'
<1>1. /\ pc' = [pc EXCEPT ![r] = step] /\ UNCHANGED job /\ step \in Steps /\ step # "idle"
  BY DEF Close, Steps, CommentSteps, CreateSteps
<1>2. locks' \subseteq LockType
  BY DEF Close, TypeInv, TypeOK, ControlOK
<1>3. work' \in [Requests -> Work]
  BY DEF Close, TypeInv, TypeOK, ControlOK, Blank, Work
<1>4. QED
  BY <1>1, <1>2, <1>3, MoveControl

\* Any request may end.
LEMMA DoneFits ==
  ASSUME TypeInv, NEW r \in Requests, InFlight(r)
  PROVE  Fits("done", job[r])
BY DEF TypeInv, TypeOK, ControlOK, Fits, InFlight, LikeSteps, CreateSteps, DeleteSteps,
       ShelfSteps, FolderSteps, PostSteps

\* A failing statement, a 404 and the like: everything is rolled back.
LEMMA RollbackTyped ==
  ASSUME TypeInv, NEW r \in Requests, InFlight(r), NEW a \in Answers, Rollback(r, a)
  PROVE  TypeInv'
<1>1. /\ Close(r, "done") /\ answer' = [answer EXCEPT ![r] = a]
      /\ UNCHANGED <<posts, comments, folders, likes, collections, filed,
                     like_count, collect_count, comment_count, notifications>>
  BY DEF Rollback, Reply, tables
<1>2. answer' \in [Requests -> Answers]
  BY <1>1 DEF TypeInv, TypeOK, ControlOK
<1>3. /\ ControlOK' /\ \A c : Written(c) => Written(c)'
      /\ \A s \in Requests : (Written(job[s].item) /\ Written(job[s].ref))'
  BY <1>1, <1>2, CloseTyped, DoneFits
<1>4. TablesOK'
  BY <1>1 DEF TypeInv, TypeOK, TablesOK
<1>5. QED
  BY <1>1, <1>3, <1>4 DEF TypeInv, TypeOK, NamesWritten

\* A commit that leaves the tables well typed and adds no comment.
LEMMA CommittedTyped ==
  ASSUME TypeInv, NEW r \in Requests, InFlight(r), Committed(r), TablesOK',
         comments' \subseteq comments
  PROVE  TypeInv'
<1>1. Close(r, "done") /\ answer' \in [Requests -> Answers]
  BY DEF Committed, Reply, TypeInv, TypeOK, ControlOK, Answers
<1>2. /\ ControlOK' /\ \A c : Written(c) => Written(c)'
      /\ \A s \in Requests : (Written(job[s].item) /\ Written(job[s].ref))'
  BY <1>1, CloseTyped, DoneFits
<1>3. QED
  BY <1>2 DEF TypeInv, TypeOK, NamesWritten

\* A client calls with what it has seen.
LEMMA BeginTyped ==
  ASSUME TypeInv, NEW r \in Requests, NEW op, NEW u \in Users,
         NEW x \in Targets \cup Folders, NEW y \in CommentIds \cup Folders \cup {None},
         NEW step \in Steps \ {"idle", "done"},
         x \in comments \/ x \notin CommentIds, y \in comments \/ y \notin CommentIds,
         Fits(step, [op |-> op, user |-> u, item |-> x, ref |-> y]),
         Begin(r, op, u, x, y, step)
  PROVE  TypeInv'
<1> DEFINE j == [op |-> op, user |-> u, item |-> x, ref |-> y]
<1>1. /\ pc[r] = "idle" /\ op \in Ops
      /\ job' = [job EXCEPT ![r] = j] /\ pc' = [pc EXCEPT ![r] = step]
      /\ UNCHANGED <<posts, comments, folders, likes, collections, filed,
                     like_count, collect_count, comment_count, notifications>>
      /\ UNCHANGED <<locks, work, answer>>
  BY DEF Begin, tables
<1>2. j \in Jobs
  BY <1>1 DEF Jobs
<1>3. TablesOK'
  BY <1>1 DEF TypeInv, TypeOK, TablesOK
<1>4. ControlOK'
  <2>1. \A s \in Requests : Fits(pc[s], job[s])'
    <3> SUFFICES ASSUME NEW s \in Requests PROVE Fits(pc'[s], job'[s])
      BY DEF Fits
    <3>1. CASE s = r
      BY <1>1, <3>1 DEF TypeInv, TypeOK, ControlOK
    <3>2. CASE s # r
      BY <1>1, <3>2 DEF TypeInv, TypeOK, ControlOK
    <3> QED BY <3>1, <3>2
  <2>2. QED
    BY <1>1, <1>2, <2>1 DEF TypeInv, TypeOK, ControlOK
<1>5. \A c : Written(c) => Written(c)'
  BY <1>1 DEF TypeInv, TypeOK, ControlOK, Written
<1>6. Written(x) /\ Written(y)
  BY StoreAssumption DEF TypeInv, NamesWritten, Written, CommentIds, Targets
<1>7. NamesWritten'
  BY <1>1, <1>5, <1>6 DEF TypeInv, TypeOK, ControlOK, NamesWritten
<1>8. QED
  BY <1>3, <1>4, <1>7 DEF TypeInv, TypeOK

-----------------------------------------------------------------------------
(* The type invariant *)

\* The store before the first call is well typed.
LEMMA InitTyped == Init => TypeInv
<1> SUFFICES ASSUME Init PROVE TypeInv
  OBVIOUS
<1> USE DEF Init, StoreInit
<1>1. \A S : S \subseteq Users \/ S \subseteq OldComments => Cardinality(S) \in Nat
  BY FS_Subset, FS_CardinalityType, StoreAssumption
<1>2. /\ \A t \in Targets : Cardinality({u \in Users : <<u, t>> \in OldLikes}) \in Nat
      /\ \A p \in Posts : Cardinality({u \in Users : <<u, p>> \in OldCollections}) \in Nat
      /\ \A p \in Posts : Cardinality({c \in OldComments : OldComment[c].post = p}) \in Nat
  BY <1>1
<1>3. TablesOK
  <2>1. /\ like_count \in [Targets -> Nat] /\ collect_count \in [Posts -> Nat]
        /\ comment_count \in [Posts -> Nat]
    BY <1>2
  <2>2. QED
    BY <2>1, StoreAssumption DEF TablesOK, CommentIds, Targets
<1>4. \A r \in Requests : Fits(pc[r], job[r])
  BY DEF Fits, NoJob, LikeSteps, CreateSteps, DeleteSteps, ShelfSteps, FolderSteps,
         PostSteps, PostLikeOps, CommentLikeOps
<1>5. ControlOK
  BY <1>4 DEF ControlOK, Steps, Blank, Work, Answers
<1>6. NamesWritten
  BY StoreAssumption DEF NamesWritten, Written, NoJob, CommentIds, Targets
<1>7. QED
  BY <1>3, <1>5, <1>6 DEF TypeInv, TypeOK

\* What the type invariant says of a request that is being served.
LEMMA Inputs ==
  ASSUME TypeInv, NEW r \in Requests, InFlight(r)
  PROVE  /\ job[r] \in Jobs /\ work[r] \in Work
         /\ job[r].user \in Users /\ job[r].user \in Keys
         /\ job[r].item \in Targets \cup Folders /\ job[r].item \in Keys
         /\ job[r].ref \in Keys
BY DEF TypeInv, TypeOK, ControlOK, Fits, InFlight, Jobs, Keys, CommentIds, Targets

\* The columns of a comment that anyone can name.
LEMMA ColumnsTyped ==
  ASSUME TypeInv, NEW c \in CommentIds, Written(c)
  PROVE  /\ Comment(c).post \in Posts /\ Comment(c).user \in Users
         /\ Comment(c).parent \in CommentIds \cup {None}
<1>1. CASE c \in OldComments
  BY <1>1, StoreAssumption DEF Comment, CommentIds
<1>2. CASE c \notin OldComments
  <2>1. c \in Requests /\ job[c].op = "CreateComment"
    BY <1>2 DEF CommentIds, Written
  <2>2. Fits(pc[c], job[c]) /\ (job[c] \in Jobs \/ job[c] = NoJob)
    BY <2>1 DEF TypeInv, TypeOK, ControlOK
  <2>3. /\ job[c].item \in Posts /\ job[c].ref \in CommentIds \cup {None}
        /\ job[c].user \in Users
    BY <2>1, <2>2 DEF Fits, NoJob, Jobs
  <2>4. QED
    BY <1>2, <2>3 DEF Comment
<1>3. QED
  BY <1>1, <1>2

\* Every call starts at the first statement of its handler, with its input.
LEMMA StartTyped ==
  ASSUME TypeInv, NEW r \in Requests, Start(r)
  PROVE  TypeInv'
<1> USE StoreAssumption DEF Fits, NoJob, LikeSteps, CreateSteps, DeleteSteps, ShelfSteps,
        FolderSteps, PostSteps, PostLikeOps, CommentLikeOps, LikeOps
<1>1. /\ posts \subseteq Posts /\ comments \subseteq CommentIds /\ folders \subseteq Folders
      /\ Posts \subseteq Targets /\ CommentIds \subseteq Targets
      /\ Posts \cap CommentIds = {} /\ Folders \cap CommentIds = {} /\ None \notin CommentIds
  BY DEF TypeInv, TypeOK, TablesOK, Targets
<1>2. CASE StartLike(r)
  <2>1. PICK u \in Users, t \in posts \cup comments, op \in LikeOps,
             step \in {"AddLike", "RemoveLike"} :
          /\ Begin(r, op, u, t, None, step)
          /\ op \in PostLikeOps => t \in posts
          /\ op \in CommentLikeOps => t \in comments
    BY <1>2 DEF StartLike
  <2>2. Fits(step, [op |-> op, user |-> u, item |-> t, ref |-> None])
    BY <1>1, <2>1
  <2>3. QED
    BY <1>1, <2>1, <2>2, BeginTyped DEF Steps
<1>3. CASE StartComment(r)
  <2>1. ASSUME NEW u \in Users, NEW p \in posts, NEW parent \in comments \cup {None},
               Begin(r, "CreateComment", u, p, parent, "LookupThread")
        PROVE  TypeInv'
    <3>1. Fits("LookupThread", [op |-> "CreateComment", user |-> u, item |-> p, ref |-> parent])
      BY <1>1
    <3>2. QED
      BY <1>1, <2>1, <3>1, BeginTyped DEF Steps, CommentSteps
  <2>2. ASSUME NEW u \in Users, NEW c \in comments,
               Begin(r, "DeleteComment", u, c, None, "LookupComment")
        PROVE  TypeInv'
    <3>1. Fits("LookupComment", [op |-> "DeleteComment", user |-> u, item |-> c, ref |-> None])
      BY <1>1
    <3>2. QED
      BY <1>1, <2>2, <3>1, BeginTyped DEF Steps, CommentSteps
  <2>3. QED
    BY <1>3, <2>1, <2>2 DEF StartComment
<1>4. CASE StartCollection(r)
  <2>1. ASSUME NEW u \in Users, NEW p \in posts, NEW f \in folders \cup {None},
               Begin(r, "Collect", u, p, f, "LookupShelf")
        PROVE  TypeInv'
    <3>1. Fits("LookupShelf", [op |-> "Collect", user |-> u, item |-> p, ref |-> f])
      BY <1>1
    <3>2. QED
      BY <1>1, <2>1, <3>1, BeginTyped DEF Steps, CollectionSteps
  <2>2. ASSUME NEW u \in Users, NEW p \in posts,
               Begin(r, "Uncollect", u, p, None, "RemoveCollection")
        PROVE  TypeInv'
    <3>1. Fits("RemoveCollection", [op |-> "Uncollect", user |-> u, item |-> p, ref |-> None])
      BY <1>1
    <3>2. QED
      BY <1>1, <2>2, <3>1, BeginTyped DEF Steps, CollectionSteps
  <2>3. ASSUME NEW u \in Users, NEW f \in folders,
               Begin(r, "DeleteFolder", u, f, None, "DeleteFolderRow")
        PROVE  TypeInv'
    <3>1. Fits("DeleteFolderRow", [op |-> "DeleteFolder", user |-> u, item |-> f, ref |-> None])
      BY <1>1
    <3>2. QED
      BY <1>1, <2>3, <3>1, BeginTyped DEF Steps, CollectionSteps
  <2>4. QED
    BY <1>4, <2>1, <2>2, <2>3 DEF StartCollection
<1>5. CASE StartDeletePost(r)
  <2>1. PICK u \in Users, p \in posts : Begin(r, "DeletePost", u, p, None, "LookupOwn")
    BY <1>5 DEF StartDeletePost
  <2>2. Fits("LookupOwn", [op |-> "DeletePost", user |-> u, item |-> p, ref |-> None])
    BY <1>1
  <2>3. QED
    BY <1>1, <2>1, <2>2, BeginTyped DEF Steps
<1>6. QED
  BY <1>2, <1>3, <1>4, <1>5 DEF Start

\* Each statement of a like handler, and its commit.
LEMMA LikeStepTyped ==
  ASSUME TypeInv, NEW r \in Requests, LikeStep(r)
  PROVE  TypeInv'
<1> USE DEF LikeSteps
<1>1. /\ InFlight(r) /\ pc[r] # "LoadAuthor" /\ pc[r] \in LikeSteps
  BY DEF LikeStep, AddLike, RemoveLike, BumpLikes, ReadLiked, ReadTarget, NotifyLiked,
         CommitLike, InFlight
<1>2. /\ job[r].op \in LikeOps /\ job[r].item \in Targets
      /\ \A step \in LikeSteps : Fits(step, job[r])
  BY <1>1 DEF TypeInv, TypeOK, ControlOK, Fits, InFlight, LikeOps, Targets, CreateSteps,
              DeleteSteps, ShelfSteps, FolderSteps, PostSteps
<1>3. work \in [Requests -> Work] /\ locks \subseteq LockType /\ like_count[job[r].item] \in Nat
  BY <1>2 DEF TypeInv, TypeOK, TablesOK, ControlOK
<1>4. /\ AddLikeLocks(r) \subseteq [row: Rows, mode: Modes]
      /\ RemoveLikeLocks(r) \subseteq [row: Rows, mode: Modes]
      /\ BumpLikesLocks(r) \subseteq [row: Rows, mode: Modes]
  BY <1>1, Inputs, RowTyped, DemandTyped DEF AddLikeLocks, RemoveLikeLocks, BumpLikesLocks
<1>5. \A step \in LikeSteps : step \in Steps \ {"idle", "done"}
  BY DEF Steps
<1>6. \A step \in LikeSteps :
        Goto(r, step) /\ locks' \subseteq LockType /\ work' \in [Requests -> Work] => TypeInv'
  BY <1>1, <1>2, <1>5, GotoTyped
<1>7. AfterBump(r) \in LikeSteps /\ AfterLiked(r) \in LikeSteps /\ AfterTarget(r) \in LikeSteps
  BY DEF AfterBump, AfterLiked, AfterTarget
<1>8. /\ NoticePost(r) \in Posts /\ NoticeComment(r) \in CommentIds \cup {None}
       /\ Owner(job[r].item) \in Users
  <2>1. job[r].item \in CommentIds =>
          Comment(job[r].item).post \in Posts /\ Comment(job[r].item).user \in Users
    BY ColumnsTyped DEF TypeInv, NamesWritten
  <2>2. /\ OnPost(r) => job[r].item \in Posts
        /\ ~OnPost(r) => job[r].item \in CommentIds
    BY <1>1, <1>2 DEF TypeInv, TypeOK, ControlOK, Fits, OnPost, LikeOps
  <2>3. QED
    BY <1>2, <2>1, <2>2, StoreAssumption DEF NoticePost, NoticeComment, Owner, Targets
<1>9. CASE AddLike(r)
  <2>1. work' \in [Requests -> Work]
    BY <1>3, <1>9 DEF AddLike, Work
  <2>2. QED
    BY <1>3, <1>4, <1>6, <1>7, <1>9, <2>1, AcquireTyped DEF AddLike
<1>10. CASE RemoveLike(r)
  <2>1. work' \in [Requests -> Work]
    BY <1>3, <1>10 DEF RemoveLike, Work
  <2>2. QED
    BY <1>3, <1>4, <1>6, <1>7, <1>10, <2>1, AcquireTyped DEF RemoveLike
<1>11. CASE BumpLikes(r)
  <2>1. NewLikeCount(r) \in Nat
    BY <1>3 DEF NewLikeCount
  <2>2. work' \in [Requests -> Work]
    BY <1>3, <1>11, <2>1 DEF BumpLikes, Work
  <2>3. QED
    BY <1>3, <1>4, <1>6, <1>7, <1>11, <2>2, AcquireTyped DEF BumpLikes
<1>12. CASE ReadLiked(r)
  <2>1. Adding(r) \in BOOLEAN /\ (Liked(r) \in likes) \in BOOLEAN
    BY DEF Adding
  <2>2. work' \in [Requests -> Work]
    BY <1>3, <1>12, <2>1 DEF ReadLiked, Work
  <2>3. QED
    BY <1>3, <1>6, <1>7, <1>12, <2>2 DEF ReadLiked
<1>13. CASE ReadTarget(r)
  <2>1. CASE Live(job[r].item)
    <3>1. work' \in [Requests -> Work]
      BY <1>3, <1>13, <2>1 DEF ReadTarget, Work
    <3>2. QED
      BY <1>3, <1>6, <1>7, <1>13, <2>1, <3>1 DEF ReadTarget
  <2>2. CASE ~Live(job[r].item)
    BY <1>1, <1>13, <2>2, RollbackTyped DEF ReadTarget, Answers
  <2>3. QED
    BY <2>1, <2>2
<1>14. CASE NotifyLiked(r)
  <2>1. NoticePost(r) \in Keys /\ NotifyLikedLocks(r) \subseteq [row: Rows, mode: Modes]
    <3>1. NoticePost(r) \in Keys
      BY <1>8 DEF Targets, Keys
    <3>2. QED
      BY <1>1, <3>1, Inputs, RowTyped, DemandTyped DEF NotifyLikedLocks
  <2>2. work' \in [Requests -> Work]
    BY <1>3, <1>14 DEF NotifyLiked, Work
  <2>3. QED
    BY <1>3, <1>6, <1>7, <1>14, <2>1, <2>2, AcquireTyped DEF NotifyLiked
<1>15. CASE CommitLike(r)
  <2>1. likes' \subseteq Users \X Targets
    BY <1>1, <1>2, <1>15, Inputs DEF CommitLike, Liked, TypeInv, TypeOK, TablesOK
  <2>2. like_count' \in [Targets -> Nat]
    BY <1>2, <1>3, <1>15 DEF CommitLike, TypeInv, TypeOK, TablesOK, Work
  <2>3. notifications' \subseteq Notifications
    <3>1. Notice(r, Owner(job[r].item), NoticePost(r), NoticeComment(r)) \in Notifications
      BY <1>1, <1>8, Inputs DEF Notice, Notifications
    <3>2. QED
      BY <1>15, <3>1 DEF CommitLike, TypeInv, TypeOK, TablesOK
  <2>4. QED
    BY <1>1, <1>15, <2>1, <2>2, <2>3, CommittedTyped
       DEF CommitLike, TypeInv, TypeOK, TablesOK
<1>16. QED
  BY <1>9, <1>10, <1>11, <1>12, <1>13, <1>14, <1>15 DEF LikeStep

\* Each statement of the comment handlers, and their commits.
LEMMA CommentStepTyped ==
  ASSUME TypeInv, NEW r \in Requests, CommentStep(r)
  PROVE  TypeInv'
<1> USE DEF CreateSteps, DeleteSteps
<1>1. InFlight(r) /\ pc[r] \in CreateSteps \cup DeleteSteps
  BY DEF CommentStep, LookupThread, InsertComment, BumpComments, CommitComment, LoadAuthor,
         LookupComment, DeleteCommentRow, CascadeReplies, SnapshotCount, RecountComments,
         CommitDeleteComment, InFlight
<1>2. /\ pc[r] \in CreateSteps => \A step \in CreateSteps : Fits(step, job[r])
      /\ pc[r] \in DeleteSteps => \A step \in DeleteSteps : Fits(step, job[r])
  BY <1>1 DEF TypeInv, TypeOK, ControlOK, Fits, InFlight, LikeSteps, ShelfSteps, FolderSteps,
              PostSteps
<1>3. /\ pc[r] \in CreateSteps => /\ job[r].op = "CreateComment" /\ job[r].item \in Posts
                                  /\ job[r].ref \in CommentIds \cup {None}
      /\ pc[r] \in DeleteSteps => job[r].item \in CommentIds
  BY <1>1 DEF TypeInv, TypeOK, ControlOK, Fits
<1>4. work \in [Requests -> Work] /\ locks \subseteq LockType /\ comments \subseteq Keys
  BY DEF TypeInv, TypeOK, TablesOK, ControlOK, Keys, Targets
<1>5. \A step \in CreateSteps \cup DeleteSteps : step \in Steps \ {"idle", "done"}
  BY DEF Steps, CommentSteps
<1>6. ASSUME NEW step \in CreateSteps \cup DeleteSteps,
             step \in CreateSteps <=> pc[r] \in CreateSteps, pc[r] # "LoadAuthor",
             Goto(r, step), locks' \subseteq LockType, work' \in [Requests -> Work]
      PROVE  TypeInv'
  BY <1>1, <1>2, <1>5, <1>6, GotoTyped
<1>7. pc[r] \in DeleteSteps =>
        Comment(job[r].item).post \in Posts /\ Comment(job[r].item).post \in Keys
  BY <1>3, ColumnsTyped DEF TypeInv, NamesWritten, Keys, Targets
<1>8. CASE LookupThread(r)
  BY <1>1, <1>4, <1>6, <1>8, RollbackTyped DEF LookupThread, Answers
<1>9. CASE InsertComment(r)
  <2>1. InsertCommentLocks(r) \subseteq [row: Rows, mode: Modes]
    BY <1>1, Inputs, RowTyped, DemandTyped DEF InsertCommentLocks
  <2>2. CASE Live(job[r].item) /\ (Replying(r) => Live(job[r].ref))
    <3>1. work' \in [Requests -> Work]
      BY <1>4, <1>9, <2>2 DEF InsertComment, Work
    <3>2. QED
      BY <1>4, <1>6, <1>9, <2>1, <2>2, <3>1, AcquireTyped DEF InsertComment
  <2>3. CASE ~(Live(job[r].item) /\ (Replying(r) => Live(job[r].ref)))
    BY <1>1, <1>9, <2>3, RollbackTyped DEF InsertComment, Answers
  <2>4. QED
    BY <2>2, <2>3
<1>10. CASE BumpComments(r)
  <2>1. BumpCommentsLocks(r) \subseteq [row: Rows, mode: Modes]
    BY <1>1, Inputs, RowTyped, DemandTyped DEF BumpCommentsLocks
  <2>2. comment_count[job[r].item] + 1 \in Nat
    BY <1>3, <1>10 DEF BumpComments, TypeInv, TypeOK, TablesOK
  <2>3. work' \in [Requests -> Work]
    BY <1>4, <1>10, <2>2 DEF BumpComments, Work
  <2>4. QED
    BY <1>4, <1>6, <1>10, <2>1, <2>3, AcquireTyped DEF BumpComments
<1>11. CASE CommitComment(r)
  <2>1. /\ pc[r] = "CommitComment" /\ r \in CommentIds
        /\ comments' = comments \cup {r}
        /\ comment_count' = [comment_count EXCEPT ![job[r].item] = work[r].val]
        /\ UNCHANGED <<posts, folders, likes, collections, filed, like_count, collect_count>>
    BY <1>11 DEF CommitComment, CommentIds
  <2>2. work[r].val \in Nat /\ Recipient(r) \in Users
    <3>1. job[r].ref \in CommentIds => Comment(job[r].ref).user \in Users
      BY ColumnsTyped DEF TypeInv, NamesWritten
    <3>2. QED
      BY <1>3, <1>4, <2>1, <3>1, StoreAssumption DEF Recipient, Replying, Work
  <2>3. Notice(r, Recipient(r), job[r].item, r) \in Notifications
    BY <1>1, <1>3, <2>1, <2>2, Inputs DEF Notice, Notifications
  <2>4. notifications' \subseteq Notifications
    BY <1>11, <2>3 DEF CommitComment, TypeInv, TypeOK, TablesOK
  <2>5. TablesOK'
    BY <2>1, <2>2, <2>4 DEF TypeInv, TypeOK, TablesOK
  <2>6. PICK step \in {"done", "LoadAuthor"} :
          Close(r, step) /\ answer' \in [Requests -> Answers]
    BY <1>11 DEF CommitComment, Reply, TypeInv, TypeOK, ControlOK, Answers
  <2>7. Fits(step, job[r])
    BY <1>1, <1>2, <2>1, DoneFits
  <2>8. /\ ControlOK' /\ \A c : Written(c) => Written(c)'
        /\ \A s \in Requests : (Written(job[s].item) /\ Written(job[s].ref))'
    BY <1>1, <2>1, <2>6, <2>7, CloseTyped
  <2>9. Written(r)'
    <3>1. pc' = [pc EXCEPT ![r] = step] /\ job' = job
      BY <2>6 DEF Close
    <3>2. QED
      BY <1>3, <2>1, <3>1 DEF Written, TypeInv, TypeOK, ControlOK
  <2>10. QED
    BY <2>1, <2>5, <2>8, <2>9 DEF TypeInv, TypeOK, NamesWritten
<1>12. CASE LoadAuthor(r)
  BY <1>1, <1>12, RollbackTyped DEF LoadAuthor, Answers
<1>13. CASE LookupComment(r)
  BY <1>1, <1>4, <1>6, <1>13, RollbackTyped DEF LookupComment, Answers
<1>14. CASE DeleteCommentRow(r)
  <2>1. DeleteCommentRowLocks(r) \subseteq [row: Rows, mode: Modes]
    BY <1>1, Inputs, RowTyped, DemandTyped DEF DeleteCommentRowLocks
  <2>2. CASE Live(job[r].item)
    <3>1. work' \in [Requests -> Work]
      BY <1>4, <1>14, <2>2 DEF DeleteCommentRow, Work
    <3>2. QED
      BY <1>4, <1>6, <1>14, <2>1, <2>2, <3>1, AcquireTyped DEF DeleteCommentRow
  <2>3. CASE ~Live(job[r].item)
    BY <1>1, <1>14, <2>3, RollbackTyped DEF DeleteCommentRow, Answers
  <2>4. QED
    BY <2>2, <2>3
<1>15. CASE CascadeReplies(r)
  <2>1. ASSUME NEW c \in RepliesLeft(r), Acquire(r, {Delete(CommentRow(c))})
        PROVE  locks' \subseteq LockType
    BY <1>4, <2>1, RowTyped, DemandTyped, AcquireTyped DEF RepliesLeft
  <2>2. QED
    BY <1>4, <1>6, <1>15, <2>1 DEF CascadeReplies
<1>16. CASE SnapshotCount(r)
  <2>1. Cardinality(Thread(Comment(job[r].item).post) \ Doomed(r)) \in Nat
    <3>1. IsFiniteSet(CommentIds)
      BY StoreAssumption, FS_Union DEF CommentIds
    <3>2. Thread(Comment(job[r].item).post) \ Doomed(r) \subseteq CommentIds
      BY DEF Thread, TypeInv, TypeOK, TablesOK
    <3>3. QED
      BY <3>1, <3>2, FS_Subset, FS_CardinalityType
  <2>2. work' \in [Requests -> Work]
    BY <1>4, <1>16, <2>1 DEF SnapshotCount, Work
  <2>3. QED
    BY <1>4, <1>6, <1>16, <2>2 DEF SnapshotCount
<1>17. CASE RecountComments(r)
  <2>1. pc[r] \in DeleteSteps
    BY <1>17 DEF RecountComments
  <2>2. RecountCommentsLocks(r) \subseteq [row: Rows, mode: Modes]
    BY <1>7, <2>1, RowTyped, DemandTyped DEF RecountCommentsLocks
  <2>3. QED
    BY <1>4, <1>6, <1>17, <2>2, AcquireTyped DEF RecountComments
<1>18. CASE CommitDeleteComment(r)
  <2>1. work[r].val \in Nat
    BY <1>4 DEF Work
  <2>2. QED
    BY <1>1, <1>18, <2>1, CommittedTyped
       DEF CommitDeleteComment, TypeInv, TypeOK, TablesOK
<1>19. QED
  BY <1>8, <1>9, <1>10, <1>11, <1>12, <1>13, <1>14, <1>15, <1>16, <1>17, <1>18 DEF CommentStep

\* Each statement of the collection handlers, and their commits.
LEMMA CollectionStepTyped ==
  ASSUME TypeInv, NEW r \in Requests, CollectionStep(r)
  PROVE  TypeInv'
<1> USE DEF ShelfSteps, FolderSteps
<1>1. InFlight(r) /\ pc[r] \in ShelfSteps \cup FolderSteps /\ pc[r] # "LoadAuthor"
  BY DEF CollectionStep, LookupShelf, AddCollection, RemoveCollection, BumpCollects, ReadShelf,
         CommitCollection, DeleteFolderRow, CascadeUnfile, CommitDeleteFolder, InFlight
<1>2. /\ pc[r] \in ShelfSteps => \A step \in ShelfSteps : Fits(step, job[r])
      /\ pc[r] \in FolderSteps => \A step \in FolderSteps : Fits(step, job[r])
  BY <1>1 DEF TypeInv, TypeOK, ControlOK, Fits, InFlight, LikeSteps, CreateSteps, DeleteSteps,
              PostSteps
<1>3. /\ pc[r] \in ShelfSteps => /\ job[r].item \in Posts
                                 /\ job[r].ref \in Folders \cup {None}
      /\ pc[r] \in FolderSteps => job[r].item \in Folders
  BY <1>1 DEF TypeInv, TypeOK, ControlOK, Fits
<1>4. /\ work \in [Requests -> Work] /\ locks \subseteq LockType
      /\ collections \subseteq Users \X Posts /\ filed \in [Users \X Posts -> Folders \cup {None}]
  BY DEF TypeInv, TypeOK, TablesOK, ControlOK
<1>5. \A step \in ShelfSteps \cup FolderSteps : step \in Steps \ {"idle", "done"}
  BY DEF Steps, CollectionSteps
<1>6. ASSUME NEW step \in ShelfSteps \cup FolderSteps,
             step \in ShelfSteps <=> pc[r] \in ShelfSteps,
             Goto(r, step), locks' \subseteq LockType, work' \in [Requests -> Work]
      PROVE  TypeInv'
  BY <1>1, <1>2, <1>5, <1>6, GotoTyped
<1>7. /\ AddCollectionLocks(r) \subseteq [row: Rows, mode: Modes]
      /\ RemoveCollectionLocks(r) \subseteq [row: Rows, mode: Modes]
      /\ BumpCollectsLocks(r) \subseteq [row: Rows, mode: Modes]
      /\ DeleteFolderRowLocks(r) \subseteq [row: Rows, mode: Modes]
  BY <1>1, Inputs, RowTyped, DemandTyped
     DEF AddCollectionLocks, RemoveCollectionLocks, BumpCollectsLocks, DeleteFolderRowLocks
<1>8. CASE LookupShelf(r)
  BY <1>1, <1>4, <1>6, <1>8, RollbackTyped DEF LookupShelf, Answers
<1>9. CASE AddCollection(r)
  <2>1. work' \in [Requests -> Work] \/ Rollback(r, "failed")
    BY <1>4, <1>9 DEF AddCollection, Work
  <2>2. QED
    BY <1>1, <1>4, <1>6, <1>7, <1>9, <2>1, AcquireTyped, RollbackTyped
       DEF AddCollection, Answers
<1>10. CASE RemoveCollection(r)
  <2>1. work' \in [Requests -> Work]
    BY <1>4, <1>10 DEF RemoveCollection, Work
  <2>2. QED
    BY <1>4, <1>6, <1>7, <1>10, <2>1, AcquireTyped DEF RemoveCollection
<1>11. CASE BumpCollects(r)
  <2>1. NewCollectCount(r) \in Nat
    BY <1>3, <1>11 DEF BumpCollects, NewCollectCount, TypeInv, TypeOK, TablesOK
  <2>2. work' \in [Requests -> Work]
    BY <1>4, <1>11, <2>1 DEF BumpCollects, Work
  <2>3. QED
    BY <1>4, <1>6, <1>7, <1>11, <2>2, AcquireTyped DEF BumpCollects
<1>12. CASE ReadShelf(r)
  BY <1>1, <1>4, <1>6, <1>12, RollbackTyped DEF ReadShelf, Answers
<1>13. CASE CommitCollection(r)
  <2>1. Collected(r) \in Users \X Posts /\ work[r].val \in Nat
    BY <1>1, <1>3, <1>4, <1>13, Inputs DEF CommitCollection, Collected, Work
  <2>2. TablesOK'
    BY <1>3, <1>13, <2>1 DEF CommitCollection, TypeInv, TypeOK, TablesOK
  <2>3. QED
    BY <1>1, <1>13, <2>2, CommittedTyped DEF CommitCollection
<1>14. CASE DeleteFolderRow(r)
  BY <1>1, <1>4, <1>6, <1>7, <1>14, AcquireTyped, RollbackTyped DEF DeleteFolderRow, Answers
<1>15. CASE CascadeUnfile(r)
  <2>1. ASSUME NEW k \in FiledLeft(r), Acquire(r, {Update(CollectionRow(k[1], k[2]))})
        PROVE  locks' \subseteq LockType
    <3>1. k[1] \in Keys /\ k[2] \in Keys
      BY <1>4 DEF FiledLeft, Keys, Targets
    <3>2. QED
      BY <1>4, <2>1, <3>1, RowTyped, DemandTyped, AcquireTyped
  <2>2. QED
    BY <1>4, <1>6, <1>15, <2>1 DEF CascadeUnfile
<1>16. CASE CommitDeleteFolder(r)
  <2>1. TablesOK'
    BY <1>4, <1>16 DEF CommitDeleteFolder, TypeInv, TypeOK, TablesOK
  <2>2. QED
    BY <1>1, <1>16, <2>1, CommittedTyped DEF CommitDeleteFolder
<1>17. QED
  BY <1>8, <1>9, <1>10, <1>11, <1>12, <1>13, <1>14, <1>15, <1>16 DEF CollectionStep

\* Each statement of DeletePost, and its commit.
LEMMA PostStepTyped ==
  ASSUME TypeInv, NEW r \in Requests, PostStep(r)
  PROVE  TypeInv'
<1> USE DEF PostSteps
<1>1. InFlight(r) /\ pc[r] \in PostSteps /\ pc[r] # "LoadAuthor"
  BY DEF PostStep, LookupOwn, DeletePostRow, CascadePost, CommitDeletePost, InFlight
<1>2. /\ job[r].item \in Posts
      /\ \A step \in PostSteps : Fits(step, job[r])
  BY <1>1 DEF TypeInv, TypeOK, ControlOK, Fits, InFlight, LikeSteps, CreateSteps, DeleteSteps,
              ShelfSteps, FolderSteps
<1>3. /\ work \in [Requests -> Work] /\ locks \subseteq LockType
      /\ filed \in [Users \X Posts -> Folders \cup {None}]
  BY DEF TypeInv, TypeOK, TablesOK, ControlOK
<1>4. \A step \in PostSteps : step \in Steps \ {"idle", "done"}
  BY DEF Steps
<1>5. ASSUME NEW step \in PostSteps, Goto(r, step), locks' \subseteq LockType,
             work' \in [Requests -> Work]
      PROVE  TypeInv'
  BY <1>1, <1>2, <1>4, <1>5, GotoTyped
<1>6. CASE LookupOwn(r)
  BY <1>1, <1>3, <1>5, <1>6, RollbackTyped DEF LookupOwn, Answers
<1>7. CASE DeletePostRow(r)
  <2>1. DeletePostRowLocks(r) \subseteq [row: Rows, mode: Modes]
    BY <1>1, Inputs, RowTyped, DemandTyped DEF DeletePostRowLocks
  <2>2. QED
    BY <1>3, <1>5, <1>7, <2>1, AcquireTyped DEF DeletePostRow
<1>8. CASE CascadePost(r)
  <2>1. CascadePostLocks(r) \subseteq [row: Rows, mode: Modes]
    <3>1. \A c \in Thread(job[r].item) : CommentRow(c) \in Rows
      BY RowTyped DEF Thread, Keys, Targets, TypeInv, TypeOK, TablesOK
    <3>2. \A row \in ShelvedRows(r) : row \in Rows
      BY <1>2, RowTyped DEF ShelvedRows, Collectors, Keys, Targets
    <3>3. QED
      BY <3>1, <3>2, DemandTyped DEF CascadePostLocks
  <2>2. QED
    BY <1>3, <1>5, <1>8, <2>1, AcquireTyped DEF CascadePost
<1>9. CASE CommitDeletePost(r)
  <2>1. TablesOK' /\ comments' \subseteq comments
    BY <1>3, <1>9 DEF CommitDeletePost, TypeInv, TypeOK, TablesOK
  <2>2. QED
    BY <1>1, <1>9, <2>1, CommittedTyped DEF CommitDeletePost
<1>10. QED
  BY <1>6, <1>7, <1>8, <1>9 DEF PostStep

\* Nothing the type invariant speaks of changes in a step that changes nothing.
LEMMA TypeStutters ==
  ASSUME TypeInv, UNCHANGED vars
  PROVE  TypeInv'
BY DEF TypeInv, TypeOK, TablesOK, ControlOK, NamesWritten, Written, vars, tables

\* Every step of the system keeps the type invariant.
LEMMA TypePreserved ==
  ASSUME TypeInv, [Next]_vars
  PROVE  TypeInv'
<1>1. ASSUME NEW r \in Requests, Timeout(r) \/ DeadlockVictim(r)
      PROVE  TypeInv'
  BY <1>1, RollbackTyped DEF Timeout, DeadlockVictim, Answers
<1>2. QED
  BY <1>1, StartTyped, LikeStepTyped, CommentStepTyped, CollectionStepTyped, PostStepTyped,
     TypeStutters DEF Next, Step, Quiet

\* In every reachable state the tables, the locks and the requests are well
\* typed: a counter is a natural number, a request is at a statement of its
\* own handler and was given the kind of input that handler takes.
THEOREM TypeCorrect == Spec => []TypeOK
<1>1. Init => TypeInv
  BY InitTyped
<1>2. TypeInv /\ [Next]_vars => TypeInv'
  BY TypePreserved
<1>3. TypeInv => TypeOK
  BY DEF TypeInv
<1>4. QED
  BY <1>1, <1>2, <1>3, PTL DEF Spec

-----------------------------------------------------------------------------
(* Locks and the frame of a step *)

\* What a step of r leaves alone in the other requests.
Keeps(r) ==
  \A s \in Requests \ {r} : pc'[s] = pc[s] /\ job'[s] = job[s] /\ work'[s] = work[s]

\* r goes on, with the locks it has or more, or ends its transaction.
Moves(r) ==
  /\ InFlight(r) /\ pc'[r] # "idle" /\ job' = job /\ Keeps(r)
  /\ \/ pc'[r] # "done" /\ (UNCHANGED locks \/ \E D : Acquire(r, D))
     \/ locks' = {l \in locks : l.req # r}

\* A step of r decides nothing about the locks of others, and keeps the lock
\* table free of conflicts.
LEMMA LocksPreserved ==
  ASSUME TypeInv, TypeInv', LocksOK, NEW r \in Requests, Moves(r)
  PROVE  /\ LocksOK'
         /\ \A s \in Requests \ {r} : \A d : Holds(s, d)' <=> Holds(s, d)
<1> USE DEF Moves, Keeps
<1>1. CASE locks' = {l \in locks : l.req # r}
  <2>1. \A s \in Requests \ {r} : \A d : Holds(s, d)' <=> Holds(s, d)
    BY <1>1 DEF Holds
  <2>2. \A l \in locks' : l \in locks /\ l.req \in Requests \ {r}
    BY <1>1 DEF TypeInv, TypeOK, ControlOK, LockType
  <2>3. LocksOK'
    BY <2>2 DEF LocksOK, InFlight
  <2>4. QED
    BY <2>1, <2>3
<1>2. CASE pc'[r] # "done" /\ UNCHANGED locks
  BY <1>2 DEF LocksOK, InFlight, Holds, TypeInv, TypeOK, ControlOK, LockType
<1>3. ASSUME NEW D, Acquire(r, D), pc'[r] # "done"
      PROVE  /\ LocksOK'
             /\ \A s \in Requests \ {r} : \A d : Holds(s, d)' <=> Holds(s, d)
  <2>1. \A l \in locks' : \/ l \in locks
                          \/ l.req = r /\ \E d \in D : l.row = d.row /\ l.mode = d.mode
    BY <1>3 DEF Acquire
  <2>2. \A l \in locks : l \in locks' /\ l.req \in Requests
    BY <1>3 DEF Acquire, TypeInv, TypeOK, ControlOK, LockType
  <2>3. \A s \in Requests \ {r} : \A d : Holds(s, d)' <=> Holds(s, d)
    BY <2>1, <2>2 DEF Holds
  <2>4. \A d \in D : \A l \in locks :
          l.req # r /\ l.row = d.row => ~Conflict(l.mode, d.mode)
    BY <1>3, <2>2 DEF Acquire, Blockers
  <2>5. \A m, n : Conflict(m, n) <=> Conflict(n, m)
    BY DEF Conflict
  <2>6. \A l, m \in locks' : l.req # m.req /\ l.row = m.row => ~Conflict(l.mode, m.mode)
    BY <2>1, <2>4, <2>5 DEF LocksOK
  <2>7. \A l \in locks' : InFlight(l.req)'
    BY <1>3, <2>1, <2>2 DEF LocksOK, InFlight
  <2>8. \A s \in Requests : pc'[s] = "idle" => work'[s] = Blank
    BY DEF LocksOK
  <2>9. QED
    BY <2>3, <2>6, <2>7, <2>8 DEF LocksOK
<1>4. QED
  BY <1>1, <1>2, <1>3

\* The statements of a handler before its commit move it on.
LEMMA GotoMoves ==
  ASSUME TypeInv, NEW r \in Requests, InFlight(r), NEW step, step \notin {"idle", "done"},
         Goto(r, step), UNCHANGED locks \/ \E D : Acquire(r, D),
         \A q \in Requests \ {r} : work'[q] = work[q]
  PROVE  Moves(r) /\ UNCHANGED tables
BY DEF TypeInv, TypeOK, ControlOK, Goto, Moves, Keeps

\* So does the end of its transaction.
LEMMA CloseMoves ==
  ASSUME TypeInv, NEW r \in Requests, InFlight(r), NEW step, step # "idle", Close(r, step)
  PROVE  Moves(r)
BY DEF TypeInv, TypeOK, ControlOK, Close, Moves, Keeps

\* A rollback ends the transaction and changes no table.
LEMMA RollbackMoves ==
  ASSUME TypeInv, NEW r \in Requests, InFlight(r), NEW a, Rollback(r, a)
  PROVE  Moves(r) /\ UNCHANGED tables
BY CloseMoves DEF Rollback

\* A commit ends it too.
LEMMA CommittedMoves ==
  ASSUME TypeInv, NEW r \in Requests, InFlight(r), Committed(r)
  PROVE  Moves(r)
BY CloseMoves DEF Committed

\* The only comment a step makes appear is the one its request commits.
NewComments(r) ==
  comments' \subseteq comments \cup (IF pc[r] = "CommitComment" THEN {r} ELSE {})

\* The comment handlers never touch a like, and only a commit of Create makes
\* a row appear: its own comment.
LEMMA CommentStepFrame ==
  ASSUME TypeInv, NEW r \in Requests, CommentStep(r)
  PROVE  /\ Moves(r) /\ UNCHANGED <<likes, like_count, posts>>
         /\ pc[r] \in CommentSteps /\ NewComments(r)
<1> USE DEF CommentSteps, CreateSteps, DeleteSteps
<1>1. InFlight(r) /\ pc[r] \in CommentSteps
  BY DEF CommentStep, LookupThread, InsertComment, BumpComments, CommitComment, LoadAuthor,
         LookupComment, DeleteCommentRow, CascadeReplies, SnapshotCount, RecountComments,
         CommitDeleteComment, InFlight
<1>2. UNCHANGED tables =>
        UNCHANGED <<likes, like_count, posts>> /\ NewComments(r)
  BY DEF tables, NewComments
<1>3. work \in [Requests -> Work]
  BY DEF TypeInv, TypeOK, ControlOK
<1>4. ASSUME LookupThread(r) \/ LoadAuthor(r) \/ LookupComment(r)
      PROVE  Moves(r) /\ UNCHANGED tables
  BY <1>1, <1>4, GotoMoves, RollbackMoves DEF LookupThread, LoadAuthor, LookupComment
<1>5. ASSUME InsertComment(r) \/ BumpComments(r)
      PROVE  Moves(r) /\ UNCHANGED tables
  BY <1>1, <1>3, <1>5, GotoMoves, RollbackMoves DEF InsertComment, BumpComments
<1>6. ASSUME DeleteCommentRow(r) \/ SnapshotCount(r)
      PROVE  Moves(r) /\ UNCHANGED tables
  BY <1>1, <1>3, <1>6, GotoMoves, RollbackMoves DEF DeleteCommentRow, SnapshotCount
<1>7. ASSUME CascadeReplies(r) \/ RecountComments(r)
      PROVE  Moves(r) /\ UNCHANGED tables
  BY <1>1, <1>7, GotoMoves DEF CascadeReplies, RecountComments
<1>8. ASSUME CommitComment(r)
      PROVE  Moves(r) /\ UNCHANGED <<likes, like_count, posts>> /\ NewComments(r)
  BY <1>1, <1>8, CloseMoves DEF CommitComment, NewComments
<1>9. ASSUME CommitDeleteComment(r)
      PROVE  Moves(r) /\ UNCHANGED <<likes, like_count, posts>> /\ NewComments(r)
  BY <1>1, <1>9, CommittedMoves DEF CommitDeleteComment, NewComments
<1>10. QED
  BY <1>1, <1>2, <1>4, <1>5, <1>6, <1>7, <1>8, <1>9 DEF CommentStep

\* The collection handlers touch neither likes nor the rows that are liked.
LEMMA CollectionStepFrame ==
  ASSUME TypeInv, NEW r \in Requests, CollectionStep(r)
  PROVE  /\ Moves(r) /\ UNCHANGED <<likes, like_count, posts, comments>>
         /\ pc[r] \in CollectionSteps
<1> USE DEF CollectionSteps, ShelfSteps, FolderSteps
<1>1. InFlight(r) /\ pc[r] \in CollectionSteps
  BY DEF CollectionStep, LookupShelf, AddCollection, RemoveCollection, BumpCollects, ReadShelf,
         CommitCollection, DeleteFolderRow, CascadeUnfile, CommitDeleteFolder, InFlight
<1>2. UNCHANGED tables => UNCHANGED <<likes, like_count, posts, comments>>
  BY DEF tables
<1>3. work \in [Requests -> Work]
  BY DEF TypeInv, TypeOK, ControlOK
<1>4. ASSUME LookupShelf(r) \/ AddCollection(r) \/ RemoveCollection(r)
      PROVE  Moves(r) /\ UNCHANGED tables
  BY <1>1, <1>3, <1>4, GotoMoves, RollbackMoves DEF LookupShelf, AddCollection, RemoveCollection
<1>5. ASSUME BumpCollects(r) \/ ReadShelf(r) \/ DeleteFolderRow(r) \/ CascadeUnfile(r)
      PROVE  Moves(r) /\ UNCHANGED tables
  BY <1>1, <1>3, <1>5, GotoMoves, RollbackMoves
     DEF BumpCollects, ReadShelf, DeleteFolderRow, CascadeUnfile
<1>6. ASSUME CommitCollection(r) \/ CommitDeleteFolder(r)
      PROVE  Moves(r) /\ UNCHANGED <<likes, like_count, posts, comments>>
  BY <1>1, <1>6, CommittedMoves DEF CommitCollection, CommitDeleteFolder
<1>7. QED
  BY <1>1, <1>2, <1>4, <1>5, <1>6 DEF CollectionStep

\* Deleting a post keeps all likes; posts and comments only disappear.
LEMMA PostStepFrame ==
  ASSUME TypeInv, NEW r \in Requests, PostStep(r)
  PROVE  /\ Moves(r) /\ UNCHANGED <<likes, like_count>>
         /\ pc[r] \in PostSteps /\ posts' \subseteq posts /\ comments' \subseteq comments
<1> USE DEF PostSteps
<1>1. InFlight(r) /\ pc[r] \in PostSteps
  BY DEF PostStep, LookupOwn, DeletePostRow, CascadePost, CommitDeletePost, InFlight
<1>2. UNCHANGED tables =>
        UNCHANGED <<likes, like_count>> /\ posts' \subseteq posts /\ comments' \subseteq comments
  BY DEF tables
<1>3. ASSUME LookupOwn(r) \/ DeletePostRow(r) \/ CascadePost(r)
      PROVE  Moves(r) /\ UNCHANGED tables
  BY <1>1, <1>3, GotoMoves, RollbackMoves DEF LookupOwn, DeletePostRow, CascadePost
<1>4. ASSUME CommitDeletePost(r)
      PROVE  /\ Moves(r) /\ UNCHANGED <<likes, like_count>>
             /\ posts' \subseteq posts /\ comments' \subseteq comments
  BY <1>1, <1>4, CommittedMoves DEF CommitDeletePost
<1>5. QED
  BY <1>1, <1>2, <1>3, <1>4 DEF PostStep

-----------------------------------------------------------------------------
(* The like counters *)

\* Votes in progress are not disturbed by a step of another request, as long
\* as likes and counters stay and no row appears that a vote is about.
LEMMA OthersVote ==
  ASSUME LikeInv, TypeInv', NEW r \in Requests, Moves(r),
         UNCHANGED <<likes, like_count>>, posts' \subseteq posts,
         NewComments(r),
         NEW s \in Requests \ {r}, pc'[s] \in LikeSteps
  PROVE  VoteOK(s)'
<1>1. /\ pc'[s] = pc[s] /\ job'[s] = job[s] /\ work'[s] = work[s]
      /\ \A d : Holds(s, d)' <=> Holds(s, d)
  BY LocksPreserved DEF LikeInv, Moves, Keeps
<1>2. VoteOK(s)
  BY <1>1 DEF LikeInv
<1>3. Live(job[s].item)' => Live(job[s].item)
  BY <1>1 DEF Live, NewComments, Written, LikeInv, TypeInv, NamesWritten
<1>4. QED
  BY <1>1, <1>2, <1>3 DEF VoteOK, Adding, HoldsLike, HoldsTarget, Liked, NewLikeCount,
                          TargetRead, OnPost

\* Steps before a commit, rollbacks, and commits of handlers that do not vote.
LEMMA VotesKept ==
  ASSUME LikeInv, TypeInv', NEW r \in Requests, Moves(r),
         UNCHANGED <<likes, like_count>>, posts' \subseteq posts, NewComments(r),
         pc'[r] \in LikeSteps => VoteOK(r)'
  PROVE  LikeInv'
<1>1. LocksOK'
  BY LocksPreserved DEF LikeInv
<1>2. CountsOK'
  BY DEF LikeInv, CountsOK, Likers
<1>3. \A s \in Requests : pc'[s] \in LikeSteps => VoteOK(s)'
  BY OthersVote
<1>4. QED
  BY <1>1, <1>2, <1>3 DEF LikeInv

\* A new call holds no locks and has touched no row.
LEMMA StartInv ==
  ASSUME LikeInv, TypeInv', NEW r \in Requests, Start(r)
  PROVE  LikeInv'
<1> USE DEF LikeInv, TypeInv, TypeOK, ControlOK
<1>1. PICK op, u, x, y, step : Begin(r, op, u, x, y, step)
  BY DEF Start, StartLike, StartComment, StartCollection, StartDeletePost
<1>2. /\ pc[r] = "idle" /\ pc' = [pc EXCEPT ![r] = step] /\ step \in Steps
      /\ \A s \in Requests \ {r} : pc'[s] = pc[s] /\ job'[s] = job[s]
      /\ UNCHANGED <<posts, comments, likes, like_count, locks, work>>
  BY <1>1 DEF Begin, tables
<1>3. /\ \A d : ~Holds(r, d)
      /\ work[r].rows = 0
  BY <1>2 DEF LocksOK, Holds, InFlight, Blank
<1>4. /\ step \notin {"idle", "done"}
      /\ step \in LikeSteps => /\ step \in {"AddLike", "RemoveLike"}
                               /\ step = "AddLike" <=> Adding(r)'
  <2> USE DEF Begin, Adding, LikeSteps
  <2>1. CASE StartLike(r)
    BY <1>2, <2>1 DEF StartLike, PostLikeOps, CommentLikeOps
  <2>2. CASE StartComment(r)
    BY <1>2, <2>2 DEF StartComment
  <2>3. CASE StartCollection(r)
    BY <1>2, <2>3 DEF StartCollection
  <2>4. CASE StartDeletePost(r)
    BY <1>2, <2>4 DEF StartDeletePost
  <2>5. QED
    BY <2>1, <2>2, <2>3, <2>4 DEF Start
<1>5. LocksOK'
  BY <1>2, <1>4 DEF LocksOK, InFlight
<1>6. CountsOK'
  BY <1>2 DEF CountsOK, Likers
<1>7. ASSUME NEW s \in Requests, pc'[s] \in LikeSteps
      PROVE  VoteOK(s)'
  <2>1. CASE s = r
    BY <1>2, <1>3, <1>4, <1>7, <2>1 DEF VoteOK, HoldsTarget, HoldsLike, Holds
  <2>2. CASE s # r
    BY <1>2, <1>7, <2>2 DEF VoteOK, HoldsTarget, HoldsLike, Holds, Liked, Adding, NewLikeCount,
                            Live, TargetRead, OnPost
  <2>3. QED
    BY <2>1, <2>2
<1>8. QED
  BY <1>5, <1>6, <1>7

\* The statements of a like handler before its commit.
LEMMA LikeStatementFrame ==
  ASSUME TypeInv, NEW r \in Requests, LikeStep(r), ~CommitLike(r)
  PROVE  Moves(r) /\ UNCHANGED tables /\ pc[r] \in LikeSteps
<1> USE DEF LikeSteps, AfterBump, AfterLiked, AfterTarget
<1>1. InFlight(r) /\ pc[r] \in LikeSteps
  BY DEF LikeStep, AddLike, RemoveLike, BumpLikes, ReadLiked, ReadTarget, NotifyLiked, InFlight
<1>2. work \in [Requests -> Work]
  BY DEF TypeInv, TypeOK, ControlOK
<1>3. ASSUME AddLike(r) \/ RemoveLike(r) \/ BumpLikes(r)
      PROVE  Moves(r) /\ UNCHANGED tables
  BY <1>1, <1>2, <1>3, GotoMoves DEF AddLike, RemoveLike, BumpLikes
<1>4. ASSUME ReadLiked(r) \/ ReadTarget(r) \/ NotifyLiked(r)
      PROVE  Moves(r) /\ UNCHANGED tables
  BY <1>1, <1>2, <1>4, GotoMoves, RollbackMoves DEF ReadLiked, ReadTarget, NotifyLiked
<1>5. QED
  BY <1>1, <1>3, <1>4 DEF LikeStep

\* The locks of a vote are different rows or modes, so taking one is not
\* taking the other.
LEMMA VoteLocks ==
  ASSUME NEW u, NEW t, NEW w
  PROVE  /\ LikeRow(u, t) # TargetRow(w)
         /\ \A row : Reference(row).mode # "NoKeyUpdate"
         /\ Delete(LikeRow(u, t)).row = LikeRow(u, t)
         /\ Update(TargetRow(w)).row = TargetRow(w)
         /\ Update(TargetRow(w)).mode = "NoKeyUpdate"
BY DEF LikeRow, TargetRow, PostRow, CommentRow, Delete, Update, Reference

\* A vote stays sound as its own request goes on.
LEMMA OwnVote ==
  ASSUME LikeInv, NEW r \in Requests, LikeStep(r), ~CommitLike(r), pc'[r] \in LikeSteps
  PROVE  VoteOK(r)'
<1> USE DEF LikeSteps
<1> DEFINE Gets(d) == [req |-> r, row |-> d.row, mode |-> d.mode] \in locks'
<1>1. /\ Moves(r) /\ UNCHANGED <<likes, like_count, posts, comments, job>> /\ VoteOK(r)
  BY LikeStatementFrame DEF LikeInv, Moves, tables
<1>2. /\ work \in [Requests -> Work] /\ pc \in [Requests -> Steps]
  BY DEF LikeInv, TypeInv, TypeOK, ControlOK
<1>3. /\ OnPost(r)' <=> OnPost(r)
      /\ Adding(r)' <=> Adding(r)
      /\ Liked(r)' = Liked(r) /\ NewLikeCount(r)' = NewLikeCount(r)
      /\ Live(job[r].item)' <=> Live(job[r].item)
  BY <1>1 DEF OnPost, Adding, Liked, NewLikeCount, Live
<1>4. ASSUME NEW D, Acquire(r, D)
      PROVE  /\ \A d : Holds(r, d) => Gets(d)
             /\ \A d \in D : Gets(d)
             /\ \A d : Gets(d) => Holds(r, d) \/ \E e \in D : e.row = d.row /\ e.mode = d.mode
  BY <1>4 DEF Acquire, Holds
<1>5. UNCHANGED locks => \A d : Gets(d) <=> Holds(r, d)
  BY DEF Holds
<1>6. HoldsTarget(r)' <=> Gets(Update(TargetRow(job[r].item)))
  BY <1>1 DEF HoldsTarget, Holds
<1>7. HoldsLike(r)' <=> Gets(Delete(LikeRow(job[r].user, job[r].item)))
  BY <1>1 DEF HoldsLike, Holds
<1> HIDE DEF Gets
<1>8. CASE AddLike(r) \/ RemoveLike(r)
  <2>1. work[r].rows = 0 /\ ~HoldsTarget(r) /\ (pc[r] = "AddLike" <=> Adding(r))
    BY <1>1, <1>8 DEF VoteOK, AddLike, RemoveLike
  <2>2. CASE UNCHANGED <<locks, work>> /\ pc'[r] \notin {"AddLike", "RemoveLike", "BumpLikes"}
    <3>1. work'[r].rows = 0 /\ ~HoldsTarget(r)'
      BY <1>5, <1>6, <2>1, <2>2 DEF HoldsTarget
    <3>2. QED
      BY <2>2, <3>1 DEF VoteOK
  <2>3. CASE /\ Acquire(r, {Delete(LikeRow(job[r].user, job[r].item))})
             /\ pc'[r] = "BumpLikes" /\ work'[r].rows = 1
             /\ Liked(r) \in likes <=> ~Adding(r)
    <3>1. HoldsLike(r)'
      BY <1>4, <1>7, <2>3
    <3>2. ~HoldsTarget(r)'
      BY <1>4, <1>6, <2>1, <2>3, VoteLocks DEF HoldsTarget
    <3>3. QED
      BY <1>1, <1>3, <2>3, <3>1, <3>2 DEF VoteOK
  <2>4. CASE AddLike(r)
    BY <1>2, <2>1, <2>2, <2>3, <2>4 DEF AddLike, AddLikeLocks, Goto, AfterBump, Work
  <2>5. CASE RemoveLike(r) /\ Liked(r) \in likes
    BY <1>2, <2>1, <2>3, <2>5 DEF RemoveLike, RemoveLikeLocks, Goto, Work
  <2>6. CASE RemoveLike(r) /\ Liked(r) \notin likes
    <3>1. UNCHANGED locks
      BY <2>6 DEF RemoveLike, RemoveLikeLocks, Acquire
    <3>2. QED
      BY <1>2, <2>2, <2>6, <3>1 DEF RemoveLike, Goto, AfterBump
  <2>7. QED
    BY <1>8, <2>4, <2>5, <2>6
<1>9. CASE BumpLikes(r)
  <2>1. /\ Acquire(r, BumpLikesLocks(r)) /\ pc'[r] = AfterBump(r)
        /\ work'[r].rows = work[r].rows /\ work'[r].val = NewLikeCount(r)
    BY <1>2, <1>9 DEF BumpLikes, Goto, Work
  <2>2. work[r].rows = 1 /\ HoldsLike(r) /\ (Liked(r) \in likes <=> ~Adding(r))
    BY <1>1, <1>9 DEF VoteOK, BumpLikes
  <2>3. HoldsLike(r)'
    BY <1>4, <1>7, <2>1, <2>2 DEF HoldsLike
  <2>4. Live(job[r].item) => HoldsTarget(r)'
    BY <1>4, <1>6, <2>1 DEF BumpLikesLocks
  <2>5. ~TargetRead(r)'
    BY <1>3, <2>1 DEF TargetRead, AfterBump
  <2>6. QED
    BY <1>1, <1>3, <2>1, <2>2, <2>3, <2>4, <2>5 DEF VoteOK, AfterBump
<1>10. CASE ReadLiked(r)
  <2>1. /\ UNCHANGED locks /\ pc[r] = "ReadLiked" /\ pc'[r] = AfterLiked(r)
        /\ work'[r].rows = work[r].rows /\ work'[r].val = work[r].val
    BY <1>2, <1>10 DEF ReadLiked, Goto, Work
  <2>2. TargetRead(r)' => TargetRead(r)
    BY <1>3, <2>1 DEF TargetRead, AfterLiked
  <2>3. QED
    BY <1>1, <1>3, <1>5, <1>6, <1>7, <2>1, <2>2 DEF VoteOK, HoldsTarget, HoldsLike, AfterLiked
<1>11. CASE ReadTarget(r)
  <2>1. /\ UNCHANGED locks /\ pc[r] = "ReadTarget" /\ Live(job[r].item)
        /\ pc'[r] \in {"NotifyLiked", AfterTarget(r)}
        /\ work'[r].rows = work[r].rows /\ work'[r].val = work[r].val
    BY <1>2, <1>11 DEF ReadTarget, Goto, Work, Rollback, Close
  <2>2. QED
    BY <1>1, <1>3, <1>5, <1>6, <1>7, <2>1 DEF VoteOK, HoldsTarget, HoldsLike, AfterTarget
<1>12. CASE NotifyLiked(r)
  <2>1. /\ Acquire(r, NotifyLikedLocks(r)) /\ pc[r] = "NotifyLiked"
        /\ pc'[r] = AfterTarget(r)
        /\ work'[r].rows = work[r].rows /\ work'[r].val = work[r].val
    BY <1>2, <1>12 DEF NotifyLiked, Goto, Work
  <2>2. \A d \in NotifyLikedLocks(r) : d.mode # "NoKeyUpdate"
    BY VoteLocks DEF NotifyLikedLocks
  <2>3. HoldsTarget(r)' <=> HoldsTarget(r)
    BY <1>4, <1>6, <2>1, <2>2, VoteLocks DEF HoldsTarget
  <2>4. HoldsLike(r) => HoldsLike(r)'
    BY <1>4, <1>7, <2>1 DEF HoldsLike
  <2>5. QED
    BY <1>1, <1>3, <2>1, <2>3, <2>4 DEF VoteOK, AfterTarget, TargetRead
<1>13. QED
  BY <1>8, <1>9, <1>10, <1>11, <1>12 DEF LikeStep

\* Likers are users, of whom there are finitely many.
LEMMA LikersFinite ==
  ASSUME NEW t
  PROVE  IsFiniteSet(Likers(t))
<1>1. IsFiniteSet(Users) /\ Likers(t) \subseteq Users
  BY StoreAssumption DEF Likers
<1>2. QED
  BY <1>1, FS_Subset

\* A commit of a vote changes the counter by what it changes in the table.
LEMMA CommitLikeCounts ==
  ASSUME LikeInv, NEW r \in Requests, CommitLike(r)
  PROVE  /\ CountsOK'
         /\ \A t \in Targets \ {job[r].item} : like_count'[t] = like_count[t]
         /\ work[r].rows = 0 => UNCHANGED <<likes, like_count>>
         /\ work[r].rows = 1 => HoldsLike(r) /\ HoldsTarget(r)
         /\ \A k : k # Liked(r) => (k \in likes' <=> k \in likes)
<1> DEFINE t == job[r].item
           u == job[r].user
<1>1. pc[r] = "CommitLike" /\ VoteOK(r) /\ work[r].rows \in {0, 1}
  BY DEF CommitLike, LikeInv, LikeSteps, TypeInv, TypeOK, ControlOK, Work
<1>2. t \in Targets /\ u \in Users /\ like_count \in [Targets -> Nat]
  BY <1>1, Inputs DEF LikeInv, TypeInv, TypeOK, TablesOK, ControlOK, InFlight, Fits, LikeSteps,
                      LikeOps, Targets
<1>3. CASE work[r].rows = 0
  <2>1. UNCHANGED <<likes, like_count>>
    BY <1>1, <1>3 DEF VoteOK, CommitLike, HoldsTarget
  <2>2. QED
    BY <1>3, <2>1 DEF LikeInv, CountsOK, Likers
<1>4. CASE work[r].rows = 1
  <2>1. /\ HoldsLike(r) /\ HoldsTarget(r) /\ work[r].val = NewLikeCount(r)
        /\ Liked(r) \in likes <=> ~Adding(r)
    BY <1>1, <1>4 DEF VoteOK, TargetRead
  <2>2. /\ likes' = IF Adding(r) THEN likes \cup {Liked(r)} ELSE likes \ {Liked(r)}
        /\ like_count' = [like_count EXCEPT ![t] = NewLikeCount(r)]
    BY <1>4, <2>1 DEF CommitLike, HoldsTarget
  <2>3. \A v, w : <<v, w>> = Liked(r) <=> v = u /\ w = t
    BY DEF Liked
  <2>4. \A w \in Targets \ {t} : Likers(w)' = Likers(w)
    BY <2>2, <2>3 DEF Likers
  <2>5. like_count[t] = Cardinality(Likers(t)) /\ IsFiniteSet(Likers(t))
    BY <1>2, LikersFinite DEF LikeInv, CountsOK
  <2>6. like_count'[t] = Cardinality({v \in Users : <<v, t>> \in likes'})
    <3>1. CASE Adding(r)
      <4>1. u \notin Likers(t) /\ {v \in Users : <<v, t>> \in likes'} = Likers(t) \cup {u}
        BY <1>2, <2>1, <2>2, <2>3, <3>1 DEF Likers
      <4>2. like_count'[t] = like_count[t] + 1
        BY <1>2, <2>2, <3>1 DEF NewLikeCount
      <4>3. QED
        BY <2>5, <4>1, <4>2, FS_AddElement
    <3>2. CASE ~Adding(r)
      <4>1. u \in Likers(t) /\ {v \in Users : <<v, t>> \in likes'} = Likers(t) \ {u}
        BY <1>2, <2>1, <2>2, <2>3, <3>2 DEF Likers
      <4>2. Cardinality(Likers(t) \ {u}) = Cardinality(Likers(t)) - 1
        BY <2>5, <4>1, FS_RemoveElement
      <4>3. like_count[t] > 0
        BY <2>5, <4>1, FS_EmptySet, FS_CardinalityType
      <4>4. QED
        BY <1>2, <2>2, <2>5, <3>2, <4>1, <4>2, <4>3 DEF NewLikeCount
    <3>3. QED
      BY <3>1, <3>2
  <2>7. \A w \in Targets \ {t} : like_count'[w] = like_count[w]
    BY <1>2, <2>2
  <2>8. CountsOK'
    BY <2>4, <2>6, <2>7 DEF LikeInv, CountsOK, Likers
  <2>9. QED
    BY <1>4, <2>1, <2>2, <2>7, <2>8
<1>5. QED
  BY <1>1, <1>3, <1>4

\* Votes of others are about other keys of likes and other locked targets.
LEMMA CommitLikeInv ==
  ASSUME LikeInv, TypeInv', NEW r \in Requests, CommitLike(r)
  PROVE  LikeInv'
<1>1. /\ Moves(r) /\ pc'[r] \notin LikeSteps /\ UNCHANGED <<posts, comments>>
  BY CommittedMoves DEF CommitLike, Committed, Close, InFlight, LikeSteps, LikeInv, TypeInv,
                        TypeOK, ControlOK
<1>2. LocksOK'
  BY <1>1, LocksPreserved DEF LikeInv
<1>3. ASSUME NEW s \in Requests, pc'[s] \in LikeSteps
      PROVE  VoteOK(s)'
  <2>1. s # r /\ pc'[s] = pc[s] /\ job'[s] = job[s] /\ work'[s] = work[s]
    BY <1>1, <1>3 DEF Moves, Keeps
  <2>2. \A d : Holds(s, d)' <=> Holds(s, d)
    BY <1>1, <2>1, LocksPreserved DEF LikeInv
  <2>3. VoteOK(s)
    BY <1>3, <2>1 DEF LikeInv
  <2>4. job[s].item \in Targets
    BY <1>3, <2>1 DEF LikeInv, TypeInv, TypeOK, ControlOK, Fits, LikeSteps, LikeOps, Targets
  <2>5. \A row : ~(Holds(r, Delete(row)) /\ Holds(s, Delete(row)))
                 /\ ~(Holds(r, Update(row)) /\ Holds(s, Update(row)))
    BY <2>1 DEF LikeInv, LocksOK, Holds, Delete, Update, Conflict
  <2>6. work[s].rows = 1 => (Liked(s) \in likes' <=> Liked(s) \in likes)
    <3>1. work[s].rows = 1 /\ work[r].rows = 1 => Liked(s) # Liked(r)
      BY <2>3, <2>5, CommitLikeCounts DEF VoteOK, HoldsLike, Liked
    <3>2. work[r].rows \in {0, 1}
      BY DEF LikeInv, TypeInv, TypeOK, ControlOK, Work
    <3>3. QED
      BY <3>1, <3>2, CommitLikeCounts
  <2>7. HoldsTarget(s) => like_count'[job[s].item] = like_count[job[s].item]
    <3>1. HoldsTarget(s) /\ work[r].rows = 1 => job[s].item # job[r].item
      BY <2>5, CommitLikeCounts DEF HoldsTarget
    <3>2. work[r].rows \in {0, 1}
      BY DEF LikeInv, TypeInv, TypeOK, ControlOK, Work
    <3>3. QED
      BY <2>4, <3>1, <3>2, CommitLikeCounts
  <2>8. QED
    BY <1>1, <2>1, <2>2, <2>3, <2>6, <2>7
       DEF VoteOK, Adding, HoldsLike, HoldsTarget, Liked, NewLikeCount, TargetRead, OnPost, Live
<1>4. QED
  BY <1>2, <1>3, CommitLikeCounts DEF LikeInv

\* The store before the first call: the counters match the likes.
LEMMA InitInv == Init => LikeInv
<1> SUFFICES ASSUME Init PROVE LikeInv
  OBVIOUS
<1>1. TypeInv
  BY InitTyped
<1>2. LocksOK /\ CountsOK
  BY DEF Init, StoreInit, LocksOK, CountsOK, Likers
<1>3. \A r \in Requests : pc[r] \notin LikeSteps
  BY DEF Init, StoreInit, LikeSteps
<1>4. QED
  BY <1>1, <1>2, <1>3 DEF LikeInv

\* Every step of the system keeps the votes sound and the counters exact.
LEMMA LikeInvPreserved ==
  ASSUME LikeInv, [Next]_vars
  PROVE  LikeInv'
<1>1. TypeInv /\ TypeInv'
  BY TypePreserved DEF LikeInv
<1>2. ASSUME NEW r \in Requests, Moves(r), UNCHANGED <<likes, like_count>>,
             posts' \subseteq posts, NewComments(r),
             pc[r] \in CommentSteps \cup CollectionSteps \cup PostSteps
      PROVE  LikeInv'
  <2>1. job'[r].op \notin LikeOps
    BY <1>1, <1>2 DEF Moves, TypeInv, TypeOK, ControlOK, Fits, CommentSteps, CollectionSteps,
                      CreateSteps, DeleteSteps, ShelfSteps, FolderSteps, PostSteps, LikeOps,
                      PostLikeOps, CommentLikeOps
  <2>2. pc'[r] \notin LikeSteps
    BY <1>1, <2>1 DEF TypeInv, TypeOK, ControlOK, Fits
  <2>3. QED
    BY <1>1, <1>2, <2>2, VotesKept
<1>3. ASSUME NEW r \in Requests, CommentStep(r) \/ CollectionStep(r) \/ PostStep(r)
      PROVE  LikeInv'
  BY <1>1, <1>2, <1>3, CommentStepFrame, CollectionStepFrame, PostStepFrame DEF NewComments
<1>4. ASSUME NEW r \in Requests, LikeStep(r)
      PROVE  LikeInv'
  <2>1. CASE CommitLike(r)
    BY <1>1, <2>1, CommitLikeInv
  <2>2. CASE ~CommitLike(r)
    BY <1>1, <1>4, <2>2, LikeStatementFrame, OwnVote, VotesKept DEF tables, NewComments
  <2>3. QED
    BY <2>1, <2>2
<1>5. ASSUME NEW r \in Requests, Timeout(r) \/ DeadlockVictim(r)
      PROVE  LikeInv'
  <2>1. Moves(r) /\ UNCHANGED tables
    BY <1>1, <1>5, RollbackMoves DEF Timeout, DeadlockVictim
  <2>2. pc'[r] \notin LikeSteps
    BY <1>1, <1>5 DEF Timeout, DeadlockVictim, Rollback, Close, LikeSteps, TypeInv, TypeOK,
                      ControlOK
  <2>3. QED
    BY <1>1, <2>1, <2>2, VotesKept DEF tables, NewComments
<1>6. CASE UNCHANGED vars
  BY <1>1, <1>6 DEF LikeInv, LocksOK, CountsOK, VoteOK, Likers, Holds, HoldsLike, HoldsTarget,
                    Liked, Adding, NewLikeCount, TargetRead, OnPost, Live, InFlight, vars, tables
<1>7. QED
  BY <1>1, <1>3, <1>4, <1>5, <1>6, StartInv DEF Next, Step, Quiet

\* Whatever number of users like, unlike, comment, collect and delete at the
\* same time: the like counter of every live post and comment is the number
\* of its likes, in every state between two statements.
THEOREM LikeCountsExact == Spec => []LikeCountExact
<1>1. Init => LikeInv
  BY InitInv
<1>2. LikeInv /\ [Next]_vars => LikeInv'
  BY LikeInvPreserved
<1>3. LikeInv => LikeCountExact
  BY DEF LikeInv, CountsOK, LikeCountExact, TypeInv, TypeOK, TablesOK, Targets
<1>4. QED
  BY <1>1, <1>2, <1>3, PTL DEF Spec

-----------------------------------------------------------------------------
(* What a request may have locked *)

\* Every locking mode shows in the lock asked for.
LEMMA LockKinds ==
  ASSUME NEW row
  PROVE  /\ Delete(row).row = row /\ Delete(row).mode = "ForUpdate"
         /\ Update(row).row = row /\ Update(row).mode = "NoKeyUpdate"
         /\ Reference(row).row = row /\ Reference(row).mode = "KeyShare"
BY DEF Delete, Update, Reference

\* Rows of different tables, or with different keys, are different.
LEMMA RowsApart ==
  ASSUME NEW x, NEW y, NEW z, NEW w
  PROVE  /\ PostRow(x) # CommentRow(y) /\ PostRow(x) # FolderRow(y)
         /\ CommentRow(x) # FolderRow(y)
         /\ PostRow(x) # LikeRow(y, z) /\ CommentRow(x) # LikeRow(y, z)
         /\ FolderRow(x) # LikeRow(y, z)
         /\ PostRow(x) # CollectionRow(y, z) /\ CommentRow(x) # CollectionRow(y, z)
         /\ FolderRow(x) # CollectionRow(y, z) /\ LikeRow(x, w) # CollectionRow(y, z)
         /\ PostRow(x) = PostRow(y) => x = y
         /\ CommentRow(x) = CommentRow(y) => x = y
         /\ FolderRow(x) = FolderRow(y) => x = y
         /\ CollectionRow(x, w) = CollectionRow(y, z) => x = y /\ w = z
         /\ LikeRow(x, w) = LikeRow(y, z) => x = y /\ w = z
         /\ TargetRow(x) \in {PostRow(x), CommentRow(x)}
BY DEF PostRow, CommentRow, FolderRow, LikeRow, CollectionRow, TargetRow

\* A row locked for deletion is locked by nobody else, and one locked for an
\* update by nobody else for an update.
LEMMA Excludes ==
  ASSUME LocksOK, NEW r \in Requests, NEW s \in Requests \ {r}, NEW row
  PROVE  /\ Holds(r, Delete(row)) => ~Pins(s, row)
         /\ Pins(r, row) => ~Holds(s, Delete(row))
         /\ Holds(r, Update(row)) => ~Holds(s, Update(row))
<1>1. ASSUME NEW m, NEW n, [req |-> r, row |-> row, mode |-> m] \in locks,
             [req |-> s, row |-> row, mode |-> n] \in locks
      PROVE  ~Conflict(m, n)
  BY <1>1 DEF LocksOK
<1>2. QED
  BY <1>1, LockKinds DEF Pins, Holds, Conflict

\* The columns of a comment that anyone can name never change.
LEMMA ColumnsFixed ==
  ASSUME NEW r \in Requests, Moves(r) \/ (pc[r] = "idle" /\ Keeps(r)),
         NEW c \in CommentIds, Written(c)
  PROVE  Comment(c)' = Comment(c)
<1>1. c \in OldComments \/ (c \in Requests /\ job'[c] = job[c])
  BY DEF Moves, Keeps, CommentIds, Written
<1>2. QED
  BY <1>1 DEF Comment

\* So the post a call is about is the same in every step of another.
LEMMA PostFixed ==
  ASSUME TypeInv, NEW r \in Requests, Moves(r) \/ (pc[r] = "idle" /\ Keeps(r)),
         NEW s \in Requests, s # r \/ Moves(r)
  PROVE  PostOf(s)' = PostOf(s)
<1>1. PICK j : j = job[s]
  OBVIOUS
<1>2. job'[s] = j
  BY <1>1 DEF Moves, Keeps
<1>3. j.item \in CommentIds => Comment(j.item)' = Comment(j.item)
  BY <1>1, ColumnsFixed DEF TypeInv, NamesWritten
<1>4. QED
  BY <1>1, <1>2, <1>3 DEF PostOf, Comment

\* A statement of r may lock what the point it reaches allows, and a
\* transaction that is over holds nothing.
LEMMA LocksFitKept ==
  ASSUME TypeInv, LocksFit, NEW r \in Requests, Moves(r),
         \/ locks' = {l \in locks : l.req # r}
         \/ \E D : /\ UNCHANGED locks \/ Acquire(r, D)
                   /\ D \subseteq Allowed(pc'[r], job[r], PostOf(r))
                   /\ MayHold(r) \subseteq Allowed(pc'[r], job[r], PostOf(r))
  PROVE  LocksFit'
<1>1. ASSUME NEW s \in Requests \ {r}
      PROVE  MayHold(s)' = MayHold(s)
  <2>1. pc'[s] = pc[s] /\ job'[s] = job[s] /\ PostOf(s)' = PostOf(s)
    BY PostFixed DEF Moves, Keeps
  <2>2. QED
    BY <2>1 DEF MayHold
<1>2. MayHold(r)' = Allowed(pc'[r], job[r], PostOf(r))
  <2>1. job'[r] = job[r] /\ PostOf(r)' = PostOf(r)
    BY PostFixed DEF Moves
  <2>2. QED
    BY <2>1 DEF MayHold
<1>3. \A l \in locks : l.req \in Requests /\ [row |-> l.row, mode |-> l.mode] \in MayHold(l.req)
  BY DEF LocksFit, TypeInv, TypeOK, ControlOK, LockType
<1>4. CASE locks' = {l \in locks : l.req # r}
  BY <1>1, <1>3, <1>4 DEF LocksFit
<1>5. ASSUME NEW D, UNCHANGED locks \/ Acquire(r, D),
             D \subseteq Allowed(pc'[r], job[r], PostOf(r)),
             MayHold(r) \subseteq Allowed(pc'[r], job[r], PostOf(r))
      PROVE  LocksFit'
  <2>1. ASSUME NEW l \in locks'
        PROVE  [row |-> l.row, mode |-> l.mode] \in MayHold(l.req)'
    <3>1. CASE l \in locks
      BY <1>1, <1>2, <1>3, <1>5, <3>1
    <3>2. CASE l \notin locks
      <4>1. PICK d \in D : l = [req |-> r, row |-> d.row, mode |-> d.mode]
        BY <1>5, <3>2 DEF Acquire
      <4>2. d \in Allowed(pc'[r], job[r], PostOf(r))
        BY <1>5
      <4>3. d = [row |-> d.row, mode |-> d.mode]
        BY <4>2 DEF Allowed, Delete, Update, Reference
      <4>4. QED
        BY <1>2, <4>1, <4>2, <4>3
    <3>3. QED
      BY <3>1, <3>2
  <2>2. QED
    BY <2>1 DEF LocksFit
<1>6. QED
  BY <1>4, <1>5

\* The like handlers lock the vote, then its target, then what a notification
\* references.
LEMMA LikeLocksFit ==
  ASSUME TypeInv, LocksFit, NEW r \in Requests, LikeStep(r)
  PROVE  LocksFit'
<1> DEFINE j == job[r]
           p == PostOf(r)
<1>1. /\ InFlight(r) /\ pc[r] \in LikeSteps /\ pc \in [Requests -> Steps]
      /\ j.item \in Posts <=> OnPost(r)
      /\ OnPost(r) => j.item \notin CommentIds
      /\ ~OnPost(r) => j.item \in CommentIds
  <2>1. InFlight(r) /\ pc[r] \in LikeSteps
    BY DEF LikeStep, AddLike, RemoveLike, BumpLikes, ReadLiked, ReadTarget, NotifyLiked,
           CommitLike, InFlight, LikeSteps
  <2>2. QED
    BY <2>1, StoreAssumption DEF TypeInv, TypeOK, ControlOK, Fits, OnPost, LikeOps
<1>2. Moves(r)
  <2>1. CASE CommitLike(r)
    BY <1>1, <2>1, CommittedMoves DEF CommitLike
  <2>2. CASE ~CommitLike(r)
    BY <2>2, LikeStatementFrame
  <2>3. QED
    BY <2>1, <2>2
<1>3. CASE locks' = {l \in locks : l.req # r}
  BY <1>2, <1>3, LocksFitKept
<1>4. ASSUME NEW D, UNCHANGED locks \/ Acquire(r, D), D \subseteq Allowed(pc'[r], j, p),
             MayHold(r) \subseteq Allowed(pc'[r], j, p)
      PROVE  LocksFit'
  BY <1>2, <1>4, LocksFitKept
<1> USE DEF MayHold, Allowed
<1> HIDE DEF j, p
<1>5. CASE AddLike(r)
  <2>1. /\ pc[r] = "AddLike"
        /\ UNCHANGED locks \/ Acquire(r, AddLikeLocks(r))
        /\ pc'[r] \in {"ReadLiked", "ReadTarget", "BumpLikes"}
    BY <1>1, <1>5 DEF AddLike, Goto, AfterBump
  <2>2. AddLikeLocks(r) \subseteq Allowed(pc'[r], j, p)
    BY <2>1 DEF AddLikeLocks, j
  <2>3. QED
    BY <1>4, <2>1, <2>2
<1>6. CASE RemoveLike(r)
  <2>1. /\ pc[r] = "RemoveLike" /\ Acquire(r, RemoveLikeLocks(r))
        /\ pc'[r] \in {"ReadLiked", "ReadTarget", "BumpLikes"}
    BY <1>1, <1>6 DEF RemoveLike, Goto, AfterBump
  <2>2. RemoveLikeLocks(r) \subseteq Allowed(pc'[r], j, p)
    BY <2>1 DEF RemoveLikeLocks, j
  <2>3. QED
    BY <1>4, <2>1, <2>2
<1>7. CASE BumpLikes(r)
  <2>1. /\ pc[r] = "BumpLikes" /\ Acquire(r, BumpLikesLocks(r))
        /\ pc'[r] \in {"ReadLiked", "ReadTarget"}
    BY <1>1, <1>7 DEF BumpLikes, Goto, AfterBump
  <2>2. BumpLikesLocks(r) \subseteq Allowed(pc'[r], j, p)
    BY <2>1 DEF BumpLikesLocks, j
  <2>3. MayHold(r) \subseteq Allowed(pc'[r], j, p)
    BY <2>1 DEF j, p
  <2>4. QED
    BY <1>4, <2>1, <2>2, <2>3
<1>8. CASE ReadLiked(r)
  <2>1. pc[r] = "ReadLiked" /\ UNCHANGED locks /\ pc'[r] \in {"ReadTarget", "CommitLike"}
    BY <1>1, <1>8 DEF ReadLiked, Goto, AfterLiked
  <2>2. MayHold(r) \subseteq Allowed(pc'[r], j, p)
    BY <2>1 DEF j, p
  <2>3. QED
    BY <1>4, <2>1, <2>2
<1>9. CASE ReadTarget(r)
  <2>1. CASE Live(job[r].item)
    <3>1. /\ pc[r] = "ReadTarget" /\ UNCHANGED locks
          /\ pc'[r] \in {"NotifyLiked", "ReadLiked", "CommitLike"}
      BY <1>1, <1>9, <2>1 DEF ReadTarget, Goto, AfterTarget
    <3>2. MayHold(r) \subseteq Allowed(pc'[r], j, p)
      BY <3>1 DEF j, p
    <3>3. QED
      BY <1>4, <3>1, <3>2
  <2>2. CASE ~Live(job[r].item)
    BY <1>3, <1>9, <2>2 DEF ReadTarget, Rollback, Close
  <2>3. QED
    BY <2>1, <2>2
<1>10. CASE NotifyLiked(r)
  <2>1. /\ pc[r] = "NotifyLiked" /\ Acquire(r, NotifyLikedLocks(r))
        /\ pc'[r] \in {"ReadLiked", "CommitLike"}
    BY <1>1, <1>10 DEF NotifyLiked, Goto, AfterTarget
  <2>2. NotifyLikedLocks(r) \subseteq Allowed(pc'[r], j, p)
    BY <1>1, <2>1 DEF NotifyLikedLocks, NoticePost, PostOf, TargetRow, j, p
  <2>3. MayHold(r) \subseteq Allowed(pc'[r], j, p)
    BY <2>1 DEF j, p
  <2>4. QED
    BY <1>4, <2>1, <2>2, <2>3
<1>11. CASE CommitLike(r)
  BY <1>3, <1>11 DEF CommitLike, Committed, Close
<1>12. QED
  BY <1>5, <1>6, <1>7, <1>8, <1>9, <1>10, <1>11 DEF LikeStep

\* The comment handlers lock what a new comment references, or the comments
\* they delete, and then the post whose count they write.
LEMMA CommentLocksFit ==
  ASSUME TypeInv, LocksFit, NEW r \in Requests, CommentStep(r)
  PROVE  LocksFit'
<1> DEFINE j == job[r]
           p == PostOf(r)
<1>1. /\ Moves(r) /\ pc[r] \in CommentSteps /\ pc \in [Requests -> Steps]
      /\ comments \subseteq CommentIds
  BY CommentStepFrame DEF TypeInv, TypeOK, ControlOK, TablesOK
<1>2. pc[r] \in DeleteSteps => j.item \in CommentIds
  BY DEF TypeInv, TypeOK, ControlOK, Fits
<1>3. CASE locks' = {l \in locks : l.req # r}
  BY <1>1, <1>3, LocksFitKept
<1>4. ASSUME NEW D, UNCHANGED locks \/ Acquire(r, D), D \subseteq Allowed(pc'[r], j, p),
             MayHold(r) \subseteq Allowed(pc'[r], j, p)
      PROVE  LocksFit'
  BY <1>1, <1>4, LocksFitKept
<1> USE DEF MayHold, Allowed
<1> HIDE DEF j, p
<1>5. CASE LookupThread(r) \/ LookupComment(r)
  <2>1. CASE UNCHANGED locks
    <3>1. MayHold(r) = {}
      BY <1>5 DEF LookupThread, LookupComment
    <3>2. QED
      BY <1>4, <2>1, <3>1
  <2>2. QED
    BY <1>3, <1>5, <2>1 DEF LookupThread, LookupComment, Rollback, Close
<1>6. CASE InsertComment(r)
  <2>1. CASE Acquire(r, InsertCommentLocks(r)) /\ Goto(r, "BumpComments")
    <3>1. pc[r] = "InsertComment" /\ pc'[r] = "BumpComments"
      BY <1>1, <1>6, <2>1 DEF InsertComment, Goto
    <3>2. InsertCommentLocks(r) \subseteq Allowed(pc'[r], j, p)
      BY <3>1 DEF InsertCommentLocks, j
    <3>3. QED
      BY <1>4, <2>1, <3>1, <3>2
  <2>2. QED
    BY <1>3, <1>6, <2>1 DEF InsertComment, Rollback, Close
<1>7. CASE BumpComments(r)
  <2>1. /\ pc[r] = "BumpComments" /\ pc'[r] = "CommitComment"
        /\ Acquire(r, BumpCommentsLocks(r))
    BY <1>1, <1>7 DEF BumpComments, Goto
  <2>2. BumpCommentsLocks(r) \subseteq Allowed(pc'[r], j, p)
    BY <2>1 DEF BumpCommentsLocks, j
  <2>3. MayHold(r) \subseteq Allowed(pc'[r], j, p)
    BY <2>1 DEF j, p
  <2>4. QED
    BY <1>4, <2>1, <2>2, <2>3
<1>8. CASE CommitComment(r) \/ LoadAuthor(r) \/ CommitDeleteComment(r)
  BY <1>3, <1>8 DEF CommitComment, LoadAuthor, CommitDeleteComment, Committed, Rollback, Close
<1>9. CASE DeleteCommentRow(r)
  <2>1. CASE Acquire(r, DeleteCommentRowLocks(r)) /\ Goto(r, "CascadeReplies")
    <3>1. pc[r] = "DeleteCommentRow" /\ pc'[r] = "CascadeReplies"
      BY <1>1, <1>9, <2>1 DEF DeleteCommentRow, Goto
    <3>2. DeleteCommentRowLocks(r) \subseteq Allowed(pc'[r], j, p)
      BY <1>2, <3>1 DEF DeleteCommentRowLocks, DeleteSteps, j
    <3>3. QED
      BY <1>4, <2>1, <3>1, <3>2
  <2>2. QED
    BY <1>3, <1>9, <2>1 DEF DeleteCommentRow, Rollback, Close
<1>10. CASE CascadeReplies(r)
  <2>1. pc[r] = "CascadeReplies" /\ pc'[r] \in {"CascadeReplies", "SnapshotCount"}
    BY <1>1, <1>10 DEF CascadeReplies, Goto
  <2>2. MayHold(r) \subseteq Allowed(pc'[r], j, p)
    BY <2>1 DEF j, p
  <2>3. ASSUME NEW c \in RepliesLeft(r), Acquire(r, {Delete(CommentRow(c))})
        PROVE  LocksFit'
    <3>1. {Delete(CommentRow(c))} \subseteq Allowed(pc'[r], j, p)
      BY <1>1, <2>1 DEF RepliesLeft
    <3>2. QED
      BY <1>4, <2>2, <2>3, <3>1
  <2>4. QED
    BY <1>4, <1>10, <2>2, <2>3 DEF CascadeReplies
<1>11. CASE SnapshotCount(r)
  <2>1. pc[r] = "SnapshotCount" /\ pc'[r] = "RecountComments" /\ UNCHANGED locks
    BY <1>1, <1>11 DEF SnapshotCount, Goto
  <2>2. MayHold(r) \subseteq Allowed(pc'[r], j, p)
    BY <2>1 DEF j, p
  <2>3. QED
    BY <1>4, <2>1, <2>2
<1>12. CASE RecountComments(r)
  <2>1. /\ pc[r] = "RecountComments" /\ pc'[r] = "CommitDeleteComment"
        /\ Acquire(r, RecountCommentsLocks(r))
    BY <1>1, <1>12 DEF RecountComments, Goto
  <2>2. RecountCommentsLocks(r) \subseteq Allowed(pc'[r], j, p)
    BY <1>2, <2>1 DEF RecountCommentsLocks, PostOf, DeleteSteps, j, p
  <2>3. MayHold(r) \subseteq Allowed(pc'[r], j, p)
    BY <2>1 DEF j, p
  <2>4. QED
    BY <1>4, <2>1, <2>2, <2>3
<1>13. QED
  BY <1>5, <1>6, <1>7, <1>8, <1>9, <1>10, <1>11, <1>12 DEF CommentStep

\* The collection handlers lock the collection and what it references, and
\* then the post; the deletion of a folder locks it and what it holds.
LEMMA CollectionLocksFit ==
  ASSUME TypeInv, LocksFit, NEW r \in Requests, CollectionStep(r)
  PROVE  LocksFit'
<1> DEFINE j == job[r]
           p == PostOf(r)
<1>1. /\ Moves(r) /\ pc[r] \in CollectionSteps /\ pc \in [Requests -> Steps]
      /\ collections \subseteq Users \X Posts
  BY CollectionStepFrame DEF TypeInv, TypeOK, ControlOK, TablesOK
<1>2. CASE locks' = {l \in locks : l.req # r}
  BY <1>1, <1>2, LocksFitKept
<1>3. ASSUME NEW D, UNCHANGED locks \/ Acquire(r, D), D \subseteq Allowed(pc'[r], j, p),
             MayHold(r) \subseteq Allowed(pc'[r], j, p)
      PROVE  LocksFit'
  BY <1>1, <1>3, LocksFitKept
<1> USE DEF MayHold, Allowed
<1> HIDE DEF j, p
<1>4. CASE LookupShelf(r)
  <2>1. CASE UNCHANGED locks
    <3>1. MayHold(r) = {}
      BY <1>4 DEF LookupShelf
    <3>2. QED
      BY <1>3, <2>1, <3>1
  <2>2. QED
    BY <1>2, <1>4, <2>1 DEF LookupShelf, Rollback, Close
<1>5. CASE AddCollection(r)
  <2>1. pc[r] = "AddCollection"
    BY <1>5 DEF AddCollection
  <2>2. CASE Acquire(r, AddCollectionLocks(r)) /\ Goto(r, "BumpCollects")
    <3>1. pc'[r] = "BumpCollects"
      BY <1>1, <2>2 DEF Goto
    <3>2. AddCollectionLocks(r) \subseteq Allowed(pc'[r], j, p)
      BY <3>1 DEF AddCollectionLocks, j
    <3>3. QED
      BY <1>3, <2>1, <2>2, <3>2
  <2>3. CASE UNCHANGED locks
    BY <1>3, <2>1, <2>3
  <2>4. QED
    BY <1>2, <1>5, <2>2, <2>3 DEF AddCollection, Rollback, Close
<1>6. CASE RemoveCollection(r)
  <2>1. /\ pc[r] = "RemoveCollection" /\ pc'[r] \in {"BumpCollects", "ReadShelf"}
        /\ Acquire(r, RemoveCollectionLocks(r))
    BY <1>1, <1>6 DEF RemoveCollection, Goto
  <2>2. RemoveCollectionLocks(r) \subseteq Allowed(pc'[r], j, p)
    BY <2>1 DEF RemoveCollectionLocks, j
  <2>3. QED
    BY <1>3, <2>1, <2>2
<1>7. CASE BumpCollects(r)
  <2>1. /\ pc[r] = "BumpCollects" /\ pc'[r] = "ReadShelf" /\ Acquire(r, BumpCollectsLocks(r))
    BY <1>1, <1>7 DEF BumpCollects, Goto
  <2>2. BumpCollectsLocks(r) \subseteq Allowed(pc'[r], j, p)
    BY <2>1 DEF BumpCollectsLocks, j
  <2>3. MayHold(r) \subseteq Allowed(pc'[r], j, p)
    BY <2>1 DEF j, p
  <2>4. QED
    BY <1>3, <2>1, <2>2, <2>3
<1>8. CASE ReadShelf(r)
  <2>1. CASE UNCHANGED locks /\ Goto(r, "CommitCollection")
    <3>1. pc[r] = "ReadShelf" /\ pc'[r] = "CommitCollection"
      BY <1>1, <1>8, <2>1 DEF ReadShelf, Goto
    <3>2. MayHold(r) \subseteq Allowed(pc'[r], j, p)
      BY <3>1 DEF j, p
    <3>3. QED
      BY <1>3, <2>1, <3>2
  <2>2. QED
    BY <1>2, <1>8, <2>1 DEF ReadShelf, Rollback, Close
<1>9. CASE CommitCollection(r) \/ CommitDeleteFolder(r)
  BY <1>2, <1>9 DEF CommitCollection, CommitDeleteFolder, Committed, Close
<1>10. CASE DeleteFolderRow(r)
  <2>1. CASE Acquire(r, DeleteFolderRowLocks(r)) /\ Goto(r, "CascadeUnfile")
    <3>1. pc[r] = "DeleteFolderRow" /\ pc'[r] = "CascadeUnfile"
      BY <1>1, <1>10, <2>1 DEF DeleteFolderRow, Goto
    <3>2. DeleteFolderRowLocks(r) \subseteq Allowed(pc'[r], j, p)
      BY <3>1 DEF DeleteFolderRowLocks, j
    <3>3. QED
      BY <1>3, <2>1, <3>1, <3>2
  <2>2. QED
    BY <1>2, <1>10, <2>1 DEF DeleteFolderRow, Rollback, Close
<1>11. CASE CascadeUnfile(r)
  <2>1. pc[r] = "CascadeUnfile" /\ pc'[r] \in {"CascadeUnfile", "CommitDeleteFolder"}
    BY <1>1, <1>11 DEF CascadeUnfile, Goto
  <2>2. MayHold(r) \subseteq Allowed(pc'[r], j, p)
    BY <2>1 DEF j, p
  <2>3. ASSUME NEW k \in FiledLeft(r), Acquire(r, {Update(CollectionRow(k[1], k[2]))})
        PROVE  LocksFit'
    <3>1. {Update(CollectionRow(k[1], k[2]))} \subseteq Allowed(pc'[r], j, p)
      BY <1>1, <2>1 DEF FiledLeft
    <3>2. QED
      BY <1>3, <2>2, <2>3, <3>1
  <2>4. QED
    BY <1>3, <1>11, <2>2, <2>3 DEF CascadeUnfile
<1>12. QED
  BY <1>4, <1>5, <1>6, <1>7, <1>8, <1>9, <1>10, <1>11 DEF CollectionStep

\* The deletion of a post locks it, and then what hangs on it.
LEMMA PostLocksFit ==
  ASSUME TypeInv, LocksFit, NEW r \in Requests, PostStep(r)
  PROVE  LocksFit'
<1> DEFINE j == job[r]
           p == PostOf(r)
<1>1. /\ Moves(r) /\ pc[r] \in PostSteps /\ pc \in [Requests -> Steps]
      /\ comments \subseteq CommentIds
  BY PostStepFrame DEF TypeInv, TypeOK, ControlOK, TablesOK
<1>2. CASE locks' = {l \in locks : l.req # r}
  BY <1>1, <1>2, LocksFitKept
<1>3. ASSUME NEW D, UNCHANGED locks \/ Acquire(r, D), D \subseteq Allowed(pc'[r], j, p),
             MayHold(r) \subseteq Allowed(pc'[r], j, p)
      PROVE  LocksFit'
  BY <1>1, <1>3, LocksFitKept
<1> USE DEF MayHold, Allowed
<1> HIDE DEF j, p
<1>4. CASE LookupOwn(r)
  <2>1. CASE UNCHANGED locks
    <3>1. MayHold(r) = {}
      BY <1>4 DEF LookupOwn
    <3>2. QED
      BY <1>3, <2>1, <3>1
  <2>2. QED
    BY <1>2, <1>4, <2>1 DEF LookupOwn, Rollback, Close
<1>5. CASE DeletePostRow(r)
  <2>1. /\ pc[r] = "DeletePostRow" /\ pc'[r] \in {"CascadePost", "CommitDeletePost"}
        /\ Acquire(r, DeletePostRowLocks(r))
    BY <1>1, <1>5 DEF DeletePostRow, Goto
  <2>2. DeletePostRowLocks(r) \subseteq Allowed(pc'[r], j, p)
    BY <2>1 DEF DeletePostRowLocks, j
  <2>3. QED
    BY <1>3, <2>1, <2>2
<1>6. CASE CascadePost(r)
  <2>1. pc[r] = "CascadePost" /\ pc'[r] \in {"CascadePost", "CommitDeletePost"}
    BY <1>1, <1>6 DEF CascadePost, Goto
  <2>2. MayHold(r) \subseteq Allowed(pc'[r], j, p)
    BY <2>1 DEF j, p
  <2>3. ASSUME NEW d \in CascadePostLocks(r), Acquire(r, {d})
        PROVE  LocksFit'
    <3>1. \/ \E c \in CommentIds : d = Delete(CommentRow(c))
          \/ \E u \in Users : d = Delete(CollectionRow(u, j.item))
      BY <1>1, <2>3 DEF CascadePostLocks, Thread, ShelvedRows, Collectors, j
    <3>2. d \in Allowed(pc'[r], j, p)
      BY <2>1, <3>1
    <3>3. QED
      BY <1>3, <2>2, <2>3, <3>2
  <2>4. QED
    BY <1>3, <1>6, <2>2, <2>3 DEF CascadePost
<1>7. CASE CommitDeletePost(r)
  BY <1>2, <1>7 DEF CommitDeletePost, Committed, Close
<1>8. QED
  BY <1>4, <1>5, <1>6, <1>7 DEF PostStep

\* A call that has just begun holds nothing.
LEMMA StartLocksFit ==
  ASSUME TypeInv, LocksOK, LocksFit, NEW r \in Requests, Start(r)
  PROVE  LocksFit'
<1>1. /\ pc[r] = "idle" /\ UNCHANGED locks
      /\ \A s \in Requests \ {r} : pc'[s] = pc[s] /\ job'[s] = job[s] /\ work'[s] = work[s]
  BY DEF Start, StartLike, StartComment, StartCollection, StartDeletePost, Begin,
         TypeInv, TypeOK, ControlOK
<1>2. ASSUME NEW s \in Requests \ {r}
      PROVE  MayHold(s)' = MayHold(s)
  <2>1. pc'[s] = pc[s] /\ job'[s] = job[s] /\ PostOf(s)' = PostOf(s)
    BY <1>1, PostFixed DEF Keeps
  <2>2. QED
    BY <2>1 DEF MayHold
<1>3. \A l \in locks : l.req \in Requests \ {r}
  BY <1>1 DEF LocksOK, InFlight, TypeInv, TypeOK, ControlOK, LockType
<1>4. QED
  BY <1>1, <1>2, <1>3 DEF LocksFit

\* At every step, what a request holds is what it may hold.
LEMMA LocksFitPreserved ==
  ASSUME TypeInv, LocksOK, LocksFit, [Next]_vars
  PROVE  LocksFit'
<1>1. ASSUME NEW r \in Requests, Timeout(r) \/ DeadlockVictim(r)
      PROVE  LocksFit'
  <2>1. Moves(r) /\ locks' = {l \in locks : l.req # r}
    BY <1>1, RollbackMoves DEF Timeout, DeadlockVictim, Rollback, Close
  <2>2. QED
    BY <2>1, LocksFitKept
<1>2. CASE UNCHANGED vars
  BY <1>2 DEF LocksFit, MayHold, PostOf, Comment, vars, tables
<1>3. QED
  BY <1>1, <1>2, StartLocksFit, LikeLocksFit, CommentLocksFit, CollectionLocksFit, PostLocksFit
     DEF Next, Step, Quiet

-----------------------------------------------------------------------------
(* Threads: comments, what they hang on, and what is told of them *)

\* What a request holds is what its point allows.
LEMMA HeldAllowed ==
  ASSUME LocksFit, NEW r \in Requests, NEW row
  PROVE  /\ Holds(r, Delete(row)) => Delete(row) \in MayHold(r)
         /\ Holds(r, Update(row)) => Update(row) \in MayHold(r)
         /\ Holds(r, Reference(row)) => Reference(row) \in MayHold(r)
<1>1. ASSUME NEW m, [req |-> r, row |-> row, mode |-> m] \in locks
      PROVE  [row |-> row, mode |-> m] \in MayHold(r)
  BY <1>1 DEF LocksFit
<1>2. QED
  BY <1>1 DEF Holds, Delete, Update, Reference

ThreadsOK(s) == CreateOK(s) /\ DeleteOK(s) /\ PurgeOK(s) /\ NoteOK(s)

\* A step of r leaves what is known of another request true, unless it
\* touches the comments that one dooms or a counter it has locked.
LEMMA OthersThreads ==
  ASSUME TypeInv, NEW r \in Requests, Moves(r) \/ (pc[r] = "idle" /\ Keeps(r)),
         NEW s \in Requests \ {r}, ThreadsOK(s),
         \A d : Holds(s, d)' <=> Holds(s, d),
         Doomed(s)' = Doomed(s), RepliesLeft(s)' \subseteq RepliesLeft(s),
         \A p \in Posts : Holds(s, Delete(PostRow(p))) => Thread(p)' \subseteq Thread(p),
         posts' \subseteq posts,
         \A p \in Posts : Holds(s, Update(PostRow(p))) => comment_count'[p] = comment_count[p]
  PROVE  ThreadsOK(s)'
<1>1. pc'[s] = pc[s] /\ job'[s] = job[s] /\ work'[s] = work[s]
  BY DEF Moves, Keeps
<1>2. \A c \in CommentIds : Written(c) => Comment(c)' = Comment(c)
  BY ColumnsFixed
<1>3. /\ Written(job[s].item) /\ Written(job[s].ref)
      /\ \A c \in comments : Written(c) /\ c \in CommentIds
      /\ Fits(pc[s], job[s])
  BY DEF TypeInv, TypeOK, TablesOK, ControlOK, NamesWritten
<1>4. PostOf(s)' = PostOf(s)
  BY PostFixed
<1>5. CreateOK(s)'
  <2>1. job[s].ref \in CommentIds => Comment(job[s].ref)' = Comment(job[s].ref)
    BY <1>1, <1>2, <1>3
  <2>2. QED
    BY <1>1, <1>3, <2>1 DEF ThreadsOK, CreateOK, Replying, Recipient, InsertCommentLocks, Fits, CreateSteps
<1>6. DeleteOK(s)'
  <2>1. \A c \in Doomed(s) : Comment(c)' = Comment(c)
    BY <1>2, <1>3 DEF Doomed
  <2>2. QED
    BY <1>1, <1>4, <2>1 DEF ThreadsOK, DeleteOK
<1>7. PurgeOK(s)'
  <2>1. pc[s] \in {"CascadePost", "CommitDeletePost"} => job[s].item \in Posts
    BY <1>3 DEF Fits, PostSteps
  <2>2. ASSUME NEW p \in Posts, Doomed(s) \subseteq Thread(p)
        PROVE  Doomed(s)' \subseteq Thread(p)'
    <3>1. \A c \in Doomed(s) : c \in comments' /\ Comment(c)' = Comment(c)
      BY <1>2, <1>3 DEF Doomed
    <3>2. QED
      BY <2>2, <3>1 DEF Thread
  <2>3. QED
    BY <1>1, <2>1, <2>2 DEF ThreadsOK, PurgeOK
<1>8. NoteOK(s)'
  BY <1>1, <1>2, <1>3 DEF ThreadsOK, NoteOK, Owner, NotifyLikedLocks, NoticePost, OnPost, Fits, LikeSteps, LikeOps
<1>9. QED
  BY <1>5, <1>6, <1>7, <1>8 DEF ThreadsOK

\* The rows D asks for are there.
Standing(D) ==
  \A d \in D : /\ \A p \in Posts : d.row = PostRow(p) => p \in posts
               /\ \A c \in CommentIds : d.row = CommentRow(c) => c \in comments

\* A step that changes neither posts nor comments keeps everything said of
\* them, if what it makes of its own request is right and it locks standing rows.
LEMMA ThreadFrame ==
  ASSUME ThreadInv, LikeInv', LocksFit', NEW r \in Requests, Moves(r),
         UNCHANGED <<posts, comments, comment_count>>, ThreadIntegrity', ThreadsOK(r)',
         \/ locks' = {l \in locks : l.req # r} \/ UNCHANGED locks
         \/ \E D : Acquire(r, D) /\ Standing(D)
  PROVE  ThreadInv'
<1>1. \A s \in Requests \ {r} : \A d : Holds(s, d)' <=> Holds(s, d)
  BY LocksPreserved DEF ThreadInv, LikeInv
<1>2. TypeInv /\ \A c : Comment(c)' = Comment(c)
  BY DEF Moves, Comment, ThreadInv, LikeInv
<1>3. ASSUME NEW s \in Requests \ {r}
      PROVE  ThreadsOK(s)'
  <2>1. Doomed(s)' = Doomed(s)
    BY <1>1, <1>2 DEF Doomed
  <2>2. RepliesLeft(s)' \subseteq RepliesLeft(s)
    BY <1>2, <2>1 DEF RepliesLeft
  <2>3. \A p : Thread(p)' = Thread(p)
    BY <1>2 DEF Thread
  <2>4. ThreadsOK(s)
    BY DEF ThreadInv, ThreadsOK
  <2>5. QED
    BY <1>1, <1>2, <2>1, <2>2, <2>3, <2>4, OthersThreads
<1>4. ASSUME NEW row,
             NEW live, \A D : Acquire(r, D) /\ Standing(D) => \A d \in D : d.row = row => live
      PROVE  \A s \in Requests : Pins(s, row)' => Pins(s, row) \/ live
  <2>1. \A s \in Requests \ {r} : Pins(s, row)' => Pins(s, row)
    BY <1>1 DEF Pins
  <2>2. Pins(r, row)' => Pins(r, row) \/ live
    <3>1. CASE locks' = {l \in locks : l.req # r}
      BY <3>1 DEF Pins, Holds
    <3>2. CASE UNCHANGED locks
      BY <3>2 DEF Pins, Holds
    <3>3. ASSUME NEW D, Acquire(r, D), Standing(D)
          PROVE  Pins(r, row)' => Pins(r, row) \/ live
      <4>1. \A m : [req |-> r, row |-> row, mode |-> m] \in locks' =>
                    \/ [req |-> r, row |-> row, mode |-> m] \in locks
                    \/ \E d \in D : d.row = row
        BY <3>3 DEF Acquire
      <4>2. Pins(r, row)' => Pins(r, row) \/ \E d \in D : d.row = row
        BY <4>1, LockKinds DEF Pins, Holds
      <4>3. QED
        BY <1>4, <3>3, <4>2
    <3>4. QED
      BY <3>1, <3>2, <3>3
  <2>3. QED
    BY <2>1, <2>2
<1>5. RowsLive'
  <2>1. ASSUME NEW s \in Requests, NEW p \in Posts, Pins(s, PostRow(p))'
        PROVE  p \in posts'
    BY <1>2, <1>4, <2>1 DEF ThreadInv, RowsLive, Standing
  <2>2. ASSUME NEW s \in Requests, NEW c \in CommentIds, Pins(s, CommentRow(c))'
        PROVE  c \in comments'
    BY <1>2, <1>4, <2>2 DEF ThreadInv, RowsLive, Standing
  <2>3. QED
    BY <2>1, <2>2 DEF RowsLive
<1>6. QED
  BY <1>3, <1>5 DEF ThreadInv, ThreadsOK

\* The same of a statement that changes no table.
LEMMA ThreadStatement ==
  ASSUME ThreadInv, LikeInv', LocksFit', NEW r \in Requests, Moves(r), UNCHANGED tables,
         ThreadsOK(r)',
         \/ locks' = {l \in locks : l.req # r} \/ UNCHANGED locks
         \/ \E D : Acquire(r, D) /\ Standing(D)
  PROVE  ThreadInv'
<1>1. ThreadIntegrity'
  BY DEF Moves, tables, Comment, ThreadInv, ThreadIntegrity
<1>2. QED
  BY <1>1, ThreadFrame DEF tables

\* What r holds after a statement is what it held and what it has locked.
LEMMA HoldsMore ==
  ASSUME NEW r \in Requests, NEW D, Acquire(r, D)
  PROVE  /\ \A d : Holds(r, d) => Holds(r, d)'
         /\ \A d \in D : Holds(r, d)'
         /\ \A d : Holds(r, d)' => Holds(r, d) \/ \E e \in D : e.row = d.row /\ e.mode = d.mode
BY DEF Acquire, Holds

\* A target is a post or a comment, and its row is in the table of its kind.
LEMMA TargetStanding ==
  ASSUME NEW t \in Targets, Live(t), TypeInv, NEW d, d.row = TargetRow(t)
  PROVE  Standing({d})
<1>1. posts \subseteq Posts /\ comments \subseteq CommentIds /\ Posts \cap CommentIds = {}
  BY StoreAssumption DEF TypeInv, TypeOK, TablesOK
<1>2. QED
  BY <1>1 DEF Standing, TargetRow, PostRow, CommentRow, Live

\* A target of a like that touched a row is there from the moment it is
\* locked, and so is the post a comment hangs on.
LEMMA TargetLive ==
  ASSUME ThreadInv, NEW r \in Requests, pc[r] \in LikeSteps, HoldsTarget(r)
  PROVE  /\ Live(job[r].item) /\ NoticePost(r) \in posts
         /\ ~OnPost(r) => job[r].item \in comments
<1>1. /\ OnPost(r) => job[r].item \in Posts
      /\ ~OnPost(r) => job[r].item \in CommentIds
  BY DEF ThreadInv, LikeInv, TypeInv, TypeOK, ControlOK, Fits, OnPost, LikeOps
<1>2. Pins(r, TargetRow(job[r].item))
  BY DEF HoldsTarget, Pins
<1>3. CASE OnPost(r)
  <2>1. job[r].item \in posts
    BY <1>1, <1>2, <1>3 DEF ThreadInv, RowsLive, TargetRow
  <2>2. QED
    BY <1>3, <2>1 DEF Live, NoticePost
<1>4. CASE ~OnPost(r)
  <2>1. job[r].item \in comments
    BY <1>1, <1>2, <1>4, StoreAssumption DEF ThreadInv, RowsLive, TargetRow
  <2>2. QED
    BY <1>4, <2>1 DEF Live, NoticePost, ThreadInv, ThreadIntegrity
<1>5. QED
  BY <1>3, <1>4

\* The statements of a like handler.
LEMMA LikeThreads ==
  ASSUME ThreadInv, LikeInv', LocksFit', NEW r \in Requests, LikeStep(r), ~CommitLike(r)
  PROVE  ThreadInv'
<1>1. /\ Moves(r) /\ UNCHANGED tables /\ pc[r] \in LikeSteps /\ TypeInv
      /\ job' = job /\ UNCHANGED <<posts, comments>>
      /\ pc \in [Requests -> Steps] /\ work \in [Requests -> Work]
  BY LikeStatementFrame DEF ThreadInv, LikeInv, Moves, tables, TypeInv, TypeOK, ControlOK
<1>2. /\ NoteOK(r) /\ VoteOK(r) /\ job[r].item \in Targets
      /\ ~OnPost(r) => job[r].item \in CommentIds
  BY <1>1 DEF ThreadInv, LikeInv, TypeInv, TypeOK, ControlOK, Fits, LikeOps, OnPost, Targets
<1>3. /\ \A c : Comment(c)' = Comment(c)
      /\ Owner(job[r].item)' = Owner(job[r].item)
      /\ NotifyLikedLocks(r)' = NotifyLikedLocks(r)
  BY <1>1 DEF Comment, Owner, NotifyLikedLocks, NoticePost, OnPost
<1>4. ASSUME NoteOK(r)', pc'[r] \in LikeSteps \cup {"done"}
      PROVE  ThreadsOK(r)'
  BY <1>4 DEF ThreadsOK, CreateOK, DeleteOK, PurgeOK, LikeSteps
<1>5. ASSUME Rollback(r, "missing")
      PROVE  ThreadInv'
  <2>1. pc'[r] = "done" /\ locks' = {l \in locks : l.req # r}
    BY <1>1, <1>5 DEF Rollback, Close
  <2>2. ThreadsOK(r)'
    BY <1>4, <2>1 DEF NoteOK, LikeSteps
  <2>3. QED
    BY <1>1, <2>1, <2>2, ThreadStatement
<1>6. ASSUME pc[r] # "NotifyLiked", pc'[r] \in LikeSteps \ {"NotifyLiked"},
             work'[r].note = work[r].note,
             UNCHANGED locks \/ \E D : Acquire(r, D) /\ Standing(D)
      PROVE  ThreadInv'
  <2>1. \A d : Holds(r, d) => Holds(r, d)'
    BY <1>6, HoldsMore DEF Holds
  <2>2. NoteOK(r)'
    BY <1>1, <1>2, <1>3, <1>6, <2>1 DEF NoteOK
  <2>3. QED
    BY <1>1, <1>4, <1>6, <2>2, ThreadStatement
<1>7. CASE AddLike(r) \/ RemoveLike(r)
  <2>1. Standing(AddLikeLocks(r)) /\ Standing(RemoveLikeLocks(r))
    BY RowsApart, LockKinds DEF AddLikeLocks, RemoveLikeLocks, Standing
  <2>2. work'[r].note = work[r].note
    BY <1>1, <1>7 DEF AddLike, RemoveLike, Work
  <2>3. pc[r] # "NotifyLiked" /\ pc'[r] \in LikeSteps \ {"NotifyLiked"}
    BY <1>1, <1>7 DEF AddLike, RemoveLike, Goto, AfterBump, LikeSteps
  <2>4. QED
    BY <1>6, <1>7, <2>1, <2>2, <2>3 DEF AddLike, RemoveLike
<1>8. CASE BumpLikes(r)
  <2>1. Standing(BumpLikesLocks(r))
    <3>1. Live(job[r].item) => Standing({Update(TargetRow(job[r].item))})
      BY <1>1, <1>2, TargetStanding, LockKinds
    <3>2. QED
      BY <3>1 DEF BumpLikesLocks, Standing
  <2>2. work'[r].note = work[r].note
    BY <1>1, <1>8 DEF BumpLikes, Work
  <2>3. pc[r] # "NotifyLiked" /\ pc'[r] \in LikeSteps \ {"NotifyLiked"}
    BY <1>1, <1>8 DEF BumpLikes, Goto, AfterBump, LikeSteps
  <2>4. QED
    BY <1>6, <1>8, <2>1, <2>2, <2>3 DEF BumpLikes
<1>9. CASE ReadLiked(r)
  <2>1. work'[r].note = work[r].note
    BY <1>1, <1>9 DEF ReadLiked, Work
  <2>2. pc[r] # "NotifyLiked" /\ pc'[r] \in LikeSteps \ {"NotifyLiked"} /\ UNCHANGED locks
    BY <1>1, <1>9 DEF ReadLiked, Goto, AfterLiked, LikeSteps
  <2>3. QED
    BY <1>6, <2>1, <2>2
<1>10. CASE ReadTarget(r)
  <2>1. CASE Live(job[r].item)
    <3>1. /\ pc[r] = "ReadTarget" /\ UNCHANGED locks
          /\ work'[r].note = work[r].note /\ work'[r].rows = work[r].rows
          /\ pc'[r] \in LikeSteps
          /\ pc'[r] = "NotifyLiked" => work[r].rows = 1 /\ Owner(job[r].item) # job[r].user
      BY <1>1, <1>10, <2>1 DEF ReadTarget, Goto, AfterTarget, LikeSteps, Work
    <3>2. NoteOK(r)'
      BY <1>1, <1>2, <1>3, <3>1 DEF NoteOK, Holds
    <3>3. QED
      BY <1>1, <1>4, <3>1, <3>2, ThreadStatement
  <2>2. CASE ~Live(job[r].item)
    BY <1>5, <1>10, <2>2 DEF ReadTarget
  <2>3. QED
    BY <2>1, <2>2
<1>11. CASE NotifyLiked(r)
  <2>1. /\ pc[r] = "NotifyLiked" /\ Acquire(r, NotifyLikedLocks(r))
        /\ pc'[r] \in LikeSteps \ {"NotifyLiked"}
    BY <1>1, <1>11 DEF NotifyLiked, Goto, AfterTarget, LikeSteps
  <2>2. HoldsTarget(r) /\ Owner(job[r].item) # job[r].user
    BY <1>2, <2>1 DEF NoteOK, VoteOK, TargetRead
  <2>3. /\ NoticePost(r) \in posts /\ Posts \cap CommentIds = {}
        /\ ~OnPost(r) => job[r].item \in comments
    BY <1>1, <2>2, TargetLive, StoreAssumption
  <2>4. Standing(NotifyLikedLocks(r))
    BY <2>3, RowsApart, LockKinds DEF NotifyLikedLocks, Standing
  <2>5. NoteOK(r)'
    BY <1>1, <1>3, <2>1, <2>2, HoldsMore DEF NoteOK
  <2>6. QED
    BY <1>1, <1>4, <2>1, <2>4, <2>5, ThreadStatement
<1>12. QED
  BY <1>7, <1>8, <1>9, <1>10, <1>11 DEF LikeStep

\* Creating a comment, up to the commit.
LEMMA CreateThreads ==
  ASSUME ThreadInv, LikeInv', LocksFit', NEW r \in Requests,
         LookupThread(r) \/ InsertComment(r) \/ BumpComments(r) \/ LoadAuthor(r)
  PROVE  ThreadInv'
<1>1. pc[r] \in CreateSteps /\ CommentStep(r)
  BY DEF LookupThread, InsertComment, BumpComments, LoadAuthor, CreateSteps, CommentStep
<1>2. /\ Moves(r) /\ job' = job /\ InFlight(r) /\ TypeInv
      /\ pc \in [Requests -> Steps] /\ work \in [Requests -> Work]
      /\ job[r].item \in Posts /\ job[r].ref \in CommentIds \cup {None}
  BY <1>1, CommentStepFrame
     DEF Moves, ThreadInv, LikeInv, TypeInv, TypeOK, ControlOK, Fits, CreateSteps
<1>3. UNCHANGED tables
  BY <1>2, RollbackMoves DEF LookupThread, InsertComment, BumpComments, LoadAuthor, Goto
<1>4. /\ \A c : Comment(c)' = Comment(c)
      /\ UNCHANGED <<posts, comments, comment_count>>
      /\ InsertCommentLocks(r)' = InsertCommentLocks(r)
      /\ Recipient(r)' = Recipient(r) /\ (Replying(r)' <=> Replying(r))
  BY <1>2, <1>3 DEF Comment, InsertCommentLocks, Recipient, Replying, tables
<1>5. /\ job[r].ref \in comments <=> job[r].ref \in CommentIds /\ Live(job[r].ref)
      /\ job[r].item \in posts <=> Live(job[r].item)
      /\ Replying(r) => job[r].ref \in CommentIds
  BY <1>2, StoreAssumption DEF Live, TypeInv, TypeOK, TablesOK, Replying
<1>6. CreateOK(r)
  BY DEF ThreadInv
<1>7. ASSUME CreateOK(r)', pc'[r] \in CreateSteps \cup {"done"}
      PROVE  ThreadsOK(r)'
  BY <1>7 DEF ThreadsOK, NoteOK, DeleteOK, PurgeOK, CreateSteps, LikeSteps
<1>8. ASSUME NEW a, Rollback(r, a)
      PROVE  ThreadInv'
  <2>1. pc'[r] = "done" /\ locks' = {l \in locks : l.req # r}
    BY <1>2, <1>8 DEF Rollback, Close
  <2>2. ThreadsOK(r)'
    BY <1>7, <2>1 DEF CreateOK
  <2>3. QED
    BY <1>2, <1>3, <2>1, <2>2, ThreadStatement
<1>9. CASE LookupThread(r)
  <2>1. CASE Goto(r, "InsertComment") /\ UNCHANGED <<locks, work>>
    <3>1. pc'[r] = "InsertComment" /\ (Replying(r) => Comment(job[r].ref).post = job[r].item)
      BY <1>2, <1>8, <1>9, <2>1 DEF LookupThread, Goto, Rollback, Close
    <3>2. CreateOK(r)'
      BY <1>2, <1>4, <3>1 DEF CreateOK
    <3>3. QED
      BY <1>2, <1>3, <1>7, <2>1, <3>1, <3>2, ThreadStatement DEF CreateSteps
  <2>2. QED
    BY <1>8, <1>9, <2>1 DEF LookupThread
<1>10. CASE InsertComment(r)
  <2>1. CASE Live(job[r].item) /\ (Replying(r) => Live(job[r].ref))
    <3>1. /\ pc[r] = "InsertComment" /\ pc'[r] = "BumpComments"
          /\ Acquire(r, InsertCommentLocks(r))
      BY <1>2, <1>10, <2>1 DEF InsertComment, Goto
    <3>2. Standing(InsertCommentLocks(r))
      BY <1>5, <2>1, RowsApart, LockKinds DEF InsertCommentLocks, Standing
    <3>3. CreateOK(r)'
      BY <1>2, <1>4, <1>6, <3>1, HoldsMore DEF CreateOK
    <3>4. QED
      BY <1>2, <1>3, <1>7, <3>1, <3>2, <3>3, ThreadStatement DEF CreateSteps
  <2>2. CASE ~(Live(job[r].item) /\ (Replying(r) => Live(job[r].ref)))
    BY <1>8, <1>10, <2>2 DEF InsertComment
  <2>3. QED
    BY <2>1, <2>2
<1>11. CASE BumpComments(r)
  <2>1. /\ pc[r] = "BumpComments" /\ pc'[r] = "CommitComment"
        /\ Acquire(r, {Update(PostRow(job[r].item))})
        /\ work'[r].val = comment_count[job[r].item] + 1
        /\ work'[r].note = (Recipient(r) # job[r].user)
    BY <1>2, <1>11 DEF BumpComments, BumpCommentsLocks, Goto, Work
  <2>2. job[r].item \in posts
    BY <1>2, <1>6, <2>1 DEF CreateOK, InsertCommentLocks, ThreadInv, RowsLive, Pins
  <2>3. Standing({Update(PostRow(job[r].item))})
    BY <2>2, RowsApart, LockKinds DEF Standing
  <2>4. CreateOK(r)'
    BY <1>2, <1>4, <1>6, <2>1, HoldsMore DEF CreateOK
  <2>5. QED
    BY <1>2, <1>3, <1>7, <2>1, <2>3, <2>4, ThreadStatement DEF CreateSteps
<1>12. CASE LoadAuthor(r)
  BY <1>8, <1>12 DEF LoadAuthor
<1>13. QED
  BY <1>9, <1>10, <1>11, <1>12

\* A comment and those it dooms, as one more of its replies is locked.
LEMMA DoomedGrows ==
  ASSUME NEW r \in Requests, UNCHANGED comments, NEW c \in comments,
         Acquire(r, {Delete(CommentRow(c))})
  PROVE  Doomed(r)' = Doomed(r) \cup {c}
<1>1. \A d : Holds(r, d)' <=>
        Holds(r, d) \/ (d.row = CommentRow(c) /\ d.mode = "ForUpdate")
  BY HoldsMore, LockKinds DEF Acquire, Holds
<1>2. \A b : Holds(r, Delete(CommentRow(b)))' <=> Holds(r, Delete(CommentRow(b))) \/ b = c
  BY <1>1, LockKinds, RowsApart
<1>3. QED
  BY <1>2 DEF Doomed

\* Deleting a comment, up to the commit.
LEMMA DeleteThreads ==
  ASSUME ThreadInv, LikeInv', LocksFit', NEW r \in Requests,
         \/ LookupComment(r) \/ DeleteCommentRow(r) \/ CascadeReplies(r)
         \/ SnapshotCount(r) \/ RecountComments(r)
  PROVE  ThreadInv'
<1>1. pc[r] \in DeleteSteps /\ CommentStep(r)
  BY DEF LookupComment, DeleteCommentRow, CascadeReplies, SnapshotCount, RecountComments,
         DeleteSteps, CommentStep
<1>2. /\ Moves(r) /\ job' = job /\ InFlight(r) /\ TypeInv
      /\ pc \in [Requests -> Steps] /\ work \in [Requests -> Work]
      /\ job[r].item \in CommentIds /\ comments \subseteq CommentIds
  BY <1>1, CommentStepFrame
     DEF Moves, ThreadInv, LikeInv, TypeInv, TypeOK, TablesOK, ControlOK, Fits, DeleteSteps
<1>3. UNCHANGED tables
  BY <1>2, RollbackMoves
     DEF LookupComment, DeleteCommentRow, CascadeReplies, SnapshotCount, RecountComments, Goto
<1>4. /\ \A c : Comment(c)' = Comment(c)
      /\ UNCHANGED <<posts, comments, comment_count>>
      /\ PostOf(r)' = PostOf(r) /\ PostOf(r) = Comment(job[r].item).post
  BY <1>2, <1>3 DEF Comment, PostOf, tables
<1>5. DeleteOK(r)
  BY DEF ThreadInv
<1>6. ASSUME DeleteOK(r)', pc'[r] \in DeleteSteps \cup {"done"}
      PROVE  ThreadsOK(r)'
  BY <1>6 DEF ThreadsOK, NoteOK, CreateOK, PurgeOK, DeleteSteps, LikeSteps
<1>7. ASSUME NEW a, Rollback(r, a)
      PROVE  ThreadInv'
  <2>1. pc'[r] = "done" /\ locks' = {l \in locks : l.req # r}
    BY <1>2, <1>7 DEF Rollback, Close
  <2>2. ThreadsOK(r)'
    BY <1>6, <2>1 DEF DeleteOK
  <2>3. QED
    BY <1>2, <1>3, <2>1, <2>2, ThreadStatement
<1>8. CASE LookupComment(r)
  <2>1. CASE Goto(r, "DeleteCommentRow") /\ UNCHANGED <<locks, work>>
    <3>1. pc'[r] = "DeleteCommentRow"
      BY <1>2, <2>1 DEF Goto
    <3>2. ThreadsOK(r)'
      BY <1>6, <3>1 DEF DeleteOK, DeleteSteps
    <3>3. QED
      BY <1>2, <1>3, <2>1, <3>2, ThreadStatement
  <2>2. QED
    BY <1>7, <1>8, <2>1 DEF LookupComment
<1>9. CASE DeleteCommentRow(r)
  <2>1. CASE Live(job[r].item)
    <3>1. /\ pc[r] = "DeleteCommentRow" /\ pc'[r] = "CascadeReplies"
          /\ Acquire(r, {Delete(CommentRow(job[r].item))})
      BY <1>2, <1>9, <2>1 DEF DeleteCommentRow, DeleteCommentRowLocks, Goto
    <3>2. job[r].item \in comments /\ Standing({Delete(CommentRow(job[r].item))})
      <4>1. job[r].item \in comments
        BY <1>2, <2>1, StoreAssumption DEF Live, TypeInv, TypeOK, TablesOK
      <4>2. QED
        BY <4>1, RowsApart, LockKinds DEF Standing
    <3>3. Doomed(r) = {}
      BY <3>1, HeldAllowed DEF ThreadInv, MayHold, Allowed, Doomed
    <3>4. Doomed(r)' = {job[r].item}
      BY <1>4, <3>1, <3>2, <3>3, DoomedGrows
    <3>5. DeleteOK(r)'
      BY <1>2, <1>4, <3>1, <3>4, HoldsMore DEF DeleteOK
    <3>6. QED
      BY <1>2, <1>3, <1>6, <3>1, <3>2, <3>5, ThreadStatement DEF DeleteSteps
  <2>2. CASE ~Live(job[r].item)
    BY <1>7, <1>9, <2>2 DEF DeleteCommentRow
  <2>3. QED
    BY <2>1, <2>2
<1>10. CASE CascadeReplies(r)
  <2>1. pc[r] = "CascadeReplies" /\ pc'[r] \in {"CascadeReplies", "SnapshotCount"}
    BY <1>2, <1>10 DEF CascadeReplies, Goto
  <2>2. CASE RepliesLeft(r) = {}
    <3>1. UNCHANGED locks
      BY <1>10, <2>2 DEF CascadeReplies
    <3>2. Doomed(r)' = Doomed(r) /\ RepliesLeft(r)' = RepliesLeft(r)
      BY <1>4, <3>1 DEF Doomed, RepliesLeft, Holds
    <3>3. DeleteOK(r)'
      BY <1>2, <1>4, <1>5, <2>1, <2>2, <3>1, <3>2 DEF DeleteOK, Holds
    <3>4. QED
      BY <1>2, <1>3, <1>6, <2>1, <3>1, <3>3, ThreadStatement DEF DeleteSteps
  <2>3. ASSUME NEW c \in RepliesLeft(r), Acquire(r, {Delete(CommentRow(c))}),
               pc'[r] = "CascadeReplies"
        PROVE  ThreadInv'
    <3>1. c \in comments /\ Comment(c).parent \in Doomed(r) /\ Doomed(r) \subseteq comments
      BY DEF RepliesLeft, Doomed
    <3>2. Comment(c).post = PostOf(r)
      <4>1. Comment(c).parent # None
        BY <1>2, <3>1, StoreAssumption DEF Targets
      <4>2. QED
        BY <1>5, <2>1, <3>1, <4>1 DEF DeleteOK, ThreadInv, ThreadIntegrity
    <3>3. Doomed(r)' = Doomed(r) \cup {c}
      BY <1>4, <2>3, <3>1, DoomedGrows
    <3>4. DeleteOK(r)'
      BY <1>2, <1>4, <1>5, <2>1, <2>3, <3>1, <3>2, <3>3, HoldsMore DEF DeleteOK
    <3>5. Standing({Delete(CommentRow(c))})
      BY <3>1, RowsApart, LockKinds DEF Standing
    <3>6. QED
      BY <1>2, <1>3, <1>6, <2>3, <3>4, <3>5, ThreadStatement DEF DeleteSteps
  <2>4. QED
    BY <1>2, <1>10, <2>2, <2>3 DEF CascadeReplies, Goto
<1>11. CASE SnapshotCount(r)
  <2>1. pc[r] = "SnapshotCount" /\ pc'[r] = "RecountComments" /\ UNCHANGED locks
    BY <1>2, <1>11 DEF SnapshotCount, Goto
  <2>2. Doomed(r)' = Doomed(r) /\ RepliesLeft(r)' = RepliesLeft(r)
    BY <1>4, <2>1 DEF Doomed, RepliesLeft, Holds
  <2>3. DeleteOK(r)'
    BY <1>2, <1>4, <1>5, <2>1, <2>2 DEF DeleteOK, Holds
  <2>4. QED
    BY <1>2, <1>3, <1>6, <2>1, <2>3, ThreadStatement DEF DeleteSteps
<1>12. CASE RecountComments(r)
  <2>1. /\ pc[r] = "RecountComments" /\ pc'[r] = "CommitDeleteComment"
        /\ Acquire(r, {Update(PostRow(PostOf(r)))})
    BY <1>2, <1>4, <1>12 DEF RecountComments, RecountCommentsLocks, Goto
  <2>2. PostOf(r) \in posts
    BY <1>2, <1>4, <1>5, <2>1 DEF DeleteOK, ThreadInv, RowsLive, Pins, ThreadIntegrity
  <2>3. Standing({Update(PostRow(PostOf(r)))})
    BY <2>2, RowsApart, LockKinds DEF Standing
  <2>4. \A c : Holds(r, Delete(CommentRow(c)))' <=> Holds(r, Delete(CommentRow(c)))
    BY <2>1, HoldsMore, LockKinds
  <2>5. Doomed(r)' = Doomed(r) /\ RepliesLeft(r)' = RepliesLeft(r)
    BY <1>4, <2>4 DEF Doomed, RepliesLeft
  <2>6. DeleteOK(r)'
    BY <1>2, <1>4, <1>5, <2>1, <2>5, HoldsMore DEF DeleteOK
  <2>7. QED
    BY <1>2, <1>3, <1>6, <2>1, <2>3, <2>6, ThreadStatement DEF DeleteSteps
<1>13. QED
  BY <1>8, <1>9, <1>10, <1>11, <1>12

\* The collection handlers lock the posts they count and reference.
LEMMA ShelfThreads ==
  ASSUME ThreadInv, LikeInv', LocksFit', NEW r \in Requests, CollectionStep(r)
  PROVE  ThreadInv'
<1>1. /\ Moves(r) /\ pc[r] \in CollectionSteps /\ TypeInv /\ pc \in [Requests -> Steps]
      /\ posts \subseteq Posts
      /\ \A c : Comment(c)' = Comment(c)
  BY CollectionStepFrame DEF ThreadInv, LikeInv, TypeInv, TypeOK, ControlOK, TablesOK, Moves, Comment
<1>2. UNCHANGED <<posts, comments, comment_count, notifications>>
  BY RollbackMoves
     DEF CollectionStep, LookupShelf, AddCollection, RemoveCollection, BumpCollects, ReadShelf,
         CommitCollection, DeleteFolderRow, CascadeUnfile, CommitDeleteFolder, Rollback, Goto, tables
<1>3. ThreadIntegrity'
  BY <1>1, <1>2 DEF ThreadInv, ThreadIntegrity
<1>4. ThreadsOK(r)'
  <2>1. pc'[r] \in CollectionSteps \cup {"done"}
    BY <1>1 DEF CollectionStep, LookupShelf, AddCollection, RemoveCollection, BumpCollects,
                ReadShelf, CommitCollection, DeleteFolderRow, CascadeUnfile, CommitDeleteFolder,
                Rollback, Committed, Close, Goto, CollectionSteps, ShelfSteps, FolderSteps
  <2>2. QED
    BY <2>1 DEF ThreadsOK, CreateOK, DeleteOK, PurgeOK, NoteOK, CollectionSteps, ShelfSteps,
                FolderSteps, LikeSteps
<1>5. \/ locks' = {l \in locks : l.req # r} \/ UNCHANGED locks
      \/ \E D : Acquire(r, D) /\ Standing(D)
  <2>1. CASE LookupShelf(r) \/ ReadShelf(r) \/ CommitCollection(r) \/ CommitDeleteFolder(r)
    BY <2>1 DEF LookupShelf, ReadShelf, CommitCollection, CommitDeleteFolder, Rollback,
                Committed, Close
  <2>2. CASE AddCollection(r)
    <3>1. job[r].item \in posts /\ Collected(r) \notin collections =>
            Standing(AddCollectionLocks(r))
      BY <1>1, RowsApart, LockKinds DEF AddCollectionLocks, Standing
    <3>2. QED
      BY <2>2, <3>1 DEF AddCollection, Rollback, Close
  <2>3. CASE RemoveCollection(r)
    <3>1. Standing(RemoveCollectionLocks(r))
      BY RowsApart, LockKinds DEF RemoveCollectionLocks, Standing
    <3>2. QED
      BY <2>3, <3>1 DEF RemoveCollection
  <2>4. CASE BumpCollects(r)
    <3>1. Standing(BumpCollectsLocks(r))
      BY RowsApart, LockKinds DEF BumpCollectsLocks, Standing
    <3>2. QED
      BY <2>4, <3>1 DEF BumpCollects
  <2>5. CASE DeleteFolderRow(r)
    <3>1. Standing(DeleteFolderRowLocks(r))
      BY RowsApart, LockKinds DEF DeleteFolderRowLocks, Standing
    <3>2. QED
      BY <2>5, <3>1 DEF DeleteFolderRow, Rollback, Close
  <2>6. CASE CascadeUnfile(r)
    <3>1. \A x, y : Standing({Update(CollectionRow(x, y))})
      BY RowsApart, LockKinds DEF Standing
    <3>2. QED
      BY <2>6, <3>1 DEF CascadeUnfile
  <2>7. QED
    BY <2>1, <2>2, <2>3, <2>4, <2>5, <2>6 DEF CollectionStep
<1>6. QED
  BY <1>1, <1>2, <1>3, <1>4, <1>5, ThreadFrame

\* Deleting a post, up to the commit.
LEMMA PurgeThreads ==
  ASSUME ThreadInv, LikeInv', LocksFit', NEW r \in Requests, PostStep(r), ~CommitDeletePost(r)
  PROVE  ThreadInv'
<1>1. /\ Moves(r) /\ pc[r] \in PostSteps /\ TypeInv /\ pc \in [Requests -> Steps]
      /\ posts \subseteq Posts /\ comments \subseteq CommentIds /\ InFlight(r)
      /\ \A c : Comment(c)' = Comment(c)
      /\ job' = job /\ job[r].item \in Posts
  BY PostStepFrame
     DEF ThreadInv, LikeInv, TypeInv, TypeOK, ControlOK, TablesOK, Moves, Comment, Fits
<1>2. UNCHANGED tables
  BY <1>1, RollbackMoves DEF PostStep, LookupOwn, DeletePostRow, CascadePost, Goto
<1>3. UNCHANGED <<posts, comments>>
  BY <1>2 DEF tables
<1>4. PurgeOK(r)
  BY DEF ThreadInv
<1>5. ASSUME PurgeOK(r)', pc'[r] \in PostSteps \cup {"done"}
      PROVE  ThreadsOK(r)'
  BY <1>5 DEF ThreadsOK, CreateOK, DeleteOK, NoteOK, PostSteps, LikeSteps
<1>6. ASSUME NEW a, Rollback(r, a)
      PROVE  ThreadInv'
  <2>1. pc'[r] = "done" /\ locks' = {l \in locks : l.req # r}
    BY <1>1, <1>6 DEF Rollback, Close
  <2>2. ThreadsOK(r)'
    BY <1>5, <2>1 DEF PurgeOK
  <2>3. QED
    BY <1>1, <1>2, <2>1, <2>2, ThreadStatement
<1>7. \A p : Thread(p)' = Thread(p)
  BY <1>1, <1>3 DEF Thread
<1>8. CASE LookupOwn(r)
  <2>1. CASE Goto(r, "DeletePostRow") /\ UNCHANGED <<locks, work>>
    <3>1. pc'[r] = "DeletePostRow"
      BY <1>1, <2>1 DEF Goto
    <3>2. ThreadsOK(r)'
      BY <1>5, <3>1 DEF PurgeOK, PostSteps
    <3>3. QED
      BY <1>1, <1>2, <2>1, <3>2, ThreadStatement
  <2>2. QED
    BY <1>6, <1>8, <2>1 DEF LookupOwn
<1>9. CASE DeletePostRow(r)
  <2>1. /\ pc[r] = "DeletePostRow" /\ Acquire(r, DeletePostRowLocks(r))
        /\ pc'[r] = IF job[r].item \in posts THEN "CascadePost" ELSE "CommitDeletePost"
    BY <1>1, <1>9 DEF DeletePostRow, Goto
  <2>2. Standing(DeletePostRowLocks(r))
    BY RowsApart, LockKinds DEF DeletePostRowLocks, Standing
  <2>3. \A d : ~Holds(r, Delete(d))
    BY <2>1, HeldAllowed DEF ThreadInv, MayHold, Allowed
  <2>4. \A d : Holds(r, Delete(d))' => d = PostRow(job[r].item) /\ job[r].item \in posts
    BY <2>1, <2>3, HoldsMore, LockKinds DEF DeletePostRowLocks
  <2>5. Doomed(r)' = {}
    BY <2>4, RowsApart DEF Doomed
  <2>6. job[r].item \in posts => Holds(r, Delete(PostRow(job[r].item)))'
    BY <1>1, <2>1, HoldsMore DEF DeletePostRowLocks
  <2>7. PurgeOK(r)'
    BY <1>1, <1>3, <2>1, <2>4, <2>5, <2>6 DEF PurgeOK
  <2>8. QED
    BY <1>1, <1>2, <1>5, <2>1, <2>2, <2>7, ThreadStatement DEF PostSteps
<1>10. CASE CascadePost(r)
  <2>1. pc[r] = "CascadePost" /\ pc'[r] \in {"CascadePost", "CommitDeletePost"}
    BY <1>1, <1>10 DEF CascadePost, Goto
  <2>2. CASE CascadePostLocks(r) = {}
    <3>1. UNCHANGED locks
      BY <1>10, <2>2 DEF CascadePost
    <3>2. Thread(job[r].item) \subseteq Doomed(r)
      <4>1. \A c \in Thread(job[r].item) : Holds(r, Delete(CommentRow(c))) /\ c \in comments
        BY <2>2 DEF CascadePostLocks, Thread
      <4>2. QED
        BY <4>1 DEF Doomed
    <3>3. Doomed(r)' = Doomed(r)
      BY <1>3, <3>1 DEF Doomed, Holds
    <3>4. PurgeOK(r)'
      BY <1>1, <1>4, <1>7, <2>1, <3>1, <3>2, <3>3 DEF PurgeOK, Holds
    <3>5. QED
      BY <1>1, <1>2, <1>5, <2>1, <3>1, <3>4, ThreadStatement DEF PostSteps
  <2>3. ASSUME NEW d \in CascadePostLocks(r), Acquire(r, {d}), pc'[r] = "CascadePost"
        PROVE  ThreadInv'
    <3>1. Holds(r, Delete(PostRow(job[r].item)))'
      BY <1>1, <1>4, <2>1, <2>3, HoldsMore DEF PurgeOK
    <3>2. CASE \E c \in Thread(job[r].item) : d = Delete(CommentRow(c))
      <4>1. PICK c \in Thread(job[r].item) : d = Delete(CommentRow(c))
        BY <3>2
      <4>2. Doomed(r)' = Doomed(r) \cup {c}
        BY <1>3, <2>3, <4>1, DoomedGrows DEF Thread
      <4>3. Standing({d})
        BY <4>1, RowsApart, LockKinds DEF Standing, Thread
      <4>4. PurgeOK(r)'
        BY <1>1, <1>4, <1>7, <2>1, <2>3, <3>1, <4>2 DEF PurgeOK
      <4>5. QED
        BY <1>1, <1>2, <1>5, <2>3, <4>3, <4>4, ThreadStatement DEF PostSteps
    <3>3. CASE \E u : d = Delete(CollectionRow(u, job[r].item))
      <4>1. \A c : Holds(r, Delete(CommentRow(c)))' <=> Holds(r, Delete(CommentRow(c)))
        BY <2>3, <3>3, HoldsMore, RowsApart, LockKinds
      <4>2. Doomed(r)' = Doomed(r)
        BY <1>3, <4>1 DEF Doomed
      <4>3. Standing({d})
        BY <3>3, RowsApart, LockKinds DEF Standing
      <4>4. PurgeOK(r)'
        BY <1>1, <1>4, <1>7, <2>1, <2>3, <3>1, <4>2 DEF PurgeOK
      <4>5. QED
        BY <1>1, <1>2, <1>5, <2>3, <4>3, <4>4, ThreadStatement DEF PostSteps
    <3>4. QED
      BY <3>2, <3>3 DEF CascadePostLocks, ShelvedRows
  <2>4. QED
    BY <1>1, <1>10, <2>2, <2>3 DEF CascadePost, Goto
<1>11. QED
  BY <1>8, <1>9, <1>10 DEF PostStep

\* A commit keeps everything said of threads if no other request had locked
\* what it changed.
LEMMA CommitThreads ==
  ASSUME ThreadInv, LikeInv', LocksFit', NEW r \in Requests, Moves(r),
         locks' = {l \in locks : l.req # r}, pc'[r] \in {"done", "LoadAuthor"},
         posts' \subseteq posts, ThreadIntegrity',
         \A s \in Requests \ {r} :
           /\ Doomed(s)' = Doomed(s) /\ RepliesLeft(s)' \subseteq RepliesLeft(s)
           /\ \A p \in Posts :
                /\ Holds(s, Delete(PostRow(p))) => Thread(p)' \subseteq Thread(p)
                /\ Holds(s, Update(PostRow(p))) => comment_count'[p] = comment_count[p]
                /\ p \in posts /\ Pins(s, PostRow(p)) => p \in posts'
           /\ \A c \in CommentIds : c \in comments /\ Pins(s, CommentRow(c)) => c \in comments'
  PROVE  ThreadInv'
<1>1. \A s \in Requests \ {r} : \A d : Holds(s, d)' <=> Holds(s, d)
  BY LocksPreserved DEF ThreadInv, LikeInv
<1>2. \A s \in Requests \ {r} : ThreadsOK(s)'
  BY <1>1, OthersThreads DEF ThreadInv, LikeInv, ThreadsOK
<1>3. ThreadsOK(r)'
  BY DEF ThreadsOK, CreateOK, DeleteOK, PurgeOK, NoteOK, LikeSteps
<1>4. \A row : ~Pins(r, row)' /\ \A s \in Requests \ {r} : Pins(s, row)' <=> Pins(s, row)
  BY <1>1 DEF Pins, Holds
<1>5. RowsLive'
  BY <1>4 DEF ThreadInv, RowsLive
<1>6. QED
  BY <1>2, <1>3, <1>5 DEF ThreadInv, ThreadsOK

\* A new comment hangs on a post and a comment that its request has pinned,
\* so no deletion misses it.
LEMMA CommitCommentThreads ==
  ASSUME ThreadInv, LikeInv', LocksFit', NEW r \in Requests, CommitComment(r)
  PROVE  ThreadInv'
<1> DEFINE p == job[r].item
<1>1. /\ Moves(r) /\ TypeInv /\ LocksOK /\ pc[r] = "CommitComment"
      /\ locks' = {l \in locks : l.req # r} /\ pc'[r] \in {"done", "LoadAuthor"}
      /\ p \in Posts /\ job[r].ref \in CommentIds \cup {None} /\ UNCHANGED posts
      /\ comments' = comments \cup {r} /\ comment_count \in [Posts -> Nat]
      /\ \A c : Comment(c)' = Comment(c)
  <2>1. CommentStep(r) /\ pc[r] = "CommitComment"
    BY DEF CommentStep, CommitComment
  <2>2. Moves(r) /\ TypeInv /\ LocksOK /\ \A c : Comment(c)' = Comment(c)
    BY <2>1, CommentStepFrame DEF ThreadInv, LikeInv, Moves, Comment
  <2>3. QED
    BY <2>1, <2>2
       DEF CommitComment, Close, TypeInv, TypeOK, TablesOK, ControlOK, Fits, CreateSteps
<1>2. /\ Comment(r) = [post |-> p, user |-> job[r].user, parent |-> job[r].ref]
      /\ r \in CommentIds /\ r \notin comments
  BY <1>1, StoreAssumption DEF Comment, CommentIds, TypeInv, NamesWritten, Written
<1>3. /\ Holds(r, Reference(PostRow(p))) /\ Holds(r, Update(PostRow(p)))
      /\ Replying(r) => /\ Holds(r, Reference(CommentRow(job[r].ref)))
                        /\ Comment(job[r].ref).post = p
      /\ work[r].note => Recipient(r) # job[r].user
  BY <1>1 DEF ThreadInv, CreateOK, InsertCommentLocks
<1>4. /\ p \in posts
      /\ Replying(r) => job[r].ref \in comments
  BY <1>1, <1>3 DEF ThreadInv, RowsLive, Pins, Replying
<1>5. ThreadIntegrity'
  <2>1. \A c \in comments' :
          /\ Comment(c).post \in posts
          /\ Comment(c).parent # None =>
               /\ Comment(c).parent \in comments'
               /\ Comment(Comment(c).parent).post = Comment(c).post
    BY <1>1, <1>2, <1>3, <1>4 DEF ThreadInv, ThreadIntegrity, Replying
  <2>2. \A n \in notifications' :
          /\ n.post \in posts /\ n.recipient # n.actor
          /\ n.comment # None => n.comment \in comments' /\ Comment(n.comment).post = n.post
    <3>1. notifications' \subseteq notifications \cup
            (IF work[r].note THEN {Notice(r, Recipient(r), p, r)} ELSE {})
      BY DEF CommitComment
    <3>2. ASSUME work[r].note, NEW n, n = Notice(r, Recipient(r), p, r)
          PROVE  /\ n.post \in posts /\ n.recipient # n.actor
                 /\ n.comment \in comments' /\ Comment(n.comment).post = n.post
      BY <1>1, <1>2, <1>3, <1>4, <3>2 DEF Notice
    <3>3. ASSUME NEW n \in notifications
          PROVE  /\ n.post \in posts /\ n.recipient # n.actor
                 /\ n.comment # None =>
                      n.comment \in comments' /\ Comment(n.comment).post = n.post
      BY <1>1 DEF ThreadInv, ThreadIntegrity
    <3>4. QED
      BY <3>1, <3>2, <3>3
  <2>3. QED
    BY <1>1, <2>1, <2>2 DEF ThreadIntegrity
<1>6. ASSUME NEW s \in Requests \ {r}
      PROVE  /\ Doomed(s)' = Doomed(s) /\ RepliesLeft(s)' \subseteq RepliesLeft(s)
             /\ \A q \in Posts :
                  /\ Holds(s, Delete(PostRow(q))) => Thread(q)' \subseteq Thread(q)
                  /\ Holds(s, Update(PostRow(q))) => comment_count'[q] = comment_count[q]
  <2>1. \A d : Holds(s, d)' <=> Holds(s, d)
    BY <1>1, LocksPreserved DEF ThreadInv, LikeInv
  <2>2. ~Holds(s, Delete(CommentRow(r)))
    BY <1>2 DEF ThreadInv, RowsLive, Pins
  <2>3. Doomed(s)' = Doomed(s)
    BY <1>1, <2>1, <2>2 DEF Doomed
  <2>4. job[r].ref \notin Doomed(s)
    <3>1. Doomed(s) \subseteq CommentIds
      BY <1>1 DEF Doomed, TypeInv, TypeOK, TablesOK
    <3>2. Replying(r) => ~Holds(s, Delete(CommentRow(job[r].ref)))
      BY <1>1, <1>3, Excludes DEF Pins
    <3>3. QED
      BY <3>1, <3>2, StoreAssumption DEF Doomed, Replying, Targets
  <2>5. RepliesLeft(s)' \subseteq RepliesLeft(s)
    BY <1>1, <1>2, <2>3, <2>4 DEF RepliesLeft
  <2>6. ~Holds(s, Delete(PostRow(p))) /\ ~Holds(s, Update(PostRow(p)))
    BY <1>1, <1>3, Excludes DEF Pins
  <2>7. ASSUME NEW q \in Posts, q # p
        PROVE  Thread(q)' \subseteq Thread(q) /\ comment_count'[q] = comment_count[q]
    BY <1>1, <1>2, <2>7 DEF Thread, CommitComment
  <2>8. QED
    BY <2>3, <2>5, <2>6, <2>7
<1>7. QED
  BY <1>1, <1>5, <1>6, CommitThreads

\* The deletion of a comment takes along every reply, and what was notified
\* of them.
LEMMA CommitDeleteThreads ==
  ASSUME ThreadInv, LikeInv', LocksFit', NEW r \in Requests, CommitDeleteComment(r)
  PROVE  ThreadInv'
<1>1. /\ Moves(r) /\ TypeInv /\ LocksOK /\ pc[r] = "CommitDeleteComment"
      /\ locks' = {l \in locks : l.req # r} /\ pc'[r] = "done" /\ UNCHANGED posts
      /\ comments' = comments \ Doomed(r) /\ comment_count \in [Posts -> Nat]
      /\ notifications' = {n \in notifications : n.comment \notin Doomed(r)}
      /\ PostOf(r) = Comment(job[r].item).post
      /\ comment_count' = [comment_count EXCEPT ![PostOf(r)] = work[r].val]
      /\ \A c : Comment(c)' = Comment(c)
  <2>1. CommentStep(r) /\ pc[r] = "CommitDeleteComment"
    BY DEF CommentStep, CommitDeleteComment
  <2>2. Moves(r) /\ TypeInv /\ LocksOK /\ \A c : Comment(c)' = Comment(c)
    BY <2>1, CommentStepFrame DEF ThreadInv, LikeInv, Moves, Comment
  <2>3. job[r].item \in CommentIds
    BY <2>1, <2>2 DEF TypeInv, TypeOK, ControlOK, Fits, DeleteSteps
  <2>4. QED
    BY <2>1, <2>2, <2>3
       DEF CommitDeleteComment, Committed, Close, PostOf, TypeInv, TypeOK, TablesOK, ControlOK
<1>2. RepliesLeft(r) = {} /\ Holds(r, Update(PostRow(PostOf(r))))
  BY <1>1 DEF ThreadInv, DeleteOK
<1>3. ThreadIntegrity'
  <2>1. ASSUME NEW c \in comments'
        PROVE  /\ Comment(c).post \in posts
               /\ Comment(c).parent # None =>
                    /\ Comment(c).parent \in comments'
                    /\ Comment(Comment(c).parent).post = Comment(c).post
    <3>1. c \in comments /\ Comment(c).parent \notin Doomed(r)
      BY <1>1, <1>2 DEF RepliesLeft
    <3>2. QED
      BY <1>1, <3>1 DEF ThreadInv, ThreadIntegrity
  <2>2. \A n \in notifications' :
          /\ n.post \in posts /\ n.recipient # n.actor
          /\ n.comment # None => n.comment \in comments' /\ Comment(n.comment).post = n.post
    BY <1>1 DEF ThreadInv, ThreadIntegrity
  <2>3. QED
    BY <1>1, <2>1, <2>2 DEF ThreadIntegrity
<1>4. ASSUME NEW s \in Requests \ {r}
      PROVE  /\ Doomed(s)' = Doomed(s) /\ RepliesLeft(s)' \subseteq RepliesLeft(s)
             /\ \A q \in Posts :
                  /\ Thread(q)' \subseteq Thread(q)
                  /\ Holds(s, Update(PostRow(q))) => comment_count'[q] = comment_count[q]
             /\ \A c \in CommentIds :
                  c \in comments /\ Pins(s, CommentRow(c)) => c \in comments'
  <2>1. \A d : Holds(s, d)' <=> Holds(s, d)
    BY <1>1, LocksPreserved DEF ThreadInv, LikeInv
  <2>2. \A c : Pins(s, CommentRow(c)) => c \notin Doomed(r)
    BY <1>1, Excludes DEF Doomed
  <2>3. Doomed(s)' = Doomed(s)
    BY <1>1, <2>1, <2>2 DEF Doomed, Pins
  <2>4. ~Holds(s, Update(PostRow(PostOf(r))))
    BY <1>1, <1>2, Excludes
  <2>5. QED
    BY <1>1, <2>2, <2>3, <2>4 DEF RepliesLeft, Thread
<1>5. QED
  BY <1>1, <1>3, <1>4, CommitThreads

\* The deletion of a post takes along all its comments, and nothing that
\* hangs on another.
LEMMA CommitPurgeThreads ==
  ASSUME ThreadInv, LikeInv', LocksFit', NEW r \in Requests, CommitDeletePost(r)
  PROVE  ThreadInv'
<1> DEFINE p == job[r].item
<1>1. /\ Moves(r) /\ TypeInv /\ LocksOK /\ pc[r] = "CommitDeletePost"
      /\ locks' = {l \in locks : l.req # r} /\ pc'[r] = "done" /\ UNCHANGED comment_count
      /\ \A c : Comment(c)' = Comment(c)
      /\ Doomed(r) \subseteq Thread(p)
  <2>1. PostStep(r) /\ pc[r] = "CommitDeletePost"
    BY DEF PostStep, CommitDeletePost
  <2>2. Moves(r) /\ TypeInv /\ LocksOK /\ \A c : Comment(c)' = Comment(c)
    BY <2>1, PostStepFrame DEF ThreadInv, LikeInv, Moves, Comment
  <2>3. QED
    BY <2>1, <2>2 DEF CommitDeletePost, Committed, Close, ThreadInv, PurgeOK, TypeInv, TypeOK, ControlOK
<1>2. CASE ~Holds(r, Delete(PostRow(p)))
  <2>1. UNCHANGED <<posts, comments, notifications>>
    BY <1>2 DEF CommitDeletePost
  <2>2. ThreadIntegrity'
    BY <1>1, <2>1 DEF ThreadInv, ThreadIntegrity
  <2>3. ThreadsOK(r)'
    BY <1>1 DEF ThreadsOK, CreateOK, DeleteOK, PurgeOK, NoteOK, LikeSteps
  <2>4. QED
    BY <1>1, <2>1, <2>2, <2>3, ThreadFrame
<1>3. CASE Holds(r, Delete(PostRow(p)))
  <2>1. /\ posts' = posts \ {p} /\ comments' = comments \ Doomed(r)
        /\ notifications' = {n \in notifications : n.post # p /\ n.comment \notin Doomed(r)}
    BY <1>3 DEF CommitDeletePost
  <2>2. Doomed(r) = Thread(p)
    BY <1>1, <1>3 DEF ThreadInv, PurgeOK
  <2>3. ThreadIntegrity'
    <3>1. ASSUME NEW c \in comments'
          PROVE  /\ Comment(c).post \in posts'
                 /\ Comment(c).parent # None =>
                      /\ Comment(c).parent \in comments'
                      /\ Comment(Comment(c).parent).post = Comment(c).post
      <4>1. c \in comments /\ Comment(c).post # p
        BY <2>1, <2>2 DEF Thread
      <4>2. QED
        BY <2>1, <2>2, <4>1 DEF ThreadInv, ThreadIntegrity, Thread
    <3>2. \A n \in notifications' :
            /\ n.post \in posts' /\ n.recipient # n.actor
            /\ n.comment # None => n.comment \in comments' /\ Comment(n.comment).post = n.post
      BY <2>1 DEF ThreadInv, ThreadIntegrity
    <3>3. QED
      BY <1>1, <3>1, <3>2 DEF ThreadIntegrity
  <2>4. ASSUME NEW s \in Requests \ {r}
        PROVE  /\ Doomed(s)' = Doomed(s) /\ RepliesLeft(s)' \subseteq RepliesLeft(s)
               /\ \A q \in Posts :
                    /\ Thread(q)' \subseteq Thread(q)
                    /\ q \in posts /\ Pins(s, PostRow(q)) => q \in posts'
               /\ \A c \in CommentIds :
                    c \in comments /\ Pins(s, CommentRow(c)) => c \in comments'
    <3>1. \A d : Holds(s, d)' <=> Holds(s, d)
      BY <1>1, LocksPreserved DEF ThreadInv, LikeInv
    <3>2. \A c : Pins(s, CommentRow(c)) => c \notin Doomed(r)
      BY <1>1, Excludes DEF Doomed
    <3>3. ~Pins(s, PostRow(p))
      BY <1>1, <1>3, Excludes
    <3>4. Doomed(s)' = Doomed(s)
      BY <2>1, <3>1, <3>2 DEF Doomed, Pins
    <3>5. QED
      BY <1>1, <2>1, <3>2, <3>3, <3>4 DEF RepliesLeft, Thread
  <2>5. QED
    BY <1>1, <2>1, <2>3, <2>4, CommitThreads
<1>4. QED
  BY <1>2, <1>3

\* A like notifies the owner of a target that it has pinned.
LEMMA CommitLikeThreads ==
  ASSUME ThreadInv, LikeInv', LocksFit', NEW r \in Requests, CommitLike(r)
  PROVE  ThreadInv'
<1>1. /\ InFlight(r) /\ TypeInv /\ pc[r] = "CommitLike" /\ pc[r] \in LikeSteps
      /\ pc \in [Requests -> Steps]
      /\ OnPost(r) => job[r].item \in Posts
      /\ ~OnPost(r) => job[r].item \in CommentIds
  BY DEF CommitLike, InFlight, LikeSteps, ThreadInv, LikeInv, TypeInv, TypeOK, ControlOK, Fits,
         OnPost, LikeOps
<1>2. Moves(r)
  BY <1>1, CommittedMoves DEF CommitLike
<1>3. /\ locks' = {l \in locks : l.req # r} /\ pc'[r] = "done"
      /\ UNCHANGED <<posts, comments, comment_count>> /\ \A c : Comment(c)' = Comment(c)
  BY <1>1, <1>2 DEF CommitLike, Committed, Close, Moves, Comment
<1>4. ThreadsOK(r)'
  BY <1>3 DEF ThreadsOK, CreateOK, DeleteOK, PurgeOK, NoteOK, LikeSteps
<1>5. ASSUME work[r].note, NEW n,
             n = Notice(r, Owner(job[r].item), NoticePost(r), NoticeComment(r))
      PROVE  /\ n.post \in posts /\ n.recipient # n.actor
             /\ n.comment # None => n.comment \in comments /\ Comment(n.comment).post = n.post
  <2>1. /\ n.recipient # n.actor /\ n.post = NoticePost(r) /\ n.comment = NoticeComment(r)
        /\ Holds(r, Reference(PostRow(NoticePost(r))))
        /\ ~OnPost(r) => Holds(r, Reference(CommentRow(job[r].item)))
    BY <1>1, <1>5 DEF ThreadInv, NoteOK, Notice, NotifyLikedLocks
  <2>2. CASE OnPost(r)
    BY <1>1, <2>1, <2>2 DEF NoticePost, NoticeComment, ThreadInv, RowsLive, Pins
  <2>3. CASE ~OnPost(r)
    <3>1. job[r].item \in comments
      BY <1>1, <2>1, <2>3 DEF ThreadInv, RowsLive, Pins
    <3>2. QED
      BY <2>1, <2>3, <3>1 DEF NoticePost, NoticeComment, ThreadInv, ThreadIntegrity
  <2>4. QED
    BY <2>2, <2>3
<1>6. ThreadIntegrity'
  <2>1. \A n \in notifications' : n \in notifications \/ (work[r].note /\
          n = Notice(r, Owner(job[r].item), NoticePost(r), NoticeComment(r)))
    BY DEF CommitLike
  <2>2. \A n \in notifications' :
          /\ n.post \in posts /\ n.recipient # n.actor
          /\ n.comment # None => n.comment \in comments /\ Comment(n.comment).post = n.post
    BY <1>5, <2>1 DEF ThreadInv, ThreadIntegrity
  <2>3. QED
    BY <1>3, <2>2 DEF ThreadInv, ThreadIntegrity
<1>7. QED
  BY <1>2, <1>3, <1>4, <1>6, ThreadFrame

\* A failing statement and the victim of a deadlock forget what they did.
LEMMA RollbackThreads ==
  ASSUME ThreadInv, LikeInv', LocksFit', NEW r \in Requests, Timeout(r) \/ DeadlockVictim(r)
  PROVE  ThreadInv'
<1>1. Moves(r) /\ UNCHANGED tables
  BY RollbackMoves DEF Timeout, DeadlockVictim, ThreadInv, LikeInv
<1>2. locks' = {l \in locks : l.req # r} /\ pc'[r] = "done"
  BY DEF Timeout, DeadlockVictim, Rollback, Close, ThreadInv, LikeInv, TypeInv, TypeOK, ControlOK
<1>3. ThreadsOK(r)'
  BY <1>2 DEF ThreadsOK, CreateOK, DeleteOK, PurgeOK, NoteOK, LikeSteps
<1>4. QED
  BY <1>1, <1>2, <1>3, ThreadStatement

\* What a call that begins leaves alone, and where it begins.
LEMMA Starts ==
  ASSUME LikeInv, NEW r \in Requests, Start(r)
  PROVE  /\ pc[r] = "idle" /\ Keeps(r) /\ UNCHANGED <<tables, locks, work, answer>>
         /\ work[r] = Blank /\ \A d : ~Holds(r, d)
         /\ pc'[r] \in {"AddLike", "RemoveLike", "LookupThread", "LookupComment", "LookupShelf",
                        "RemoveCollection", "DeleteFolderRow", "LookupOwn"}
<1>1. \E op, u, x, y :
        \E step \in {"AddLike", "RemoveLike", "LookupThread", "LookupComment", "LookupShelf",
                    "RemoveCollection", "DeleteFolderRow", "LookupOwn"} :
          Begin(r, op, u, x, y, step)
  <2>1. CASE StartLike(r)
    BY <2>1, SMTT(30) DEF StartLike
  <2>2. CASE StartComment(r)
    BY <2>2, SMTT(30) DEF StartComment
  <2>3. CASE StartCollection(r)
    BY <2>3, SMTT(30) DEF StartCollection
  <2>4. CASE StartDeletePost(r)
    BY <2>4 DEF StartDeletePost
  <2>5. QED
    BY <2>1, <2>2, <2>3, <2>4 DEF Start
<1>9. PICK op, u, x, y :
        \E step \in {"AddLike", "RemoveLike", "LookupThread", "LookupComment", "LookupShelf",
                    "RemoveCollection", "DeleteFolderRow", "LookupOwn"} :
          Begin(r, op, u, x, y, step)
  BY <1>1
<1>0. PICK step \in {"AddLike", "RemoveLike", "LookupThread", "LookupComment", "LookupShelf",
                    "RemoveCollection", "DeleteFolderRow", "LookupOwn"} :
        Begin(r, op, u, x, y, step)
  BY <1>9
<1>2. /\ pc[r] = "idle" /\ pc' = [pc EXCEPT ![r] = step]
      /\ UNCHANGED <<tables, locks, work, answer>>
      /\ \A s \in Requests \ {r} : pc'[s] = pc[s] /\ job'[s] = job[s] /\ work'[s] = work[s]
  BY <1>0 DEF Begin, LikeInv, TypeInv, TypeOK, ControlOK
<1>3. work[r] = Blank /\ \A d : ~Holds(r, d)
  BY <1>2 DEF LikeInv, LocksOK, Holds, InFlight
<1>4. QED
  BY <1>2, <1>3 DEF LikeInv, TypeInv, TypeOK, ControlOK, Keeps

\* A call that begins has locked and promised nothing.
LEMMA StartThreads ==
  ASSUME ThreadInv, LikeInv', LocksFit', NEW r \in Requests, Start(r)
  PROVE  ThreadInv'
<1>1. /\ pc[r] = "idle" /\ Keeps(r) /\ UNCHANGED <<posts, comments, comment_count, notifications>>
      /\ UNCHANGED locks /\ work'[r] = Blank /\ \A d : ~Holds(r, d)
      /\ pc'[r] \in {"AddLike", "RemoveLike", "LookupThread", "LookupComment", "LookupShelf",
                     "RemoveCollection", "DeleteFolderRow", "LookupOwn"}
  BY Starts DEF ThreadInv, tables
<1>2. TypeInv /\ comments \subseteq CommentIds /\ notifications \subseteq Notifications
  BY DEF ThreadInv, LikeInv, TypeInv, TypeOK, TablesOK
<1>3. \A s \in Requests : \A d : Holds(s, d)' <=> Holds(s, d)
  BY <1>1 DEF Holds
<1>4. \A c \in comments : Comment(c)' = Comment(c)
  BY <1>1, <1>2, ColumnsFixed DEF TypeInv, NamesWritten
<1>5. ThreadIntegrity'
  BY <1>1, <1>2, <1>4 DEF ThreadInv, ThreadIntegrity
<1>6. RowsLive'
  BY <1>1, <1>3 DEF ThreadInv, RowsLive, Pins
<1>7. ThreadsOK(r)'
  BY <1>1, <1>3 DEF ThreadsOK, CreateOK, DeleteOK, PurgeOK, NoteOK, Blank
<1>8. ASSUME NEW s \in Requests \ {r}
      PROVE  ThreadsOK(s)'
  <2>1. Doomed(s)' = Doomed(s)
    BY <1>1, <1>3 DEF Doomed
  <2>2. RepliesLeft(s)' \subseteq RepliesLeft(s)
    BY <1>1, <1>4, <2>1 DEF RepliesLeft
  <2>3. \A p : Thread(p)' = Thread(p)
    BY <1>1, <1>4 DEF Thread
  <2>4. ThreadsOK(s)
    BY DEF ThreadInv, ThreadsOK
  <2>5. QED
    BY <1>1, <1>2, <1>3, <2>1, <2>2, <2>3, <2>4, OthersThreads
<1>9. QED
  BY <1>5, <1>6, <1>7, <1>8 DEF ThreadInv, ThreadsOK

\* The store before the first call is sound.
LEMMA InitThreads == Init => ThreadInv
<1> SUFFICES ASSUME Init PROVE ThreadInv
  OBVIOUS
<1>1. LikeInv
  BY InitInv
<1>2. locks = {} /\ \A r \in Requests : pc[r] = "idle"
  BY DEF Init, StoreInit
<1>3. LocksFit /\ RowsLive
  BY <1>2 DEF LocksFit, RowsLive, Pins, Holds
<1>4. ThreadIntegrity
  BY StoreAssumption DEF Init, StoreInit, ThreadIntegrity, Comment
<1>5. \A r \in Requests : CreateOK(r) /\ DeleteOK(r) /\ PurgeOK(r) /\ NoteOK(r)
  BY <1>2 DEF CreateOK, DeleteOK, PurgeOK, NoteOK, LikeSteps
<1>6. QED
  BY <1>1, <1>3, <1>4, <1>5 DEF ThreadInv

\* Every step of the system keeps what is said of locks and threads.
LEMMA ThreadPreserved ==
  ASSUME ThreadInv, [Next]_vars
  PROVE  ThreadInv'
<1>1. LikeInv' /\ LocksFit'
  BY LikeInvPreserved, LocksFitPreserved DEF ThreadInv, LikeInv
<1>2. ASSUME NEW r \in Requests, CommentStep(r)
      PROVE  ThreadInv'
  BY <1>1, <1>2, CreateThreads, DeleteThreads, CommitCommentThreads, CommitDeleteThreads
     DEF CommentStep
<1>3. CASE UNCHANGED vars
  <2>1. RowsLive' /\ ThreadIntegrity'
    BY <1>3 DEF ThreadInv, RowsLive, Pins, Holds, ThreadIntegrity, Comment, vars, tables
  <2>2. \A r \in Requests : CreateOK(r)' /\ NoteOK(r)'
    BY <1>3 DEF ThreadInv, CreateOK, NoteOK, Replying, Recipient, InsertCommentLocks, Holds,
                Owner, NotifyLikedLocks, NoticePost, OnPost, Comment, vars, tables
  <2>3. \A r \in Requests : DeleteOK(r)' /\ PurgeOK(r)'
    <3>1. \A c : Comment(c)' = Comment(c)
      BY <1>3 DEF vars, Comment
    <3>2. \A r \in Requests : \A d : Holds(r, d)' <=> Holds(r, d)
      BY <1>3 DEF vars, Holds
    <3>3. \A r \in Requests : Doomed(r)' = Doomed(r)
      BY <1>3, <3>2 DEF vars, tables, Doomed
    <3>4. \A r \in Requests : RepliesLeft(r)' = RepliesLeft(r)
      BY <1>3, <3>1, <3>3 DEF vars, tables, RepliesLeft
    <3>5. \A p : Thread(p)' = Thread(p)
      BY <1>3, <3>1 DEF vars, tables, Thread
    <3>6. \A r \in Requests : DeleteOK(r) /\ PurgeOK(r)
      BY DEF ThreadInv
    <3>7. TAKE r \in Requests
    <3>8. PostOf(r)' = PostOf(r)
      BY <1>3, <3>1 DEF vars, PostOf
    <3>9. DeleteOK(r)'
      <4>1. job' = job /\ pc' = pc
        BY <1>3 DEF vars
      <4>2. Holds(r, Delete(CommentRow(job[r].item)))' = Holds(r, Delete(CommentRow(job[r].item)))
        BY <1>3 DEF vars, Holds
      <4>3. Holds(r, Update(PostRow(PostOf(r))))' = Holds(r, Update(PostRow(PostOf(r))))
        BY <1>3, <3>8 DEF vars, Holds
      <4>4. \A c : Comment(c)' = Comment(c)
        BY <3>1
      <4>5. DeleteOK(r)
        BY <3>6
      <4>6. QED
        BY <4>1, <4>2, <4>3, <4>4, <4>5, <3>3, <3>4, <3>8 DEF DeleteOK
    <3>10. PurgeOK(r)'
      <4>1. job' = job /\ pc' = pc /\ posts' = posts
        BY <1>3 DEF vars, tables
      <4>2. Holds(r, Delete(PostRow(job[r].item)))' = Holds(r, Delete(PostRow(job[r].item)))
        BY <1>3 DEF vars, Holds
      <4>3. Thread(job[r].item)' = Thread(job[r].item)
        BY <4>1, <3>5, <3>1, <1>3 DEF vars, tables, Thread
      <4>5. PurgeOK(r)
        BY <3>6
      <4>6. QED
        BY <4>1, <4>2, <4>3, <4>5, <3>3 DEF PurgeOK
    <3>11. QED
      BY <3>9, <3>10
  <2>4. QED
    BY <1>1, <2>1, <2>2, <2>3 DEF ThreadInv
<1>4. QED
  BY <1>1, <1>2, <1>3, StartThreads, LikeThreads, CommitLikeThreads, ShelfThreads,
     PurgeThreads, CommitPurgeThreads, RollbackThreads DEF Next, Step, Quiet

\* However creations and deletions of comments and posts interleave, a comment
\* hangs on a live post and answers a live comment of the same post, and a
\* notification leads to rows that are there.
THEOREM ThreadsSound == Spec => []ThreadIntegrity
<1>1. Init => ThreadInv
  BY InitThreads
<1>2. ThreadInv /\ [Next]_vars => ThreadInv'
  BY ThreadPreserved
<1>3. ThreadInv => ThreadIntegrity
  BY DEF ThreadInv
<1>4. QED
  BY <1>1, <1>2, <1>3, PTL DEF Spec

-----------------------------------------------------------------------------
(* Collections and folders: CollectCountExact and FiledInOwnFolder *)

ShelvesOK(s) == ShelfOK(s) /\ FolderOK(s) /\ ShelvesPurged(s)

\* A folder a call names is a folder.
LEMMA FolderNamed ==
  ASSUME TypeInv, NEW r \in Requests, InFlight(r)
  PROVE  /\ pc[r] \in ShelfSteps => /\ job[r].op \in {"Collect", "Uncollect"}
                                   /\ job[r].item \in Posts /\ job[r].ref \in Folders \cup {None}
         /\ pc[r] \in FolderSteps => job[r].op = "DeleteFolder" /\ job[r].item \in Folders
         /\ job[r].user \in Users
  BY Inputs DEF TypeInv, TypeOK, ControlOK, Fits

\* Folders are locked by the handlers of collections only.
LEMMA NoFolder ==
  ASSUME NEW step, step \notin CollectionSteps, NEW j, NEW p, NEW f
  PROVE  /\ Delete(FolderRow(f)) \notin Allowed(step, j, p)
         /\ Update(FolderRow(f)) \notin Allowed(step, j, p)
         /\ Reference(FolderRow(f)) \notin Allowed(step, j, p)
<1> DEFINE Other(d) == d.row # FolderRow(f)
<1>1. \A c : Other(Delete(CommentRow(c))) /\ Other(Reference(CommentRow(c)))
  BY LockKinds, RowsApart
<1>2. \A c : Other(Delete(PostRow(c))) /\ Other(Update(PostRow(c))) /\ Other(Reference(PostRow(c)))
  BY LockKinds, RowsApart
<1>3. \A u, t : Other(Delete(LikeRow(u, t))) /\ Other(Delete(CollectionRow(u, t)))
  BY LockKinds, RowsApart
<1>4. \A t : Other(Update(TargetRow(t))) /\ Other(Reference(TargetRow(t)))
  BY LockKinds, RowsApart
<1>5. \A d \in Allowed(step, j, p) : Other(d)
  <2> HIDE DEF Other
  <2>1. QED
    BY <1>1, <1>2, <1>3, <1>4 DEF Allowed, CollectionSteps, ShelfSteps, FolderSteps
<1>6. QED
  BY <1>5, LockKinds

\* A request that is not serving collections has nothing to keep about them.
LEMMA NoShelf ==
  ASSUME NEW r \in Requests, ShelfOK(r), UNCHANGED job,
         pc'[r] \notin CollectionSteps, pc'[r] # "CommitDeletePost"
  PROVE  ShelvesOK(r)'
BY DEF ShelvesOK, ShelfOK, FolderOK, ShelvesPurged, CollectionSteps, ShelfSteps, FolderSteps

\* What one request does leaves what is said of another's collections true, if
\* it spares the rows the other has locked.
LEMMA OthersShelves ==
  ASSUME TypeInv, NEW r \in Requests, Keeps(r), NEW s \in Requests \ {r}, ShelvesOK(s),
         \A d : Holds(s, d)' <=> Holds(s, d),
         posts' \subseteq posts,
         \A u \in Users, p \in Posts :
           /\ Holds(s, Delete(CollectionRow(u, p))) =>
                (<<u, p>> \in collections' <=> <<u, p>> \in collections)
           /\ Holds(s, Update(CollectionRow(u, p))) => filed'[<<u, p>>] = filed[<<u, p>>],
         \A p \in Posts :
           /\ Holds(s, Update(PostRow(p))) => collect_count'[p] = collect_count[p]
           /\ Holds(s, Delete(PostRow(p))) => Collectors(p)' \subseteq Collectors(p),
         \A f \in Folders : Holds(s, Delete(FolderRow(f))) =>
           {k \in collections' : filed'[k] = f} \subseteq {k \in collections : filed[k] = f}
  PROVE  ShelvesOK(s)'
<1>1. PICK j, w : j = job[s] /\ w = work[s]
  OBVIOUS
<1>2. job'[s] = j /\ work'[s] = w /\ pc'[s] = pc[s]
  BY <1>1 DEF Keeps
<1>0. /\ pc[s] \in ShelfSteps => j.user \in Users /\ j.item \in Posts
      /\ pc[s] \in FolderSteps => j.item \in Folders
      /\ pc[s] = "CommitDeletePost" => j.item \in Posts
  BY <1>1, FolderNamed DEF InFlight, ShelfSteps, FolderSteps, PostSteps, TypeInv, TypeOK, ControlOK,
                           Fits
<1>3. ShelfOK(s)'
  BY <1>0, <1>1, <1>2 DEF ShelvesOK, ShelfOK, Collecting, Collected, IntoFolder, NewCollectCount
<1>4. FolderOK(s)'
  <2>1. FolderOK(s)
    BY DEF ShelvesOK
  <2>2. pc[s] = "CommitDeleteFolder" => FiledLeft(s)' \subseteq FiledLeft(s)
    BY <1>0, <1>1, <1>2, <2>1 DEF FolderOK, FiledLeft, FolderSteps
  <2>3. \A k \in Users \X Posts :
          Holds(s, Update(CollectionRow(k[1], k[2]))) => filed'[k] = filed[k]
    OBVIOUS
  <2>4. QED
    BY <1>1, <1>2, <2>1, <2>2, <2>3 DEF FolderOK
<1>5. ShelvesPurged(s)'
  BY <1>0, <1>1, <1>2 DEF ShelvesOK, ShelvesPurged
<1>6. QED
  BY <1>3, <1>4, <1>5 DEF ShelvesOK

\* A step that writes no row of these tables keeps the invariant, if what it
\* says of its own request is true and the folders it locks are there.
LEMMA ShelfFrame ==
  ASSUME ShelfInv, ThreadInv', NEW r \in Requests, Moves(r),
         UNCHANGED <<posts, folders, collections, filed, collect_count>>, ShelvesOK(r)',
         \A f \in Folders : Pins(r, FolderRow(f))' => f \in folders
  PROVE  ShelfInv'
<1>1. \A s \in Requests \ {r} : \A d : Holds(s, d)' <=> Holds(s, d)
  BY LocksPreserved DEF ShelfInv, ThreadInv, LikeInv
<1>2. CollectCountExact' /\ CollectionsLive'
  BY DEF ShelfInv, CollectCountExact, CollectionsLive, Collectors
<1>3. FiledInOwnFolder'
  BY DEF ShelfInv, FiledInOwnFolder
<1>4. FoldersLive'
  BY <1>1 DEF ShelfInv, FoldersLive, Pins
<1>5. ASSUME NEW s \in Requests \ {r}
      PROVE  ShelvesOK(s)'
  <2>1. TypeInv /\ ShelvesOK(s) /\ Keeps(r)
    BY DEF ShelfInv, ShelvesOK, Moves, ThreadInv, LikeInv
  <2>2. \A p : Collectors(p)' = Collectors(p)
    BY DEF Collectors
  <2>3. QED
    BY <1>1, <2>1, <2>2, OthersShelves
<1>6. QED
  BY <1>2, <1>3, <1>4, <1>5 DEF ShelfInv, ShelvesOK

\* A step that neither serves collections nor purges a post.
LEMMA ElsewhereShelves ==
  ASSUME ShelfInv, ThreadInv', NEW r \in Requests, Moves(r),
         UNCHANGED <<posts, folders, collections, filed, collect_count>>,
         pc'[r] \notin CollectionSteps, pc'[r] # "CommitDeletePost"
  PROVE  ShelfInv'
<1>1. ShelvesOK(r)'
  BY NoShelf DEF ShelfInv, Moves
<1>2. ASSUME NEW f \in Folders, Pins(r, FolderRow(f))'
      PROVE  FALSE
  <2>1. \A l \in locks' : l.req = r =>
          [row |-> l.row, mode |-> l.mode] \in Allowed(pc'[r], job'[r], PostOf(r)')
    BY DEF ThreadInv, LocksFit, MayHold
  <2>2. PICK d \in {Delete(FolderRow(f)), Update(FolderRow(f)), Reference(FolderRow(f))} :
          [req |-> r, row |-> d.row, mode |-> d.mode] \in locks'
    BY <1>2 DEF Pins, Holds
  <2>3. d \in Allowed(pc'[r], job'[r], PostOf(r)')
    BY <2>1, <2>2 DEF Delete, Update, Reference
  <2>4. QED
    BY <2>3, NoFolder
<1>3. QED
  BY <1>1, <1>2, ShelfFrame

\* Likes and comments leave collections alone.
LEMMA VotesAndThreadsKeepShelves ==
  ASSUME ShelfInv, ThreadInv', NEW r \in Requests, LikeStep(r) \/ CommentStep(r)
  PROVE  ShelfInv'
<1>1. TypeInv /\ TypeInv'
  BY DEF ShelfInv, ThreadInv, LikeInv
<1>2. InFlight(r) /\ pc \in [Requests -> Steps]
  BY <1>1 DEF TypeInv, TypeOK, ControlOK, LikeStep, AddLike, RemoveLike, BumpLikes, ReadLiked,
     ReadTarget, NotifyLiked, CommitLike, CommentStep, LookupThread, InsertComment, BumpComments,
     CommitComment, LoadAuthor, LookupComment, DeleteCommentRow, CascadeReplies, SnapshotCount,
     RecountComments, CommitDeleteComment, InFlight
<1>3. CASE LikeStep(r)
  <2>1. pc'[r] \in LikeSteps \cup {"done"}
    BY <1>2, <1>3 DEF LikeStep, AddLike, RemoveLike, BumpLikes, ReadLiked, ReadTarget, NotifyLiked,
       CommitLike, Goto, Rollback, Committed, Close, AfterBump, AfterLiked, AfterTarget, LikeSteps
  <2>2. CASE CommitLike(r)
    <3>1. Moves(r)
      BY <1>1, <1>2, <2>2, CommittedMoves DEF CommitLike
    <3>2. QED
      BY <2>1, <2>2, <3>1, ElsewhereShelves
         DEF CommitLike, CollectionSteps, ShelfSteps, FolderSteps, LikeSteps
  <2>3. CASE ~CommitLike(r)
    <3>1. Moves(r) /\ UNCHANGED tables
      BY <1>1, <1>3, <2>3, LikeStatementFrame
    <3>2. QED
      BY <2>1, <3>1, ElsewhereShelves
         DEF tables, CollectionSteps, ShelfSteps, FolderSteps, LikeSteps
  <2>4. QED
    BY <2>2, <2>3
<1>4. CASE CommentStep(r)
  <2>1. Moves(r) /\ UNCHANGED posts
    BY <1>1, <1>4, CommentStepFrame
  <2>2. UNCHANGED <<folders, collections, filed, collect_count>>
    BY <1>4 DEF CommentStep, LookupThread, InsertComment, BumpComments, CommitComment, LoadAuthor,
       LookupComment, DeleteCommentRow, CascadeReplies, SnapshotCount, RecountComments,
       CommitDeleteComment, Goto, Rollback, tables
  <2>3. pc'[r] \in CommentSteps \cup {"done"}
    BY <1>2, <1>4 DEF CommentStep, LookupThread, InsertComment, BumpComments, CommitComment,
       LoadAuthor, LookupComment, DeleteCommentRow, CascadeReplies, SnapshotCount,
       RecountComments, CommitDeleteComment, Goto, Rollback, Committed, Close, CommentSteps,
       CreateSteps, DeleteSteps
  <2>4. QED
    BY <2>1, <2>2, <2>3, ElsewhereShelves
       DEF CollectionSteps, ShelfSteps, FolderSteps, CommentSteps, CreateSteps, DeleteSteps
<1>5. QED
  BY <1>3, <1>4

\* So does a transaction that fails.
LEMMA RollbackShelves ==
  ASSUME ShelfInv, ThreadInv', NEW r \in Requests, InFlight(r), NEW a, Rollback(r, a)
  PROVE  ShelfInv'
<1>1. Moves(r) /\ UNCHANGED tables
  BY RollbackMoves DEF ShelfInv, ThreadInv, LikeInv
<1>2. pc'[r] = "done"
  BY DEF Rollback, Close, ShelfInv, ThreadInv, LikeInv, TypeInv, TypeOK, ControlOK
<1>3. QED
  BY <1>1, <1>2, ElsewhereShelves DEF tables, CollectionSteps, ShelfSteps, FolderSteps

\* A statement takes locks on folders that are there, or on none.
LEMMA ShelfStatement ==
  ASSUME ShelfInv, ThreadInv', NEW r \in Requests, Moves(r), UNCHANGED tables, ShelvesOK(r)',
         \/ UNCHANGED locks
         \/ \E D : Acquire(r, D) /\ \A d \in D : \A f \in Folders :
                                      d.row = FolderRow(f) => f \in folders
  PROVE  ShelfInv'
<1>1. ASSUME NEW f \in Folders, Pins(r, FolderRow(f))'
      PROVE  f \in folders
  <2>1. CASE UNCHANGED locks
    BY <1>1, <2>1 DEF ShelfInv, FoldersLive, Pins, Holds
  <2>2. ASSUME NEW D, Acquire(r, D),
               \A d \in D : \A g \in Folders : d.row = FolderRow(g) => g \in folders
        PROVE  f \in folders
    <3>1. Pins(r, FolderRow(f)) \/ \E e \in D : e.row = FolderRow(f)
      BY <1>1, <2>2, HoldsMore, LockKinds DEF Pins
    <3>2. QED
      BY <2>2, <3>1 DEF ShelfInv, FoldersLive
  <2>3. QED
    BY <2>1, <2>2
<1>2. QED
  BY <1>1, ShelfFrame DEF tables

\* The statements of Collect and Uncollect up to the commit.
LEMMA CollectShelves ==
  ASSUME ShelfInv, ThreadInv', NEW r \in Requests,
         \/ LookupShelf(r) \/ AddCollection(r) \/ RemoveCollection(r) \/ BumpCollects(r)
         \/ ReadShelf(r)
  PROVE  ShelfInv'
<1> DEFINE u == job[r].user
           p == job[r].item
           f == job[r].ref
<1>1. /\ InFlight(r) /\ pc[r] \in ShelfSteps /\ pc \in [Requests -> Steps]
      /\ work \in [Requests -> Work] /\ TypeInv
      /\ ShelfOK(r) /\ LocksFit /\ RowsLive
  BY DEF LookupShelf, AddCollection, RemoveCollection, BumpCollects, ReadShelf, InFlight, ShelfSteps,
         ShelfInv, ThreadInv, LikeInv, TypeInv, TypeOK, ControlOK
<1>2. /\ job[r].op \in {"Collect", "Uncollect"} /\ p \in Posts
      /\ f \in Folders \cup {None} /\ u \in Users
  BY <1>1, FolderNamed
<1>3. CollectionStep(r)
  BY DEF CollectionStep
<1>4. Moves(r)
  BY <1>1, <1>3, CollectionStepFrame
<1>5. UNCHANGED tables
  BY DEF LookupShelf, AddCollection, RemoveCollection, BumpCollects, ReadShelf, Goto, Rollback
<1>6. ASSUME NEW a, Rollback(r, a) PROVE ShelfInv'
  BY <1>1, <1>6, RollbackShelves
<1>7. CASE LookupShelf(r) /\ ~Rollback(r, "missing")
  <2>1. /\ pc[r] = "LookupShelf" /\ pc'[r] = "AddCollection"
        /\ UNCHANGED <<locks, work, job>>
        /\ IntoFolder(r) => FolderOwner[f] = u
    BY <1>1, <1>7 DEF LookupShelf, Goto
  <2>2. \A row : ~Holds(r, Update(row))
    BY <1>1, <2>1, HeldAllowed DEF MayHold, Allowed
  <2>3. ShelvesOK(r)'
    BY <1>1, <2>1, <2>2 DEF ShelvesOK, ShelfOK, FolderOK, ShelvesPurged, ShelfSteps, FolderSteps,
                            Holds, IntoFolder, Collecting
  <2>4. QED
    BY <1>4, <1>5, <2>1, <2>3, ShelfStatement
<1>8. CASE AddCollection(r) /\ Collected(r) \in collections
  <2>1. /\ pc[r] = "AddCollection" /\ pc'[r] = "ReadShelf"
        /\ UNCHANGED <<locks, work, job>>
    BY <1>1, <1>8 DEF AddCollection, Goto
  <2>2. \A row : ~Holds(r, Update(row))
    BY <1>1, <2>1, HeldAllowed DEF MayHold, Allowed
  <2>3. ShelvesOK(r)'
    BY <1>1, <2>1, <2>2 DEF ShelvesOK, ShelfOK, FolderOK, ShelvesPurged, ShelfSteps, FolderSteps,
                            Holds, IntoFolder, Collecting
  <2>4. QED
    BY <1>4, <1>5, <2>1, <2>3, ShelfStatement
<1>9. CASE AddCollection(r) /\ Collected(r) \notin collections /\ ~Rollback(r, "failed")
  <2>1. /\ pc[r] = "AddCollection" /\ pc'[r] = "BumpCollects"
        /\ Acquire(r, AddCollectionLocks(r))
        /\ IntoFolder(r) => f \in folders
    BY <1>1, <1>9 DEF AddCollection, Goto
  <2>2. UNCHANGED <<job, collections>> /\ work'[r].rows = 1
    BY <1>1, <1>9 DEF AddCollection, Goto, tables, Work
  <2>3. \A row : ~Holds(r, Update(row))
    BY <1>1, <2>1, HeldAllowed DEF MayHold, Allowed
  <2>4. \A row : ~Holds(r, Update(row))'
    <3>1. \A d \in AddCollectionLocks(r) : d.mode # "NoKeyUpdate"
      BY LockKinds DEF AddCollectionLocks
    <3>2. QED
      BY <2>1, <2>3, <3>1, HoldsMore, LockKinds
  <2>5. /\ Holds(r, Delete(CollectionRow(u, p)))' /\ Holds(r, Reference(PostRow(p)))'
        /\ IntoFolder(r) => Holds(r, Reference(FolderRow(f)))'
    BY <1>9, <2>1, <2>2, HoldsMore DEF AddCollectionLocks
  <2>6. ShelfOK(r)'
    BY <1>1, <1>9, <2>1, <2>2, <2>4, <2>5 DEF ShelfOK, ShelfSteps, IntoFolder, Collecting, Collected
  <2>7. ShelvesOK(r)'
    BY <2>1, <2>6 DEF ShelvesOK, FolderOK, ShelvesPurged
  <2>8. \A d \in AddCollectionLocks(r) : \A g \in Folders : d.row = FolderRow(g) => g \in folders
    <3>1. \A g \in Folders : /\ CollectionRow(u, p) # FolderRow(g) /\ PostRow(p) # FolderRow(g)
                             /\ FolderRow(f) = FolderRow(g) => f = g
      BY RowsApart
    <3>2. QED
      BY <2>1, <3>1, LockKinds DEF AddCollectionLocks
  <2>9. QED
    BY <1>4, <1>5, <2>1, <2>7, <2>8, ShelfStatement
<1>10. CASE RemoveCollection(r)
  <2>1. /\ pc[r] = "RemoveCollection" /\ pc'[r] \in {"BumpCollects", "ReadShelf"}
        /\ Acquire(r, RemoveCollectionLocks(r)) /\ UNCHANGED <<job, collections, posts>>
        /\ pc'[r] = "BumpCollects" => Collected(r) \in collections /\ work'[r].rows = 1
        /\ pc'[r] = "ReadShelf" => work'[r] = work[r]
    BY <1>1, <1>10 DEF RemoveCollection, Goto, tables, Work
  <2>2. \A row : ~Holds(r, Update(row))
    BY <1>1, <2>1, HeldAllowed DEF MayHold, Allowed
  <2>3. \A row : ~Holds(r, Update(row))'
    <3>1. \A d \in RemoveCollectionLocks(r) : d.mode # "NoKeyUpdate"
      BY LockKinds DEF RemoveCollectionLocks
    <3>2. QED
      BY <2>1, <2>2, <3>1, HoldsMore, LockKinds
  <2>4. Collected(r) \in collections => Holds(r, Delete(CollectionRow(u, p)))'
    BY <2>1, HoldsMore DEF RemoveCollectionLocks
  <2>5. ShelfOK(r)'
    BY <1>1, <2>1, <2>3, <2>4 DEF ShelfOK, ShelfSteps, IntoFolder, Collecting, Collected
  <2>6. ShelvesOK(r)'
    BY <2>1, <2>5 DEF ShelvesOK, FolderOK, ShelvesPurged
  <2>7. \A d \in RemoveCollectionLocks(r) : \A g \in Folders : d.row # FolderRow(g)
    <3>1. \A g \in Folders : CollectionRow(u, p) # FolderRow(g)
      BY RowsApart
    <3>2. QED
      BY <3>1, LockKinds DEF RemoveCollectionLocks
  <2>8. QED
    BY <1>4, <1>5, <2>1, <2>6, <2>7, ShelfStatement
<1>11. CASE BumpCollects(r)
  <2>1. /\ pc[r] = "BumpCollects" /\ pc'[r] = "ReadShelf"
        /\ Acquire(r, BumpCollectsLocks(r)) /\ UNCHANGED <<job, collections, posts, collect_count>>
        /\ work'[r].rows = work[r].rows /\ work'[r].val = NewCollectCount(r)
    BY <1>1, <1>11 DEF BumpCollects, Goto, tables, Work
  <2>2. \A d : Holds(r, d) => Holds(r, d)'
    BY <2>1, HoldsMore
  <2>3. p \in posts => Holds(r, Update(PostRow(p)))'
    BY <2>1, HoldsMore DEF BumpCollectsLocks
  <2>4. ShelfOK(r)'
    <3>1. PICK j, w : j = job[r] /\ w = work'[r]
      OBVIOUS
    <3>2. job'[r] = j /\ w.rows = 1
      BY <1>1, <2>1, <3>1 DEF ShelfOK
    <3>3. NewCollectCount(r)' = NewCollectCount(r)
      BY <2>1 DEF NewCollectCount, Collecting
    <3>4. QED
      BY <1>1, <2>1, <2>2, <2>3, <3>1, <3>2, <3>3
         DEF ShelfOK, ShelfSteps, IntoFolder, Collecting, Collected
  <2>5. ShelvesOK(r)'
    BY <2>1, <2>4 DEF ShelvesOK, FolderOK, ShelvesPurged
  <2>6. \A d \in BumpCollectsLocks(r) : \A g \in Folders : d.row # FolderRow(g)
    <3>1. \A g \in Folders : PostRow(p) # FolderRow(g)
      BY RowsApart
    <3>2. QED
      BY <3>1, LockKinds DEF BumpCollectsLocks
  <2>7. QED
    BY <1>4, <1>5, <2>1, <2>5, <2>6, ShelfStatement
<1>12. CASE ReadShelf(r) /\ ~Rollback(r, "missing")
  <2>1. /\ pc[r] = "ReadShelf" /\ pc'[r] = "CommitCollection" /\ p \in posts
        /\ UNCHANGED <<locks, work, job, collections, collect_count>>
    BY <1>1, <1>12 DEF ReadShelf, Goto, tables
  <2>2. ShelfOK(r)'
    BY <1>1, <2>1 DEF ShelfOK, ShelfSteps, IntoFolder, Collecting, Collected, Holds, NewCollectCount
  <2>3. ShelvesOK(r)'
    BY <2>1, <2>2 DEF ShelvesOK, FolderOK, ShelvesPurged
  <2>4. QED
    BY <1>4, <1>5, <2>1, <2>3, ShelfStatement
<1>13. QED
  BY <1>6, <1>7, <1>8, <1>9, <1>10, <1>11, <1>12 DEF AddCollection

\* The commit of Collect or Uncollect writes the row, its folder and the count.
LEMMA CommitCollectionWrites ==
  ASSUME ShelfInv, NEW r \in Requests, CommitCollection(r), work[r].rows = 1
  PROVE  LET k == Collected(r) IN
         /\ k \in Users \X Posts /\ job[r].item \in posts
         /\ Holds(r, Delete(CollectionRow(job[r].user, job[r].item)))
         /\ Holds(r, Update(PostRow(job[r].item)))
         /\ \A q : q # k => (q \in collections' <=> q \in collections)
         /\ Collecting(r) => k \in collections' /\ k \notin collections
         /\ ~Collecting(r) => k \notin collections' /\ k \in collections /\ job[r].ref = None
         /\ filed'[k] = job[r].ref
         /\ \A q \in Users \X Posts : q # k => filed'[q] = filed[q]
         /\ \A p \in Posts : collect_count'[p] = IF p = job[r].item THEN NewCollectCount(r)
                                                 ELSE collect_count[p]
         /\ UNCHANGED <<posts, folders>>
<1>1. /\ pc[r] = "CommitCollection" /\ InFlight(r) /\ pc[r] \in ShelfSteps
      /\ TypeInv /\ ShelfOK(r) /\ RowsLive
  BY DEF CommitCollection, InFlight, ShelfSteps, ShelfInv, ThreadInv, LikeInv
<1>2. /\ job[r].op \in {"Collect", "Uncollect"} /\ job[r].item \in Posts
      /\ job[r].user \in Users /\ Collected(r) \in Users \X Posts
  BY <1>1, FolderNamed DEF Collected
<1>3. /\ filed \in [Users \X Posts -> Folders \cup {None}] /\ collect_count \in [Posts -> Nat]
  BY <1>1 DEF TypeInv, TypeOK, TablesOK
<1>4. /\ Holds(r, Delete(CollectionRow(job[r].user, job[r].item)))
      /\ Holds(r, Update(PostRow(job[r].item))) /\ work[r].val = NewCollectCount(r)
      /\ Collected(r) \in collections <=> ~Collecting(r)
      /\ ~Collecting(r) => job[r].ref = None
  BY <1>1, <1>2 DEF ShelfOK, Collecting
<1>5. job[r].item \in posts
  BY <1>1, <1>2, <1>4 DEF RowsLive, Pins
<1>6. /\ collections' = IF Collecting(r) THEN collections \cup {Collected(r)}
                         ELSE collections \ {Collected(r)}
      /\ filed' = [filed EXCEPT ![Collected(r)] = job[r].ref]
      /\ collect_count' = [collect_count EXCEPT ![job[r].item] = work[r].val]
      /\ UNCHANGED <<posts, folders>>
  BY <1>4 DEF CommitCollection
<1>7. QED
  BY <1>2, <1>3, <1>4, <1>5, <1>6

\* The users who collected a post are finitely many.
LEMMA CollectorsFinite ==
  ASSUME NEW p
  PROVE  IsFiniteSet(Collectors(p)) /\ Cardinality(Collectors(p)) \in Nat
<1>1. Collectors(p) \subseteq Users
  BY DEF Collectors
<1>2. QED
  BY <1>1, FS_Subset, FS_CardinalityType, StoreAssumption

\* The count it writes is the number of collections there are now.
LEMMA CommitCollectionCounts ==
  ASSUME ShelfInv, NEW r \in Requests, CommitCollection(r), work[r].rows = 1
  PROVE  /\ CollectCountExact'
         /\ \A p : p # job[r].item => Collectors(p)' = Collectors(p)
<1>0. PICK u, p : u = job[r].user /\ p = job[r].item
  OBVIOUS
<1>1. /\ <<u, p>> \in Users \X Posts /\ p \in posts
      /\ \A q : q # <<u, p>> => (q \in collections' <=> q \in collections)
      /\ Collecting(r) => <<u, p>> \in collections' /\ <<u, p>> \notin collections
      /\ ~Collecting(r) => <<u, p>> \notin collections' /\ <<u, p>> \in collections
      /\ \A q \in Posts : collect_count'[q] = IF q = p THEN NewCollectCount(r) ELSE collect_count[q]
      /\ UNCHANGED posts
  BY <1>0, CommitCollectionWrites DEF Collected
<1>2. \A q : q # p => Collectors(q)' = Collectors(q)
  BY <1>1 DEF Collectors
<1>3. posts \subseteq Posts
  BY DEF ShelfInv, ThreadInv, LikeInv, TypeInv, TypeOK, TablesOK
<1>4. collect_count[p] = Cardinality(Collectors(p))
  BY <1>0, <1>1 DEF ShelfInv, CollectCountExact
<1>5. collect_count'[p] = Cardinality(Collectors(p)')
  <2>1. IsFiniteSet(Collectors(p)) /\ Cardinality(Collectors(p)) \in Nat
    BY CollectorsFinite
  <2>2. CASE Collecting(r)
    <3>1. Collectors(p)' = Collectors(p) \cup {u} /\ u \notin Collectors(p)
      BY <1>1, <2>2 DEF Collectors
    <3>2. Cardinality(Collectors(p)') = Cardinality(Collectors(p)) + 1
      BY <2>1, <3>1, FS_AddElement
    <3>3. QED
      BY <1>1, <1>3, <1>4, <2>2, <3>2, <1>0 DEF NewCollectCount
  <2>3. CASE ~Collecting(r)
    <3>1. Collectors(p)' = Collectors(p) \ {u} /\ u \in Collectors(p)
      BY <1>1, <2>3 DEF Collectors
    <3>2. Cardinality(Collectors(p)') = Cardinality(Collectors(p)) - 1
      BY <2>1, <3>1, FS_RemoveElement
    <3>3. Cardinality(Collectors(p)) # 0
      BY <2>1, <3>1, FS_EmptySet
    <3>4. QED
      BY <1>1, <1>3, <1>4, <2>1, <2>3, <3>2, <3>3, <1>0 DEF NewCollectCount
  <2>4. QED
    BY <2>2, <2>3
<1>6. CollectCountExact'
  BY <1>1, <1>2, <1>3, <1>5 DEF ShelfInv, CollectCountExact
<1>7. QED
  BY <1>0, <1>2, <1>6

\* A commit of Collect or Uncollect touches the rows it has locked.
LEMMA CommitCollectionShelves ==
  ASSUME ShelfInv, ThreadInv', NEW r \in Requests, CommitCollection(r)
  PROVE  ShelfInv'
<1>1. /\ pc[r] = "CommitCollection" /\ InFlight(r) /\ TypeInv /\ TypeInv' /\ LocksOK
      /\ work[r] \in Work /\ ShelfOK(r) /\ RowsLive /\ pc \in [Requests -> Steps]
  BY DEF CommitCollection, InFlight, ShelfInv, ThreadInv, LikeInv, TypeInv, TypeOK, ControlOK
<1>2. Moves(r) /\ locks' = {l \in locks : l.req # r} /\ pc'[r] = "done"
  BY <1>1, CommittedMoves DEF CommitCollection, Committed, Close
<1>3. CASE work[r].rows = 0
  <2>1. UNCHANGED <<posts, folders, collections, filed, collect_count>>
    BY <1>3 DEF CommitCollection
  <2>2. QED
    BY <1>2, <2>1, ElsewhereShelves DEF CollectionSteps, ShelfSteps, FolderSteps
<1>4. CASE work[r].rows = 1
  <2>0. PICK u, p, f : u = job[r].user /\ p = job[r].item /\ f = job[r].ref
    OBVIOUS
  <2>1. /\ <<u, p>> \in Users \X Posts /\ p \in posts
        /\ Holds(r, Delete(CollectionRow(u, p)))
        /\ Holds(r, Update(PostRow(p)))
        /\ \A q : q # <<u, p>> => (q \in collections' <=> q \in collections)
        /\ Collecting(r) => <<u, p>> \in collections' /\ <<u, p>> \notin collections
        /\ ~Collecting(r) => <<u, p>> \notin collections' /\ <<u, p>> \in collections /\ f = None
        /\ filed'[<<u, p>>] = f
        /\ \A q \in Users \X Posts : q # <<u, p>> => filed'[q] = filed[q]
        /\ \A q \in Posts : q # p => collect_count'[q] = collect_count[q]
        /\ UNCHANGED <<posts, folders>>
    BY <1>4, <2>0, CommitCollectionWrites DEF Collected
  <2>2. CollectCountExact' /\ \A q : q # p => Collectors(q)' = Collectors(q)
    BY <1>4, <2>0, CommitCollectionCounts
  <2>3. CollectionsLive'
    BY <2>1 DEF ShelfInv, CollectionsLive
  <2>4. /\ f \in Folders \cup {None}
        /\ Collecting(r) /\ f # None => /\ FolderOwner[f] = u
                                       /\ Holds(r, Reference(FolderRow(f)))
    BY <1>1, <1>4, <2>0, FolderNamed DEF ShelfOK, ShelfSteps, IntoFolder
  <2>5. Collecting(r) /\ f # None => f \in folders
    BY <2>4 DEF ShelfInv, FoldersLive, Pins
  <2>6. FiledInOwnFolder'
    <3>1. ASSUME NEW k \in Users \X Posts, filed'[k] # None
          PROVE  k \in collections' /\ filed'[k] \in folders' /\ FolderOwner[filed'[k]] = k[1]
      <4>1. CASE k = <<u, p>>
        BY <2>1, <2>4, <2>5, <3>1, <4>1
      <4>2. CASE k # <<u, p>>
        BY <2>1, <3>1, <4>2 DEF ShelfInv, FiledInOwnFolder
      <4>3. QED
        BY <4>1, <4>2
    <3>2. QED
      BY <3>1 DEF FiledInOwnFolder
  <2>7. \A s \in Requests \ {r} : \A d : Holds(s, d)' <=> Holds(s, d)
    BY <1>1, <1>2, LocksPreserved
  <2>8. FoldersLive'
    BY <1>2, <2>1, <2>7 DEF ShelfInv, FoldersLive, Pins, Holds
  <2>9. ASSUME NEW s \in Requests \ {r}
        PROVE  ShelvesOK(s)'
    <3>1. ~Holds(s, Delete(CollectionRow(u, p))) /\ ~Holds(s, Update(CollectionRow(u, p)))
      BY <1>1, <2>1, Excludes DEF Pins
    <3>2. ~Holds(s, Update(PostRow(p))) /\ ~Holds(s, Delete(PostRow(p)))
      BY <1>1, <2>1, Excludes DEF Pins
    <3>3. Collecting(r) /\ f # None => ~Holds(s, Delete(FolderRow(f)))
      BY <1>1, <2>4, Excludes DEF Pins
    <3>4. ASSUME NEW g \in Folders, Holds(s, Delete(FolderRow(g))),
                 NEW k \in collections', filed'[k] = g
          PROVE  k \in collections /\ filed[k] = g
      <4>1. k # <<u, p>>
        BY <2>1, <2>4, <3>3, <3>4, StoreAssumption
      <4>2. k \in Users \X Posts
        BY <1>1 DEF TypeInv, TypeOK, TablesOK
      <4>3. QED
        BY <2>1, <3>4, <4>1, <4>2
    <3>5. ASSUME NEW v \in Users, NEW q \in Posts
          PROVE  /\ Holds(s, Delete(CollectionRow(v, q))) =>
                      (<<v, q>> \in collections' <=> <<v, q>> \in collections)
                 /\ Holds(s, Update(CollectionRow(v, q))) => filed'[<<v, q>>] = filed[<<v, q>>]
      BY <2>1, <3>1
    <3>6. ASSUME NEW q \in Posts
          PROVE  /\ Holds(s, Update(PostRow(q))) => collect_count'[q] = collect_count[q]
                 /\ Holds(s, Delete(PostRow(q))) => Collectors(q)' \subseteq Collectors(q)
      BY <2>1, <2>2, <3>2
    <3>7. Keeps(r) /\ ShelvesOK(s) /\ posts' \subseteq posts
      BY <1>2, <2>1 DEF Moves, ShelfInv, ShelvesOK
    <3>8. QED
      BY <1>1, <2>7, <3>4, <3>5, <3>6, <3>7, OthersShelves
  <2>10. ShelvesOK(r)'
    BY <1>2, NoShelf DEF ShelfInv, Moves, CollectionSteps, ShelfSteps, FolderSteps
  <2>11. QED
    BY <2>2, <2>3, <2>6, <2>8, <2>9, <2>10 DEF ShelfInv, ShelvesOK
<1>5. QED
  BY <1>1, <1>3, <1>4 DEF Work

\* The statements of DeleteFolder up to the commit.
LEMMA UnfileShelves ==
  ASSUME ShelfInv, ThreadInv', NEW r \in Requests, DeleteFolderRow(r) \/ CascadeUnfile(r)
  PROVE  ShelfInv'
<1>0. PICK f : f = job[r].item
  OBVIOUS
<1>1. /\ InFlight(r) /\ pc[r] \in FolderSteps /\ pc \in [Requests -> Steps]
      /\ TypeInv /\ ShelfOK(r) /\ FolderOK(r) /\ LocksFit
  BY DEF DeleteFolderRow, CascadeUnfile, InFlight, FolderSteps,
         ShelfInv, ThreadInv, LikeInv, TypeInv, TypeOK, ControlOK
<1>2. f \in Folders
  BY <1>0, <1>1, FolderNamed
<1>3. Moves(r)
  BY <1>1, CollectionStepFrame DEF CollectionStep
<1>4. UNCHANGED tables
  BY DEF DeleteFolderRow, CascadeUnfile, Goto, Rollback
<1>5. ASSUME NEW a, Rollback(r, a) PROVE ShelfInv'
  BY <1>1, <1>5, RollbackShelves
<1>6. CASE DeleteFolderRow(r) /\ ~Rollback(r, "missing")
  <2>1. /\ pc[r] = "DeleteFolderRow" /\ pc'[r] = "CascadeUnfile"
        /\ Acquire(r, {Delete(FolderRow(f))}) /\ f \in folders /\ UNCHANGED <<job, work, filed>>
    BY <1>0, <1>1, <1>6 DEF DeleteFolderRow, DeleteFolderRowLocks, OwnFolder, Goto, tables
  <2>2. \A row : ~Holds(r, Update(row))
    BY <1>1, <2>1, HeldAllowed DEF MayHold, Allowed
  <2>3. Holds(r, Delete(FolderRow(f)))' /\ \A row : ~Holds(r, Update(row))'
    BY <2>1, <2>2, HoldsMore, LockKinds
  <2>4. ShelvesOK(r)'
    BY <1>0, <1>1, <2>1, <2>3 DEF ShelvesOK, ShelfOK, FolderOK, ShelvesPurged, ShelfSteps
  <2>5. \A g \in Folders : Delete(FolderRow(f)).row = FolderRow(g) => g \in folders
    BY <2>1, LockKinds, RowsApart
  <2>6. QED
    BY <1>3, <1>4, <2>1, <2>4, <2>5, ShelfStatement
<1>7. CASE CascadeUnfile(r)
  <2>0. /\ pc[r] = "CascadeUnfile" /\ Holds(r, Delete(FolderRow(f)))
        /\ \A k \in Users \X Posts : Holds(r, Update(CollectionRow(k[1], k[2]))) => filed[k] = f
        /\ UNCHANGED <<job, filed, collections>>
    BY <1>0, <1>1, <1>7 DEF CascadeUnfile, FolderOK, Goto, tables
  <2>1. CASE FiledLeft(r) = {}
    <3>1. UNCHANGED locks /\ pc'[r] = "CommitDeleteFolder"
      BY <1>1, <1>7, <2>1 DEF CascadeUnfile, Goto
    <3>2. FiledLeft(r)' = FiledLeft(r)
      BY <2>0, <3>1 DEF FiledLeft, Holds
    <3>3. ShelvesOK(r)'
      BY <1>0, <1>1, <2>0, <2>1, <3>1, <3>2
         DEF ShelvesOK, ShelfOK, FolderOK, ShelvesPurged, ShelfSteps, Holds
    <3>4. QED
      BY <1>3, <1>4, <3>1, <3>3, ShelfStatement
  <2>2. CASE FiledLeft(r) # {}
    <3>1. PICK k \in FiledLeft(r) : Acquire(r, {Update(CollectionRow(k[1], k[2]))})
      BY <1>7, <2>2 DEF CascadeUnfile
    <3>2. pc'[r] = "CascadeUnfile"
      BY <1>1, <1>7, <2>2 DEF CascadeUnfile, Goto
    <3>3. k \in Users \X Posts /\ filed[k] = f
      BY <1>0, <1>1 DEF FiledLeft, TypeInv, TypeOK, TablesOK
    <3>4. ASSUME NEW q \in Users \X Posts, Holds(r, Update(CollectionRow(q[1], q[2])))'
          PROVE  filed[q] = f
      <4>1. CASE Holds(r, Update(CollectionRow(q[1], q[2])))
        BY <2>0, <4>1
      <4>2. CASE CollectionRow(q[1], q[2]) = CollectionRow(k[1], k[2])
        <5>1. q[1] = k[1] /\ q[2] = k[2]
          BY <4>2, RowsApart
        <5>2. QED
          BY <3>3, <5>1
      <4>3. QED
        BY <3>1, <3>4, <4>1, <4>2, HoldsMore, LockKinds
    <3>5. Holds(r, Delete(FolderRow(f)))'
      BY <2>0, <3>1, HoldsMore
    <3>6. ShelvesOK(r)'
      BY <1>0, <1>1, <2>0, <3>2, <3>4, <3>5
         DEF ShelvesOK, ShelfOK, FolderOK, ShelvesPurged, ShelfSteps
    <3>7. \A g \in Folders : Update(CollectionRow(k[1], k[2])).row # FolderRow(g)
      BY LockKinds, RowsApart
    <3>8. QED
      BY <1>3, <1>4, <3>1, <3>6, <3>7, ShelfStatement
  <2>3. QED
    BY <2>1, <2>2
<1>8. QED
  BY <1>5, <1>6, <1>7

\* A commit of DeleteFolder leaves nothing filed in the folder.
LEMMA CommitUnfileShelves ==
  ASSUME ShelfInv, ThreadInv', NEW r \in Requests, CommitDeleteFolder(r)
  PROVE  ShelfInv'
<1>0. PICK f : f = job[r].item
  OBVIOUS
<1>1. /\ pc[r] = "CommitDeleteFolder" /\ InFlight(r) /\ pc \in [Requests -> Steps]
      /\ TypeInv /\ TypeInv' /\ LocksOK
      /\ filed \in [Users \X Posts -> Folders \cup {None}] /\ collections \subseteq Users \X Posts
  BY DEF CommitDeleteFolder, InFlight, ShelfInv, ThreadInv, LikeInv, TypeInv, TypeOK, ControlOK,
         TablesOK
<1>2. Moves(r) /\ locks' = {l \in locks : l.req # r} /\ pc'[r] = "done"
  BY <1>1, CommittedMoves DEF CommitDeleteFolder, Committed, Close
<1>3. f \in Folders
  BY <1>0, <1>1, FolderNamed DEF FolderSteps
<1>4. Holds(r, Delete(FolderRow(f))) /\ FiledLeft(r) = {}
  BY <1>0, <1>1 DEF ShelfInv, FolderOK
<1>5. /\ folders' = folders \ {f} /\ UNCHANGED <<posts, collections, collect_count>>
      /\ \A k \in Users \X Posts :
           filed'[k] = IF Holds(r, Update(CollectionRow(k[1], k[2]))) THEN None ELSE filed[k]
  BY <1>0, <1>1 DEF CommitDeleteFolder
<1>6. CollectCountExact' /\ CollectionsLive' /\ \A p : Collectors(p)' = Collectors(p)
  BY <1>5 DEF ShelfInv, CollectCountExact, CollectionsLive, Collectors
<1>7. ASSUME NEW k \in Users \X Posts, filed'[k] # None
      PROVE  /\ filed'[k] = filed[k] /\ k \in collections /\ filed[k] \in folders
             /\ filed[k] # f /\ FolderOwner[filed[k]] = k[1]
  <2>1. filed'[k] = filed[k] /\ ~Holds(r, Update(CollectionRow(k[1], k[2])))
    BY <1>5, <1>7
  <2>2. k \in collections /\ filed[k] \in folders /\ FolderOwner[filed[k]] = k[1]
    BY <1>7, <2>1 DEF ShelfInv, FiledInOwnFolder
  <2>3. QED
    BY <1>0, <1>4, <2>1, <2>2 DEF FiledLeft
<1>8. FiledInOwnFolder'
  BY <1>5, <1>7 DEF FiledInOwnFolder
<1>9. \A s \in Requests \ {r} : \A d : Holds(s, d)' <=> Holds(s, d)
  BY <1>1, <1>2, LocksPreserved
<1>10. FoldersLive'
  <2>1. \A s \in Requests \ {r} : ~Pins(s, FolderRow(f))
    BY <1>1, <1>4, Excludes
  <2>2. \A g : ~Pins(r, FolderRow(g))'
    BY <1>2 DEF Pins, Holds
  <2>3. \A s \in Requests \ {r} : \A g : Pins(s, FolderRow(g))' <=> Pins(s, FolderRow(g))
    BY <1>9 DEF Pins
  <2>4. QED
    BY <1>5, <2>1, <2>2, <2>3 DEF ShelfInv, FoldersLive
<1>11. ASSUME NEW s \in Requests \ {r}
       PROVE  ShelvesOK(s)'
  <2>1. ASSUME NEW v \in Users, NEW q \in Posts, Holds(s, Update(CollectionRow(v, q)))
        PROVE  filed'[<<v, q>>] = filed[<<v, q>>]
    <3>1. ~Holds(r, Update(CollectionRow(v, q)))
      BY <1>1, <2>1, Excludes
    <3>2. QED
      BY <1>5, <3>1
  <2>2. ASSUME NEW g \in Folders, NEW k \in collections', filed'[k] = g
        PROVE  k \in collections /\ filed[k] = g
    BY <1>1, <1>5, <1>7, <2>2, StoreAssumption
  <2>3. Keeps(r) /\ ShelvesOK(s) /\ posts' \subseteq posts
    BY <1>2, <1>5 DEF Moves, ShelfInv, ShelvesOK
  <2>4. QED
    BY <1>1, <1>5, <1>6, <1>9, <2>1, <2>2, <2>3, OthersShelves
<1>12. ShelvesOK(r)'
  BY <1>2, NoShelf DEF ShelfInv, Moves, CollectionSteps, ShelfSteps, FolderSteps
<1>13. QED
  BY <1>6, <1>8, <1>10, <1>11, <1>12 DEF ShelfInv, ShelvesOK

\* The statements of the deletion of a post: once it commits, all collections
\* of the post are locked.
LEMMA PurgeShelves ==
  ASSUME ShelfInv, ThreadInv', NEW r \in Requests, PostStep(r), ~CommitDeletePost(r)
  PROVE  ShelfInv'
<1>0. PICK p : p = job[r].item
  OBVIOUS
<1>1. /\ InFlight(r) /\ pc \in [Requests -> Steps] /\ TypeInv /\ LocksFit
      /\ PurgeOK(r) /\ ShelfOK(r)
  BY DEF PostStep, LookupOwn, DeletePostRow, CascadePost, InFlight,
         ShelfInv, ThreadInv, LikeInv, TypeInv, TypeOK, ControlOK
<1>2. Moves(r)
  BY <1>1, PostStepFrame
<1>3. UNCHANGED tables
  BY DEF PostStep, LookupOwn, DeletePostRow, CascadePost, Goto, Rollback
<1>4. ASSUME NEW a, Rollback(r, a) PROVE ShelfInv'
  BY <1>1, <1>4, RollbackShelves
<1>5. CASE pc'[r] \notin CollectionSteps /\ pc'[r] # "CommitDeletePost"
  BY <1>2, <1>3, <1>5, ElsewhereShelves DEF tables
<1>6. CASE LookupOwn(r)
  <2>1. CASE ~\E a \in {"missing", "forbidden"} : Rollback(r, a)
    <3>1. pc'[r] = "DeletePostRow"
      BY <1>1, <1>6, <2>1 DEF LookupOwn, Goto
    <3>2. QED
      BY <1>5, <3>1 DEF CollectionSteps, ShelfSteps, FolderSteps
  <2>2. QED
    BY <1>4, <2>1
<1>7. CASE DeletePostRow(r)
  <2>1. CASE p \in posts
    <3>1. pc'[r] = "CascadePost"
      BY <1>0, <1>1, <1>7, <2>1 DEF DeletePostRow, Goto
    <3>2. QED
      BY <1>5, <3>1 DEF CollectionSteps, ShelfSteps, FolderSteps
  <2>2. CASE p \notin posts
    <3>1. /\ pc'[r] = "CommitDeletePost" /\ UNCHANGED <<job, collections>>
          /\ Acquire(r, DeletePostRowLocks(r)) /\ DeletePostRowLocks(r) = {}
      BY <1>0, <1>1, <1>7, <2>2 DEF DeletePostRow, Goto, DeletePostRowLocks, tables
    <3>2. Collectors(p) = {}
      BY <2>2 DEF ShelfInv, CollectionsLive, Collectors
    <3>3. Collectors(p)' = {}
      BY <3>1, <3>2 DEF Collectors
    <3>4. ShelvesOK(r)'
      BY <1>0, <1>1, <3>1, <3>3 DEF ShelvesOK, ShelfOK, FolderOK, ShelvesPurged, ShelfSteps
    <3>5. QED
      BY <1>2, <1>3, <3>1, <3>4, ShelfStatement
  <2>3. QED
    BY <2>1, <2>2
<1>8. CASE CascadePost(r)
  <2>1. CASE CascadePostLocks(r) = {}
    <3>1. /\ pc'[r] = "CommitDeletePost" /\ UNCHANGED <<job, locks, collections>>
      BY <1>1, <1>8, <2>1 DEF CascadePost, Goto, tables
    <3>2. \A u \in Collectors(p) : Holds(r, Delete(CollectionRow(u, p)))
      BY <1>0, <2>1 DEF CascadePostLocks, ShelvedRows
    <3>3. Collectors(p)' = Collectors(p)
      BY <3>1 DEF Collectors
    <3>4. ShelvesOK(r)'
      BY <1>0, <1>1, <3>1, <3>2, <3>3
         DEF ShelvesOK, ShelfOK, FolderOK, ShelvesPurged, ShelfSteps, Holds
    <3>5. QED
      BY <1>2, <1>3, <3>1, <3>4, ShelfStatement
  <2>2. CASE CascadePostLocks(r) # {}
    <3>1. pc'[r] = "CascadePost"
      BY <1>1, <1>8, <2>2 DEF CascadePost, Goto
    <3>2. QED
      BY <1>5, <3>1 DEF CollectionSteps, ShelfSteps, FolderSteps
  <2>3. QED
    BY <2>1, <2>2
<1>9. QED
  BY <1>6, <1>7, <1>8 DEF PostStep

\* What the commit of a deletion of a post removes: the post and exactly the
\* collections of it.
LEMMA CommitPurgeWrites ==
  ASSUME ShelfInv, NEW r \in Requests, CommitDeletePost(r)
  PROVE  \/ /\ Holds(r, Delete(PostRow(job[r].item)))
            /\ job[r].item \in posts /\ posts' = posts \ {job[r].item}
            /\ collections' = {k \in collections : k[2] # job[r].item}
            /\ \A k \in Users \X Posts :
                 filed'[k] = IF k \in collections /\ k[2] = job[r].item THEN None ELSE filed[k]
            /\ \A u \in Users : <<u, job[r].item>> \in collections =>
                 Holds(r, Delete(CollectionRow(u, job[r].item)))
            /\ comments' = comments \ Doomed(r)
         \/ /\ job[r].item \notin posts
            /\ UNCHANGED <<posts, comments, collections, filed, notifications>>
<1>0. PICK p : p = job[r].item
  OBVIOUS
<1>1. /\ pc[r] = "CommitDeletePost" /\ InFlight(r) /\ TypeInv /\ LocksFit /\ RowsLive /\ PurgeOK(r)
      /\ filed \in [Users \X Posts -> Folders \cup {None}] /\ collections \subseteq Users \X Posts
      /\ ShelvesPurged(r)
  BY DEF CommitDeletePost, InFlight, ShelfInv, ThreadInv, LikeInv, TypeInv, TypeOK, TablesOK
<1>2. p \in Posts
  BY <1>0, <1>1 DEF TypeInv, TypeOK, ControlOK, Fits, PostSteps
<1>3. CASE Holds(r, Delete(PostRow(p)))
  <2>1. p \in posts
    BY <1>1, <1>2, <1>3 DEF RowsLive, Pins
  <2>2. \A u \in Users : <<u, p>> \in collections => Holds(r, Delete(CollectionRow(u, p)))
    BY <1>0, <1>1, <1>3 DEF ShelvesPurged, Collectors
  <2>3. ASSUME NEW k \in collections
        PROVE  Holds(r, Delete(CollectionRow(k[1], k[2]))) <=> k[2] = p
    <3>1. ASSUME Holds(r, Delete(CollectionRow(k[1], k[2])))
          PROVE  k[2] = p
      <4>1. Delete(CollectionRow(k[1], k[2])) \in
              {Delete(PostRow(p))} \cup {Delete(CommentRow(c)) : c \in CommentIds} \cup
              {Delete(CollectionRow(u, p)) : u \in Users}
        BY <1>0, <1>1, <3>1, HeldAllowed DEF MayHold, Allowed
      <4>2. CollectionRow(k[1], k[2]) # PostRow(p)
        BY RowsApart
      <4>3. \A c : CollectionRow(k[1], k[2]) # CommentRow(c)
        BY RowsApart
      <4>4. PICK u \in Users : CollectionRow(k[1], k[2]) = CollectionRow(u, p)
        BY <4>1, <4>2, <4>3, LockKinds
      <4>5. QED
        BY <4>4, RowsApart
    <3>2. k = <<k[1], k[2]>> /\ k[1] \in Users
      BY <1>1
    <3>3. QED
      BY <2>2, <3>1, <3>2
  <2>4. LET Shelved == {k \in collections : Holds(r, Delete(CollectionRow(k[1], k[2])))}
        IN  /\ posts' = posts \ {p} /\ collections' = collections \ Shelved
            /\ filed' = [k \in DOMAIN filed |-> IF k \in Shelved THEN None ELSE filed[k]]
            /\ comments' = comments \ Doomed(r)
    BY <1>0, <1>3 DEF CommitDeletePost
  <2>5. {k \in collections : Holds(r, Delete(CollectionRow(k[1], k[2])))} =
          {k \in collections : k[2] = p}
    BY <2>3
  <2>6. /\ collections' = {k \in collections : k[2] # p}
        /\ \A k \in Users \X Posts :
             filed'[k] = IF k \in collections /\ k[2] = p THEN None ELSE filed[k]
    BY <1>1, <2>4, <2>5
  <2>7. QED
    BY <1>0, <1>3, <2>1, <2>2, <2>4, <2>6
<1>4. CASE ~Holds(r, Delete(PostRow(p)))
  <2>1. p \notin posts
    BY <1>0, <1>1, <1>4 DEF PurgeOK
  <2>2. UNCHANGED <<posts, comments, collections, filed, notifications>>
    BY <1>0, <1>4 DEF CommitDeletePost
  <2>3. QED
    BY <1>0, <2>1, <2>2
<1>5. QED
  BY <1>3, <1>4

\* A commit of the deletion of a post takes its collections along.
LEMMA CommitPurgeShelves ==
  ASSUME ShelfInv, ThreadInv', NEW r \in Requests, CommitDeletePost(r)
  PROVE  ShelfInv'
<1>0. PICK p : p = job[r].item
  OBVIOUS
<1>1. /\ pc[r] = "CommitDeletePost" /\ InFlight(r) /\ pc \in [Requests -> Steps]
      /\ TypeInv /\ TypeInv' /\ LocksOK /\ posts \subseteq Posts
      /\ collections \subseteq Users \X Posts
  BY DEF CommitDeletePost, InFlight, ShelfInv, ThreadInv, LikeInv, TypeInv, TypeOK, ControlOK,
         TablesOK
<1>2. Moves(r) /\ locks' = {l \in locks : l.req # r} /\ pc'[r] = "done"
  BY <1>1, CommittedMoves DEF CommitDeletePost, Committed, Close
<1>3. UNCHANGED <<folders, collect_count>>
  BY DEF CommitDeletePost
<1>4. CASE UNCHANGED <<posts, collections, filed>>
  BY <1>2, <1>3, <1>4, ElsewhereShelves DEF CollectionSteps, ShelfSteps, FolderSteps
<1>5. CASE ~UNCHANGED <<posts, collections, filed>>
  <2>1. /\ Holds(r, Delete(PostRow(p))) /\ posts' = posts \ {p}
        /\ collections' = {k \in collections : k[2] # p}
        /\ \A k \in Users \X Posts :
             filed'[k] = IF k \in collections /\ k[2] = p THEN None ELSE filed[k]
        /\ \A u \in Users : <<u, p>> \in collections => Holds(r, Delete(CollectionRow(u, p)))
    BY <1>0, <1>5, CommitPurgeWrites
  <2>2. \A q : q # p => Collectors(q)' = Collectors(q)
    BY <2>1 DEF Collectors
  <2>3. \A q : Collectors(q)' \subseteq Collectors(q)
    BY <2>1 DEF Collectors
  <2>4. CollectCountExact' /\ CollectionsLive'
    BY <1>3, <2>1, <2>2 DEF ShelfInv, CollectCountExact, CollectionsLive
  <2>5. ASSUME NEW k \in Users \X Posts, filed'[k] # None
        PROVE  filed'[k] = filed[k] /\ k \in collections'
    <3>1. filed'[k] = filed[k] /\ ~(k \in collections /\ k[2] = p)
      BY <2>1, <2>5
    <3>2. k \in collections
      BY <2>5, <3>1 DEF ShelfInv, FiledInOwnFolder
    <3>3. QED
      BY <2>1, <3>1, <3>2
  <2>6. FiledInOwnFolder'
    BY <1>3, <2>5 DEF ShelfInv, FiledInOwnFolder
  <2>7. \A s \in Requests \ {r} : \A d : Holds(s, d)' <=> Holds(s, d)
    BY <1>1, <1>2, LocksPreserved
  <2>8. FoldersLive'
    BY <1>2, <1>3, <2>7 DEF ShelfInv, FoldersLive, Pins, Holds
  <2>9. ASSUME NEW s \in Requests \ {r}
        PROVE  ShelvesOK(s)'
    <3>1. ASSUME NEW v \in Users, NEW q \in Posts,
                 Pins(s, CollectionRow(v, q))
          PROVE  ~(<<v, q>> \in collections /\ q = p)
      BY <1>1, <2>1, <3>1, Excludes
    <3>2. ASSUME NEW v \in Users, NEW q \in Posts
          PROVE  /\ Holds(s, Delete(CollectionRow(v, q))) =>
                      (<<v, q>> \in collections' <=> <<v, q>> \in collections)
                 /\ Holds(s, Update(CollectionRow(v, q))) => filed'[<<v, q>>] = filed[<<v, q>>]
      BY <2>1, <3>1 DEF Pins
    <3>3. ASSUME NEW g \in Folders, NEW k \in collections', filed'[k] = g
          PROVE  k \in collections /\ filed[k] = g
      BY <1>1, <2>1, <2>5, <3>3, StoreAssumption
    <3>4. Keeps(r) /\ ShelvesOK(s) /\ posts' \subseteq posts
      BY <1>2, <2>1 DEF Moves, ShelfInv, ShelvesOK
    <3>5. QED
      BY <1>1, <1>3, <2>3, <2>7, <3>2, <3>3, <3>4, OthersShelves
  <2>10. ShelvesOK(r)'
    BY <1>2, NoShelf DEF ShelfInv, Moves, CollectionSteps, ShelfSteps, FolderSteps
  <2>11. QED
    BY <2>4, <2>6, <2>8, <2>9, <2>10 DEF ShelfInv, ShelvesOK
<1>6. QED
  BY <1>4, <1>5

\* A call that begins is well formed and has locked nothing.
LEMMA StartShelves ==
  ASSUME ShelfInv, ThreadInv', NEW r \in Requests, Start(r)
  PROVE  ShelfInv'
<1>1. /\ pc[r] = "idle" /\ Keeps(r) /\ work[r] = Blank /\ \A d : ~Holds(r, d)
      /\ UNCHANGED <<posts, folders, collections, filed, collect_count, locks, work>>
      /\ pc'[r] \in {"AddLike", "RemoveLike", "LookupThread", "LookupComment", "LookupShelf",
                     "RemoveCollection", "DeleteFolderRow", "LookupOwn"}
  BY Starts DEF ShelfInv, ThreadInv, tables
<1>2. TypeInv /\ \A s \in Requests : \A d : Holds(s, d)' <=> Holds(s, d)
  BY <1>1 DEF Holds, ShelfInv, ThreadInv, LikeInv
<1>3. \A p : Collectors(p)' = Collectors(p)
  BY <1>1 DEF Collectors
<1>4. CollectCountExact' /\ CollectionsLive' /\ FiledInOwnFolder' /\ FoldersLive'
  BY <1>1, <1>2, <1>3 DEF ShelfInv, CollectCountExact, CollectionsLive, FiledInOwnFolder, FoldersLive,
     Pins
<1>5. ASSUME NEW s \in Requests \ {r}
      PROVE  ShelvesOK(s)'
  BY <1>1, <1>2, <1>3, OthersShelves DEF ShelfInv, ShelvesOK
<1>6. job \in [Requests -> Jobs \cup {NoJob}] /\ pc \in [Requests -> Steps]
  BY DEF ShelfInv, ThreadInv, LikeInv, TypeInv, TypeOK, ControlOK
<1>7. /\ job'[r].op = "Uncollect" => job'[r].ref = None
      /\ pc'[r] = "LookupShelf" => job'[r].op = "Collect"
      /\ pc'[r] = "RemoveCollection" => job'[r].op = "Uncollect"
  <2>1. CASE StartLike(r)
    BY <1>6, <2>1 DEF StartLike, Begin, PostLikeOps, CommentLikeOps
  <2>2. CASE StartComment(r)
    BY <1>6, <2>2 DEF StartComment, Begin
  <2>3. CASE StartCollection(r)
    BY <1>6, <2>3 DEF StartCollection, Begin
  <2>4. CASE StartDeletePost(r)
    BY <1>6, <2>4 DEF StartDeletePost, Begin
  <2>5. QED
    BY <2>1, <2>2, <2>3, <2>4 DEF Start
<1>8. ShelvesOK(r)'
  <2>1. work'[r].rows = 0 /\ \A row : ~Holds(r, Update(row))'
    BY <1>1 DEF Holds, Blank
  <2>2. ShelfOK(r)'
    BY <1>1, <1>7, <2>1 DEF ShelfOK, ShelfSteps, Collecting, IntoFolder
  <2>3. QED
    BY <1>1, <2>2 DEF ShelvesOK, FolderOK, ShelvesPurged
<1>9. QED
  BY <1>4, <1>5, <1>8 DEF ShelfInv, ShelvesOK

\* The store before the first call keeps its shelves in order.
LEMMA InitShelves == Init => ShelfInv
<1> SUFFICES ASSUME Init PROVE ShelfInv
  OBVIOUS
<1>1. ThreadInv
  BY InitThreads
<1>2. /\ posts = Posts /\ folders = Folders /\ collections = OldCollections /\ filed = OldFiled
      /\ collect_count = [p \in Posts |-> Cardinality({u \in Users : <<u, p>> \in OldCollections})]
      /\ locks = {}
      /\ \A r \in Requests : pc[r] = "idle" /\ work[r] = Blank /\ job[r] = NoJob
  BY DEF Init, StoreInit
<1>3. FoldersLive
  BY <1>2 DEF FoldersLive, Pins, Holds
<1>4. CollectionsLive /\ FiledInOwnFolder
  BY <1>2, StoreAssumption DEF CollectionsLive, FiledInOwnFolder
<1>5. CollectCountExact
  BY <1>2 DEF CollectCountExact, Collectors
<1>6. \A r \in Requests : ShelfOK(r) /\ FolderOK(r) /\ ShelvesPurged(r)
  BY <1>2 DEF ShelfOK, FolderOK, ShelvesPurged, ShelfSteps, NoJob
<1>7. QED
  BY <1>1, <1>3, <1>4, <1>5, <1>6 DEF ShelfInv

\* Every step of the system keeps collections in order.
LEMMA ShelfPreserved ==
  ASSUME ShelfInv, [Next]_vars
  PROVE  ShelfInv'
<1>1. ThreadInv'
  BY ThreadPreserved DEF ShelfInv
<1>2. ASSUME NEW r \in Requests, CollectionStep(r)
      PROVE  ShelfInv'
  BY <1>1, <1>2, CollectShelves, CommitCollectionShelves, UnfileShelves, CommitUnfileShelves
     DEF CollectionStep
<1>3. ASSUME NEW r \in Requests, Timeout(r) \/ DeadlockVictim(r)
      PROVE  ShelfInv'
  BY <1>1, <1>3, RollbackShelves DEF Timeout, DeadlockVictim
<1>4. CASE UNCHANGED vars
  <2>1. CollectCountExact' /\ CollectionsLive' /\ FiledInOwnFolder' /\ FoldersLive'
    BY <1>4 DEF ShelfInv, CollectCountExact, CollectionsLive, FiledInOwnFolder, FoldersLive,
                Pins, Holds, Collectors, vars, tables
  <2>2. ASSUME NEW r \in Requests
        PROVE  ShelfOK(r)' /\ FolderOK(r)' /\ ShelvesPurged(r)'
    <3>1. ShelfOK(r) /\ FolderOK(r) /\ ShelvesPurged(r)
      BY DEF ShelfInv
    <3>2. PICK j, w : j = job[r] /\ w = work[r]
      OBVIOUS
    <3>3. /\ job'[r] = j /\ work'[r] = w /\ pc'[r] = pc[r]
          /\ UNCHANGED <<posts, collections, filed, collect_count>>
          /\ \A d : Holds(r, d)' <=> Holds(r, d)
          /\ \A p : Collectors(p)' = Collectors(p)
      BY <1>4, <3>2 DEF vars, tables, Holds, Collectors
    <3>4. ShelfOK(r)'
      BY <3>1, <3>2, <3>3 DEF ShelfOK, Collecting, Collected, IntoFolder, NewCollectCount
    <3>5. FolderOK(r)'
      BY <3>1, <3>2, <3>3 DEF FolderOK, FiledLeft
    <3>6. ShelvesPurged(r)'
      BY <3>1, <3>2, <3>3 DEF ShelvesPurged
    <3>7. QED
      BY <3>4, <3>5, <3>6
  <2>3. QED
    BY <1>1, <2>1, <2>2 DEF ShelfInv
<1>5. QED
  BY <1>1, <1>2, <1>3, <1>4, VotesAndThreadsKeepShelves, PurgeShelves, CommitPurgeShelves,
     StartShelves DEF Next, Step, Quiet

\* posts.collect_count is the number of collections of the post, although
\* ON CONFLICT DO NOTHING, Uncollect and deletions race for the same row.
THEOREM CollectionsCounted == Spec => []CollectCountExact
<1>1. Init => ShelfInv
  BY InitShelves
<1>2. ShelfInv /\ [Next]_vars => ShelfInv'
  BY ShelfPreserved
<1>3. ShelfInv => CollectCountExact
  BY DEF ShelfInv
<1>4. QED
  BY <1>1, <1>2, <1>3, PTL DEF Spec

\* A collection is filed in a live folder of its own user, or in none,
\* whichever of Collect, Uncollect and DeleteFolder comes first.
THEOREM FoldersOwned == Spec => []FiledInOwnFolder
<1>1. Init => ShelfInv
  BY InitShelves
<1>2. ShelfInv /\ [Next]_vars => ShelfInv'
  BY ShelfPreserved
<1>3. ShelfInv => FiledInOwnFolder
  BY DEF ShelfInv
<1>4. QED
  BY <1>1, <1>2, <1>3, PTL DEF Spec

-----------------------------------------------------------------------------
(* Answers: OwnVoteShown, AckedLikeKept and DeletedMeansGone *)

\* What is written stays written.
LEMMA WrittenStays ==
  ASSUME TypeInv, NEW r \in Requests, Moves(r), pc[r] = "LoadAuthor" => pc'[r] = "done",
         NEW c, Written(c)
  PROVE  Written(c)'
BY DEF Written, Moves, Keeps, InFlight

\* A step of r adds or removes no like but its own, and answers nobody else.
LEMMA AnswerFrame ==
  ASSUME AnswerInv, ShelfInv', NEW r \in Requests, Moves(r),
         pc[r] = "LoadAuthor" => pc'[r] = "done",
         \A s \in Requests \ {r} : answer'[s] = answer[s],
         posts' \subseteq posts, folders' \subseteq folders, NewComments(r),
         \A k \in likes' : k \in likes \/ k = Liked(r),
         \A k \in likes : k \in likes' \/ (k = Liked(r) /\ job[r].op \in {"UnlikePost", "UnlikeComment"}),
         ShownOK(r)', VoteStands(r)', GoneOK(r)'
  PROVE  AnswerInv'
<1>1. /\ TypeInv /\ job' = job /\ InFlight(r)
      /\ \A s \in Requests \ {r} : pc'[s] = pc[s] /\ work'[s] = work[s]
  BY DEF AnswerInv, ShelfInv, ThreadInv, LikeInv, Moves, Keeps
<1>2. VotesWritten'
  <2>1. ASSUME NEW k \in likes'
        PROVE  Written(k[2])'
    <3>1. Written(k[2])
      <4>1. CASE k \in likes
        BY <4>1 DEF AnswerInv, VotesWritten
      <4>2. CASE k = Liked(r)
        BY <1>1, <4>2 DEF TypeInv, NamesWritten, Liked
      <4>3. QED
        BY <4>1, <4>2
    <3>2. QED
      BY <1>1, <3>1, WrittenStays
  <2>2. QED
    BY <2>1 DEF VotesWritten
<1>3. ASSUME NEW s \in Requests \ {r}
      PROVE  ShownOK(s)' /\ VoteStands(s)' /\ GoneOK(s)'
  <2>0. ShownOK(s) /\ VoteStands(s) /\ GoneOK(s)
    BY DEF AnswerInv
  <2>1. ShownOK(s)'
    BY <1>1, <2>0 DEF ShownOK, OnPost, Adding, TargetRead
  <2>2. LikeStands(s) => LikeStands(s)'
    BY <1>1 DEF LikeStands, Liked
  <2>3. VoteStands(s)'
    BY <1>1, <2>0, <2>2 DEF VoteStands, Adding
  <2>4. job[s].item \notin comments /\ job[s].item \in CommentIds => job[s].item \notin comments'
    <3>1. job[s].item # r \/ pc[r] # "CommitComment"
      BY <1>1 DEF TypeInv, NamesWritten, Written
    <3>2. QED
      BY <3>1 DEF NewComments
  <2>5. job[s].op = "DeleteComment" => job[s].item \in CommentIds
    BY <1>1 DEF TypeInv, TypeOK, ControlOK, Fits
  <2>6. GoneOK(s)'
    BY <1>1, <2>0, <2>4, <2>5 DEF GoneOK
  <2>7. QED
    BY <2>1, <2>3, <2>6
<1>4. QED
  BY <1>2, <1>3 DEF AnswerInv

\* A step that does not vote.
LEMMA AnswersElsewhere ==
  ASSUME AnswerInv, ShelfInv', NEW r \in Requests, Moves(r),
         pc[r] = "LoadAuthor" => pc'[r] = "done",
         \A s \in Requests \ {r} : answer'[s] = answer[s],
         posts' \subseteq posts, folders' \subseteq folders, NewComments(r), UNCHANGED likes,
         pc'[r] \notin LikeSteps,
         pc'[r] # "done" => answer'[r] = answer[r],
         answer'[r] = "ok" =>
           /\ ~Adding(r)
           /\ job[r].op = "DeletePost" => job[r].item \notin posts'
           /\ job[r].op = "DeleteComment" => job[r].item \notin comments'
           /\ job[r].op = "DeleteFolder" => job[r].item \notin folders'
  PROVE  AnswerInv'
<1>1. job' = job /\ pc[r] # "done"
  BY DEF Moves, InFlight
<1>2. ShownOK(r)'
  BY DEF ShownOK, LikeSteps, OnPost
<1>3. VoteStands(r)'
  BY <1>1 DEF VoteStands, Adding
<1>4. GoneOK(r)'
  BY <1>1 DEF AnswerInv, GoneOK
<1>5. QED
  BY <1>2, <1>3, <1>4, AnswerFrame

\* A transaction that fails promises nothing.
LEMMA RollbackAnswers ==
  ASSUME AnswerInv, ShelfInv', NEW r \in Requests, InFlight(r), NEW a, a # "ok", Rollback(r, a)
  PROVE  AnswerInv'
<1>1. Moves(r) /\ UNCHANGED tables
  BY RollbackMoves DEF AnswerInv, ShelfInv, ThreadInv, LikeInv
<1>2. pc'[r] = "done" /\ answer'[r] = a /\ \A s \in Requests \ {r} : answer'[s] = answer[s]
  BY DEF Rollback, Close, Reply, AnswerInv, ShelfInv, ThreadInv, LikeInv, TypeInv, TypeOK, ControlOK
<1>3. QED
  BY <1>1, <1>2, AnswersElsewhere DEF tables, NewComments, LikeSteps

\* The handlers of comments answer "ok" after their commit only.
LEMMA CommentAnswers ==
  ASSUME AnswerInv, ShelfInv', NEW r \in Requests, CommentStep(r)
  PROVE  AnswerInv'
<1>1. /\ TypeInv /\ TypeInv' /\ pc[r] \in CommentSteps /\ Moves(r)
      /\ UNCHANGED <<posts, likes>> /\ NewComments(r)
  BY CommentStepFrame DEF AnswerInv, ShelfInv, ThreadInv, LikeInv
<1>2. InFlight(r) /\ pc \in [Requests -> Steps] /\ answer \in [Requests -> Answers]
  BY <1>1 DEF InFlight, CommentSteps, CreateSteps, DeleteSteps, TypeInv, TypeOK, ControlOK
<1>3. ASSUME NEW a, a # "ok", Rollback(r, a) PROVE AnswerInv'
  BY <1>2, <1>3, RollbackAnswers
<1>4. CASE \E step \in CommentSteps \ {"LoadAuthor"} : pc[r] # "LoadAuthor" /\ Goto(r, step)
  <2>1. /\ UNCHANGED <<folders, answer>> /\ pc'[r] \in CommentSteps \ {"LoadAuthor"} /\ pc[r] # "LoadAuthor"
    BY <1>2, <1>4 DEF Goto, tables
  <2>2. answer[r] = "none" /\ pc'[r] \notin LikeSteps
    BY <1>2, <2>1 DEF AnswerInv, GoneOK, InFlight, LikeSteps, CommentSteps, CreateSteps, DeleteSteps
  <2>3. QED
    BY <1>1, <2>1, <2>2, AnswersElsewhere
<1>5. CASE LookupThread(r) \/ InsertComment(r) \/ BumpComments(r)
  BY <1>3, <1>4, <1>5 DEF LookupThread, InsertComment, BumpComments, CommentSteps, CreateSteps
<1>6. CASE LookupComment(r) \/ DeleteCommentRow(r)
  BY <1>3, <1>4, <1>6 DEF LookupComment, DeleteCommentRow, CommentSteps, DeleteSteps
<1>7. CASE CascadeReplies(r) \/ SnapshotCount(r) \/ RecountComments(r)
  BY <1>4, <1>7 DEF CascadeReplies, SnapshotCount, RecountComments, CommentSteps, DeleteSteps
<1>8. CASE CommitComment(r)
  <2>1. pc[r] = "CommitComment" /\ pc'[r] \in {"done", "LoadAuthor"} /\ UNCHANGED folders
    BY <1>2, <1>8 DEF CommitComment, Close
  <2>2. /\ \A s \in Requests \ {r} : answer'[s] = answer[s]
        /\ answer'[r] \in {answer[r], "failed"}
        /\ pc'[r] # "done" => answer'[r] = answer[r]
    BY <1>2, <1>8 DEF CommitComment, Close, Reply
  <2>3. answer[r] = "none"
    BY <2>1 DEF AnswerInv, GoneOK
  <2>4. QED
    BY <1>1, <2>1, <2>2, <2>3, AnswersElsewhere DEF LikeSteps
<1>9. CASE LoadAuthor(r)
  <2>1. pc[r] = "LoadAuthor" /\ pc'[r] = "done" /\ UNCHANGED folders
    BY <1>2, <1>9 DEF LoadAuthor, Rollback, Close, tables
  <2>2. \A s \in Requests \ {r} : answer'[s] = answer[s]
    BY <1>2, <1>9 DEF LoadAuthor, Rollback, Reply
  <2>3. job[r].op = "CreateComment"
    BY <1>1, <2>1 DEF TypeInv, TypeOK, ControlOK, Fits, CreateSteps
  <2>4. QED
    BY <1>1, <2>1, <2>2, <2>3, AnswersElsewhere DEF LikeSteps, Adding
<1>10. CASE CommitDeleteComment(r)
  <2>1. pc[r] = "CommitDeleteComment" /\ pc'[r] = "done" /\ UNCHANGED folders
    BY <1>2, <1>10 DEF CommitDeleteComment, Committed, Close
  <2>2. \A s \in Requests \ {r} : answer'[s] = answer[s]
    BY <1>2, <1>10 DEF CommitDeleteComment, Committed, Reply
  <2>3. job[r].op = "DeleteComment"
    BY <1>1, <2>1 DEF TypeInv, TypeOK, ControlOK, Fits, DeleteSteps
  <2>4. Holds(r, Delete(CommentRow(job[r].item)))
    BY <2>1 DEF AnswerInv, ShelfInv, ThreadInv, DeleteOK
  <2>5. job[r].item \notin comments'
    BY <1>10, <2>4 DEF CommitDeleteComment, Doomed
  <2>6. QED
    BY <1>1, <2>1, <2>2, <2>3, <2>5, AnswersElsewhere DEF LikeSteps, Adding
<1>11. QED
  BY <1>5, <1>6, <1>7, <1>8, <1>9, <1>10 DEF CommentStep

\* So do the handlers of collections and folders.
LEMMA CollectionAnswers ==
  ASSUME AnswerInv, ShelfInv', NEW r \in Requests, CollectionStep(r)
  PROVE  AnswerInv'
<1>1. /\ TypeInv /\ pc[r] \in CollectionSteps /\ Moves(r) /\ UNCHANGED <<posts, likes, comments>>
  BY CollectionStepFrame DEF AnswerInv, ShelfInv, ThreadInv, LikeInv
<1>2. /\ InFlight(r) /\ pc \in [Requests -> Steps] /\ answer \in [Requests -> Answers]
      /\ pc[r] # "LoadAuthor" /\ NewComments(r)
  BY <1>1 DEF InFlight, CollectionSteps, ShelfSteps, FolderSteps, TypeInv, TypeOK, ControlOK, NewComments
<1>3. ASSUME NEW a, a # "ok", Rollback(r, a) PROVE AnswerInv'
  BY <1>2, <1>3, RollbackAnswers
<1>4. CASE \E step \in CollectionSteps : Goto(r, step)
  <2>1. /\ UNCHANGED <<folders, answer>> /\ pc'[r] \in CollectionSteps
    BY <1>2, <1>4 DEF Goto, tables
  <2>2. answer[r] = "none" /\ pc'[r] \notin LikeSteps
    BY <1>2, <2>1 DEF AnswerInv, GoneOK, InFlight, LikeSteps, CollectionSteps, ShelfSteps, FolderSteps
  <2>3. QED
    BY <1>1, <1>2, <2>1, <2>2, AnswersElsewhere
<1>5. CASE LookupShelf(r) \/ AddCollection(r) \/ ReadShelf(r)
  BY <1>3, <1>4, <1>5 DEF LookupShelf, AddCollection, ReadShelf, CollectionSteps, ShelfSteps
<1>6. CASE RemoveCollection(r) \/ BumpCollects(r)
  BY <1>4, <1>6 DEF RemoveCollection, BumpCollects, CollectionSteps, ShelfSteps
<1>7. CASE DeleteFolderRow(r) \/ CascadeUnfile(r)
  BY <1>3, <1>4, <1>7 DEF DeleteFolderRow, CascadeUnfile, CollectionSteps, FolderSteps
<1>8. CASE CommitCollection(r)
  <2>1. pc[r] = "CommitCollection" /\ pc'[r] = "done" /\ UNCHANGED folders
    BY <1>2, <1>8 DEF CommitCollection, Committed, Close
  <2>2. \A s \in Requests \ {r} : answer'[s] = answer[s]
    BY <1>2, <1>8 DEF CommitCollection, Committed, Reply
  <2>3. job[r].op \in {"Collect", "Uncollect"}
    BY <1>1, <1>2, <2>1, FolderNamed DEF ShelfSteps
  <2>4. QED
    BY <1>1, <1>2, <2>1, <2>2, <2>3, AnswersElsewhere DEF LikeSteps, Adding
<1>9. CASE CommitDeleteFolder(r)
  <2>1. /\ pc[r] = "CommitDeleteFolder" /\ pc'[r] = "done"
        /\ folders' \subseteq folders /\ job[r].item \notin folders'
    BY <1>2, <1>9 DEF CommitDeleteFolder, Committed, Close
  <2>2. \A s \in Requests \ {r} : answer'[s] = answer[s]
    BY <1>2, <1>9 DEF CommitDeleteFolder, Committed, Reply
  <2>3. job[r].op = "DeleteFolder"
    BY <1>1, <1>2, <2>1, FolderNamed DEF FolderSteps
  <2>4. QED
    BY <1>1, <1>2, <2>1, <2>2, <2>3, AnswersElsewhere DEF LikeSteps, Adding
<1>10. QED
  BY <1>5, <1>6, <1>7, <1>8, <1>9 DEF CollectionStep

\* And the deletion of a post: the commit removes it, or it was gone already.
LEMMA PurgeAnswers ==
  ASSUME AnswerInv, ShelfInv', NEW r \in Requests, PostStep(r)
  PROVE  AnswerInv'
<1>1. /\ TypeInv /\ pc[r] \in PostSteps /\ Moves(r) /\ UNCHANGED likes /\ posts' \subseteq posts
      /\ comments' \subseteq comments
  BY PostStepFrame DEF AnswerInv, ShelfInv, ThreadInv, LikeInv
<1>2. /\ InFlight(r) /\ pc \in [Requests -> Steps] /\ answer \in [Requests -> Answers]
      /\ pc[r] # "LoadAuthor" /\ NewComments(r)
  BY <1>1 DEF InFlight, PostSteps, TypeInv, TypeOK, ControlOK, NewComments
<1>3. ASSUME NEW a, a # "ok", Rollback(r, a) PROVE AnswerInv'
  BY <1>2, <1>3, RollbackAnswers
<1>4. CASE \E step \in PostSteps : Goto(r, step)
  <2>1. /\ UNCHANGED <<folders, answer>> /\ pc'[r] \in PostSteps
    BY <1>2, <1>4 DEF Goto, tables
  <2>2. answer[r] = "none" /\ pc'[r] \notin LikeSteps
    BY <1>2, <2>1 DEF AnswerInv, GoneOK, InFlight, LikeSteps, PostSteps
  <2>3. QED
    BY <1>1, <1>2, <2>1, <2>2, AnswersElsewhere
<1>5. CASE LookupOwn(r) \/ DeletePostRow(r) \/ CascadePost(r)
  BY <1>3, <1>4, <1>5 DEF LookupOwn, DeletePostRow, CascadePost, PostSteps
<1>6. CASE CommitDeletePost(r)
  <2>1. pc[r] = "CommitDeletePost" /\ pc'[r] = "done" /\ UNCHANGED folders
    BY <1>2, <1>6 DEF CommitDeletePost, Committed, Close
  <2>2. \A s \in Requests \ {r} : answer'[s] = answer[s]
    BY <1>2, <1>6 DEF CommitDeletePost, Committed, Reply
  <2>3. job[r].op = "DeletePost"
    BY <1>1 DEF TypeInv, TypeOK, ControlOK, Fits
  <2>4. job[r].item \notin posts'
    BY <1>1, <1>6, CommitPurgeWrites DEF AnswerInv
  <2>5. QED
    BY <1>1, <1>2, <2>1, <2>2, <2>3, <2>4, AnswersElsewhere DEF LikeSteps, Adding
<1>7. QED
  BY <1>5, <1>6 DEF PostStep

\* A statement of a vote: what it read is what the answer will show.
LEMMA VoteAnswers ==
  ASSUME AnswerInv, ShelfInv', NEW r \in Requests, LikeStep(r), ~CommitLike(r)
  PROVE  AnswerInv'
<1>1. /\ TypeInv /\ pc[r] \in LikeSteps /\ Moves(r) /\ UNCHANGED tables
  BY LikeStatementFrame DEF AnswerInv, ShelfInv, ThreadInv, LikeInv
<1>2. /\ InFlight(r) /\ pc \in [Requests -> Steps] /\ answer \in [Requests -> Answers]
      /\ work \in [Requests -> Work] /\ pc[r] # "LoadAuthor" /\ NewComments(r) /\ VoteOK(r)
  BY <1>1 DEF InFlight, LikeSteps, TypeInv, TypeOK, ControlOK, NewComments, tables,
              AnswerInv, ShelfInv, ThreadInv, LikeInv
<1>3. ASSUME NEW a, a # "ok", Rollback(r, a) PROVE AnswerInv'
  BY <1>2, <1>3, RollbackAnswers
<1>4. ShownOK(r) /\ VoteStands(r) /\ answer[r] = "none"
  BY <1>1 DEF AnswerInv, GoneOK, LikeSteps
<1>5. /\ job' = job /\ Adding(r)' = Adding(r) /\ OnPost(r)' = OnPost(r)
      /\ LikeStands(r)' = LikeStands(r)
  BY <1>1 DEF Moves, Adding, OnPost, LikeStands, Liked, tables
<1>6. ASSUME UNCHANGED answer, pc'[r] \in LikeSteps, ShownOK(r)', VoteStands(r)'
      PROVE  AnswerInv'
  <2>1. GoneOK(r)'
    BY <1>4, <1>6 DEF GoneOK
  <2>2. QED
    BY <1>1, <1>2, <1>6, <2>1, AnswerFrame DEF tables
<1>7. CASE AddLike(r)
  <2>1. pc[r] = "AddLike" /\ UNCHANGED answer
    BY <1>7 DEF AddLike, Goto
  <2>2. CASE Liked(r) \in likes
    <3>1. pc'[r] \in {"ReadLiked", "ReadTarget"} /\ work'[r].rows = 0 /\ LikeStands(r)
      BY <1>2, <1>7, <2>1, <2>2 DEF AddLike, Goto, AfterBump, VoteOK, LikeStands
    <3>2. QED
      BY <1>4, <1>5, <1>6, <2>1, <3>1 DEF ShownOK, VoteStands, LikeSteps
  <2>3. CASE Liked(r) \notin likes
    <3>1. pc'[r] = "BumpLikes" /\ work'[r].rows = 1
      BY <1>2, <1>7, <2>3 DEF AddLike, Goto, Work
    <3>2. QED
      BY <1>4, <1>5, <1>6, <2>1, <3>1 DEF ShownOK, VoteStands, LikeSteps, TargetRead
  <2>4. QED
    BY <2>2, <2>3
<1>8. CASE RemoveLike(r)
  <2>1. pc[r] = "RemoveLike" /\ UNCHANGED answer /\ ~Adding(r) /\ work[r].rows = 0
    BY <1>2, <1>8 DEF RemoveLike, Goto, VoteOK
  <2>2. \/ pc'[r] \in {"ReadLiked", "ReadTarget"} /\ work'[r].rows = 0
        \/ pc'[r] = "BumpLikes"
    BY <1>2, <1>8, <2>1 DEF RemoveLike, Goto, AfterBump
  <2>3. QED
    BY <1>4, <1>5, <1>6, <2>1, <2>2 DEF ShownOK, VoteStands, LikeSteps, TargetRead
<1>9. CASE BumpLikes(r)
  <2>1. /\ pc[r] = "BumpLikes" /\ UNCHANGED answer /\ pc'[r] = AfterBump(r)
        /\ work[r].rows = 1 /\ work'[r].rows = 1
    BY <1>2, <1>9 DEF BumpLikes, Goto, VoteOK, Work
  <2>2. QED
    BY <1>4, <1>5, <1>6, <2>1 DEF ShownOK, VoteStands, LikeSteps, TargetRead, AfterBump
<1>10. CASE ReadLiked(r)
  <2>1. /\ pc[r] = "ReadLiked" /\ UNCHANGED answer /\ pc'[r] = AfterLiked(r)
        /\ work'[r].rows = work[r].rows /\ work'[r].shown = work[r].shown
        /\ work'[r].val = work[r].val
        /\ work[r].rows = 1 => work'[r].flag = Adding(r)
    BY <1>2, <1>10 DEF ReadLiked, Goto, Work
  <2>2. QED
    BY <1>4, <1>5, <1>6, <2>1 DEF ShownOK, VoteStands, LikeSteps, TargetRead, AfterLiked
<1>11. CASE ReadTarget(r) /\ ~Rollback(r, "missing")
  <2>1. /\ pc[r] = "ReadTarget" /\ UNCHANGED answer /\ pc'[r] \in {"NotifyLiked", AfterTarget(r)}
        /\ work'[r].rows = work[r].rows /\ work'[r].flag = work[r].flag
        /\ work'[r].val = work[r].val /\ Live(job[r].item)
        /\ HoldsTarget(r) => work'[r].shown = work[r].val
    BY <1>2, <1>11 DEF ReadTarget, Goto, Work, HoldsTarget
  <2>2. work[r].rows = 1 => HoldsTarget(r)
    BY <1>2, <2>1 DEF VoteOK
  <2>3. QED
    BY <1>4, <1>5, <1>6, <2>1, <2>2 DEF ShownOK, VoteStands, LikeSteps, TargetRead, AfterTarget
<1>12. CASE NotifyLiked(r)
  <2>1. /\ pc[r] = "NotifyLiked" /\ UNCHANGED answer /\ pc'[r] = AfterTarget(r)
        /\ work'[r].rows = work[r].rows /\ work'[r].flag = work[r].flag
        /\ work'[r].val = work[r].val /\ work'[r].shown = work[r].shown
    BY <1>2, <1>12 DEF NotifyLiked, Goto, Work
  <2>2. QED
    BY <1>4, <1>5, <1>6, <2>1 DEF ShownOK, VoteStands, LikeSteps, TargetRead, AfterTarget
<1>13. QED
  BY <1>3, <1>7, <1>8, <1>9, <1>10, <1>11, <1>12 DEF LikeStep

\* The commit of a vote writes or erases the like of its user.
LEMMA CommitLikeAnswers ==
  ASSUME AnswerInv, ShelfInv', NEW r \in Requests, CommitLike(r)
  PROVE  AnswerInv'
<1>1. /\ TypeInv /\ LikeInv /\ pc[r] = "CommitLike" /\ pc[r] \in LikeSteps /\ InFlight(r)
      /\ pc \in [Requests -> Steps] /\ answer \in [Requests -> Answers] /\ work[r] \in Work
      /\ work \in [Requests -> Work]
  BY DEF CommitLike, InFlight, LikeSteps, AnswerInv, ShelfInv, ThreadInv, LikeInv, TypeInv, TypeOK,
         ControlOK
<1>2. /\ Moves(r) /\ pc'[r] = "done" /\ work'[r] = Blank /\ job' = job
      /\ \A s \in Requests \ {r} : answer'[s] = answer[s]
  BY <1>1, CommittedMoves DEF CommitLike, Committed, Close, Reply
<1>3. /\ UNCHANGED <<posts, folders, comments>>
      /\ likes' = IF work[r].rows = 0 THEN likes
                  ELSE IF Adding(r) THEN likes \cup {Liked(r)} ELSE likes \ {Liked(r)}
  BY DEF CommitLike
<1>4. job[r].op \in LikeOps
  BY <1>1 DEF TypeInv, TypeOK, ControlOK, Fits
<1>5. ShownOK(r)'
  BY <1>2 DEF ShownOK, LikeSteps, Blank
<1>6. Adding(r) => LikeStands(r)'
  <2>1. CASE work[r].rows = 0
    <3>1. Adding(r) => LikeStands(r)
      BY <1>1, <2>1 DEF AnswerInv, VoteStands
    <3>2. QED
      BY <1>2, <1>3, <2>1, <3>1 DEF LikeStands, Liked
  <2>2. CASE work[r].rows = 1
    BY <1>2, <1>3, <2>2 DEF LikeStands, Liked
  <2>3. QED
    BY <1>1, <2>1, <2>2 DEF Work
<1>7. VoteStands(r)' /\ GoneOK(r)'
  BY <1>2, <1>4, <1>6 DEF VoteStands, GoneOK, Adding, LikeSteps, LikeOps, PostLikeOps, CommentLikeOps
<1>8. ~Adding(r) => job[r].op \in {"UnlikePost", "UnlikeComment"}
  BY <1>4 DEF Adding, LikeOps, PostLikeOps, CommentLikeOps
<1>9. QED
  BY <1>1, <1>2, <1>3, <1>5, <1>7, <1>8, AnswerFrame DEF NewComments

\* A call that begins has answered nobody.
LEMMA StartAnswers ==
  ASSUME AnswerInv, ShelfInv', NEW r \in Requests, Start(r)
  PROVE  AnswerInv'
<1>1. /\ pc[r] = "idle" /\ Keeps(r) /\ work[r] = Blank
      /\ UNCHANGED <<posts, folders, comments, likes, work, answer>>
      /\ pc'[r] \in {"AddLike", "RemoveLike", "LookupThread", "LookupComment", "LookupShelf",
                     "RemoveCollection", "DeleteFolderRow", "LookupOwn"}
  BY Starts DEF AnswerInv, ShelfInv, ThreadInv, tables
<1>2. /\ TypeInv /\ TypeInv' /\ job[r] = NoJob
  BY <1>1 DEF AnswerInv, ShelfInv, ThreadInv, LikeInv, TypeInv, TypeOK, ControlOK, Fits
<1>3. \A c : Written(c) => Written(c)'
  BY <1>1 DEF Written, Keeps
<1>4. VotesWritten'
  BY <1>1, <1>3 DEF AnswerInv, VotesWritten
<1>5. ASSUME NEW s \in Requests \ {r}
      PROVE  ShownOK(s)' /\ VoteStands(s)' /\ GoneOK(s)'
  <2>1. ShownOK(s) /\ VoteStands(s) /\ GoneOK(s)
    BY DEF AnswerInv
  <2>2. pc'[s] = pc[s] /\ job'[s] = job[s]
    BY <1>1 DEF Keeps
  <2>3. LikeStands(s) => LikeStands(s)'
    BY <1>1, <1>2, <2>2 DEF LikeStands, Liked, Keeps, NoJob
  <2>4. VoteStands(s)'
    BY <1>1, <2>1, <2>2, <2>3 DEF VoteStands, Adding
  <2>5. ShownOK(s)'
    BY <1>1, <2>1, <2>2 DEF ShownOK, OnPost, Adding, TargetRead
  <2>6. GoneOK(s)'
    BY <1>1, <2>1, <2>2 DEF GoneOK
  <2>7. QED
    BY <2>4, <2>5, <2>6
<1>6. answer[r] = "none"
  BY <1>1 DEF AnswerInv, GoneOK
<1>7. ShownOK(r)' /\ VoteStands(r)' /\ GoneOK(r)'
  <2>1. work'[r].rows = 0 /\ answer'[r] = "none"
    BY <1>1, <1>6 DEF Blank
  <2>2. pc'[r] = "RemoveLike" => ~Adding(r)'
    <3>1. VoteOK(r)' \/ pc'[r] \notin LikeSteps
      BY DEF ShelfInv, ThreadInv, LikeInv
    <3>2. QED
      BY <3>1 DEF VoteOK, LikeSteps
  <2>3. QED
    BY <1>1, <2>1, <2>2 DEF ShownOK, VoteStands, GoneOK, LikeSteps
<1>8. QED
  BY <1>4, <1>5, <1>7 DEF AnswerInv

\* Nothing has been answered before the first call.
LEMMA InitAnswers == Init => AnswerInv
<1> SUFFICES ASSUME Init PROVE AnswerInv
  OBVIOUS
<1>1. ShelfInv
  BY InitShelves
<1>2. /\ likes = OldLikes
      /\ \A r \in Requests : pc[r] = "idle" /\ work[r] = Blank /\ answer[r] = "none"
  BY DEF Init, StoreInit
<1>3. VotesWritten
  BY <1>2, StoreAssumption DEF VotesWritten, Written, CommentIds
<1>4. \A r \in Requests : ShownOK(r) /\ VoteStands(r) /\ GoneOK(r)
  BY <1>2 DEF ShownOK, VoteStands, GoneOK, LikeSteps
<1>5. QED
  BY <1>1, <1>3, <1>4 DEF AnswerInv

\* Every step of the system keeps what the answers say.
LEMMA AnswerPreserved ==
  ASSUME AnswerInv, [Next]_vars
  PROVE  AnswerInv'
<1>1. ShelfInv'
  BY ShelfPreserved DEF AnswerInv
<1>2. ASSUME NEW r \in Requests, Timeout(r) \/ DeadlockVictim(r)
      PROVE  AnswerInv'
  BY <1>1, <1>2, RollbackAnswers DEF Timeout, DeadlockVictim
<1>3. CASE UNCHANGED vars
  <2>1. VotesWritten'
    BY <1>3 DEF AnswerInv, VotesWritten, Written, vars, tables
  <2>2. ASSUME NEW r \in Requests
        PROVE  ShownOK(r)' /\ VoteStands(r)' /\ GoneOK(r)'
    <3>1. ShownOK(r) /\ VoteStands(r) /\ GoneOK(r)
      BY DEF AnswerInv
    <3>2. LikeStands(r)' = LikeStands(r)
      BY <1>3 DEF LikeStands, Liked, vars, tables
    <3>3. QED
      BY <1>3, <3>1, <3>2 DEF ShownOK, VoteStands, GoneOK, OnPost, Adding, TargetRead, vars, tables
  <2>3. QED
    BY <1>1, <2>1, <2>2 DEF AnswerInv
<1>4. QED
  BY <1>1, <1>2, <1>3, VoteAnswers, CommitLikeAnswers, CommentAnswers, CollectionAnswers,
     PurgeAnswers, StartAnswers DEF Next, Step, Quiet

\* Each of the three properties is read off the invariant.
LEMMA AnswersTrue ==
  ASSUME AnswerInv
  PROVE  OwnVoteShown /\ AckedLikeKept /\ DeletedMeansGone
<1>1. ASSUME NEW r \in Requests, pc[r] = "CommitLike", work[r].rows = 1
      PROVE  /\ work[r].flag = Adding(r)
             /\ work[r].shown =
                  Cardinality(IF Adding(r) THEN Likers(job[r].item) \cup {job[r].user}
                              ELSE Likers(job[r].item) \ {job[r].user})
  <2>1. VoteOK(r) /\ ShownOK(r) /\ TypeInv /\ CountsOK /\ pc[r] \in LikeSteps /\ TargetRead(r)
    BY <1>1 DEF AnswerInv, ShelfInv, ThreadInv, LikeInv, LikeSteps, TargetRead
  <2>2. /\ work[r].val = NewLikeCount(r) /\ (Liked(r) \in likes <=> ~Adding(r))
        /\ work[r].shown = work[r].val /\ work[r].flag = Adding(r)
    BY <1>1, <2>1 DEF VoteOK, ShownOK
  <2>3. job[r].item \in Targets /\ job[r].user \in Users
    BY <1>1, <2>1, Inputs DEF InFlight, TypeInv, TypeOK, ControlOK, Fits, LikeOps, Targets
  <2>4. /\ like_count[job[r].item] = Cardinality(Likers(job[r].item))
        /\ IsFiniteSet(Likers(job[r].item)) /\ Cardinality(Likers(job[r].item)) \in Nat
    BY <2>1, <2>3, LikersFinite, FS_CardinalityType DEF CountsOK
  <2>5. CASE Adding(r)
    <3>1. job[r].user \notin Likers(job[r].item)
      BY <2>2, <2>5 DEF Likers, Liked
    <3>2. Cardinality(Likers(job[r].item) \cup {job[r].user}) = Cardinality(Likers(job[r].item)) + 1
      BY <2>4, <3>1, FS_AddElement
    <3>3. QED
      BY <2>2, <2>4, <2>5, <3>2 DEF NewLikeCount
  <2>6. CASE ~Adding(r)
    <3>1. job[r].user \in Likers(job[r].item)
      BY <2>2, <2>3, <2>6 DEF Likers, Liked
    <3>2. /\ Cardinality(Likers(job[r].item)) # 0
          /\ Cardinality(Likers(job[r].item) \ {job[r].user}) = Cardinality(Likers(job[r].item)) - 1
      BY <2>4, <3>1, FS_RemoveElement, FS_EmptySet
    <3>3. QED
      BY <2>2, <2>4, <2>6, <3>2 DEF NewLikeCount
  <2>7. QED
    BY <2>2, <2>5, <2>6
<1>2. OwnVoteShown
  BY <1>1 DEF OwnVoteShown
<1>3. AckedLikeKept
  BY DEF AnswerInv, AckedLikeKept, VoteStands, LikeStands, Adding
<1>4. ASSUME NEW r \in Requests, answer[r] = "ok", NEW x, x = job[r].item
      PROVE  /\ job[r].op = "DeletePost" =>
                  x \notin posts /\ Thread(x) = {} /\ Collectors(x) = {}
             /\ job[r].op = "DeleteComment" =>
                  x \notin comments /\ \A c \in comments : Comment(c).parent # x
             /\ job[r].op = "DeleteFolder" =>
                  x \notin folders /\ \A k \in collections : filed[k] # x
  <2>1. GoneOK(r) /\ TypeInv /\ ThreadIntegrity /\ CollectionsLive /\ FiledInOwnFolder
    BY DEF AnswerInv, ShelfInv, ThreadInv, LikeInv
  <2>2. /\ job[r].op = "DeleteComment" => x \in CommentIds
        /\ job[r].op = "DeleteFolder" => x \in Folders
        /\ collections \subseteq Users \X Posts
    BY <1>4, <2>1 DEF TypeInv, TypeOK, ControlOK, Fits, TablesOK
  <2>3. CASE job[r].op = "DeletePost"
    BY <1>4, <2>1, <2>3 DEF GoneOK, ThreadIntegrity, Thread, CollectionsLive, Collectors
  <2>4. CASE job[r].op = "DeleteComment"
    BY <1>4, <2>1, <2>2, <2>4, StoreAssumption DEF GoneOK, ThreadIntegrity, Targets
  <2>5. CASE job[r].op = "DeleteFolder"
    BY <1>4, <2>1, <2>2, <2>5, StoreAssumption DEF GoneOK, FiledInOwnFolder
  <2>6. QED
    BY <2>3, <2>4, <2>5
<1>5. DeletedMeansGone
  BY <1>4 DEF DeletedMeansGone
<1>6. QED
  BY <1>2, <1>3, <1>5

\* The response of a like or unlike that changed a row agrees with the tables
\* as they are once it commits, whoever votes at the same time.
THEOREM OwnVotesShown == Spec => []OwnVoteShown
<1>1. Init => AnswerInv
  BY InitAnswers
<1>2. AnswerInv /\ [Next]_vars => AnswerInv'
  BY AnswerPreserved
<1>3. AnswerInv => OwnVoteShown
  BY AnswersTrue
<1>4. QED
  BY <1>1, <1>2, <1>3, PTL DEF Spec

\* A like answered with success stays until its user takes it back.
THEOREM LikesKept == Spec => []AckedLikeKept
<1>1. Init => AnswerInv
  BY InitAnswers
<1>2. AnswerInv /\ [Next]_vars => AnswerInv'
  BY AnswerPreserved
<1>3. AnswerInv => AckedLikeKept
  BY AnswersTrue
<1>4. QED
  BY <1>1, <1>2, <1>3, PTL DEF Spec

\* Once a deletion is answered with success, the row is gone with all that
\* hangs on it, also what running requests tried to attach.
THEOREM DeletionsComplete == Spec => []DeletedMeansGone
<1>1. Init => AnswerInv
  BY InitAnswers
<1>2. AnswerInv /\ [Next]_vars => AnswerInv'
  BY AnswerPreserved
<1>3. AnswerInv => DeletedMeansGone
  BY AnswersTrue
<1>4. QED
  BY <1>1, <1>2, <1>3, PTL DEF Spec

-----------------------------------------------------------------------------
(* The comment counter: DriftOnlyByRecount *)

\* The comments of a post are finitely many.
LEMMA ThreadsFinite ==
  ASSUME TypeInv, NEW p
  PROVE  IsFiniteSet(Thread(p)) /\ Cardinality(Thread(p)) \in Nat
<1>1. Thread(p) \subseteq OldComments \cup Requests
  BY DEF Thread, TypeInv, TypeOK, TablesOK, CommentIds
<1>2. IsFiniteSet(OldComments \cup Requests)
  BY StoreAssumption, FS_Union
<1>3. QED
  BY <1>1, <1>2, FS_Subset, FS_CardinalityType

\* Only three commits write comments or their counter.
LEMMA CommentWriters ==
  ASSUME ThreadInv, NEW r \in Requests, Start(r) \/ Step(r) \/ Timeout(r) \/ DeadlockVictim(r),
         ~CommitComment(r), ~CommitDeleteComment(r), ~CommitDeletePost(r)
  PROVE  UNCHANGED <<comments, comment_count>>
<1>1. CASE Start(r)
  BY <1>1, Starts DEF ThreadInv, tables
<1>2. CASE LikeStep(r)
  <2>1. CASE CommitLike(r)
    BY <2>1 DEF CommitLike
  <2>2. CASE ~CommitLike(r)
    BY <1>2, <2>2, LikeStatementFrame DEF ThreadInv, LikeInv, tables
  <2>3. QED
    BY <2>1, <2>2
<1>3. CASE CommentStep(r)
  BY <1>3 DEF CommentStep, LookupThread, InsertComment, BumpComments, LoadAuthor, LookupComment,
     DeleteCommentRow, CascadeReplies, SnapshotCount, RecountComments, Goto, Rollback, tables
<1>4. CASE CollectionStep(r)
  BY <1>4 DEF CollectionStep, LookupShelf, AddCollection, RemoveCollection, BumpCollects, ReadShelf,
     CommitCollection, DeleteFolderRow, CascadeUnfile, CommitDeleteFolder, Goto, Rollback, tables
<1>5. CASE PostStep(r)
  BY <1>5 DEF PostStep, LookupOwn, DeletePostRow, CascadePost, Goto, Rollback, tables
<1>6. CASE Timeout(r) \/ DeadlockVictim(r)
  BY <1>6 DEF Timeout, DeadlockVictim, Rollback, tables
<1>7. QED
  BY <1>1, <1>2, <1>3, <1>4, <1>5, <1>6 DEF Step

\* The counter and the comments of a live post move together, but in a recount.
LEMMA DriftSteps ==
  ASSUME ThreadInv, NEW r \in Requests, Moves(r) \/ (pc[r] = "idle" /\ Keeps(r)),
         Start(r) \/ Step(r) \/ Timeout(r) \/ DeadlockVictim(r), ~CommitDeleteComment(r),
         NEW p \in posts, p \in posts'
  PROVE  Drift(p)' = Drift(p)
<1>1. /\ TypeInv /\ posts \subseteq Posts /\ comments \subseteq CommentIds
      /\ comment_count \in [Posts -> Nat] /\ pc \in [Requests -> Steps]
  BY DEF ThreadInv, LikeInv, TypeInv, TypeOK, TablesOK, ControlOK
<1>2. \A c \in comments : Comment(c)' = Comment(c)
  BY <1>1, ColumnsFixed DEF TypeInv, NamesWritten
<1>3. CASE UNCHANGED <<comments, comment_count>>
  BY <1>2, <1>3 DEF Drift, Thread
<1>4. CASE CommitComment(r)
  <2>1. PICK q : q = job[r].item
    OBVIOUS
  <2>2. /\ comments' = comments \cup {r} /\ job' = job /\ pc[r] = "CommitComment"
        /\ comment_count' = [comment_count EXCEPT ![q] = work[r].val]
    BY <1>4, <2>1 DEF CommitComment, Close
  <2>3. r \notin comments /\ r \notin OldComments /\ Comment(r)'.post = q
    BY <1>1, <2>1, <2>2, StoreAssumption DEF TypeInv, NamesWritten, Written, Comment
  <2>4. work[r].val = comment_count[q] + 1
    BY <2>1, <2>2 DEF ThreadInv, CreateOK
  <2>5. Thread(p)' = IF p = q THEN Thread(p) \cup {r} ELSE Thread(p)
    BY <1>2, <2>2, <2>3 DEF Thread
  <2>6. r \notin Thread(p) /\ IsFiniteSet(Thread(p)) /\ Cardinality(Thread(p)) \in Nat
    BY <1>1, <2>3, ThreadsFinite DEF Thread
  <2>7. Cardinality(Thread(p) \cup {r}) = Cardinality(Thread(p)) + 1
    BY <2>6, FS_AddElement
  <2>8. comment_count'[p] = IF p = q THEN comment_count[p] + 1 ELSE comment_count[p]
    BY <1>1, <2>2, <2>4
  <2>9. comment_count[p] \in Nat
    BY <1>1
  <2>10. QED
    BY <2>5, <2>6, <2>7, <2>8, <2>9 DEF Drift
<1>5. CASE CommitDeletePost(r)
  <2>1. PICK q : q = job[r].item
    OBVIOUS
  <2>2. CASE ~Holds(r, Delete(PostRow(q)))
    BY <1>3, <1>5, <2>1, <2>2 DEF CommitDeletePost
  <2>3. CASE Holds(r, Delete(PostRow(q)))
    <3>1. /\ posts' = posts \ {q} /\ comments' = comments \ Doomed(r)
          /\ UNCHANGED comment_count /\ pc[r] = "CommitDeletePost"
      BY <1>5, <2>1, <2>3 DEF CommitDeletePost
    <3>2. Doomed(r) \subseteq Thread(q)
      BY <2>1, <3>1 DEF ThreadInv, PurgeOK
    <3>3. Thread(p)' = Thread(p)
      BY <1>2, <3>1, <3>2 DEF Thread
    <3>4. QED
      BY <3>1, <3>3 DEF Drift
  <2>4. QED
    BY <2>2, <2>3
<1>6. QED
  BY <1>3, <1>4, <1>5, CommentWriters

\* A step of a request is a move, or the beginning of a call.
LEMMA StepsMove ==
  ASSUME LikeInv, NEW r \in Requests, Start(r) \/ Step(r) \/ Timeout(r) \/ DeadlockVictim(r)
  PROVE  Moves(r) \/ (pc[r] = "idle" /\ Keeps(r))
<1>0. TypeInv
  BY DEF LikeInv
<1>1. CASE Start(r)
  BY <1>1, Starts
<1>2. CASE LikeStep(r)
  <2>1. CASE CommitLike(r)
    <3>1. InFlight(r) /\ Committed(r)
      BY <2>1 DEF CommitLike, InFlight
    <3>2. QED
      BY <1>0, <3>1, CommittedMoves
  <2>2. CASE ~CommitLike(r)
    BY <1>0, <1>2, <2>2, LikeStatementFrame
  <2>3. QED
    BY <2>1, <2>2
<1>3. CASE CommentStep(r) \/ CollectionStep(r) \/ PostStep(r)
  BY <1>0, <1>3, CommentStepFrame, CollectionStepFrame, PostStepFrame
<1>4. CASE Timeout(r) \/ DeadlockVictim(r)
  BY <1>0, <1>4, RollbackMoves DEF Timeout, DeadlockVictim
<1>5. QED
  BY <1>1, <1>2, <1>3, <1>4 DEF Step

\* posts.comment_count of a live post parts from the comments, or comes back
\* to them, only when the deletion of a comment commits its recount: Create
\* counts under the row lock of the post, and a purge spares other posts.
THEOREM DriftsByRecountOnly == Spec => DriftOnlyByRecount
<1>1. Init => ThreadInv
  BY InitThreads
<1>2. ThreadInv /\ [Next]_vars => ThreadInv'
  BY ThreadPreserved
<1>3. ThreadInv /\ [Next]_vars => [DriftNeedsRecount]_vars
  <2> SUFFICES ASSUME ThreadInv, Next, ~UNCHANGED vars, NEW p \in posts \cap posts',
                      Drift(p)' # Drift(p)
               PROVE  Recounts
    BY DEF DriftNeedsRecount
  <2>1. PICK r \in Requests : Start(r) \/ Step(r) \/ Timeout(r) \/ DeadlockVictim(r)
    BY DEF Next, Quiet
  <2>2. CommitDeleteComment(r)
    BY <2>1, StepsMove, DriftSteps DEF ThreadInv
  <2>3. pc[r] = "CommitDeleteComment" /\ pc'[r] = "done"
    BY <2>2 DEF CommitDeleteComment, Committed, Close, ThreadInv, LikeInv, TypeInv, TypeOK, ControlOK
  <2>4. QED
    BY <2>3 DEF Recounts
<1>4. QED
  BY <1>1, <1>2, <1>3, PTL DEF Spec, DriftOnlyByRecount

-----------------------------------------------------------------------------
(* Refinement: the like handlers mark atomically *)

LikesSeen == <<posts \cup comments, likes, Shown(like_count, Targets)>>

\* A step that leaves these tables alone is a stutter of the abstract marking.
LEMMA LikesUnseen ==
  ASSUME UNCHANGED <<posts, comments, likes, like_count>>
  PROVE  UNCHANGED LikesSeen
BY DEF LikesSeen, Shown, Live

\* The commit of a vote marks or unmarks the target, or changes nothing.
LEMMA CommitLikeMarks ==
  ASSUME AnswerInv, NEW r \in Requests, CommitLike(r)
  PROVE  UNCHANGED LikesSeen \/ LikeReactions!Next
<1>0. PICK u, t : u = job[r].user /\ t = job[r].item
  OBVIOUS
<1>1. /\ TypeInv /\ LikeInv /\ ThreadInv /\ pc[r] = "CommitLike" /\ pc[r] \in LikeSteps /\ InFlight(r)
      /\ work[r] \in Work /\ CountsOK /\ VoteOK(r) /\ like_count \in [Targets -> Nat]
      /\ UNCHANGED <<posts, comments>>
  BY DEF CommitLike, InFlight, LikeSteps, AnswerInv, ShelfInv, ThreadInv, LikeInv, TypeInv, TypeOK,
         ControlOK, TablesOK
<1>2. CASE work[r].rows = 0
  BY <1>1, <1>2, CommitLikeCounts, LikesUnseen
<1>3. CASE work[r].rows = 1
  <2>1. HoldsLike(r) /\ HoldsTarget(r)
    BY <1>1, <1>3, CommitLikeCounts
  <2>2. Live(t)
    BY <1>0, <1>1, <2>1, TargetLive
  <2>3. u \in Users /\ t \in Targets
    BY <1>0, <1>1, Inputs DEF TypeInv, TypeOK, ControlOK, Fits, LikeOps, Targets
  <2>4. /\ likes' = IF Adding(r) THEN likes \cup {<<u, t>>} ELSE likes \ {<<u, t>>}
        /\ like_count' = [like_count EXCEPT ![t] = NewLikeCount(r)]
        /\ <<u, t>> \in likes <=> ~Adding(r)
    <3>1. work[r].val = NewLikeCount(r) /\ (Liked(r) \in likes <=> ~Adding(r))
      BY <1>1, <1>3, <2>1 DEF VoteOK
    <3>2. likes' = IF Adding(r) THEN likes \cup {Liked(r)} ELSE likes \ {Liked(r)}
      BY <1>3 DEF CommitLike
    <3>3. like_count' = [like_count EXCEPT ![t] = work[r].val]
      BY <1>0, <2>1 DEF CommitLike, HoldsTarget
    <3>4. QED
      BY <1>0, <3>1, <3>2, <3>3 DEF Liked
  <2>5. Shown(like_count, Targets)' = [Shown(like_count, Targets) EXCEPT ![t] = NewLikeCount(r)]
    BY <1>1, <2>2, <2>3, <2>4 DEF Shown, Live
  <2>6. Shown(like_count, Targets)[t] = like_count[t]
    BY <2>2, <2>3 DEF Shown
  <2>7. CASE Adding(r)
    <3>1. NewLikeCount(r) = like_count[t] + 1
      BY <1>0, <2>7 DEF NewLikeCount
    <3>2. LikeReactions!Mark(u, t)
      BY <1>1, <2>2, <2>4, <2>5, <2>6, <2>7, <3>1 DEF LikeReactions!Mark, Live
    <3>3. QED
      BY <2>3, <3>2 DEF LikeReactions!Next
  <2>8. CASE ~Adding(r)
    <3>1. u \in Likers(t)
      BY <2>3, <2>4, <2>8 DEF Likers
    <3>2. Cardinality(Likers(t)) # 0
      BY <3>1, LikersFinite, FS_EmptySet
    <3>3. like_count[t] \in Nat /\ like_count[t] = Cardinality(Likers(t))
      BY <1>1, <2>3 DEF CountsOK
    <3>4. NewLikeCount(r) = like_count[t] - 1
      BY <1>0, <2>8, <3>2, <3>3 DEF NewLikeCount
    <3>5. LikeReactions!Unmark(u, t)
      BY <1>1, <2>2, <2>4, <2>5, <2>6, <2>8, <3>4 DEF LikeReactions!Unmark, Live
    <3>6. QED
      BY <2>3, <3>5 DEF LikeReactions!Next
  <2>9. QED
    BY <2>7, <2>8
<1>4. QED
  BY <1>1, <1>2, <1>3 DEF Work

\* Only these commits write likes, the rows they are about, or their counters.
LEMMA LikeWriters ==
  ASSUME LikeInv, NEW r \in Requests, Start(r) \/ Step(r) \/ Timeout(r) \/ DeadlockVictim(r),
         ~CommitLike(r), ~CommitComment(r), ~CommitDeleteComment(r), ~CommitDeletePost(r)
  PROVE  UNCHANGED <<posts, comments, likes, like_count>>
<1>1. CASE Start(r)
  BY <1>1, Starts DEF tables
<1>2. CASE LikeStep(r)
  BY <1>2, LikeStatementFrame DEF LikeInv, tables
<1>3. CASE CommentStep(r)
  BY <1>3 DEF CommentStep, LookupThread, InsertComment, BumpComments, LoadAuthor, LookupComment,
     DeleteCommentRow, CascadeReplies, SnapshotCount, RecountComments, Goto, Rollback, tables
<1>4. CASE CollectionStep(r)
  BY <1>4, CollectionStepFrame DEF LikeInv
<1>5. CASE PostStep(r)
  BY <1>5 DEF PostStep, LookupOwn, DeletePostRow, CascadePost, Goto, Rollback, tables
<1>6. CASE Timeout(r) \/ DeadlockVictim(r)
  BY <1>6 DEF Timeout, DeadlockVictim, Rollback, tables
<1>7. QED
  BY <1>1, <1>2, <1>3, <1>4, <1>5, <1>6 DEF Step

\* A comment appears without likes: nobody could name it before.
LEMMA CommitCommentAppears ==
  ASSUME AnswerInv, NEW r \in Requests, CommitComment(r)
  PROVE  LikeReactions!Next
<1>1. /\ TypeInv /\ CountsOK /\ VotesWritten /\ pc[r] = "CommitComment"
      /\ comments' = comments \cup {r} /\ UNCHANGED <<posts, likes, like_count>>
      /\ posts \subseteq Posts /\ r \in Targets \ posts
  BY StoreAssumption DEF CommitComment, AnswerInv, ShelfInv, ThreadInv, LikeInv, TypeInv, TypeOK,
     TablesOK, Targets, CommentIds
<1>2. ~Written(r)
  BY <1>1 DEF Written
<1>3. r \notin comments /\ Likers(r) = {}
  BY <1>1, <1>2 DEF TypeInv, NamesWritten, VotesWritten, Likers
<1>4. like_count[r] = 0
  BY <1>1, <1>3, FS_EmptySet DEF CountsOK
<1>5. Shown(like_count, Targets)' = Shown(like_count, Targets)
  BY <1>1, <1>3, <1>4 DEF Shown, Live
<1>6. LikeReactions!Appear(r)
  BY <1>1, <1>3, <1>5 DEF LikeReactions!Appear, LikeReactions!MarksOf, Likers
<1>7. QED
  BY <1>1, <1>6 DEF LikeReactions!Next

\* Rows that go leave their likes behind and show no count any more.
LEMMA DeletionsVanish ==
  ASSUME TypeInv, NEW S \in SUBSET (posts \cup comments),
         posts' \cup comments' = (posts \cup comments) \ S, UNCHANGED <<likes, like_count>>
  PROVE  LikeReactions!Next
<1>1. Shown(like_count, Targets)' =
        [t \in Targets |-> IF t \in S THEN 0 ELSE Shown(like_count, Targets)[t]]
  BY DEF Shown, Live
<1>2. LikeReactions!Vanish(S)
  BY <1>1 DEF LikeReactions!Vanish
<1>3. QED
  BY <1>2 DEF LikeReactions!Next

\* So a deletion is an abstract one, of the rows it has doomed.
LEMMA CommitDeletionsVanish ==
  ASSUME AnswerInv, NEW r \in Requests, CommitDeleteComment(r) \/ CommitDeletePost(r)
  PROVE  UNCHANGED LikesSeen \/ LikeReactions!Next
<1>0. PICK p : p = job[r].item
  OBVIOUS
<1>1. TypeInv /\ posts \subseteq Posts /\ comments \subseteq CommentIds /\ RowsLive
  BY DEF AnswerInv, ShelfInv, ThreadInv, LikeInv, TypeInv, TypeOK, TablesOK
<1>2. Doomed(r) \subseteq comments
  BY DEF Doomed
<1>3. \A x \in posts : x \notin comments
  BY <1>1, StoreAssumption
<1>4. CASE CommitDeleteComment(r)
  <2>1. /\ comments' = comments \ Doomed(r) /\ UNCHANGED <<posts, likes, like_count>>
    BY <1>4 DEF CommitDeleteComment
  <2>2. QED
    BY <1>1, <1>2, <1>3, <2>1, DeletionsVanish
<1>5. CASE CommitDeletePost(r)
  <2>1. UNCHANGED <<likes, like_count>>
    BY <1>5 DEF CommitDeletePost
  <2>2. CASE UNCHANGED <<posts, comments>>
    BY <2>1, <2>2, LikesUnseen
  <2>3. CASE p \in posts /\ posts' = posts \ {p} /\ comments' = comments \ Doomed(r)
    <3>1. posts' \cup comments' = (posts \cup comments) \ ({p} \cup Doomed(r))
      BY <1>2, <1>3, <2>3
    <3>2. QED
      BY <1>1, <1>2, <2>1, <2>3, <3>1, DeletionsVanish
  <2>4. QED
    BY <1>0, <1>5, <2>2, <2>3, CommitPurgeWrites DEF AnswerInv
<1>6. QED
  BY <1>4, <1>5

\* The likes there are at the start are those of the abstract marking.
LEMMA LikesBegin == Init => LikeReactions!Init
<1> SUFFICES ASSUME Init PROVE LikeReactions!Init
  OBVIOUS
<1>1. /\ posts = Posts /\ comments = OldComments /\ likes = OldLikes
      /\ like_count = [t \in Targets |-> Cardinality({u \in Users : <<u, t>> \in OldLikes})]
  BY DEF Init, StoreInit
<1>2. \A t \in Targets : ~Live(t) => {u \in Users : <<u, t>> \in OldLikes} = {}
  BY <1>1, StoreAssumption DEF Live
<1>3. Shown(like_count, Targets) = [t \in Targets |-> Cardinality({u \in Users : <<u, t>> \in likes})]
  BY <1>1, <1>2, FS_EmptySet DEF Shown
<1>4. posts \cup comments \subseteq Targets /\ likes \subseteq Users \X (posts \cup comments)
  BY <1>1, StoreAssumption DEF Targets, CommentIds
<1>5. \A t : LikeReactions!MarksOf(t) = {u \in Users : <<u, t>> \in likes}
  BY DEF LikeReactions!MarksOf
<1>6. Shown(like_count, Targets) = [t \in Targets |-> Cardinality(LikeReactions!MarksOf(t))]
  BY <1>3, <1>5, Zenon
<1>7. \A S : LikeReactions!Cardinality(S) = Cardinality(S)
  BY DEF LikeReactions!Cardinality, Cardinality
<1>8. QED
  BY <1>4, <1>6, <1>7, Zenon DEF LikeReactions!Init

\* Every step of the system is a step of the abstract marking, or a stutter.
LEMMA LikeStepsMark ==
  ASSUME AnswerInv, [Next]_vars
  PROVE  UNCHANGED LikesSeen \/ LikeReactions!Next
<1>1. CASE UNCHANGED vars
  BY <1>1, LikesUnseen DEF vars, tables
<1>2. ASSUME NEW r \in Requests, Start(r) \/ Step(r) \/ Timeout(r) \/ DeadlockVictim(r)
      PROVE  UNCHANGED LikesSeen \/ LikeReactions!Next
  BY <1>2, LikeWriters, LikesUnseen, CommitLikeMarks, CommitCommentAppears, CommitDeletionsVanish
     DEF AnswerInv, ShelfInv, ThreadInv
<1>3. QED
  BY <1>1, <1>2 DEF Next, Quiet

-----------------------------------------------------------------------------
(* Refinement: so do the collection handlers *)

CollectionsSeen == <<posts, collections, Shown(collect_count, Posts)>>

\* Of posts, the live ones are those of the table.
LEMMA LivePosts ==
  ASSUME TypeInv
  PROVE  /\ posts \subseteq Posts /\ collections \subseteq Users \X Posts
         /\ collect_count \in [Posts -> Nat]
         /\ Shown(collect_count, Posts) = [p \in Posts |-> IF p \in posts THEN collect_count[p] ELSE 0]
<1>1. /\ posts \subseteq Posts /\ comments \subseteq CommentIds /\ collections \subseteq Users \X Posts
      /\ collect_count \in [Posts -> Nat]
  BY DEF TypeInv, TypeOK, TablesOK
<1>2. \A p \in Posts : Live(p) <=> p \in posts
  BY <1>1, StoreAssumption DEF Live
<1>3. QED
  BY <1>1, <1>2 DEF Shown

\* A step that leaves these tables alone is a stutter of the abstract marking.
LEMMA CollectionsUnseen ==
  ASSUME TypeInv, TypeInv', UNCHANGED <<posts, collections, collect_count>>
  PROVE  UNCHANGED CollectionsSeen
<1>1. \A p \in Posts : Live(p) <=> p \in posts
  BY StoreAssumption DEF Live, TypeInv, TypeOK, TablesOK
<1>2. \A p \in Posts : Live(p)' <=> p \in posts'
  BY StoreAssumption DEF Live, TypeInv, TypeOK, TablesOK
<1>3. QED
  BY <1>1, <1>2 DEF CollectionsSeen, Shown

\* The commit of Collect or Uncollect marks or unmarks the post, or changes nothing.
LEMMA CommitCollectionMarks ==
  ASSUME ShelfInv, TypeInv', NEW r \in Requests, CommitCollection(r)
  PROVE  UNCHANGED CollectionsSeen \/ CollectReactions!Next
<1>0. PICK u, p : u = job[r].user /\ p = job[r].item
  OBVIOUS
<1>1. /\ TypeInv /\ work[r] \in Work /\ posts \subseteq Posts /\ comments \subseteq CommentIds
      /\ collect_count \in [Posts -> Nat] /\ CollectCountExact
      /\ UNCHANGED <<posts, comments>>
  BY DEF CommitCollection, ShelfInv, ThreadInv, LikeInv, TypeInv, TypeOK, TablesOK, ControlOK
<1>2. CASE work[r].rows = 0
  BY <1>1, <1>2, CollectionsUnseen DEF CommitCollection
<1>3. CASE work[r].rows = 1
  <2>1. /\ <<u, p>> \in Users \X Posts /\ p \in posts
        /\ Collecting(r) => <<u, p>> \notin collections
        /\ ~Collecting(r) => <<u, p>> \in collections
        /\ \A q \in Posts : collect_count'[q] = IF q = p THEN NewCollectCount(r) ELSE collect_count[q]
    BY <1>0, <1>3, CommitCollectionWrites DEF Collected
  <2>2. collections' = IF Collecting(r) THEN collections \cup {<<u, p>>} ELSE collections \ {<<u, p>>}
    BY <1>0, <1>3 DEF CommitCollection, Collected
  <2>3. Shown(collect_count, Posts)' = [Shown(collect_count, Posts) EXCEPT ![p] = NewCollectCount(r)]
    BY <1>1, <2>1 DEF Shown, Live
  <2>4. Shown(collect_count, Posts)[p] = collect_count[p]
    BY <1>1, <2>1 DEF Shown, Live
  <2>5. CASE Collecting(r)
    <3>1. NewCollectCount(r) = collect_count[p] + 1
      BY <1>0, <2>5 DEF NewCollectCount
    <3>2. CollectReactions!Mark(u, p)
      BY <1>1, <2>1, <2>2, <2>3, <2>4, <2>5, <3>1 DEF CollectReactions!Mark
    <3>3. QED
      BY <2>1, <3>2 DEF CollectReactions!Next
  <2>6. CASE ~Collecting(r)
    <3>1. u \in Collectors(p)
      BY <2>1, <2>6 DEF Collectors
    <3>2. Cardinality(Collectors(p)) # 0
      BY <3>1, CollectorsFinite, FS_EmptySet
    <3>3. collect_count[p] \in Nat /\ collect_count[p] = Cardinality(Collectors(p))
      BY <1>1, <2>1 DEF CollectCountExact
    <3>4. NewCollectCount(r) = collect_count[p] - 1
      BY <1>0, <2>6, <3>2, <3>3 DEF NewCollectCount
    <3>5. CollectReactions!Unmark(u, p)
      BY <1>1, <2>1, <2>2, <2>3, <2>4, <2>6, <3>4 DEF CollectReactions!Unmark
    <3>6. QED
      BY <2>1, <3>5 DEF CollectReactions!Next
  <2>7. QED
    BY <2>5, <2>6
<1>4. QED
  BY <1>1, <1>2, <1>3 DEF Work

\* The deletion of a post takes its collections along.
LEMMA CommitPurgeVanishes ==
  ASSUME ShelfInv, TypeInv', NEW r \in Requests, CommitDeletePost(r)
  PROVE  UNCHANGED CollectionsSeen \/ CollectReactions!Next
<1>0. PICK p : p = job[r].item
  OBVIOUS
<1>1. /\ TypeInv /\ posts \subseteq Posts /\ comments \subseteq CommentIds
      /\ comments' \subseteq CommentIds
      /\ collect_count \in [Posts -> Nat] /\ UNCHANGED collect_count
  BY DEF CommitDeletePost, ShelfInv, ThreadInv, LikeInv, TypeInv, TypeOK, TablesOK
<1>2. CASE UNCHANGED <<posts, collections>>
  BY <1>1, <1>2, CollectionsUnseen
<1>3. CASE /\ p \in posts /\ posts' = posts \ {p}
           /\ collections' = {k \in collections : k[2] # p}
  <2>1. \A q \in Posts : Live(q) <=> q \in posts
    BY <1>1, StoreAssumption DEF Live
  <2>2. \A q \in Posts : Live(q)' <=> q \in posts'
    BY <1>1, StoreAssumption DEF Live
  <2>3. Shown(collect_count, Posts)' =
          [q \in Posts |-> IF q \in {p} THEN 0 ELSE Shown(collect_count, Posts)[q]]
    BY <1>1, <1>3, <2>1, <2>2 DEF Shown
  <2>4. collections' = {m \in collections : m[2] \notin {p}}
    BY <1>3
  <2>5. CollectReactions!Vanish({p})
    BY <1>3, <2>3, <2>4 DEF CollectReactions!Vanish
  <2>6. QED
    BY <1>3, <2>5 DEF CollectReactions!Next
<1>4. QED
  BY <1>0, <1>2, <1>3, CommitPurgeWrites

\* The collections there are at the start are those of the abstract marking.
LEMMA CollectionsBegin == Init => CollectReactions!Init
<1> SUFFICES ASSUME Init PROVE CollectReactions!Init
  OBVIOUS
<1>1. /\ posts = Posts /\ collections = OldCollections
      /\ collect_count = [p \in Posts |-> Cardinality({u \in Users : <<u, p>> \in OldCollections})]
  BY DEF Init, StoreInit
<1>2. Shown(collect_count, Posts) =
        [p \in Posts |-> Cardinality({u \in Users : <<u, p>> \in collections})]
  BY <1>1 DEF Shown, Live
<1>3. posts \subseteq Posts /\ collections \subseteq Users \X posts
  BY <1>1, StoreAssumption
<1>4. \A p : CollectReactions!MarksOf(p) = {u \in Users : <<u, p>> \in collections}
  BY DEF CollectReactions!MarksOf
<1>5. Shown(collect_count, Posts) = [p \in Posts |-> Cardinality(CollectReactions!MarksOf(p))]
  BY <1>2, <1>4, Zenon
<1>6. \A S : CollectReactions!Cardinality(S) = Cardinality(S)
  BY DEF CollectReactions!Cardinality, Cardinality
<1>7. QED
  BY <1>3, <1>5, <1>6, Zenon DEF CollectReactions!Init

\* Only these commits write collections, posts or the counter.
LEMMA CollectionWriters ==
  ASSUME LikeInv, NEW r \in Requests, Start(r) \/ Step(r) \/ Timeout(r) \/ DeadlockVictim(r),
         ~CommitCollection(r), ~CommitDeletePost(r)
  PROVE  UNCHANGED <<posts, collections, collect_count>>
<1>1. CASE Start(r)
  BY <1>1, Starts DEF tables
<1>2. CASE LikeStep(r)
  <2>1. CASE CommitLike(r)
    BY <2>1 DEF CommitLike
  <2>2. CASE ~CommitLike(r)
    BY <1>2, <2>2, LikeStatementFrame DEF LikeInv, tables
  <2>3. QED
    BY <2>1, <2>2
<1>3. CASE CommentStep(r)
  BY <1>3 DEF CommentStep, LookupThread, InsertComment, BumpComments, CommitComment, LoadAuthor,
     LookupComment, DeleteCommentRow, CascadeReplies, SnapshotCount, RecountComments,
     CommitDeleteComment, Goto, Rollback, tables
<1>4. CASE CollectionStep(r)
  BY <1>4 DEF CollectionStep, LookupShelf, AddCollection, RemoveCollection, BumpCollects, ReadShelf,
     DeleteFolderRow, CascadeUnfile, CommitDeleteFolder, Goto, Rollback, tables
<1>5. CASE PostStep(r)
  BY <1>5 DEF PostStep, LookupOwn, DeletePostRow, CascadePost, Goto, Rollback, tables
<1>6. CASE Timeout(r) \/ DeadlockVictim(r)
  BY <1>6 DEF Timeout, DeadlockVictim, Rollback, tables
<1>7. QED
  BY <1>1, <1>2, <1>3, <1>4, <1>5, <1>6 DEF Step

\* Every step of the system is a step of the abstract collecting, or a stutter.
LEMMA CollectionStepsMark ==
  ASSUME AnswerInv, AnswerInv', [Next]_vars
  PROVE  UNCHANGED CollectionsSeen \/ CollectReactions!Next
<1>1. TypeInv /\ TypeInv' /\ LikeInv /\ ShelfInv
  BY DEF AnswerInv, ShelfInv, ThreadInv, LikeInv
<1>2. CASE UNCHANGED vars
  BY <1>1, <1>2, CollectionsUnseen DEF vars, tables
<1>3. ASSUME NEW r \in Requests, Start(r) \/ Step(r) \/ Timeout(r) \/ DeadlockVictim(r)
      PROVE  UNCHANGED CollectionsSeen \/ CollectReactions!Next
  BY <1>1, <1>3, CollectionWriters, CollectionsUnseen, CommitCollectionMarks, CommitPurgeVanishes
<1>4. QED
  BY <1>2, <1>3 DEF Next, Quiet

\* Statement by statement, under locks, rollbacks and deletions, the like
\* handlers implement atomic marking, and so do the collection handlers.
THEOREM VotesRefine == Spec => VotesAreReactions
<1>1. Init => AnswerInv
  BY InitAnswers
<1>2. AnswerInv /\ [Next]_vars => AnswerInv'
  BY AnswerPreserved
<1>3. Init => LikeReactions!Init /\ CollectReactions!Init
  BY LikesBegin, CollectionsBegin
<1>4. AnswerInv /\ [Next]_vars => UNCHANGED LikesSeen \/ LikeReactions!Next
  BY LikeStepsMark
<1>5. AnswerInv /\ AnswerInv' /\ [Next]_vars => UNCHANGED CollectionsSeen \/ CollectReactions!Next
  BY CollectionStepsMark
<1>6. QED
  BY <1>1, <1>2, <1>3, <1>4, <1>5, PTL
     DEF Spec, VotesAreReactions, LikeReactions!Spec, CollectReactions!Spec, LikesSeen,
         CollectionsSeen

-----------------------------------------------------------------------------
(* Deadlocks: DeadlockNeedsPostDeletion *)

\* The requests r waits for, directly or through others.
Reach(r) ==
  {s \in Requests : \A S \in SUBSET Requests :
     (WaitsFor(r) \subseteq S /\ \A t \in S : WaitsFor(t) \subseteq S) => s \in S}

\* Nobody waits for a stranger or for itself.
LEMMA WaitsForOthers ==
  ASSUME NEW r \in Requests
  PROVE  WaitsFor(r) \subseteq Requests \ {r}
BY DEF WaitsFor, Blockers

\* They are the least set that holds those r waits for and is closed under
\* waiting, and a request is on a cycle when it waits for itself through others.
LEMMA ReachClosed ==
  ASSUME NEW r \in Requests
  PROVE  /\ Reach(r) \subseteq Requests
         /\ WaitsFor(r) \subseteq Reach(r)
         /\ \A t \in Reach(r) : WaitsFor(t) \subseteq Reach(r)
         /\ OnCycle(r) <=> r \in Reach(r)
<1>1. WaitsFor(r) \subseteq Reach(r)
  BY WaitsForOthers DEF Reach
<1>2. ASSUME NEW t \in Reach(r), NEW s \in WaitsFor(t)
      PROVE  s \in Reach(r)
  <2>1. t \in Requests /\ s \in Requests
    BY <1>2, WaitsForOthers DEF Reach
  <2>2. ASSUME NEW S \in SUBSET Requests, WaitsFor(r) \subseteq S,
               \A q \in S : WaitsFor(q) \subseteq S
        PROVE  s \in S
    BY <1>2, <2>2 DEF Reach
  <2>3. QED
    BY <2>1, <2>2 DEF Reach
<1>3. OnCycle(r) <=> r \in Reach(r)
  BY DEF OnCycle, Reach
<1>4. QED
  BY <1>1, <1>2, <1>3 DEF Reach

LEMMA ReachLeast ==
  ASSUME NEW r \in Requests, NEW S \in SUBSET Requests, WaitsFor(r) \subseteq S,
         \A t \in S : WaitsFor(t) \subseteq S
  PROVE  Reach(r) \subseteq S
BY DEF Reach

\* Whom a request reaches, those reach no more.
LEMMA ReachMore ==
  ASSUME NEW r \in Requests, NEW s \in Reach(r)
  PROVE  s \in Requests /\ Reach(s) \subseteq Reach(r)
<1>1. /\ Reach(r) \in SUBSET Requests /\ WaitsFor(s) \subseteq Reach(r)
      /\ \A t \in Reach(r) : WaitsFor(t) \subseteq Reach(r)
  BY ReachClosed
<1>2. s \in Requests
  BY <1>1
<1>3. QED
  BY <1>1, <1>2, ReachLeast

\* A request on a cycle waits for one on a cycle.
LEMMA CycleGoesOn ==
  ASSUME NEW s \in Requests, OnCycle(s)
  PROVE  \E t \in WaitsFor(s) : OnCycle(t)
<1> DEFINE S == WaitsFor(s) \cup UNION {Reach(t) : t \in WaitsFor(s)}
<1>1. S \in SUBSET Requests /\ WaitsFor(s) \subseteq S
  BY WaitsForOthers, ReachClosed
<1>2. \A t \in S : WaitsFor(t) \subseteq S
  BY WaitsForOthers, ReachClosed
<1>3. Reach(s) \subseteq S
  BY <1>1, <1>2, ReachLeast
<1>4. PICK t \in WaitsFor(s) : s \in Reach(t)
  BY <1>3, ReachClosed, WaitsForOthers
<1>5. t \in Requests /\ t \in Reach(s)
  BY ReachClosed, WaitsForOthers
<1>6. Reach(s) \subseteq Reach(t)
  BY <1>4, <1>5, ReachMore
<1>7. QED
  BY <1>5, <1>6, ReachClosed

\* And one on a cycle waits for it.
LEMMA CycleComesFrom ==
  ASSUME NEW s \in Requests, OnCycle(s)
  PROVE  \E u \in Requests : OnCycle(u) /\ s \in WaitsFor(u)
<1>1. WaitsFor(s) \subseteq Reach(s) \ {s} /\ Reach(s) \subseteq Requests
  BY ReachClosed, WaitsForOthers
<1>2. ~(\A t \in Reach(s) \ {s} : WaitsFor(t) \subseteq Reach(s) \ {s})
  <2>1. SUFFICES ASSUME \A t \in Reach(s) \ {s} : WaitsFor(t) \subseteq Reach(s) \ {s}
                 PROVE  FALSE
    OBVIOUS
  <2>2. Reach(s) \ {s} \in SUBSET Requests
    BY <1>1
  <2>3. Reach(s) \subseteq Reach(s) \ {s}
    BY <1>1, <2>1, <2>2, ReachLeast
  <2>4. QED
    BY <2>3, ReachClosed
<1>3. PICK u \in Reach(s) \ {s} : s \in WaitsFor(u)
  BY <1>2, ReachClosed
<1>4. u \in Requests /\ s \in Reach(u)
  BY <1>1, <1>3, ReachClosed
<1>5. u \in Reach(u)
  BY <1>3, <1>4, ReachMore
<1>6. QED
  BY <1>3, <1>4, <1>5, ReachClosed

\* What the statements that can be waited for while they wait ask for.
LEMMA Wanted ==
  ASSUME NEW r \in Requests
  PROVE  /\ pc[r] = "BumpLikes" => Demand(r) \subseteq {Update(TargetRow(job[r].item))}
         /\ pc[r] = "NotifyLiked" => Demand(r) = NotifyLikedLocks(r)
         /\ pc[r] = "BumpComments" => Demand(r) = {Update(PostRow(job[r].item))}
         /\ pc[r] = "CascadeReplies" =>
              Demand(r) = {Delete(CommentRow(c)) : c \in RepliesLeft(r)}
         /\ pc[r] = "RecountComments" => Demand(r) = RecountCommentsLocks(r)
         /\ pc[r] = "BumpCollects" => Demand(r) \subseteq {Update(PostRow(job[r].item))}
         /\ pc[r] = "CascadeUnfile" => Demand(r) = CascadeUnfileLocks(r)
<1>1. /\ pc[r] \in {"BumpLikes", "NotifyLiked"} => Demand(r) = LikeDemand(r)
      /\ pc[r] \in {"BumpComments", "CascadeReplies", "RecountComments"} =>
           Demand(r) = CommentDemand(r)
      /\ pc[r] \in {"BumpCollects", "CascadeUnfile"} => Demand(r) = CollectionDemand(r)
  BY DEF Demand, LikeDemand, CommentDemand, CollectionDemand, PostDemand
<1>2. /\ pc[r] = "BumpLikes" => LikeDemand(r) = BumpLikesLocks(r)
      /\ pc[r] = "NotifyLiked" => LikeDemand(r) = NotifyLikedLocks(r)
      /\ pc[r] = "BumpComments" => CommentDemand(r) = BumpCommentsLocks(r)
      /\ pc[r] = "CascadeReplies" => CommentDemand(r) = CascadeRepliesLocks(r)
      /\ pc[r] = "RecountComments" => CommentDemand(r) = RecountCommentsLocks(r)
      /\ pc[r] = "BumpCollects" => CollectionDemand(r) = BumpCollectsLocks(r)
      /\ pc[r] = "CascadeUnfile" => CollectionDemand(r) = CascadeUnfileLocks(r)
  BY DEF LikeDemand, CommentDemand, CollectionDemand
<1>3. QED
  BY <1>1, <1>2
     DEF BumpLikesLocks, BumpCommentsLocks, CascadeRepliesLocks, BumpCollectsLocks

\* Who waits, waits for a lock the other one holds and may hold.
LEMMA WaitsForHolder ==
  ASSUME TypeInv, LocksFit, NEW s \in Requests, NEW t \in WaitsFor(s)
  PROVE  \E d \in Demand(s) : \E h \in MayHold(t) :
           Holds(t, h) /\ h.row = d.row /\ Conflict(h.mode, d.mode)
<1>1. PICK d \in Demand(s) : \E l \in locks :
        l.req = t /\ l.row = d.row /\ Conflict(l.mode, d.mode)
  BY DEF WaitsFor, Blockers
<1>2. PICK l \in locks : l.req = t /\ l.row = d.row /\ Conflict(l.mode, d.mode)
  BY <1>1
<1>3. [row |-> l.row, mode |-> l.mode] \in MayHold(t)
  BY <1>2 DEF LocksFit
<1>4. l = [req |-> t, row |-> l.row, mode |-> l.mode]
  BY <1>2 DEF TypeInv, TypeOK, ControlOK, LockType
<1>5. Holds(t, [row |-> l.row, mode |-> l.mode])
  BY <1>4 DEF Holds
<1>6. QED
  BY <1>2, <1>3, <1>5

\* The statements at which a request that deletes no post waits and holds.
WaitSteps ==
  {"BumpLikes", "NotifyLiked", "BumpComments", "CascadeReplies", "RecountComments",
   "BumpCollects", "CascadeUnfile"}

LEMMA CycleSteps ==
  ASSUME TypeInv, LocksFit, NEW s \in Requests, OnCycle(s), job[s].op # "DeletePost"
  PROVE  pc[s] \in WaitSteps
<1>1. PICK t \in WaitsFor(s) : OnCycle(t)
  BY CycleGoesOn
<1>2. Demand(s) # {}
  BY WaitsForHolder
<1>3. PICK u \in Requests : s \in WaitsFor(u)
  BY CycleComesFrom
<1>4. MayHold(s) # {}
  BY <1>3, WaitsForHolder
<1>5. pc[s] \notin PostSteps
  BY DEF TypeInv, TypeOK, ControlOK, Fits
<1>6. pc[s] \notin {"ReadLiked", "ReadTarget", "CommitLike", "CommitComment", "SnapshotCount",
                    "CommitDeleteComment", "ReadShelf", "CommitCollection", "CommitDeleteFolder"}
  BY <1>2 DEF Demand, LikeDemand, CommentDemand, CollectionDemand, PostDemand
<1>7. QED
  BY <1>4, <1>5, <1>6 DEF MayHold, Allowed, WaitSteps, PostSteps

\* Only a like that notifies has updated the row of a post and waits; and
\* nobody who waits has deleted one.
LEMMA PostHolders ==
  ASSUME NEW t \in Requests, pc[t] \in WaitSteps, NEW h \in MayHold(t), NEW p, h.row = PostRow(p)
  PROVE  /\ h.mode # "ForUpdate"
         /\ h.mode = "NoKeyUpdate" => pc[t] = "NotifyLiked"
<1>1. CASE pc[t] \in {"BumpLikes", "BumpComments", "BumpCollects", "NotifyLiked"}
  BY <1>1, LockKinds, RowsApart DEF MayHold, Allowed
<1>2. CASE pc[t] \in {"CascadeReplies", "RecountComments"}
  BY <1>2, LockKinds, RowsApart DEF MayHold, Allowed
<1>3. CASE pc[t] = "CascadeUnfile"
  BY <1>3, LockKinds, RowsApart DEF MayHold, Allowed
<1>4. QED
  BY <1>1, <1>2, <1>3 DEF WaitSteps

\* A like that waits to notify has locked its target.
LEMMA NotifierHolds ==
  ASSUME ThreadInv, NEW r \in Requests, pc[r] = "NotifyLiked"
  PROVE  HoldsTarget(r)
<1>1. VoteOK(r) /\ NoteOK(r)
  BY DEF ThreadInv, LikeInv, LikeSteps
<1>2. QED
  BY <1>1 DEF VoteOK, NoteOK, TargetRead

\* So it waits only for the deletion of a post.
LEMMA NotifierGoesOn ==
  ASSUME ThreadInv, NEW s \in Requests, pc[s] = "NotifyLiked", NEW t \in WaitsFor(s)
  PROVE  pc[t] \notin WaitSteps
<1> SUFFICES ASSUME pc[t] \in WaitSteps PROVE FALSE
  OBVIOUS
<1>1. TypeInv /\ LocksFit /\ LocksOK /\ t \in Requests \ {s}
  BY WaitsForOthers DEF ThreadInv, LikeInv
<1>2. PICK d \in NotifyLikedLocks(s), h \in MayHold(t) :
        Holds(t, h) /\ h.row = d.row /\ Conflict(h.mode, d.mode)
  BY <1>1, Wanted, WaitsForHolder
<1>3. h.mode = "ForUpdate"
  BY <1>2, LockKinds DEF NotifyLikedLocks, Conflict
<1>4. CASE d.row = PostRow(NoticePost(s))
  BY <1>1, <1>2, <1>3, <1>4, PostHolders
<1>5. CASE ~OnPost(s) /\ d.row = CommentRow(job[s].item)
  <2>1. CommentRow(job[s].item) = TargetRow(job[s].item)
    <3>1. /\ job[s].op \in PostLikeOps \cup CommentLikeOps
          /\ job[s].op \in CommentLikeOps => job[s].item \in CommentIds
      BY <1>1 DEF TypeInv, TypeOK, ControlOK, Fits, LikeSteps, LikeOps
    <3>2. job[s].item \notin Posts
      BY <1>5, <3>1, StoreAssumption DEF OnPost
    <3>3. QED
      BY <3>2 DEF TargetRow
  <2>2. Holds(t, Delete(TargetRow(job[s].item)))
    BY <1>2, <1>3, <1>5, <2>1, LockKinds DEF Holds
  <2>3. Pins(s, TargetRow(job[s].item))
    BY NotifierHolds DEF HoldsTarget, Pins
  <2>4. QED
    BY <1>1, <2>2, <2>3, Excludes
<1>6. QED
  BY <1>2, <1>4, <1>5, LockKinds DEF NotifyLikedLocks

\* A request that waits to count comments or collections waits for a like
\* that notifies.
LEMMA CounterGoesOn ==
  ASSUME ThreadInv, NEW s \in Requests,
         pc[s] \in {"BumpComments", "RecountComments", "BumpCollects"},
         NEW t \in WaitsFor(s), pc[t] \in WaitSteps
  PROVE  pc[t] = "NotifyLiked"
<1>1. TypeInv /\ LocksFit /\ t \in Requests \ {s}
  BY WaitsForOthers DEF ThreadInv, LikeInv
<1>2. PICK d \in Demand(s), h \in MayHold(t) : h.row = d.row /\ Conflict(h.mode, d.mode)
  BY <1>1, WaitsForHolder
<1>3. \E p : d = Update(PostRow(p))
  BY Wanted DEF RecountCommentsLocks
<1>4. PICK p : h.row = PostRow(p) /\ h.mode \in {"ForUpdate", "NoKeyUpdate"}
  BY <1>2, <1>3, LockKinds DEF Conflict
<1>5. QED
  BY <1>1, <1>4, PostHolders

\* Who waits while it holds waits for no vote, so that nobody waits for one
\* that is about to count.
LEMMA BumperComesFrom ==
  ASSUME ThreadInv, NEW t \in Requests, pc[t] = "BumpLikes",
         NEW s \in Requests, t \in WaitsFor(s)
  PROVE  pc[s] \notin WaitSteps
<1> SUFFICES ASSUME pc[s] \in WaitSteps PROVE FALSE
  OBVIOUS
<1>1. TypeInv /\ LocksFit
  BY DEF ThreadInv, LikeInv
<1>2. PICK d \in Demand(s), h \in MayHold(t) : h.row = d.row
  BY <1>1, WaitsForHolder
<1>3. h.row = LikeRow(job[t].user, job[t].item)
  BY <1>2, LockKinds DEF MayHold, Allowed
<1>4. \/ \E p : d.row = PostRow(p)
      \/ \E c : d.row = CommentRow(c)
      \/ \E u, p : d.row = CollectionRow(u, p)
  <2>1. CASE pc[s] \in {"BumpLikes", "BumpComments", "RecountComments", "BumpCollects"}
    <3>1. \E x : d = Update(PostRow(x)) \/ d = Update(TargetRow(x))
      BY <2>1, Wanted DEF RecountCommentsLocks
    <3>2. QED
      BY <3>1, LockKinds, RowsApart
  <2>2. CASE pc[s] = "NotifyLiked"
    BY <2>2, Wanted, LockKinds DEF NotifyLikedLocks
  <2>3. CASE pc[s] = "CascadeReplies"
    BY <2>3, Wanted, LockKinds
  <2>4. CASE pc[s] = "CascadeUnfile"
    BY <2>4, Wanted, LockKinds DEF CascadeUnfileLocks
  <2>5. QED
    BY <2>1, <2>2, <2>3, <2>4 DEF WaitSteps
<1>5. QED
  BY <1>2, <1>3, <1>4, RowsApart

\* The deletion of a folder waits for a collection that is about to count:
\* another one locks collections of another folder only.
LEMMA UnfilerGoesOn ==
  ASSUME ShelfInv, NEW s \in Requests, pc[s] = "CascadeUnfile",
         NEW t \in WaitsFor(s), pc[t] \in WaitSteps
  PROVE  pc[t] = "BumpCollects"
<1>1. TypeInv /\ LocksFit /\ LocksOK /\ t \in Requests \ {s}
  BY WaitsForOthers DEF ShelfInv, ThreadInv, LikeInv
<1>2. PICK d \in Demand(s), h \in MayHold(t) :
        Holds(t, h) /\ h.row = d.row /\ Conflict(h.mode, d.mode)
  BY <1>1, WaitsForHolder
<1>3. PICK k \in FiledLeft(s) : d = Update(CollectionRow(k[1], k[2]))
  BY Wanted DEF CascadeUnfileLocks
<1>4. h.row = CollectionRow(k[1], k[2])
  BY <1>2, <1>3, LockKinds
<1>5. CASE pc[t] = "CascadeUnfile"
  <2>1. \E m \in Users \X Posts : h = Update(CollectionRow(m[1], m[2]))
    BY <1>2, <1>4, <1>5, LockKinds, RowsApart DEF MayHold, Allowed
  <2>2. PICK m \in Users \X Posts : h = Update(CollectionRow(m[1], m[2]))
    BY <2>1
  <2>3. m[1] = k[1] /\ m[2] = k[2]
    BY <1>4, <2>2, LockKinds, RowsApart
  <2>4. k \in Users \X Posts /\ filed[k] = job[s].item
    BY <1>1 DEF FiledLeft, TypeInv, TypeOK, TablesOK
  <2>5. filed[m] = job[t].item
    BY <1>1, <1>2, <1>5, <2>2 DEF ShelfInv, FolderOK
  <2>6. job[s].item = job[t].item
    BY <2>3, <2>4, <2>5
  <2>7. Holds(s, Delete(FolderRow(job[s].item))) /\ Holds(t, Delete(FolderRow(job[t].item)))
    BY <1>1, <1>5 DEF ShelfInv, FolderOK
  <2>8. QED
    BY <1>1, <2>6, <2>7, Excludes DEF Pins
<1>6. CASE pc[t] # "CascadeUnfile"
  <2>1. pc[t] \in {"BumpLikes", "NotifyLiked", "BumpComments", "CascadeReplies",
                   "RecountComments", "BumpCollects"}
    BY <1>6 DEF WaitSteps
  <2>2. CASE pc[t] \in {"BumpLikes", "NotifyLiked", "BumpComments"}
    BY <1>2, <1>4, <2>2, LockKinds, RowsApart DEF MayHold, Allowed
  <2>3. CASE pc[t] \in {"CascadeReplies", "RecountComments"}
    BY <1>2, <1>4, <2>3, LockKinds, RowsApart DEF MayHold, Allowed
  <2>4. QED
    BY <2>1, <2>2, <2>3
<1>7. QED
  BY <1>5, <1>6

\* So a cycle without the deletion of a post is one of deletions of comments.
LEMMA CycleOfCascades ==
  ASSUME ShelfInv, \A q \in Requests : OnCycle(q) => job[q].op # "DeletePost",
         NEW s \in Requests, OnCycle(s)
  PROVE  pc[s] = "CascadeReplies"
<1>1. TypeInv /\ LocksFit /\ ThreadInv
  BY DEF ShelfInv, ThreadInv, LikeInv
<1>2. \A q \in Requests : OnCycle(q) => pc[q] \in WaitSteps
  BY <1>1, CycleSteps
<1>3. \A q \in Requests : OnCycle(q) => \E t \in WaitsFor(q) : t \in Requests /\ OnCycle(t)
  BY CycleGoesOn, WaitsForOthers
<1>4. \A q \in Requests : OnCycle(q) => pc[q] # "NotifyLiked"
  BY <1>1, <1>2, <1>3, NotifierGoesOn
<1>5. \A q \in Requests : OnCycle(q) =>
        pc[q] \notin {"BumpComments", "RecountComments", "BumpCollects"}
  BY <1>1, <1>2, <1>3, <1>4, CounterGoesOn
<1>6. \A q \in Requests : OnCycle(q) => pc[q] # "CascadeUnfile"
  BY <1>2, <1>3, <1>5, UnfilerGoesOn
<1>7. \A q \in Requests : OnCycle(q) => pc[q] # "BumpLikes"
  BY <1>1, <1>2, CycleComesFrom, BumperComesFrom
<1>8. QED
  BY <1>2, <1>4, <1>5, <1>6, <1>7 DEF WaitSteps

\* Deletions of comments do not wait for each other in a circle: each one's
\* own comment answers one that the request before it deletes, so what they
\* delete together would be answers to each other only.
LEMMA CascadesEnd ==
  ASSUME CycleInv, NEW r \in Requests, OnCycle(r)
  PROVE  \E q \in Requests : job[q].op = "DeletePost" /\ OnCycle(q)
<1> SUFFICES ASSUME \A q \in Requests : OnCycle(q) => job[q].op # "DeletePost"
             PROVE  FALSE
  OBVIOUS
<1> DEFINE D == {c \in comments : \E t \in Requests : OnCycle(t) /\ c \in Doomed(t)}
<1>1. /\ ShelfInv /\ Rooted /\ ThreadInv /\ TypeInv /\ LocksFit /\ LocksOK /\ RowsLive
      /\ \A t \in Requests : DeleteOK(t)
  BY DEF CycleInv, ShelfInv, ThreadInv, LikeInv
<1>2. \A t \in Requests : OnCycle(t) => pc[t] = "CascadeReplies"
  BY <1>1, CycleOfCascades
<1>3. \A t \in Requests : OnCycle(t) => job[t].item \in Doomed(t)
  <2> SUFFICES ASSUME NEW t \in Requests, OnCycle(t) PROVE job[t].item \in Doomed(t)
    OBVIOUS
  <2>1. Holds(t, Delete(CommentRow(job[t].item))) /\ job[t].item \in CommentIds
    BY <1>1, <1>2 DEF DeleteOK, TypeInv, TypeOK, ControlOK, Fits, DeleteSteps
  <2>2. QED
    BY <1>1, <2>1 DEF Doomed, RowsLive, Pins
<1>4. ASSUME NEW c \in D
      PROVE  Comment(c).parent \in D
  <2>1. PICK t \in Requests : OnCycle(t) /\ c \in Doomed(t)
    BY <1>4
  <2>2. c = job[t].item \/ Comment(c).parent \in Doomed(t)
    BY <1>1, <1>2, <2>1 DEF DeleteOK
  <2>3. CASE Comment(c).parent \in Doomed(t)
    BY <2>1, <2>3 DEF Doomed
  <2>4. CASE c = job[t].item
    <3>1. PICK u \in Requests : OnCycle(u) /\ t \in WaitsFor(u)
      BY <2>1, CycleComesFrom
    <3>2. PICK d \in Demand(u), h \in MayHold(t) : Holds(t, h) /\ h.row = d.row
      BY <1>1, <3>1, WaitsForHolder
    <3>3. PICK x \in RepliesLeft(u) : d = Delete(CommentRow(x))
      BY <1>2, <3>1, Wanted
    <3>4. PICK y \in CommentIds : h = Delete(CommentRow(y))
      BY <1>2, <2>1 DEF MayHold, Allowed
    <3>5. x = y
      BY <3>2, <3>3, <3>4, LockKinds, RowsApart
    <3>6. x \in Doomed(t) /\ Comment(x).parent \in Doomed(u)
      BY <3>2, <3>3, <3>4, <3>5 DEF Doomed, RepliesLeft
    <3>7. CASE x = c
      BY <3>1, <3>6, <3>7 DEF Doomed
    <3>8. CASE x # c
      <4>1. Comment(x).parent \in Doomed(t)
        BY <1>1, <1>2, <2>1, <2>4, <3>6, <3>8 DEF DeleteOK
      <4>2. u # t
        BY <3>1, WaitsForOthers
      <4>3. /\ Holds(t, Delete(CommentRow(Comment(x).parent)))
            /\ Holds(u, Delete(CommentRow(Comment(x).parent)))
        BY <3>6, <4>1 DEF Doomed
      <4>4. QED
        BY <1>1, <4>2, <4>3, Excludes DEF Pins
    <3>9. QED
      BY <3>7, <3>8
  <2>5. QED
    BY <2>2, <2>3, <2>4
<1>5. D \in SUBSET comments /\ D # {}
  BY <1>3 DEF Doomed
<1>6. QED
  BY <1>1, <1>4, <1>5 DEF Rooted

\* Replies go down from old comments, which do, or from nothing.
LEMMA InitRooted == Init => CycleInv
<1> SUFFICES ASSUME Init PROVE CycleInv
  OBVIOUS
<1>1. ShelfInv /\ comments = OldComments
  BY InitShelves DEF Init, StoreInit
<1>2. Rooted
  BY <1>1, RepliesAssumption DEF Rooted, Comment
<1>3. QED
  BY <1>1, <1>2 DEF CycleInv

\* Nobody answers a comment before it is there.
LEMMA RootedKept ==
  ASSUME CycleInv, NEW r \in Requests, Start(r) \/ Step(r) \/ Timeout(r) \/ DeadlockVictim(r)
  PROVE  Rooted'
<1>1. ThreadInv /\ LikeInv /\ TypeInv /\ ThreadIntegrity /\ Rooted /\ comments \subseteq CommentIds
  BY DEF CycleInv, ShelfInv, ThreadInv, LikeInv, TypeInv, TypeOK, TablesOK
<1>2. \A c \in comments : Comment(c)' = Comment(c)
  BY <1>1, StepsMove, ColumnsFixed DEF TypeInv, NamesWritten
<1>3. CASE comments' \subseteq comments
  BY <1>1, <1>2, <1>3 DEF Rooted
<1>4. CASE CommitComment(r)
  <2>1. comments' = comments \cup {r} /\ job' = job /\ pc[r] = "CommitComment"
    BY <1>4 DEF CommitComment, Close
  <2>2. r \notin comments /\ r \notin OldComments /\ job[r].ref # r /\ r # None
    BY <1>1, <2>1, StoreAssumption DEF TypeInv, NamesWritten, Written, Targets, CommentIds
  <2>3. Comment(r)'.parent = job[r].ref
    BY <2>1, <2>2 DEF Comment
  <2>4. \A c \in comments : Comment(c)'.parent # r
    BY <1>1, <1>2, <2>2 DEF ThreadIntegrity
  <2>5. ASSUME NEW S \in SUBSET (comments \cup {r}), S # {}
        PROVE  \E c \in S : Comment(c)'.parent \notin S
    <3>1. CASE S \ {r} = {}
      BY <2>2, <2>3, <2>5, <3>1
    <3>2. CASE S \ {r} # {}
      <4>1. PICK c \in S \ {r} : Comment(c).parent \notin S \ {r}
        BY <1>1, <3>2 DEF Rooted
      <4>2. QED
        BY <1>2, <2>4, <4>1
    <3>3. QED
      BY <3>1, <3>2
  <2>6. QED
    BY <2>1, <2>5 DEF Rooted
<1>5. CASE CommitDeleteComment(r) \/ CommitDeletePost(r)
  BY <1>3, <1>5 DEF CommitDeleteComment, CommitDeletePost
<1>6. QED
  BY <1>1, <1>3, <1>4, <1>5, CommentWriters

LEMMA CyclePreserved ==
  ASSUME CycleInv, [Next]_vars
  PROVE  CycleInv'
<1>1. ShelfInv'
  BY ShelfPreserved DEF CycleInv
<1>2. CASE UNCHANGED vars \/ Quiet
  <2>1. comments' = comments /\ \A c : Comment(c)' = Comment(c)
    BY <1>2 DEF Comment, Quiet, vars, tables
  <2>2. Rooted'
    BY <2>1 DEF CycleInv, Rooted
  <2>3. QED
    BY <1>1, <2>2 DEF CycleInv
<1>3. QED
  BY <1>1, <1>2, RootedKept DEF CycleInv, Next

\* Calls wait for each other in a circle only where a post is being deleted:
\* the others lock child rows before the post, and replies from the top.
THEOREM Deadlocks == Spec => []DeadlockNeedsPostDeletion
<1>1. Init => CycleInv
  BY InitRooted
<1>2. CycleInv /\ [Next]_vars => CycleInv'
  BY CyclePreserved
<1>3. CycleInv => DeadlockNeedsPostDeletion
  BY CascadesEnd DEF DeadlockNeedsPostDeletion
<1>4. QED
  BY <1>1, <1>2, <1>3, PTL DEF Spec
=============================================================================
