----------------------------- MODULE Collections -----------------------------
(***************************************************************************)
(* The handlers of collections and their folders that touch shared rows    *)
(* (internal/api/collection.go): Collect, Uncollect and DeleteFolder.      *)
(***************************************************************************)
EXTENDS Store

ShelfSteps == {"LookupShelf", "AddCollection", "RemoveCollection", "BumpCollects",
               "ReadShelf", "CommitCollection"}
FolderSteps == {"DeleteFolderRow", "CascadeUnfile", "CommitDeleteFolder"}
CollectionSteps == ShelfSteps \cup FolderSteps

Collecting(r) == job[r].op = "Collect"
Collected(r) == <<job[r].user, job[r].item>>
IntoFolder(r) == job[r].ref # None

\* A client may name any folder, its own or not.
StartCollection(r) ==
  \E u \in Users :
    \/ \E p \in posts, f \in folders \cup {None} :
         Begin(r, "Collect", u, p, f, "LookupShelf")
    \/ \E p \in posts : Begin(r, "Uncollect", u, p, None, "RemoveCollection")
    \/ \E f \in folders : Begin(r, "DeleteFolder", u, f, None, "DeleteFolderRow")

-----------------------------------------------------------------------------
(* Collect and Uncollect *)

\* Slip: the folder may be someone else's.
LookupShelf_AnyFolder(r) ==
  /\ pc[r] = "LookupShelf"
  /\ IF job[r].item \in posts /\ (IntoFolder(r) => job[r].ref \in folders)
     THEN Goto(r, "AddCollection") /\ UNCHANGED <<locks, work>>
     ELSE Rollback(r, "missing")

\* GetPostByID, then GetCollectionFolderByID for a folder of this user.
LookupShelf(r) ==
  /\ pc[r] = "LookupShelf"
  /\ IF /\ job[r].item \in posts
        /\ IntoFolder(r) => /\ job[r].ref \in folders
                            /\ FolderOwner[job[r].ref] = job[r].user
     THEN Goto(r, "AddCollection") /\ UNCHANGED <<locks, work>>
     ELSE Rollback(r, "missing")

\* Slip: no foreign key ties a collection to its folder.
AddCollectionLocks_FolderFree(r) ==
  {Delete(CollectionRow(job[r].user, job[r].item))} \cup
  IF Collected(r) \in collections THEN {} ELSE {Reference(PostRow(job[r].item))}

\* INSERT ... ON CONFLICT DO NOTHING: a post already collected stays in the
\* folder it was in.  A new row references the post and the folder.
AddCollectionLocks(r) ==
  {Delete(CollectionRow(job[r].user, job[r].item))} \cup
  IF Collected(r) \in collections THEN {}
  ELSE {Reference(PostRow(job[r].item))} \cup
       IF IntoFolder(r) THEN {Reference(FolderRow(job[r].ref))} ELSE {}

\* Slip: ON CONFLICT DO UPDATE, which reports one row.
AddCollection_Overwrites(r) ==
  /\ pc[r] = "AddCollection"
  /\ job[r].item \in posts
  /\ Acquire(r, AddCollectionLocks(r))
  /\ work' = [work EXCEPT ![r].rows = 1]
  /\ Goto(r, "BumpCollects")

AddCollection(r) ==
  /\ pc[r] = "AddCollection"
  /\ IF Collected(r) \in collections
     THEN /\ Blockers(r, AddCollectionLocks(r)) = {}
          /\ UNCHANGED <<locks, work>>
          /\ Goto(r, "ReadShelf")
     ELSE IF job[r].item \in posts /\ (IntoFolder(r) => job[r].ref \in folders)
     THEN /\ Acquire(r, AddCollectionLocks(r))
          /\ work' = [work EXCEPT ![r].rows = 1]
          /\ Goto(r, "BumpCollects")
     ELSE Blockers(r, AddCollectionLocks(r)) = {} /\ Rollback(r, "failed")

RemoveCollectionLocks(r) ==
  IF Collected(r) \in collections
  THEN {Delete(CollectionRow(job[r].user, job[r].item))} ELSE {}

RemoveCollection(r) ==
  /\ pc[r] = "RemoveCollection"
  /\ Acquire(r, RemoveCollectionLocks(r))
  /\ IF Collected(r) \in collections
     THEN work' = [work EXCEPT ![r].rows = 1] /\ Goto(r, "BumpCollects")
     ELSE UNCHANGED work /\ Goto(r, "ReadShelf")

BumpCollectsLocks(r) ==
  IF job[r].item \in posts THEN {Update(PostRow(job[r].item))} ELSE {}

NewCollectCount(r) ==
  LET n == collect_count[job[r].item]
  IN  IF Collecting(r) THEN n + 1 ELSE IF n > 0 THEN n - 1 ELSE 0

BumpCollects(r) ==
  /\ pc[r] = "BumpCollects"
  /\ Acquire(r, BumpCollectsLocks(r))
  /\ work' = [work EXCEPT ![r].val = NewCollectCount(r)]
  /\ Goto(r, "ReadShelf")

\* IsCollected, then GetPostByID, for the response: 404 without the post.
ReadShelf(r) ==
  /\ pc[r] = "ReadShelf"
  /\ IF job[r].item \in posts
     THEN Goto(r, "CommitCollection") /\ UNCHANGED <<locks, work>>
     ELSE Rollback(r, "missing")

CommitCollection(r) ==
  /\ pc[r] = "CommitCollection"
  /\ IF work[r].rows = 0 THEN UNCHANGED <<collections, filed, collect_count>>
     ELSE /\ collections' = IF Collecting(r) THEN collections \cup {Collected(r)}
                            ELSE collections \ {Collected(r)}
          /\ filed' = [filed EXCEPT ![Collected(r)] = job[r].ref]
          /\ collect_count' = IF Holds(r, Update(PostRow(job[r].item)))
                              THEN [collect_count EXCEPT ![job[r].item] = work[r].val]
                              ELSE collect_count
  /\ Committed(r)
  /\ UNCHANGED <<posts, comments, folders, likes, like_count, comment_count,
                 notifications>>

-----------------------------------------------------------------------------
(* DeleteFolder: one statement, which commits by itself. *)

OwnFolder(r) == job[r].item \in folders /\ FolderOwner[job[r].item] = job[r].user

DeleteFolderRowLocks(r) == IF OwnFolder(r) THEN {Delete(FolderRow(job[r].item))} ELSE {}

DeleteFolderRow(r) ==
  /\ pc[r] = "DeleteFolderRow"
  /\ IF OwnFolder(r)
     THEN /\ Acquire(r, DeleteFolderRowLocks(r))
          /\ UNCHANGED work
          /\ Goto(r, "CascadeUnfile")
     ELSE Rollback(r, "missing")

\* folder_id ... ON DELETE SET NULL, one row of collections at a time.
FiledLeft(r) ==
  {k \in collections : filed[k] = job[r].item
                       /\ ~Holds(r, Update(CollectionRow(k[1], k[2])))}
CascadeUnfileLocks(r) == {Update(CollectionRow(k[1], k[2])) : k \in FiledLeft(r)}

CascadeUnfile(r) ==
  /\ pc[r] = "CascadeUnfile"
  /\ UNCHANGED work
  /\ IF FiledLeft(r) = {}
     THEN UNCHANGED locks /\ Goto(r, "CommitDeleteFolder")
     ELSE /\ \E k \in FiledLeft(r) : Acquire(r, {Update(CollectionRow(k[1], k[2]))})
          /\ Goto(r, "CascadeUnfile")

CommitDeleteFolder(r) ==
  /\ pc[r] = "CommitDeleteFolder"
  /\ folders' = folders \ {job[r].item}
  /\ filed' = [k \in DOMAIN filed |->
       IF Holds(r, Update(CollectionRow(k[1], k[2]))) THEN None ELSE filed[k]]
  /\ Committed(r)
  /\ UNCHANGED <<posts, comments, likes, collections, like_count, collect_count,
                 comment_count, notifications>>

CollectionDemand(r) ==
  CASE pc[r] = "AddCollection" -> AddCollectionLocks(r)
    [] pc[r] = "RemoveCollection" -> RemoveCollectionLocks(r)
    [] pc[r] = "BumpCollects" -> BumpCollectsLocks(r)
    [] pc[r] = "DeleteFolderRow" -> DeleteFolderRowLocks(r)
    [] pc[r] = "CascadeUnfile" -> CascadeUnfileLocks(r)
    [] OTHER -> {}

CollectionStep(r) ==
  \/ LookupShelf(r) \/ AddCollection(r) \/ RemoveCollection(r) \/ BumpCollects(r)
  \/ ReadShelf(r) \/ CommitCollection(r) \/ DeleteFolderRow(r) \/ CascadeUnfile(r)
  \/ CommitDeleteFolder(r)
=============================================================================
