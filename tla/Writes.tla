-------------------------------- MODULE Writes --------------------------------
(***************************************************************************)
(* Posts are written: Create, Update and Delete of internal/api/post.go    *)
(* with the rows of post_media, tags and post_tags, and CreateTag of       *)
(* internal/api/discovery.go, statement by statement.                      *)
(*                                                                         *)
(* Which write a row comes from is all that is kept of its content: the    *)
(* title and text, the media and the tags of a post are those of a request *)
(* (None: from before).  A request is made once.                           *)
(***************************************************************************)
EXTENDS Naturals, FiniteSets, Sequences, SequencesExt

CONSTANTS
  Posts, OldPosts,     \* post ids; those that are there from the beginning
  Owner,               \* Owner[p]: posts.user_id
  Requests, Caller,    \* Caller[r]: the user whose token request r carries
  Names,               \* tag names
  NameOf,              \* NameOf[s]: the name a spelling trims and folds to,
  Blank, TooLong,      \*   or one of these
  Bodies, MaxTags,     \* what clients send: [tags, media]; how many tags
  None

ASSUME WritesAssumption ==
  /\ IsFiniteSet(Requests) /\ IsFiniteSet(Names) /\ OldPosts \subseteq Posts
  /\ None \notin Requests \cup Posts
  /\ Blank \notin Names /\ TooLong \notin Names /\ Blank # TooLong
  /\ NameOf \in [DOMAIN NameOf -> Names \cup {Blank, TooLong}]
  /\ Bodies \subseteq [tags: Seq(DOMAIN NameOf), media: BOOLEAN] /\ MaxTags \in Nat \ {0}

VARIABLES
  posts,      \* the posts that are there
  title,      \* title[p]: the request that wrote title and content
  media,      \* media[p]: the requests whose media rows p has
  post_tags,  \* post_tags[p]: the names of its tags
  tags,       \* the names in tags
  req         \* the requests

tables == <<posts, title, media, post_tags, tags>>
vars == <<tables, req>>

-----------------------------------------------------------------------------
(* Requests *)

\* scan: the media rows a DELETE has in its snapshot; gone, untagged: media
\* and post_tags rows deleted so far; upserted: tag rows inserted or updated;
\* locked: the post's row is changed or created.
Fresh ==
  [op |-> "none", at |-> "idle", status |-> "none", post |-> None, list |-> <<>>,
   withMedia |-> FALSE, locked |-> FALSE, scan |-> {}, gone |-> {}, untagged |-> {},
   upserted |-> {}]

Free(r) == req[r].at \in {"idle", "done"}
Set(r, new) == req' = [req EXCEPT ![r] = new]

\* Slip: the transaction is not ended, and keeps its locks.
Answer_InTx(r, status) == Set(r, [req[r] EXCEPT !.at = "done", !.status = status])

\* The transaction has committed; its locks are given back.
Answer(r, status) ==
  Set(r, [req[r] EXCEPT !.at = "done", !.status = status, !.locked = FALSE,
                        !.scan = {}, !.gone = {}, !.untagged = {}, !.upserted = {}])

\* Nothing has been written, or it is rolled back.
Abort(r, status) == Set(r, [Fresh EXCEPT !.at = "done", !.status = status])

PostFree(r, p) == \A s \in Requests \ {r} : ~(req[s].locked /\ req[s].post = p)
\* Of these media rows of r's post none is being deleted by another.
MediaFree(r, rows) ==
  \A s \in Requests \ {r} : req[s].post = req[r].post => req[s].gone \cap rows = {}

TagFree(r, name) == \A s \in Requests \ {r} : name \notin req[s].upserted

\* normalizePostTags: blanks are dropped, of equal names the first is kept.
Kept(list) ==
  {i \in 1..Len(list) : /\ NameOf[list[i]] # Blank
                        /\ \A j \in 1..(i - 1) : NameOf[list[j]] # NameOf[list[i]]}

Nth(S, n) == CHOOSE i \in S : Cardinality({j \in S : j <= i}) = n

NormalTags(list) ==
  LET kept == Kept(list) IN [n \in 1..Cardinality(kept) |-> NameOf[list[Nth(kept, n)]]]

\* ... too many or too long a tag is answered with 400.
Refused(list) == Len(list) > MaxTags \/ \E i \in 1..Len(list) : NameOf[list[i]] = TooLong

-----------------------------------------------------------------------------
(* The requests come in, and what they do before they open a transaction *)

Start(r, op, p, body) ==
  /\ req[r].at = "idle"
  /\ IF Refused(body.tags)
     THEN Abort(r, "bad")
     ELSE Set(r, [Fresh EXCEPT !.op = op, !.post = p, !.list = NormalTags(body.tags),
                               !.withMedia = body.media, !.at = "images"])
  /\ UNCHANGED tables

\* A new post id.
StartCreate(r, p, body) ==
  /\ p \notin OldPosts /\ Owner[p] = Caller[r]
  /\ \A s \in Requests : req[s].op = "Create" => req[s].post # p
  /\ Start(r, "Create", p, body)

StartUpdate(r, p, body) == Start(r, "Update", p, body)

StartDelete(r, p) ==
  /\ req[r].at = "idle"
  /\ Set(r, [Fresh EXCEPT !.op = "Delete", !.post = p, !.at = "lookup"])
  /\ UNCHANGED tables

\* CreateTag folds its name as normalizePostTags does.
StartTag(r, s) ==
  /\ req[r].at = "idle"
  /\ IF NameOf[s] \in Names
     THEN Set(r, [Fresh EXCEPT !.op = "CreateTag", !.list = <<NameOf[s]>>, !.at = "tag"])
     ELSE Abort(r, "bad")
  /\ UNCHANGED tables

\* toCreatePostMediaParams reads the images from the object store, which
\* may fail; nothing has been written yet.
ReadImages(r) ==
  /\ req[r].at = "images"
  /\ \/ Set(r, [req[r] EXCEPT !.at = "post"])
     \/ req[r].withMedia /\ Abort(r, "bad")
  /\ UNCHANGED tables

\* Delete: GetPostByID, 404 and 403.
LookupPost(r) ==
  /\ req[r].at = "lookup"
  /\ LET p == req[r].post
     IN  IF p \notin posts THEN Abort(r, "missing")
         ELSE IF Owner[p] # Caller[r] THEN Abort(r, "forbidden")
         ELSE Set(r, [req[r] EXCEPT !.at = "scan"])
  /\ UNCHANGED tables

-----------------------------------------------------------------------------
(* The transactions *)

\* Slip: the row is read, not written, so nothing keeps other writes out.
WritePost_Unlocked(r) ==
  LET p == req[r].post
  IN  /\ req[r].at = "post" /\ req[r].op \in {"Create", "Update"}
      /\ IF req[r].op = "Update" /\ ~(p \in posts /\ Owner[p] = Caller[r])
         THEN Abort(r, "missing")
         ELSE Set(r, [req[r] EXCEPT !.at = "media"])
      /\ UNCHANGED tables

\* CreatePost; or UpdatePost, which waits for the row and finds none that is
\* there and the caller's: 404.
WritePost(r) ==
  LET p == req[r].post
  IN  /\ req[r].at = "post" /\ req[r].op \in {"Create", "Update"}
      /\ IF req[r].op = "Update" /\ ~(p \in posts /\ Owner[p] = Caller[r])
         THEN Abort(r, "missing")
         ELSE /\ PostFree(r, p)
              /\ Set(r, [req[r] EXCEPT !.locked = TRUE, !.at = "media"])
      /\ UNCHANGED tables

\* Delete: the snapshot of DeletePostMediaByPostID.  In Update the post's row
\* is locked, so what it sees is what is there; Create has no rows.
ScanMedia(r) ==
  /\ req[r].at = "scan"
  /\ Set(r, [req[r] EXCEPT !.scan = media[req[r].post], !.at = "media"])
  /\ UNCHANGED tables

MediaSeen(r) == IF req[r].op = "Delete" THEN req[r].scan ELSE media[req[r].post]

\* The rows of the snapshot are waited for, and those still there deleted.
\* CreatePostMedia follows in Create and Update.
DeleteMedia(r) ==
  /\ req[r].at = "media"
  /\ MediaFree(r, MediaSeen(r))
  /\ Set(r, [req[r] EXCEPT !.gone = MediaSeen(r) \cap media[req[r].post], !.scan = {},
                           !.at = IF req[r].op = "Delete" THEN "post" ELSE "untag"])
  /\ UNCHANGED tables

\* replacePostTags: DeletePostTags.
DeletePostTags(r) ==
  /\ req[r].at = "untag"
  /\ Set(r, [req[r] EXCEPT !.untagged = post_tags[req[r].post], !.at = "tag"])
  /\ UNCHANGED tables

\* Slip: Update walks the list from its end.
NextTag_UpdateBackwards(r) ==
  LET n == Len(req[r].list)
      done == Cardinality(req[r].upserted)
  IN  req[r].list[IF req[r].op = "Update" THEN n - done ELSE done + 1]

\* The next tag of the list that has not been upserted.
NextTag(r) == req[r].list[Cardinality(req[r].upserted) + 1]
Tagging(r) == req[r].at = "tag" /\ Cardinality(req[r].upserted) < Len(req[r].list)

\* CreateTag: INSERT ... ON CONFLICT DO UPDATE keeps the tag's row locked
\* until the end, whether it was there or not; AddPostTag then has its key.
UpsertTag(r) ==
  /\ Tagging(r)
  /\ TagFree(r, NextTag(r))
  /\ Set(r, [req[r] EXCEPT !.upserted = @ \cup {NextTag(r)}])
  /\ UNCHANGED tables

\* The write is over: its rows appear together.  The confirmation may be lost.
CommitWrite(r) ==
  LET p == req[r].post
  IN  /\ req[r].at = "tag" /\ ~Tagging(r)
      /\ tags' = tags \cup req[r].upserted
      /\ IF req[r].op = "CreateTag" THEN UNCHANGED <<posts, title, media, post_tags>>
         ELSE /\ posts' = posts \cup {p}
              /\ title' = [title EXCEPT ![p] = r]
              /\ media' = [media EXCEPT ![p] =
                            (@ \ req[r].gone) \cup IF req[r].withMedia THEN {r} ELSE {}]
              /\ post_tags' = [post_tags EXCEPT ![p] =
                                (@ \ req[r].untagged) \cup req[r].upserted]
      /\ \E status \in {"ok", "failed"} : Answer(r, status)

\* DeletePost waits for the row; a post that is gone meanwhile is no error.
DeletePost(r) ==
  /\ req[r].at = "post" /\ req[r].op = "Delete"
  /\ req[r].post \in posts => PostFree(r, req[r].post)
  /\ Set(r, [req[r] EXCEPT !.locked = req[r].post \in posts, !.at = "commit"])
  /\ UNCHANGED tables

\* The post goes with all its media and tags (ON DELETE CASCADE), those
\* written after DeleteMedia too, which another Delete may have locked.
CommitDelete(r) ==
  LET p == req[r].post
  IN  /\ req[r].at = "commit" /\ MediaFree(r, media[p])
      /\ posts' = posts \ {p}
      /\ media' = [media EXCEPT ![p] = {}]
      /\ post_tags' = [post_tags EXCEPT ![p] = {}]
      /\ UNCHANGED <<title, tags>>
      /\ \E status \in {"ok", "failed"} : Answer(r, status)

\* Any statement may fail, and the transaction is rolled back.
Timeout(r) == ~Free(r) /\ Abort(r, "failed") /\ UNCHANGED tables

\* r waits for s.
WaitsFor(r, s) ==
  LET p == req[r].post
  IN  /\ r # s
      /\ \/ /\ req[r].at = "post" /\ p \in posts
            /\ Owner[p] = Caller[r] /\ req[r].op \in {"Update", "Delete"}
            /\ req[s].locked /\ req[s].post = p
         \/ req[r].at = "media" /\ req[s].post = p /\ req[s].gone \cap MediaSeen(r) # {}
         \/ req[r].at = "commit" /\ req[s].post = p /\ req[s].gone \cap media[p] # {}
         \/ Tagging(r) /\ NextTag(r) \in req[s].upserted

\* A set of requests each of which waits for one of them.
Deadlocked(S) == S # {} /\ \A r \in S : \E s \in S : WaitsFor(r, s)

\* PostgreSQL's detector aborts one of them.
DeadlockVictim(r) == (\E S \in SUBSET Requests : r \in S /\ Deadlocked(S)) /\ Timeout(r)

-----------------------------------------------------------------------------

Begin(r) ==
  \/ \E p \in Posts, body \in Bodies : StartCreate(r, p, body) \/ StartUpdate(r, p, body)
  \/ \E p \in Posts : StartDelete(r, p)
  \/ \E s \in DOMAIN NameOf : StartTag(r, s)

Step(r) ==
  \/ ReadImages(r) \/ LookupPost(r)
  \/ WritePost(r) \/ ScanMedia(r) \/ DeleteMedia(r) \/ DeletePostTags(r)
  \/ UpsertTag(r) \/ CommitWrite(r) \/ DeletePost(r) \/ CommitDelete(r)

Init ==
  /\ posts = OldPosts /\ tags = {}
  /\ title = [p \in Posts |-> None]
  /\ \E with \in SUBSET OldPosts : media = [p \in Posts |-> IF p \in with THEN {None} ELSE {}]
  /\ post_tags = [p \in Posts |-> {}]
  /\ req = [r \in Requests |-> Fresh]

Next == \E r \in Requests : Begin(r) \/ Step(r) \/ Timeout(r) \/ DeadlockVictim(r)

Spec == Init /\ [][Next]_vars

\* As long as some request can go on, or is in a deadlock, one goes on or is
\* aborted.  That is enough, because every request takes finitely many steps.
FairSpec == Spec /\ WF_vars(\E r \in Requests : Step(r) \/ DeadlockVictim(r))

-----------------------------------------------------------------------------
(* Properties *)

Requested ==
  [op: {"none", "Create", "Update", "Delete", "CreateTag"},
   at: {"idle", "images", "lookup", "post", "scan", "media", "untag", "tag", "commit", "done"},
   status: {"none", "ok", "bad", "missing", "forbidden", "failed"},
   post: Posts \cup {None}, list: Seq(Names), withMedia: BOOLEAN, locked: BOOLEAN,
   scan: SUBSET (Requests \cup {None}), gone: SUBSET (Requests \cup {None}),
   untagged: SUBSET Names, upserted: SUBSET Names]

TypeOK ==
  /\ posts \subseteq Posts /\ tags \subseteq Names
  /\ title \in [Posts -> Requests \cup {None}]
  /\ media \in [Posts -> SUBSET (Requests \cup {None})]
  /\ post_tags \in [Posts -> SUBSET Names]
  /\ req \in [Requests -> Requested]

\* Title, media and tags of a post all come from the same request, and from
\* one of its owner, although updates of a post overlap and replace them in
\* statements of their own.
PostIsOneWrite ==
  \A p \in posts :
    LET w == title[p]
    IN  IF w = None THEN media[p] \subseteq {None} /\ post_tags[p] = {}
        ELSE /\ Caller[w] = Owner[p]
             /\ media[p] = IF req[w].withMedia THEN {w} ELSE {}
             /\ post_tags[p] = ToSet(req[w].list)

\* The tag lists of the requests in S agree with some order of the names.
CommonOrder(S) ==
  \E rank \in [Names -> 1..Cardinality(Names)] :
    \A r \in S, i, j \in 1..MaxTags :
      i < j /\ j <= Len(req[r].list) => rank[req[r].list[i]] < rank[req[r].list[j]]

\* Transactions that wait for each other delete a post, or name their tags
\* in orders that cannot be reconciled; updates of the same post, and any
\* number of writes with tags in a common order, never deadlock.
DeadlockNeedsTagOrder ==
  \A S \in SUBSET Requests : Deadlocked(S) =>
    (\E r \in S : req[r].op = "Delete") \/ ~CommonOrder(S)

\* Every write is answered, also when transactions deadlock.
EveryWriteAnswered == \A r \in Requests : ~Free(r) ~> req[r].at = "done"
=============================================================================
