------------------------------ MODULE Uploads ------------------------------
(***************************************************************************)
(* Media on their way: Presign and the upload, the media of Create and     *)
(* Update (toCreatePostMediaParams and internal/pkg/media), GetByID, which *)
(* shows them under CDN_BASE_URL, and the edit that sends back what was    *)
(* shown.  The transactions that store a post are in Writes, here each is  *)
(* one step; every call is made by the post's author.                      *)
(*                                                                         *)
(* Bytes are counted in units of initialImageHeaderSize, 64 KiB.  A path   *)
(* is a sequence of segments; a reference to an object is its key, or an   *)
(* absolute URL, of which only the path is kept.                           *)
(***************************************************************************)
EXTENDS Naturals, FiniteSets, Sequences, SequencesExt

CONSTANTS
  Segments, \* the segments of paths
  Keys,     \* the keys Presign hands out
  Cards,    \* the keys of images the card engine makes
  Files,    \* what is uploaded: its length, the prefix that holds the header
            \* (None: it is no image), the dimensions in it
  Bucket,   \* the name of the bucket
  Base,     \* the path of CDN_BASE_URL, None when that is not set
  Bodies,   \* the media lists of clients
  Calls,    \* the calls, each made once
  MaxPuts,  \* bound on the PUTs of one key
  None

\* A client names an object by its key, or by its URL under the bucket's name
\* or the bucket's host.
References(k) ==
  {[absolute |-> FALSE, path |-> <<k>>], [absolute |-> TRUE, path |-> <<k>>],
   [absolute |-> TRUE, path |-> <<Bucket, k>>]}

Refs == [absolute: BOOLEAN, path: Seq(Segments)]
Types == {"image", "video"}
Sizes == {f.size : f \in Files} \cup {None}
Items == [ref: Refs, type: Types, means: Keys \cup Cards, shown: BOOLEAN]
Rows == [ref: Refs, type: Types, size: Sizes, means: Keys \cup Cards, seen: Nat]

ASSUME UploadsAssumption ==
  /\ Files \subseteq [length: Nat \ {0}, header: (Nat \ {0}) \cup {None}, size: {None} \cup STRING]
  /\ \A f \in Files : f.header # None => f.header <= f.length
  /\ None \notin Files \cup Calls \cup Seq(Rows)
  /\ Keys \cup Cards \cup {Bucket} \subseteq Segments
  /\ Base \in Seq(Segments) \cup {None}
  /\ Bodies \subseteq Seq(Items)
  /\ \A items \in Bodies : \A i \in DOMAIN items :
       items[i].ref \in References(items[i].means) /\ ~items[i].shown
  /\ IsFiniteSet(Calls) /\ MaxPuts \in Nat /\ Keys \cap Cards = {}

VARIABLES
  object,  \* object[k]: the file under k, or None
  url,     \* url[k]: the upload URL of k: none, open or expired
  begun,   \* begun[k]: the files of which a PUT to k has begun, and may land
  landed,  \* landed[k]: how many PUTs have landed on k
  posts,   \* posts[c]: the media rows of the post call c has created, or None
  views,   \* view_count of each post
  call     \* the calls

store == <<object, url, begun, landed>>
vars == <<store, posts, views, call>>

initialImageHeaderSize == 1
maxImageHeaderSize == 16

Readable(f) == f # None /\ f.header # None /\ f.header <= maxImageHeaderSize /\ f.size # None

Fresh == [op |-> "none", stage |-> "idle", post |-> None, items |-> <<>>, rows |-> <<>>,
          size |-> initialImageHeaderSize, fault |-> FALSE, counted |-> FALSE, shown |-> 0]

Set(c, new) == call' = [call EXCEPT ![c] = new]

-----------------------------------------------------------------------------
(* The object store and its clients *)

\* PresignPutObject signs a PUT of a new key, for 15 minutes.
Presign(k) ==
  /\ url[k] = "none"
  /\ url' = [url EXCEPT ![k] = "open"]
  /\ UNCHANGED <<object, begun, landed, posts, views, call>>

\* Whoever has the URL may use it more than once (runMedia does it once).  Its
\* signature is checked when a PUT begins.
BeginPut(k) ==
  \E f \in Files :
    /\ url[k] = "open" /\ Cardinality(begun[k]) < MaxPuts
    /\ begun' = [begun EXCEPT ![k] = @ \cup {f}]
    /\ UNCHANGED <<object, url, landed, posts, views, call>>

\* The file is there when all of it has been sent, and the URL may have expired
\* by then.  Another PUT of the same file may still be under way.
LandPut(k) ==
  \E f \in begun[k] :
    /\ landed[k] < MaxPuts
    /\ object' = [object EXCEPT ![k] = f]
    /\ landed' = [landed EXCEPT ![k] = @ + 1]
    /\ UNCHANGED <<url, begun, posts, views, call>>

Expire(k) ==
  /\ url[k] = "open"
  /\ url' = [url EXCEPT ![k] = "expired"]
  /\ UNCHANGED <<object, begun, landed, posts, views, call>>

\* CDNURL: the key itself when there is no base.
CDNURL(ref) == IF Base = None THEN ref ELSE [absolute |-> TRUE, path |-> Base \o ref.path]

\* ObjectKeyFromURL: a first segment that is the bucket's name is cut.
ObjectKeyFromURL(path) == IF Len(path) > 1 /\ Head(path) = Bucket THEN Tail(path) ELSE path

ObjectAt(path) ==
  IF Len(path) = 1 /\ path[1] \in Keys \cup Cards THEN object[path[1]] ELSE None

-----------------------------------------------------------------------------
(* Create and Update *)

Start(c, op, p, items) ==
  /\ call[c].stage = "idle"
  /\ Set(c, [Fresh EXCEPT !.op = op, !.post = p, !.items = items, !.stage = "media"])
  /\ UNCHANGED <<store, posts, views>>

StartCreate(c) == \E items \in Bodies : Start(c, "Create", c, items)

StartUpdate(c) == \E p \in Calls, items \in Bodies : Start(c, "Update", p, items)

\* An edit that sends back the media a GetByID has shown.
StartEdit(c) ==
  \E g \in Calls :
    /\ call[g].op = "GetByID" /\ call[g].stage = "done"
    /\ Start(c, "Update", call[g].post, call[g].items)

Item(c) == call[c].items[Len(call[c].rows) + 1]
MoreMedia(c) == call[c].stage = "media" /\ Len(call[c].rows) < Len(call[c].items)

\* The object key of the item: an absolute URL is taken apart, a key is not.
KeyOf(item) == IF item.ref.absolute THEN ObjectKeyFromURL(item.ref.path) ELSE item.ref.path

\* seen: the PUTs that had landed on the object when it was read.
Row(item, path, absolute, size) ==
  [ref |-> [absolute |-> absolute, path |-> path], type |-> item.type, size |-> size,
   means |-> item.means, seen |-> landed[item.means]]

Keep(c, row) ==
  Set(c, [call[c] EXCEPT !.rows = Append(@, row), !.size = initialImageHeaderSize])

\* A video's reference is stored as it came, without a size.
KeepVideo(c) ==
  /\ MoreMedia(c) /\ Item(c).type = "video"
  /\ Keep(c, Row(Item(c), Item(c).ref.path, Item(c).ref.absolute, None))
  /\ UNCHANGED <<store, posts, views>>

Refuse(c, fault) == Set(c, [Fresh EXCEPT !.stage = "refused", !.fault = fault])

\* Slip: the last, largest range is not asked for.
ImageDimensions_BelowMax(c) ==
  LET item == Item(c)
      path == KeyOf(item)
      f == ObjectAt(path)
      decoded == f.header # None /\ f.header <= call[c].size
      last == f.length < call[c].size \/ call[c].size * 4 >= maxImageHeaderSize
  IN  /\ MoreMedia(c) /\ item.type = "image"
      /\ IF f = None \/ (~decoded /\ last) \/ (decoded /\ f.size = None) THEN Refuse(c, FALSE)
         ELSE IF decoded THEN Keep(c, Row(item, path, FALSE, f.size))
         ELSE Set(c, [call[c] EXCEPT !.size = @ * 4])
      /\ UNCHANGED <<store, posts, views>>

\* Slip: a size that is stored for the object is used again.
ImageDimensions_Cached(c) ==
  LET item == Item(c)
      path == KeyOf(item)
      f == ObjectAt(path)
      decoded == f.header # None /\ f.header <= call[c].size
      last == f.length < call[c].size \/ call[c].size * 4 > maxImageHeaderSize
      known == {row \in UNION {ToSet(posts[p]) : p \in {q \in Calls : posts[q] # None}} :
                  row.ref.path = path /\ row.type = "image"}
  IN  /\ MoreMedia(c) /\ item.type = "image"
      /\ IF f = None \/ (~decoded /\ last) \/ (decoded /\ f.size = None) THEN Refuse(c, FALSE)
         ELSE IF known # {} THEN \E row \in known : Keep(c, Row(item, path, FALSE, row.size))
         ELSE IF decoded THEN Keep(c, Row(item, path, FALSE, f.size))
         ELSE Set(c, [call[c] EXCEPT !.size = @ * 4])
      /\ UNCHANGED <<store, posts, views>>

\* One round of ImageDimensions: the first bytes of the object as it is now.
\* They hold the header, or four times as many are asked for, unless these
\* were all of them or the limit is reached.
ImageDimensions(c) ==
  LET item == Item(c)
      path == KeyOf(item)
      f == ObjectAt(path)
      decoded == f.header # None /\ f.header <= call[c].size
      last == f.length < call[c].size \/ call[c].size * 4 > maxImageHeaderSize
  IN  /\ MoreMedia(c) /\ item.type = "image"
      /\ IF f = None \/ (~decoded /\ last) \/ (decoded /\ f.size = None) THEN Refuse(c, FALSE)
         ELSE IF decoded THEN Keep(c, Row(item, path, FALSE, f.size))
         ELSE Set(c, [call[c] EXCEPT !.size = @ * 4])
      /\ UNCHANGED <<store, posts, views>>

\* The object store does not answer, or is not configured: 400.
StoreFails(c) ==
  /\ MoreMedia(c) /\ Item(c).type = "image"
  /\ Refuse(c, TRUE)
  /\ UNCHANGED <<store, posts, views>>

\* The transaction: a new post, or the media of a post replaced; 404 or 500.
Write(c) ==
  LET p == call[c].post
      written == call[c].op = "Create" \/ posts[p] # None
  IN  /\ call[c].stage = "media" /\ ~MoreMedia(c)
      /\ \/ /\ written
            /\ posts' = [posts EXCEPT ![p] = call[c].rows]
            /\ Set(c, [Fresh EXCEPT !.stage = "done"])
         \/ Set(c, [Fresh EXCEPT !.stage = "failed"]) /\ UNCHANGED posts
      /\ UNCHANGED <<store, views>>

-----------------------------------------------------------------------------
(* GetByID *)

StartGet(c) ==
  \E p \in Calls :
    /\ call[c].stage = "idle"
    /\ Set(c, [Fresh EXCEPT !.op = "GetByID", !.post = p, !.stage = "row"])
    /\ UNCHANGED <<store, posts, views>>

\* GetPostByID; 404.
ReadPost(c) ==
  LET p == call[c].post
  IN  /\ call[c].stage = "row"
      /\ IF posts[p] = None THEN Set(c, [call[c] EXCEPT !.stage = "failed"])
         ELSE Set(c, [call[c] EXCEPT !.stage = "view", !.shown = views[p]])
      /\ UNCHANGED <<store, posts, views>>

\* Slip: the count that was read is written back, one higher.
IncrementViewCount_Read(c) ==
  /\ call[c].stage = "view"
  /\ \/ views' = [views EXCEPT ![call[c].post] = call[c].shown + 1]
        /\ Set(c, [call[c] EXCEPT !.stage = "show", !.counted = TRUE])
     \/ Set(c, [call[c] EXCEPT !.stage = "show"]) /\ UNCHANGED views
  /\ UNCHANGED <<store, posts>>

\* IncrementViewCount; an error is logged.
IncrementViewCount(c) ==
  /\ call[c].stage = "view"
  /\ \/ views' = [views EXCEPT ![call[c].post] = @ + 1]
        /\ Set(c, [call[c] EXCEPT !.stage = "show", !.counted = TRUE])
     \/ Set(c, [call[c] EXCEPT !.stage = "show"]) /\ UNCHANGED views
  /\ UNCHANGED <<store, posts>>

\* The media as they are by now, and the tags and the viewer's states; a read
\* may fail.
ShowMedia(c) ==
  LET rows == posts[call[c].post]
  IN  /\ call[c].stage = "show"
      /\ \/ Set(c, [call[c] EXCEPT !.stage = "done",
                     !.items = [i \in DOMAIN rows |->
                       [ref |-> CDNURL(rows[i].ref), type |-> rows[i].type, means |-> rows[i].means,
                        shown |-> TRUE]]])
         \/ Set(c, [call[c] EXCEPT !.stage = "failed"])
      /\ UNCHANGED <<store, posts, views>>

-----------------------------------------------------------------------------
Init ==
  /\ \E f \in [Cards -> {f \in Files : Readable(f)}] :
       object = [k \in Keys \cup Cards |-> IF k \in Cards THEN f[k] ELSE None]
  /\ url = [k \in Keys |-> "none"]
  /\ begun = [k \in Keys |-> {}] /\ landed = [k \in Keys \cup Cards |-> 0]
  /\ posts = [c \in Calls |-> None]
  /\ views = [c \in Calls |-> 0]
  /\ call = [c \in Calls |-> Fresh]

Next ==
  \/ \E k \in Keys : Presign(k) \/ BeginPut(k) \/ LandPut(k) \/ Expire(k)
  \/ \E c \in Calls :
       \/ StartCreate(c) \/ StartUpdate(c) \/ StartEdit(c) \/ StartGet(c)
       \/ KeepVideo(c) \/ ImageDimensions(c) \/ StoreFails(c) \/ Write(c)
       \/ ReadPost(c) \/ IncrementViewCount(c) \/ ShowMedia(c)

Spec == Init /\ [][Next]_vars

-----------------------------------------------------------------------------
(* Properties *)

Called ==
  [op: {"none", "Create", "Update", "GetByID"}, post: Calls \cup {None},
   stage: {"idle", "media", "refused", "row", "view", "show", "done", "failed"},
   items: Seq(Items), rows: Seq(Rows), size: {1, 4, 16},
   fault: BOOLEAN, counted: BOOLEAN, shown: Nat]

\* The tables, the store and the calls have the types their columns and
\* variables declare.
TypeOK ==
  /\ object \in [Keys \cup Cards -> Files \cup {None}]
  /\ url \in [Keys -> {"none", "open", "expired"}]
  /\ begun \in [Keys -> SUBSET Files] /\ landed \in [Keys \cup Cards -> Nat]
  /\ posts \in [Calls -> Seq(Rows) \cup {None}]
  /\ views \in [Calls -> Nat]
  /\ call \in [Calls -> Called]

\* Images are stored under the key of the object the client meant, however it
\* was named: by key, by a card's URL, or by the URL GetByID showed.
\* A call is refused for an image only if that object was not there, or had no
\* header in its first MiB, when it was read; or the object store failed; or the
\* URL was shown under a CDN_BASE_URL whose path is not the bucket.
ReadsMeantObject ==
  \A c \in Calls :
    /\ \A i \in DOMAIN call'[c].rows :
         LET row == call'[c].rows[i]
         IN  row.type = "image" => row.ref.path = <<row.means>>
    /\ call[c].stage = "media" /\ call'[c].stage = "refused" /\ ~call'[c].fault =>
         \/ ~Readable(object[Item(c).means])
         \/ Item(c).shown /\ Base \notin {None, <<>>, <<Bucket>>}
MeantObjectIsRead == [][ReadsMeantObject]_vars

\* The width and height of a posted image are those of its object, unless a PUT
\* has landed on the object since its header was read: no size is taken over from
\* another row, or read from another object or in parts of two.
SizeWrongNeedsPut ==
  \A p \in Calls : posts[p] # None =>
    \A i \in DOMAIN posts[p] :
      LET row == posts[p][i]
      IN  row.type = "image" /\ row.size # object[row.means].size =>
            landed[row.means] > row.seen

\* view_count is the number of calls that counted, and none of them shows its
\* own view.
ViewsAddUp ==
  \A p \in Calls :
    LET counted == {c \in Calls : call[c].post = p /\ call[c].counted}
    IN  /\ views[p] = Cardinality(counted)
        /\ \A c \in counted : call[c].shown < views[p]
=============================================================================
