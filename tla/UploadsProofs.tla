---------------------------- MODULE UploadsProofs ----------------------------
(***************************************************************************)
(* Proofs about Uploads, for any objects, files and media lists.  The      *)
(* inductive invariant, Inv, follows a reference from what a client names  *)
(* to the row that is stored, shown and sent back.                         *)
(***************************************************************************)
EXTENDS Uploads, FiniteSetTheorems, SequenceTheorems, TLAPS

-----------------------------------------------------------------------------
(* The inductive invariant *)

\* An image is named as clients name them, or as GetByID shows it.
Meant(item) ==
  item.type = "image" =>
    \/ item.ref \in References(item.means)
    \/ item.shown /\ Base # None /\ item.ref = [absolute |-> TRUE, path |-> Base \o <<item.means>>]

\* An image row has the key of the object that is meant and, as long as no PUT
\* has landed on it since it was read, its size.
Right(row) ==
  row.type = "image" =>
    /\ row.ref = [absolute |-> FALSE, path |-> <<row.means>>]
    /\ row.seen <= landed[row.means]
    /\ row.seen = landed[row.means] => row.size = object[row.means].size

\* What a call must have done to be where it is, and what it has counted.
Fits(q) ==
  /\ \A i \in DOMAIN q.items : Meant(q.items[i])
  /\ \A i \in DOMAIN q.rows : Right(q.rows[i])
  /\ q.stage = "idle" => q = Fresh
  /\ q.stage = "media" => q.op \in {"Create", "Update"} /\ q.post \in Calls
  /\ q.stage \in {"row", "view", "show"} => q.op = "GetByID"
  /\ q.op = "GetByID" => q.post \in Calls
  /\ q.stage \in {"view", "show"} => posts[q.post] # None
  /\ q.stage = "view" => q.shown <= views[q.post]
  /\ q.counted =>
       /\ q.op = "GetByID" /\ q.stage \in {"show", "done", "failed"}
       /\ q.shown < views[q.post]

Inv ==
  /\ TypeOK
  /\ \A c \in Calls : Fits(call[c])
  /\ \A p \in Calls : posts[p] # None => \A i \in DOMAIN posts[p] : Right(posts[p][i])
  /\ ViewsAddUp

-----------------------------------------------------------------------------
(* References *)

\* The key taken from an image's reference is that of the object it means; or
\* the URL was shown under a base that is not the bucket, and names nothing.
LEMMA KeyIsMeant ==
  ASSUME TypeOK, NEW item \in Items, item.type = "image", Meant(item)
  PROVE  \/ KeyOf(item) = <<item.means>>
         \/ /\ item.shown /\ Base \notin {None, <<>>, <<Bucket>>}
            /\ ObjectAt(KeyOf(item)) = None
<1> DEFINE k == item.means
<1>1. k \in Segments /\ Bucket \in Segments
  BY UploadsAssumption DEF Items
<1> HIDE DEF k
<1>2. CASE item.ref \in References(k)
  <2>1. CASE item.ref = [absolute |-> FALSE, path |-> <<k>>]
    BY <2>1 DEF KeyOf, k
  <2>2. CASE item.ref = [absolute |-> TRUE, path |-> <<k>>]
    BY <2>2 DEF KeyOf, ObjectKeyFromURL, k
  <2>3. CASE item.ref = [absolute |-> TRUE, path |-> <<Bucket, k>>]
    <3>1. Len(<<Bucket, k>>) = 2 /\ Head(<<Bucket, k>>) = Bucket /\ Tail(<<Bucket, k>>) = <<k>>
      OBVIOUS
    <3>2. QED
      BY <2>3, <3>1 DEF KeyOf, ObjectKeyFromURL, k
  <2>4. QED
    BY <1>2, <2>1, <2>2, <2>3 DEF References
<1>3. ASSUME item.shown, Base # None,
             item.ref = [absolute |-> TRUE, path |-> Base \o <<k>>]
      PROVE  \/ KeyOf(item) = <<k>>
             \/ Base \notin {<<>>, <<Bucket>>} /\ ObjectAt(KeyOf(item)) = None
  <2> DEFINE path == Base \o <<k>>
  <2>1. /\ Base \in Seq(Segments) /\ Len(Base) \in Nat /\ path \in Seq(Segments)
        /\ Len(path) = Len(Base) + 1
    BY <1>1, <1>3, UploadsAssumption
  <2>2. KeyOf(item) = ObjectKeyFromURL(path)
    BY <1>3 DEF KeyOf
  <2>3. CASE Base = <<>>
    <3>1. path = <<k>>
      BY <1>1, <2>3
    <3>2. QED
      BY <2>2, <3>1 DEF ObjectKeyFromURL
  <2>4. CASE Base # <<>>
    <3>1. Len(Base) >= 1
      BY <2>1, <2>4
    <3>2. Head(path) = Base[1] /\ Base[1] = Head(Base)
      BY <1>1, <2>1, <3>1
    <3>3. CASE Base[1] # Bucket
      <4>1. KeyOf(item) = path /\ Len(path) # 1 /\ Base # <<Bucket>>
        BY <2>1, <2>2, <3>1, <3>2, <3>3 DEF ObjectKeyFromURL
      <4>2. QED
        BY <2>4, <4>1 DEF ObjectAt
    <3>4. CASE Base[1] = Bucket
      <4>1. KeyOf(item) = Tail(path) /\ Len(Tail(path)) = Len(Base)
        BY <2>1, <2>2, <3>1, <3>2, <3>4 DEF ObjectKeyFromURL
      <4>2. CASE Len(Base) = 1
        <5>1. Base = <<Bucket>>
          BY <2>1, <3>4, <4>2
        <5>2. Tail(path) \in Seq(Segments) /\ Len(Tail(path)) = 1 /\ Tail(path)[1] = k
          BY <1>1, <2>1, <4>1, <4>2
        <5>3. Tail(path) = <<k>>
          <6> DEFINE tail == Tail(path)
          <6>1. tail \in Seq(Segments) /\ Len(tail) = 1 /\ tail[1] = k
            BY <5>2
          <6> HIDE DEF tail
          <6>2. <<k>> \in Seq(Segments) /\ Len(<<k>>) = 1 /\ <<k>>[1] = k
            BY <1>1
          <6>3. \A i \in 1..Len(tail) : tail[i] = <<k>>[i]
            BY <6>1, <6>2
          <6>4. tail = <<k>>
            BY <6>1, <6>2, <6>3, SeqEqual
          <6>5. QED
            BY <6>4 DEF tail
        <5>4. QED
          BY <4>1, <5>3
      <4>3. CASE Len(Base) # 1
        <5>1. Base # <<Bucket>>
          BY <4>3
        <5>2. QED
          BY <2>4, <4>1, <4>3, <5>1 DEF ObjectAt
      <4>4. QED
        BY <4>2, <4>3
    <3>5. QED
      BY <3>3, <3>4
  <2>5. QED
    BY <2>3, <2>4
<1>4. QED
  BY <1>2, <1>3 DEF Meant, k

-----------------------------------------------------------------------------
(* The inductive invariant is one *)

\* What the invariant says of one call.
LEMMA OfOne ==
  ASSUME Inv, NEW c \in Calls
  PROVE  call[c] \in Called /\ Fits(call[c])
BY DEF Inv, TypeOK

\* A call that reads and decides, and changes nothing but itself.
LEMMA CallKeeps ==
  ASSUME Inv, NEW c \in Calls, NEW q \in Called, call' = [call EXCEPT ![c] = q],
         UNCHANGED <<store, posts, views>>, Fits(q),
         \/ (q.counted <=> call[c].counted) /\ q.post = call[c].post
         \/ ~q.counted /\ ~call[c].counted
  PROVE  Inv'
<1>1. /\ call' \in [Calls -> Called] /\ call'[c] = q
      /\ \A d \in Calls \ {c} : call'[d] = call[d]
  BY DEF Inv, TypeOK
<1>2. TypeOK'
  BY <1>1 DEF store, Inv, TypeOK
<1>3. ASSUME NEW d \in Calls PROVE Fits(call[d])'
  <2>1. PICK o : o = call'[d] /\ Fits(o)
    BY <1>1 DEF Inv
  <2>2. QED
    BY <2>1 DEF store, Fits, Right
<1>4. \A p \in Calls : posts'[p] # None => \A i \in DOMAIN posts'[p] : Right(posts[p][i])'
  BY DEF store, Inv, Right
<1>5. ViewsAddUp'
  <2> SUFFICES ASSUME NEW p \in Calls
      PROVE  LET counted == {d \in Calls : call'[d].post = p /\ call'[d].counted}
             IN  /\ views[p] = Cardinality(counted)
                 /\ \A d \in counted : call'[d].shown < views[p]
    BY DEF ViewsAddUp
  <2>1. {d \in Calls : call'[d].post = p /\ call'[d].counted}
          = {d \in Calls : call[d].post = p /\ call[d].counted}
    BY <1>1
  <2>2. ASSUME NEW d \in Calls, call'[d].post = p, call'[d].counted
        PROVE  call'[d].shown < views[p]
    <3>1. CASE d = c
      BY <1>1, <2>2, <3>1 DEF Fits
    <3>2. CASE d # c
      BY <1>1, <2>2, <3>2 DEF Inv, ViewsAddUp
    <3>3. QED
      BY <3>1, <3>2
  <2>3. QED
    BY <2>1, <2>2 DEF Inv, ViewsAddUp
<1>6. QED
  BY <1>2, <1>3, <1>4, <1>5 DEF Inv

\* The object store: an object changes only as one more PUT lands on it.
LEMMA StoreKeeps ==
  ASSUME Inv, NEW k \in Keys, Presign(k) \/ BeginPut(k) \/ LandPut(k) \/ Expire(k)
  PROVE  Inv'
<1>1. UNCHANGED <<posts, views, call>>
  BY DEF Presign, BeginPut, LandPut, Expire
<1>2. TypeOK'
  <2>1. url' \in [Keys -> {"none", "open", "expired"}] /\ begun' \in [Keys -> SUBSET Files]
    <3>1. CASE BeginPut(k)
      <4>1. PICK f \in Files : begun' = [begun EXCEPT ![k] = @ \cup {f}]
        BY <3>1 DEF BeginPut
      <4>2. UNCHANGED url /\ begun[k] \cup {f} \in SUBSET Files
        BY <3>1 DEF BeginPut, Inv, TypeOK
      <4>3. QED
        BY <4>1, <4>2 DEF Inv, TypeOK
    <3>2. CASE Presign(k) \/ LandPut(k) \/ Expire(k)
      BY <3>2 DEF Inv, TypeOK, Presign, LandPut, Expire
    <3>3. QED
      BY <3>1, <3>2
  <2>2. /\ object' \in [Keys \cup Cards -> Files \cup {None}]
        /\ landed' \in [Keys \cup Cards -> Nat]
    <3>1. CASE LandPut(k)
      <4>1. PICK f \in begun[k] : /\ object' = [object EXCEPT ![k] = f]
                                 /\ landed' = [landed EXCEPT ![k] = @ + 1]
        BY <3>1 DEF LandPut
      <4>2. f \in Files /\ k \in Keys \cup Cards
        BY DEF Inv, TypeOK
      <4>3. landed[k] + 1 \in Nat
        BY DEF Inv, TypeOK
      <4>4. QED
        BY <4>1, <4>2, <4>3 DEF Inv, TypeOK
    <3>2. CASE Presign(k) \/ BeginPut(k) \/ Expire(k)
      BY <3>2 DEF Inv, TypeOK, Presign, BeginPut, Expire
    <3>3. QED
      BY <3>1, <3>2
  <2>3. QED
    BY <1>1, <2>1, <2>2 DEF Inv, TypeOK
<1>3. \A o \in Keys \cup Cards : \/ object'[o] = object[o] /\ landed'[o] = landed[o]
                                \/ landed'[o] = landed[o] + 1
  BY DEF Inv, TypeOK, Presign, BeginPut, LandPut, Expire
<1>4. ASSUME NEW row \in Rows, Right(row) PROVE Right(row)'
  <2> SUFFICES ASSUME row.type = "image"
      PROVE  /\ row.seen <= landed'[row.means]
             /\ row.seen = landed'[row.means] => row.size = object'[row.means].size
    BY <1>4 DEF Right
  <2>1. /\ row.means \in Keys \cup Cards /\ row.seen \in Nat /\ landed[row.means] \in Nat
        /\ row.seen <= landed[row.means]
        /\ row.seen = landed[row.means] => row.size = object[row.means].size
    BY <1>4 DEF Right, Rows, Inv, TypeOK
  <2>2. CASE object'[row.means] = object[row.means] /\ landed'[row.means] = landed[row.means]
    BY <2>1, <2>2
  <2>3. CASE landed'[row.means] = landed[row.means] + 1
    BY <2>1, <2>3
  <2>4. QED
    BY <1>3, <2>1, <2>2, <2>3
<1>5. ASSUME NEW d \in Calls PROVE Fits(call[d])'
  <2>1. PICK o \in Called : o = call'[d] /\ Fits(o)
    BY <1>1, OfOne
  <2>2. \A i \in DOMAIN o.rows : o.rows[i] \in Rows
    BY DEF Called
  <2>3. \A i \in DOMAIN o.rows : Right(o.rows[i])'
    BY <1>4, <2>1, <2>2 DEF Fits
  <2>4. QED
    BY <1>1, <2>1, <2>3 DEF Fits, Right
<1>6. ASSUME NEW p \in Calls, posts'[p] # None, NEW i \in DOMAIN posts'[p]
      PROVE  Right(posts[p][i])'
  <2>1. posts[p][i] \in Rows /\ Right(posts[p][i])
    BY <1>1, <1>6 DEF Inv, TypeOK
  <2>2. PICK row \in Rows : row = posts[p][i] /\ row = posts'[p][i]
    BY <1>1, <2>1
  <2>3. Right(row)'
    BY <1>4, <2>1, <2>2
  <2>4. QED
    BY <2>2, <2>3 DEF Right
<1>7. ViewsAddUp'
  BY <1>1 DEF Inv, ViewsAddUp
<1>8. QED
  BY <1>2, <1>5, <1>6, <1>7 DEF Inv

\* The record of a call that begins, with nothing done yet.
LEMMA FreshCall ==
  /\ Fresh \in Called /\ Fresh.op = "none" /\ Fresh.stage = "idle" /\ Fresh.items = <<>>
  /\ Fresh.rows = <<>> /\ Fresh.size = 1 /\ Fresh.fault = FALSE /\ Fresh.counted = FALSE
  /\ DOMAIN Fresh.items = {} /\ DOMAIN Fresh.rows = {} /\ Fresh.shown = 0
BY DEF Fresh, Called, initialImageHeaderSize

\* Creations, updates, edits and reads that begin.
LEMMA StartsKeep ==
  ASSUME Inv, NEW c \in Calls, StartCreate(c) \/ StartUpdate(c) \/ StartEdit(c) \/ StartGet(c)
  PROVE  Inv'
<1>1. PICK op \in {"Create", "Update", "GetByID"}, p \in Calls, items \in Seq(Items),
           stage \in {"media", "row"} :
        /\ call[c].stage = "idle"
        /\ Set(c, [Fresh EXCEPT !.op = op, !.post = p, !.items = items, !.stage = stage])
        /\ UNCHANGED <<store, posts, views>>
        /\ \A i \in DOMAIN items : Meant(items[i])
        /\ stage = "row" <=> op = "GetByID"
  <2>1. CASE StartCreate(c) \/ StartUpdate(c)
    <3>1. PICK op \in {"Create", "Update"}, p \in Calls, items \in Bodies :
            Start(c, op, p, items)
      BY <2>1 DEF StartCreate, StartUpdate
    <3>2. items \in Seq(Items) /\ \A i \in DOMAIN items : Meant(items[i])
      BY UploadsAssumption DEF Meant
    <3>3. QED
      BY <3>1, <3>2 DEF Start, store
  <2>2. CASE StartEdit(c)
    <3>1. PICK g \in Calls : call[g].op = "GetByID" /\ Start(c, "Update", call[g].post, call[g].items)
      BY <2>2 DEF StartEdit
    <3>2. /\ call[g].post \in Calls /\ call[g].items \in Seq(Items)
          /\ \A i \in DOMAIN call[g].items : Meant(call[g].items[i])
      BY <3>1, OfOne DEF Fits, Called
    <3>3. QED
      BY <3>1, <3>2 DEF Start, store
  <2>3. CASE StartGet(c)
    <3>1. PICK p \in Calls :
            /\ call[c].stage = "idle" /\ UNCHANGED <<store, posts, views>>
            /\ Set(c, [Fresh EXCEPT !.op = "GetByID", !.post = p, !.stage = "row"])
      BY <2>3 DEF StartGet, store
    <3>2. [Fresh EXCEPT !.op = "GetByID", !.post = p, !.stage = "row"]
            = [Fresh EXCEPT !.op = "GetByID", !.post = p, !.items = <<>>, !.stage = "row"]
      BY FreshCall DEF Called
    <3>3. <<>> \in Seq(Items) /\ \A i \in DOMAIN <<>> : Meant(<<>>[i])
      OBVIOUS
    <3>4. QED
      BY <3>1, <3>2, <3>3
  <2>4. QED
    BY <2>1, <2>2, <2>3
<1> DEFINE q == [Fresh EXCEPT !.op = op, !.post = p, !.items = items, !.stage = stage]
<1>2. /\ q \in Called /\ q.op = op /\ q.post = p /\ q.items = items /\ q.stage = stage
      /\ q.counted = FALSE /\ DOMAIN q.rows = {} /\ call' = [call EXCEPT ![c] = q]
  BY <1>1, FreshCall DEF Called, Set
<1> HIDE DEF q
<1>3. call[c] = Fresh
  BY <1>1, OfOne DEF Fits
<1>4. Fits(q)
  BY <1>1, <1>2 DEF Fits
<1>5. ~call[c].counted /\ ~q.counted
  BY <1>2, <1>3, FreshCall
<1>6. QED
  BY <1>1, <1>2, <1>4, <1>5, CallKeeps

\* A call that is refused or fails gives back what it held.
LEMMA RefuseKeeps ==
  ASSUME Inv, NEW c \in Calls, ~call[c].counted, NEW stage \in {"refused", "failed"},
         NEW fault \in BOOLEAN,
         Set(c, [Fresh EXCEPT !.stage = stage, !.fault = fault]),
         UNCHANGED <<store, posts, views>>
  PROVE  Inv'
<1> DEFINE q == [Fresh EXCEPT !.stage = stage, !.fault = fault]
<1>1. /\ q \in Called /\ q.op = "none" /\ q.stage = stage /\ q.counted = FALSE
      /\ DOMAIN q.items = {} /\ DOMAIN q.rows = {} /\ call' = [call EXCEPT ![c] = q]
  BY FreshCall DEF Called, Set
<1> HIDE DEF q
<1>2. Fits(q)
  BY <1>1 DEF Fits
<1>3. QED
  BY <1>1, <1>2, CallKeeps

\* One more row is kept.
LEMMA KeepKeeps ==
  ASSUME Inv, NEW c \in Calls, NEW row \in Rows, MoreMedia(c), Right(row), Keep(c, row),
         UNCHANGED <<store, posts, views>>
  PROVE  Inv'
<1> DEFINE rows == Append(call[c].rows, row)
           q == [call[c] EXCEPT !.rows = rows, !.size = initialImageHeaderSize]
<1>1. call' = [call EXCEPT ![c] = q]
  BY DEF Keep, Set
<1>2. rows \in Seq(Rows) /\ \A i \in DOMAIN rows : Right(rows[i])
  <2>1. call[c].rows \in Seq(Rows) /\ \A i \in DOMAIN call[c].rows : Right(call[c].rows[i])
    BY OfOne DEF Called, Fits
  <2>2. \A i \in DOMAIN rows : rows[i] = row \/ (i \in DOMAIN call[c].rows /\ rows[i] = call[c].rows[i])
    BY <2>1
  <2>3. QED
    BY <2>1, <2>2
<1> HIDE DEF rows
<1>3. /\ q \in Called /\ q.op = call[c].op /\ q.post = call[c].post /\ q.stage = call[c].stage
      /\ q.items = call[c].items /\ q.rows = rows /\ q.shown = call[c].shown
      /\ q.counted = call[c].counted
  BY <1>2, OfOne DEF Called, initialImageHeaderSize
<1> HIDE DEF q
<1>4. Fits(q)
  BY <1>2, <1>3, OfOne DEF Fits, MoreMedia
<1>5. QED
  BY <1>1, <1>3, <1>4, CallKeeps

\* The item a call is at.
LEMMA ItemIs ==
  ASSUME Inv, NEW c \in Calls, MoreMedia(c)
  PROVE  Item(c) \in Items /\ Meant(Item(c)) /\ ~call[c].counted /\ call[c].size \in {1, 4, 16}
<1>1. /\ call[c].stage = "media" /\ call[c].rows \in Seq(Rows) /\ call[c].items \in Seq(Items)
      /\ Len(call[c].rows) < Len(call[c].items) /\ call[c].size \in {1, 4, 16}
  BY OfOne DEF MoreMedia, Called
<1>2. Len(call[c].rows) + 1 \in DOMAIN call[c].items
  BY <1>1
<1>3. QED
  BY <1>1, <1>2, OfOne DEF Fits, Item

\* Media: the row that is kept has the key and the size of what is meant.
LEMMA MediaKeeps ==
  ASSUME Inv, NEW c \in Calls, KeepVideo(c) \/ ImageDimensions(c) \/ StoreFails(c)
  PROVE  Inv'
<1> DEFINE item == Item(c)
           f == ObjectAt(KeyOf(item))
           seen == landed[item.means]
<1>1. /\ MoreMedia(c) /\ UNCHANGED <<store, posts, views>>
  BY DEF KeepVideo, ImageDimensions, StoreFails, store
<1>2. item \in Items /\ Meant(item) /\ ~call[c].counted
  BY <1>1, ItemIs
<1>3. seen \in Nat
  BY <1>2 DEF Items, Inv, TypeOK
<1>4. \A path, absolute, size :
        Row(item, path, absolute, size)
          = [ref |-> [absolute |-> absolute, path |-> path], type |-> item.type, size |-> size,
             means |-> item.means, seen |-> seen]
  BY DEF Row
<1>5. CASE KeepVideo(c)
  <2> DEFINE row == [ref |-> [absolute |-> item.ref.absolute, path |-> item.ref.path],
                     type |-> item.type, size |-> None, means |-> item.means, seen |-> seen]
  <2> HIDE DEF seen
  <2>1. item.type = "video" /\ Keep(c, row)
    BY <1>4, <1>5 DEF KeepVideo
  <2> HIDE DEF item
  <2>2. row \in Rows /\ row.type = "video"
    BY <1>2, <1>3, <2>1 DEF Rows, Items, Refs, Sizes
  <2> HIDE DEF row
  <2>3. Right(row)
    BY <2>2 DEF Right
  <2>4. QED
    BY <1>1, <2>1, <2>2, <2>3, KeepKeeps
<1>6. ASSUME NEW fault \in BOOLEAN, Refuse(c, fault) PROVE Inv'
  BY <1>1, <1>2, <1>6, RefuseKeeps DEF Refuse
<1>7. CASE ImageDimensions(c) /\ \A fault \in BOOLEAN : ~Refuse(c, fault)
  <2>1. /\ item.type = "image" /\ f # None
        /\ \/ Keep(c, Row(item, KeyOf(item), FALSE, f.size))
           \/ /\ Set(c, [call[c] EXCEPT !.size = @ * 4])
              /\ ~(call[c].size * 4 > maxImageHeaderSize)
    BY <1>7 DEF ImageDimensions
  <2>2. CASE Keep(c, Row(item, KeyOf(item), FALSE, f.size))
    <3> DEFINE row == [ref |-> [absolute |-> FALSE, path |-> <<item.means>>],
                       type |-> item.type, size |-> f.size, means |-> item.means, seen |-> seen]
    <3>1. KeyOf(item) = <<item.means>>
      BY <1>2, <2>1, KeyIsMeant DEF Inv
    <3>2. f = object[item.means] /\ item.means \in Keys \cup Cards
      BY <1>2, <3>1 DEF ObjectAt, Items
    <3> HIDE DEF seen, f, item
    <3>3. Keep(c, row)
      BY <1>4, <2>2, <3>1
    <3>4. f \in Files
      BY <2>1, <3>2 DEF Inv, TypeOK
    <3>5. f.size \in Sizes
      BY <3>4 DEF Sizes
    <3>6. <<item.means>> \in Seq(Segments)
      BY <3>2, UploadsAssumption
    <3>7. row \in Rows
      BY <1>2, <1>3, <3>2, <3>5, <3>6 DEF Rows, Items, Refs
    <3>8. Right(row)
      BY <1>3, <3>2 DEF Right, seen
    <3> HIDE DEF row
    <3>9. QED
      BY <1>1, <3>3, <3>7, <3>8, KeepKeeps
  <2>3. CASE Set(c, [call[c] EXCEPT !.size = @ * 4]) /\ ~(call[c].size * 4 > maxImageHeaderSize)
    <3> DEFINE q == [call[c] EXCEPT !.size = @ * 4]
    <3>1. call' = [call EXCEPT ![c] = q]
      BY <2>3 DEF Set
    <3>2. call[c].size * 4 \in {1, 4, 16}
      BY <2>3, OfOne DEF Called, maxImageHeaderSize
    <3>3. /\ q \in Called /\ q.op = call[c].op /\ q.post = call[c].post
          /\ q.stage = call[c].stage /\ q.items = call[c].items /\ q.rows = call[c].rows
          /\ q.shown = call[c].shown /\ q.counted = call[c].counted
      BY <3>2, OfOne DEF Called
    <3> HIDE DEF q
    <3>4. Fits(q)
      BY <1>1, <3>3, OfOne DEF Fits, MoreMedia
    <3>5. QED
      BY <1>1, <3>1, <3>3, <3>4, CallKeeps
  <2>4. QED
    BY <2>1, <2>2, <2>3
<1>8. QED
  BY <1>5, <1>6, <1>7 DEF StoreFails

\* The post is written.
LEMMA WriteKeeps ==
  ASSUME Inv, NEW c \in Calls, Write(c)
  PROVE  Inv'
<1> DEFINE p == call[c].post
           q == [Fresh EXCEPT !.stage = "done"]
<1>1. /\ call[c].stage = "media" /\ UNCHANGED <<store, views>> /\ ~call[c].counted
      /\ p \in Calls /\ call[c].rows \in Seq(Rows)
      /\ \A i \in DOMAIN call[c].rows : Right(call[c].rows[i])
  BY OfOne DEF Write, store, Called, Fits
<1>2. CASE UNCHANGED posts /\ Set(c, [Fresh EXCEPT !.stage = "failed"])
  <2>1. [Fresh EXCEPT !.stage = "failed"] = [Fresh EXCEPT !.stage = "failed", !.fault = FALSE]
    BY FreshCall DEF Called
  <2>2. QED
    BY <1>1, <1>2, <2>1, RefuseKeeps
<1>3. CASE posts' = [posts EXCEPT ![p] = call[c].rows] /\ call' = [call EXCEPT ![c] = q]
  <2>1. /\ q \in Called /\ q.op = "none" /\ q.stage = "done" /\ q.counted = FALSE
        /\ DOMAIN q.items = {} /\ DOMAIN q.rows = {}
    BY FreshCall DEF Called
  <2> HIDE DEF q
  <2>2. /\ call'[c] = q /\ call' \in [Calls -> Called]
        /\ \A d \in Calls \ {c} : call'[d] = call[d]
    BY <1>3, <2>1 DEF Inv, TypeOK
  <2>3. TypeOK'
    BY <1>1, <1>3, <2>2 DEF store, Inv, TypeOK
  <2>4. \A d \in Calls : posts[d] # None => posts'[d] # None
    BY <1>1, <1>3, UploadsAssumption DEF Inv, TypeOK
  <2>5. ASSUME NEW d \in Calls PROVE Fits(call[d])'
    <3>1. CASE d = c
      BY <2>1, <2>2, <3>1 DEF Fits
    <3>2. CASE d # c
      <4>1. PICK o \in Called : o = call'[d] /\ Fits(o)
        BY <2>2, <3>2, OfOne
      <4>2. QED
        BY <1>1, <2>4, <4>1 DEF store, Fits, Right
    <3>3. QED
      BY <3>1, <3>2
  <2>6. ASSUME NEW s \in Calls, posts'[s] # None, NEW i \in DOMAIN posts'[s]
        PROVE  Right(posts[s][i])'
    <3>1. CASE s = p
      <4>1. posts'[s] = call[c].rows
        BY <1>3, <3>1 DEF Inv, TypeOK
      <4>2. QED
        BY <1>1, <2>6, <4>1 DEF store, Right
    <3>2. CASE s # p
      <4>1. posts'[s] = posts[s]
        BY <1>3, <3>2 DEF Inv, TypeOK
      <4>2. QED
        BY <1>1, <2>6, <4>1 DEF store, Inv, Right
    <3>3. QED
      BY <3>1, <3>2
  <2>7. ViewsAddUp'
    <3> SUFFICES ASSUME NEW s \in Calls
        PROVE  LET counted == {d \in Calls : call'[d].post = s /\ call'[d].counted}
               IN  /\ views[s] = Cardinality(counted)
                   /\ \A d \in counted : call'[d].shown < views[s]
      BY <1>1 DEF ViewsAddUp
    <3>1. {d \in Calls : call'[d].post = s /\ call'[d].counted}
            = {d \in Calls : call[d].post = s /\ call[d].counted}
      BY <1>1, <2>1, <2>2
    <3>2. \A d \in Calls : call'[d].counted => call'[d] = call[d]
      BY <2>1, <2>2
    <3>3. QED
      BY <3>1, <3>2 DEF Inv, ViewsAddUp
  <2>8. QED
    BY <2>3, <2>5, <2>6, <2>7 DEF Inv
<1>4. QED
  BY <1>2, <1>3 DEF Write, Set

\* GetByID reads the post, and then its media.
LEMMA ReadsKeep ==
  ASSUME Inv, NEW c \in Calls, ReadPost(c) \/ ShowMedia(c)
  PROVE  Inv'
<1> DEFINE Reads(stage, items, shown) ==
             /\ Set(c, [call[c] EXCEPT !.stage = stage, !.items = items, !.shown = shown])
             /\ UNCHANGED <<store, posts, views>>
             /\ call[c].stage \in {"row", "show"}
             /\ \A i \in DOMAIN items : Meant(items[i])
             /\ stage = "view" => posts[call[c].post] # None /\ shown = views[call[c].post]
             /\ stage # "view" => shown = call[c].shown
             /\ call[c].stage = "row" => ~call[c].counted
             /\ stage = "view" => call[c].stage = "row"
<1>1. PICK stage \in {"view", "done", "failed"}, items \in Seq(Items), shown \in Nat :
        Reads(stage, items, shown)
  <2>1. /\ call[c].items \in Seq(Items) /\ call[c].shown \in Nat /\ call[c] \in Called
        /\ \A i \in DOMAIN call[c].items : Meant(call[c].items[i])
    BY OfOne DEF Called, Fits
  <2>2. CASE ReadPost(c)
    <3>1. /\ call[c].stage = "row" /\ ~call[c].counted /\ call[c].post \in Calls
          /\ UNCHANGED <<store, posts, views>>
      BY <2>2, OfOne DEF ReadPost, Fits, store
    <3>2. CASE Set(c, [call[c] EXCEPT !.stage = "failed"])
      <4>1. [call[c] EXCEPT !.stage = "failed"]
              = [call[c] EXCEPT !.stage = "failed", !.items = call[c].items, !.shown = call[c].shown]
        BY <2>1 DEF Called
      <4>2. QED
        BY <2>1, <3>1, <3>2, <4>1
    <3>3. CASE /\ Set(c, [call[c] EXCEPT !.stage = "view", !.shown = views[call[c].post]])
               /\ posts[call[c].post] # None
      <4>1. views[call[c].post] \in Nat
        BY <3>1 DEF Inv, TypeOK
      <4>2. [call[c] EXCEPT !.stage = "view", !.shown = views[call[c].post]]
              = [call[c] EXCEPT !.stage = "view", !.items = call[c].items,
                                !.shown = views[call[c].post]]
        BY <2>1 DEF Called
      <4>3. QED
        BY <2>1, <3>1, <3>3, <4>1, <4>2
    <3>4. QED
      BY <2>2, <3>2, <3>3 DEF ReadPost
  <2>3. CASE ShowMedia(c)
    <3> DEFINE rows == posts[call[c].post]
               Shown(i) == [ref |-> CDNURL(rows[i].ref), type |-> rows[i].type,
                            means |-> rows[i].means, shown |-> TRUE]
               items == [i \in DOMAIN rows |-> Shown(i)]
    <3>1. /\ call[c].stage = "show" /\ UNCHANGED <<store, posts, views>>
          /\ rows \in Seq(Rows) /\ \A i \in DOMAIN rows : Right(rows[i])
      BY <2>3, OfOne DEF ShowMedia, store, Fits, Inv, TypeOK
    <3>2. CASE Set(c, [call[c] EXCEPT !.stage = "failed"])
      <4>1. [call[c] EXCEPT !.stage = "failed"]
              = [call[c] EXCEPT !.stage = "failed", !.items = call[c].items, !.shown = call[c].shown]
        BY <2>1 DEF Called
      <4>2. QED
        BY <2>1, <3>1, <3>2, <4>1
    <3>3. CASE Set(c, [call[c] EXCEPT !.stage = "done", !.items = items])
      <4>1. ASSUME NEW i \in DOMAIN rows PROVE Shown(i) \in Items /\ Meant(Shown(i))
        <5>1. rows[i] \in Rows /\ Right(rows[i])
          BY <3>1
        <5>2. /\ rows[i].ref \in Refs /\ rows[i].type \in Types /\ rows[i].means \in Keys \cup Cards
              /\ rows[i].ref.path \in Seq(Segments)
          BY <5>1 DEF Rows, Refs
        <5>3. CDNURL(rows[i].ref) \in Refs
          <6>1. Base # None => Base \o rows[i].ref.path \in Seq(Segments)
            BY <5>2, UploadsAssumption
          <6>2. QED
            BY <5>2, <6>1 DEF CDNURL, Refs
        <5>4. Shown(i) \in Items
          BY <5>2, <5>3 DEF Items
        <5>5. rows[i].type = "image" =>
                \/ CDNURL(rows[i].ref) \in References(rows[i].means)
                \/ /\ Base # None
                   /\ CDNURL(rows[i].ref) = [absolute |-> TRUE, path |-> Base \o <<rows[i].means>>]
          <6> SUFFICES ASSUME rows[i].type = "image"
              PROVE  \/ CDNURL(rows[i].ref) \in References(rows[i].means)
                     \/ /\ Base # None
                        /\ CDNURL(rows[i].ref)
                             = [absolute |-> TRUE, path |-> Base \o <<rows[i].means>>]
            OBVIOUS
          <6>1. rows[i].ref = [absolute |-> FALSE, path |-> <<rows[i].means>>]
            BY <5>1 DEF Right
          <6> HIDE DEF rows
          <6>2. rows[i].ref \in References(rows[i].means)
            BY <6>1 DEF References
          <6>3. rows[i].ref.path = <<rows[i].means>>
            BY <6>1
          <6>4. QED
            BY <6>2, <6>3 DEF CDNURL
        <5>6. Meant(Shown(i))
          BY <5>5 DEF Meant
        <5>7. QED
          BY <5>4, <5>6
      <4> HIDE DEF Shown
      <4>2. Len(rows) \in Nat /\ DOMAIN rows = 1..Len(rows)
        BY <3>1
      <4>3. items \in [1..Len(rows) -> Items]
        BY <4>1, <4>2
      <4>4. items \in Seq(Items) /\ \A i \in DOMAIN items : Meant(items[i])
        BY <4>1, <4>2, <4>3
      <4> HIDE DEF items
      <4>5. [call[c] EXCEPT !.stage = "done", !.items = items]
              = [call[c] EXCEPT !.stage = "done", !.items = items, !.shown = call[c].shown]
        BY <2>1 DEF Called
      <4>6. QED
        <5>1. Reads("done", items, call[c].shown)
          BY <2>1, <3>1, <3>3, <4>4, <4>5
        <5>2. QED
          BY <2>1, <4>4, <5>1
    <3>4. QED
      BY <2>3, <3>2, <3>3 DEF ShowMedia
  <2>4. QED
    BY <2>2, <2>3
<1> DEFINE q == [call[c] EXCEPT !.stage = stage, !.items = items, !.shown = shown]
<1>2. /\ q \in Called /\ q.op = call[c].op /\ q.post = call[c].post /\ q.stage = stage
      /\ q.items = items /\ q.rows = call[c].rows /\ q.shown = shown
      /\ q.counted = call[c].counted /\ call' = [call EXCEPT ![c] = q]
  BY <1>1, OfOne DEF Called, Set
<1> HIDE DEF q
<1>3. call[c].op = "GetByID" /\ call[c].post \in Calls
  BY <1>1, OfOne DEF Fits
<1>4. stage = "view" => shown <= views[call[c].post]
  BY <1>1, <1>3 DEF Inv, TypeOK
<1>5. Fits(q)
  BY <1>1, <1>2, <1>3, <1>4, OfOne DEF Fits
<1>6. QED
  BY <1>1, <1>2, <1>5, CallKeeps

\* GetByID counts its view, or fails to.
LEMMA CountKeeps ==
  ASSUME Inv, NEW c \in Calls, IncrementViewCount(c)
  PROVE  Inv'
<1> DEFINE p == call[c].post
<1>1. /\ call[c].stage = "view" /\ UNCHANGED <<store, posts>> /\ ~call[c].counted
      /\ call[c].op = "GetByID" /\ p \in Calls /\ posts[p] # None /\ call[c].shown <= views[p]
      /\ call[c] \in Called /\ views[p] \in Nat
  BY OfOne DEF IncrementViewCount, store, Fits, Inv, TypeOK
<1>2. CASE UNCHANGED views /\ Set(c, [call[c] EXCEPT !.stage = "show"])
  <2> DEFINE q == [call[c] EXCEPT !.stage = "show"]
  <2>1. /\ q \in Called /\ q.op = call[c].op /\ q.post = p /\ q.stage = "show"
        /\ q.items = call[c].items /\ q.rows = call[c].rows /\ q.shown = call[c].shown
        /\ q.counted = call[c].counted /\ call' = [call EXCEPT ![c] = q]
    BY <1>2, OfOne DEF Called, Set
  <2> HIDE DEF q
  <2>2. Fits(q)
    BY <1>1, <2>1, OfOne DEF Fits
  <2>3. QED
    BY <1>1, <1>2, <2>1, <2>2, CallKeeps
<1>3. CASE /\ views' = [views EXCEPT ![p] = @ + 1]
           /\ Set(c, [call[c] EXCEPT !.stage = "show", !.counted = TRUE])
  <2> DEFINE q == [call[c] EXCEPT !.stage = "show", !.counted = TRUE]
  <2>1. /\ q \in Called /\ q.op = call[c].op /\ q.post = p /\ q.stage = "show"
        /\ q.items = call[c].items /\ q.rows = call[c].rows /\ q.shown = call[c].shown
        /\ q.counted = TRUE /\ call' = [call EXCEPT ![c] = q]
    BY <1>3, OfOne DEF Called, Set
  <2> HIDE DEF q
  <2>2. /\ call'[c] = q /\ call' \in [Calls -> Called]
        /\ \A d \in Calls \ {c} : call'[d] = call[d]
    BY <2>1 DEF Inv, TypeOK
  <2> HIDE DEF p
  <2>3. /\ views' \in [Calls -> Nat] /\ views'[p] = views[p] + 1
        /\ \A s \in Calls \ {p} : views'[s] = views[s]
        /\ \A s \in Calls : views[s] \in Nat /\ views[s] <= views'[s]
    BY <1>1, <1>3 DEF Inv, TypeOK
  <2>4. TypeOK'
    BY <1>1, <2>2, <2>3 DEF store, Inv, TypeOK
  <2>5. ASSUME NEW d \in Calls PROVE Fits(call[d])'
    <3>1. PICK o \in Called : o = call'[d]
      BY <2>2
    <3>2. CASE d = c
      <4>1. /\ o.op = "GetByID" /\ o.post = p /\ o.stage = "show" /\ o.shown < views'[p]
            /\ o.items = call[c].items /\ o.rows = call[c].rows /\ call[c].shown \in Nat
        BY <1>1, <2>1, <2>2, <2>3, <3>1, <3>2 DEF Called
      <4>2. QED
        BY <1>1, <2>3, <3>1, <4>1, OfOne DEF store, Fits, Right
    <3>3. CASE d # c
      <4>1. Fits(o) /\ o.shown \in Nat
        BY <2>2, <3>1, <3>3, OfOne DEF Called
      <4>2. o.op = "GetByID" => /\ o.post \in Calls
                                /\ o.shown <= views[o.post] => o.shown <= views'[o.post]
                                /\ o.shown < views[o.post] => o.shown < views'[o.post]
        BY <2>3, <4>1 DEF Fits
      <4>3. QED
        BY <1>1, <3>1, <4>1, <4>2 DEF store, Fits, Right
    <3>4. QED
      BY <3>2, <3>3
  <2>6. \A s \in Calls : posts'[s] # None => \A i \in DOMAIN posts'[s] : Right(posts[s][i])'
    BY <1>1 DEF store, Inv, Right
  <2>7. ViewsAddUp'
    <3> SUFFICES ASSUME NEW s \in Calls
        PROVE  LET counted == {d \in Calls : call'[d].post = s /\ call'[d].counted}
               IN  /\ views'[s] = Cardinality(counted)
                   /\ \A d \in counted : call'[d].shown < views'[s]
      BY DEF ViewsAddUp
    <3> DEFINE was == {d \in Calls : call[d].post = s /\ call[d].counted}
               is == {d \in Calls : call'[d].post = s /\ call'[d].counted}
    <3>1. \A d \in is : call'[d].shown < views'[s]
      BY <2>5 DEF Fits
    <3>2. views[s] = Cardinality(was) /\ IsFiniteSet(was)
      BY UploadsAssumption, FS_Subset DEF Inv, ViewsAddUp
    <3>3. CASE s = p
      <4>1. is = was \cup {c} /\ c \notin was
        BY <1>1, <2>1, <2>2, <3>3 DEF p
      <4>2. Cardinality(is) = Cardinality(was) + 1
        BY <3>2, <4>1, FS_AddElement
      <4>3. QED
        BY <2>3, <3>1, <3>2, <3>3, <4>2
    <3>4. CASE s # p
      <4>1. is = was
        BY <1>1, <2>1, <2>2, <3>4 DEF p
      <4>2. QED
        BY <2>3, <3>1, <3>2, <3>4, <4>1
    <3>5. QED
      BY <3>3, <3>4
  <2>8. QED
    BY <2>4, <2>5, <2>6, <2>7 DEF Inv
<1>4. QED
  BY <1>2, <1>3 DEF IncrementViewCount

-----------------------------------------------------------------------------

LEMMA InitHolds == Init => Inv
<1> SUFFICES ASSUME Init PROVE Inv
  OBVIOUS
<1>1. TypeOK
  <2>1. object \in [Keys \cup Cards -> Files \cup {None}]
    BY DEF Init
  <2>2. QED
    BY <2>1, FreshCall DEF Init, TypeOK
<1>2. \A c \in Calls : call[c] = Fresh /\ posts[c] = None /\ views[c] = 0
  BY DEF Init
<1>3. \A c \in Calls : Fits(call[c])
  BY <1>2, FreshCall DEF Fits
<1>4. ViewsAddUp
  <2>1. \A p \in Calls : {c \in Calls : call[c].post = p /\ call[c].counted} = {}
    BY <1>2, FreshCall
  <2>2. QED
    BY <1>2, <2>1, FS_EmptySet DEF ViewsAddUp
<1>5. QED
  BY <1>1, <1>2, <1>3, <1>4 DEF Inv

LEMMA NextKeeps == Inv /\ [Next]_vars => Inv'
<1>1. ASSUME Inv, Next PROVE Inv'
  BY <1>1, StoreKeeps, StartsKeep, MediaKeeps, WriteKeeps, ReadsKeep, CountKeeps DEF Next
<1>2. ASSUME Inv, UNCHANGED vars PROVE Inv'
  <2>1. TypeOK' /\ ViewsAddUp'
    BY <1>2 DEF store, vars, Inv, TypeOK, ViewsAddUp
  <2>2. ASSUME NEW c \in Calls PROVE Fits(call[c])'
    BY <1>2, OfOne DEF store, vars, Fits, Right
  <2>3. \A p \in Calls : posts'[p] # None => \A i \in DOMAIN posts'[p] : Right(posts[p][i])'
    BY <1>2 DEF store, vars, Inv, Right
  <2>4. QED
    BY <2>1, <2>2, <2>3 DEF Inv
<1>3. QED
  BY <1>1, <1>2

\* The invariant holds in every state.
THEOREM Invariant == Spec => []Inv
BY InitHolds, NextKeeps, PTL DEF Spec

-----------------------------------------------------------------------------
(* What follows from it *)

\* The tables, the store and the calls have the types their columns and
\* variables declare.
THEOREM TypeCorrect == Spec => []TypeOK
<1>1. Inv => TypeOK
  BY DEF Inv
<1>2. QED
  BY <1>1, Invariant, PTL

\* view_count is the number of reads that counted, none of which shows its own
\* (post.go: GetByID; queries: IncrementViewCount).
THEOREM ViewsCounted == Spec => []ViewsAddUp
<1>1. Inv => ViewsAddUp
  BY DEF Inv
<1>2. QED
  BY <1>1, Invariant, PTL

\* The size of a posted image is that of its object, unless a PUT has landed on
\* it since its header was read (media.go: PresignPutObject, ImageDimensions).
THEOREM SizeKept == Spec => []SizeWrongNeedsPut
<1>1. Inv => SizeWrongNeedsPut
  <2> SUFFICES ASSUME Inv, NEW p \in Calls, posts[p] # None, NEW i \in DOMAIN posts[p],
                      posts[p][i].type = "image",
                      posts[p][i].size # object[posts[p][i].means].size
      PROVE  landed[posts[p][i].means] > posts[p][i].seen
    BY DEF SizeWrongNeedsPut
  <2>1. PICK row \in Rows : row = posts[p][i] /\ Right(row)
    BY DEF Inv, TypeOK
  <2>2. /\ row.seen \in Nat /\ landed[row.means] \in Nat
        /\ row.seen <= landed[row.means] /\ row.seen # landed[row.means]
    BY <2>1 DEF Right, Rows, Inv, TypeOK
  <2>3. QED
    BY <2>1, <2>2
<1>2. QED
  BY <1>1, Invariant, PTL

\* A call that keeps a row or asks for more bytes is still at its media.
LEMMA MediaStage ==
  ASSUME Inv, NEW c \in Calls
  PROVE  /\ \A row : Keep(c, row) => call'[c].stage = call[c].stage
         /\ Set(c, [call[c] EXCEPT !.size = @ * 4]) => call'[c].stage = call[c].stage
<1>1. call[c] \in Called
  BY OfOne
<1>2. ASSUME NEW row, Keep(c, row) PROVE call'[c].stage = call[c].stage
  <2> DEFINE rows == Append(call[c].rows, row)
  <2>1. call'[c] = [call[c] EXCEPT !.rows = rows, !.size = initialImageHeaderSize]
    BY <1>2 DEF Keep, Set, Inv, TypeOK
  <2> HIDE DEF rows
  <2>2. QED
    BY <1>1, <2>1 DEF Called
<1>3. ASSUME Set(c, [call[c] EXCEPT !.size = @ * 4]) PROVE call'[c].stage = call[c].stage
  BY <1>1, <1>3 DEF Set, Inv, TypeOK, Called
<1>4. QED
  BY <1>2, <1>3

\* Images are read and stored under the key of the object that is meant, and
\* refused only for what that object is, for a failure of the store or for a
\* base that is not the bucket (media.go: ObjectKeyFromURL, ImageDimensions;
\* post.go: toCreatePostMediaParams).
THEOREM MeantIsRead == Spec => MeantObjectIsRead
<1>1. ASSUME Inv, Inv', [Next]_vars PROVE ReadsMeantObject
  <2> SUFFICES ASSUME NEW c \in Calls
      PROVE  /\ \A i \in DOMAIN call'[c].rows :
                  LET row == call'[c].rows[i]
                  IN  row.type = "image" => row.ref.path = <<row.means>>
             /\ call[c].stage = "media" /\ call'[c].stage = "refused" /\ ~call'[c].fault =>
                  \/ ~Readable(object[Item(c).means])
                  \/ Item(c).shown /\ Base \notin {None, <<>>, <<Bucket>>}
    BY DEF ReadsMeantObject
  <2>1. ASSUME NEW i \in DOMAIN call'[c].rows
        PROVE  LET row == call'[c].rows[i]
               IN  row.type = "image" => row.ref.path = <<row.means>>
    <3>1. call'[c].rows[i].type = "image" =>
            call'[c].rows[i].ref = [absolute |-> FALSE, path |-> <<call'[c].rows[i].means>>]
      BY <1>1, <2>1 DEF Inv, Fits, Right
    <3>2. QED
      BY <3>1
  <2>2. ASSUME call[c].stage = "media", call'[c].stage = "refused", ~call'[c].fault
        PROVE  \/ ~Readable(object[Item(c).means])
               \/ Item(c).shown /\ Base \notin {None, <<>>, <<Bucket>>}
    <3>1. ImageDimensions(c)
      <4>1. call'[c] # call[c] /\ call' # call
        BY <2>2
      <4>2. PICK d \in Calls :
              \/ StartCreate(d) \/ StartUpdate(d) \/ StartEdit(d) \/ StartGet(d)
              \/ KeepVideo(d) \/ ImageDimensions(d) \/ StoreFails(d) \/ Write(d)
              \/ ReadPost(d) \/ IncrementViewCount(d) \/ ShowMedia(d)
        BY <1>1, <4>1 DEF Next, vars, Presign, BeginPut, LandPut, Expire
      <4>3. \E q : call' = [call EXCEPT ![d] = q]
        BY <4>2 DEF StartCreate, StartUpdate, StartEdit, StartGet, Start, KeepVideo, Keep,
           ImageDimensions, Refuse, StoreFails, Write, ReadPost, IncrementViewCount, ShowMedia, Set
      <4>4. d = c
        BY <1>1, <4>1, <4>3 DEF Inv, TypeOK
      <4>5. call'[c].stage = "refused" /\ ~call'[c].fault /\ call[c].stage = "media"
        BY <2>2
      <4>6. ~(StartCreate(c) \/ StartUpdate(c) \/ StartEdit(c) \/ StartGet(c) \/ ReadPost(c)
               \/ IncrementViewCount(c) \/ ShowMedia(c))
        BY <4>5 DEF StartCreate, StartUpdate, StartEdit, StartGet, Start, ReadPost,
           IncrementViewCount, ShowMedia
      <4>7. ~KeepVideo(c)
        BY <1>1, <4>5, MediaStage DEF KeepVideo
      <4>8. ~StoreFails(c)
        <5>1. ASSUME Refuse(c, TRUE) PROVE FALSE
          <6>1. call'[c] = [Fresh EXCEPT !.stage = "refused", !.fault = TRUE]
            BY <1>1, <5>1 DEF Refuse, Set, Inv, TypeOK
          <6>2. QED
            BY <4>5, <6>1, FreshCall DEF Called
        <5>2. QED
          BY <5>1 DEF StoreFails
      <4>9. ~Write(c)
        <5>1. ASSUME NEW stage \in {"done", "failed"}, Set(c, [Fresh EXCEPT !.stage = stage])
              PROVE  FALSE
          <6>1. call'[c] = [Fresh EXCEPT !.stage = stage]
            BY <1>1, <5>1 DEF Set, Inv, TypeOK
          <6>2. QED
            BY <4>5, <6>1, FreshCall DEF Called
        <5>2. QED
          BY <5>1 DEF Write
      <4>10. QED
        BY <4>2, <4>4, <4>6, <4>7, <4>8, <4>9
    <3> DEFINE item == Item(c)
               f == ObjectAt(KeyOf(item))
               size == call[c].size
               decoded == f.header # None /\ f.header <= size
               last == f.length < size \/ size * 4 > maxImageHeaderSize
    <3>2. MoreMedia(c) /\ item.type = "image"
      BY <3>1 DEF ImageDimensions
    <3>3. item \in Items /\ Meant(item) /\ size \in {1, 4, 16}
      BY <1>1, <3>2, ItemIs
    <3>4. f = None \/ (~decoded /\ last) \/ (decoded /\ f.size = None)
      <4>1. CASE ~(f = None \/ (~decoded /\ last) \/ (decoded /\ f.size = None))
        <5>1. \/ Keep(c, Row(item, KeyOf(item), FALSE, f.size))
              \/ Set(c, [call[c] EXCEPT !.size = @ * 4])
          BY <3>1, <4>1 DEF ImageDimensions
        <5>2. call'[c].stage = "media"
          BY <1>1, <2>2, <5>1, MediaStage
        <5>3. QED
          BY <2>2, <5>2
      <4>2. QED
        BY <4>1
    <3>5. CASE KeyOf(item) = <<item.means>>
      <4>1. f = object[item.means] /\ f \in Files \cup {None}
        BY <1>1, <3>3, <3>5 DEF ObjectAt, Items, Inv, TypeOK
      <4>2. f # None => /\ f.length \in Nat /\ f.header \in Nat \cup {None}
                        /\ f.header # None => f.header <= f.length
        BY <4>1, UploadsAssumption
      <4> HIDE DEF f, item, size
      <4>3. ~Readable(f)
        BY <3>3, <3>4, <4>2 DEF Readable, maxImageHeaderSize
      <4>4. QED
        BY <4>1, <4>3 DEF item
    <3>6. CASE item.shown /\ Base \notin {None, <<>>, <<Bucket>>}
      BY <3>6
    <3>7. QED
      BY <1>1, <3>2, <3>3, <3>5, <3>6, KeyIsMeant DEF Inv
  <2>3. QED
    BY <2>1, <2>2
<1>2. Inv /\ Inv' /\ [Next]_vars => [ReadsMeantObject]_vars
  BY <1>1
<1>3. QED
  BY <1>2, Invariant, PTL DEF Spec, MeantObjectIsRead
=============================================================================
