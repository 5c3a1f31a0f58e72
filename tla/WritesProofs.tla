---------------------------- MODULE WritesProofs ----------------------------
(***************************************************************************)
(* Proofs about Writes, for any number of posts, tags and concurrent       *)
(* requests.  The inductive invariant, Inv, says what a transaction holds  *)
(* at each of its statements: the lock on the post's row makes the media   *)
(* and tags it has seen the ones that are there, and ids are created once. *)
(***************************************************************************)
EXTENDS Writes, FiniteSetTheorems, WellFoundedInduction, TLAPS

-----------------------------------------------------------------------------
(* The inductive invariant *)

Writing(q) == q.op \in {"Create", "Update"}

\* The statements each operation consists of, and on what post.
AtPoint(r, q) ==
  /\ q.at = "idle" => q.op = "none"
  /\ q.at = "images" => Writing(q)
  /\ q.at \in {"lookup", "scan", "commit"} => q.op = "Delete"
  /\ q.at \in {"post", "media"} => Writing(q) \/ q.op = "Delete"
  /\ q.at = "untag" => Writing(q)
  /\ q.at = "tag" => Writing(q) \/ q.op = "CreateTag"
  /\ q.op \in {"Create", "Update", "Delete"} => q.post \in Posts
  /\ q.op = "Create" => q.post \notin OldPosts /\ Owner[q.post] = Caller[r]
  /\ q.op = "CreateTag" => q.at \in {"tag", "done"}

\* What the transaction has of its post.  It is the caller's and stays there
\* while it is locked; a Delete that locked nothing found no post.
HoldsPost(r, q) ==
  /\ Writing(q) /\ q.at \in {"media", "untag", "tag"} => q.locked
  /\ q.locked => \/ Writing(q) /\ q.at \in {"media", "untag", "tag"}
                 \/ q.op = "Delete" /\ q.at = "commit"
  /\ q.locked /\ q.op = "Update" => q.post \in posts /\ Owner[q.post] = Caller[r]
  /\ q.op = "Delete" /\ q.at = "commit" /\ ~q.locked => q.post \notin posts
  /\ q.gone # {} => q.locked \/ q.op = "Delete"
  /\ Writing(q) /\ q.at \in {"untag", "tag"} => q.gone = media[q.post]
  /\ Writing(q) /\ q.at = "tag" => q.untagged = post_tags[q.post]

Injective(list) ==
  \A i, j \in 1..Len(list) : i # j => list[i] # list[j]

\* The tags upserted so far are the first ones of the list.
HoldsTags(q) ==
  /\ Injective(q.list) /\ Len(q.list) <= MaxTags
  /\ IsFiniteSet(q.upserted) /\ Cardinality(q.upserted) <= Len(q.list)
  /\ q.upserted = {q.list[i] : i \in 1..Cardinality(q.upserted)}
  /\ q.upserted # {} => q.at = "tag"

\* The post has been there at some time.
Known(p) ==
  p \in OldPosts \/ \E c \in Requests :
                      req[c].op = "Create" /\ req[c].post = p /\ req[c].at = "done"

\* What is created is new, and what is deleted has been there.
KnowsPost(q) ==
  /\ q.op = "Create" /\ q.at # "done" => ~Known(q.post)
  /\ q.op = "Delete" /\ q.at \in {"scan", "media", "post", "commit"} => Known(q.post)

Fits(r, q) == AtPoint(r, q) /\ HoldsPost(r, q) /\ HoldsTags(q) /\ KnowsPost(q)

\* q, a request of r, has its post's row and its new id to itself.
Alone(r, q) ==
  \A s \in Requests \ {r} :
    /\ q.locked /\ req[s].locked => q.post # req[s].post
    /\ q.op = "Create" /\ req[s].op = "Create" => q.post # req[s].post

Inv ==
  /\ TypeOK
  /\ \A r \in Requests : Fits(r, req[r]) /\ Alone(r, req[r])
  /\ \A p \in posts : Known(p)
  /\ \A p \in Posts : title[p] # None => req[title[p]].at = "done"
  /\ PostIsOneWrite

-----------------------------------------------------------------------------
(* The tags of a request *)

\* The first n positions are n.
LEMMA Positions ==
  ASSUME NEW n \in Nat
  PROVE  IsFiniteSet(1..n) /\ Cardinality(1..n) = n
BY FS_Interval

\* Lists of no tag and of one.
LEMMA ShortLists ==
  /\ <<>> \in Seq(Names) /\ Len(<<>>) = 0
  /\ \A n \in Names : <<n>> \in Seq(Names) /\ Len(<<n>>) = 1
OBVIOUS

\* Every rank up to the size of a set of positions is the rank of one.
LEMMA NthExists ==
  ASSUME NEW m \in Nat, NEW S \in SUBSET (1..m), NEW n \in 1..Cardinality(S)
  PROVE  Nth(S, n) \in S /\ Cardinality({j \in S : j <= Nth(S, n)}) = n
<1> DEFINE Upto(i) == {j \in S : j <= i}
           size == Cardinality(S)
           rank == [i \in S |-> Cardinality(Upto(i))]
<1>1. IsFiniteSet(S) /\ size \in Nat
  BY Positions, FS_Subset, FS_CardinalityType
<1>2. \A i \in S : IsFiniteSet(Upto(i)) /\ Cardinality(Upto(i)) \in 1..size
  <2> SUFFICES ASSUME NEW i \in S
      PROVE  IsFiniteSet(Upto(i)) /\ Cardinality(Upto(i)) \in 1..size
    OBVIOUS
  <2>1. IsFiniteSet(Upto(i)) /\ Cardinality(Upto(i)) <= size
    BY <1>1, FS_Subset
  <2>2. i \in Upto(i)
    OBVIOUS
  <2>3. Cardinality(Upto(i)) \in Nat /\ Cardinality(Upto(i)) # 0
    BY <2>1, <2>2, FS_CardinalityType, FS_EmptySet
  <2>4. QED
    BY <1>1, <2>1, <2>3
<1>3. rank \in Injection(S, 1..size)
  <2>1. ASSUME NEW i \in S, NEW j \in S, i < j PROVE Cardinality(Upto(i)) # Cardinality(Upto(j))
    <3>1. Upto(i) \in SUBSET Upto(j) /\ j \in Upto(j) /\ j \notin Upto(i)
      <4>1. i \in Nat /\ j \in Nat /\ \A l \in S : l \in Nat
        OBVIOUS
      <4>2. i <= j /\ j <= j /\ ~(j <= i) /\ \A l \in S : l <= i => l <= j
        BY <2>1, <4>1
      <4>3. QED
        BY <4>2
    <3>2. Upto(i) # Upto(j)
      BY <3>1
    <3>3. QED
      BY <1>2, <3>1, <3>2, FS_Subset
  <2>2. rank \in [S -> 1..size]
    BY <1>2
  <2>3. \A i, j \in S : rank[i] = rank[j] => i = j
    BY <2>1
  <2>4. QED
    BY <2>2, <2>3 DEF Injection, IsInjective
<1>4. IsFiniteSet(1..size) /\ Cardinality(1..size) = size
  BY <1>1, Positions
<1>5. rank \in Surjection(S, 1..size)
  <2> HIDE DEF rank, size
  <2>1. QED
    BY <1>3, <1>4, FS_Injection DEF size
<1>6. \E i \in S : Cardinality(Upto(i)) = n
  BY <1>5 DEF Surjection
<1>7. QED
  BY <1>6 DEF Nth

\* What is left of a list that is not refused are different names.
LEMMA NormalTagsNames ==
  ASSUME NEW list \in Seq(DOMAIN NameOf), ~Refused(list)
  PROVE  /\ NormalTags(list) \in Seq(Names) /\ Injective(NormalTags(list))
         /\ Len(NormalTags(list)) <= MaxTags
<1> DEFINE kept == Kept(list)
           size == Cardinality(kept)
           out == [n \in 1..size |-> NameOf[list[Nth(kept, n)]]]
<1>1. /\ Len(list) \in Nat /\ kept \in SUBSET (1..Len(list))
      /\ \A i \in 1..Len(list) : list[i] \in DOMAIN NameOf
      /\ Len(list) <= MaxTags
  BY WritesAssumption DEF Kept, Refused
<1>2. size \in Nat /\ size <= MaxTags
  <2>1. IsFiniteSet(1..Len(list)) /\ Cardinality(1..Len(list)) = Len(list)
    BY <1>1, Positions
  <2>2. IsFiniteSet(kept) /\ size <= Len(list)
    BY <1>1, <2>1, FS_Subset
  <2>3. size \in Nat
    BY <2>2, FS_CardinalityType
  <2>4. QED
    BY <1>1, <2>2, <2>3, WritesAssumption
<1>3. \A n \in 1..size : Nth(kept, n) \in kept /\ Cardinality({j \in kept : j <= Nth(kept, n)}) = n
  BY <1>1, NthExists
<1>4. \A i \in kept : NameOf[list[i]] \in Names
  BY <1>1, WritesAssumption DEF Kept, Refused
<1>5. out \in [1..size -> Names]
  BY <1>3, <1>4
<1>6. \A m, n \in 1..size : m # n => out[m] # out[n]
  <2> SUFFICES ASSUME NEW m \in 1..size, NEW n \in 1..size, m # n
      PROVE  NameOf[list[Nth(kept, m)]] # NameOf[list[Nth(kept, n)]]
    OBVIOUS
  <2>1. Nth(kept, m) # Nth(kept, n)
    BY <1>3
  <2>2. \A i, j \in kept : i < j => NameOf[list[i]] # NameOf[list[j]]
    BY <1>1 DEF Kept
  <2>3. Nth(kept, m) \in kept /\ Nth(kept, n) \in kept
    BY <1>3
  <2> DEFINE i == Nth(kept, m)
             j == Nth(kept, n)
  <2>4. i \in Nat /\ j \in Nat
    BY <1>1, <2>3
  <2> HIDE DEF i, j, kept
  <2>5. i < j \/ j < i
    BY <2>1, <2>4 DEF i, j
  <2>6. QED
    BY <2>2, <2>3, <2>5 DEF i, j
<1>7. out \in Seq(Names) /\ Len(out) = size
  <2> HIDE DEF out, size
  <2>1. QED
    BY <1>2, <1>5
<1>8. NormalTags(list) = out
  BY DEF NormalTags
<1>9. QED
  <2> HIDE DEF out, size
  <2>1. QED
    BY <1>2, <1>6, <1>7, <1>8 DEF Injective

-----------------------------------------------------------------------------
(* The inductive invariant is one *)

\* A statement of r that leaves the tables alone keeps the invariant if what
\* it makes of r's record is right.
LEMMA StatementKeeps ==
  ASSUME Inv, NEW r \in Requests, NEW q \in Requested, req[r].at # "done",
         Set(r, q), UNCHANGED tables,
         q.at = "done" => q.op = "none",
         Fits(r, q), Alone(r, q)
  PROVE  Inv'
<1>1. /\ req' \in [Requests -> Requested] /\ req'[r] = q
      /\ \A s \in Requests \ {r} : req'[s] = req[s]
      /\ UNCHANGED <<posts, title, media, post_tags, tags>>
  BY DEF Inv, TypeOK, Set, tables
<1>2. \A p : Known(p)' <=> Known(p)
  BY <1>1 DEF Known
<1>3. TypeOK'
  BY <1>1 DEF Inv, TypeOK
<1>4. ASSUME NEW s \in Requests PROVE Fits(s, req[s])'
  <2>1. Fits(s, req'[s])
    BY <1>1 DEF Inv
  <2>2. AtPoint(s, req[s])' /\ HoldsTags(req[s])'
    BY <2>1 DEF Fits, AtPoint, HoldsTags, Writing, Injective
  <2>3. HoldsPost(s, req[s])'
    BY <1>1, <2>1 DEF Fits, HoldsPost, Writing
  <2>4. KnowsPost(req[s])'
    BY <1>2, <2>1 DEF Fits, KnowsPost
  <2>5. QED
    BY <2>2, <2>3, <2>4 DEF Fits
<1>5. \A s \in Requests : Alone(s, req[s])'
  BY <1>1 DEF Inv, Alone
<1>6. \A p \in Posts : title[p] # None => title[p] \in Requests \ {r} /\ req[title[p]].at = "done"
  BY DEF Inv, TypeOK
<1>7. PostIsOneWrite'
  BY <1>1, <1>6 DEF Inv, TypeOK, PostIsOneWrite
<1>8. QED
  BY <1>1, <1>2, <1>3, <1>4, <1>5, <1>6, <1>7 DEF Inv

\* What a request has that has written nothing and does not know its post.
LEMMA AbortKeeps ==
  ASSUME Inv, NEW r \in Requests, req[r].at # "done",
         NEW status \in {"bad", "missing", "forbidden", "failed"},
         Abort(r, status), UNCHANGED tables
  PROVE  Inv'
<1> DEFINE q == [Fresh EXCEPT !.at = "done", !.status = status]
<1>1. /\ Set(r, q) /\ q \in Requested
      /\ q.at = "done" /\ q.op = "none" /\ q.list = <<>> /\ ~q.locked
      /\ q.gone = {} /\ q.upserted = {}
  BY ShortLists DEF Abort, Fresh, Requested
<1> HIDE DEF q
<1>2. HoldsTags(q)
  <2>1. {q.list[i] : i \in 1..0} = {}
    OBVIOUS
  <2>2. QED
    BY <1>1, <2>1, FS_EmptySet, WritesAssumption DEF HoldsTags, Injective
<1>3. Fits(r, q) /\ Alone(r, q)
  BY <1>1, <1>2 DEF Fits, AtPoint, HoldsPost, KnowsPost, Alone, Writing
<1>4. QED
  BY <1>1, <1>3, StatementKeeps

\* A list of different names of which none has been upserted yet.
LEMMA NoTagsYet ==
  ASSUME NEW q \in Requested, q.upserted = {}, Injective(q.list), Len(q.list) <= MaxTags
  PROVE  HoldsTags(q)
<1>1. {q.list[i] : i \in 1..0} = {} /\ Len(q.list) \in Nat
  BY DEF Requested
<1>2. QED
  BY <1>1, FS_EmptySet DEF HoldsTags

\* The requests that begin.
LEMMA BeginKeeps ==
  ASSUME Inv, NEW r \in Requests, Begin(r)
  PROVE  Inv'
<1>1. req[r].at = "idle"
  BY DEF Begin, StartCreate, StartUpdate, Start, StartDelete, StartTag
<1>2. ASSUME NEW op \in {"Create", "Update"}, NEW p \in Posts, NEW body \in Bodies,
             Start(r, op, p, body),
             op = "Create" => /\ p \notin OldPosts /\ Owner[p] = Caller[r]
                              /\ \A s \in Requests : req[s].op = "Create" => req[s].post # p
      PROVE  Inv'
  <2>1. CASE Refused(body.tags)
    BY <1>1, <1>2, <2>1, AbortKeeps DEF Start
  <2>2. CASE ~Refused(body.tags)
    <3> DEFINE list == NormalTags(body.tags)
               q == [Fresh EXCEPT !.op = op, !.post = p, !.list = list,
                                  !.withMedia = body.media, !.at = "images"]
    <3>1. body.tags \in Seq(DOMAIN NameOf) /\ body.media \in BOOLEAN
      BY WritesAssumption
    <3>2. list \in Seq(Names) /\ Injective(list) /\ Len(list) <= MaxTags
      BY <2>2, <3>1, NormalTagsNames
    <3>3. Set(r, q) /\ UNCHANGED tables
      BY <1>2, <2>2 DEF Start
    <3> HIDE DEF list
    <3>4. /\ q \in Requested /\ q.op = op /\ q.at = "images" /\ q.post = p /\ q.list = list
          /\ ~q.locked /\ q.gone = {} /\ q.upserted = {}
      BY <3>1, <3>2 DEF Fresh, Requested
    <3> HIDE DEF q
    <3>5. HoldsTags(q)
      BY <3>2, <3>4, NoTagsYet
    <3>6. Fits(r, q) /\ Alone(r, q)
      BY <1>2, <3>4, <3>5 DEF Fits, AtPoint, HoldsPost, KnowsPost, Known, Alone, Writing
    <3>7. QED
      BY <1>1, <3>3, <3>4, <3>6, StatementKeeps
  <2>3. QED
    BY <2>1, <2>2
<1>3. ASSUME NEW p \in Posts, StartDelete(r, p) PROVE Inv'
  <2> DEFINE q == [Fresh EXCEPT !.op = "Delete", !.post = p, !.at = "lookup"]
  <2>1. /\ q \in Requested /\ q.op = "Delete" /\ q.at = "lookup" /\ q.post = p /\ q.list = <<>>
        /\ ~q.locked /\ q.gone = {} /\ q.upserted = {} /\ Set(r, q) /\ UNCHANGED tables
    BY <1>3, ShortLists DEF StartDelete, Fresh, Requested
  <2> HIDE DEF q
  <2>2. HoldsTags(q)
    BY <2>1, NoTagsYet, WritesAssumption DEF Injective
  <2>3. Fits(r, q) /\ Alone(r, q)
    BY <2>1, <2>2 DEF Fits, AtPoint, HoldsPost, KnowsPost, Alone, Writing
  <2>4. QED
    BY <1>1, <2>1, <2>3, StatementKeeps
<1>4. ASSUME NEW s \in DOMAIN NameOf, StartTag(r, s) PROVE Inv'
  <2>1. CASE NameOf[s] \in Names
    <3> DEFINE q == [Fresh EXCEPT !.op = "CreateTag", !.list = <<NameOf[s]>>, !.at = "tag"]
    <3>1. /\ q \in Requested /\ q.op = "CreateTag" /\ q.at = "tag" /\ q.list = <<NameOf[s]>>
          /\ ~q.locked /\ q.gone = {} /\ q.upserted = {} /\ Set(r, q) /\ UNCHANGED tables
      BY <1>4, <2>1, ShortLists DEF StartTag, Fresh, Requested
    <3> HIDE DEF q
    <3>2. HoldsTags(q)
      <4>1. Len(q.list) = 1 /\ 1 <= MaxTags
        BY <2>1, <3>1, ShortLists, WritesAssumption
      <4>2. Injective(q.list)
        BY <4>1 DEF Injective
      <4>3. QED
        BY <3>1, <4>1, <4>2, NoTagsYet
    <3>3. Fits(r, q) /\ Alone(r, q)
      BY <3>1, <3>2 DEF Fits, AtPoint, HoldsPost, KnowsPost, Alone, Writing
    <3>4. QED
      BY <1>1, <3>1, <3>3, StatementKeeps
  <2>2. CASE NameOf[s] \notin Names
    BY <1>1, <1>4, <2>2, AbortKeeps DEF StartTag
  <2>3. QED
    BY <2>1, <2>2
<1>5. QED
  BY <1>2, <1>3, <1>4 DEF Begin, StartCreate, StartUpdate

\* The statements of a write up to its tags, and of a deletion up to its
\* commit, except those that lock the post.
LEMMA RowsKeep ==
  ASSUME Inv, NEW r \in Requests,
         \/ ReadImages(r) \/ LookupPost(r) \/ ScanMedia(r)
         \/ DeleteMedia(r) \/ DeletePostTags(r)
  PROVE  Inv'
<1> DEFINE q == req[r]
<1>1. /\ q \in Requested /\ Fits(r, q) /\ Alone(r, q) /\ UNCHANGED tables
      /\ q.at # "done"
  BY DEF Inv, TypeOK, ReadImages, LookupPost, ScanMedia, DeleteMedia, DeletePostTags
<1>2. CASE ReadImages(r)
  <2> DEFINE new == [q EXCEPT !.at = "post"]
  <2>1. CASE Set(r, new)
    <3>1. new \in Requested
      BY <1>1 DEF Requested
    <3>2. Fits(r, new) /\ Alone(r, new)
      BY <1>1, <1>2 DEF ReadImages, Requested, Fits, AtPoint, HoldsPost, HoldsTags, KnowsPost,
                        Alone, Writing
    <3>3. new.at # "done"
      BY <1>1 DEF Requested
    <3>4. QED
      BY <1>1, <2>1, <3>1, <3>2, <3>3, StatementKeeps
  <2>2. CASE Abort(r, "bad")
    BY <1>1, <2>2, AbortKeeps
  <2>3. QED
    BY <1>2, <2>1, <2>2 DEF ReadImages
<1>3. CASE LookupPost(r)
  <2> DEFINE new == [q EXCEPT !.at = "scan"]
  <2>1. CASE Set(r, new) /\ q.post \in posts
    <3>1. new \in Requested /\ new.at # "done" /\ Known(q.post)
      BY <1>1, <2>1 DEF Requested, Inv
    <3>2. Fits(r, new) /\ Alone(r, new)
      BY <1>1, <1>3, <3>1 DEF LookupPost, Requested, Fits, AtPoint, HoldsPost, HoldsTags,
                              KnowsPost, Alone, Writing
    <3>3. QED
      BY <1>1, <2>1, <3>1, <3>2, StatementKeeps
  <2>2. CASE Abort(r, "missing") \/ Abort(r, "forbidden")
    BY <1>1, <2>2, AbortKeeps
  <2>3. QED
    BY <1>3, <2>1, <2>2 DEF LookupPost
<1>4. CASE ScanMedia(r)
  <2> DEFINE new == [q EXCEPT !.scan = media[q.post], !.at = "media"]
  <2>1. q.post \in Posts /\ media[q.post] \in SUBSET (Requests \cup {None})
    BY <1>1, <1>4 DEF ScanMedia, Fits, AtPoint, Inv, TypeOK
  <2>2. Set(r, new) /\ new \in Requested /\ new.at # "done"
    BY <1>1, <1>4, <2>1 DEF ScanMedia, Requested
  <2>3. Fits(r, new) /\ Alone(r, new)
    BY <1>1, <1>4 DEF ScanMedia, Requested, Fits, AtPoint, HoldsPost, HoldsTags, KnowsPost,
                      Alone, Writing
  <2>4. QED
    BY <1>1, <2>2, <2>3, StatementKeeps
<1>5. CASE DeleteMedia(r)
  <2> DEFINE rows == MediaSeen(r) \cap media[q.post]
             to == IF q.op = "Delete" THEN "post" ELSE "untag"
             new == [q EXCEPT !.gone = rows, !.scan = {}, !.at = to]
  <2>1. /\ q.at = "media" /\ q.post \in Posts /\ rows \in SUBSET (Requests \cup {None})
        /\ Writing(q) => rows = media[q.post]
    BY <1>1, <1>5 DEF DeleteMedia, Fits, AtPoint, Inv, TypeOK, Writing, MediaSeen
  <2>2. Set(r, new)
    BY <1>5 DEF DeleteMedia
  <2>3. to \in {"post", "untag"} /\ (to = "post" <=> q.op = "Delete")
    OBVIOUS
  <2> HIDE DEF rows, to
  <2>4. new \in Requested /\ new.at # "done"
    BY <1>1, <2>1, <2>3 DEF Requested
  <2>5. Fits(r, new) /\ Alone(r, new)
    BY <1>1, <2>1, <2>3 DEF Requested, Fits, AtPoint, HoldsPost, HoldsTags, KnowsPost, Alone, Writing
  <2>6. QED
    BY <1>1, <2>2, <2>4, <2>5, StatementKeeps
<1>6. CASE DeletePostTags(r)
  <2> DEFINE new == [q EXCEPT !.untagged = post_tags[q.post], !.at = "tag"]
  <2>1. q.at = "untag" /\ q.post \in Posts /\ post_tags[q.post] \in SUBSET Names
    BY <1>1, <1>6 DEF DeletePostTags, Fits, AtPoint, Inv, TypeOK, Writing
  <2>2. Set(r, new) /\ new \in Requested /\ new.at # "done"
    BY <1>1, <1>6, <2>1 DEF DeletePostTags, Requested
  <2>3. Fits(r, new) /\ Alone(r, new)
    BY <1>1, <2>1 DEF Requested, Fits, AtPoint, HoldsPost, HoldsTags, KnowsPost, Alone, Writing
  <2>4. QED
    BY <1>1, <2>2, <2>3, StatementKeeps
<1>7. QED
  BY <1>2, <1>3, <1>4, <1>5, <1>6

\* The statements that lock the post, if it is there.
LEMMA LockKeeps ==
  ASSUME Inv, NEW r \in Requests, WritePost(r) \/ DeletePost(r)
  PROVE  Inv'
<1> DEFINE q == req[r]
<1>1. /\ q \in Requested /\ Fits(r, q) /\ Alone(r, q) /\ UNCHANGED tables
      /\ q.at = "post"
  BY DEF Inv, TypeOK, WritePost, DeletePost
<1>2. CASE WritePost(r)
  <2> DEFINE new == [q EXCEPT !.locked = TRUE, !.at = "media"]
  <2>1. CASE Set(r, new) /\ PostFree(r, q.post)
             /\ (q.op = "Update" => q.post \in posts /\ Owner[q.post] = Caller[r])
    <3>1. new \in Requested /\ new.at # "done"
      BY <1>1 DEF Requested
    <3>2. Fits(r, new)
      BY <1>1, <1>2, <2>1 DEF WritePost, Requested, Fits, AtPoint, HoldsPost, HoldsTags,
                              KnowsPost, Writing
    <3>3. Alone(r, new)
      BY <1>1, <2>1 DEF Requested, Alone, PostFree
    <3>4. QED
      BY <1>1, <2>1, <3>1, <3>2, <3>3, StatementKeeps
  <2>2. CASE Abort(r, "missing")
    BY <1>1, <2>2, AbortKeeps
  <2>3. QED
    BY <1>2, <2>1, <2>2 DEF WritePost
<1>3. CASE DeletePost(r)
  <2> DEFINE there == q.post \in posts
             new == [q EXCEPT !.locked = there, !.at = "commit"]
  <2>1. /\ Set(r, new) /\ there \in BOOLEAN /\ q.op = "Delete"
        /\ there => PostFree(r, q.post)
        /\ ~there <=> q.post \notin posts
    BY <1>3 DEF DeletePost
  <2> HIDE DEF there
  <2>2. new \in Requested /\ new.at # "done"
    BY <1>1, <2>1 DEF Requested
  <2>3. Fits(r, new)
    BY <1>1, <2>1 DEF Requested, Fits, AtPoint, HoldsPost, HoldsTags, KnowsPost, Writing
  <2>4. Alone(r, new)
    BY <1>1, <2>1 DEF Requested, Alone, PostFree
  <2>5. QED
    BY <1>1, <2>1, <2>2, <2>3, <2>4, StatementKeeps
<1>4. QED
  BY <1>2, <1>3

\* The next tag of the list is one that has not been upserted.
LEMMA UpsertKeeps ==
  ASSUME Inv, NEW r \in Requests, UpsertTag(r)
  PROVE  Inv'
<1> DEFINE q == req[r]
           done == Cardinality(q.upserted)
           name == q.list[done + 1]
           more == q.upserted \cup {name}
           new == [q EXCEPT !.upserted = more]
<1>1. /\ q \in Requested /\ Fits(r, q) /\ Alone(r, q) /\ UNCHANGED tables
      /\ q.at = "tag" /\ Set(r, new) /\ done < Len(q.list)
  BY DEF Inv, TypeOK, UpsertTag, Tagging, NextTag
<1>2. /\ IsFiniteSet(q.upserted) /\ done \in Nat /\ Len(q.list) \in Nat
      /\ done + 1 \in 1..Len(q.list) /\ \A i \in 1..Len(q.list) : q.list[i] \in Names
  BY <1>1, FS_CardinalityType DEF Fits, HoldsTags, Requested
<1>3. name \notin q.upserted
  BY <1>1, <1>2 DEF Fits, HoldsTags, Injective
<1>4. IsFiniteSet(more) /\ Cardinality(more) = done + 1
  BY <1>2, <1>3, FS_AddElement
<1>5. more = {q.list[i] : i \in 1..(done + 1)}
  <2>1. 1..(done + 1) = (1..done) \cup {done + 1}
    BY <1>2
  <2>2. q.upserted = {q.list[i] : i \in 1..done}
    BY <1>1 DEF Fits, HoldsTags
  <2> HIDE DEF done, name
  <2>3. {q.list[i] : i \in (1..done) \cup {done + 1}} = {q.list[i] : i \in 1..done} \cup {name}
    BY DEF name
  <2>4. QED
    BY <2>1, <2>2, <2>3
<1>6. more \in SUBSET Names
  BY <1>1, <1>2 DEF Requested
<1> HIDE DEF more, done
<1>7. /\ new \in Requested /\ new.upserted = more /\ new.list = q.list /\ new.at = "tag"
      /\ new.op = q.op /\ new.post = q.post /\ new.locked = q.locked
      /\ new.gone = q.gone /\ new.untagged = q.untagged
  BY <1>1, <1>6 DEF Requested
<1> HIDE DEF new
<1>8. HoldsTags(new)
  <2>1. Injective(new.list) /\ Len(new.list) <= MaxTags /\ Len(new.list) = Len(q.list)
    BY <1>1, <1>7 DEF Fits, HoldsTags
  <2>2. IsFiniteSet(new.upserted) /\ Cardinality(new.upserted) = done + 1
    BY <1>4, <1>7
  <2>3. done + 1 <= Len(q.list)
    BY <1>2
  <2>4. new.upserted = {new.list[i] : i \in 1..Cardinality(new.upserted)}
    BY <1>5, <1>7, <2>2
  <2>5. QED
    BY <1>7, <2>1, <2>2, <2>3, <2>4 DEF HoldsTags
<1>9. Fits(r, new) /\ Alone(r, new)
  BY <1>1, <1>7, <1>8 DEF Fits, AtPoint, HoldsPost, KnowsPost, Alone, Writing
<1>10. QED
  BY <1>1, <1>7, <1>9, StatementKeeps

\* A request that has committed keeps what it wrote, and holds nothing.
LEMMA AnswerGivesBack ==
  ASSUME Inv, NEW r \in Requests, req[r].at # "done", req[r].op # "none",
         NEW status \in {"ok", "failed"}, Answer(r, status)
  PROVE  /\ req' \in [Requests -> Requested]
         /\ \A s \in Requests \ {r} : req'[s] = req[s]
         /\ req'[r].at = "done" /\ ~req'[r].locked
         /\ req'[r].gone = {} /\ req'[r].upserted = {}
         /\ req'[r].op = req[r].op /\ req'[r].post = req[r].post
         /\ req'[r].list = req[r].list /\ req'[r].withMedia = req[r].withMedia
         /\ \A p : Known(p)' <=> Known(p) \/ (req[r].op = "Create" /\ p = req[r].post)
<1> DEFINE q == req[r]
           new == [q EXCEPT !.at = "done", !.status = status, !.locked = FALSE,
                            !.scan = {}, !.gone = {}, !.untagged = {}, !.upserted = {}]
<1>1. q \in Requested /\ Set(r, new)
  BY DEF Inv, TypeOK, Answer
<1>2. /\ new \in Requested /\ new.at = "done" /\ ~new.locked /\ new.gone = {}
      /\ new.upserted = {} /\ new.op = q.op /\ new.post = q.post
      /\ new.list = q.list /\ new.withMedia = q.withMedia
  BY <1>1 DEF Requested
<1> HIDE DEF new
<1>3. /\ req' \in [Requests -> Requested] /\ req'[r] = new
      /\ \A s \in Requests \ {r} : req'[s] = req[s]
  BY <1>1, <1>2 DEF Inv, TypeOK, Set
<1>4. \A p : Known(p)' <=> Known(p) \/ (q.op = "Create" /\ p = q.post)
  BY <1>2, <1>3 DEF Known
<1>5. QED
  BY <1>2, <1>3, <1>4

\* When the last tag is upserted, the rows are those of the list.
LEMMA AllUpserted ==
  ASSUME NEW q \in Requested, HoldsTags(q), ~(Cardinality(q.upserted) < Len(q.list))
  PROVE  q.upserted = ToSet(q.list)
<1>1. Cardinality(q.upserted) \in Nat /\ Len(q.list) \in Nat /\ DOMAIN q.list = 1..Len(q.list)
  BY FS_CardinalityType DEF HoldsTags, Requested
<1>2. Cardinality(q.upserted) = Len(q.list)
  BY <1>1 DEF HoldsTags
<1>3. q.upserted = {q.list[i] : i \in 1..Len(q.list)}
  BY <1>2 DEF HoldsTags
<1>4. QED
  BY <1>1, <1>3 DEF ToSet

\* Create and Update take effect.
LEMMA CommitPostKeeps ==
  ASSUME Inv, NEW r \in Requests, CommitWrite(r), req[r].op # "CreateTag"
  PROVE  Inv'
<1> DEFINE q == req[r]
           p == q.post
<1>1. /\ q \in Requested /\ Fits(r, q) /\ Alone(r, q) /\ q.at = "tag" /\ Writing(q)
      /\ p \in Posts /\ q.locked /\ Caller[r] = Owner[p]
      /\ q.gone = media[p] /\ q.untagged = post_tags[p]
  BY DEF Inv, TypeOK, CommitWrite, Fits, AtPoint, HoldsPost, Writing
<1>2. q.upserted = ToSet(q.list)
  BY <1>1, AllUpserted DEF CommitWrite, Tagging, Fits
<1>3. q.op = "Update" => p \in posts
  BY <1>1 DEF Fits, HoldsPost
<1>4. /\ posts' = posts \cup {p} /\ title' = [title EXCEPT ![p] = r]
      /\ media' = [media EXCEPT ![p] = IF q.withMedia THEN {r} ELSE {}]
      /\ post_tags' = [post_tags EXCEPT ![p] = ToSet(q.list)]
      /\ tags' = tags \cup q.upserted
  <2>1. /\ media' = [media EXCEPT ![p] = (@ \ q.gone) \cup IF q.withMedia THEN {r} ELSE {}]
        /\ post_tags' = [post_tags EXCEPT ![p] = (@ \ q.untagged) \cup q.upserted]
        /\ posts' = posts \cup {p} /\ title' = [title EXCEPT ![p] = r]
        /\ tags' = tags \cup q.upserted
    BY DEF CommitWrite
  <2>2. media \in [Posts -> SUBSET (Requests \cup {None})] /\ post_tags \in [Posts -> SUBSET Names]
    BY DEF Inv, TypeOK
  <2>3. /\ (media[p] \ q.gone) \cup (IF q.withMedia THEN {r} ELSE {})
             = IF q.withMedia THEN {r} ELSE {}
        /\ (post_tags[p] \ q.untagged) \cup q.upserted = ToSet(q.list)
    BY <1>1, <1>2
  <2>4. QED
    BY <1>1, <2>1, <2>2, <2>3
<1>5. PICK status \in {"ok", "failed"} : Answer(r, status)
  BY DEF CommitWrite
<1>6. /\ req' \in [Requests -> Requested]
      /\ \A s \in Requests \ {r} : req'[s] = req[s]
      /\ req'[r].at = "done" /\ ~req'[r].locked
      /\ req'[r].gone = {} /\ req'[r].upserted = {}
      /\ req'[r].op = q.op /\ req'[r].post = p
      /\ req'[r].list = q.list /\ req'[r].withMedia = q.withMedia
      /\ \A x : Known(x)' <=> Known(x) \/ (q.op = "Create" /\ x = p)
  BY <1>1, <1>5, AnswerGivesBack DEF Writing
<1>7. TypeOK'
  <2>1. q.upserted \in SUBSET Names
    BY <1>1 DEF Requested
  <2>2. QED
    BY <1>1, <1>2, <1>4, <1>6, <2>1 DEF Inv, TypeOK
<1>8. ASSUME NEW s \in Requests \ {r} PROVE Fits(s, req[s])' /\ Alone(s, req[s])'
  <2>1. Fits(s, req[s]) /\ Alone(s, req[s]) /\ req'[s] = req[s] /\ req[s] \in Requested
    BY <1>6 DEF Inv, TypeOK
  <2>2. AtPoint(s, req[s])' /\ HoldsTags(req[s])'
    BY <2>1 DEF Fits, AtPoint, HoldsTags, Writing, Injective
  <2>3. KnowsPost(req[s])'
    BY <1>1, <1>6, <2>1 DEF Fits, KnowsPost, Alone
  <2>4. HoldsPost(s, req[s])'
    <3>1. /\ req[s].locked => req[s].post # p
          /\ req[s].post # p => /\ req[s].post \in posts' <=> req[s].post \in posts
                                /\ req[s].post \in Posts =>
                                     /\ media'[req[s].post] = media[req[s].post]
                                     /\ post_tags'[req[s].post] = post_tags[req[s].post]
      BY <1>1, <1>4, <2>1 DEF Alone, Inv, TypeOK
    <3>2. req[s].op = "Delete" /\ req[s].at = "commit" /\ req[s].post = p => p \in posts
      BY <1>1, <1>3, <2>1 DEF Fits, KnowsPost, Writing
    <3>3. QED
      BY <1>4, <2>1, <3>1, <3>2 DEF Fits, HoldsPost, AtPoint, Writing
  <2>5. Alone(s, req[s])'
    BY <1>6, <2>1 DEF Alone
  <2>6. QED
    BY <2>2, <2>3, <2>4, <2>5 DEF Fits
<1>9. Fits(r, req[r])' /\ Alone(r, req[r])'
  <2>1. HoldsTags(req[r])'
    BY <1>1, <1>6, <1>7, NoTagsYet DEF Fits, HoldsTags, TypeOK
  <2>2. AtPoint(r, req[r])' /\ HoldsPost(r, req[r])' /\ KnowsPost(req[r])'
    BY <1>1, <1>6 DEF Fits, AtPoint, HoldsPost, KnowsPost, Writing
  <2>3. Alone(r, req[r])'
    BY <1>1, <1>6 DEF Alone
  <2>4. QED
    BY <2>1, <2>2, <2>3 DEF Fits
<1>10. \A x \in posts' : Known(x)'
  BY <1>1, <1>3, <1>4, <1>6 DEF Inv, Writing
<1>11. \A x \in Posts : title'[x] # None => req'[title'[x]].at = "done"
  BY <1>1, <1>4, <1>6 DEF Inv, TypeOK
<1>12. PostIsOneWrite'
  <2> SUFFICES ASSUME NEW x \in posts'
      PROVE  LET w == title'[x]
             IN  IF w = None THEN media'[x] \subseteq {None} /\ post_tags'[x] = {}
                 ELSE /\ Caller[w] = Owner[x]
                      /\ media'[x] = IF req'[w].withMedia THEN {w} ELSE {}
                      /\ post_tags'[x] = ToSet(req'[w].list)
    BY DEF PostIsOneWrite
  <2>1. CASE x = p
    <3>1. title'[x] = r /\ r # None
      BY <1>1, <1>4, <2>1, WritesAssumption DEF Inv, TypeOK
    <3>2. /\ media'[x] = IF q.withMedia THEN {r} ELSE {}
          /\ post_tags'[x] = ToSet(q.list)
      BY <1>1, <1>4, <2>1 DEF Inv, TypeOK
    <3>3. QED
      BY <1>1, <1>6, <2>1, <3>1, <3>2
  <2>2. CASE x # p
    <3>1. /\ x \in posts /\ x \in Posts
          /\ title'[x] = title[x] /\ media'[x] = media[x] /\ post_tags'[x] = post_tags[x]
      BY <1>4, <2>2 DEF Inv, TypeOK
    <3>2. title[x] # None => req'[title[x]] = req[title[x]]
      BY <1>1, <1>6, <3>1 DEF Inv, TypeOK
    <3>3. QED
      BY <3>1, <3>2 DEF Inv, PostIsOneWrite
  <2>3. QED
    BY <2>1, <2>2
<1>13. QED
  BY <1>7, <1>8, <1>9, <1>10, <1>11, <1>12 DEF Inv

\* CreateTag takes effect: the posts are not concerned.
LEMMA CommitTagKeeps ==
  ASSUME Inv, NEW r \in Requests, CommitWrite(r), req[r].op = "CreateTag"
  PROVE  Inv'
<1> DEFINE q == req[r]
<1>1. /\ q \in Requested /\ Fits(r, q) /\ Alone(r, q) /\ q.at = "tag"
      /\ tags' = tags \cup q.upserted
      /\ UNCHANGED <<posts, title, media, post_tags>>
  BY DEF Inv, TypeOK, CommitWrite
<1>2. PICK status \in {"ok", "failed"} : Answer(r, status)
  BY DEF CommitWrite
<1>3. /\ req' \in [Requests -> Requested]
      /\ \A s \in Requests \ {r} : req'[s] = req[s]
      /\ req'[r].at = "done" /\ ~req'[r].locked
      /\ req'[r].gone = {} /\ req'[r].upserted = {}
      /\ req'[r].op = q.op /\ req'[r].list = q.list
      /\ \A x : Known(x)' <=> Known(x)
  BY <1>1, <1>2, AnswerGivesBack
<1>4. TypeOK'
  <2>1. q.upserted \in SUBSET Names
    BY <1>1 DEF Requested
  <2>2. QED
    BY <1>1, <1>3, <2>1 DEF Inv, TypeOK
<1>5. ASSUME NEW s \in Requests \ {r} PROVE Fits(s, req[s])' /\ Alone(s, req[s])'
  BY <1>1, <1>3 DEF Inv, Fits, AtPoint, HoldsPost, HoldsTags, KnowsPost, Alone, Writing, Injective
<1>6. Fits(r, req[r])' /\ Alone(r, req[r])'
  <2>1. HoldsTags(req[r])'
    BY <1>1, <1>3, NoTagsYet DEF Fits, HoldsTags
  <2>2. AtPoint(r, req[r])' /\ HoldsPost(r, req[r])' /\ KnowsPost(req[r])' /\ Alone(r, req[r])'
    BY <1>1, <1>3 DEF AtPoint, HoldsPost, KnowsPost, Alone, Writing
  <2>3. QED
    BY <2>1, <2>2 DEF Fits
<1>7. \A p \in Posts : title[p] # None => /\ title[p] \in Requests \ {r}
                                          /\ req'[title[p]] = req[title[p]]
                                          /\ req[title[p]].at = "done"
  BY <1>1, <1>3 DEF Inv, TypeOK
<1>8. PostIsOneWrite'
  BY <1>1, <1>7 DEF Inv, TypeOK, PostIsOneWrite
<1>9. QED
  BY <1>1, <1>3, <1>4, <1>5, <1>6, <1>7, <1>8 DEF Inv

\* A deletion takes effect.  No other transaction has the post's row: this
\* one has it, or has found none, and then the post can no longer be written.
LEMMA CommitDeleteKeeps ==
  ASSUME Inv, NEW r \in Requests, CommitDelete(r)
  PROVE  Inv'
<1> DEFINE q == req[r]
           p == q.post
<1>1. /\ q \in Requested /\ Fits(r, q) /\ Alone(r, q) /\ q.at = "commit"
      /\ q.op = "Delete" /\ p \in Posts /\ Known(p)
      /\ posts' = posts \ {p} /\ media' = [media EXCEPT ![p] = {}]
      /\ post_tags' = [post_tags EXCEPT ![p] = {}] /\ UNCHANGED <<title, tags>>
  BY DEF Inv, TypeOK, CommitDelete, Fits, AtPoint, KnowsPost
<1>2. PICK status \in {"ok", "failed"} : Answer(r, status)
  BY DEF CommitDelete
<1>3. /\ req' \in [Requests -> Requested]
      /\ \A s \in Requests \ {r} : req'[s] = req[s]
      /\ req'[r].at = "done" /\ ~req'[r].locked
      /\ req'[r].gone = {} /\ req'[r].upserted = {}
      /\ req'[r].op = q.op /\ req'[r].post = p /\ req'[r].list = q.list
      /\ \A x : Known(x)' <=> Known(x)
  BY <1>1, <1>2, AnswerGivesBack
<1>4. TypeOK'
  BY <1>1, <1>3 DEF Inv, TypeOK
<1>5. ASSUME NEW s \in Requests \ {r} PROVE Fits(s, req[s])' /\ Alone(s, req[s])'
  <2>1. Fits(s, req[s]) /\ Alone(s, req[s]) /\ req'[s] = req[s] /\ req[s] \in Requested
    BY <1>3 DEF Inv, TypeOK
  <2>2. AtPoint(s, req[s])' /\ HoldsTags(req[s])' /\ KnowsPost(req[s])' /\ Alone(s, req[s])'
    BY <1>3, <2>1 DEF Fits, AtPoint, HoldsTags, KnowsPost, Alone, Writing, Injective
  <2>3. Writing(req[s]) /\ req[s].locked => req[s].post # p
    <3>1. CASE q.locked
      BY <1>1, <2>1, <3>1 DEF Alone
    <3>2. CASE ~q.locked
      <4>1. p \notin posts
        BY <1>1, <3>2 DEF Fits, HoldsPost
      <4>2. QED
        BY <1>1, <2>1, <4>1 DEF Fits, HoldsPost, KnowsPost, Writing
    <3>3. QED
      BY <3>1, <3>2
  <2>4. HoldsPost(s, req[s])'
    BY <1>1, <2>1, <2>3 DEF Fits, AtPoint, HoldsPost, Writing, Inv, TypeOK
  <2>5. QED
    BY <2>2, <2>4 DEF Fits
<1>6. Fits(r, req[r])' /\ Alone(r, req[r])'
  <2>1. HoldsTags(req[r])'
    BY <1>1, <1>3, NoTagsYet DEF Fits, HoldsTags
  <2>2. AtPoint(r, req[r])' /\ HoldsPost(r, req[r])' /\ KnowsPost(req[r])' /\ Alone(r, req[r])'
    BY <1>1, <1>3 DEF AtPoint, HoldsPost, KnowsPost, Alone, Writing
  <2>3. QED
    BY <2>1, <2>2 DEF Fits
<1>7. \A x \in Posts : title[x] # None => /\ title[x] \in Requests \ {r}
                                          /\ req'[title[x]] = req[title[x]]
                                          /\ req[title[x]].at = "done"
  BY <1>1, <1>3 DEF Inv, TypeOK
<1>8. PostIsOneWrite'
  BY <1>1, <1>7 DEF Inv, TypeOK, PostIsOneWrite
<1>9. QED
  BY <1>1, <1>3, <1>4, <1>5, <1>6, <1>7, <1>8 DEF Inv

\* The posts there are at the beginning were not written by a request.
LEMMA InitHolds == Init => Inv
<1> SUFFICES ASSUME Init PROVE Inv
  OBVIOUS
<1> USE DEF Init
<1>1. \A r \in Requests : req[r] = Fresh
  OBVIOUS
<1>2. Fresh \in Requested /\ HoldsTags(Fresh)
  <2>1. Fresh \in Requested
    BY ShortLists DEF Fresh, Requested
  <2>2. Injective(<<>>) /\ Len(<<>>) <= MaxTags
    BY ShortLists, WritesAssumption DEF Injective
  <2>3. QED
    BY <2>1, <2>2, NoTagsYet DEF Fresh
<1>3. TypeOK
  BY <1>2, WritesAssumption DEF TypeOK
<1>4. \A r \in Requests : Fits(r, req[r]) /\ Alone(r, req[r])
  BY <1>1, <1>2 DEF Fits, AtPoint, HoldsPost, KnowsPost, Alone, Writing, Fresh
<1>5. \A p \in posts : Known(p)
  BY DEF Known
<1>6. PostIsOneWrite
  BY WritesAssumption DEF PostIsOneWrite
<1>7. QED
  BY <1>3, <1>4, <1>5, <1>6 DEF Inv

\* Every step keeps the invariant.
LEMMA NextKeeps == Inv /\ [Next]_vars => Inv'
<1> SUFFICES ASSUME Inv, [Next]_vars PROVE Inv'
  OBVIOUS
<1>1. CASE Next
  <2>1. PICK r \in Requests : Begin(r) \/ Step(r) \/ Timeout(r) \/ DeadlockVictim(r)
    BY <1>1 DEF Next
  <2>2. CASE Begin(r)
    BY <2>2, BeginKeeps
  <2>3. CASE Step(r)
    BY <2>3, RowsKeep, LockKeeps, UpsertKeeps, CommitPostKeeps, CommitTagKeeps,
       CommitDeleteKeeps DEF Step
  <2>4. CASE Timeout(r) \/ DeadlockVictim(r)
    BY <2>4, AbortKeeps DEF Timeout, DeadlockVictim, Free
  <2>5. QED
    BY <2>1, <2>2, <2>3, <2>4
<1>2. CASE UNCHANGED vars
  <2>1. UNCHANGED <<posts, title, media, post_tags, tags, req>>
    BY <1>2 DEF vars, tables
  <2>2. TypeOK' /\ PostIsOneWrite'
    BY <2>1 DEF Inv, TypeOK, PostIsOneWrite
  <2>3. \A p : Known(p)' <=> Known(p)
    BY <2>1 DEF Known
  <2>4. ASSUME NEW r \in Requests PROVE Fits(r, req[r])' /\ Alone(r, req[r])'
    <3>1. Fits(r, req[r]) /\ Alone(r, req[r])
      BY DEF Inv
    <3>2. AtPoint(r, req[r])' /\ HoldsTags(req[r])'
      BY <2>1, <3>1 DEF Fits, AtPoint, HoldsTags, Injective, Writing
    <3>3. HoldsPost(r, req[r])' /\ Alone(r, req[r])'
      BY <2>1, <3>1 DEF Fits, HoldsPost, Alone, Writing
    <3>4. KnowsPost(req[r])'
      BY <2>1, <2>3, <3>1 DEF Fits, KnowsPost
    <3>5. QED
      BY <3>1, <3>2, <3>3, <3>4 DEF Fits
  <2>5. QED
    BY <2>1, <2>2, <2>3, <2>4 DEF Inv
<1>3. QED
  BY <1>1, <1>2

\* The invariant holds in every state.
THEOREM Invariant == Spec => []Inv
BY InitHolds, NextKeeps, PTL DEF Spec

-----------------------------------------------------------------------------
(* What follows from it *)

\* The tables and the requests have the types their columns and variables
\* declare.
THEOREM TypeCorrect == Spec => []TypeOK
<1>1. Inv => TypeOK
  BY DEF Inv
<1>2. QED
  BY <1>1, Invariant, PTL

\* Title, media and tags of a post come from one request of its owner, however
\* creations, updates and deletions overlap (post.go: Create, Update, Delete).
THEOREM OneWrite == Spec => []PostIsOneWrite
<1>1. Inv => PostIsOneWrite
  BY DEF Inv
<1>2. QED
  BY <1>1, Invariant, PTL

-----------------------------------------------------------------------------
(* Deadlocks *)

\* A set of naturals that is not empty has a least element.
LEMMA Least ==
  ASSUME NEW T \in SUBSET Nat, T # {}
  PROVE  \E m \in T : \A n \in T : m <= n
<1> DEFINE R == OpToRel(<, Nat)
<1>1. IsWellFoundedOn(R, Nat)
  BY NatLessThanWellFounded
<1> HIDE DEF R
<1>2. PICK m \in T : \A n \in T : <<n, m>> \notin R
  BY <1>1, WFMin
<1>3. \A n \in T : ~(n < m)
  BY <1>2 DEF R, OpToRel
<1>4. \A n \in T : m <= n
  BY <1>3
<1>5. QED
  BY <1>4

\* One that is bounded has a greatest.
LEMMA Greatest ==
  ASSUME NEW b \in Nat, NEW T \in SUBSET (1..b), T # {}
  PROVE  \E m \in T : \A n \in T : n <= m
<1> DEFINE below == {b - n : n \in T}
<1>1. below \in SUBSET Nat /\ below # {}
  <2>1. \A n \in T : n \in Nat /\ b - n \in Nat
    OBVIOUS
  <2>2. PICK n \in T : TRUE
    OBVIOUS
  <2>3. b - n \in below
    OBVIOUS
  <2>4. QED
    BY <2>1, <2>3
<1>2. PICK l \in below : \A n \in below : l <= n
  BY <1>1, Least
<1>3. PICK m \in T : l = b - m
  OBVIOUS
<1>4. ASSUME NEW n \in T PROVE n <= m
  <2>1. b - m <= b - n
    BY <1>2, <1>3
  <2>2. m \in Nat /\ n \in Nat
    OBVIOUS
  <2>3. QED
    BY <2>1, <2>2
<1>5. QED
  BY <1>4

\* A write others wait for waits itself only for a tag: the post's row is its
\* own by then, and it is the only one that deletes the post's media.
LEMMA WaitingHolder ==
  ASSUME Inv, NEW r \in Requests, NEW s \in Requests, NEW t \in Requests,
         WaitsFor(r, s), WaitsFor(s, t), req[s].op # "Delete", req[t].op # "Delete"
  PROVE  Tagging(s) /\ NextTag(s) \in req[t].upserted
<1>1. /\ req[s] \in Requested /\ Fits(s, req[s]) /\ Alone(s, req[s])
      /\ req[t] \in Requested /\ Fits(t, req[t]) /\ s # t
  BY DEF Inv, TypeOK, WaitsFor
<1>2. req[s].locked \/ req[s].gone # {} \/ req[s].upserted # {}
  BY DEF WaitsFor
<1>3. req[s].at # "post" /\ req[s].at # "commit"
  BY <1>1, <1>2 DEF Fits, AtPoint, HoldsPost, HoldsTags, Writing
<1>4. ~(req[s].at = "media" /\ req[t].post = req[s].post /\ req[t].gone # {})
  BY <1>1 DEF Fits, AtPoint, HoldsPost, Alone, Writing
<1>5. QED
  BY <1>3, <1>4 DEF WaitsFor

\* The tag a request waits for comes before the holder's next in any order
\* their lists agree with.
LEMMA NextTagLater ==
  ASSUME Inv, NEW s \in Requests, NEW t \in Requests,
         NEW rank \in [Names -> Nat],
         \A i, j \in 1..MaxTags : i < j /\ j <= Len(req[t].list) =>
           rank[req[t].list[i]] < rank[req[t].list[j]],
         Tagging(t), NextTag(s) \in req[t].upserted
  PROVE  rank[NextTag(s)] < rank[NextTag(t)]
<1> DEFINE done == Cardinality(req[t].upserted)
<1>1. /\ req[t] \in Requested /\ HoldsTags(req[t])
  BY DEF Inv, TypeOK, Fits
<1>2. done \in Nat /\ Len(req[t].list) \in Nat /\ Len(req[t].list) <= MaxTags
  BY <1>1, FS_CardinalityType DEF HoldsTags, Requested
<1>3. PICK i \in 1..done : NextTag(s) = req[t].list[i]
  BY <1>1 DEF HoldsTags
<1>4. done < Len(req[t].list) /\ NextTag(t) = req[t].list[done + 1]
  BY DEF Tagging, NextTag
<1> HIDE DEF done
<1>5. i \in 1..MaxTags /\ done + 1 \in 1..MaxTags /\ i < done + 1 /\ done + 1 <= Len(req[t].list)
  BY <1>2, <1>4, WritesAssumption
<1>6. QED
  BY <1>3, <1>4, <1>5

\* Transactions that wait for each other delete a post or name their tags in
\* contrary orders (post.go: replacePostTags; discovery.go: CreateTag).
THEOREM Deadlocks == Spec => []DeadlockNeedsTagOrder
<1>1. Inv => DeadlockNeedsTagOrder
  <2> SUFFICES ASSUME Inv, NEW S \in SUBSET Requests, Deadlocked(S),
                      \A r \in S : req[r].op # "Delete", CommonOrder(S)
      PROVE  FALSE
    BY DEF DeadlockNeedsTagOrder
  <2> DEFINE many == Cardinality(Names)
             T == {s \in S : Tagging(s)}
  <2>1. many \in Nat
    BY WritesAssumption, FS_CardinalityType
  <2>2. PICK rank \in [Names -> 1..many] :
          \A r \in S, i, j \in 1..MaxTags :
            i < j /\ j <= Len(req[r].list) => rank[req[r].list[i]] < rank[req[r].list[j]]
    BY DEF CommonOrder
  <2> HIDE DEF many
  <2>3. \A r \in S : \E s \in S : WaitsFor(r, s)
    BY DEF Deadlocked
  <2>4. \A r, s \in S : WaitsFor(r, s) => Tagging(s)
    BY <2>3, WaitingHolder
  <2>5. T # {}
    BY <2>3, <2>4 DEF Deadlocked
  <2>6. ASSUME NEW s \in T PROVE \E t \in T : rank[NextTag(s)] < rank[NextTag(t)]
    <3>1. PICK t \in S : WaitsFor(s, t)
      BY <2>3
    <3>2. Tagging(t)
      BY <2>4, <3>1
    <3>3. NextTag(s) \in req[t].upserted
      BY <3>1 DEF WaitsFor, Tagging
    <3>4. rank \in [Names -> Nat]
      BY <2>1, <2>2
    <3>5. QED
      BY <2>2, <3>2, <3>3, <3>4, NextTagLater
  <2>7. \A s \in T : NextTag(s) \in Names
    <3> SUFFICES ASSUME NEW s \in T PROVE NextTag(s) \in Names
      OBVIOUS
    <3>1. /\ req[s] \in Requested /\ Cardinality(req[s].upserted) \in Nat
          /\ Cardinality(req[s].upserted) < Len(req[s].list)
      BY FS_CardinalityType DEF Inv, TypeOK, Fits, HoldsTags, Tagging
    <3>2. QED
      BY <3>1 DEF NextTag, Requested
  <2>8. PICK m \in {rank[NextTag(s)] : s \in T} : \A n \in {rank[NextTag(s)] : s \in T} : n <= m
    <3>1. {rank[NextTag(s)] : s \in T} \in SUBSET (1..many)
      BY <2>2, <2>7
    <3>2. QED
      BY <2>1, <2>5, <3>1, Greatest
  <2>9. PICK s \in T : m = rank[NextTag(s)]
    OBVIOUS
  <2>10. PICK t \in T : rank[NextTag(s)] < rank[NextTag(t)]
    BY <2>6
  <2>11. rank[NextTag(s)] \in Nat /\ rank[NextTag(t)] \in Nat
    BY <2>1, <2>2, <2>7
  <2>12. QED
    BY <2>8, <2>9, <2>10, <2>11
<1>2. QED
  BY <1>1, Invariant, PTL
=============================================================================
