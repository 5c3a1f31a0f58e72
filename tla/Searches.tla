------------------------------ MODULE Searches ------------------------------
(***************************************************************************)
(* What a search leaves behind: Search, Suggestions and DeleteHistory of   *)
(* internal/api/discovery.go, on search_terms and search_history.  The     *)
(* reads that answer a search are in Pages; here they succeed or fail.     *)
(*                                                                         *)
(* Every statement is a transaction of its own: it begins, which fixes     *)
(* NOW() and its snapshot, and takes effect later, atomically.  Waiting    *)
(* for another statement's row is part of "later".  The clock ticks when a *)
(* statement begins.                                                       *)
(***************************************************************************)
EXTENDS Integers, FiniteSets

CONSTANTS Users, Inputs, Keyword, Requests, None

\* Keyword[i] is what Search makes of the input i: trimmed and in lower case,
\* or None when nothing is left or it is too long.
ASSUME SearchesAssumption ==
  /\ IsFiniteSet(Requests) /\ None \notin Users \cup Requests /\ None \notin Nat
  /\ Inputs \subseteq DOMAIN Keyword

VARIABLES
  terms,     \* search_terms: search_count and last_searched_at by keyword
  history,   \* search_history: searched_at by user and keyword
  requests,  \* the calls
  clock,     \* the database's clock
  writer,    \* the request that wrote a history entry last
  recorded   \* the requests whose term has been counted, or entry written

vars == <<terms, history, requests, clock, writer, recorded>>

Keywords == {Keyword[i] : i \in Inputs} \ {None}
Entries == Users \X Keywords

Fresh == [op |-> "none", stage |-> "idle", user |-> None, kw |-> None, now |-> 0,
          snap |-> {}, prior |-> {}]

Rows(u) == {e \in Entries : e[1] = u /\ history[e] # None}
Answered == {r \in Requests : requests[r].stage = "done"}

Go(r, stage) == requests' = [requests EXCEPT ![r].stage = stage]
Recorded(r, what) == recorded' = [recorded EXCEPT ![what] = @ \cup {r}]

Begin(r, op, u, k, stage) ==
  /\ requests[r].stage = "idle"
  /\ requests' = [requests EXCEPT
       ![r] = [Fresh EXCEPT !.op = op, !.user = u, !.kw = k, !.stage = stage, !.prior = Answered]]
  /\ UNCHANGED <<terms, history, clock, writer, recorded>>

\* The statement of r begins.
Issue(r, from, to) ==
  /\ requests[r].stage = from
  /\ clock' = clock + 1
  /\ requests' = [requests EXCEPT ![r] = [@ EXCEPT !.stage = to, !.now = clock + 1,
                                                   !.snap = Rows(requests[r].user)]]
  /\ UNCHANGED <<terms, history, writer, recorded>>

-----------------------------------------------------------------------------
(* Search and Suggestions *)

\* The user is None when the caller is not signed in.
StartSearch(r) ==
  \E u \in Users \cup {None}, i \in Inputs :
    Begin(r, "Search", u, Keyword[i], IF Keyword[i] = None THEN "done" ELSE "term")

StartSuggestions(r) ==
  \E i \in Inputs : Begin(r, "Suggestions", None, None, IF Keyword[i] = None THEN "done" ELSE "read")

AfterTerm(r) == IF requests[r].user = None THEN "read" ELSE "history"

IssueTerm(r) == Issue(r, "term", "counting")

\* Slip: a term that is there stays as it is.
RecordSearchTerm_DoNothing(r) ==
  LET k == requests[r].kw
  IN  /\ requests[r].stage = "counting"
      /\ terms' = IF terms[k].count > 0 THEN terms
                 ELSE [terms EXCEPT ![k] = [count |-> 1, last |-> requests[r].now]]
      /\ Recorded(r, "term") /\ Go(r, AfterTerm(r))
      /\ UNCHANGED <<history, clock, writer>>

\* RecordSearchTerm: the row the conflict finds is the newest, NOW() is not.
RecordSearchTerm(r) ==
  LET k == requests[r].kw
  IN  /\ requests[r].stage = "counting"
      /\ terms' = [terms EXCEPT ![k] = [count |-> @.count + 1, last |-> requests[r].now]]
      /\ Recorded(r, "term") /\ Go(r, AfterTerm(r))
      /\ UNCHANGED <<history, clock, writer>>

\* The error is logged, and the search goes on.
LoseTerm(r) ==
  /\ requests[r].stage = "counting"
  /\ Go(r, AfterTerm(r))
  /\ UNCHANGED <<terms, history, clock, writer, recorded>>

IssueHistory(r) == Issue(r, "history", "writing")

\* Slip: an entry that is there stays as it is.
AddSearchHistory_DoNothing(r) ==
  LET e == <<requests[r].user, requests[r].kw>>
  IN  /\ requests[r].stage = "writing"
      /\ history' = [history EXCEPT ![e] = IF @ = None THEN requests[r].now ELSE @]
      /\ writer' = [writer EXCEPT ![e] = r]
      /\ Recorded(r, "entry") /\ Go(r, "read")
      /\ UNCHANGED <<terms, clock>>

\* AddSearchHistory: inserts the entry or sets its searched_at to NOW().
AddSearchHistory(r) ==
  LET e == <<requests[r].user, requests[r].kw>>
  IN  /\ requests[r].stage = "writing"
      /\ history' = [history EXCEPT ![e] = requests[r].now]
      /\ writer' = [writer EXCEPT ![e] = r]
      /\ Recorded(r, "entry") /\ Go(r, "read")
      /\ UNCHANGED <<terms, clock>>

LoseHistory(r) ==
  /\ requests[r].stage = "writing"
  /\ Go(r, "read")
  /\ UNCHANGED <<terms, history, clock, writer, recorded>>

\* The posts, users and tags, and the answer: the page, or 500 when a read fails.
Answer(r) ==
  /\ requests[r].stage = "read"
  /\ Go(r, "done")
  /\ UNCHANGED <<terms, history, clock, writer, recorded>>

-----------------------------------------------------------------------------
(* DeleteHistory *)

StartClear(r) == \E u \in Users : Begin(r, "DeleteHistory", u, None, "clear")

IssueClear(r) == Issue(r, "clear", "clearing")

\* Slip: only the newest entry, as a first page of one would show.
DeleteSearchHistory_FirstPage(r) ==
  LET lost == {e \in requests[r].snap : \A f \in requests[r].snap :
                 history[e] # None /\ (history[f] # None => history[f] <= history[e])}
  IN  /\ requests[r].stage = "clearing"
      /\ history' = [e \in Entries |-> IF e \in lost THEN None ELSE history[e]]
      /\ requests' = [q \in Requests |->
           IF q = r THEN [requests[r] EXCEPT !.stage = "done"]
           ELSE [requests[q] EXCEPT !.snap = @ \ lost]]
      /\ UNCHANGED <<terms, clock, writer, recorded>>

\* DeleteSearchHistory: the entries of the snapshot, as they are by now.  One
\* that a concurrent DeleteHistory removed is gone, even if it came back.
DeleteSearchHistory(r) ==
  LET lost == requests[r].snap
  IN  /\ requests[r].stage = "clearing"
      /\ history' = [e \in Entries |-> IF e \in lost THEN None ELSE history[e]]
      /\ requests' = [q \in Requests |->
           IF q = r THEN [requests[r] EXCEPT !.stage = "done"]
           ELSE [requests[q] EXCEPT !.snap = @ \ lost]]
      /\ UNCHANGED <<terms, clock, writer, recorded>>

FailClear(r) ==
  /\ requests[r].stage = "clearing"
  /\ requests' = [requests EXCEPT ![r] = [@ EXCEPT !.stage = "done", !.op = "none"]]
  /\ UNCHANGED <<terms, history, clock, writer, recorded>>

-----------------------------------------------------------------------------
Init ==
  /\ terms = [k \in Keywords |-> [count |-> 0, last |-> 0]]
  /\ \E old \in SUBSET Entries : history = [e \in Entries |-> IF e \in old THEN 0 ELSE None]
  /\ requests = [r \in Requests |-> Fresh]
  /\ clock = 0
  /\ writer = [e \in Entries |-> None]
  /\ recorded = [what \in {"term", "entry"} |-> {}]

Next ==
  \E r \in Requests :
    \/ StartSearch(r) \/ StartSuggestions(r) \/ StartClear(r)
    \/ IssueTerm(r) \/ RecordSearchTerm(r) \/ LoseTerm(r)
    \/ IssueHistory(r) \/ AddSearchHistory(r) \/ LoseHistory(r) \/ Answer(r)
    \/ IssueClear(r) \/ DeleteSearchHistory(r) \/ FailClear(r)

Spec == Init /\ [][Next]_vars

-----------------------------------------------------------------------------
(* Properties *)

Ops == {"none", "Search", "Suggestions", "DeleteHistory"}
Stages == {"idle", "term", "counting", "history", "writing", "read", "clear", "clearing", "done"}

Requested ==
  [op: Ops, stage: Stages, user: Users \cup {None}, kw: Keywords \cup {None}, now: Nat,
   snap: SUBSET Entries, prior: SUBSET Requests]

TypeOK ==
  /\ terms \in [Keywords -> [count: Nat, last: Nat]]
  /\ history \in [Entries -> Nat \cup {None}]
  /\ requests \in [Requests -> Requested]
  /\ clock \in Nat
  /\ writer \in [Entries -> Requests \cup {None}]
  /\ recorded \in [{"term", "entry"} -> SUBSET Requests]

\* search_count is the number of searches recorded, however they overlap: no
\* increment is lost to another, and suggestions do not count.
TermCountExact ==
  \A k \in Keywords :
    terms[k].count = Cardinality({r \in recorded["term"] :
      requests[r].kw = k /\ requests[r].op = "Search"})

Overlaps(r, s) == r # s /\ r \notin requests[s].prior /\ s \notin requests[r].prior

SameEntry(r, s) == requests[r].user = requests[s].user /\ requests[r].kw = requests[s].kw

\* The history shows a keyword above one whose search was answered before its
\* own began, unless that one has been searched again, or an overlapping search
\* of the first, which takes its NOW() before it gets the row, set it back.
NewestSearchFirst ==
  \A r \in recorded["entry"] : \A q \in recorded["entry"] \cap requests[r].prior :
    LET above == <<requests[r].user, requests[r].kw>>
        below == <<requests[q].user, requests[q].kw>>
        again == \E s \in recorded["entry"] : SameEntry(s, q) /\ s \notin requests[r].prior
        setBack == \E s \in recorded["entry"] : SameEntry(s, r) /\ Overlaps(s, r)
        ranked == /\ above[1] = below[1] /\ above[2] # below[2]
                  /\ history[above] # None /\ history[below] # None
    IN  ranked /\ ~again /\ ~setBack => history[above] > history[below]

\* When DeleteHistory has succeeded, an entry is left only by a search that had
\* not been answered when the deletion was asked for.
ClearsWhatWas ==
  \A r \in Requests :
    requests[r].op = "DeleteHistory" /\ requests[r].stage = "clearing"
      /\ requests'[r].stage = "done" /\ requests'[r].op = "DeleteHistory" =>
      \A e \in Entries : e[1] = requests[r].user /\ history'[e] # None =>
        writer[e] \notin requests[r].prior \cup {None}

ClearedStaysCleared == [][ClearsWhatWas]_vars
=============================================================================
