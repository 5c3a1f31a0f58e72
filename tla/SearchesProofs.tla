--------------------------- MODULE SearchesProofs ---------------------------
(***************************************************************************)
(* Proofs about Searches, for any number of users, keywords and calls.     *)
(* The inductive invariant, Inv, relates the calls' times and order to     *)
(* what the history shows.                                                 *)
(***************************************************************************)
EXTENDS Searches, FiniteSetTheorems, TLAPS

-----------------------------------------------------------------------------
(* The inductive invariant *)

\* What a call must have been given to be where it is.
Control ==
  \A r \in Requests :
    LET q == requests[r]
    IN  /\ q.stage \in {"term", "counting", "history", "writing"} =>
             q.op = "Search" /\ q.kw \in Keywords
        /\ q.stage \in {"history", "writing"} => q.user \in Users
        /\ q.stage \in {"clear", "clearing"} => q.op = "DeleteHistory"
        /\ r \in recorded["term"] =>
             q.op = "Search" /\ q.stage \in {"history", "writing", "read", "done"}
        /\ r \in recorded["entry"] =>
             /\ q.op = "Search" /\ q.stage \in {"read", "done"}
             /\ q.user \in Users /\ q.kw \in Keywords

\* A call began after the answers of those before it, and the statement that
\* writes its entry took a later time than any of theirs.
Order ==
  \A r \in Requests :
    /\ requests[r].prior \subseteq Answered \ {r}
    /\ requests[r].now <= clock
    /\ requests[r].stage = "writing" \/ r \in recorded["entry"] =>
         \A q \in requests[r].prior : requests[q].now < requests[r].now

\* An entry that is there holds the time of the search that wrote it last, and
\* no search that has written it began after that one was answered.
Written ==
  \A e \in Entries :
    /\ history[e] # None /\ writer[e] # None =>
         history[e] = requests[writer[e]].now
    /\ writer[e] # None =>
         /\ writer[e] \in recorded["entry"]
         /\ e = <<requests[writer[e]].user, requests[writer[e]].kw>>
    /\ \A r \in recorded["entry"] : e = <<requests[r].user, requests[r].kw>> =>
         writer[e] \notin requests[r].prior \cup {None}

\* What a DeleteHistory that has begun will leave behind was written since by
\* searches that had not been answered when it was asked for.
Spared ==
  \A r \in Requests : requests[r].stage = "clearing" =>
    \A e \in Entries \ requests[r].snap :
      e[1] = requests[r].user /\ history[e] # None =>
        writer[e] \notin requests[r].prior \cup {None}

Inv == TypeOK /\ Control /\ Order /\ Written /\ Spared /\ TermCountExact

-----------------------------------------------------------------------------
(* The inductive invariant is one *)

\* The count of a term is not touched by a step that leaves the terms and
\* what the recorded calls asked for alone.
LEMMA CountsKept ==
  ASSUME TermCountExact, UNCHANGED terms, recorded'["term"] = recorded["term"],
         \A r \in recorded["term"] :
           requests'[r].kw = requests[r].kw /\ requests'[r].op = requests[r].op
  PROVE  TermCountExact'
<1> SUFFICES ASSUME NEW k \in Keywords
    PROVE  {r \in recorded'["term"] : requests'[r].kw = k /\ requests'[r].op = "Search"}
             = {r \in recorded["term"] : requests[r].kw = k /\ requests[r].op = "Search"}
  BY DEF TermCountExact
<1>1. QED
  OBVIOUS

\* A call that was not there before: it is of no concern to the entries.
LEMMA BeginKeeps ==
  ASSUME Inv, NEW r \in Requests, NEW op \in Ops, NEW u \in Users \cup {None},
         NEW k \in Keywords \cup {None}, NEW stage \in {"term", "read", "clear", "done"},
         stage = "term" => op = "Search" /\ k \in Keywords,
         stage = "clear" => op = "DeleteHistory",
         Begin(r, op, u, k, stage)
  PROVE  Inv'
<1> DEFINE q == [Fresh EXCEPT !.op = op, !.user = u, !.kw = k, !.stage = stage, !.prior = Answered]
<1>1. /\ q \in Requested /\ q.op = op /\ q.user = u /\ q.kw = k /\ q.stage = stage
      /\ q.now = 0 /\ q.snap = {} /\ q.prior = Answered
  BY DEF Fresh, Requested, Stages, Answered
<1>2. /\ requests[r].stage = "idle" /\ requests' = [requests EXCEPT ![r] = q]
      /\ UNCHANGED <<terms, history, clock, writer, recorded>>
  BY DEF Begin
<1> HIDE DEF q
<1>3. /\ requests' \in [Requests -> Requested] /\ requests'[r] = q
      /\ \A s \in Requests \ {r} : requests'[s] = requests[s]
      /\ r \notin recorded["term"] /\ r \notin recorded["entry"] /\ r \notin Answered
      /\ Answered \subseteq Answered'
  BY <1>1, <1>2 DEF Inv, TypeOK, Control, Answered
<1>4. TypeOK'
  BY <1>2, <1>3 DEF Inv, TypeOK
<1>5. Control'
  BY <1>1, <1>2, <1>3 DEF Inv, Control
<1>6. Order'
  <2> SUFFICES ASSUME NEW s \in Requests
      PROVE  /\ requests'[s].prior \subseteq Answered' \ {s}
             /\ requests'[s].now <= clock'
             /\ requests'[s].stage = "writing" \/ s \in recorded'["entry"] =>
                  \A w \in requests'[s].prior : requests'[w].now < requests'[s].now
    BY DEF Order
  <2>1. CASE s = r
    BY <1>1, <1>2, <1>3, <2>1 DEF Inv, TypeOK
  <2>2. CASE s # r
    BY <1>2, <1>3, <2>2 DEF Inv, Order
  <2>3. QED
    BY <2>1, <2>2
<1>7. Written'
  BY <1>1, <1>2, <1>3 DEF Inv, Written, TypeOK
<1>8. Spared'
  BY <1>1, <1>2, <1>3 DEF Inv, Spared
<1>9. TermCountExact'
  BY <1>2, <1>3, CountsKept DEF Inv
<1>10. QED
  BY <1>4, <1>5, <1>6, <1>7, <1>8, <1>9 DEF Inv

\* A statement begins: it takes a time later than any before.
LEMMA IssueKeeps ==
  ASSUME Inv, NEW r \in Requests,
         IssueTerm(r) \/ IssueHistory(r) \/ IssueClear(r)
  PROVE  Inv'
<1>1. PICK from \in {"term", "history", "clear"}, to \in {"counting", "writing", "clearing"} :
        /\ Issue(r, from, to)
        /\ to = "counting" <=> from = "term"
        /\ to = "writing" <=> from = "history"
  BY DEF IssueTerm, IssueHistory, IssueClear
<1>2. /\ requests[r].stage = from /\ clock' = clock + 1
      /\ UNCHANGED <<terms, history, writer, recorded>>
      /\ requests[r] \in Requested /\ clock \in Nat
  BY <1>1 DEF Issue, Inv, TypeOK
<1> DEFINE rows == Rows(requests[r].user)
           q == [requests[r] EXCEPT !.stage = to, !.now = clock + 1, !.snap = rows]
<1>3. /\ requests' = [requests EXCEPT ![r] = q] /\ q \in Requested
      /\ q.stage = to /\ q.now = clock + 1 /\ q.snap = rows
      /\ q.op = requests[r].op /\ q.user = requests[r].user /\ q.kw = requests[r].kw
      /\ q.prior = requests[r].prior
  <2>1. requests' = [requests EXCEPT ![r] = q]
    BY <1>1 DEF Issue
  <2>2. rows \in SUBSET Entries /\ to \in Stages /\ clock + 1 \in Nat
    BY <1>2 DEF Rows, Stages
  <2> HIDE DEF rows
  <2>3. QED
    BY <1>2, <2>1, <2>2 DEF Requested
<1> HIDE DEF q
<1>4. /\ requests' \in [Requests -> Requested] /\ requests'[r] = q
      /\ \A s \in Requests \ {r} : requests'[s] = requests[s]
      /\ Answered' = Answered /\ r \notin Answered /\ r \notin recorded["entry"]
  BY <1>1, <1>2, <1>3 DEF Inv, TypeOK, Control, Answered
<1>5. TypeOK'
  BY <1>2, <1>4 DEF Inv, TypeOK
<1>6. Control'
  BY <1>1, <1>2, <1>3, <1>4 DEF Inv, Control
<1>7. Order'
  <2> SUFFICES ASSUME NEW s \in Requests
      PROVE  /\ requests'[s].prior \subseteq Answered' \ {s}
             /\ requests'[s].now <= clock'
             /\ requests'[s].stage = "writing" \/ s \in recorded'["entry"] =>
                  \A w \in requests'[s].prior : requests'[w].now < requests'[s].now
    BY DEF Order
  <2>1. \A w \in Requests : requests[w].now \in Nat /\ requests[w].now <= clock
    BY DEF Inv, TypeOK, Requested, Order
  <2>2. requests[s].prior \subseteq Answered \ {s} /\ Answered \subseteq Requests \ {r}
    BY <1>4 DEF Inv, Order, Answered
  <2>3. CASE s = r
    BY <1>2, <1>3, <1>4, <2>1, <2>2, <2>3
  <2>4. CASE s # r
    BY <1>2, <1>4, <2>1, <2>2, <2>4 DEF Inv, Order
  <2>5. QED
    BY <2>3, <2>4
<1>8. Written'
  BY <1>2, <1>3, <1>4 DEF Inv, Written, TypeOK
<1>9. Spared'
  <2> SUFFICES ASSUME NEW s \in Requests, requests'[s].stage = "clearing",
                      NEW e \in Entries \ requests'[s].snap,
                      e[1] = requests'[s].user, history[e] # None
      PROVE  writer[e] \notin requests'[s].prior \cup {None}
    BY <1>2 DEF Spared
  <2>1. CASE s = r
    BY <1>3, <1>4, <2>1 DEF Rows
  <2>2. CASE s # r
    BY <1>4, <2>2 DEF Inv, Spared
  <2>3. QED
    BY <2>1, <2>2
<1>10. TermCountExact'
  BY <1>2, <1>3, <1>4, CountsKept DEF Inv, TypeOK
<1>11. QED
  BY <1>5, <1>6, <1>7, <1>8, <1>9, <1>10 DEF Inv

\* A statement that fails, and the answer: the call goes on without a trace.
LEMMA GoOnKeeps ==
  ASSUME Inv, NEW r \in Requests,
         LoseTerm(r) \/ LoseHistory(r) \/ Answer(r) \/ FailClear(r)
  PROVE  Inv'
<1>1. PICK stage \in {"read", "history", "done"}, op \in Ops :
        /\ requests' = [requests EXCEPT ![r] = [@ EXCEPT !.stage = stage, !.op = op]]
        /\ requests[r].stage \in {"counting", "writing", "read", "clearing"}
        /\ stage = "history" => requests[r].stage = "counting" /\ requests[r].user # None
        /\ op = requests[r].op \/ requests[r].stage = "clearing"
        /\ requests[r].stage = "read" => stage = "done"
  <2>1. requests[r] \in Requested
    BY DEF Inv, TypeOK
  <2>2. ASSUME NEW stage, Go(r, stage)
        PROVE  requests' = [requests EXCEPT ![r] = [@ EXCEPT !.stage = stage, !.op = requests[r].op]]
    BY <2>1, <2>2 DEF Go, Requested
  <2>3. CASE LoseTerm(r)
    BY <2>1, <2>2, <2>3 DEF LoseTerm, AfterTerm, Requested
  <2>4. CASE LoseHistory(r) \/ Answer(r)
    BY <2>1, <2>2, <2>4 DEF LoseHistory, Answer, Requested
  <2>5. CASE FailClear(r)
    BY <2>5 DEF FailClear, Ops
  <2>6. QED
    BY <2>3, <2>4, <2>5
<1>2. /\ requests[r] \in Requested /\ UNCHANGED <<terms, history, clock, writer, recorded>>
  BY DEF Inv, TypeOK, LoseTerm, LoseHistory, Answer, FailClear
<1> DEFINE q == [requests[r] EXCEPT !.stage = stage, !.op = op]
<1>3. /\ requests' = [requests EXCEPT ![r] = q] /\ q \in Requested
      /\ q.stage = stage /\ q.op = op
      /\ q.now = requests[r].now /\ q.snap = requests[r].snap
      /\ q.user = requests[r].user /\ q.kw = requests[r].kw /\ q.prior = requests[r].prior
  BY <1>1, <1>2 DEF Requested, Stages
<1> HIDE DEF q
<1>4. /\ requests' \in [Requests -> Requested] /\ requests'[r] = q
      /\ \A s \in Requests \ {r} : requests'[s] = requests[s]
      /\ Answered \subseteq Answered' /\ r \notin Answered
      /\ r \in recorded["term"] \cup recorded["entry"] => op = requests[r].op
  BY <1>1, <1>2, <1>3 DEF Inv, TypeOK, Control, Answered
<1>5. TypeOK'
  BY <1>2, <1>4 DEF Inv, TypeOK
<1>6. Control'
  BY <1>1, <1>2, <1>3, <1>4 DEF Inv, Control, Requested
<1>7. Order'
  BY <1>1, <1>2, <1>3, <1>4 DEF Inv, Order, Answered
<1>8. Written'
  BY <1>2, <1>3, <1>4 DEF Inv, Written, TypeOK
<1>9. Spared'
  BY <1>1, <1>2, <1>3, <1>4 DEF Inv, Spared
<1>10. TermCountExact'
  BY <1>2, <1>3, <1>4, CountsKept DEF Inv, TypeOK
<1>11. QED
  BY <1>5, <1>6, <1>7, <1>8, <1>9, <1>10 DEF Inv

\* A term is counted: its count and the calls recorded for it grow by one.
LEMMA RecordTermKeeps ==
  ASSUME Inv, NEW r \in Requests, RecordSearchTerm(r)
  PROVE  Inv'
<1> DEFINE k == requests[r].kw
           stage == AfterTerm(r)
<1>1. /\ requests[r] \in Requested /\ requests[r].stage = "counting"
      /\ requests[r].op = "Search" /\ k \in Keywords /\ r \notin recorded["term"]
      /\ terms' = [terms EXCEPT ![k] = [count |-> @.count + 1, last |-> requests[r].now]]
      /\ recorded' = [recorded EXCEPT !["term"] = @ \cup {r}]
      /\ requests' = [requests EXCEPT ![r] = [@ EXCEPT !.stage = stage]]
      /\ UNCHANGED <<history, clock, writer>>
  BY DEF Inv, TypeOK, Control, RecordSearchTerm, Recorded, Go
<1>2. /\ stage \in {"read", "history"}
      /\ stage = "history" => requests[r].user \in Users
      /\ requests[r].now \in Nat
  BY <1>1 DEF AfterTerm, Requested
<1> HIDE DEF stage
<1> DEFINE q == [requests[r] EXCEPT !.stage = stage]
<1>3. /\ requests' = [requests EXCEPT ![r] = q] /\ q \in Requested
      /\ q.stage = stage /\ q.op = requests[r].op
      /\ q.now = requests[r].now /\ q.snap = requests[r].snap
      /\ q.user = requests[r].user /\ q.kw = requests[r].kw /\ q.prior = requests[r].prior
  BY <1>1, <1>2 DEF Requested, Stages
<1> HIDE DEF q
<1>4. /\ requests' \in [Requests -> Requested] /\ requests'[r] = q
      /\ \A s \in Requests \ {r} : requests'[s] = requests[s]
      /\ Answered' = Answered
      /\ recorded' \in [{"term", "entry"} -> SUBSET Requests]
      /\ recorded'["term"] = recorded["term"] \cup {r}
      /\ recorded'["entry"] = recorded["entry"]
  BY <1>1, <1>2, <1>3 DEF Inv, TypeOK, Answered
<1>5. TypeOK'
  BY <1>1, <1>2, <1>4 DEF Inv, TypeOK
<1>6. Control'
  BY <1>1, <1>2, <1>3, <1>4 DEF Inv, Control, Requested
<1>7. Order'
  BY <1>1, <1>2, <1>3, <1>4 DEF Inv, Order
<1>8. Written'
  BY <1>1, <1>3, <1>4 DEF Inv, Written, TypeOK
<1>9. Spared'
  BY <1>1, <1>2, <1>3, <1>4 DEF Inv, Spared
<1>10. TermCountExact'
  <2> DEFINE Callers(t) == {s \in recorded["term"] :
                              requests[s].kw = t /\ requests[s].op = "Search"}
             Called(t) == {s \in recorded'["term"] :
                              requests'[s].kw = t /\ requests'[s].op = "Search"}
  <2> SUFFICES ASSUME NEW t \in Keywords
      PROVE  terms'[t].count = Cardinality(Called(t))
    BY DEF TermCountExact
  <2>1. /\ Called(t) = IF t = k THEN Callers(t) \cup {r} ELSE Callers(t)
        /\ r \notin Callers(t)
    BY <1>1, <1>3, <1>4 DEF Inv, TypeOK
  <2>2. IsFiniteSet(Callers(t))
    <3>1. Callers(t) \subseteq Requests
      BY DEF Inv, TypeOK
    <3>2. QED
      BY <3>1, FS_Subset, SearchesAssumption
  <2>3. terms[t].count = Cardinality(Callers(t)) /\ terms[t] \in [count: Nat, last: Nat]
    BY DEF Inv, TypeOK, TermCountExact
  <2>4. terms'[t].count = IF t = k THEN terms[t].count + 1 ELSE terms[t].count
    BY <1>1, <2>3 DEF Inv, TypeOK
  <2> HIDE DEF Callers, Called
  <2>5. Cardinality(Callers(t) \cup {r}) = Cardinality(Callers(t)) + 1
    BY <2>1, <2>2, FS_AddElement
  <2>6. QED
    BY <2>1, <2>3, <2>4, <2>5
<1>11. QED
  BY <1>5, <1>6, <1>7, <1>8, <1>9, <1>10 DEF Inv

\* An entry is written: its writer is a call that is still under way, so it
\* is among the answered ones of nobody.
LEMMA AddEntryKeeps ==
  ASSUME Inv, NEW r \in Requests, AddSearchHistory(r)
  PROVE  Inv'
<1> DEFINE e == <<requests[r].user, requests[r].kw>>
           q == [requests[r] EXCEPT !.stage = "read"]
<1>1. /\ requests[r] \in Requested /\ requests[r].stage = "writing"
      /\ requests[r].op = "Search" /\ requests[r].user \in Users
      /\ requests[r].kw \in Keywords /\ e \in Entries
      /\ history' = [history EXCEPT ![e] = requests[r].now]
      /\ writer' = [writer EXCEPT ![e] = r]
      /\ recorded' = [recorded EXCEPT !["entry"] = @ \cup {r}]
      /\ requests' = [requests EXCEPT ![r] = q]
      /\ UNCHANGED <<terms, clock>>
  BY DEF Inv, TypeOK, Control, AddSearchHistory, Recorded, Go, Entries
<1>2. /\ q \in Requested /\ q.stage = "read" /\ q.op = requests[r].op
      /\ q.now = requests[r].now /\ q.snap = requests[r].snap
      /\ q.user = requests[r].user /\ q.kw = requests[r].kw /\ q.prior = requests[r].prior
      /\ requests[r].now \in Nat
  BY <1>1 DEF Requested, Stages
<1> HIDE DEF q
<1>3. /\ requests' \in [Requests -> Requested] /\ requests'[r] = q
      /\ \A s \in Requests \ {r} : requests'[s] = requests[s]
      /\ Answered' = Answered /\ r \notin Answered
      /\ recorded' \in [{"term", "entry"} -> SUBSET Requests]
      /\ recorded'["term"] = recorded["term"]
      /\ recorded'["entry"] = recorded["entry"] \cup {r}
      /\ r \notin recorded["entry"]
  BY <1>1, <1>2 DEF Inv, TypeOK, Answered, Control
<1>4. /\ \A s \in Requests : r \notin requests[s].prior
      /\ \A s \in Requests : requests'[s].prior = requests[s].prior
                              /\ requests'[s].now = requests[s].now
                              /\ requests'[s].user = requests[s].user
                              /\ requests'[s].kw = requests[s].kw
  BY <1>2, <1>3 DEF Inv, Order
<1>5. TypeOK'
  BY <1>1, <1>2, <1>3 DEF Inv, TypeOK
<1>6. Control'
  BY <1>1, <1>2, <1>3 DEF Inv, Control
<1>7. Order'
  BY <1>1, <1>2, <1>3, <1>4 DEF Inv, Order
<1>8. Written'
  <2> SUFFICES ASSUME NEW f \in Entries
      PROVE  /\ history'[f] # None /\ writer'[f] # None =>
                  history'[f] = requests'[writer'[f]].now
             /\ writer'[f] # None =>
                  /\ writer'[f] \in recorded'["entry"]
                  /\ f = <<requests'[writer'[f]].user, requests'[writer'[f]].kw>>
             /\ \A s \in recorded'["entry"] : f = <<requests'[s].user, requests'[s].kw>> =>
                  writer'[f] \notin requests'[s].prior \cup {None}
    BY DEF Written
  <2>1. recorded["entry"] \subseteq Requests /\ r # None
    BY SearchesAssumption DEF Inv, TypeOK
  <2>2. CASE f = e
    <3>1. writer'[f] = r /\ history'[f] = requests[r].now
      BY <1>1, <2>2 DEF Inv, TypeOK
    <3>2. QED
      BY <1>3, <1>4, <2>1, <2>2, <3>1
  <2>3. CASE f # e
    <3>1. writer'[f] = writer[f] /\ history'[f] = history[f]
      BY <1>1, <2>3 DEF Inv, TypeOK
    <3>2. f # <<requests'[r].user, requests'[r].kw>>
      BY <1>4, <2>3
    <3>3. writer[f] \in Requests \cup {None}
      BY DEF Inv, TypeOK
    <3>4. QED
      BY <1>3, <1>4, <2>1, <3>1, <3>2, <3>3 DEF Inv, Written
  <2>4. QED
    BY <2>2, <2>3
<1>9. Spared'
  BY <1>1, <1>2, <1>3, <1>4, SearchesAssumption DEF Inv, Spared, TypeOK
<1>10. TermCountExact'
  BY <1>1, <1>2, <1>3, CountsKept DEF Inv, TypeOK
<1>11. QED
  BY <1>5, <1>6, <1>7, <1>8, <1>9, <1>10 DEF Inv

\* The history is cleared.
LEMMA ClearKeeps ==
  ASSUME Inv, NEW r \in Requests, DeleteSearchHistory(r)
  PROVE  Inv'
<1> DEFINE lost == requests[r].snap
<1>1. /\ requests[r].stage = "clearing" /\ UNCHANGED <<terms, clock, writer, recorded>>
      /\ history' = [e \in Entries |-> IF e \in lost THEN None ELSE history[e]]
  BY DEF DeleteSearchHistory
<1>2. requests' = [s \in Requests |->
        IF s = r THEN [requests[r] EXCEPT !.stage = "done"]
        ELSE [requests[s] EXCEPT !.snap = @ \ lost]]
  BY DEF DeleteSearchHistory
<1>3. \A s \in Requests :
        /\ requests'[s] \in Requested
        /\ requests'[s].op = requests[s].op /\ requests'[s].user = requests[s].user
        /\ requests'[s].kw = requests[s].kw /\ requests'[s].now = requests[s].now
        /\ requests'[s].prior = requests[s].prior
        /\ requests'[s].stage = IF s = r THEN "done" ELSE requests[s].stage
        /\ s # r => requests'[s].snap = requests[s].snap \ lost
  <2> SUFFICES ASSUME NEW s \in Requests
      PROVE  /\ requests'[s] \in Requested
             /\ requests'[s].op = requests[s].op /\ requests'[s].user = requests[s].user
             /\ requests'[s].kw = requests[s].kw /\ requests'[s].now = requests[s].now
             /\ requests'[s].prior = requests[s].prior
             /\ requests'[s].stage = IF s = r THEN "done" ELSE requests[s].stage
             /\ s # r => requests'[s].snap = requests[s].snap \ lost
    OBVIOUS
  <2>1. requests[s] \in Requested /\ requests[r] \in Requested
    BY DEF Inv, TypeOK
  <2>2. CASE s = r
    BY <1>2, <2>1, <2>2 DEF Requested, Stages
  <2>3. CASE s # r
    <3>1. requests'[s] = [requests[s] EXCEPT !.snap = @ \ lost]
      BY <1>2, <2>3
    <3>2. requests[s].snap \ lost \in SUBSET Entries
      BY <2>1 DEF Requested
    <3> HIDE DEF lost
    <3>3. QED
      BY <2>1, <2>3, <3>1, <3>2 DEF Requested
  <2>4. QED
    BY <2>2, <2>3
<1>4. requests' \in [Requests -> Requested]
  BY <1>2, <1>3
<1>5. Answered \subseteq Answered'
  BY <1>3 DEF Answered
<1>6. TypeOK'
  BY <1>1, <1>4 DEF Inv, TypeOK
<1>7. Control'
  BY <1>1, <1>3 DEF Inv, Control
<1>8. Order'
  BY <1>1, <1>3, <1>5 DEF Inv, Order, Answered
<1>9. Written'
  BY <1>1, <1>3 DEF Inv, Written, TypeOK
<1>10. Spared'
  BY <1>1, <1>3 DEF Inv, Spared
<1>11. TermCountExact'
  BY <1>1, <1>3, CountsKept DEF Inv, TypeOK
<1>12. QED
  BY <1>6, <1>7, <1>8, <1>9, <1>10, <1>11 DEF Inv

\* Before the first call nobody has searched; old entries have no writer.
LEMMA InitHolds == Init => Inv
<1> SUFFICES ASSUME Init PROVE Inv
  OBVIOUS
<1> USE DEF Init
<1>1. \A r \in Requests : requests[r] = Fresh /\ requests[r] \in Requested
  BY DEF Requested, Fresh, Ops, Stages
<1>2. TypeOK
  BY <1>1 DEF TypeOK
<1>3. Control /\ Order /\ Spared
  BY <1>1 DEF Control, Order, Spared, Fresh
<1>4. Written
  BY SearchesAssumption DEF Written
<1>5. TermCountExact
  <2> SUFFICES ASSUME NEW k \in Keywords
      PROVE  {r \in recorded["term"] : requests[r].kw = k /\ requests[r].op = "Search"} = {}
    BY FS_EmptySet DEF TermCountExact
  <2>1. QED
    OBVIOUS
<1>6. QED
  BY <1>2, <1>3, <1>4, <1>5 DEF Inv

\* Every step keeps the invariant.
LEMMA NextKeeps == Inv /\ [Next]_vars => Inv'
<1> SUFFICES ASSUME Inv, [Next]_vars PROVE Inv'
  OBVIOUS
<1>1. CASE Next
  <2>1. PICK r \in Requests :
          \/ StartSearch(r) \/ StartSuggestions(r) \/ StartClear(r)
          \/ IssueTerm(r) \/ RecordSearchTerm(r) \/ LoseTerm(r)
          \/ IssueHistory(r) \/ AddSearchHistory(r) \/ LoseHistory(r) \/ Answer(r)
          \/ IssueClear(r) \/ DeleteSearchHistory(r) \/ FailClear(r)
    BY <1>1 DEF Next
  <2>2. \A i \in Inputs : Keyword[i] \in Keywords \cup {None}
    BY DEF Keywords
  <2>3. CASE StartSearch(r)
    BY <2>2, <2>3, BeginKeeps DEF StartSearch, Ops
  <2>4. CASE StartSuggestions(r)
    BY <2>4, BeginKeeps DEF StartSuggestions, Ops
  <2>5. CASE StartClear(r)
    BY <2>5, BeginKeeps DEF StartClear, Ops
  <2>6. CASE IssueTerm(r) \/ IssueHistory(r) \/ IssueClear(r)
    BY <2>6, IssueKeeps
  <2>7. CASE LoseTerm(r) \/ LoseHistory(r) \/ Answer(r) \/ FailClear(r)
    BY <2>7, GoOnKeeps
  <2>8. CASE RecordSearchTerm(r) \/ AddSearchHistory(r) \/ DeleteSearchHistory(r)
    BY <2>8, RecordTermKeeps, AddEntryKeeps, ClearKeeps
  <2>9. QED
    BY <2>1, <2>3, <2>4, <2>5, <2>6, <2>7, <2>8
<1>2. CASE UNCHANGED vars
  BY <1>2 DEF vars, Inv, TypeOK, Control, Order, Answered, Written, Spared, TermCountExact
<1>3. QED
  BY <1>1, <1>2

\* The invariant holds in every state.
THEOREM Invariant == Spec => []Inv
BY InitHolds, NextKeeps, PTL DEF Spec

-----------------------------------------------------------------------------
(* What follows from it *)

\* The tables and the calls have the types their columns and variables declare.
THEOREM TypeCorrect == Spec => []TypeOK
<1>1. Inv => TypeOK
  BY DEF Inv
<1>2. QED
  BY <1>1, Invariant, PTL

\* search_count is the number of searches recorded, however they overlap
\* (discovery.sql: RecordSearchTerm adds to the row the conflict finds).
THEOREM TermCounts == Spec => []TermCountExact
<1>1. Inv => TermCountExact
  BY DEF Inv
<1>2. QED
  BY <1>1, Invariant, PTL

\* A keyword stands in the history above those of which a search was answered
\* before its own began, unless the other has been searched for again since, or
\* an overlapping search of this one, whose NOW() is older, set the entry back
\* (discovery.go: AddSearchHistory at NOW()).
THEOREM HistoryRanked == Spec => []NewestSearchFirst
<1>1. Inv => NewestSearchFirst
  <2> SUFFICES ASSUME Inv, NEW r \in recorded["entry"],
                      NEW q \in recorded["entry"] \cap requests[r].prior
      PROVE  LET above == <<requests[r].user, requests[r].kw>>
                 below == <<requests[q].user, requests[q].kw>>
                 again == \E s \in recorded["entry"] : SameEntry(s, q) /\ s \notin requests[r].prior
                 setBack == \E s \in recorded["entry"] : SameEntry(s, r) /\ Overlaps(s, r)
                 ranked == /\ above[1] = below[1] /\ above[2] # below[2]
                           /\ history[above] # None /\ history[below] # None
             IN  ranked /\ ~again /\ ~setBack => history[above] > history[below]
    BY DEF NewestSearchFirst
  <2> DEFINE above == <<requests[r].user, requests[r].kw>>
             below == <<requests[q].user, requests[q].kw>>
             v == writer[above]
             w == writer[below]
  <2>1. /\ r \in Requests /\ q \in Requests /\ above \in Entries /\ below \in Entries
        /\ \A s \in Requests : requests[s].now \in Nat
    BY DEF Inv, TypeOK, Control, Entries, Requested
  <2> SUFFICES ASSUME history[above] # None, history[below] # None,
                      ~\E s \in recorded["entry"] : SameEntry(s, q) /\ s \notin requests[r].prior,
                      ~\E s \in recorded["entry"] : SameEntry(s, r) /\ Overlaps(s, r)
      PROVE  history[above] > history[below]
    OBVIOUS
  <2>2. /\ v \in recorded["entry"] /\ SameEntry(v, r) /\ v \notin requests[r].prior
        /\ history[above] = requests[v].now
    BY <2>1 DEF Inv, Written, SameEntry
  <2>3. /\ w \in recorded["entry"] /\ SameEntry(w, q)
        /\ history[below] = requests[w].now
    BY <2>1 DEF Inv, Written, SameEntry
  <2>4. w \in requests[r].prior
    BY <2>3
  <2>5. requests[w].now < requests[r].now
    BY <2>1, <2>4 DEF Inv, Order
  <2>6. v = r \/ r \in requests[v].prior
    BY <2>2 DEF Overlaps
  <2>7. v \in Requests /\ w \in Requests
    BY <2>2, <2>3 DEF Inv, TypeOK
  <2>8. r \in requests[v].prior => requests[r].now < requests[v].now
    BY <2>2, <2>7 DEF Inv, Order
  <2>9. QED
    BY <2>1, <2>2, <2>3, <2>5, <2>6, <2>7, <2>8
<1>2. QED
  BY <1>1, Invariant, PTL

\* What DeleteHistory leaves was written by searches that had not been
\* answered when it was asked for (discovery.go: DeleteHistory).
THEOREM Cleared == Spec => ClearedStaysCleared
<1>1. ASSUME Inv, [Next]_vars PROVE ClearsWhatWas
  <2> SUFFICES ASSUME NEW r \in Requests, requests[r].op = "DeleteHistory",
                      requests[r].stage = "clearing",
                      requests'[r].stage = "done", requests'[r].op = "DeleteHistory",
                      NEW e \in Entries, e[1] = requests[r].user, history'[e] # None
      PROVE  writer[e] \notin requests[r].prior \cup {None}
    BY DEF ClearsWhatWas
  <2>1. CASE DeleteSearchHistory(r)
    <3>1. e \notin requests[r].snap /\ history[e] # None
      BY <2>1 DEF DeleteSearchHistory
    <3>2. QED
      BY <1>1, <3>1 DEF Inv, Spared
  <2>2. CASE ~DeleteSearchHistory(r)
    <3>1. PICK s \in Requests :
            \/ StartSearch(s) \/ StartSuggestions(s) \/ StartClear(s)
            \/ IssueTerm(s) \/ RecordSearchTerm(s) \/ LoseTerm(s)
            \/ IssueHistory(s) \/ AddSearchHistory(s) \/ LoseHistory(s) \/ Answer(s)
            \/ IssueClear(s) \/ DeleteSearchHistory(s) \/ FailClear(s)
      BY <1>1 DEF Next, vars
    <3>2. requests[r] \in Requested /\ requests \in [Requests -> Requested]
      BY <1>1 DEF Inv, TypeOK
    <3>3. s = r => FailClear(s)
      BY <2>2, <3>1 DEF StartSearch, StartSuggestions, StartClear, Begin, IssueTerm, IssueHistory,
         IssueClear, Issue, RecordSearchTerm, LoseTerm, AddSearchHistory, LoseHistory, Answer
    <3>4. s # r => requests'[r].stage = requests[r].stage
      <4> SUFFICES ASSUME s # r PROVE requests'[r].stage = requests[r].stage
        OBVIOUS
      <4>1. CASE DeleteSearchHistory(s)
        BY <3>2, <4>1 DEF DeleteSearchHistory, Requested
      <4>2. CASE ~DeleteSearchHistory(s)
        <5>1. requests'[r] = requests[r]
          BY <3>1, <3>2, <4>2 DEF StartSearch, StartSuggestions, StartClear, Begin, IssueTerm,
             IssueHistory, IssueClear, Issue, RecordSearchTerm, LoseTerm, AddSearchHistory,
             LoseHistory, Answer, FailClear, Go
        <5>2. QED
          BY <5>1
      <4>3. QED
        BY <4>1, <4>2
    <3>5. FailClear(r) => requests'[r].op = "none"
      BY <3>2 DEF FailClear, Requested
    <3>6. QED
      BY <3>3, <3>4, <3>5
  <2>3. QED
    BY <2>1, <2>2
<1>2. Inv /\ [Next]_vars => [ClearsWhatWas]_vars
  BY <1>1
<1>3. QED
  BY <1>2, Invariant, PTL DEF Spec, ClearedStaysCleared
=============================================================================
