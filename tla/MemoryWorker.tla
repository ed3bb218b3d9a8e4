---------------------------- MODULE MemoryWorker ----------------------------
(***************************************************************************)
(* The memory service (cloudflare/maip-memory-worker): candidates for       *)
(* learning are proposed, reviewed and accepted as patterns, patterns are    *)
(* retrieved, events are recorded.  A request is a sequence of awaited calls *)
(* to three stores that share no transaction: a database (D1), whose         *)
(* statements are atomic one by one, objects (R2) and an index of vectors.   *)
(* Requests run concurrently and any awaited call may be the last one of a   *)
(* request, whether it raises or the worker is gone.                         *)
(*                                                                         *)
(* Ids are random UUIDs: here the request that made them.  The readings of   *)
(* events are left out.                                                     *)
(***************************************************************************)
EXTENDS Naturals

CONSTANTS Calls,      \* the requests
          Asks,       \* request -> what it may be
          MaxFailures \* bound: requests that fail or die on the way

Kind == {"propose", "review", "accept", "get", "query", "patterns", "event", "ops"}

ASSUME CallsAssumption ==
  /\ Asks \in [Calls -> SUBSET Kind]
  /\ MaxFailures \in Nat

Decision == {"accepted", "rejected"} \* the latter for all that do not accept

VARIABLES
  call,       \* request -> [kind, at, of, found, status]
  objects,    \* R2: the keys with an object
  registered, \* the rows of memory_objects
  candidates, \* the rows of learning_candidates
  promoted,   \* those of them whose status is accepted
  reviews,    \* the rows of pattern_reviews: [of, decision]
  patterns,   \* the rows of accepted_patterns: [id, of], all active
  vectors,    \* the index: pattern ids
  events,     \* memory_events: [type, of]
  records,    \* ops_events and retrieval_events, by request
  failures

objectVars == <<objects, registered>>
learnVars == <<candidates, promoted, reviews, patterns>>
vars == <<call, objectVars, learnVars, vectors, events, records, failures>>

Place == {"idle", "exists", "reviewed", "put", "register", "vector", "insert",
          "promote", "search", "rows", "record", "event", "over"}
Status == {0, 200, 201, 400, 404, 422, 500} \* of the response; 0 before it
Call == [kind : Kind \cup {"none"}, at : Place, of : Calls,
         decision : Decision, found : SUBSET Calls, status : Status]

TypeOK ==
  /\ call \in [Calls -> Call]
  /\ objects \subseteq Calls
  /\ registered \subseteq Calls
  /\ candidates \subseteq Calls
  /\ promoted \subseteq Calls
  /\ reviews \subseteq [of : Calls, decision : Decision]
  /\ patterns \subseteq [id : Calls, of : Calls]
  /\ vectors \subseteq Calls
  /\ events \subseteq [type : {"candidate", "review", "pattern", "event", "ops"}, of : Calls]
  /\ records \subseteq Calls
  /\ failures \in 0 .. MaxFailures

NoCall(c) == [kind |-> "none", at |-> "idle", of |-> c, decision |-> "rejected",
              found |-> {}, status |-> 0]

Init ==
  /\ call = [c \in Calls |-> NoCall(c)]
  /\ objects = {} /\ registered = {}
  /\ candidates = {} /\ promoted = {} /\ reviews = {} /\ patterns = {}
  /\ vectors = {}
  /\ events = {} /\ records = {}
  /\ failures = 0

At(c, kinds, place) == call[c].kind \in kinds /\ call[c].at = place
Goto(c, place) == call' = [call EXCEPT ![c].at = place]
Respond(c, status) == call' = [call EXCEPT ![c].at = "over", ![c].status = status]

-----------------------------------------------------------------------------
(* route: the first step of each handler.                                   *)

FirstStep(kind) ==
  CASE kind = "propose"            -> "put"
    [] kind \in {"review", "accept", "get"} -> "exists"
    [] kind = "query"              -> "search"
    [] kind = "patterns"           -> "rows"
    [] kind = "ops"                -> "record"
    [] OTHER                       -> "event"

\* What authentication, readBody or the checks of a body do not let through.
Refuse(c) ==
  /\ call[c].at = "idle"
  /\ Respond(c, 400)
  /\ UNCHANGED <<objectVars, learnVars, vectors, events, records, failures>>

\* A candidate is named by any id, of a candidate or not.
Receive(c) ==
  /\ call[c].at = "idle"
  /\ \E kind \in Asks[c] : \E target \in Calls, decision \in Decision :
       /\ kind \notin {"review", "accept", "get"} => target = c
       /\ kind # "review" => decision = "rejected"
       /\ call' = [call EXCEPT ![c] =
                     [kind |-> kind, at |-> FirstStep(kind), of |-> target,
                      decision |-> decision, found |-> {}, status |-> 0]]
  /\ UNCHANGED <<objectVars, learnVars, vectors, events, records, failures>>

\* The candidate is looked up, joined with its object except for a review.
Found(c) ==
  /\ call[c].of \in candidates
  /\ call[c].kind # "review" => call[c].of \in registered

LookUp(c) ==
  /\ At(c, {"review", "accept", "get"}, "exists")
  /\ IF ~ Found(c)               THEN Respond(c, 404)
     ELSE IF call[c].kind = "get" THEN Respond(c, 200)
     ELSE Goto(c, IF call[c].kind = "review" THEN "insert" ELSE "reviewed")
  /\ UNCHANGED <<objectVars, learnVars, vectors, events, records, failures>>

\* acceptPattern wants an accepted review, be there others after it or not.
AcceptedReviews(c) == {r \in reviews : r.of = call[c].of /\ r.decision = "accepted"}

FindReview(c) ==
  /\ At(c, {"accept"}, "reviewed")
  /\ IF AcceptedReviews(c) # {} THEN Goto(c, "put") ELSE Respond(c, 422)
  /\ UNCHANGED <<objectVars, learnVars, vectors, events, records, failures>>

-----------------------------------------------------------------------------
(* storeObject: first the object, then its row.                             *)

Put(c) ==
  /\ At(c, {"propose", "accept"}, "put")
  /\ objects' = objects \cup {c}
  /\ Goto(c, "register")
  /\ UNCHANGED <<registered, learnVars, vectors, events, records, failures>>

Register(c) ==
  /\ At(c, {"propose", "accept"}, "register")
  /\ registered' = registered \cup {c}
  /\ Goto(c, IF call[c].kind = "propose" THEN "insert" ELSE "vector")
  /\ UNCHANGED <<objects, learnVars, vectors, events, records, failures>>

InsertCandidate(c) ==
  /\ At(c, {"propose"}, "insert")
  /\ candidates' = candidates \cup {c}
  /\ Goto(c, "event")
  /\ UNCHANGED <<objectVars, promoted, reviews, patterns, vectors, events, records, failures>>

InsertReview(c) ==
  /\ At(c, {"review"}, "insert")
  /\ reviews' = reviews \cup {[of |-> call[c].of, decision |-> call[c].decision]}
  /\ Goto(c, "event")
  /\ UNCHANGED <<objectVars, candidates, promoted, patterns, vectors, events, records,
                 failures>>

-----------------------------------------------------------------------------
(* acceptPattern.                                                           *)

\* The vector comes before the row of the pattern; its failure is swallowed, and
\* so is its absence from the request or from the environment.
UpsertVector(c) ==
  /\ At(c, {"accept"}, "vector")
  /\ vectors' \in {vectors, vectors \cup {c}}
  /\ Goto(c, "insert")
  /\ UNCHANGED <<objectVars, learnVars, events, records, failures>>

\* Mutant: a candidate may have any number of patterns.
InsertPatternAnyway(c) ==
  /\ At(c, {"accept"}, "insert")
  /\ patterns' = patterns \cup {[id |-> c, of |-> call[c].of]}
  /\ Goto(c, "promote")
  /\ UNCHANGED <<objectVars, candidates, promoted, reviews, vectors, events, records,
                 failures>>

\* UNIQUE (candidate_id, version), and every pattern has version 1.
InsertPattern(c) ==
  /\ At(c, {"accept"}, "insert")
  /\ IF \E p \in patterns : p.of = call[c].of
     THEN Respond(c, 500) /\ UNCHANGED patterns
     ELSE Goto(c, "promote") /\ patterns' = patterns \cup {[id |-> c, of |-> call[c].of]}
  /\ UNCHANGED <<objectVars, candidates, promoted, reviews, vectors, events, records,
                 failures>>

Promote(c) ==
  /\ At(c, {"accept"}, "promote")
  /\ promoted' = promoted \cup {call[c].of}
  /\ Goto(c, "event")
  /\ UNCHANGED <<objectVars, candidates, reviews, patterns, vectors, events, records,
                 failures>>

-----------------------------------------------------------------------------
(* retrievalQuery.                                                          *)

\* The index returns some of its best; a failure is none.
Search(c) ==
  /\ At(c, {"query"}, "search")
  /\ \E ids \in SUBSET vectors : call' = [call EXCEPT ![c].at = "rows", ![c].found = ids]
  /\ UNCHANGED <<objectVars, learnVars, vectors, events, records, failures>>

\* Mutant: what the index returns is taken for patterns.
RowsAsFound(ids) == IF ids # {} THEN ids ELSE {p.id : p \in patterns}

\* listPatternRows: the rows the index named, or if it named none, all.
Rows(ids) ==
  LET active == {p.id : p \in {q \in patterns : q.id \in registered}}
  IN IF ids # {} THEN active \cap ids ELSE active

\* A list of the patterns is answered with them.
SelectRows(c) ==
  /\ At(c, {"query", "patterns"}, "rows")
  /\ LET rows == Rows(call[c].found) IN
     call' = IF call[c].kind = "query"
             THEN [call EXCEPT ![c].at = "record", ![c].found = rows]
             ELSE [call EXCEPT ![c].at = "over", ![c].found = rows, ![c].status = 200]
  /\ UNCHANGED <<objectVars, learnVars, vectors, events, records, failures>>

\* The retrieval event, or the row of an operations event.
Record(c) ==
  /\ At(c, {"query", "ops"}, "record")
  /\ records' = records \cup {c}
  /\ IF call[c].kind = "query" THEN Respond(c, 200) ELSE Goto(c, "event")
  /\ UNCHANGED <<objectVars, learnVars, vectors, events, failures>>

EventType(kind) ==
  CASE kind = "propose" -> "candidate" [] kind = "review" -> "review"
    [] kind = "accept" -> "pattern" [] OTHER -> kind

\* writeEvent, the last call of every handler that writes.
WriteEvent(c) ==
  /\ call[c].at = "event"
  /\ events' = events \cup {[type |-> EventType(call[c].kind), of |-> c]}
  /\ Respond(c, 201)
  /\ UNCHANGED <<objectVars, learnVars, vectors, records, failures>>

\* An awaited call raises, before or after it had its effect.
Fail(c) ==
  /\ call[c].at \notin {"idle", "over"}
  /\ failures < MaxFailures
  /\ failures' = failures + 1
  /\ Respond(c, 500)
  /\ UNCHANGED <<objectVars, learnVars, vectors, events, records>>

Step(c) ==
  \/ LookUp(c) \/ FindReview(c) \/ Put(c) \/ Register(c) \/ InsertCandidate(c)
  \/ InsertReview(c) \/ UpsertVector(c) \/ InsertPattern(c) \/ Promote(c)
  \/ Search(c) \/ SelectRows(c) \/ Record(c) \/ WriteEvent(c)

Next == \E c \in Calls : Receive(c) \/ Refuse(c) \/ Step(c) \/ Fail(c)

Spec == Init /\ [][Next]_vars

-----------------------------------------------------------------------------
(* What the service promises.                                               *)

\* Only a reviewed and stored candidate becomes a pattern, and it becomes one
\* pattern at most, whoever accepts it at the same time and whichever call was
\* the last one of a request: behind every pattern are its own object, the
\* object of its candidate and an accepted review; and only the candidate of a
\* pattern has the status accepted.
PatternsAreReviewed ==
  /\ \A p \in patterns :
       /\ p.of \in candidates
       /\ [of |-> p.of, decision |-> "accepted"] \in reviews
       /\ {p.id, p.of} \subseteq objects \cap registered
       /\ \A q \in patterns : q.of = p.of => q = p
  /\ \A c \in promoted : \E p \in patterns : p.of = c

\* What was acknowledged is complete: a candidate, a review, a pattern with the
\* status of its candidate, an event, each with its audit event.  And what a
\* query returned are patterns, whatever the index holds.
AcknowledgedIsDone ==
  \A c \in Calls :
    /\ call[c].status = 201 =>
         /\ [type |-> EventType(call[c].kind), of |-> c] \in events
         /\ call[c].kind = "propose" => c \in candidates \cap objects \cap registered
         /\ call[c].kind = "review" =>
              [of |-> call[c].of, decision |-> call[c].decision] \in reviews
         /\ call[c].kind = "accept" =>
              [id |-> c, of |-> call[c].of] \in patterns /\ call[c].of \in promoted
         /\ call[c].kind = "ops" => c \in records
    /\ call[c].status = 200 =>
         /\ \A id \in call[c].found : \E p \in patterns : p.id = id
         /\ call[c].kind = "query" => c \in records
         /\ call[c].kind = "get" => call[c].of \in candidates
=============================================================================
