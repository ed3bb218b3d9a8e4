---------------------------- MODULE MemoryProofs ----------------------------
(***************************************************************************)
(* The invariants of the two memories.                                       *)
(*                                                                         *)
(* Those of MemoryWorker, for every set of requests, whatever each of them   *)
(* asks and however many of them fail: both need what a request has already  *)
(* written when it comes to its next call, and Progress says it, place by    *)
(* place.                                                                   *)
(*                                                                         *)
(* Those of WorkingSets, for every batch, every order in which its threads    *)
(* end and any number of reports and reviews: StoreInductive adds to the      *)
(* invariant what holds of the working sets while they are not merged yet.    *)
(***************************************************************************)
EXTENDS MemoryWorker, WorkingSets, TLAPS, FiniteSetTheorems, WellFoundedInduction

-----------------------------------------------------------------------------
(* MemoryWorker.                                                            *)

\* What a candidate and a review rest on.
Backed ==
  /\ candidates \subseteq objects \cap registered
  /\ \A r \in reviews : r.of \in candidates

ProposeProgress(c) ==
  call[c].kind = "propose" =>
    /\ call[c].at \in {"put", "register", "insert", "event", "over"}
    /\ call[c].at \in {"register", "insert"} => c \in objects
    /\ call[c].at = "insert" => c \in registered
    /\ call[c].at = "event" \/ call[c].status = 201 => c \in candidates

ReviewProgress(c) ==
  call[c].kind = "review" =>
    /\ call[c].at \in {"exists", "insert", "event", "over"}
    /\ call[c].at = "insert" => call[c].of \in candidates
    /\ call[c].at = "event" \/ call[c].status = 201 =>
         [of |-> call[c].of, decision |-> call[c].decision] \in reviews

AcceptProgress(c) ==
  call[c].kind = "accept" =>
    /\ call[c].at \in {"exists", "reviewed", "put", "register", "vector", "insert",
                       "promote", "event", "over"}
    /\ call[c].at \notin {"exists", "over"} => call[c].of \in candidates
    /\ call[c].at \in {"put", "register", "vector", "insert"} =>
         [of |-> call[c].of, decision |-> "accepted"] \in reviews
    /\ call[c].at \in {"register", "vector", "insert"} => c \in objects
    /\ call[c].at \in {"vector", "insert"} => c \in registered
    /\ call[c].at \in {"promote", "event"} \/ call[c].status = 201 =>
         [id |-> c, of |-> call[c].of] \in patterns
    /\ call[c].at = "event" \/ call[c].status = 201 => call[c].of \in promoted

OtherProgress(c) ==
  /\ call[c].kind = "get" =>
       /\ call[c].at \in {"exists", "over"}
       /\ call[c].status = 200 => call[c].of \in candidates
  /\ call[c].kind = "patterns" =>
       /\ call[c].at \in {"rows", "over"}
       /\ call[c].status = 200 => \A id \in call[c].found : \E p \in patterns : p.id = id
  /\ call[c].kind = "query" =>
       /\ call[c].at \in {"search", "rows", "record", "over"}
       /\ call[c].at = "record" \/ call[c].status = 200 =>
            \A id \in call[c].found : \E p \in patterns : p.id = id
       /\ call[c].status = 200 => c \in records
       /\ call[c].status # 201
  /\ call[c].kind = "ops" =>
       /\ call[c].at \in {"record", "event", "over"}
       /\ call[c].at = "event" \/ call[c].status = 201 => c \in records
  /\ call[c].kind = "event" => call[c].at \in {"event", "over"}
  /\ call[c].kind = "none" => call[c].at \in {"idle", "over"} /\ call[c].status # 200
  /\ call[c].kind = "none" => call[c].status # 201
  /\ call[c].kind \notin {"query", "patterns"} => call[c].found = {}
  /\ call[c].at # "over" => call[c].status = 0
  /\ call[c].status = 200 => call[c].kind \in {"get", "query", "patterns"}
  /\ call[c].kind \in {"get", "patterns"} => call[c].status # 201
  /\ call[c].status = 201 => [type |-> EventType(call[c].kind), of |-> c] \in events

Progress ==
  \A c \in Calls : ProposeProgress(c) /\ ReviewProgress(c) /\ AcceptProgress(c)
                   /\ OtherProgress(c)

IInv == TypeOK /\ Backed /\ Progress /\ PatternsAreReviewed

-----------------------------------------------------------------------------
(* Nothing is ever deleted.                                                 *)

Grows ==
  /\ objects \subseteq objects' /\ registered \subseteq registered'
  /\ candidates \subseteq candidates' /\ promoted \subseteq promoted'
  /\ reviews \subseteq reviews' /\ patterns \subseteq patterns'
  /\ events \subseteq events' /\ records \subseteq records'

\* So what another request has done stays done.
LEMMA OthersProgress ==
  ASSUME NEW d \in Calls, Grows, call'[d] = call[d],
         ProposeProgress(d), ReviewProgress(d), AcceptProgress(d), OtherProgress(d)
  PROVE  ProposeProgress(d)' /\ ReviewProgress(d)' /\ AcceptProgress(d)' /\ OtherProgress(d)'
<1>1. ProposeProgress(d)'
  BY DEF Grows, ProposeProgress
<1>2. ReviewProgress(d)'
  BY DEF Grows, ReviewProgress
<1>3. AcceptProgress(d)'
  BY DEF Grows, AcceptProgress
<1>4. OtherProgress(d)'
  BY DEF Grows, OtherProgress, EventType
<1> QED BY <1>1, <1>2, <1>3, <1>4

\* What is left to show of a step: its own request.
LEMMA ProgressStep ==
  ASSUME Progress, NEW c \in Calls, Grows, \A d \in Calls \ {c} : call'[d] = call[d],
         ProposeProgress(c)', ReviewProgress(c)', AcceptProgress(c)', OtherProgress(c)'
  PROVE  Progress'
<1> SUFFICES ASSUME NEW d \in Calls
             PROVE  ProposeProgress(d)' /\ ReviewProgress(d)' /\ AcceptProgress(d)' /\ OtherProgress(d)'
  BY DEF Progress
<1>1. CASE d = c
  BY <1>1
<1>2. CASE d # c
  BY <1>2, OthersProgress DEF Progress
<1> QED BY <1>1, <1>2

\* What a request's next place, or its answer, leaves alone.
Kept(c) ==
  /\ call'[c].kind = call[c].kind /\ call'[c].of = call[c].of
  /\ call'[c].decision = call[c].decision /\ call'[c].found = call[c].found
  /\ \A d \in Calls \ {c} : call'[d] = call[d]

LEMMA GotoFacts ==
  ASSUME TypeOK, NEW c \in Calls, NEW place \in Place, Goto(c, place)
  PROVE  /\ call' \in [Calls -> Call] /\ Kept(c)
         /\ call'[c].at = place /\ call'[c].status = call[c].status
BY DEF TypeOK, Call, Goto, Kept

\* A record with one field changed is a record still.
LEMMA StatusFacts ==
  ASSUME NEW r \in Call, NEW status \in Status
  PROVE  LET q == [r EXCEPT !.status = status] IN
         /\ q \in Call /\ q.kind = r.kind /\ q.at = r.at /\ q.of = r.of
         /\ q.decision = r.decision /\ q.found = r.found /\ q.status = status
BY DEF Call

LEMMA IdsFacts ==
  ASSUME NEW r \in Call, NEW ids \in SUBSET Calls
  PROVE  LET q == [r EXCEPT !.found = ids] IN
         /\ q \in Call /\ q.kind = r.kind /\ q.at = r.at /\ q.of = r.of
         /\ q.decision = r.decision /\ q.status = r.status /\ q.found = ids
BY DEF Call

LEMMA RespondFacts ==
  ASSUME TypeOK, NEW c \in Calls, NEW status \in Status, Respond(c, status)
  PROVE  /\ call' \in [Calls -> Call] /\ Kept(c)
         /\ call'[c].at = "over" /\ call'[c].status = status
<1> DEFINE over == [call EXCEPT ![c].at = "over"]
<1>1. over \in [Calls -> Call]
  BY DEF TypeOK, Call, Place, Status
<1>2. call' = [over EXCEPT ![c].status = status]
  BY DEF TypeOK, Respond
<1>3. /\ over[c].kind = call[c].kind /\ over[c].of = call[c].of /\ over[c].at = "over"
      /\ over[c].decision = call[c].decision /\ over[c].found = call[c].found
      /\ \A d \in Calls \ {c} : over[d] = call[d]
  BY DEF TypeOK, Call
<1> HIDE DEF over
<1>4. [over[c] EXCEPT !.status = status] \in Call
  BY <1>1, StatusFacts
<1> QED BY <1>1, <1>2, <1>3, <1>4 DEF Call, Kept

\* The same, of the results of a search.
FoundNow(c, ids) ==
  /\ call'[c].kind = call[c].kind /\ call'[c].of = call[c].of
  /\ call'[c].decision = call[c].decision /\ call'[c].found = ids
  /\ \A d \in Calls \ {c} : call'[d] = call[d]

\* One value of a function replaced.
LEMMA Updated ==
  ASSUME NEW S, NEW T, NEW f \in [S -> T], NEW a \in S, NEW b \in T
  PROVE  /\ [f EXCEPT ![a] = b] \in [S -> T] /\ [f EXCEPT ![a] = b][a] = b
         /\ \A x \in S \ {a} : [f EXCEPT ![a] = b][x] = f[x]
OBVIOUS

LEMMA FoundFacts ==
  ASSUME TypeOK, NEW c \in Calls, NEW place \in Place, NEW ids \in SUBSET Calls,
         call' = [call EXCEPT ![c].at = place, ![c].found = ids]
  PROVE  /\ call' \in [Calls -> Call] /\ FoundNow(c, ids)
         /\ call'[c].at = place /\ call'[c].status = call[c].status
<1> DEFINE placed == [call EXCEPT ![c].at = place]
<1>1. placed \in [Calls -> Call]
  BY DEF TypeOK, Call
<1>2. call' = [placed EXCEPT ![c].found = ids]
  BY DEF TypeOK
<1>3. /\ placed[c].kind = call[c].kind /\ placed[c].of = call[c].of /\ placed[c].at = place
      /\ placed[c].decision = call[c].decision /\ placed[c].status = call[c].status
      /\ \A d \in Calls \ {c} : placed[d] = call[d]
  BY DEF TypeOK, Call
<1> HIDE DEF placed
<1> DEFINE named == [placed[c] EXCEPT !.found = ids]
<1>4. /\ named \in Call /\ named.kind = placed[c].kind /\ named.at = placed[c].at
      /\ named.of = placed[c].of /\ named.decision = placed[c].decision
      /\ named.status = placed[c].status /\ named.found = ids
  BY <1>1, IdsFacts
<1>5. call' = [placed EXCEPT ![c] = named]
  BY <1>1, <1>2
<1> HIDE DEF named
<1>6. /\ call' \in [Calls -> Call] /\ call'[c] = named
      /\ \A d \in Calls \ {c} : call'[d] = placed[d]
  <2> DEFINE after == [placed EXCEPT ![c] = named]
  <2>1. /\ after \in [Calls -> Call] /\ after[c] = named
        /\ \A d \in Calls \ {c} : after[d] = placed[d]
    BY <1>1, <1>4, Updated
  <2>2. call' = after
    BY <1>5
  <2> HIDE DEF after
  <2> QED BY <2>1, <2>2
<1> QED BY <1>3, <1>4, <1>6 DEF FoundNow

LEMMA ListFacts ==
  ASSUME TypeOK, NEW c \in Calls, NEW ids \in SUBSET Calls,
         call' = [call EXCEPT ![c].at = "over", ![c].found = ids, ![c].status = 200]
  PROVE  /\ call' \in [Calls -> Call] /\ FoundNow(c, ids)
         /\ call'[c].at = "over" /\ call'[c].status = 200
<1> DEFINE over == [call EXCEPT ![c].at = "over"]
<1>1. over \in [Calls -> Call]
  BY DEF TypeOK, Call, Place
<1>2. call' = [over EXCEPT ![c].found = ids, ![c].status = 200]
  BY DEF TypeOK
<1>3. /\ over[c].kind = call[c].kind /\ over[c].of = call[c].of /\ over[c].at = "over"
      /\ over[c].decision = call[c].decision
      /\ \A d \in Calls \ {c} : over[d] = call[d]
  BY DEF TypeOK, Call
<1> HIDE DEF over
<1> DEFINE named == [over[c] EXCEPT !.found = ids]
<1>4. /\ named \in Call
      /\ named.kind = over[c].kind /\ named.of = over[c].of /\ named.at = over[c].at
      /\ named.decision = over[c].decision /\ named.found = ids
  BY <1>1, IdsFacts DEF Call
<1> DEFINE answered == [named EXCEPT !.status = 200]
<1>5. call' = [over EXCEPT ![c] = answered]
  BY <1>1, <1>2
<1> HIDE DEF named
<1>6. 200 \in Status
  BY DEF Status
<1>7. /\ answered \in Call /\ answered.kind = named.kind /\ answered.at = named.at
      /\ answered.of = named.of /\ answered.decision = named.decision
      /\ answered.found = named.found /\ answered.status = 200
  BY <1>4, <1>6, StatusFacts
<1> HIDE DEF answered
<1>8. /\ call' \in [Calls -> Call] /\ call'[c] = answered
      /\ \A d \in Calls \ {c} : call'[d] = over[d]
  <2> DEFINE after == [over EXCEPT ![c] = answered]
  <2>1. answered \in Call
    BY <1>7
  <2>2. /\ after \in [Calls -> Call] /\ after[c] = answered
        /\ \A d \in Calls \ {c} : after[d] = over[d]
    BY <1>1, <2>1, Updated
  <2>3. call' = after
    BY <1>5
  <2> HIDE DEF after
  <2> QED BY <2>2, <2>3
<1> QED BY <1>3, <1>4, <1>7, <1>8 DEF FoundNow

LEMMA InitIInv == Init => IInv
<1> SUFFICES ASSUME Init PROVE IInv
  OBVIOUS
<1>1. TypeOK
  BY CallsAssumption DEF Init, TypeOK, Call, NoCall, Status, Kind, Status, Place, Decision
<1>2. Backed /\ PatternsAreReviewed
  BY DEF Init, Backed, PatternsAreReviewed
<1>3. ASSUME NEW c \in Calls
      PROVE  /\ call[c].kind = "none" /\ call[c].at = "idle"
             /\ call[c].status = 0 /\ call[c].found = {}
  BY DEF Init, NoCall
<1>4. Progress
  <2> SUFFICES ASSUME NEW c \in Calls
               PROVE  ProposeProgress(c) /\ ReviewProgress(c) /\ AcceptProgress(c) /\ OtherProgress(c)
    BY DEF Progress
  <2> /\ call[c].kind = "none" /\ call[c].at = "idle"
      /\ call[c].status = 0 /\ call[c].found = {}
    BY <1>3
  <2> QED BY DEF ProposeProgress, ReviewProgress, AcceptProgress, OtherProgress
<1> QED BY <1>1, <1>2, <1>4 DEF IInv

LEMMA LookUpStep == ASSUME IInv, NEW c \in Calls, LookUp(c) PROVE IInv'
<1> USE DEF LookUp, Found, At, Goto, Respond, objectVars, learnVars
<1>1. TypeOK'
  BY CallsAssumption DEF IInv, TypeOK, Call, Kind, Status, Place, Decision
<1>2. Backed'
  BY DEF IInv, TypeOK, Backed, Progress, ReviewProgress, ProposeProgress
<1>3. PatternsAreReviewed'
  BY DEF IInv, TypeOK, Backed, PatternsAreReviewed, Progress, AcceptProgress
<1>4. Progress'
  <2>1. Grows
    BY DEF Grows
  <2>2. \A d \in Calls \ {c} : call'[d] = call[d]
    BY DEF IInv, TypeOK
  <2>3. ProposeProgress(c)'
    BY DEF IInv, TypeOK, Progress, ProposeProgress, Call
  <2>4. ReviewProgress(c)'
    <3>1. ReviewProgress(c) /\ call \in [Calls -> Call]
      BY DEF IInv, TypeOK, Progress
    <3>2. reviews' = reviews /\ candidates' = candidates
      OBVIOUS
    <3>3. CASE call[c].kind # "review"
      <4>1. call'[c].kind = call[c].kind
        BY <3>1 DEF Call
      <4> QED BY <3>3, <4>1 DEF ReviewProgress
    <3>4. CASE call[c].kind = "review" /\ Found(c)
      <4>1. call' = [call EXCEPT ![c].at = "insert"] /\ call[c].of \in candidates
        BY <3>4
      <4>2. /\ call'[c].at = "insert" /\ call'[c].status = call[c].status
            /\ call'[c].of = call[c].of /\ call'[c].decision = call[c].decision
        BY <3>1, <4>1 DEF Call
      <4> QED BY <3>1, <3>2, <3>4, <4>1, <4>2 DEF ReviewProgress
    <3>5. CASE call[c].kind = "review" /\ ~ Found(c)
      <4>1. call' = [call EXCEPT ![c].at = "over", ![c].status = 404]
        BY <3>5
      <4>2. call'[c].at = "over" /\ call'[c].status = 404
        BY <3>1, <4>1 DEF Call
      <4> QED BY <4>2 DEF ReviewProgress
    <3> QED BY <3>3, <3>4, <3>5
  <2>5. AcceptProgress(c)'
    BY DEF IInv, TypeOK, Progress, AcceptProgress, Call
  <2>6. OtherProgress(c)'
    BY DEF IInv, TypeOK, Progress, OtherProgress, Call, EventType
  <2> QED BY <2>1, <2>2, <2>3, <2>4, <2>5, <2>6, ProgressStep DEF IInv
<1> QED BY <1>1, <1>2, <1>3, <1>4 DEF IInv

LEMMA FindReviewStep == ASSUME IInv, NEW c \in Calls, FindReview(c) PROVE IInv'
<1> USE DEF FindReview, At, Goto, Respond, objectVars, learnVars, AcceptedReviews
<1>1. TypeOK'
  BY CallsAssumption DEF IInv, TypeOK, Call, Kind, Status, Place, Decision
<1>2. Backed'
  BY DEF IInv, TypeOK, Backed, Progress, ReviewProgress, ProposeProgress
<1>3. PatternsAreReviewed'
  BY DEF IInv, TypeOK, Backed, PatternsAreReviewed, Progress, AcceptProgress
<1>4. Progress'
  <2>1. Grows
    BY DEF Grows
  <2>2. \A d \in Calls \ {c} : call'[d] = call[d]
    BY DEF IInv, TypeOK
  <2>3. ProposeProgress(c)'
    BY DEF IInv, TypeOK, Progress, ProposeProgress, Call
  <2>4. ReviewProgress(c)'
    BY DEF IInv, TypeOK, Progress, ReviewProgress, Call
  <2>5. AcceptProgress(c)'
    BY DEF IInv, TypeOK, Progress, AcceptProgress, Call
  <2>6. OtherProgress(c)'
    BY DEF IInv, TypeOK, Progress, OtherProgress, Call, EventType
  <2> QED BY <2>1, <2>2, <2>3, <2>4, <2>5, <2>6, ProgressStep DEF IInv
<1> QED BY <1>1, <1>2, <1>3, <1>4 DEF IInv

LEMMA PutStep == ASSUME IInv, NEW c \in Calls, Put(c) PROVE IInv'
<1> USE DEF Put, At, Goto, Respond, objectVars, learnVars
<1>1. TypeOK'
  BY CallsAssumption DEF IInv, TypeOK, Call, Kind, Status, Place, Decision
<1>2. Backed'
  BY DEF IInv, TypeOK, Backed, Progress, ReviewProgress, ProposeProgress
<1>3. PatternsAreReviewed'
  BY DEF IInv, TypeOK, Backed, PatternsAreReviewed, Progress, AcceptProgress
<1>4. Progress'
  <2>1. Grows
    BY DEF Grows
  <2>2. \A d \in Calls \ {c} : call'[d] = call[d]
    BY DEF IInv, TypeOK
  <2>3. ProposeProgress(c)'
    BY DEF IInv, TypeOK, Progress, ProposeProgress, Call
  <2>4. ReviewProgress(c)'
    BY DEF IInv, TypeOK, Progress, ReviewProgress, Call
  <2>5. AcceptProgress(c)'
    BY DEF IInv, TypeOK, Progress, AcceptProgress, Call
  <2>6. OtherProgress(c)'
    BY DEF IInv, TypeOK, Progress, OtherProgress, Call, EventType
  <2> QED BY <2>1, <2>2, <2>3, <2>4, <2>5, <2>6, ProgressStep DEF IInv
<1> QED BY <1>1, <1>2, <1>3, <1>4 DEF IInv

LEMMA RegisterStep == ASSUME IInv, NEW c \in Calls, Register(c) PROVE IInv'
<1> USE DEF Register, At, Goto, Respond, objectVars, learnVars
<1>1. TypeOK'
  BY CallsAssumption DEF IInv, TypeOK, Call, Kind, Status, Place, Decision
<1>2. Backed'
  BY DEF IInv, TypeOK, Backed, Progress, ReviewProgress, ProposeProgress
<1>3. PatternsAreReviewed'
  BY DEF IInv, TypeOK, Backed, PatternsAreReviewed, Progress, AcceptProgress
<1>4. Progress'
  <2>1. Grows
    BY DEF Grows
  <2>2. \A d \in Calls \ {c} : call'[d] = call[d]
    BY DEF IInv, TypeOK
  <2>3. ProposeProgress(c)'
    BY DEF IInv, TypeOK, Progress, ProposeProgress, Call
  <2>4. ReviewProgress(c)'
    BY DEF IInv, TypeOK, Progress, ReviewProgress, Call
  <2>5. AcceptProgress(c)'
    BY DEF IInv, TypeOK, Progress, AcceptProgress, Call
  <2>6. OtherProgress(c)'
    BY DEF IInv, TypeOK, Progress, OtherProgress, Call, EventType
  <2> QED BY <2>1, <2>2, <2>3, <2>4, <2>5, <2>6, ProgressStep DEF IInv
<1> QED BY <1>1, <1>2, <1>3, <1>4 DEF IInv

LEMMA InsertCandidateStep == ASSUME IInv, NEW c \in Calls, InsertCandidate(c) PROVE IInv'
<1> USE DEF InsertCandidate, At, Goto, Respond, objectVars, learnVars
<1>1. TypeOK'
  BY CallsAssumption DEF IInv, TypeOK, Call, Kind, Status, Place, Decision
<1>2. Backed'
  BY DEF IInv, TypeOK, Backed, Progress, ReviewProgress, ProposeProgress
<1>3. PatternsAreReviewed'
  BY DEF IInv, TypeOK, Backed, PatternsAreReviewed, Progress, AcceptProgress
<1>4. Progress'
  <2>1. Grows
    BY DEF Grows
  <2>2. \A d \in Calls \ {c} : call'[d] = call[d]
    BY DEF IInv, TypeOK
  <2>3. ProposeProgress(c)'
    BY DEF IInv, TypeOK, Progress, ProposeProgress, Call
  <2>4. ReviewProgress(c)'
    BY DEF IInv, TypeOK, Progress, ReviewProgress, Call
  <2>5. AcceptProgress(c)'
    BY DEF IInv, TypeOK, Progress, AcceptProgress, Call
  <2>6. OtherProgress(c)'
    BY DEF IInv, TypeOK, Progress, OtherProgress, Call, EventType
  <2> QED BY <2>1, <2>2, <2>3, <2>4, <2>5, <2>6, ProgressStep DEF IInv
<1> QED BY <1>1, <1>2, <1>3, <1>4 DEF IInv

LEMMA InsertReviewStep == ASSUME IInv, NEW c \in Calls, InsertReview(c) PROVE IInv'
<1> USE DEF InsertReview, At, Goto, Respond, objectVars, learnVars
<1>1. TypeOK'
  BY CallsAssumption DEF IInv, TypeOK, Call, Kind, Status, Place, Decision
<1>2. Backed'
  BY DEF IInv, TypeOK, Backed, Progress, ReviewProgress, ProposeProgress
<1>3. PatternsAreReviewed'
  BY DEF IInv, TypeOK, Backed, PatternsAreReviewed, Progress, AcceptProgress
<1>4. Progress'
  <2>1. Grows
    BY DEF Grows
  <2>2. \A d \in Calls \ {c} : call'[d] = call[d]
    BY DEF IInv, TypeOK
  <2>3. ProposeProgress(c)'
    BY DEF IInv, TypeOK, Progress, ProposeProgress, Call
  <2>4. ReviewProgress(c)'
    BY DEF IInv, TypeOK, Progress, ReviewProgress, Call
  <2>5. AcceptProgress(c)'
    BY DEF IInv, TypeOK, Progress, AcceptProgress, Call
  <2>6. OtherProgress(c)'
    BY DEF IInv, TypeOK, Progress, OtherProgress, Call, EventType
  <2> QED BY <2>1, <2>2, <2>3, <2>4, <2>5, <2>6, ProgressStep DEF IInv
<1> QED BY <1>1, <1>2, <1>3, <1>4 DEF IInv

LEMMA UpsertVectorStep == ASSUME IInv, NEW c \in Calls, UpsertVector(c) PROVE IInv'
<1> USE DEF UpsertVector, At, Goto, Respond, objectVars, learnVars
<1>1. TypeOK'
  BY CallsAssumption DEF IInv, TypeOK, Call, Kind, Status, Place, Decision
<1>2. Backed'
  BY DEF IInv, TypeOK, Backed, Progress, ReviewProgress, ProposeProgress
<1>3. PatternsAreReviewed'
  BY DEF IInv, TypeOK, Backed, PatternsAreReviewed, Progress, AcceptProgress
<1>4. Progress'
  <2>1. Grows
    BY DEF Grows
  <2>2. \A d \in Calls \ {c} : call'[d] = call[d]
    BY DEF IInv, TypeOK
  <2>3. ProposeProgress(c)'
    BY DEF IInv, TypeOK, Progress, ProposeProgress, Call
  <2>4. ReviewProgress(c)'
    BY DEF IInv, TypeOK, Progress, ReviewProgress, Call
  <2>5. AcceptProgress(c)'
    BY DEF IInv, TypeOK, Progress, AcceptProgress, Call
  <2>6. OtherProgress(c)'
    BY DEF IInv, TypeOK, Progress, OtherProgress, Call, EventType
  <2> QED BY <2>1, <2>2, <2>3, <2>4, <2>5, <2>6, ProgressStep DEF IInv
<1> QED BY <1>1, <1>2, <1>3, <1>4 DEF IInv

LEMMA InsertPatternStep == ASSUME IInv, NEW c \in Calls, InsertPattern(c) PROVE IInv'
<1> USE DEF InsertPattern, At, Goto, Respond, objectVars, learnVars
<1>1. TypeOK'
  BY CallsAssumption DEF IInv, TypeOK, Call, Kind, Status, Place, Decision
<1>2. Backed'
  BY DEF IInv, TypeOK, Backed, Progress, ReviewProgress, ProposeProgress
<1>3. PatternsAreReviewed'
  BY DEF IInv, TypeOK, Backed, PatternsAreReviewed, Progress, AcceptProgress
<1>4. Progress'
  <2>1. Grows
    BY DEF Grows
  <2>2. \A d \in Calls \ {c} : call'[d] = call[d]
    BY DEF IInv, TypeOK
  <2>3. ProposeProgress(c)'
    BY DEF IInv, TypeOK, Progress, ProposeProgress, Call
  <2>4. ReviewProgress(c)'
    BY DEF IInv, TypeOK, Progress, ReviewProgress, Call
  <2>5. AcceptProgress(c)'
    BY DEF IInv, TypeOK, Progress, AcceptProgress, Call
  <2>6. OtherProgress(c)'
    BY DEF IInv, TypeOK, Progress, OtherProgress, Call, EventType
  <2> QED BY <2>1, <2>2, <2>3, <2>4, <2>5, <2>6, ProgressStep DEF IInv
<1> QED BY <1>1, <1>2, <1>3, <1>4 DEF IInv

LEMMA PromoteStep == ASSUME IInv, NEW c \in Calls, Promote(c) PROVE IInv'
<1>0. /\ call[c].kind = "accept" /\ call[c].at = "promote"
      /\ promoted' = promoted \cup {call[c].of}
      /\ call' \in [Calls -> Call] /\ Kept(c)
      /\ call'[c].at = "event" /\ call'[c].status = call[c].status
      /\ UNCHANGED <<objects, registered, candidates, reviews, patterns, vectors, events,
                     records, failures>>
  BY GotoFacts DEF IInv, Promote, At, objectVars, Place
<1>1. TypeOK'
  BY <1>0 DEF IInv, TypeOK, Call
<1>2. Backed'
  BY <1>0 DEF IInv, Backed
<1>3. PatternsAreReviewed'
  BY <1>0 DEF IInv, TypeOK, PatternsAreReviewed, Progress, AcceptProgress
<1>4. Progress'
  <2>1. Grows
    BY <1>0 DEF Grows
  <2>2. ProposeProgress(c)' /\ ReviewProgress(c)'
    BY <1>0 DEF Kept, ProposeProgress, ReviewProgress
  <2>3. AcceptProgress(c)'
    <3>1. AcceptProgress(c)
      BY DEF IInv, Progress
    <3> QED BY <1>0, <3>1 DEF Kept, AcceptProgress
  <2>4. OtherProgress(c)'
    <3>1. OtherProgress(c)
      BY DEF IInv, Progress
    <3> QED BY <1>0, <3>1 DEF Kept, OtherProgress
  <2> QED BY <1>0, <2>1, <2>2, <2>3, <2>4, ProgressStep DEF IInv, Kept
<1> QED BY <1>1, <1>2, <1>3, <1>4 DEF IInv

LEMMA SearchStep == ASSUME IInv, NEW c \in Calls, Search(c) PROVE IInv'
<1> USE DEF Search, At, Goto, Respond, objectVars, learnVars
<1> PICK ids \in SUBSET vectors : call' = [call EXCEPT ![c].at = "rows", ![c].found = ids]
  OBVIOUS
<1>1. TypeOK'
  <2>1. ids \in SUBSET Calls
    BY DEF IInv, TypeOK
  <2> QED BY <2>1, FoundFacts DEF IInv, TypeOK, Place
<1>2. Backed'
  BY DEF IInv, TypeOK, Backed, Progress, ReviewProgress, ProposeProgress
<1>3. PatternsAreReviewed'
  BY DEF IInv, TypeOK, Backed, PatternsAreReviewed, Progress, AcceptProgress
<1>4. Progress'
  <2>1. Grows
    BY DEF Grows
  <2>2. \A d \in Calls \ {c} : call'[d] = call[d]
    BY DEF IInv, TypeOK
  <2>3. ProposeProgress(c)'
    BY DEF IInv, TypeOK, Progress, ProposeProgress, Call
  <2>4. ReviewProgress(c)'
    BY DEF IInv, TypeOK, Progress, ReviewProgress, Call
  <2>5. AcceptProgress(c)'
    BY DEF IInv, TypeOK, Progress, AcceptProgress, Call
  <2>6. OtherProgress(c)'
    BY DEF IInv, TypeOK, Progress, OtherProgress, Call, EventType
  <2> QED BY <2>1, <2>2, <2>3, <2>4, <2>5, <2>6, ProgressStep DEF IInv
<1> QED BY <1>1, <1>2, <1>3, <1>4 DEF IInv

LEMMA SelectRowsStep == ASSUME IInv, NEW c \in Calls, SelectRows(c) PROVE IInv'
<1> DEFINE rows == Rows(call[c].found)
<1>1. rows \in SUBSET Calls /\ \A id \in rows : \E p \in patterns : p.id = id
  BY DEF IInv, TypeOK, Call, Rows
<1> HIDE DEF rows
<1>0. /\ call[c].kind \in {"query", "patterns"} /\ call[c].at = "rows"
      /\ call' \in [Calls -> Call] /\ FoundNow(c, rows)
      /\ call[c].kind = "query" => call'[c].at = "record" /\ call'[c].status = call[c].status
      /\ call[c].kind = "patterns" => call'[c].at = "over" /\ call'[c].status = 200
      /\ UNCHANGED <<objects, registered, candidates, promoted, reviews, patterns, vectors,
                     events, records, failures>>
  <2>1. CASE call[c].kind = "query"
    <3>1. call' = [call EXCEPT ![c].at = "record", ![c].found = rows]
      BY <2>1 DEF SelectRows, rows
    <3> QED BY <1>1, <2>1, <3>1, FoundFacts DEF IInv, Place, SelectRows, At, objectVars, learnVars
  <2>2. CASE call[c].kind = "patterns"
    <3>1. call' = [call EXCEPT ![c].at = "over", ![c].found = rows, ![c].status = 200]
      BY <2>2 DEF SelectRows, rows
    <3> QED BY <1>1, <2>2, <3>1, ListFacts DEF IInv, SelectRows, At, objectVars, learnVars
  <2> QED BY <2>1, <2>2 DEF SelectRows, At
<1>2. TypeOK'
  BY <1>0 DEF IInv, TypeOK
<1>3. Backed' /\ PatternsAreReviewed'
  BY <1>0 DEF IInv, Backed, PatternsAreReviewed
<1>4. Progress'
  <2>1. Grows
    BY <1>0 DEF Grows
  <2>2. ProposeProgress(c)' /\ ReviewProgress(c)' /\ AcceptProgress(c)'
    BY <1>0 DEF FoundNow, ProposeProgress, ReviewProgress, AcceptProgress
  <2>3. OtherProgress(c)'
    <3>1. OtherProgress(c)
      BY DEF IInv, Progress
    <3> QED BY <1>0, <1>1, <3>1 DEF FoundNow, OtherProgress
  <2> QED BY <1>0, <2>1, <2>2, <2>3, ProgressStep DEF IInv, FoundNow
<1> QED BY <1>2, <1>3, <1>4 DEF IInv

LEMMA RecordStep == ASSUME IInv, NEW c \in Calls, Record(c) PROVE IInv'
<1> USE DEF Record, At, Goto, Respond, objectVars, learnVars
<1>1. TypeOK'
  <2>1. call' \in [Calls -> Call]
    BY DEF IInv, TypeOK, Call, Place, Status, Decision, Kind
  <2>2. records' \subseteq Calls
    BY DEF IInv, TypeOK
  <2> QED BY <2>1, <2>2 DEF IInv, TypeOK
<1>2. Backed'
  BY DEF IInv, TypeOK, Backed, Progress, ReviewProgress, ProposeProgress
<1>3. PatternsAreReviewed'
  BY DEF IInv, TypeOK, Backed, PatternsAreReviewed, Progress, AcceptProgress
<1>4. Progress'
  <2>1. Grows
    BY DEF Grows
  <2>2. \A d \in Calls \ {c} : call'[d] = call[d]
    BY DEF IInv, TypeOK
  <2>3. ProposeProgress(c)'
    BY DEF IInv, TypeOK, Progress, ProposeProgress, Call
  <2>4. ReviewProgress(c)'
    BY DEF IInv, TypeOK, Progress, ReviewProgress, Call
  <2>5. AcceptProgress(c)'
    BY DEF IInv, TypeOK, Progress, AcceptProgress, Call
  <2>6. OtherProgress(c)'
    BY DEF IInv, TypeOK, Progress, OtherProgress, Call, EventType
  <2> QED BY <2>1, <2>2, <2>3, <2>4, <2>5, <2>6, ProgressStep DEF IInv
<1> QED BY <1>1, <1>2, <1>3, <1>4 DEF IInv

LEMMA WriteEventStep == ASSUME IInv, NEW c \in Calls, WriteEvent(c) PROVE IInv'
<1>0. /\ call[c].at = "event"
      /\ events' = events \cup {[type |-> EventType(call[c].kind), of |-> c]}
      /\ call' \in [Calls -> Call] /\ Kept(c)
      /\ call'[c].at = "over" /\ call'[c].status = 201
      /\ UNCHANGED <<objects, registered, candidates, promoted, reviews, patterns, vectors,
                     records, failures>>
  BY RespondFacts DEF Status, IInv, WriteEvent, objectVars, learnVars
<1>1. TypeOK'
  <2>1. call[c].kind \in {"propose", "review", "accept", "event", "ops"}
    <3>1. call[c].kind \in Kind \cup {"none"}
      BY DEF IInv, TypeOK, Call
    <3>2. OtherProgress(c)
      BY DEF IInv, Progress
    <3> QED BY <1>0, <3>1, <3>2 DEF Kind, OtherProgress
  <2>2. EventType(call[c].kind) \in {"candidate", "review", "pattern", "event", "ops"}
    BY <2>1 DEF Kind, EventType
  <2> QED BY <1>0, <2>2 DEF IInv, TypeOK
<1>2. Backed'
  BY <1>0 DEF IInv, Backed
<1>3. PatternsAreReviewed'
  BY <1>0 DEF IInv, PatternsAreReviewed
<1>4. Progress'
  <2>1. Grows
    BY <1>0 DEF Grows
  <2>2. ProposeProgress(c)'
    <3>1. ProposeProgress(c)
      BY DEF IInv, Progress
    <3> QED BY <1>0, <3>1 DEF Kept, ProposeProgress
  <2>3. ReviewProgress(c)'
    <3>1. ReviewProgress(c)
      BY DEF IInv, Progress
    <3> QED BY <1>0, <3>1 DEF Kept, ReviewProgress
  <2>4. AcceptProgress(c)'
    <3>1. AcceptProgress(c)
      BY DEF IInv, Progress
    <3> QED BY <1>0, <3>1 DEF Kept, AcceptProgress
  <2>5. OtherProgress(c)'
    <3>1. OtherProgress(c)
      BY DEF IInv, Progress
    <3>2. call[c].kind \notin {"none", "query", "get", "patterns"}
      BY <1>0, <3>1 DEF OtherProgress
    <3>3. EventType(call'[c].kind) = EventType(call[c].kind)
      BY <1>0 DEF Kept
    <3>4. [type |-> EventType(call'[c].kind), of |-> c] \in events'
      BY <1>0, <3>3
    <3>5. (EventType(call[c].kind))' = EventType(call'[c].kind)
      BY DEF EventType
    <3> QED BY <1>0, <3>1, <3>2, <3>4, <3>5 DEF Kept, OtherProgress
  <2> QED BY <1>0, <2>1, <2>2, <2>3, <2>4, <2>5, ProgressStep DEF IInv, Kept
<1> QED BY <1>1, <1>2, <1>3, <1>4 DEF IInv

LEMMA FailStep == ASSUME IInv, NEW c \in Calls, Fail(c) PROVE IInv'
<1>0. /\ call[c].at \notin {"idle", "over"}
      /\ failures < MaxFailures /\ failures' = failures + 1
      /\ call' \in [Calls -> Call] /\ Kept(c)
      /\ call'[c].at = "over" /\ call'[c].status = 500
      /\ UNCHANGED <<objects, registered, candidates, promoted, reviews, patterns, vectors,
                     events, records>>
  BY RespondFacts DEF Status, IInv, Fail, objectVars, learnVars
<1>1. TypeOK'
  BY <1>0, CallsAssumption DEF IInv, TypeOK
<1>2. Backed'
  BY <1>0 DEF IInv, Backed
<1>3. PatternsAreReviewed'
  BY <1>0 DEF IInv, PatternsAreReviewed
<1>4. Progress'
  <2>1. Grows
    BY <1>0 DEF Grows
  <2>2. ProposeProgress(c)' /\ ReviewProgress(c)' /\ AcceptProgress(c)'
    BY <1>0 DEF Kept, ProposeProgress, ReviewProgress, AcceptProgress
  <2>3. OtherProgress(c)'
    <3>1. OtherProgress(c)
      BY DEF IInv, Progress
    <3> QED BY <1>0, <3>1 DEF Kept, OtherProgress
  <2> QED BY <1>0, <2>1, <2>2, <2>3, ProgressStep DEF IInv, Kept
<1> QED BY <1>1, <1>2, <1>3, <1>4 DEF IInv

LEMMA ReceiveStep == ASSUME IInv, NEW c \in Calls, Receive(c) PROVE IInv'
<1> PICK kind \in Asks[c], target \in Calls, decision \in Decision :
       call' = [call EXCEPT ![c] =
                   [kind |-> kind, at |-> FirstStep(kind), of |-> target,
                    decision |-> decision, found |-> {}, status |-> 0]]
  BY DEF Receive
<1>0. /\ \A d \in Calls \ {c} : call'[d] = call[d]
      /\ UNCHANGED <<objects, registered, candidates, promoted, reviews, patterns, vectors,
                     events, records, failures>>
  BY DEF IInv, TypeOK, Receive, objectVars, learnVars
<1>1. kind \in Kind
  BY CallsAssumption
<1>2. FirstStep(kind) =
        IF kind = "propose" THEN "put"
        ELSE IF kind \in {"review", "accept", "get"} THEN "exists"
        ELSE IF kind = "query" THEN "search" ELSE IF kind = "patterns" THEN "rows" ELSE IF kind = "ops" THEN "record" ELSE "event"
  BY <1>1 DEF FirstStep, Kind
<1>3. /\ call'[c].kind = kind /\ call'[c].at = FirstStep(kind) /\ call'[c].status = 0
      /\ call'[c].of = target
      /\ call' \in [Calls -> Call]
  <2> DEFINE new == [kind |-> kind, at |-> FirstStep(kind), of |-> target,
                    decision |-> decision, found |-> {}, status |-> 0]
  <2>1. new \in Call
    <3>1. FirstStep(kind) \in Place
      BY <1>2 DEF Place
    <3> QED BY <1>1, <3>1 DEF Call, Status
  <2>2. call' = [call EXCEPT ![c] = new]
    OBVIOUS
  <2> HIDE DEF new
  <2>3. call'[c] = new /\ call' \in [Calls -> Call]
    BY <2>1, <2>2 DEF IInv, TypeOK
  <2> QED BY <2>3 DEF new
<1>4. TypeOK'
  BY <1>0, <1>3 DEF IInv, TypeOK
<1>5. Backed' /\ PatternsAreReviewed'
  BY <1>0 DEF IInv, Backed, PatternsAreReviewed
<1>6. Progress'
  <2>1. Grows
    BY <1>0 DEF Grows
  <2>2. ProposeProgress(c)' /\ ReviewProgress(c)' /\ AcceptProgress(c)'
    BY <1>1, <1>2, <1>3 DEF ProposeProgress, ReviewProgress, AcceptProgress
  <2>3. OtherProgress(c)'
    BY <1>1, <1>2, <1>3 DEF OtherProgress, Kind
  <2> QED BY <1>0, <2>1, <2>2, <2>3, ProgressStep DEF IInv
<1> QED BY <1>4, <1>5, <1>6 DEF IInv

LEMMA RefuseStep == ASSUME IInv, NEW c \in Calls, Refuse(c) PROVE IInv'
<1>0. /\ call[c].at = "idle"
      /\ call' \in [Calls -> Call] /\ Kept(c)
      /\ call'[c].at = "over" /\ call'[c].status = 400
      /\ UNCHANGED <<objects, registered, candidates, promoted, reviews, patterns, vectors,
                     events, records, failures>>
  BY RespondFacts DEF Status, IInv, Refuse, objectVars, learnVars
<1>1. TypeOK'
  BY <1>0 DEF IInv, TypeOK
<1>2. Backed' /\ PatternsAreReviewed'
  BY <1>0 DEF IInv, Backed, PatternsAreReviewed
<1>3. Progress'
  <2>1. Grows
    BY <1>0 DEF Grows
  <2>2. call[c].kind = "none" /\ call[c].found = {}
    <3>1. call[c].kind \in Kind \cup {"none"}
      BY DEF IInv, TypeOK, Call
    <3>2. ProposeProgress(c) /\ ReviewProgress(c) /\ AcceptProgress(c) /\ OtherProgress(c)
      BY DEF IInv, Progress
    <3>3. call[c].kind = "none"
      BY <1>0, <3>1, <3>2 DEF Kind, ProposeProgress, ReviewProgress, AcceptProgress,
         OtherProgress
    <3> QED BY <3>2, <3>3 DEF OtherProgress
  <2>3. ProposeProgress(c)' /\ ReviewProgress(c)' /\ AcceptProgress(c)'
    BY <1>0, <2>2 DEF Kept, ProposeProgress, ReviewProgress, AcceptProgress
  <2>4. OtherProgress(c)'
    BY <1>0, <2>2 DEF Kept, OtherProgress
  <2> QED BY <1>0, <2>1, <2>3, <2>4, ProgressStep DEF IInv, Kept
<1> QED BY <1>1, <1>2, <1>3 DEF IInv

LEMMA StepIInv == IInv /\ [Next]_vars => IInv'
<1> SUFFICES ASSUME IInv, [Next]_vars PROVE IInv'
  OBVIOUS
<1>1. ASSUME NEW c \in Calls, Receive(c) PROVE IInv'
  BY <1>1, ReceiveStep
<1>2. ASSUME NEW c \in Calls, Step(c) PROVE IInv'
  BY <1>2, LookUpStep, FindReviewStep, PutStep, RegisterStep, InsertCandidateStep,
     InsertReviewStep, UpsertVectorStep, InsertPatternStep, PromoteStep, SearchStep,
     SelectRowsStep, RecordStep, WriteEventStep DEF Step
<1>3. ASSUME NEW c \in Calls, Fail(c) PROVE IInv'
  BY <1>3, FailStep
<1>4. ASSUME NEW c \in Calls, Refuse(c) PROVE IInv'
  BY <1>4, RefuseStep
<1>5. CASE UNCHANGED vars
  BY <1>5 DEF vars, objectVars, learnVars, IInv, TypeOK, Backed, PatternsAreReviewed,
     Progress, ProposeProgress, ReviewProgress, AcceptProgress, OtherProgress, EventType
<1> QED BY <1>1, <1>2, <1>3, <1>4, <1>5 DEF Next

LEMMA Inductive == Spec => []IInv
<1> QED BY InitIInv, StepIInv, PTL DEF Spec

-----------------------------------------------------------------------------
(* Every request, row and object is of its type, for any requests.          *)
THEOREM TypeCorrect == Spec => []TypeOK
<1>1. IInv => TypeOK
  BY DEF IInv
<1> QED BY <1>1, Inductive, PTL

(* No order of the calls of any number of requests, and no failure between   *)
(* them, makes a pattern of a candidate that is not stored and reviewed, or  *)
(* two patterns of one.                                                     *)
THEOREM PatternsReviewed == Spec => []PatternsAreReviewed
<1>1. IInv => PatternsAreReviewed
  BY DEF IInv
<1> QED BY <1>1, Inductive, PTL

(* What the worker acknowledged is complete, and a query returns patterns.   *)
THEOREM Acknowledged == Spec => []AcknowledgedIsDone
<1>1. IInv => AcknowledgedIsDone
  <2> SUFFICES ASSUME IInv, NEW c \in Calls
               PROVE
    /\ call[c].status = 201 =>
         /\ [type |-> EventType(call[c].kind), of |-> c] \in events
         /\ call[c].kind = "propose" => c \in candidates \cap objects \cap registered
         /\ call[c].kind = "review" =>
              [of |-> call[c].of, decision |-> call[c].decision] \in reviews
         /\ call[c].kind = "accept" =>
              [id |-> c, of |-> call[c].of] \in patterns /\ call[c].of \in promoted
         /\ call[c].kind = "ops" => c \in records
    /\ call[c].status = 200 =>
         /\ \A id \in call[c].found : \E p \in patterns : p.id = id
         /\ call[c].kind = "query" => c \in records
         /\ call[c].kind = "get" => call[c].of \in candidates
    BY DEF AcknowledgedIsDone
  <2>1. /\ ProposeProgress(c) /\ ReviewProgress(c) /\ AcceptProgress(c) /\ OtherProgress(c)
        /\ Backed
    BY DEF IInv, Progress
  <2>2. call[c].status = 201 => [type |-> EventType(call[c].kind), of |-> c] \in events
    BY <2>1 DEF OtherProgress
  <2>3. call[c].status = 201 /\ call[c].kind = "propose" => c \in candidates \cap objects \cap registered
    BY <2>1 DEF ProposeProgress, Backed
  <2>4. call[c].status = 201 /\ call[c].kind = "review" =>
          [of |-> call[c].of, decision |-> call[c].decision] \in reviews
    BY <2>1 DEF ReviewProgress
  <2>5. call[c].status = 201 /\ call[c].kind = "accept" =>
          [id |-> c, of |-> call[c].of] \in patterns /\ call[c].of \in promoted
    BY <2>1 DEF AcceptProgress
  <2>6. call[c].status = 201 /\ call[c].kind = "ops" => c \in records
    BY <2>1 DEF OtherProgress
  <2>7. call[c].status = 200 =>
          /\ \A id \in call[c].found : \E p \in patterns : p.id = id
          /\ call[c].kind = "query" => c \in records
          /\ call[c].kind = "get" => call[c].of \in candidates
    BY <2>1 DEF OtherProgress
  <2> QED BY <2>2, <2>3, <2>4, <2>5, <2>6, <2>7
<1> QED BY <1>1, Inductive, PTL

-----------------------------------------------------------------------------
(* WorkingSets: lists.  Its list operators are recursive functions; what they  *)
(* return is proved by induction over the length of the list.                 *)

\* A set of numbers that has 0 and the successor of each of its elements has all.
LEMMA SetInduction ==
  ASSUME NEW S \in SUBSET Nat, 0 \in S, \A n \in S : n + 1 \in S
  PROVE  S = Nat
<1> DEFINE R == OpToRel(<, Nat)
           T == Nat \ S
<1>1. IsWellFoundedOn(R, Nat)
  BY NatLessThanWellFounded
<1>2. \A x, y \in Nat : <<y, x>> \in R <=> y < x
  BY DEF OpToRel
<1> HIDE DEF R
<1>3. SUFFICES ASSUME T # {} PROVE FALSE
  OBVIOUS
<1>4. T \subseteq Nat
  OBVIOUS
<1>5. PICK x \in T : \A y \in T : ~ (<<y, x>> \in R)
  <2> HIDE DEF T
  <2> QED BY <1>1, <1>3, <1>4, WFMin
<1>6. x # 0 /\ x - 1 \in Nat /\ x - 1 < x
  BY <1>5
<1>7. x - 1 \in S
  BY <1>2, <1>5, <1>6
<1> QED BY <1>5, <1>6, <1>7

\* e is what recursion over 0 .. n with first value b and step g computes in X.
IsStep(g, n, X) == g \in [X \X (1 .. n) -> X]

Follows(e, g, b, n, X) ==
  e \in [0 .. n -> X] /\ e[0] = b /\ \A i \in 1 .. n : e[i] = g[<<e[i - 1], i>>]

\* Recursion over 0 .. n has a result.
LEMMA Recursion ==
  ASSUME NEW n \in Nat, NEW X, NEW b \in X, NEW g, IsStep(g, n, X)
  PROVE  \E e : Follows(e, g, b, n, X)
<1> DEFINE N == {m \in Nat : m <= n => \E e : Follows(e, g, b, m, X)}
<1>1. 0 \in N
  <2>1. Follows([i \in 0 .. 0 |-> b], g, b, 0, X)
    BY DEF Follows
  <2> QED BY <2>1
<1>2. ASSUME NEW m \in N PROVE m + 1 \in N
  <2>0. m \in Nat /\ m + 1 \in Nat
    OBVIOUS
  <2> SUFFICES ASSUME m + 1 <= n
               PROVE  \E e : Follows(e, g, b, m + 1, X)
    BY <2>0
  <2>1. PICK e : Follows(e, g, b, m, X)
    BY <2>0
  <2> DEFINE f == [i \in 0 .. m + 1 |-> IF i <= m THEN e[i] ELSE g[<<e[m], m + 1>>]]
  <2>2. e[m] \in X /\ m + 1 \in 1 .. n /\ e[0] = b
    BY <2>0, <2>1 DEF Follows
  <2>3. g[<<e[m], m + 1>>] \in X
    BY <2>2 DEF IsStep
  <2>4. f \in [0 .. m + 1 -> X]
    BY <2>0, <2>1, <2>3 DEF Follows
  <2>5. f[0] = b
    BY <2>0, <2>2
  <2>6. ASSUME NEW i \in 1 .. m + 1 PROVE f[i] = g[<<f[i - 1], i>>]
    <3>1. CASE i \in 1 .. m
      <4>1. f[i] = e[i] /\ f[i - 1] = e[i - 1]
        BY <2>0, <3>1
      <4> QED BY <2>1, <3>1, <4>1 DEF Follows
    <3>2. CASE i = m + 1
      <4>1. f[m + 1] = g[<<e[m], m + 1>>] /\ f[m] = e[m]
        BY <2>0
      <4> QED BY <2>0, <3>2, <4>1
    <3> QED BY <2>0, <3>1, <3>2
  <2>7. Follows(f, g, b, m + 1, X)
    BY <2>4, <2>5, <2>6 DEF Follows
  <2> QED BY <2>7
<1>3. N = Nat
  <2>1. N \in SUBSET Nat
    OBVIOUS
  <2> HIDE DEF N
  <2> QED BY <1>1, <1>2, <2>1, SetInduction
<1>4. n \in N
  BY <1>3
<1> QED BY <1>4

\* The length, the items and the set of a list.
LEMMA Lists ==
  ASSUME NEW T, NEW s \in Seq(T)
  PROVE  /\ Len(s) \in Nat /\ DOMAIN s = 1 .. Len(s)
         /\ \A i \in 1 .. Len(s) : s[i] \in T
         /\ \A x : x \in ToSet(s) <=> \E i \in 1 .. Len(s) : s[i] = x
         /\ ToSet(s) \subseteq T
<1>1. DOMAIN s = 1 .. Len(s)
  OBVIOUS
<1> QED BY <1>1 DEF ToSet

\* What Chosen returns is a list of such items.
LEMMA ChosenType ==
  ASSUME NEW T, NEW s \in Seq(T), NEW S
  PROVE  Chosen(s, S) \in Seq(T)
<1> DEFINE g == [p \in Seq(T) \X (1 .. Len(s)) |->
                   IF s[p[2]] \in S THEN Append(p[1], s[p[2]]) ELSE p[1]]
           Unfolded(h) == [n \in 0 .. Len(s) |->
                             IF n = 0 THEN <<>>
                             ELSE IF s[n] \in S THEN Append(h[n - 1], s[n]) ELSE h[n - 1]]
           f == CHOOSE h : h = Unfolded(h)
<1>1. Len(s) \in Nat /\ <<>> \in Seq(T) /\ \A i \in 1 .. Len(s) : s[i] \in T
  OBVIOUS
<1>2. g \in [Seq(T) \X (1 .. Len(s)) -> Seq(T)]
  OBVIOUS
<1>3. \E e : Follows(e, g, <<>>, Len(s), Seq(T))
  <2>1. IsStep(g, Len(s), Seq(T))
    BY <1>2 DEF IsStep
  <2> HIDE DEF g
  <2> QED BY <1>1, <2>1, Recursion
<1>3a. PICK e : e \in [0 .. Len(s) -> Seq(T)] /\ e[0] = <<>>
                /\ \A i \in 1 .. Len(s) : e[i] = g[<<e[i - 1], i>>]
  <2> HIDE DEF g
  <2> QED BY <1>3 DEF Follows
<1>4. \A i \in 1 .. Len(s) : e[i - 1] \in Seq(T)
  BY <1>1, <1>3a
<1>5. \A i \in 1 .. Len(s) :
        e[i] = IF s[i] \in S THEN Append(e[i - 1], s[i]) ELSE e[i - 1]
  BY <1>3a, <1>4
<1>6. e = Unfolded(e)
  <2>1. ASSUME NEW n \in 0 .. Len(s)
        PROVE  e[n] = IF n = 0 THEN <<>>
                      ELSE IF s[n] \in S THEN Append(e[n - 1], s[n]) ELSE e[n - 1]
    <3>1. n = 0 \/ n \in 1 .. Len(s)
      BY <1>1
    <3>2. n # 0 => e[n] = IF s[n] \in S THEN Append(e[n - 1], s[n]) ELSE e[n - 1]
      BY <1>5, <3>1
    <3> QED BY <1>3a, <3>2
  <2>2. e = [n \in 0 .. Len(s) |-> e[n]]
    BY <1>3a
  <2> QED BY <2>1, <2>2
<1>7. f = Unfolded(f)
  <2> HIDE DEF Unfolded
  <2> QED BY <1>6
<1>8. Chosen(s, S) = f[Len(s)]
  BY DEF Chosen
<1> HIDE DEF f
<1>9. /\ f[0] = <<>>
      /\ \A i \in 1 .. Len(s) : f[i] = IF s[i] \in S THEN Append(f[i - 1], s[i]) ELSE f[i - 1]
  <2>1. \A n \in 0 .. Len(s) :
          f[n] = IF n = 0 THEN <<>>
                 ELSE IF s[n] \in S THEN Append(f[n - 1], s[n]) ELSE f[n - 1]
    BY <1>7, Zenon
  <2>2. \A i \in 1 .. Len(s) : i \in 0 .. Len(s) /\ i # 0
    BY <1>1
  <2>3. 0 \in 0 .. Len(s)
    BY <1>1
  <2>4. f[0] = <<>>
    BY <2>1, <2>3
  <2>5. ASSUME NEW i \in 1 .. Len(s)
        PROVE  f[i] = IF s[i] \in S THEN Append(f[i - 1], s[i]) ELSE f[i - 1]
    <3>1. i \in 0 .. Len(s) /\ i # 0
      BY <2>2
    <3> QED BY <2>1, <3>1, Zenon
  <2> QED BY <2>4, <2>5
<1> DEFINE N == {n \in Nat : n <= Len(s) => f[n] \in Seq(T)}
<1>10. 0 \in N
  BY <1>1, <1>9
<1>11. ASSUME NEW n \in N PROVE n + 1 \in N
  <2>0. n \in Nat /\ n + 1 \in Nat
    OBVIOUS
  <2> SUFFICES ASSUME n + 1 <= Len(s) PROVE f[n + 1] \in Seq(T)
    BY <2>0
  <2>1. f[n] \in Seq(T) /\ n + 1 \in 1 .. Len(s) /\ (n + 1) - 1 = n
    BY <1>1, <2>0
  <2>2. f[n + 1] = IF s[n + 1] \in S THEN Append(f[n], s[n + 1]) ELSE f[n]
    BY <1>9, <2>1
  <2>3. s[n + 1] \in T
    BY <1>1, <2>1
  <2> QED BY <2>1, <2>2, <2>3
<1>12. N = Nat
  <2>1. N \in SUBSET Nat
    OBVIOUS
  <2> HIDE DEF N
  <2> QED BY <1>10, <1>11, <2>1, SetInduction
<1> QED BY <1>1, <1>8, <1>12

-----------------------------------------------------------------------------
(* Stores.                                                                   *)

\* A store says one thing: usage, reports, payloads and reviews agree, and all of them
\* are on tasks of D.
Whole(s, D) ==
  /\ s \in Stores
  /\ s.usage = Len(s.reports)
  /\ IsInjective(s.reports)
  /\ \A r \in Report : r \in ToSet(s.reports) <=> r[2] <= s.outputs[r[1]]
  /\ \A t \in Tasks : ReviewsAgree(s, t)
  /\ \A t \in Tasks \ D : s.outputs[t] = 0 /\ s.history[t] = <<>>

\* A report is a task and a number within the bound of its task.
LEMMA Reports ==
  /\ \A r \in Report : r = <<r[1], r[2]>> /\ r[1] \in Tasks /\ r[2] \in 1 .. AttemptsOf[r[1]]
  /\ \A t \in Tasks : AttemptsOf[t] \in Nat /\ \A n \in 1 .. AttemptsOf[t] : <<t, n>> \in Report
<1>1. \A t \in Tasks : AttemptsOf[t] \in Nat
  BY ReportsAssumption
<1>2. ASSUME NEW r \in Report
      PROVE  r = <<r[1], r[2]>> /\ r[1] \in Tasks /\ r[2] \in 1 .. AttemptsOf[r[1]]
  <2>1. PICK t \in Tasks : r \in {t} \X (1 .. AttemptsOf[t])
    BY DEF Report
  <2> QED BY <2>1
<1>3. ASSUME NEW t \in Tasks, NEW n \in 1 .. AttemptsOf[t] PROVE <<t, n>> \in Report
  BY DEF Report
<1> QED BY <1>1, <1>2, <1>3

\* A report brings facts.
LEMMA FactsArrive == \A t \in Tasks : FactsOf[t] \in Seq(Fact)
<1> SUFFICES ASSUME NEW t \in Tasks PROVE FactsOf[t] \in Seq(Fact)
  OBVIOUS
<1>1. FactsOf[t] \in Seq(ToSet(FactsOf[t])) /\ ToSet(FactsOf[t]) \subseteq Fact
  BY ReportsAssumption DEF Fact
<1> QED BY <1>1

\* The empty store is whole, and a working set seeded from it is empty.
LEMMA EmptyWhole == Whole(Empty, {}) /\ Seeded(Empty) = Empty
<1>1. Empty \in Stores
  BY DEF Empty, Stores
<1>2. Seeded(Empty) = Empty
  BY DEF Empty, Seeded
<1>3. ToSet(<<>>) = {} /\ IsInjective(<<>>)
  BY DEF ToSet, IsInjective
<1>4. \A r \in Report : ~ (r[2] <= Empty.outputs[r[1]])
  BY Reports DEF Empty
<1>5. \A t \in Tasks : ReviewsAgree(Empty, t)
  BY DEF Empty, ReviewsAgree
<1> QED BY <1>1, <1>2, <1>3, <1>4, <1>5 DEF Whole, Empty

\* ingest_worker_report leaves a store whole, with one report and one packet more.
LEMMA IngestedWhole ==
  ASSUME NEW D, NEW s, Whole(s, D), NEW t \in Tasks \cap D, s.outputs[t] < AttemptsOf[t]
  PROVE  /\ Whole(Ingested(s, t), D)
         /\ Ingested(s, t).outputs = [s.outputs EXCEPT ![t] = @ + 1]
         /\ Ingested(s, t).reports = Append(s.reports, <<t, s.outputs[t] + 1>>)
         /\ Ingested(s, t).packets = [s.packets EXCEPT ![<<t, s.outputs[t] + 1>>] = @ + 1]
<1> DEFINE u == Ingested(s, t)
           n == s.outputs[t] + 1
<1>1. /\ s \in Stores /\ s.outputs \in [Tasks -> Nat] /\ s.reports \in Seq(Report)
      /\ s.packets \in [Report -> Nat] /\ s.usage = Len(s.reports) /\ s.facts \in Seq(Fact)
      /\ s.history \in [Tasks -> Seq(Verdict)]
  BY DEF Whole, Stores
<1>2. n \in 1 .. AttemptsOf[t] /\ <<t, n>> \in Report /\ n \in Nat
  <2>1. s.outputs[t] \in Nat /\ AttemptsOf[t] \in Nat
    BY <1>1, Reports
  <2>2. n \in Nat /\ n \in 1 .. AttemptsOf[t]
    BY <2>1
  <2> QED BY <2>2, Reports
<1>3. /\ u.outputs = [s.outputs EXCEPT ![t] = @ + 1]
      /\ u.reports = Append(s.reports, <<t, n>>)
      /\ u.packets = [s.packets EXCEPT ![<<t, n>>] = @ + 1]
      /\ u.usage = s.usage + 1 /\ u.facts = s.facts \o FactsOf[t]
      /\ u.review = s.review /\ u.history = s.history /\ u.packages = s.packages
      /\ u = [facts |-> u.facts, reports |-> u.reports, packets |-> u.packets,
              usage |-> u.usage, outputs |-> u.outputs, review |-> u.review,
              history |-> u.history, packages |-> u.packages]
  <2>1. s = [facts |-> s.facts, reports |-> s.reports, packets |-> s.packets,
             usage |-> s.usage, outputs |-> s.outputs, review |-> s.review,
             history |-> s.history, packages |-> s.packages]
    BY <1>1 DEF Stores
  <2>2. u = [facts |-> s.facts \o FactsOf[t], reports |-> Append(s.reports, <<t, n>>),
             packets |-> [s.packets EXCEPT ![<<t, n>>] = @ + 1],
             usage |-> s.usage + 1, outputs |-> [s.outputs EXCEPT ![t] = @ + 1],
             review |-> s.review, history |-> s.history, packages |-> s.packages]
    <3>1. /\ u.facts = s.facts \o FactsOf[t] /\ u.reports = Append(s.reports, <<t, n>>)
          /\ u.packets = [s.packets EXCEPT ![<<t, n>>] = @ + 1]
      BY <2>1 DEF Ingested
    <3>2. u.usage = s.usage + 1 /\ u.outputs = [s.outputs EXCEPT ![t] = @ + 1]
      BY <2>1 DEF Ingested
    <3>3. u.review = s.review /\ u.history = s.history /\ u.packages = s.packages
      BY <2>1 DEF Ingested
    <3>4. DOMAIN u = DOMAIN s /\ u = [x \in DOMAIN s |-> u[x]]
      BY <2>1 DEF Ingested
    <3> HIDE DEF u, n
    <3> QED BY ONLY <2>1, <3>1, <3>2, <3>3, <3>4
  <2> HIDE DEF u
  <2> QED BY ONLY <2>2
<1> HIDE DEF u
<1>4. u \in Stores
  <2>1. s.facts \o FactsOf[t] \in Seq(Fact)
    BY <1>1, FactsArrive
  <2>2. u.packets \in [Report -> Nat]
    BY <1>1, <1>2, <1>3
  <2>3. u.outputs \in [Tasks -> Nat]
    BY <1>1, <1>3
  <2>4. u.reports \in Seq(Report) /\ u.usage \in Nat
    BY <1>1, <1>2, <1>3
  <2>5. u.review \in [Tasks -> Verdict \cup {Nothing}] /\ u.packages \in SUBSET Departments
    BY <1>1, <1>3 DEF Stores
  <2> HIDE DEF n
  <2> QED BY ONLY <1>1, <1>3, <2>1, <2>2, <2>3, <2>4, <2>5 DEF Stores
<1>5. u.usage = Len(u.reports)
  BY <1>1, <1>2, <1>3
<1>6. <<t, n>> \notin ToSet(s.reports)
  BY <1>1, <1>2 DEF Whole
<1>7. IsInjective(u.reports)
  <2>1. IsInjective(s.reports) /\ DOMAIN s.reports = 1 .. Len(s.reports) /\ Len(s.reports) \in Nat
    BY <1>1 DEF Whole
  <2>2. \A i \in 1 .. Len(s.reports) : s.reports[i] # <<t, n>>
    <3>1. \A i \in 1 .. Len(s.reports) : s.reports[i] \in ToSet(s.reports)
      BY <1>1, Lists
    <3> QED BY <1>6, <3>1
  <2>3. /\ DOMAIN u.reports = 1 .. Len(s.reports) + 1
        /\ u.reports[Len(s.reports) + 1] = <<t, n>>
        /\ \A i \in 1 .. Len(s.reports) : u.reports[i] = s.reports[i]
    BY <1>1, <1>2, <1>3
  <2> HIDE DEF n, u
  <2>4. ASSUME NEW i \in 1 .. Len(s.reports) + 1, NEW j \in 1 .. Len(s.reports) + 1,
               u.reports[i] = u.reports[j], i # j
        PROVE  FALSE
    <3>1. CASE i \in 1 .. Len(s.reports) /\ j \in 1 .. Len(s.reports)
      <4>1. s.reports[i] = s.reports[j]
        BY <2>3, <2>4, <3>1
      <4> QED BY <2>1, <2>4, <3>1, <4>1 DEF IsInjective
    <3>2. CASE i \in 1 .. Len(s.reports) /\ j \notin 1 .. Len(s.reports)
      <4>1. u.reports[i] # <<t, n>>
        BY ONLY <2>2, <2>3, <3>2
      <4>2. j = Len(s.reports) + 1
        BY <2>1, <3>2
      <4> QED BY <2>3, <2>4, <4>1, <4>2
    <3>3. CASE i \notin 1 .. Len(s.reports) /\ j \in 1 .. Len(s.reports)
      <4>1. u.reports[j] # <<t, n>>
        BY ONLY <2>2, <2>3, <3>3
      <4>2. i = Len(s.reports) + 1
        BY <2>1, <3>3
      <4> QED BY <2>3, <2>4, <4>1, <4>2
    <3>4. i \in 1 .. Len(s.reports) \/ j \in 1 .. Len(s.reports)
      BY <2>1, <2>4
    <3> QED BY <3>1, <3>2, <3>3, <3>4
  <2> QED BY <2>3, <2>4 DEF IsInjective
<1>8. ASSUME NEW r \in Report PROVE r \in ToSet(u.reports) <=> r[2] <= u.outputs[r[1]]
  <2>1. r \in ToSet(u.reports) <=> r \in ToSet(s.reports) \/ r = <<t, n>>
    <3>1. /\ Len(u.reports) = Len(s.reports) + 1 /\ u.reports \in Seq(Report)
          /\ u.reports[Len(s.reports) + 1] = <<t, n>> /\ Len(s.reports) \in Nat
          /\ \A i \in 1 .. Len(s.reports) : u.reports[i] = s.reports[i]
      BY <1>1, <1>2, <1>3
    <3>2. r \in ToSet(u.reports) <=> \E i \in 1 .. Len(s.reports) + 1 : u.reports[i] = r
      BY <3>1, Lists
    <3>3. r \in ToSet(s.reports) <=> \E i \in 1 .. Len(s.reports) : s.reports[i] = r
      BY <1>1, Lists
    <3>4. \A i \in 1 .. Len(s.reports) + 1 :
            i \in 1 .. Len(s.reports) \/ i = Len(s.reports) + 1
      BY <3>1
    <3>5. \A i \in 1 .. Len(s.reports) : i \in 1 .. Len(s.reports) + 1
      BY <3>1
    <3>6. Len(s.reports) + 1 \in 1 .. Len(s.reports) + 1
      BY <3>1
    <3> HIDE DEF n
    <3> QED BY <3>1, <3>2, <3>3, <3>4, <3>5, <3>6
  <2>2. r \in ToSet(s.reports) <=> r[2] <= s.outputs[r[1]]
    BY DEF Whole
  <2>3. r = <<r[1], r[2]>> /\ r[1] \in Tasks /\ r[2] \in Nat
    BY Reports
  <2>4. r = <<t, n>> <=> r[1] = t /\ r[2] = n
    BY <2>3
  <2>5. /\ n = s.outputs[t] + 1 /\ u.outputs[t] = n
        /\ r[1] # t => u.outputs[r[1]] = s.outputs[r[1]]
        /\ s.outputs[t] \in Nat
    BY <1>1, <1>3, <2>3
  <2> HIDE DEF n
  <2>6. CASE r[1] = t
    BY <2>1, <2>2, <2>3, <2>4, <2>5, <2>6
  <2>7. CASE r[1] # t
    BY <2>1, <2>2, <2>4, <2>5, <2>7
  <2> QED BY <2>6, <2>7
<1>9. ASSUME NEW q \in Tasks PROVE ReviewsAgree(u, q)
  <2>1. ReviewsAgree(s, q)
    BY DEF Whole
  <2>2. s.outputs[q] <= u.outputs[q] /\ s.outputs[q] \in Nat /\ u.outputs[q] \in Nat
    BY <1>1, <1>3
  <2>3. \A i \in DOMAIN s.history[q] : s.history[q][i].attempt \in Nat
    <3>1. s.history[q] \in Seq(Verdict)
      BY <1>1
    <3>2. \A i \in DOMAIN s.history[q] : s.history[q][i] \in Verdict
      BY <3>1
    <3> QED BY <3>2 DEF Verdict
  <2> QED BY <1>3, <2>1, <2>2, <2>3 DEF ReviewsAgree
<1>10. \A q \in Tasks \ D : u.outputs[q] = 0 /\ u.history[q] = <<>>
  BY <1>1, <1>3 DEF Whole
<1>11. Whole(u, D)
  BY <1>4, <1>5, <1>7, <1>8, <1>9, <1>10 DEF Whole
<1> QED BY <1>3, <1>11 DEF u

\* mark_critic_review leaves a store whole, and its reports and packets as they are.
LEMMA MarkedWhole ==
  ASSUME NEW D, NEW s, Whole(s, D), NEW t \in Tasks \cap D, s.outputs[t] > 0, NEW a \in BOOLEAN
  PROVE  /\ Whole(Marked(s, t, a), D)
         /\ Marked(s, t, a).outputs = s.outputs /\ Marked(s, t, a).reports = s.reports
         /\ Marked(s, t, a).packets = s.packets
<1> DEFINE u == Marked(s, t, a)
           v == [attempt |-> s.outputs[t], approved |-> a]
<1>1. /\ s \in Stores /\ s.outputs \in [Tasks -> Nat] /\ s.history \in [Tasks -> Seq(Verdict)]
      /\ s.review \in [Tasks -> Verdict \cup {Nothing}]
  BY DEF Whole, Stores
<1>2. v \in Verdict /\ v.attempt = s.outputs[t]
  BY <1>1 DEF Verdict
<1>3. /\ u.outputs = s.outputs /\ u.reports = s.reports /\ u.packets = s.packets
      /\ u.usage = s.usage /\ u.facts = s.facts /\ u.packages = s.packages
      /\ u.review = [s.review EXCEPT ![t] = v]
      /\ u.history = [s.history EXCEPT ![t] = Append(@, v)]
      /\ u = [facts |-> u.facts, reports |-> u.reports, packets |-> u.packets,
              usage |-> u.usage, outputs |-> u.outputs, review |-> u.review,
              history |-> u.history, packages |-> u.packages]
  <2>1. s = [facts |-> s.facts, reports |-> s.reports, packets |-> s.packets,
             usage |-> s.usage, outputs |-> s.outputs, review |-> s.review,
             history |-> s.history, packages |-> s.packages]
    BY <1>1 DEF Stores
  <2>2. u = [facts |-> s.facts, reports |-> s.reports, packets |-> s.packets,
             usage |-> s.usage, outputs |-> s.outputs,
             review |-> [s.review EXCEPT ![t] = v],
             history |-> [s.history EXCEPT ![t] = Append(@, v)], packages |-> s.packages]
    <3>1. /\ u.facts = s.facts /\ u.reports = s.reports /\ u.packets = s.packets
          /\ u.usage = s.usage /\ u.outputs = s.outputs /\ u.packages = s.packages
      BY <2>1 DEF Marked
    <3>2. u.review = [s.review EXCEPT ![t] = v]
      BY <2>1 DEF Marked
    <3>3. u.history = [s.history EXCEPT ![t] = Append(@, v)]
      BY <2>1 DEF Marked
    <3>4. DOMAIN u = DOMAIN s /\ u = [x \in DOMAIN s |-> u[x]]
      BY <2>1 DEF Marked
    <3> HIDE DEF u, v
    <3> QED BY ONLY <2>1, <3>1, <3>2, <3>3, <3>4
  <2> HIDE DEF u
  <2> QED BY ONLY <2>2
<1> HIDE DEF u, v
<1>4. u \in Stores
  <2>1. u.review \in [Tasks -> Verdict \cup {Nothing}] /\ u.history \in [Tasks -> Seq(Verdict)]
    BY <1>1, <1>2, <1>3
  <2> QED BY ONLY <1>1, <1>3, <2>1 DEF Stores
<1>5. ASSUME NEW q \in Tasks PROVE ReviewsAgree(u, q)
  <2>1. ReviewsAgree(s, q)
    BY DEF Whole
  <2>2. CASE q = t
    <3>1. u.history[q] = Append(s.history[q], v) /\ u.review[q] = v /\ s.history[q] \in Seq(Verdict)
      BY <1>1, <1>3, <2>2
    <3>2. /\ u.history[q] # <<>> /\ Last(u.history[q]) = v
          /\ DOMAIN u.history[q] = 1 .. Len(s.history[q]) + 1 /\ Len(s.history[q]) \in Nat
          /\ u.history[q][Len(s.history[q]) + 1] = v
          /\ \A i \in 1 .. Len(s.history[q]) : u.history[q][i] = s.history[q][i]
          /\ DOMAIN s.history[q] = 1 .. Len(s.history[q])
      BY <1>2, <3>1 DEF Last
    <3>3. v.attempt <= s.outputs[q]
      BY <1>1, <1>2, <2>2
    <3> QED BY <1>3, <2>1, <3>1, <3>2, <3>3 DEF ReviewsAgree
  <2>3. CASE q # t
    BY <1>1, <1>3, <2>1, <2>3 DEF ReviewsAgree
  <2> QED BY <2>2, <2>3
<1>6. \A q \in Tasks \ D : u.outputs[q] = 0 /\ u.history[q] = <<>>
  BY <1>1, <1>3 DEF Whole
<1>7. Whole(u, D)
  BY <1>3, <1>4, <1>5, <1>6 DEF Whole
<1> QED BY <1>3, <1>7 DEF u

\* What does not touch reports, reviews and usage leaves a store whole.
LEMMA AsideWhole ==
  ASSUME NEW D, NEW s, Whole(s, D), NEW u \in Stores,
         u.reports = s.reports, u.usage = s.usage, u.outputs = s.outputs,
         u.review = s.review, u.history = s.history
  PROVE  Whole(u, D)
BY DEF Whole, ReviewsAgree

\* What one list after another consists of.
Appended(u, s, o) ==
  /\ Len(u) = Len(s) + Len(o) /\ DOMAIN u = 1 .. Len(u)
  /\ \A i \in 1 .. Len(s) : u[i] = s[i]
  /\ \A i \in 1 .. Len(o) : u[i + Len(s)] = o[i]
  /\ \A i \in 1 .. Len(u) : i \in 1 .. Len(s) \/ \E k \in 1 .. Len(o) : i = k + Len(s)
  /\ Len(s) \in Nat /\ Len(o) \in Nat
  /\ ToSet(u) = ToSet(s) \cup ToSet(o)

\* One list after another.
LEMMA Joined ==
  ASSUME NEW T, NEW s \in Seq(T), NEW o \in Seq(T)
  PROVE  Appended(s \o o, s, o)
<1> DEFINE u == s \o o
<1>1. /\ Len(s) \in Nat /\ Len(o) \in Nat /\ u \in Seq(T) /\ DOMAIN u = 1 .. Len(u)
      /\ Len(u) = Len(s) + Len(o)
  OBVIOUS
<1>2. \A i \in 1 .. Len(s) : u[i] = s[i]
  OBVIOUS
<1>3. ASSUME NEW i \in 1 .. Len(o) PROVE u[i + Len(s)] = o[i]
  <2>1. i + Len(s) \in 1 .. Len(s) + Len(o) /\ i + Len(s) > Len(s) /\ (i + Len(s)) - Len(s) = i
    BY <1>1
  <2> QED BY <1>1, <2>1
<1> HIDE DEF u
<1>4. ASSUME NEW i \in 1 .. Len(u)
      PROVE  i \in 1 .. Len(s) \/ \E k \in 1 .. Len(o) : i = k + Len(s)
  <2>1. CASE i > Len(s)
    <3>1. i - Len(s) \in 1 .. Len(o) /\ i = (i - Len(s)) + Len(s)
      BY <1>1, <2>1
    <3> QED BY <3>1
  <2> QED BY <1>1, <2>1
<1>5. \A x : x \in ToSet(u) <=> x \in ToSet(s) \/ x \in ToSet(o)
  <2>1. /\ \A x : x \in ToSet(u) <=> \E i \in 1 .. Len(u) : u[i] = x
        /\ \A x : x \in ToSet(s) <=> \E i \in 1 .. Len(s) : s[i] = x
        /\ \A x : x \in ToSet(o) <=> \E i \in 1 .. Len(o) : o[i] = x
    BY <1>1, Lists
  <2>2. \A i \in 1 .. Len(s) : i \in 1 .. Len(u)
    BY <1>1
  <2>3. \A i \in 1 .. Len(o) : i + Len(s) \in 1 .. Len(u)
    BY <1>1
  <2>4. ASSUME NEW x, x \in ToSet(u) PROVE x \in ToSet(s) \/ x \in ToSet(o)
    <3>1. PICK i \in 1 .. Len(u) : u[i] = x
      BY <2>1, <2>4
    <3>2. CASE i \in 1 .. Len(s)
      BY <1>2, <2>1, <3>1, <3>2
    <3>3. ASSUME NEW k \in 1 .. Len(o), i = k + Len(s) PROVE x \in ToSet(o)
      BY <1>3, <2>1, <3>1, <3>3
    <3> QED BY <1>4, <3>2, <3>3
  <2>5. ASSUME NEW x, x \in ToSet(s) PROVE x \in ToSet(u)
    BY <1>2, <2>1, <2>2, <2>5
  <2>6. ASSUME NEW x, x \in ToSet(o) PROVE x \in ToSet(u)
    <3>1. PICK k \in 1 .. Len(o) : o[k] = x
      BY <2>1, <2>6
    <3>2. u[k + Len(s)] = x /\ k + Len(s) \in 1 .. Len(u)
      BY <1>3, <2>3, <3>1
    <3> QED BY <2>1, <3>2
  <2> QED BY <2>4, <2>5, <2>6
<1>6. ToSet(u) = ToSet(s) \cup ToSet(o)
  BY <1>5
<1>7. Appended(u, s, o)
  BY ONLY <1>1, <1>2, <1>3, <1>4, <1>6 DEF Appended
<1> QED BY <1>7 DEF u

\* store_department_package leaves a store whole, and its reports as they are.
LEMMA StoredWhole ==
  ASSUME NEW D, NEW s, Whole(s, D), NEW d \in Departments
  PROVE  /\ Whole(Stored(s, d), D)
         /\ Stored(s, d).outputs = s.outputs /\ Stored(s, d).reports = s.reports
         /\ Stored(s, d).packets = s.packets
<1> DEFINE u == Stored(s, d)
<1>1. s \in Stores
  BY DEF Whole
<1>2. /\ u.facts = s.facts /\ u.reports = s.reports /\ u.packets = s.packets
      /\ u.usage = s.usage /\ u.outputs = s.outputs /\ u.review = s.review
      /\ u.history = s.history
  BY <1>1 DEF Stored, Stores
<1>3. u \in Stores
  BY <1>1 DEF Stored, Stores
<1>4. Whole(u, D)
  BY <1>2, <1>3, AsideWhole
<1> QED BY <1>2, <1>4

\* A reviewed package adds one packet for each report that it holds.
LEMMA AppliedWhole ==
  ASSUME NEW D, NEW s, Whole(s, D), NEW d
  PROVE  /\ Whole(Applied(s, d), D)
         /\ Applied(s, d).outputs = s.outputs /\ Applied(s, d).reports = s.reports
         /\ \A r \in Report :
              Applied(s, d).packets[r] =
                s.packets[r] + (IF r \in Packaged(Store(d), d) THEN 1 ELSE 0)
<1> DEFINE u == Applied(s, d)
           evidence == Packaged(Store(d), d)
           p == [r \in Report |-> s.packets[r] + (IF r \in evidence THEN 1 ELSE 0)]
<1>1. s \in Stores /\ s.packets \in [Report -> Nat]
  BY DEF Whole, Stores
<1> HIDE DEF evidence
<1>2. p \in [Report -> Nat]
  BY <1>1
<1>3. u = [s EXCEPT !.packets = p]
  BY DEF Applied, evidence
<1> HIDE DEF u, p
<1>4. /\ u.facts = s.facts /\ u.reports = s.reports /\ u.packets = p
      /\ u.usage = s.usage /\ u.outputs = s.outputs /\ u.review = s.review
      /\ u.history = s.history
  BY <1>1, <1>3 DEF Stores
<1>5. u \in Stores
  BY <1>1, <1>2, <1>3 DEF Stores
<1>6. Whole(u, D)
  BY <1>4, <1>5, AsideWhole
<1> QED BY <1>4, <1>6 DEF u, p, evidence

\* Against an empty baseline the delta is the working set, but for the facts.
LEMMA DeltaWhole ==
  ASSUME NEW D, NEW s, Whole(s, D)
  PROVE  LET u == DeltaFrom(s, Seeded(Empty))
         IN  Whole(u, D) /\ u.outputs = s.outputs /\ u.reports = s.reports
                         /\ u.packets = s.packets
<1> DEFINE u == DeltaFrom(s, Seeded(Empty))
<1>1. /\ s \in Stores /\ s.outputs \in [Tasks -> Nat] /\ s.reports \in Seq(Report)
      /\ s.packets \in [Report -> Nat] /\ s.usage \in Nat /\ s.facts \in Seq(Fact)
      /\ s.history \in [Tasks -> Seq(Verdict)] /\ s.packages \in SUBSET Departments
      /\ s.review \in [Tasks -> Verdict \cup {Nothing}]
  BY DEF Whole, Stores
<1>2. Seeded(Empty) = Empty
  BY EmptyWhole
<1>3. u.facts \in Seq(Fact)
  BY <1>1, ChosenType DEF DeltaFrom
<1>4. u.reports = s.reports
  <2>1. u.reports = SubSeq(s.reports, Len(Empty.reports) + 1, Len(s.reports))
    BY <1>2 DEF DeltaFrom
  <2>2. Len(Empty.reports) + 1 = 1
    BY DEF Empty
  <2>3. SubSeq(s.reports, 1, Len(s.reports)) = s.reports
    BY <1>1
  <2> QED BY <2>1, <2>2, <2>3
<1>5. u.packets = s.packets
  <2>1. \A b \in Report : ~ (Empty.packets[b] > 0)
    BY DEF Empty
  <2>2. u.packets = [r \in Report |->
                       IF \E b \in Report : b[1] = r[1] /\ Empty.packets[b] > 0 THEN 0
                       ELSE s.packets[r]]
    BY <1>2 DEF DeltaFrom
  <2>3. u.packets = [r \in Report |-> s.packets[r]]
    BY <2>1, <2>2
  <2> QED BY <1>1, <2>3
<1>6. u.usage = s.usage
  <2>1. u.usage = s.usage - Empty.usage
    BY <1>2 DEF DeltaFrom
  <2> QED BY <1>1, <2>1 DEF Empty
<1>7. u.outputs = s.outputs
  <2>1. u.outputs = [t \in Tasks |-> IF Empty.outputs[t] = 0 THEN s.outputs[t] ELSE 0]
    BY <1>2 DEF DeltaFrom
  <2>2. u.outputs = [t \in Tasks |-> s.outputs[t]]
    BY <2>1 DEF Empty
  <2> QED BY <1>1, <2>2
<1>8. u.review = s.review
  <2>1. u.review = [t \in Tasks |-> IF Empty.review[t] = Nothing THEN s.review[t] ELSE Nothing]
    BY <1>2 DEF DeltaFrom
  <2>2. u.review = [t \in Tasks |-> s.review[t]]
    BY <2>1 DEF Empty
  <2> QED BY <1>1, <2>2
<1>9. u.history = s.history
  <2>1. u.history = [t \in Tasks |-> IF Empty.history[t] = <<>> THEN s.history[t] ELSE <<>>]
    BY <1>2 DEF DeltaFrom
  <2>2. u.history = [t \in Tasks |-> s.history[t]]
    BY <2>1 DEF Empty
  <2> QED BY <1>1, <2>2
<1>10. u.packages = s.packages
  BY DEF DeltaFrom
<1>11. u = [facts |-> u.facts, reports |-> u.reports, packets |-> u.packets,
            usage |-> u.usage, outputs |-> u.outputs, review |-> u.review,
            history |-> u.history, packages |-> u.packages]
  BY DEF DeltaFrom
<1> HIDE DEF u
<1>12. u \in Stores
  BY ONLY <1>1, <1>3, <1>4, <1>5, <1>6, <1>7, <1>8, <1>9, <1>10, <1>11 DEF Stores
<1>13. Whole(u, D)
  BY <1>4, <1>6, <1>7, <1>8, <1>9, <1>12, AsideWhole
<1> QED BY <1>4, <1>5, <1>7, <1>13 DEF u

\* merge_from returns a store.
LEMMA MergedStore ==
  ASSUME NEW s \in Stores, NEW o \in Stores
  PROVE  MergedFrom(s, o) \in Stores
<1> DEFINE u == MergedFrom(s, o)
<1>1. /\ s.outputs \in [Tasks -> Nat] /\ s.reports \in Seq(Report)
      /\ s.packets \in [Report -> Nat] /\ s.usage \in Nat /\ s.facts \in Seq(Fact)
      /\ s.history \in [Tasks -> Seq(Verdict)] /\ s.packages \in SUBSET Departments
      /\ s.review \in [Tasks -> Verdict \cup {Nothing}]
  BY DEF Stores
<1>2. /\ o.outputs \in [Tasks -> Nat] /\ o.reports \in Seq(Report)
      /\ o.packets \in [Report -> Nat] /\ o.usage \in Nat /\ o.facts \in Seq(Fact)
      /\ o.history \in [Tasks -> Seq(Verdict)] /\ o.packages \in SUBSET Departments
      /\ o.review \in [Tasks -> Verdict \cup {Nothing}]
  BY DEF Stores
<1>3. /\ u.facts = s.facts \o o.facts /\ u.reports = s.reports \o o.reports
      /\ u.packets = [r \in Report |-> s.packets[r] + o.packets[r]]
      /\ u.usage = s.usage + o.usage
      /\ u.outputs = [t \in Tasks |-> IF o.outputs[t] # 0 THEN o.outputs[t] ELSE s.outputs[t]]
      /\ u.review = [t \in Tasks |-> IF o.review[t] # Nothing THEN o.review[t] ELSE s.review[t]]
      /\ u.history = [t \in Tasks |-> s.history[t] \o o.history[t]]
      /\ u.packages = s.packages \cup o.packages
      /\ u = [facts |-> u.facts, reports |-> u.reports, packets |-> u.packets,
              usage |-> u.usage, outputs |-> u.outputs, review |-> u.review,
              history |-> u.history, packages |-> u.packages]
  BY DEF MergedFrom
<1> HIDE DEF u
<1>4. u \in Stores
  <2>1. u.facts \in Seq(Fact) /\ u.reports \in Seq(Report) /\ u.usage \in Nat
    <3>1. s.facts \o o.facts \in Seq(Fact)
      BY <1>1, <1>2
    <3>2. s.reports \o o.reports \in Seq(Report)
      BY <1>1, <1>2
    <3>3. s.usage + o.usage \in Nat
      <4>1. s.usage \in Nat /\ o.usage \in Nat
        BY <1>1, <1>2
      <4> QED BY ONLY <4>1
    <3> QED BY <1>3, <3>1, <3>2, <3>3
  <2>2. u.packets \in [Report -> Nat]
    <3>1. \A r \in Report : s.packets[r] + o.packets[r] \in Nat
      BY <1>1, <1>2
    <3> QED BY <1>3, <3>1
  <2>3. u.outputs \in [Tasks -> Nat]
    BY <1>1, <1>2, <1>3
  <2>4. u.review \in [Tasks -> Verdict \cup {Nothing}]
    BY <1>1, <1>2, <1>3
  <2>5. u.history \in [Tasks -> Seq(Verdict)]
    <3>1. \A t \in Tasks : s.history[t] \o o.history[t] \in Seq(Verdict)
      BY <1>1, <1>2
    <3> QED BY <1>3, <3>1
  <2>6. u.packages \in SUBSET Departments
    BY <1>1, <1>2, <1>3
  <2> QED BY ONLY <1>3, <2>1, <2>2, <2>3, <2>4, <2>5, <2>6 DEF Stores
<1> QED BY <1>4 DEF u

\* What the store u has from the stores s and o.
Sums(u, s, o) ==
  /\ u.reports = s.reports \o o.reports
  /\ \A t \in Tasks : u.outputs[t] = s.outputs[t] + o.outputs[t]
  /\ \A r \in Report : u.packets[r] = s.packets[r] + o.packets[r]

\* F is D and E, which have nothing in common.
Split(F, D, E) == F = D \cup E /\ D \cap E = {}

\* merge_from of stores with reports on different tasks returns a whole store.
LEMMA MergedWhole ==
  ASSUME NEW F, NEW D, NEW E, Split(F, D, E), NEW s, Whole(s, D), NEW o, Whole(o, E)
  PROVE  /\ Whole(MergedFrom(s, o), F)
         /\ Sums(MergedFrom(s, o), s, o)
<1> DEFINE u == MergedFrom(s, o)
<1>1. /\ s \in Stores /\ s.outputs \in [Tasks -> Nat] /\ s.reports \in Seq(Report)
      /\ s.packets \in [Report -> Nat] /\ s.usage \in Nat /\ s.facts \in Seq(Fact)
      /\ s.history \in [Tasks -> Seq(Verdict)] /\ s.packages \in SUBSET Departments
      /\ s.review \in [Tasks -> Verdict \cup {Nothing}] /\ s.usage = Len(s.reports)
  BY DEF Whole, Stores
<1>2. /\ o \in Stores /\ o.outputs \in [Tasks -> Nat] /\ o.reports \in Seq(Report)
      /\ o.packets \in [Report -> Nat] /\ o.usage \in Nat /\ o.facts \in Seq(Fact)
      /\ o.history \in [Tasks -> Seq(Verdict)] /\ o.packages \in SUBSET Departments
      /\ o.review \in [Tasks -> Verdict \cup {Nothing}] /\ o.usage = Len(o.reports)
  BY DEF Whole, Stores
<1>3. /\ u.facts = s.facts \o o.facts /\ u.reports = s.reports \o o.reports
      /\ u.packets = [r \in Report |-> s.packets[r] + o.packets[r]]
      /\ u.usage = s.usage + o.usage
      /\ u.outputs = [t \in Tasks |-> IF o.outputs[t] # 0 THEN o.outputs[t] ELSE s.outputs[t]]
      /\ u.review = [t \in Tasks |-> IF o.review[t] # Nothing THEN o.review[t] ELSE s.review[t]]
      /\ u.history = [t \in Tasks |-> s.history[t] \o o.history[t]]
      /\ u.packages = s.packages \cup o.packages
      /\ u = [facts |-> u.facts, reports |-> u.reports, packets |-> u.packets,
              usage |-> u.usage, outputs |-> u.outputs, review |-> u.review,
              history |-> u.history, packages |-> u.packages]
  BY DEF MergedFrom
<1> HIDE DEF u
<1>4. ASSUME NEW t \in Tasks
      PROVE  \/ s.outputs[t] = 0 /\ s.history[t] = <<>> /\ s.review[t] = Nothing /\ t \notin D
             \/ o.outputs[t] = 0 /\ o.history[t] = <<>> /\ o.review[t] = Nothing /\ t \notin E
  BY DEF Whole, ReviewsAgree, Split
<1>5. ASSUME NEW t \in Tasks
      PROVE  /\ u.outputs[t] = s.outputs[t] + o.outputs[t]
             /\ \/ /\ u.outputs[t] = s.outputs[t] /\ u.history[t] = s.history[t]
                   /\ u.review[t] = s.review[t]
                \/ /\ u.outputs[t] = o.outputs[t] /\ u.history[t] = o.history[t]
                   /\ u.review[t] = o.review[t]
  <2>1. /\ u.outputs[t] = IF o.outputs[t] # 0 THEN o.outputs[t] ELSE s.outputs[t]
        /\ u.review[t] = IF o.review[t] # Nothing THEN o.review[t] ELSE s.review[t]
        /\ u.history[t] = s.history[t] \o o.history[t]
    BY <1>3
  <2>2. /\ s.outputs[t] \in Nat /\ o.outputs[t] \in Nat
        /\ s.history[t] \in Seq(Verdict) /\ o.history[t] \in Seq(Verdict)
    BY <1>1, <1>2
  <2>3. <<>> \o o.history[t] = o.history[t] /\ s.history[t] \o <<>> = s.history[t]
    BY <2>2
  <2>4. CASE s.outputs[t] = 0 /\ s.history[t] = <<>> /\ s.review[t] = Nothing
    <3>1. u.outputs[t] = o.outputs[t]
      BY <2>1, <2>2, <2>4
    <3>2. u.review[t] = o.review[t]
      BY <2>1, <2>4
    <3>3. u.history[t] = o.history[t]
      BY <2>1, <2>3, <2>4
    <3> QED BY <2>2, <2>4, <3>1, <3>2, <3>3
  <2>5. CASE o.outputs[t] = 0 /\ o.history[t] = <<>> /\ o.review[t] = Nothing
    <3>1. u.outputs[t] = s.outputs[t]
      BY <2>1, <2>2, <2>5
    <3>2. u.review[t] = s.review[t]
      BY <2>1, <2>5
    <3>3. u.history[t] = s.history[t]
      BY <2>1, <2>3, <2>5
    <3> QED BY <2>2, <2>5, <3>1, <3>2, <3>3
  <2> QED BY <1>4, <2>4, <2>5
<1>6. u \in Stores
  BY <1>1, <1>2, MergedStore DEF u
<1>7. u.usage = Len(u.reports)
  BY <1>1, <1>2, <1>3
<1>8. /\ Len(u.reports) = Len(s.reports) + Len(o.reports) /\ DOMAIN u.reports = 1 .. Len(u.reports)
      /\ \A i \in 1 .. Len(s.reports) : u.reports[i] = s.reports[i]
      /\ \A i \in 1 .. Len(o.reports) : u.reports[i + Len(s.reports)] = o.reports[i]
      /\ \A i \in 1 .. Len(u.reports) :
           i \in 1 .. Len(s.reports) \/ \E k \in 1 .. Len(o.reports) : i = k + Len(s.reports)
      /\ Len(s.reports) \in Nat /\ Len(o.reports) \in Nat
      /\ ToSet(u.reports) = ToSet(s.reports) \cup ToSet(o.reports)
  <2>1. s.reports \in Seq(Report) /\ o.reports \in Seq(Report) /\ u.reports = s.reports \o o.reports
    BY <1>1, <1>2, <1>3
  <2>2. Appended(u.reports, s.reports, o.reports)
    BY ONLY <2>1, Joined
  <2> QED BY <2>2 DEF Appended
<1>9. \A x : x \in ToSet(u.reports) <=> x \in ToSet(s.reports) \/ x \in ToSet(o.reports)
  BY <1>8
<1>10. ASSUME NEW r \in Report
       PROVE  /\ r \in ToSet(u.reports) <=> r[2] <= u.outputs[r[1]]
              /\ ~ (r \in ToSet(s.reports) /\ r \in ToSet(o.reports))
  <2>1. r[1] \in Tasks /\ r[2] \in Nat /\ r[2] >= 1
    BY Reports
  <2>2. r \in ToSet(s.reports) <=> r[2] <= s.outputs[r[1]]
    BY DEF Whole
  <2>3. r \in ToSet(o.reports) <=> r[2] <= o.outputs[r[1]]
    BY DEF Whole
  <2>4. s.outputs[r[1]] \in Nat /\ o.outputs[r[1]] \in Nat
    BY <1>1, <1>2, <2>1
  <2>5. s.outputs[r[1]] = 0 \/ o.outputs[r[1]] = 0
    BY <1>4, <2>1
  <2> QED BY <1>5, <1>9, <2>1, <2>2, <2>3, <2>4, <2>5
<1>11. IsInjective(u.reports)
  <2> SUFFICES ASSUME NEW i \in 1 .. Len(u.reports), NEW j \in 1 .. Len(u.reports),
                      u.reports[i] = u.reports[j]
               PROVE  i = j
    BY <1>8 DEF IsInjective
  <2>1. /\ \A a, b \in 1 .. Len(s.reports) : s.reports[a] = s.reports[b] => a = b
        /\ \A a, b \in 1 .. Len(o.reports) : o.reports[a] = o.reports[b] => a = b
    <3>1. DOMAIN s.reports = 1 .. Len(s.reports) /\ DOMAIN o.reports = 1 .. Len(o.reports)
      BY <1>1, <1>2
    <3> QED BY <3>1 DEF Whole, IsInjective
  <2>2. ASSUME NEW a \in 1 .. Len(s.reports), NEW b \in 1 .. Len(o.reports)
        PROVE  s.reports[a] # o.reports[b]
    <3>1. s.reports[a] \in ToSet(s.reports) /\ s.reports[a] \in Report
      BY <1>1, Lists
    <3>2. o.reports[b] \in ToSet(o.reports)
      BY <1>2, Lists
    <3> QED BY <1>10, <3>1, <3>2
  <2>3. CASE i \in 1 .. Len(s.reports)
    <3>1. CASE j \in 1 .. Len(s.reports)
      BY <1>8, <2>1, <2>3, <3>1
    <3>2. ASSUME NEW k \in 1 .. Len(o.reports), j = k + Len(s.reports) PROVE FALSE
      BY <1>8, <2>2, <2>3, <3>2
    <3> QED BY <1>8, <3>1, <3>2
  <2>4. ASSUME NEW l \in 1 .. Len(o.reports), i = l + Len(s.reports) PROVE i = j
    <3>1. CASE j \in 1 .. Len(s.reports)
      BY <1>8, <2>2, <2>4, <3>1
    <3>2. ASSUME NEW k \in 1 .. Len(o.reports), j = k + Len(s.reports) PROVE i = j
      BY <1>8, <2>1, <2>4, <3>2
    <3> QED BY <1>8, <3>1, <3>2
  <2> QED BY <1>8, <2>3, <2>4
<1>12. ASSUME NEW t \in Tasks PROVE ReviewsAgree(u, t)
  <2>1. ReviewsAgree(s, t) /\ ReviewsAgree(o, t)
    BY DEF Whole
  <2> QED BY <1>5, <2>1 DEF ReviewsAgree
<1>13. ASSUME NEW t \in Tasks \ (D \cup E) PROVE u.outputs[t] = 0 /\ u.history[t] = <<>>
  <2>1. /\ s.outputs[t] = 0 /\ s.history[t] = <<>>
        /\ o.outputs[t] = 0 /\ o.history[t] = <<>>
    BY DEF Whole
  <2> QED BY <1>5, <2>1
<1>14. Whole(u, F)
  <2>1. F = D \cup E
    BY DEF Split
  <2> QED BY <1>6, <1>7, <1>10, <1>11, <1>12, <1>13, <2>1 DEF Whole
<1>15. Sums(u, s, o)
  BY <1>3, <1>5 DEF Sums
<1> QED BY <1>14, <1>15 DEF u

\* No item is twice in the list.
Injective(s) == \A i, j \in 1 .. Len(s) : s[i] = s[j] => i = j

\* The steps of Distinct.
LEMMA DistinctSteps ==
  ASSUME NEW T, NEW s \in Seq(T)
  PROVE  \E f : /\ f[0] = <<>>
                /\ \A i \in 1 .. Len(s) :
                     f[i] = IF Contains(f[i - 1], s[i]) THEN f[i - 1] ELSE Append(f[i - 1], s[i])
                /\ Distinct(s) = f[Len(s)]
<1> DEFINE g == [p \in Seq(T) \X (1 .. Len(s)) |->
                   IF Contains(p[1], s[p[2]]) THEN p[1] ELSE Append(p[1], s[p[2]])]
           Unfolded(h) == [n \in 0 .. Len(s) |->
                             IF n = 0 THEN <<>>
                             ELSE IF Contains(h[n - 1], s[n]) THEN h[n - 1]
                             ELSE Append(h[n - 1], s[n])]
           f == CHOOSE h : h = Unfolded(h)
<1>1. Len(s) \in Nat /\ <<>> \in Seq(T) /\ \A i \in 1 .. Len(s) : s[i] \in T
  OBVIOUS
<1>2. g \in [Seq(T) \X (1 .. Len(s)) -> Seq(T)]
  OBVIOUS
<1>3. \E e : Follows(e, g, <<>>, Len(s), Seq(T))
  <2>1. IsStep(g, Len(s), Seq(T))
    BY <1>2 DEF IsStep
  <2> HIDE DEF g
  <2> QED BY <1>1, <2>1, Recursion
<1>4. PICK e : e \in [0 .. Len(s) -> Seq(T)] /\ e[0] = <<>>
               /\ \A i \in 1 .. Len(s) : e[i] = g[<<e[i - 1], i>>]
  <2> HIDE DEF g
  <2> QED BY <1>3 DEF Follows
<1>5. \A i \in 1 .. Len(s) : e[i - 1] \in Seq(T)
  BY <1>1, <1>4
<1>6. \A i \in 1 .. Len(s) :
        e[i] = IF Contains(e[i - 1], s[i]) THEN e[i - 1] ELSE Append(e[i - 1], s[i])
  BY <1>4, <1>5
<1>7. e = Unfolded(e)
  <2>1. ASSUME NEW n \in 0 .. Len(s)
        PROVE  e[n] = IF n = 0 THEN <<>>
                      ELSE IF Contains(e[n - 1], s[n]) THEN e[n - 1] ELSE Append(e[n - 1], s[n])
    <3>1. n = 0 \/ n \in 1 .. Len(s)
      BY <1>1
    <3>2. n # 0 => e[n] = IF Contains(e[n - 1], s[n]) THEN e[n - 1] ELSE Append(e[n - 1], s[n])
      BY <1>6, <3>1
    <3> QED BY <1>4, <3>2
  <2>2. e = [n \in 0 .. Len(s) |-> e[n]]
    BY <1>4
  <2> QED BY <2>1, <2>2
<1>8. f = Unfolded(f)
  <2> HIDE DEF Unfolded
  <2> QED BY <1>7
<1>9. Distinct(s) = f[Len(s)]
  BY DEF Distinct
<1> HIDE DEF f
<1>10. \A n \in 0 .. Len(s) :
         f[n] = IF n = 0 THEN <<>>
                ELSE IF Contains(f[n - 1], s[n]) THEN f[n - 1] ELSE Append(f[n - 1], s[n])
  BY <1>8, Zenon
<1>11. f[0] = <<>>
  <2>1. 0 \in 0 .. Len(s)
    BY <1>1
  <2> QED BY <1>10, <2>1
<1>12. ASSUME NEW i \in 1 .. Len(s)
       PROVE  f[i] = IF Contains(f[i - 1], s[i]) THEN f[i - 1] ELSE Append(f[i - 1], s[i])
  <2>1. i \in 0 .. Len(s) /\ i # 0
    BY <1>1
  <2> QED BY <1>10, <2>1, Zenon
<1> QED BY <1>9, <1>11, <1>12

\* Distinct returns items of the list, none of them twice.
LEMMA DistinctOnce ==
  ASSUME NEW T, NEW s \in Seq(T)
  PROVE  Distinct(s) \in Seq(T) /\ Injective(Distinct(s))
<1>1. PICK f : /\ f[0] = <<>>
               /\ \A i \in 1 .. Len(s) :
                    f[i] = IF Contains(f[i - 1], s[i]) THEN f[i - 1] ELSE Append(f[i - 1], s[i])
               /\ Distinct(s) = f[Len(s)]
  BY DistinctSteps
<1>2. Len(s) \in Nat /\ \A i \in 1 .. Len(s) : s[i] \in T
  OBVIOUS
<1> DEFINE N == {n \in Nat : n <= Len(s) => f[n] \in Seq(T) /\ Injective(f[n])}
<1>3. 0 \in N
  <2>1. <<>> \in Seq(T) /\ Injective(<<>>)
    BY DEF Injective
  <2> QED BY <1>1, <2>1
<1>4. ASSUME NEW n \in N PROVE n + 1 \in N
  <2>0. n \in Nat /\ n + 1 \in Nat
    OBVIOUS
  <2> SUFFICES ASSUME n + 1 <= Len(s) PROVE f[n + 1] \in Seq(T) /\ Injective(f[n + 1])
    BY <2>0
  <2>1. n + 1 \in 1 .. Len(s) /\ (n + 1) - 1 = n
    BY <1>2, <2>0
  <2>2. f[n] \in Seq(T) /\ Injective(f[n])
    BY <1>2, <2>0
  <2>3. f[n + 1] = IF Contains(f[n], s[n + 1]) THEN f[n] ELSE Append(f[n], s[n + 1])
    BY <1>1, <2>1
  <2>4. s[n + 1] \in T
    BY <1>2, <2>1
  <2> DEFINE a == f[n]
             x == s[n + 1]
  <2>5. ASSUME ~ Contains(a, x) PROVE Append(a, x) \in Seq(T) /\ Injective(Append(a, x))
    <3>1. a \in Seq(T) /\ x \in T /\ Injective(a)
      BY <2>2, <2>4
    <3> HIDE DEF a, x
    <3>2. /\ Append(a, x) \in Seq(T) /\ Len(Append(a, x)) = Len(a) + 1 /\ Len(a) \in Nat
          /\ Append(a, x)[Len(a) + 1] = x
          /\ \A i \in 1 .. Len(a) : Append(a, x)[i] = a[i]
      BY <3>1
    <3>3. \A i \in 1 .. Len(a) : a[i] # x
      BY <2>5 DEF Contains
    <3>4. \A i \in 1 .. Len(a) + 1 : i \in 1 .. Len(a) \/ i = Len(a) + 1
      BY <3>2
    <3> QED BY <3>1, <3>2, <3>3, <3>4 DEF Injective
  <2> QED BY <2>2, <2>3, <2>5
<1>5. N = Nat
  <2>1. N \in SUBSET Nat
    OBVIOUS
  <2> HIDE DEF N
  <2> QED BY <1>3, <1>4, <2>1, SetInduction
<1> QED BY <1>1, <1>2, <1>5

\* A list without equal items is left as it is.
LEMMA DistinctSame ==
  ASSUME NEW T, NEW s \in Seq(T), Injective(s)
  PROVE  Distinct(s) = s
<1>1. PICK f : /\ f[0] = <<>>
               /\ \A i \in 1 .. Len(s) :
                    f[i] = IF Contains(f[i - 1], s[i]) THEN f[i - 1] ELSE Append(f[i - 1], s[i])
               /\ Distinct(s) = f[Len(s)]
  BY DistinctSteps
<1>2. Len(s) \in Nat /\ \A i \in 1 .. Len(s) : s[i] \in T
  OBVIOUS
<1> DEFINE N == {n \in Nat : n <= Len(s) => f[n] = SubSeq(s, 1, n)}
<1>3. 0 \in N
  <2>1. SubSeq(s, 1, 0) = <<>>
    OBVIOUS
  <2> QED BY <1>1, <2>1
<1>4. ASSUME NEW n \in N PROVE n + 1 \in N
  <2>0. n \in Nat /\ n + 1 \in Nat
    OBVIOUS
  <2> SUFFICES ASSUME n + 1 <= Len(s) PROVE f[n + 1] = SubSeq(s, 1, n + 1)
    BY <2>0
  <2>1. n + 1 \in 1 .. Len(s) /\ (n + 1) - 1 = n
    BY <1>2, <2>0
  <2>2. f[n] = SubSeq(s, 1, n)
    BY <1>2, <2>0
  <2>3. f[n + 1] = IF Contains(f[n], s[n + 1]) THEN f[n] ELSE Append(f[n], s[n + 1])
    BY <1>1, <2>1
  <2>4. /\ Len(SubSeq(s, 1, n)) = n
        /\ \A i \in 1 .. n : SubSeq(s, 1, n)[i] = s[i]
    BY <1>2, <2>0
  <2>5. ~ Contains(SubSeq(s, 1, n), s[n + 1])
    <3>1. \A i \in 1 .. n : s[i] # s[n + 1]
      BY <1>2, <2>0, <2>1 DEF Injective
    <3> QED BY <2>4, <3>1 DEF Contains
  <2>6. Append(SubSeq(s, 1, n), s[n + 1]) = SubSeq(s, 1, n + 1)
    BY <1>2, <2>0, <2>1
  <2> QED BY <2>2, <2>3, <2>5, <2>6
<1>5. N = Nat
  <2>1. N \in SUBSET Nat
    OBVIOUS
  <2> HIDE DEF N
  <2> QED BY <1>3, <1>4, <2>1, SetInduction
<1>6. f[Len(s)] = SubSeq(s, 1, Len(s))
  BY <1>2, <1>5
<1>7. SubSeq(s, 1, Len(s)) = s
  OBVIOUS
<1> QED BY <1>1, <1>6, <1>7

\* A store that is exported and read again is whole, and exported as before.
LEMMA ReloadedWhole ==
  ASSUME NEW D, NEW s, Whole(s, D)
  PROVE  LET u == FromSnapshot(Exported(s))
         IN  /\ Whole(u, D) /\ u.outputs = s.outputs /\ u.reports = s.reports
             /\ u.packets = s.packets
             /\ Exported(u) = Exported(s)
<1> DEFINE e == Exported(s)
           u == FromSnapshot(e)
<1>1. /\ s \in Stores /\ s.facts \in Seq(Fact)
      /\ s = [facts |-> s.facts, reports |-> s.reports, packets |-> s.packets,
              usage |-> s.usage, outputs |-> s.outputs, review |-> s.review,
              history |-> s.history, packages |-> s.packages]
  BY DEF Whole, Stores
<1>2. e = [facts |-> Distinct(s.facts), reports |-> s.reports, packets |-> s.packets,
           usage |-> s.usage, outputs |-> s.outputs, review |-> s.review,
           history |-> s.history, packages |-> s.packages]
  BY <1>1 DEF Exported
<1>3. u = e
  <2> HIDE DEF e
  <2>1. u = [facts |-> e.facts, reports |-> e.reports, packets |-> e.packets,
             usage |-> e.usage, outputs |-> e.outputs, review |-> e.review,
             history |-> e.history, packages |-> e.packages]
    <3>1. u.facts = e.facts /\ u.reports = e.reports /\ u.packets = e.packets
      BY DEF FromSnapshot, Empty
    <3>2. u.usage = e.usage /\ u.outputs = e.outputs /\ u.review = e.review
      BY DEF FromSnapshot, Empty
    <3>3. u.history = e.history /\ u.packages = e.packages
      BY DEF FromSnapshot, Empty
    <3>4. DOMAIN u = DOMAIN Empty /\ u = [x \in DOMAIN Empty |-> u[x]]
      BY DEF FromSnapshot
    <3>5. DOMAIN Empty = {"facts", "reports", "packets", "usage", "outputs", "review",
                          "history", "packages"}
      BY DEF Empty
    <3> HIDE DEF u
    <3> QED BY ONLY <3>1, <3>2, <3>3, <3>4, <3>5
  <2> QED BY <1>2, <2>1
<1>4. Distinct(s.facts) \in Seq(Fact) /\ Distinct(Distinct(s.facts)) = Distinct(s.facts)
  BY <1>1, DistinctOnce, DistinctSame
<1> HIDE DEF e, u
<1>5. u \in Stores
  BY ONLY <1>1, <1>2, <1>3, <1>4 DEF Stores
<1>6. Whole(u, D)
  BY <1>2, <1>3, <1>5, AsideWhole
<1>7. Exported(u) = e
  <2>1. Exported(e) = [e EXCEPT !.facts = Distinct(e.facts)]
    BY DEF Exported
  <2>2. Distinct(e.facts) = e.facts
    BY <1>2, <1>4
  <2> QED BY <1>2, <1>3, <2>1, <2>2
<1> QED BY <1>2, <1>3, <1>6, <1>7 DEF e, u

\* The working sets of the batch, each with its department's reports only, and one
\* packet for each of them.
BatchWhole(sets) ==
  \A d \in ToSet(Parallel) :
    /\ Whole(sets[d], TasksOf[d])
    /\ \A r \in Report : sets[d].packets[r] = IF r[2] <= sets[d].outputs[r[1]] THEN 1 ELSE 0

\* A store with reports on no other tasks than those of D has none on others than of E.
LEMMA WholeGrows ==
  ASSUME NEW D, NEW E, D \subseteq E, NEW s, Whole(s, D)
  PROVE  Whole(s, E)
BY DEF Whole

\* The departments of the batch, each in one place and with tasks of its own.
LEMMA Batch ==
  /\ Len(Parallel) \in Nat
  /\ \A i \in 1 .. Len(Parallel) : Parallel[i] \in ToSet(Parallel)
  /\ \A d \in ToSet(Parallel) : \E i \in 1 .. Len(Parallel) : Parallel[i] = d
  /\ \A i, j \in 1 .. Len(Parallel) :
       i # j => TasksOf[Parallel[i]] \cap TasksOf[Parallel[j]] = {}
  /\ \A d \in ToSet(Parallel) : d \in Departments
  /\ \A d \in Departments : TasksOf[d] \subseteq Tasks
<1>1. Parallel \in Seq(ToSet(Parallel)) /\ DOMAIN Parallel = 1 .. Len(Parallel)
  BY BatchAssumption
<1>2. /\ Len(Parallel) \in Nat
      /\ \A i \in 1 .. Len(Parallel) : Parallel[i] \in ToSet(Parallel)
      /\ \A d \in ToSet(Parallel) : \E i \in 1 .. Len(Parallel) : Parallel[i] = d
  BY <1>1, Lists
<1>3. ASSUME NEW i \in 1 .. Len(Parallel), NEW j \in 1 .. Len(Parallel), i # j
      PROVE  TasksOf[Parallel[i]] \cap TasksOf[Parallel[j]] = {}
  <2>1. Parallel[i] # Parallel[j]
    BY <1>1, <1>3, BatchAssumption DEF IsInjective
  <2>2. Parallel[i] \in Departments /\ Parallel[j] \in Departments
    BY <1>2 DEF Departments
  <2> QED BY <2>1, <2>2, BatchAssumption
<1>4. \A d \in ToSet(Parallel) : d \in Departments
  BY DEF Departments
<1>5. \A d \in Departments : TasksOf[d] \subseteq Tasks
  BY DEF Tasks
<1> QED BY <1>2, <1>3, <1>4, <1>5

\* The steps of BatchReports.
LEMMA BatchSteps ==
  ASSUME NEW sets, BatchWhole(sets)
  PROVE  \E f : /\ f[0] = <<>>
                /\ \A i \in 1 .. Len(Parallel) : f[i] = f[i - 1] \o sets[Parallel[i]].reports
                /\ BatchReports(sets) = f[Len(Parallel)]
<1> DEFINE g == [p \in Seq(Report) \X (1 .. Len(Parallel)) |->
                   p[1] \o sets[Parallel[p[2]]].reports]
           Unfolded(h) == [n \in 0 .. Len(Parallel) |->
                             IF n = 0 THEN <<>> ELSE h[n - 1] \o sets[Parallel[n]].reports]
           f == CHOOSE h : h = Unfolded(h)
<1>1. /\ Len(Parallel) \in Nat /\ <<>> \in Seq(Report)
      /\ \A i \in 1 .. Len(Parallel) : sets[Parallel[i]].reports \in Seq(Report)
  BY Batch DEF BatchWhole, Whole, Stores
<1>2. g \in [Seq(Report) \X (1 .. Len(Parallel)) -> Seq(Report)]
  <2>1. ASSUME NEW q \in Seq(Report), NEW i \in 1 .. Len(Parallel)
        PROVE  q \o sets[Parallel[i]].reports \in Seq(Report)
    <3>1. sets[Parallel[i]].reports \in Seq(Report)
      BY <1>1
    <3> QED BY ONLY <3>1
  <2> QED BY <2>1
<1>3. \E e : Follows(e, g, <<>>, Len(Parallel), Seq(Report))
  <2>1. IsStep(g, Len(Parallel), Seq(Report))
    BY <1>2 DEF IsStep
  <2> HIDE DEF g
  <2> QED BY <1>1, <2>1, Recursion
<1>4. PICK e : e \in [0 .. Len(Parallel) -> Seq(Report)] /\ e[0] = <<>>
               /\ \A i \in 1 .. Len(Parallel) : e[i] = g[<<e[i - 1], i>>]
  <2> HIDE DEF g
  <2> QED BY <1>3 DEF Follows
<1>5. \A i \in 1 .. Len(Parallel) : e[i - 1] \in Seq(Report)
  BY <1>1, <1>4
<1>6. \A i \in 1 .. Len(Parallel) : e[i] = e[i - 1] \o sets[Parallel[i]].reports
  BY <1>4, <1>5
<1>7. e = Unfolded(e)
  <2>1. ASSUME NEW n \in 0 .. Len(Parallel)
        PROVE  e[n] = IF n = 0 THEN <<>> ELSE e[n - 1] \o sets[Parallel[n]].reports
    <3>1. n = 0 \/ n \in 1 .. Len(Parallel)
      BY <1>1
    <3>2. n # 0 => e[n] = e[n - 1] \o sets[Parallel[n]].reports
      BY <1>6, <3>1
    <3> QED BY <1>4, <3>2
  <2>2. e = [n \in 0 .. Len(Parallel) |-> e[n]]
    BY <1>4
  <2> QED BY <2>1, <2>2
<1>8. f = Unfolded(f)
  <2> HIDE DEF Unfolded
  <2> QED BY <1>7
<1>9. BatchReports(sets) = f[Len(Parallel)]
  BY DEF BatchReports
<1> HIDE DEF f
<1>10. \A n \in 0 .. Len(Parallel) :
         f[n] = IF n = 0 THEN <<>> ELSE f[n - 1] \o sets[Parallel[n]].reports
  BY <1>8, Zenon
<1>11. f[0] = <<>>
  <2>1. 0 \in 0 .. Len(Parallel)
    BY <1>1
  <2> QED BY <1>10, <2>1
<1>12. ASSUME NEW i \in 1 .. Len(Parallel)
       PROVE  f[i] = f[i - 1] \o sets[Parallel[i]].reports
  <2>1. i \in 0 .. Len(Parallel) /\ i # 0
    BY <1>1
  <2> QED BY <1>10, <2>1, Zenon
<1> QED BY <1>9, <1>11, <1>12

\* The steps of MergedAll.
LEMMA MergedSteps ==
  ASSUME BatchWhole(work), main \in Stores
  PROVE  \E f : /\ f[0] = main
                /\ \A i \in 1 .. Len(Parallel) :
                     f[i] = MergedFrom(f[i - 1], DeltaFrom(work[Parallel[i]], Seeded(Empty)))
                /\ MergedAll = f[Len(Parallel)]
<1> DEFINE delta(i) == DeltaFrom(work[Parallel[i]], Seeded(Empty))
           g == [p \in Stores \X (1 .. Len(Parallel)) |-> MergedFrom(p[1], delta(p[2]))]
           Unfolded(h) == [n \in 0 .. Len(Parallel) |->
                             IF n = 0 THEN main ELSE MergedFrom(h[n - 1], delta(n))]
           f == CHOOSE h : h = Unfolded(h)
<1>1. Len(Parallel) \in Nat
  BY Batch
<1>2. \A i \in 1 .. Len(Parallel) : delta(i) \in Stores
  <2> SUFFICES ASSUME NEW i \in 1 .. Len(Parallel) PROVE delta(i) \in Stores
    OBVIOUS
  <2>1. Whole(work[Parallel[i]], TasksOf[Parallel[i]])
    BY Batch DEF BatchWhole
  <2>2. Whole(delta(i), TasksOf[Parallel[i]])
    BY <2>1, DeltaWhole
  <2> HIDE DEF delta
  <2> QED BY <2>2 DEF Whole
<1>3. g \in [Stores \X (1 .. Len(Parallel)) -> Stores]
  <2> HIDE DEF delta
  <2>1. \A s \in Stores, i \in 1 .. Len(Parallel) : MergedFrom(s, delta(i)) \in Stores
    BY <1>2, MergedStore
  <2> QED BY <2>1
<1>4. \E e : Follows(e, g, main, Len(Parallel), Stores)
  <2>1. IsStep(g, Len(Parallel), Stores)
    BY <1>3 DEF IsStep
  <2> HIDE DEF g
  <2> QED BY <1>1, <2>1, Recursion
<1>5. PICK e : e \in [0 .. Len(Parallel) -> Stores] /\ e[0] = main
               /\ \A i \in 1 .. Len(Parallel) : e[i] = g[<<e[i - 1], i>>]
  <2> HIDE DEF g
  <2> QED BY <1>4 DEF Follows
<1>6. \A i \in 1 .. Len(Parallel) : e[i] = MergedFrom(e[i - 1], delta(i))
  <2> HIDE DEF delta
  <2>1. \A i \in 1 .. Len(Parallel) : e[i - 1] \in Stores
    BY <1>1, <1>5
  <2> QED BY <1>5, <2>1
<1>7. e = Unfolded(e)
  <2> HIDE DEF delta
  <2>1. ASSUME NEW n \in 0 .. Len(Parallel)
        PROVE  e[n] = IF n = 0 THEN main ELSE MergedFrom(e[n - 1], delta(n))
    <3>1. n = 0 \/ n \in 1 .. Len(Parallel)
      BY <1>1
    <3>2. n # 0 => e[n] = MergedFrom(e[n - 1], delta(n))
      BY <1>6, <3>1
    <3> QED BY <1>5, <3>2
  <2>2. e = [n \in 0 .. Len(Parallel) |-> e[n]]
    BY <1>5
  <2> QED BY <2>1, <2>2
<1>8. f = Unfolded(f)
  <2> HIDE DEF Unfolded
  <2> QED BY <1>7
<1>9. MergedAll = f[Len(Parallel)]
  BY DEF MergedAll
<1> HIDE DEF f, delta
<1>10. \A n \in 0 .. Len(Parallel) :
         f[n] = IF n = 0 THEN main ELSE MergedFrom(f[n - 1], delta(n))
  BY <1>8, Zenon
<1>11. f[0] = main
  <2>1. 0 \in 0 .. Len(Parallel)
    BY <1>1
  <2> QED BY <1>10, <2>1
<1>12. ASSUME NEW i \in 1 .. Len(Parallel) PROVE f[i] = MergedFrom(f[i - 1], delta(i))
  <2>1. i \in 0 .. Len(Parallel) /\ i # 0
    BY <1>1
  <2> QED BY <1>10, <2>1, Zenon
<1> QED BY <1>9, <1>11, <1>12 DEF delta

\* The merge of a batch into a store without reports.
LEMMA MergeWhole ==
  ASSUME BatchWhole(work), Whole(main, {}), main.reports = <<>>
  PROVE  /\ Whole(MergedAll, Tasks)
         /\ MergedAll.reports = BatchReports(work)
         /\ \A r \in Report, d \in ToSet(Parallel) : r[1] \in TasksOf[d] =>
              /\ MergedAll.packets[r] = main.packets[r] + work[d].packets[r]
              /\ MergedAll.outputs[r[1]] = work[d].outputs[r[1]]
         /\ \A r \in Report : ~ OfBatch(r) =>
              MergedAll.packets[r] = main.packets[r] /\ MergedAll.outputs[r[1]] = 0
<1> DEFINE D(n) == UNION {TasksOf[Parallel[i]] : i \in 1 .. n}
<1>1. PICK f : /\ f[0] = <<>>
               /\ \A i \in 1 .. Len(Parallel) : f[i] = f[i - 1] \o work[Parallel[i]].reports
               /\ BatchReports(work) = f[Len(Parallel)]
  BY BatchSteps
<1>2. main \in Stores
  BY DEF Whole
<1>3. PICK m : /\ m[0] = main
               /\ \A i \in 1 .. Len(Parallel) :
                    m[i] = MergedFrom(m[i - 1], DeltaFrom(work[Parallel[i]], Seeded(Empty)))
               /\ MergedAll = m[Len(Parallel)]
  BY <1>2, MergedSteps
<1> DEFINE Good(n) ==
             /\ Whole(m[n], D(n))
             /\ m[n].reports = f[n]
             /\ \A r \in Report, i \in 1 .. n : r[1] \in TasksOf[Parallel[i]] =>
                  /\ m[n].packets[r] = main.packets[r] + work[Parallel[i]].packets[r]
                  /\ m[n].outputs[r[1]] = work[Parallel[i]].outputs[r[1]]
             /\ \A r \in Report : r[1] \notin D(n) => m[n].packets[r] = main.packets[r]
           N == {n \in Nat : n <= Len(Parallel) => Good(n)}
<1>4. 0 \in N
  <2>1. D(0) = {} /\ 1 .. 0 = {}
    OBVIOUS
  <2> HIDE DEF D
  <2>2. Good(0)
    BY <1>1, <1>3, <2>1
  <2> QED BY <2>2
<1>5. ASSUME NEW n \in N PROVE n + 1 \in N
  <2>0. n \in Nat /\ n + 1 \in Nat /\ Len(Parallel) \in Nat
    BY Batch
  <2> SUFFICES ASSUME n + 1 <= Len(Parallel) PROVE Good(n + 1)
    BY <2>0
  <2>1. n + 1 \in 1 .. Len(Parallel) /\ (n + 1) - 1 = n /\ Good(n)
    <3> HIDE DEF Good
    <3> QED BY <2>0
  <2> DEFINE d == Parallel[n + 1]
             w == work[d]
             o == DeltaFrom(w, Seeded(Empty))
             E == TasksOf[d]
             s == m[n]
             u == m[n + 1]
  <2>2. d \in ToSet(Parallel)
    BY <2>1, Batch
  <2>3. Whole(w, E) /\ \A r \in Report : w.packets[r] = IF r[2] <= w.outputs[r[1]] THEN 1 ELSE 0
    BY <2>2 DEF BatchWhole
  <2>4. Whole(o, E) /\ o.outputs = w.outputs /\ o.reports = w.reports /\ o.packets = w.packets
    <3> HIDE DEF d, w, E
    <3> QED BY <2>3, DeltaWhole
  <2>5. u = MergedFrom(s, o)
    BY <1>3, <2>1
  <2>6. D(n) \cap E = {}
    <3>1. ASSUME NEW i \in 1 .. n PROVE TasksOf[Parallel[i]] \cap E = {}
      <4>1. i \in 1 .. Len(Parallel) /\ i # n + 1
        BY <2>0, <2>1
      <4> QED BY <2>1, <4>1, Batch
    <3> QED BY <3>1
  <2>7. D(n + 1) = D(n) \cup E
    <3>1. 1 .. n + 1 = (1 .. n) \cup {n + 1}
      BY <2>0
    <3> QED BY <3>1
  <2>8. Whole(s, D(n)) /\ s.reports = f[n]
    BY <2>1
  <2>9. f[n + 1] = f[n] \o w.reports
    BY <1>1, <2>1
  <2> HIDE DEF D, o, s, u, w, E
  <2>10. /\ Whole(u, D(n + 1))
         /\ u.reports = s.reports \o o.reports
         /\ \A t \in Tasks : u.outputs[t] = s.outputs[t] + o.outputs[t]
         /\ \A r \in Report : u.packets[r] = s.packets[r] + o.packets[r]
    <3> DEFINE C == D(n)
               F == D(n + 1)
    <3>1. Split(F, C, E)
      BY <2>6, <2>7 DEF Split
    <3>2. Whole(s, C) /\ Whole(o, E)
      BY <2>4, <2>8
    <3> HIDE DEF C, F
    <3>3. Whole(u, F) /\ Sums(u, s, o)
      BY <2>5, <3>1, <3>2, MergedWhole
    <3> QED BY <3>3 DEF F, Sums
  <2>11. u.reports = f[n + 1]
    BY <2>4, <2>8, <2>9, <2>10
  <2>12. /\ main.packets \in [Report -> Nat] /\ s.packets \in [Report -> Nat]
         /\ s.outputs \in [Tasks -> Nat] /\ w.packets \in [Report -> Nat]
         /\ w.outputs \in [Tasks -> Nat]
    BY <2>3, <2>8 DEF Whole, Stores
  <2>13. ASSUME NEW r \in Report
         PROVE  /\ r[1] \in Tasks /\ u.packets[r] = s.packets[r] + w.packets[r]
                /\ u.outputs[r[1]] = s.outputs[r[1]] + w.outputs[r[1]]
                /\ main.packets[r] \in Nat /\ s.packets[r] \in Nat /\ w.packets[r] \in Nat
                /\ s.outputs[r[1]] \in Nat /\ w.outputs[r[1]] \in Nat
                /\ r[1] \notin E => w.packets[r] = 0 /\ w.outputs[r[1]] = 0
                /\ r[1] \notin D(n) => s.packets[r] = main.packets[r] /\ s.outputs[r[1]] = 0
    <3>1. r[1] \in Tasks /\ r[2] \in Nat /\ r[2] >= 1
      BY Reports
    <3>2. /\ main.packets[r] \in Nat /\ s.packets[r] \in Nat /\ w.packets[r] \in Nat
          /\ s.outputs[r[1]] \in Nat /\ w.outputs[r[1]] \in Nat
      BY <2>12, <3>1
    <3>3. u.packets[r] = s.packets[r] + w.packets[r]
      BY <2>4, <2>10
    <3>4. u.outputs[r[1]] = s.outputs[r[1]] + w.outputs[r[1]]
      BY <2>4, <2>10, <3>1
    <3>5. ASSUME r[1] \notin E PROVE w.packets[r] = 0 /\ w.outputs[r[1]] = 0
      <4>1. w.outputs[r[1]] = 0
        BY <2>3, <3>1, <3>5 DEF Whole
      <4> QED BY <2>3, <3>1, <4>1
    <3>6. ASSUME r[1] \notin D(n) PROVE s.packets[r] = main.packets[r] /\ s.outputs[r[1]] = 0
      <4>1. s.outputs[r[1]] = 0
        BY <2>8, <3>1, <3>6 DEF Whole
      <4>2. s.packets[r] = main.packets[r]
        BY <2>1, <3>6 DEF s
      <4> QED BY <4>1, <4>2
    <3> QED BY <3>1, <3>2, <3>3, <3>4, <3>5, <3>6
  <2>14. ASSUME NEW r \in Report, NEW i \in 1 .. n + 1, r[1] \in TasksOf[Parallel[i]]
         PROVE  /\ u.packets[r] = main.packets[r] + work[Parallel[i]].packets[r]
                /\ u.outputs[r[1]] = work[Parallel[i]].outputs[r[1]]
    <3>1. CASE i = n + 1
      <4>1. r[1] \in E /\ r[1] \notin D(n) /\ work[Parallel[i]] = w
        BY <2>6, <2>14, <3>1 DEF E, w
      <4> QED BY <2>13, <4>1
    <3>2. CASE i \in 1 .. n
      <4>1. r[1] \in D(n)
        BY <2>14, <3>2 DEF D
      <4>2. r[1] \notin E
        BY <2>6, <4>1
      <4>3. /\ s.packets[r] = main.packets[r] + work[Parallel[i]].packets[r]
            /\ s.outputs[r[1]] = work[Parallel[i]].outputs[r[1]]
        BY <2>1, <2>14, <3>2 DEF s
      <4>4. u.packets[r] = s.packets[r] /\ u.outputs[r[1]] = s.outputs[r[1]]
        BY <2>13, <4>2
      <4> QED BY <4>3, <4>4
    <3> QED BY <2>0, <3>1, <3>2
  <2>15. ASSUME NEW r \in Report, r[1] \notin D(n + 1) PROVE u.packets[r] = main.packets[r]
    <3>1. r[1] \notin E /\ r[1] \notin D(n)
      BY <2>7, <2>15
    <3> QED BY <2>13, <3>1
  <2> QED BY <2>7, <2>10, <2>11, <2>14, <2>15 DEF u
<1>6. N = Nat
  <2>1. N \in SUBSET Nat
    OBVIOUS
  <2> HIDE DEF N
  <2> QED BY <1>4, <1>5, <2>1, SetInduction
<1>7. Len(Parallel) \in Nat /\ Good(Len(Parallel))
  <2>1. Len(Parallel) \in Nat
    BY Batch
  <2> HIDE DEF Good
  <2> QED BY <1>6, <2>1
<1>8. D(Len(Parallel)) \subseteq Tasks
  BY Batch
<1>9. \A r \in Report : OfBatch(r) <=> r[1] \in D(Len(Parallel))
  BY Batch DEF OfBatch
<1> HIDE DEF D
<1>10. Whole(MergedAll, Tasks) /\ MergedAll.reports = BatchReports(work)
  BY <1>1, <1>3, <1>7, <1>8, WholeGrows
<1>11. ASSUME NEW r \in Report, NEW d \in ToSet(Parallel), r[1] \in TasksOf[d]
       PROVE  /\ MergedAll.packets[r] = main.packets[r] + work[d].packets[r]
              /\ MergedAll.outputs[r[1]] = work[d].outputs[r[1]]
  <2>1. PICK i \in 1 .. Len(Parallel) : Parallel[i] = d
    BY Batch
  <2> QED BY <1>3, <1>7, <1>11, <2>1
<1>12. ASSUME NEW r \in Report, ~ OfBatch(r)
       PROVE  MergedAll.packets[r] = main.packets[r] /\ MergedAll.outputs[r[1]] = 0
  <2>1. r[1] \notin D(Len(Parallel)) /\ r[1] \in Tasks
    BY <1>9, <1>12, Reports
  <2>2. MergedAll.outputs[r[1]] = 0
    BY <1>3, <1>7, <2>1 DEF Whole
  <2> QED BY <1>3, <1>7, <2>1, <2>2
<1> QED BY <1>10, <1>11, <1>12

-----------------------------------------------------------------------------
(* What holds of the store while the round runs.                              *)

\* A reviewed package holds the packet.
Account(r, reviewed, sets, s) ==
  \E d \in reviewed :
    /\ r[1] \in TasksOf[d]
    /\ r[2] = (IF d \in ToSet(Parallel) THEN sets[d] ELSE s).outputs[r[1]]

\* A packet is there for its report, and once more if a reviewed package holds it.
Accounted(reviewed, sets, s) ==
  \A r \in Report :
    s.packets[r] = (IF r[2] <= s.outputs[r[1]] THEN 1 ELSE 0)
                   + (IF Account(r, reviewed, sets, s) THEN 1 ELSE 0)

\* Where the reports of the batch are.
Arrived ==
  /\ stage = "parallel" => main.reports = <<>>
  /\ stage \in {"sequential", "done"} => HasBatch(main)
  /\ stage = "failed" => main.reports = <<>> \/ HasBatch(main)

\* Whom the main thread has reviewed.
Gone ==
  /\ stage = "parallel" => turn = 1 /\ admitted \subseteq ToSet(Parallel) /\ Whole(main, {})
  /\ \A d \in admitted : future[d] = "package"
  /\ \A i \in turn .. Len(Sequential) : Sequential[i] \notin admitted

\* What every step preserves.
StoreInductive ==
  /\ StoreTypeOK
  /\ BatchWhole(work)
  /\ Whole(main, Tasks)
  /\ Gone
  /\ Accounted(admitted, work, main)
  /\ Arrived

\* The departments that run afterwards, each in one place and none of them in the batch.
LEMMA Places ==
  /\ \A d : Contains(Parallel, d) <=> d \in ToSet(Parallel)
  /\ Len(Sequential) \in Nat
  /\ \A i \in 1 .. Len(Sequential) :
       Sequential[i] \in Departments /\ Sequential[i] \notin ToSet(Parallel)
  /\ \A i, j \in 1 .. Len(Sequential) : Sequential[i] = Sequential[j] => i = j
  /\ \A d \in Departments : d \in ToSet(Parallel) \/ d \in ToSet(Sequential)
<1>1. /\ Parallel \in Seq(ToSet(Parallel)) /\ Sequential \in Seq(ToSet(Sequential))
      /\ DOMAIN Sequential = 1 .. Len(Sequential)
  BY BatchAssumption
<1>2. \A d : Contains(Parallel, d) <=> d \in ToSet(Parallel)
  BY <1>1, Lists DEF Contains
<1>3. /\ Len(Sequential) \in Nat
      /\ \A i \in 1 .. Len(Sequential) : Sequential[i] \in ToSet(Sequential)
  BY <1>1, Lists
<1>4. \A i \in 1 .. Len(Sequential) :
        Sequential[i] \in Departments /\ Sequential[i] \notin ToSet(Parallel)
  BY <1>3, BatchAssumption DEF Departments
<1>5. \A i, j \in 1 .. Len(Sequential) : Sequential[i] = Sequential[j] => i = j
  BY <1>1, BatchAssumption DEF IsInjective
<1> QED BY <1>2, <1>3, <1>4, <1>5 DEF Departments

\* BatchReports returns reports.
LEMMA BatchType ==
  ASSUME NEW sets, BatchWhole(sets)
  PROVE  BatchReports(sets) \in Seq(Report)
<1>1. PICK f : /\ f[0] = <<>>
               /\ \A i \in 1 .. Len(Parallel) : f[i] = f[i - 1] \o sets[Parallel[i]].reports
               /\ BatchReports(sets) = f[Len(Parallel)]
  BY BatchSteps
<1>2. /\ Len(Parallel) \in Nat
      /\ \A i \in 1 .. Len(Parallel) : sets[Parallel[i]].reports \in Seq(Report)
  BY Batch DEF BatchWhole, Whole, Stores
<1> DEFINE N == {n \in Nat : n <= Len(Parallel) => f[n] \in Seq(Report)}
<1>3. 0 \in N
  <2>1. <<>> \in Seq(Report)
    OBVIOUS
  <2> QED BY <1>1, <2>1
<1>4. ASSUME NEW n \in N PROVE n + 1 \in N
  <2>1. n \in Nat /\ n + 1 \in Nat
    OBVIOUS
  <2> SUFFICES ASSUME n + 1 <= Len(Parallel) PROVE f[n + 1] \in Seq(Report)
    BY <2>1
  <2>2. n + 1 \in 1 .. Len(Parallel) /\ (n + 1) - 1 = n /\ f[n] \in Seq(Report)
    BY <1>2, <2>1
  <2>3. f[n + 1] = f[n] \o sets[Parallel[n + 1]].reports
    BY <1>1, <2>2
  <2>4. sets[Parallel[n + 1]].reports \in Seq(Report)
    BY <1>2, <2>2
  <2> QED BY ONLY <2>2, <2>3, <2>4
<1>5. N = Nat
  <2>1. N \in SUBSET Nat
    OBVIOUS
  <2> HIDE DEF N
  <2> QED BY <1>3, <1>4, <2>1, SetInduction
<1> QED BY <1>1, <1>2, <1>5

\* A package holds the last report on each task of its department.
LEMMA PackagedIs ==
  ASSUME NEW D, NEW s, Whole(s, D), NEW d
  PROVE  \A r \in Report :
           r \in Packaged(s, d) <=> r[1] \in TasksOf[d] /\ r[2] = s.outputs[r[1]]
<1> SUFFICES ASSUME NEW r \in Report
             PROVE  r \in Packaged(s, d) <=> r[1] \in TasksOf[d] /\ r[2] = s.outputs[r[1]]
  OBVIOUS
<1>1. r[2] \in Nat
  BY Reports
<1>2. r \in ToSet(s.reports) <=> r[2] <= s.outputs[r[1]]
  BY DEF Whole
<1> QED BY <1>1, <1>2 DEF Packaged

\* The store of a department, which is whole.
LEMMA StoreIs ==
  ASSUME StoreInductive, NEW d \in Departments
  PROVE  /\ Store(d) = IF d \in ToSet(Parallel) THEN work[d] ELSE main
         /\ \E D : Whole(Store(d), D)
BY Places DEF Store, StoreInductive, BatchWhole

\* The initial stores.
LEMMA InitInductive == StoreInit => StoreInductive
<1> SUFFICES ASSUME StoreInit PROVE StoreInductive
  OBVIOUS
<1> USE DEF StoreInit
<1>1. Whole(Empty, {}) /\ Seeded(Empty) = Empty /\ Empty \in Stores
  BY EmptyWhole DEF Whole
<1>2. StoreTypeOK
  BY <1>1, Places DEF StoreTypeOK
<1>3. \A r \in Report : ~ (r[2] <= Empty.outputs[r[1]]) /\ Empty.packets[r] = 0
  BY Reports DEF Empty
<1>4. \A D : Whole(Empty, D)
  BY <1>1 DEF Whole
<1>5. BatchWhole(work)
  BY <1>1, <1>3, <1>4 DEF BatchWhole
<1>6. Whole(main, Tasks)
  BY <1>4
<1>7. Gone
  BY <1>1 DEF Gone
<1>8. Accounted(admitted, work, main)
  BY <1>3 DEF Accounted, Account
<1>9. Arrived
  BY DEF Arrived, Empty
<1> QED BY <1>2, <1>5, <1>6, <1>7, <1>8, <1>9 DEF StoreInductive

\* A thread of the batch writes its working set, or ends.
WorkStep(d, w) ==
  /\ stage = "parallel" /\ future[d] = Nothing
  /\ Whole(w, TasksOf[d])
  /\ \A r \in Report : w.packets[r] = IF r[2] <= w.outputs[r[1]] THEN 1 ELSE 0
  /\ work' = [work EXCEPT ![d] = w] /\ UNCHANGED <<stage, turn, admitted, main>>
  /\ future' \in [Departments -> {"package", "exception", Nothing}]
  /\ \A e \in Departments : e # d => future'[e] = future[e]

\* A department that runs afterwards writes the main store, or ends.
MainStep(s) ==
  /\ stage = "sequential" /\ turn \in 1 .. Len(Sequential)
  /\ future[Sequential[turn]] = Nothing
  /\ Whole(s, Tasks) /\ HasBatch(s) /\ Accounted(admitted, work, s)
  /\ main' = s /\ UNCHANGED <<stage, turn, admitted, work>>
  /\ future' \in [Departments -> {"package", "exception", Nothing}]
  /\ \A e \in Departments : e # Sequential[turn] => future'[e] = future[e]

\* A working set is written, or its thread ends.
LEMMA WorkWritten ==
  ASSUME StoreInductive, NEW d \in ToSet(Parallel), NEW w, WorkStep(d, w)
  PROVE  StoreInductive'
<1> USE DEF WorkStep
<1>1. /\ work \in [ToSet(Parallel) -> Stores] /\ StoreTypeOK /\ BatchWhole(work)
      /\ Whole(main, Tasks) /\ Gone /\ Accounted(admitted, work, main) /\ Arrived
  BY DEF StoreInductive, StoreTypeOK
<1>2. d \notin admitted
  BY <1>1, ReportsAssumption DEF Gone
<1>3. w \in Stores
  BY DEF Whole
<1>4. work'[d] = w /\ \A e \in ToSet(Parallel) : e # d => work'[e] = work[e]
  BY <1>1
<1>5. StoreTypeOK'
  BY <1>1, <1>3 DEF StoreTypeOK
<1>6. BatchWhole(work')
  BY <1>1, <1>4 DEF BatchWhole
<1>7. Gone'
  <2>1. \A e \in admitted : future[e] = "package" /\ e # d /\ e \in Departments
    BY <1>1, <1>2 DEF Gone, StoreTypeOK
  <2> QED BY <1>1, <2>1 DEF Gone
<1>8. Accounted(admitted, work', main)
  <2>1. ASSUME NEW r \in Report PROVE Account(r, admitted, work', main) <=> Account(r, admitted, work, main)
    BY <1>2, <1>4 DEF Account
  <2> QED BY <1>1, <2>1 DEF Accounted
<1>9. Arrived'
  BY <1>1 DEF Arrived
<1> QED BY <1>1, <1>5, <1>6, <1>7, <1>8, <1>9 DEF StoreInductive

\* The main store is written by a department that runs on it.
LEMMA MainWritten ==
  ASSUME StoreInductive, NEW s, MainStep(s)
  PROVE  StoreInductive'
<1> USE DEF MainStep
<1>1. StoreTypeOK /\ BatchWhole(work) /\ Gone
  BY DEF StoreInductive
<1>2. s \in Stores
  BY DEF Whole
<1>3. StoreTypeOK'
  BY <1>1, <1>2 DEF StoreTypeOK
<1>4. Gone'
  <2>1. \A e \in admitted : future[e] = "package" /\ e # Sequential[turn] /\ e \in Departments
    BY <1>1, ReportsAssumption DEF Gone, StoreTypeOK
  <2> QED BY <1>1, <2>1 DEF Gone
<1>5. Arrived'
  <2>1. HasBatch(main)'
    BY DEF HasBatch
  <2> QED BY <2>1 DEF Arrived
<1> QED BY <1>1, <1>3, <1>4, <1>5 DEF StoreInductive

\* Who runs is not reviewed yet, and has its store to itself.
LEMMA RunningIs ==
  ASSUME StoreInductive, NEW d \in Departments, Running(d)
  PROVE  /\ future[d] = Nothing
         /\ d \notin admitted
         /\ \/ /\ d \in ToSet(Parallel) /\ stage = "parallel" /\ Store(d) = work[d]
               /\ Whole(work[d], TasksOf[d])
               /\ \A r \in Report :
                    work[d].packets[r] = IF r[2] <= work[d].outputs[r[1]] THEN 1 ELSE 0
               /\ \A s : WriteTo(d, s) <=> work' = [work EXCEPT ![d] = s] /\ UNCHANGED main
            \/ /\ d \notin ToSet(Parallel) /\ stage = "sequential" /\ Store(d) = main
               /\ turn \in 1 .. Len(Sequential) /\ d = Sequential[turn]
               /\ Whole(main, Tasks) /\ HasBatch(main) /\ Accounted(admitted, work, main)
               /\ \A s : WriteTo(d, s) <=> main' = s /\ UNCHANGED work
<1>1. /\ StoreTypeOK /\ BatchWhole(work) /\ Whole(main, Tasks) /\ Gone
      /\ Accounted(admitted, work, main) /\ Arrived
  BY DEF StoreInductive
<1>2. future[d] = Nothing
  BY DEF Running
<1>3. d \notin admitted
  BY <1>1, <1>2, ReportsAssumption DEF Gone
<1>4. Store(d) = IF d \in ToSet(Parallel) THEN work[d] ELSE main
  BY StoreIs
<1>5. \A s : WriteTo(d, s) <=> IF d \in ToSet(Parallel)
                               THEN work' = [work EXCEPT ![d] = s] /\ UNCHANGED main
                               ELSE main' = s /\ UNCHANGED work
  BY Places DEF WriteTo
<1>6. CASE stage = "parallel" /\ d \in ToSet(Parallel)
  BY <1>1, <1>2, <1>3, <1>4, <1>5, <1>6 DEF BatchWhole
<1>7. CASE stage = "sequential" /\ turn <= Len(Sequential) /\ Sequential[turn] = d
  <2>1. turn \in 1 .. Len(Sequential)
    BY <1>1, <1>7, Places DEF StoreTypeOK
  <2>2. d \notin ToSet(Parallel)
    BY <1>7, <2>1, Places
  <2> QED BY <1>1, <1>2, <1>3, <1>4, <1>5, <1>7, <2>1, <2>2 DEF Arrived
<1> QED BY <1>6, <1>7, Places DEF Running

\* The account depends on outputs and packets only.
LEMMA SameAccount ==
  ASSUME NEW ads, NEW sets, NEW s, Accounted(ads, sets, s), NEW u,
         u.outputs = s.outputs, u.packets = s.packets
  PROVE  Accounted(ads, sets, u)
<1>1. \A r : Account(r, ads, sets, u) <=> Account(r, ads, sets, s)
  BY DEF Account
<1> QED BY <1>1 DEF Accounted

\* The place of the batch in a store depends on its reports only.
LEMMA SameBatch ==
  ASSUME NEW s, HasBatch(s), NEW u, u.reports = s.reports
  PROVE  HasBatch(u)
BY DEF HasBatch

\* One lemma for each action.
LEMMA ResearchInductive ==
  ASSUME StoreInductive, NEW d \in Departments, NEW t \in TasksOf[d], Research(d, t)
  PROVE  StoreInductive'
<1>1. t \in Tasks /\ t \in TasksOf[d]
  BY Batch
<1>2. Running(d) /\ Store(d).outputs[t] < AttemptsOf[t] /\ UNCHANGED <<stage, turn, future, admitted>>
      /\ WriteTo(d, Ingested(Store(d), t))
  BY DEF Research
<1>3. /\ future' \in [Departments -> {"package", "exception", Nothing}]
      /\ \A e \in Departments : future'[e] = future[e]
  BY <1>2 DEF StoreInductive, StoreTypeOK
<1>4. CASE d \in ToSet(Parallel)
  <2> DEFINE s == work[d]
             u == Ingested(s, t)
             n == s.outputs[t] + 1
  <2>1. /\ stage = "parallel" /\ Store(d) = s /\ Whole(s, TasksOf[d]) /\ future[d] = Nothing
        /\ \A r \in Report : s.packets[r] = IF r[2] <= s.outputs[r[1]] THEN 1 ELSE 0
        /\ work' = [work EXCEPT ![d] = u] /\ UNCHANGED main
    BY <1>2, <1>4, RunningIs
  <2>2. s.outputs \in [Tasks -> Nat] /\ s.packets \in [Report -> Nat]
    BY <2>1 DEF Whole, Stores
  <2> HIDE DEF s
  <2>3. /\ Whole(u, TasksOf[d]) /\ u.outputs = [s.outputs EXCEPT ![t] = @ + 1]
        /\ u.packets = [s.packets EXCEPT ![<<t, n>>] = @ + 1]
    BY <1>1, <1>2, <2>1, IngestedWhole
  <2> HIDE DEF u
  <2>4. ASSUME NEW r \in Report PROVE u.packets[r] = IF r[2] <= u.outputs[r[1]] THEN 1 ELSE 0
    <3>1. r = <<r[1], r[2]>> /\ r[1] \in Tasks /\ r[2] \in Nat
      BY Reports
    <3>2. s.packets[r] = IF r[2] <= s.outputs[r[1]] THEN 1 ELSE 0
      BY <2>1
    <3>3. CASE r = <<t, n>>
      <4>1. r[1] = t /\ r[2] = n
        BY <3>3
      <4>2. s.packets[r] = 0 /\ u.packets[r] = 1
        BY <1>1, <2>2, <2>3, <3>2, <3>3, <4>1
      <4> QED BY <1>1, <2>2, <2>3, <4>1, <4>2
    <3>4. CASE r # <<t, n>>
      <4>1. u.packets[r] = s.packets[r]
        BY <2>2, <2>3, <3>4
      <4>2. r[2] <= u.outputs[r[1]] <=> r[2] <= s.outputs[r[1]]
        <5>1. CASE r[1] = t
          <6>1. r[2] # n
            BY <3>1, <3>4, <5>1
          <6>2. u.outputs[t] = n /\ s.outputs[t] \in Nat
            BY <1>1, <2>2, <2>3
          <6> QED BY <3>1, <5>1, <6>1, <6>2
        <5>2. CASE r[1] # t
          BY <2>2, <2>3, <3>1, <5>2
        <5> QED BY <5>1, <5>2
      <4> QED BY <3>2, <4>1, <4>2
    <3> QED BY <3>3, <3>4
  <2>5. WorkStep(d, u)
    BY <1>2, <1>3, <1>4, <2>1, <2>3, <2>4 DEF WorkStep
  <2> QED BY <1>4, <2>5, WorkWritten
<1>5. CASE d \notin ToSet(Parallel)
  <2> DEFINE u == Ingested(main, t)
             n == main.outputs[t] + 1
  <2>1. /\ stage = "sequential" /\ Store(d) = main /\ Whole(main, Tasks) /\ HasBatch(main)
        /\ Accounted(admitted, work, main) /\ turn \in 1 .. Len(Sequential)
        /\ d = Sequential[turn] /\ future[d] = Nothing /\ d \notin admitted
        /\ main' = u /\ UNCHANGED work
    BY <1>2, <1>5, RunningIs
  <2>2. /\ main.outputs \in [Tasks -> Nat] /\ main.packets \in [Report -> Nat]
        /\ main.reports \in Seq(Report)
    BY <2>1 DEF Whole, Stores
  <2>3. /\ Whole(u, Tasks) /\ u.outputs = [main.outputs EXCEPT ![t] = @ + 1]
        /\ u.packets = [main.packets EXCEPT ![<<t, n>>] = @ + 1]
        /\ u.reports = Append(main.reports, <<t, n>>)
    BY <1>1, <1>2, <2>1, IngestedWhole
  <2> HIDE DEF u
  <2>4. ~ OfBatch(<<t, n>>)
    <3>1. \A e \in ToSet(Parallel) : t \notin TasksOf[e]
      BY <1>1, <1>5, Batch, BatchAssumption
    <3> QED BY <3>1 DEF OfBatch
  <2>5. <<t, n>> \in Report
    <3>1. u.reports \in Seq(Report)
      BY <2>3 DEF Whole, Stores
    <3>2. Len(main.reports) + 1 \in 1 .. Len(u.reports) /\ u.reports[Len(main.reports) + 1] = <<t, n>>
      BY <2>2, <2>3
    <3> QED BY <3>1, <3>2, Lists
  <2>6. HasBatch(u)
    <3> DEFINE b == BatchReports(work)
               q == main.reports
    <3>1. b \in Seq(Report) /\ q \in Seq(Report)
      BY <2>2, BatchType DEF StoreInductive
    <3>2. Len(b) <= Len(q) /\ SubSeq(b, 1, Len(b)) = SubSeq(q, 1, Len(b))
          /\ \A i \in Len(b) + 1 .. Len(q) : ~ OfBatch(q[i])
      BY <2>1 DEF HasBatch, IsPrefix
    <3> HIDE DEF b, q
    <3>3. /\ Append(q, <<t, n>>) \in Seq(Report) /\ Len(Append(q, <<t, n>>)) = Len(q) + 1
          /\ Len(q) \in Nat /\ Len(b) \in Nat
          /\ Append(q, <<t, n>>)[Len(q) + 1] = <<t, n>>
          /\ \A i \in 1 .. Len(q) : Append(q, <<t, n>>)[i] = q[i]
      <4> HIDE DEF n
      <4> QED BY <2>5, <3>1
    <3>4. SubSeq(Append(q, <<t, n>>), 1, Len(b)) = SubSeq(q, 1, Len(b))
      <4> HIDE DEF n
      <4> QED BY <3>1, <3>2, <3>3
    <3>5. ASSUME NEW i \in Len(b) + 1 .. Len(q) + 1 PROVE ~ OfBatch(Append(q, <<t, n>>)[i])
      <4>1. CASE i \in Len(b) + 1 .. Len(q)
        BY <3>2, <3>3, <4>1
      <4>2. CASE i = Len(q) + 1
        BY <2>4, <3>3, <4>2
      <4> QED BY <3>3, <4>1, <4>2
    <3>6. u.reports = Append(q, <<t, n>>)
      BY <2>3 DEF q
    <3> HIDE DEF n
    <3>7. IsPrefix(b, u.reports)
      BY <3>2, <3>3, <3>4, <3>6 DEF IsPrefix
    <3>8. \A i \in Len(b) + 1 .. Len(u.reports) : ~ OfBatch(u.reports[i])
      BY <3>3, <3>5, <3>6
    <3> QED BY <3>7, <3>8 DEF HasBatch, b
  <2>7. Accounted(admitted, work, u)
    <3> SUFFICES ASSUME NEW r \in Report
                 PROVE  u.packets[r] = (IF r[2] <= u.outputs[r[1]] THEN 1 ELSE 0)
                                       + (IF Account(r, admitted, work, u) THEN 1 ELSE 0)
      BY DEF Accounted
    <3>1. r = <<r[1], r[2]>> /\ r[1] \in Tasks /\ r[2] \in Nat
      BY Reports
    <3>2. main.packets[r] = (IF r[2] <= main.outputs[r[1]] THEN 1 ELSE 0)
                            + (IF Account(r, admitted, work, main) THEN 1 ELSE 0)
      BY <2>1 DEF Accounted
    <3>3. CASE r[1] = t
      <4>1. ~ Account(r, admitted, work, main) /\ ~ Account(r, admitted, work, u)
        <5>1. \A e \in admitted : e \in Departments /\ e # d
          BY <2>1 DEF StoreInductive, StoreTypeOK
        <5>2. \A e \in admitted : t \notin TasksOf[e]
          BY <1>1, <5>1, BatchAssumption
        <5> QED BY <3>3, <5>2 DEF Account
      <4>2. u.outputs[t] = n /\ main.outputs[t] \in Nat
        BY <1>1, <2>2, <2>3
      <4>3. CASE r[2] = n
        <5>1. r = <<t, n>>
          BY <3>1, <3>3, <4>3
        <5>2. main.packets[r] = 0
          BY <3>2, <3>3, <4>1, <4>2, <4>3
        <5>3. u.packets[r] = 1
          BY <2>2, <2>3, <5>1, <5>2
        <5> QED BY <3>3, <4>1, <4>2, <4>3, <5>3
      <4>4. CASE r[2] # n
        <5>1. u.packets[r] = main.packets[r]
          BY <2>2, <2>3, <3>1, <4>4
        <5> QED BY <3>1, <3>2, <3>3, <4>1, <4>2, <4>4, <5>1
      <4> QED BY <4>3, <4>4
    <3>4. CASE r[1] # t
      <4>1. u.outputs[r[1]] = main.outputs[r[1]]
        BY <2>2, <2>3, <3>1, <3>4
      <4>2. u.packets[r] = main.packets[r]
        BY <2>2, <2>3, <3>1, <3>4
      <4>3. Account(r, admitted, work, u) <=> Account(r, admitted, work, main)
        BY <4>1 DEF Account
      <4> QED BY <3>2, <4>1, <4>2, <4>3
    <3> QED BY <3>3, <3>4
  <2>8. MainStep(u)
    BY <1>2, <1>3, <2>1, <2>3, <2>6, <2>7 DEF MainStep
  <2> QED BY <2>8, MainWritten
<1> QED BY <1>4, <1>5

LEMMA ReviewInductive ==
  ASSUME StoreInductive, NEW d \in Departments, NEW t \in TasksOf[d], Review(d, t)
  PROVE  StoreInductive'
<1>1. t \in Tasks /\ t \in TasksOf[d]
  BY Batch
<1>2. PICK a \in BOOLEAN :
        /\ Running(d) /\ Store(d).outputs[t] > 0 /\ UNCHANGED <<stage, turn, future, admitted>>
        /\ WriteTo(d, Marked(Store(d), t, a))
  BY DEF Review
<1>3. /\ future' \in [Departments -> {"package", "exception", Nothing}]
      /\ \A e \in Departments : future'[e] = future[e]
  BY <1>2 DEF StoreInductive, StoreTypeOK
<1>4. CASE d \in ToSet(Parallel)
  <2> DEFINE s == work[d]
             u == Marked(s, t, a)
  <2>1. /\ stage = "parallel" /\ Store(d) = s /\ Whole(s, TasksOf[d]) /\ future[d] = Nothing
        /\ \A r \in Report : s.packets[r] = IF r[2] <= s.outputs[r[1]] THEN 1 ELSE 0
        /\ work' = [work EXCEPT ![d] = u] /\ UNCHANGED main
    BY <1>2, <1>4, RunningIs
  <2> HIDE DEF s
  <2>2. Whole(u, TasksOf[d]) /\ u.outputs = s.outputs /\ u.packets = s.packets
    BY <1>1, <1>2, <2>1, MarkedWhole
  <2> HIDE DEF u
  <2>3. \A r \in Report : u.packets[r] = IF r[2] <= u.outputs[r[1]] THEN 1 ELSE 0
    BY <2>1, <2>2
  <2>4. WorkStep(d, u)
    BY <1>2, <1>3, <1>4, <2>1, <2>2, <2>3 DEF WorkStep
  <2> QED BY <1>4, <2>4, WorkWritten
<1>5. CASE d \notin ToSet(Parallel)
  <2> DEFINE u == Marked(main, t, a)
  <2>1. /\ stage = "sequential" /\ Store(d) = main /\ Whole(main, Tasks) /\ HasBatch(main)
        /\ Accounted(admitted, work, main) /\ turn \in 1 .. Len(Sequential)
        /\ d = Sequential[turn] /\ future[d] = Nothing
        /\ main' = u /\ UNCHANGED work
    BY <1>2, <1>5, RunningIs
  <2>2. /\ Whole(u, Tasks) /\ u.outputs = main.outputs /\ u.packets = main.packets
        /\ u.reports = main.reports
    BY <1>1, <1>2, <2>1, MarkedWhole
  <2> HIDE DEF u
  <2>3. HasBatch(u) /\ Accounted(admitted, work, u)
    BY <2>1, <2>2, SameBatch, SameAccount
  <2>4. MainStep(u)
    BY <1>2, <1>3, <2>1, <2>2, <2>3 DEF MainStep
  <2> QED BY <2>4, MainWritten
<1> QED BY <1>4, <1>5

LEMMA HandInInductive ==
  ASSUME StoreInductive, NEW d \in Departments, HandIn(d)
  PROVE  StoreInductive'
<1>1. /\ Running(d) /\ UNCHANGED <<stage, turn, admitted>>
      /\ future' = [future EXCEPT ![d] = "package"] /\ WriteTo(d, Stored(Store(d), d))
  BY DEF HandIn
<1>2. /\ future' \in [Departments -> {"package", "exception", Nothing}]
      /\ \A e \in Departments : e # d => future'[e] = future[e]
  BY <1>1 DEF StoreInductive, StoreTypeOK
<1>3. CASE d \in ToSet(Parallel)
  <2> DEFINE s == work[d]
             u == Stored(s, d)
  <2>1. /\ stage = "parallel" /\ Store(d) = s /\ Whole(s, TasksOf[d]) /\ future[d] = Nothing
        /\ \A r \in Report : s.packets[r] = IF r[2] <= s.outputs[r[1]] THEN 1 ELSE 0
        /\ work' = [work EXCEPT ![d] = u] /\ UNCHANGED main
    BY <1>1, <1>3, RunningIs
  <2> HIDE DEF s
  <2>2. Whole(u, TasksOf[d]) /\ u.outputs = s.outputs /\ u.packets = s.packets
    BY <2>1, StoredWhole
  <2> HIDE DEF u
  <2>3. \A r \in Report : u.packets[r] = IF r[2] <= u.outputs[r[1]] THEN 1 ELSE 0
    BY <2>1, <2>2
  <2>4. WorkStep(d, u)
    BY <1>1, <1>2, <1>3, <2>1, <2>2, <2>3 DEF WorkStep
  <2> QED BY <1>3, <2>4, WorkWritten
<1>4. CASE d \notin ToSet(Parallel)
  <2> DEFINE u == Stored(main, d)
  <2>1. /\ stage = "sequential" /\ Store(d) = main /\ Whole(main, Tasks) /\ HasBatch(main)
        /\ Accounted(admitted, work, main) /\ turn \in 1 .. Len(Sequential)
        /\ d = Sequential[turn] /\ future[d] = Nothing
        /\ main' = u /\ UNCHANGED work
    BY <1>1, <1>4, RunningIs
  <2>2. /\ Whole(u, Tasks) /\ u.outputs = main.outputs /\ u.packets = main.packets
        /\ u.reports = main.reports
    BY <2>1, StoredWhole
  <2> HIDE DEF u
  <2>3. HasBatch(u) /\ Accounted(admitted, work, u)
    BY <2>1, <2>2, SameBatch, SameAccount
  <2>4. MainStep(u)
    BY <1>1, <1>2, <2>1, <2>2, <2>3 DEF MainStep
  <2> QED BY <2>4, MainWritten
<1> QED BY <1>3, <1>4

LEMMA AbortInductive ==
  ASSUME StoreInductive, NEW d \in Departments, Abort(d)
  PROVE  StoreInductive'
<1>1. Running(d) /\ future' = [future EXCEPT ![d] = "exception"]
      /\ UNCHANGED <<stage, turn, admitted, work, main>>
  BY DEF Abort
<1>2. /\ future' \in [Departments -> {"package", "exception", Nothing}]
      /\ \A e \in Departments : e # d => future'[e] = future[e]
  BY <1>1 DEF StoreInductive, StoreTypeOK
<1>3. CASE d \in ToSet(Parallel)
  <2>1. /\ stage = "parallel" /\ Whole(work[d], TasksOf[d]) /\ future[d] = Nothing
        /\ \A r \in Report : work[d].packets[r] = IF r[2] <= work[d].outputs[r[1]] THEN 1 ELSE 0
    BY <1>1, <1>3, RunningIs
  <2>2. work' = [work EXCEPT ![d] = work[d]]
    BY <1>1 DEF StoreInductive, StoreTypeOK
  <2>3. WorkStep(d, work[d])
    BY <1>1, <1>2, <1>3, <2>1, <2>2 DEF WorkStep
  <2> QED BY <1>3, <2>3, WorkWritten
<1>4. CASE d \notin ToSet(Parallel)
  <2>1. /\ stage = "sequential" /\ Whole(main, Tasks) /\ HasBatch(main)
        /\ Accounted(admitted, work, main) /\ turn \in 1 .. Len(Sequential)
        /\ d = Sequential[turn] /\ future[d] = Nothing
    BY <1>1, <1>4, RunningIs
  <2>2. MainStep(main)
    BY <1>1, <1>2, <2>1 DEF MainStep
  <2> QED BY <2>2, MainWritten
<1> QED BY <1>3, <1>4

\* The review of a package adds what it holds, once.
LEMMA AppliedAccount ==
  ASSUME StoreInductive, NEW d \in Departments \ admitted
  PROVE  /\ Whole(Applied(main, d), Tasks)
         /\ Applied(main, d).reports = main.reports
         /\ Applied(main, d).outputs = main.outputs
         /\ Accounted(admitted \cup {d}, work, Applied(main, d))
<1> DEFINE u == Applied(main, d)
<1>1. /\ Whole(main, Tasks) /\ Accounted(admitted, work, main) /\ admitted \subseteq Departments
      /\ main.packets \in [Report -> Nat]
  BY DEF StoreInductive, StoreTypeOK, Whole, Stores
<1>2. /\ Whole(u, Tasks) /\ u.outputs = main.outputs /\ u.reports = main.reports
      /\ \A r \in Report :
           u.packets[r] = main.packets[r] + (IF r \in Packaged(Store(d), d) THEN 1 ELSE 0)
  BY <1>1, AppliedWhole
<1> HIDE DEF u
<1> DEFINE own == IF d \in ToSet(Parallel) THEN work[d] ELSE main
<1>3. \A r \in Report :
        r \in Packaged(Store(d), d) <=> r[1] \in TasksOf[d] /\ r[2] = own.outputs[r[1]]
  <2>1. Store(d) = own /\ \E D : Whole(own, D)
    BY StoreIs
  <2> HIDE DEF own
  <2> QED BY <2>1, PackagedIs
<1>4. ASSUME NEW r \in Report
      PROVE  u.packets[r] = (IF r[2] <= u.outputs[r[1]] THEN 1 ELSE 0)
                            + (IF Account(r, admitted \cup {d}, work, u) THEN 1 ELSE 0)
  <2>1. Account(r, admitted \cup {d}, work, u)
          <=> Account(r, admitted, work, main) \/ r \in Packaged(Store(d), d)
    <3>1. u.outputs = main.outputs
      BY <1>2
    <3> QED BY <1>3, <3>1 DEF Account
  <2>2. ~ (Account(r, admitted, work, main) /\ r \in Packaged(Store(d), d))
    <3>1. \A e \in admitted : TasksOf[e] \cap TasksOf[d] = {}
      BY <1>1, BatchAssumption
    <3> QED BY <1>3, <3>1 DEF Account
  <2>3. main.packets[r] = (IF r[2] <= main.outputs[r[1]] THEN 1 ELSE 0)
                          + (IF Account(r, admitted, work, main) THEN 1 ELSE 0)
    BY <1>1 DEF Accounted
  <2>4. u.packets[r] = main.packets[r] + (IF r \in Packaged(Store(d), d) THEN 1 ELSE 0)
    BY <1>2
  <2>5. u.outputs = main.outputs
    BY <1>2
  <2> QED BY <2>1, <2>2, <2>3, <2>4, <2>5
<1>5. Accounted(admitted \cup {d}, work, u)
  BY <1>4 DEF Accounted
<1> QED BY <1>2, <1>5 DEF u

LEMMA CompleteInductive ==
  ASSUME StoreInductive, NEW d \in Departments, Complete(d)
  PROVE  StoreInductive'
<1>1. /\ stage = "parallel" /\ d \in ToSet(Parallel) /\ d \notin admitted
      /\ UNCHANGED <<turn, future, work>>
  BY Places DEF Complete
<1>2. /\ StoreTypeOK /\ BatchWhole(work) /\ Whole(main, Tasks) /\ Gone
      /\ Accounted(admitted, work, main) /\ main.reports = <<>>
  BY <1>1 DEF StoreInductive, Arrived
<1>3. CASE /\ future[d] = "package" /\ main' = Applied(main, d)
           /\ admitted' = admitted \cup {d} /\ UNCHANGED stage
  <2> DEFINE u == Applied(main, d)
  <2>1. /\ Whole(u, Tasks) /\ u.reports = main.reports /\ u.outputs = main.outputs
        /\ Accounted(admitted \cup {d}, work, u)
    BY <1>1, AppliedAccount
  <2>2. Whole(u, {})
    BY <1>1, <1>2, AppliedWhole DEF Gone
  <2> HIDE DEF u
  <2>3. u \in Stores /\ main' = u
    BY <1>3, <2>1 DEF Whole, u
  <2>4. StoreTypeOK'
    BY <1>1, <1>2, <1>3, <2>3 DEF StoreTypeOK
  <2>5. Gone'
    <3>1. \A i \in turn .. Len(Sequential) : Sequential[i] # d
      BY <1>1, <1>2, Places DEF Gone
    <3> QED BY <1>1, <1>2, <1>3, <2>2, <2>3, <3>1 DEF Gone
  <2>6. Arrived'
    BY <1>1, <1>2, <1>3, <2>1, <2>3 DEF Arrived
  <2> QED BY <1>1, <1>2, <1>3, <2>1, <2>3, <2>4, <2>5, <2>6 DEF StoreInductive
<1>4. CASE stage' = "failed" /\ UNCHANGED <<main, admitted>>
  <2>1. StoreTypeOK'
    BY <1>1, <1>2, <1>4 DEF StoreTypeOK
  <2>2. Gone'
    BY <1>1, <1>2, <1>4 DEF Gone
  <2>3. Arrived'
    BY <1>2, <1>4 DEF Arrived
  <2> QED BY <1>1, <1>2, <1>4, <2>1, <2>2, <2>3 DEF StoreInductive
<1> QED BY <1>3, <1>4 DEF Complete

LEMMA MergeInductive ==
  ASSUME StoreInductive, Merge
  PROVE  StoreInductive'
<1>1. /\ stage = "parallel" /\ stage' = "sequential" /\ main' = MergedAll
      /\ UNCHANGED <<turn, future, admitted, work>> /\ ToSet(Parallel) \subseteq admitted
  BY DEF Merge
<1>2. /\ StoreTypeOK /\ BatchWhole(work) /\ Whole(main, {}) /\ Gone
      /\ Accounted(admitted, work, main) /\ main.reports = <<>>
      /\ admitted \subseteq ToSet(Parallel)
  BY <1>1 DEF StoreInductive, Arrived, Gone
<1> DEFINE u == MergedAll
<1>3. /\ Whole(u, Tasks) /\ u.reports = BatchReports(work)
      /\ \A r \in Report, d \in ToSet(Parallel) : r[1] \in TasksOf[d] =>
           /\ u.packets[r] = main.packets[r] + work[d].packets[r]
           /\ u.outputs[r[1]] = work[d].outputs[r[1]]
      /\ \A r \in Report : ~ OfBatch(r) => u.packets[r] = main.packets[r] /\ u.outputs[r[1]] = 0
  BY <1>2, MergeWhole
<1> HIDE DEF u
<1>4. main' = u /\ u \in Stores
  BY <1>1, <1>3 DEF u, Whole
<1>5. StoreTypeOK'
  BY <1>1, <1>2, <1>4 DEF StoreTypeOK
<1>6. Gone'
  BY <1>1, <1>2 DEF Gone
<1>7. Accounted(admitted, work, u)
  <2> SUFFICES ASSUME NEW r \in Report
               PROVE  u.packets[r] = (IF r[2] <= u.outputs[r[1]] THEN 1 ELSE 0)
                                     + (IF Account(r, admitted, work, u) THEN 1 ELSE 0)
    BY DEF Accounted
  <2>1. r[1] \in Tasks /\ r[2] \in Nat /\ r[2] >= 1
    BY Reports
  <2>2. main.outputs[r[1]] = 0
    BY <1>2, <2>1 DEF Whole
  <2>3. main.packets[r] = IF Account(r, admitted, work, main) THEN 1 ELSE 0
    BY <1>2, <2>1, <2>2 DEF Accounted
  <2>4. Account(r, admitted, work, u) <=> Account(r, admitted, work, main)
    BY <1>2 DEF Account
  <2>5. CASE OfBatch(r)
    <3>1. PICK d \in ToSet(Parallel) : r[1] \in TasksOf[d]
      BY <2>5 DEF OfBatch
    <3>2. u.packets[r] = main.packets[r] + work[d].packets[r] /\ u.outputs[r[1]] = work[d].outputs[r[1]]
      BY <1>3, <3>1
    <3>3. work[d].packets[r] = IF r[2] <= work[d].outputs[r[1]] THEN 1 ELSE 0
      BY <1>2 DEF BatchWhole
    <3> QED BY <2>3, <2>4, <3>2, <3>3
  <2>6. CASE ~ OfBatch(r)
    <3>1. u.packets[r] = main.packets[r] /\ u.outputs[r[1]] = 0
      BY <1>3, <2>6
    <3> QED BY <2>1, <2>3, <2>4, <3>1
  <2> QED BY <2>5, <2>6
<1>8. HasBatch(u)
  <2> DEFINE b == BatchReports(work)
  <2>1. b \in Seq(Report)
    BY <1>2, BatchType
  <2> HIDE DEF b
  <2>2. Len(b) \in Nat /\ IsPrefix(b, b) /\ Len(b) + 1 .. Len(b) = {}
    BY <2>1 DEF IsPrefix
  <2>3. u.reports = b
    BY <1>3 DEF b
  <2> QED BY <2>2, <2>3 DEF HasBatch, b
<1>9. HasBatch(main)'
  BY <1>1, <1>4, <1>8 DEF HasBatch
<1>10. Arrived'
  BY <1>1, <1>9 DEF Arrived
<1> QED BY <1>1, <1>2, <1>3, <1>4, <1>5, <1>6, <1>7, <1>10 DEF StoreInductive

\* The main thread goes on; the stores stay, but for what SameAccount allows.
LEMMA MainGoesOn ==
  ASSUME StoreInductive, stage \in {"sequential", "done"}, stage' \in {"sequential", "done", "failed"},
         turn' \in turn .. Len(Sequential) + 1, UNCHANGED <<future, work>>,
         NEW s, main' = s, Whole(s, Tasks), HasBatch(s), Accounted(admitted', work, s),
         \A d \in admitted' : d \in Departments /\ future[d] = "package"
                              /\ \A i \in turn' .. Len(Sequential) : Sequential[i] # d
  PROVE  StoreInductive'
<1>1. StoreTypeOK /\ BatchWhole(work) /\ s \in Stores
  BY DEF StoreInductive, Whole
<1>2. StoreTypeOK'
  <2>1. turn \in 1 .. Len(Sequential) + 1 /\ Len(Sequential) \in Nat
    BY <1>1, Places DEF StoreTypeOK
  <2>2. turn' \in 1 .. Len(Sequential) + 1
    BY <2>1
  <2> QED BY <1>1, <2>2 DEF StoreTypeOK
<1>3. Gone'
  BY DEF Gone
<1>4. HasBatch(main)'
  BY DEF HasBatch
<1>5. Arrived'
  BY <1>4 DEF Arrived
<1> QED BY <1>1, <1>2, <1>3, <1>5 DEF StoreInductive

\* What the main thread finds after the merge.
LEMMA RoundIs ==
  ASSUME StoreInductive, stage \in {"sequential", "done"}
  PROVE  /\ turn \in 1 .. Len(Sequential) + 1 /\ Len(Sequential) \in Nat
         /\ Whole(main, Tasks) /\ HasBatch(main) /\ Accounted(admitted, work, main)
         /\ \A d \in admitted : d \in Departments /\ future[d] = "package"
                                /\ \A i \in turn .. Len(Sequential) : Sequential[i] # d
BY Places DEF StoreInductive, StoreTypeOK, Gone, Arrived

LEMMA FollowInductive ==
  ASSUME StoreInductive, Follow
  PROVE  StoreInductive'
<1> DEFINE d == Sequential[turn]
<1>1. stage = "sequential" /\ turn <= Len(Sequential) /\ UNCHANGED <<future, work>>
  BY DEF Follow
<1>2. /\ turn \in 1 .. Len(Sequential) /\ Len(Sequential) \in Nat
      /\ Whole(main, Tasks) /\ HasBatch(main) /\ Accounted(admitted, work, main)
      /\ \A e \in admitted : e \in Departments /\ future[e] = "package"
                             /\ \A i \in turn .. Len(Sequential) : Sequential[i] # e
  <2>1. turn \in 1 .. Len(Sequential) + 1
    BY <1>1, RoundIs
  <2> QED BY <1>1, <2>1, RoundIs
<1>3. d \in Departments /\ d \notin admitted
  BY <1>2, Places
<1>4. CASE /\ future[d] = "package" /\ main' = Applied(main, d)
           /\ admitted' = admitted \cup {d} /\ turn' = turn + 1 /\ UNCHANGED stage
  <2> DEFINE u == Applied(main, d)
  <2>1. /\ Whole(u, Tasks) /\ u.reports = main.reports
        /\ Accounted(admitted \cup {d}, work, u)
    BY <1>3, AppliedAccount
  <2>2. HasBatch(u)
    BY <1>2, <2>1, SameBatch
  <2>3. turn' \in turn .. Len(Sequential) + 1 /\ stage' = "sequential"
    BY <1>1, <1>2, <1>4
  <2>4. ASSUME NEW e \in admitted'
        PROVE  e \in Departments /\ future[e] = "package"
               /\ \A i \in turn' .. Len(Sequential) : Sequential[i] # e
    <3>1. \A i \in turn' .. Len(Sequential) :
            i \in turn .. Len(Sequential) /\ i \in 1 .. Len(Sequential) /\ i # turn
      BY <1>2, <1>4
    <3>2. CASE e \in admitted
      BY <1>2, <3>1, <3>2
    <3>3. CASE e = d
      BY <1>2, <1>3, <1>4, <3>1, <3>3, Places
    <3> QED BY <1>4, <3>2, <3>3
  <2> HIDE DEF u
  <2>5. main' = u /\ Accounted(admitted', work, u)
    BY <1>4, <2>1 DEF u
  <2> QED BY <1>1, <2>1, <2>2, <2>3, <2>4, <2>5, MainGoesOn
<1>5. CASE stage' = "failed" /\ UNCHANGED <<main, admitted, turn>>
  BY <1>1, <1>2, <1>5, MainGoesOn
<1> QED BY <1>4, <1>5 DEF Follow

LEMMA SkipInductive ==
  ASSUME StoreInductive, Skip
  PROVE  StoreInductive'
<1>1. /\ stage = "sequential" /\ turn <= Len(Sequential) /\ turn' = turn + 1
      /\ UNCHANGED <<stage, future, admitted, work, main>>
  BY DEF Skip
<1>2. /\ turn \in 1 .. Len(Sequential) + 1 /\ Len(Sequential) \in Nat
      /\ Whole(main, Tasks) /\ HasBatch(main) /\ Accounted(admitted, work, main)
      /\ \A e \in admitted : e \in Departments /\ future[e] = "package"
                             /\ \A i \in turn .. Len(Sequential) : Sequential[i] # e
  BY <1>1, RoundIs
<1>3. turn' \in turn .. Len(Sequential) + 1
  BY <1>1, <1>2
<1>4. \A i \in turn' .. Len(Sequential) : i \in turn .. Len(Sequential)
  BY <1>1, <1>2
<1> QED BY <1>1, <1>2, <1>3, <1>4, MainGoesOn

LEMMA CloseInductive ==
  ASSUME StoreInductive, Close
  PROVE  StoreInductive'
<1>1. stage = "sequential" /\ stage' = "done" /\ UNCHANGED <<turn, future, admitted, work, main>>
  BY DEF Close
<1>2. /\ turn \in 1 .. Len(Sequential) + 1 /\ Len(Sequential) \in Nat
      /\ Whole(main, Tasks) /\ HasBatch(main) /\ Accounted(admitted, work, main)
      /\ \A e \in admitted : e \in Departments /\ future[e] = "package"
                             /\ \A i \in turn .. Len(Sequential) : Sequential[i] # e
  BY <1>1, RoundIs
<1>3. turn' \in turn .. Len(Sequential) + 1
  BY <1>1, <1>2
<1> QED BY <1>1, <1>2, <1>3, MainGoesOn

LEMMA ReloadInductive ==
  ASSUME StoreInductive, Reload
  PROVE  StoreInductive' /\ Exported(main') = Exported(main)
<1> DEFINE u == FromSnapshot(Exported(main))
<1>1. stage = "done" /\ main' = u /\ UNCHANGED <<stage, turn, future, admitted, work>>
  BY DEF Reload
<1>2. /\ turn \in 1 .. Len(Sequential) + 1 /\ Len(Sequential) \in Nat
      /\ Whole(main, Tasks) /\ HasBatch(main) /\ Accounted(admitted, work, main)
      /\ \A e \in admitted : e \in Departments /\ future[e] = "package"
                             /\ \A i \in turn .. Len(Sequential) : Sequential[i] # e
  BY <1>1, RoundIs
<1>3. /\ Whole(u, Tasks) /\ u.outputs = main.outputs /\ u.reports = main.reports
      /\ u.packets = main.packets /\ Exported(u) = Exported(main)
  BY <1>2, ReloadedWhole
<1>4. HasBatch(u) /\ Accounted(admitted, work, u)
  BY <1>2, <1>3, SameBatch, SameAccount
<1>5. turn' \in turn .. Len(Sequential) + 1
  BY <1>1, <1>2
<1> HIDE DEF u
<1>6. StoreInductive'
  BY <1>1, <1>2, <1>3, <1>4, <1>5, MainGoesOn
<1> QED BY <1>1, <1>3, <1>6

\* Every step preserves StoreInductive.
LEMMA StoreNextInductive == StoreInductive /\ [StoreNext]_storeVars => StoreInductive'
<1> SUFFICES ASSUME StoreInductive, [StoreNext]_storeVars PROVE StoreInductive'
  OBVIOUS
<1>1. ASSUME NEW d \in Departments, NEW t \in TasksOf[d], Research(d, t) \/ Review(d, t)
      PROVE  StoreInductive'
  BY <1>1, ResearchInductive, ReviewInductive
<1>2. ASSUME NEW d \in Departments, HandIn(d) \/ Abort(d) \/ Complete(d) PROVE StoreInductive'
  BY <1>2, HandInInductive, AbortInductive, CompleteInductive
<1>3. CASE Merge \/ Follow \/ Skip \/ Close \/ Reload
  BY <1>3, MergeInductive, FollowInductive, SkipInductive, CloseInductive, ReloadInductive
<1>4. CASE UNCHANGED storeVars
  <2>1. UNCHANGED <<stage, turn, future, admitted, work, main>>
    BY <1>4 DEF storeVars
  <2>2. StoreTypeOK' /\ Gone' /\ Arrived'
    BY <2>1 DEF StoreInductive, StoreTypeOK, Gone, Arrived, HasBatch
  <2> QED BY <2>1, <2>2 DEF StoreInductive
<1> QED BY <1>1, <1>2, <1>3, <1>4 DEF StoreNext

\* StoreInductive is as strong as the invariant that the run checks.
LEMMA InductiveWhole == StoreInductive => StoreIsWhole
<1> SUFFICES ASSUME StoreInductive PROVE StoreIsWhole
  OBVIOUS
<1>1. /\ StoreTypeOK /\ BatchWhole(work) /\ Whole(main, Tasks) /\ Gone
      /\ Accounted(admitted, work, main) /\ Arrived
  BY DEF StoreInductive
<1>2. BatchIsAtomic
  BY <1>1 DEF BatchIsAtomic, Arrived, Whole
<1>3. \A r \in Report : r \in ToSet(main.reports) <=> r[2] <= main.outputs[r[1]]
  BY <1>1 DEF Whole
<1>4. \A d \in admitted : d \in Departments
  BY <1>1 DEF StoreTypeOK
<1>5. ASSUME NEW r \in Report
      PROVE  Cardinality({d \in admitted : r \in Packaged(Store(d), d)})
               = IF Account(r, admitted, work, main) THEN 1 ELSE 0
  <2> DEFINE S == {d \in admitted : r \in Packaged(Store(d), d)}
  <2>1. ASSUME NEW d \in admitted
        PROVE  r \in Packaged(Store(d), d)
                 <=> /\ r[1] \in TasksOf[d]
                     /\ r[2] = (IF d \in ToSet(Parallel) THEN work[d] ELSE main).outputs[r[1]]
    <3> DEFINE own == IF d \in ToSet(Parallel) THEN work[d] ELSE main
    <3>1. Store(d) = own /\ \E D : Whole(own, D)
      BY <1>4, StoreIs
    <3> HIDE DEF own
    <3>2. r \in Packaged(Store(d), d) <=> r[1] \in TasksOf[d] /\ r[2] = own.outputs[r[1]]
      BY <3>1, PackagedIs
    <3> QED BY <3>2 DEF own
  <2>2. CASE Account(r, admitted, work, main)
    <3>1. PICK d \in admitted : r \in Packaged(Store(d), d)
      BY <2>1, <2>2 DEF Account
    <3>2. \A e \in admitted : e # d => TasksOf[e] \cap TasksOf[d] = {}
      BY <1>4, BatchAssumption
    <3>3. S = {d}
      BY <2>1, <3>1, <3>2
    <3>4. Cardinality({d}) = 1
      BY FS_Singleton
    <3> QED BY <2>2, <3>3, <3>4
  <2>3. CASE ~ Account(r, admitted, work, main)
    <3>1. S = {}
      BY <2>1, <2>3 DEF Account
    <3>2. Cardinality({}) = 0
      BY FS_EmptySet
    <3> QED BY <2>3, <3>1, <3>2
  <2> QED BY <2>2, <2>3
<1>6. EvidenceIsAccounted
  <2>1. ASSUME NEW r \in Report
        PROVE  main.packets[r] = (IF r \in ToSet(main.reports) THEN 1 ELSE 0)
                                 + Cardinality({d \in admitted : r \in Packaged(Store(d), d)})
    BY <1>1, <1>3, <1>5 DEF Accounted
  <2>2. ASSUME stage = "parallel", NEW r \in Report, main.packets[r] > 0
        PROVE  \E d \in admitted : r \in ToSet(work[d].reports)
    <3>1. admitted \subseteq ToSet(Parallel) /\ Whole(main, {}) /\ r[1] \in Tasks /\ r[2] \in Nat /\ r[2] >= 1
      BY <1>1, <2>2, Reports DEF Gone
    <3>2. main.outputs[r[1]] = 0
      BY <3>1 DEF Whole
    <3>3. Account(r, admitted, work, main)
      BY <1>1, <2>2, <3>1, <3>2 DEF Accounted
    <3>4. PICK d \in admitted : r[1] \in TasksOf[d] /\ r[2] = work[d].outputs[r[1]]
      BY <3>1, <3>3 DEF Account
    <3>5. Whole(work[d], TasksOf[d])
      BY <1>1, <3>1 DEF BatchWhole
    <3>6. r \in ToSet(work[d].reports)
      BY <3>1, <3>4, <3>5 DEF Whole
    <3> QED BY <3>6
  <2> QED BY <2>1, <2>2 DEF EvidenceIsAccounted
<1>7. StoriesAgree
  BY <1>1 DEF StoriesAgree, Whole
<1> QED BY <1>1, <1>2, <1>6, <1>7 DEF StoreIsWhole

\* The variables of the store model have their types, in every round.
THEOREM StoreTypeCorrect == StoreSpec => []StoreTypeOK
<1>1. StoreInductive => StoreTypeOK
  BY DEF StoreInductive
<1> QED BY <1>1, InitInductive, StoreNextInductive, PTL DEF StoreSpec

\* The main store is whole in every round, whatever the threads of the batch do and in
\* whichever order their packages are reviewed (create_working_set, delta_from, merge_from).
THEOREM StoreWhole == StoreSpec => []StoreIsWhole
BY InitInductive, StoreNextInductive, InductiveWhole, PTL DEF StoreSpec

\* No export and no reading of it changes what the next export says (snapshot,
\* from_snapshot).
THEOREM ExportsStable == StoreSpec => ExportsAreStable
<1>1. ASSUME StoreInductive, [StoreNext]_storeVars, stage = "done"
      PROVE  Exported(main') = Exported(main)
  <2>1. CASE UNCHANGED storeVars
    BY <2>1 DEF storeVars
  <2>2. CASE Reload
    BY <1>1, <2>2, ReloadInductive
  <2>3. ASSUME NEW d \in Departments PROVE ~ Running(d) /\ ~ Complete(d)
    BY <1>1 DEF Running, Complete
  <2>4. ~ Merge /\ ~ Follow /\ ~ Skip /\ ~ Close
    BY <1>1 DEF Merge, Follow, Skip, Close
  <2> QED BY <1>1, <2>1, <2>2, <2>3, <2>4 DEF StoreNext, Research, Review, HandIn, Abort
<1>2. StoreInductive /\ [StoreNext]_storeVars
        => [stage = "done" => Exported(main') = Exported(main)]_storeVars
  BY <1>1
<1> QED BY <1>2, InitInductive, StoreNextInductive, PTL DEF StoreSpec, ExportsAreStable
=============================================================================
