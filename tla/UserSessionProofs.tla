------------------------- MODULE UserSessionProofs -------------------------
(***************************************************************************)
(* What a session may rely on, for any number of sessions, runs, clicks and  *)
(* abandoned scripts.  Three arguments are needed: an artifact carries the   *)
(* id that a thread took (Genuine), a page keeps its queue only while it     *)
(* waits, unless a script was abandoned (PageHolds), and whoever appends an  *)
(* answer holds the lock and the newest history (Kept).                      *)
(***************************************************************************)
EXTENDS UserSession, FiniteSetTheorems, TLAPS

Took(n, i) == \E k \in DOMAIN launched[n] : launched[n][k] = i

\* Some thread made it, under an id it took.
Genuine(a) == a \in Artifact /\ Took(a.by, a.run)

\* What the thread of a run has, and leaves in the queue.
ThreadHolds(n) ==
  /\ thread[n].stage \in {"unborn", "queued"} => queue[n] = None
  /\ thread[n].stage = "unborn" =>
       launched[n] = <<>> /\ \A s \in Sessions : page[s].queue # n
  /\ thread[n].stage \in {"working", "data"} =>
       thread[n].id \in Ids /\ Took(n, thread[n].id)
  /\ thread[n].stage = "data" =>
       /\ thread[n].artifact \in Artifact
       /\ thread[n].artifact.by = n /\ thread[n].artifact.run = thread[n].id
  /\ queue[n] # None /\ queue[n].kind = "result" =>
       Genuine(queue[n].artifact) /\ queue[n].artifact.run = queue[n].run

StoreHolds(i) ==
  /\ data[i] # None => Genuine(data[i]) /\ data[i].run = i
  /\ context[i] # None => Genuine(context[i]) /\ context[i].run = i

\* What a slow call of a script knows; the page waits for it unchanged.
CallHolds(s) ==
  script[s] # None =>
    /\ script[s].call = "load" =>
         /\ Genuine(script[s].data) /\ script[s].data.run = script[s].run
         /\ ~ page[s].running
    /\ script[s].call \in {"resume", "export"} =>
         context[script[s].run] # None /\ page[s].run = script[s].run
    /\ script[s].call = "export" =>
         Genuine(script[s].data) /\ script[s].data.run = script[s].run
    /\ script[s].call \in {"answer", "append"} =>
         /\ script[s].answer \in Answer
         /\ script[s].answer.run = script[s].run
         /\ script[s].answer.number <= clicks

PageHolds(s) ==
  /\ page[s].data # None => Genuine(page[s].data)
  /\ page[s].context # None => Genuine(page[s].context)
  /\ \A r \in Sessions : page[s].queue # 0 /\ page[s].queue = page[r].queue => s = r
  \* A queue that was kept too long is the first abandoned script, its thread
  \* started again the second.
  /\ page[s].queue # 0 =>
       /\ page[s].running => \/ page[s].started \/ abandoned[s] > 1
                             \/ launched[page[s].queue] = <<>>
       /\ ~ page[s].running => abandoned[s] > 0
  /\ abandoned[s] = 0 =>
       /\ page[s].queue # 0 => ~ page[s].done /\ page[s].run = 0
       /\ Live(s) => page[s].queue # 0
       /\ page[s].done /\ page[s].run # 0 =>
            /\ page[s].data # None /\ page[s].data.run = page[s].run
            /\ page[s].context # None /\ page[s].context.run = page[s].run
            /\ page[s].status = page[s].context.status

Sound ==
  /\ TypeOK
  /\ \A n \in Runs : ThreadHolds(n)
  /\ \A i \in Ids : StoreHolds(i)
  /\ \A s \in Sessions : CallHolds(s)
  /\ \A s \in Sessions : PageHolds(s)

Asking(s) == script[s] # None /\ script[s].call \in {"answer", "append"}
Appending(s) == script[s] # None /\ script[s].call = "append"

\* With files: the lock is held by the one session that appends, which has the
\* newest history; an answer has its place in it, the next one is not in it.
Kept ==
  /\ \A i \in Ids, s \in Sessions :
       lock[i] = s <=> Appending(s) /\ script[s].run = i
  /\ \A s \in Sessions : Appending(s) => script[s].history = history[script[s].run]
  /\ \A s \in Sessions : Asking(s) => script[s].answer \notin answered
  /\ \A s, r \in Sessions :
       Asking(s) /\ Asking(r) /\ script[s].answer = script[r].answer => s = r
  /\ \A i \in Ids : \A k \in DOMAIN history[i] : history[i][k] \in answered
  /\ \A a \in answered :
       /\ a.number <= clicks
       /\ \E k \in DOMAIN history[a.run] :
            \A j \in DOMAIN history[a.run] : history[a.run][j] = a <=> j = k

-----------------------------------------------------------------------------
(* Values.                                                                  *)

LEMMA NoneIsNothing ==
  /\ None \notin Artifact /\ None \notin Script /\ None \notin Event
<1>1. DOMAIN None = {"none"}
  BY DEF None
<1>2. ASSUME None \in Artifact PROVE FALSE
  <2>1. "by" \in DOMAIN None
    BY <1>2 DEF Artifact
  <2> QED BY <1>1, <2>1
<1>3. ASSUME None \in Script PROVE FALSE
  <2>1. "call" \in DOMAIN None
    BY <1>3 DEF Script
  <2> QED BY <1>1, <2>1
<1>4. ASSUME None \in Event PROVE FALSE
  <2>1. "kind" \in DOMAIN None
    BY <1>4 DEF Event
  <2> QED BY <1>1, <2>1
<1> QED BY <1>2, <1>3, <1>4

\* A page of which some fields got their new values is a page.
LEMMA AssignedIsPage ==
  \A p, q \in Page : \A new, fields :
    (\A f \in fields \cap DOMAIN new : new[f] = q[f]) => Assigned(p, new, fields) \in Page
BY DEF Assigned, Page

\* Handlers assign all their fields, or the first of them.
LEMMA PerformFacts ==
  ASSUME NEW s, NEW new, NEW order, Perform(s, new, order)
  PROVE  \E fields :
           /\ page' = [page EXCEPT ![s] = Assigned(page[s], new, fields)]
           /\ \/ /\ fields = ToSet(order)
                 /\ UNCHANGED <<breaks, abandoned>>
              \/ /\ Break
                 /\ abandoned' = [abandoned EXCEPT ![s] = @ + 1]
                 /\ \E k \in 0 .. Len(order) - 1 : fields = {order[i] : i \in 1 .. k}
BY DEF Perform

LEMMA AssignedFields ==
  ASSUME NEW p \in Page, NEW new, NEW fields
  PROVE  /\ \A f \in DOMAIN p : Assigned(p, new, fields)[f] =
              IF f \in fields /\ f \in DOMAIN new THEN new[f] ELSE p[f]
         /\ DOMAIN p = {"running", "done", "started", "queue", "data", "context", "status", "run"}
BY DEF Assigned, Page

LEMMA GenuineStays == UNCHANGED launched => \A a : Genuine(a) => Genuine(a)'
BY DEF Genuine, Took

LEMMA TypesOf ==
  ASSUME TypeOK
  PROVE  /\ \A s \in Sessions : page[s] \in Page /\ abandoned[s] \in Nat
         /\ \A s \in Sessions : script[s] # None => script[s] \in Script
         /\ \A n \in Runs : queue[n] # None => queue[n] \in Event
         /\ \A i \in Ids : data[i] # None => data[i] \in Artifact
         /\ \A i \in Ids : context[i] # None => context[i] \in Artifact
BY DEF TypeOK

\* One page changes: the others keep what they have, if it did not get their queue.
LEMMA OtherPages ==
  ASSUME Sound, NEW s \in Sessions, NEW q \in Page, page' = [page EXCEPT ![s] = q],
         \A x \in Sessions \ {s} : abandoned'[x] = abandoned[x],
         \A a : Genuine(a) => Genuine(a)',
         \A x \in Sessions \ {s} : page[x].queue # 0 =>
           q.queue # page[x].queue /\ launched'[page[x].queue] = launched[page[x].queue]
  PROVE  \A x \in Sessions \ {s} : PageHolds(x)'
<1> SUFFICES ASSUME NEW x \in Sessions, x # s PROVE PageHolds(x)'
  OBVIOUS
<1>1. page'[x] = page[x] /\ page'[s] = q /\ abandoned'[x] = abandoned[x]
  BY DEF Sound, TypeOK
<1>2. PageHolds(x)
  BY DEF Sound
<1>3. \A r \in Sessions : page'[x].queue # 0 /\ page'[x].queue = page'[r].queue => x = r
  <2> SUFFICES ASSUME NEW r \in Sessions, page[x].queue # 0, page[x].queue = page'[r].queue
               PROVE  x = r
    BY <1>1
  <2>1. CASE r = s
    BY <1>1, <2>1
  <2>2. CASE r # s
    BY <1>2, <2>2 DEF PageHolds, Sound, TypeOK
  <2> QED BY <2>1, <2>2
<1>4. Live(x)' <=> Live(x)
  BY <1>1 DEF Live
<1> QED BY <1>1, <1>2, <1>3, <1>4 DEF PageHolds

\* The threads go on as they were; an event leaves its queue, a page drops its queue.
LEMMA ThreadsStay ==
  ASSUME Sound, UNCHANGED <<thread, launched>>,
         \A n \in Runs : queue'[n] = queue[n] \/ queue'[n] = None,
         \A x \in Sessions : page'[x].queue \in {0, page[x].queue}
  PROVE  \A n \in Runs : ThreadHolds(n)'
<1> SUFFICES ASSUME NEW n \in Runs PROVE ThreadHolds(n)'
  OBVIOUS
<1>1. ThreadHolds(n) /\ n # 0
  BY SessionAssumption DEF Sound
<1>2. \A a : Genuine(a) => Genuine(a)'
  BY GenuineStays
<1>3. Took(n, thread[n].id) => Took(n, thread[n].id)'
  BY DEF Took
<1> QED BY <1>1, <1>2, <1>3 DEF ThreadHolds

LEMMA StoresStay ==
  ASSUME Sound, UNCHANGED <<launched, data, context>>
  PROVE  \A i \in Ids : StoreHolds(i)'
BY GenuineStays DEF Sound, StoreHolds

\* A script that does not move keeps its call, if its page does not move either.
LEMMA CallStays ==
  ASSUME Sound, NEW x \in Sessions, UNCHANGED <<script[x], page[x]>>,
         \A a : Genuine(a) => Genuine(a)',
         \A i \in Ids : context[i] # None => context'[i] # None,
         clicks \in Nat, clicks' \in Nat, clicks <= clicks'
  PROVE  CallHolds(x)'
<1>1. CASE script[x] = None
  BY <1>1 DEF CallHolds
<1>2. CASE script[x] # None
  <2>1. CallHolds(x) /\ script[x] \in Script
    BY <1>2, TypesOf DEF Sound
  <2>2. script[x].run \in Ids
    BY <2>1 DEF Script
  <2>3. script[x].answer \in Answer => script[x].answer.number \in Nat
    BY DEF Answer
  <2> QED BY <1>2, <2>1, <2>2, <2>3 DEF CallHolds
<1> QED BY <1>1, <1>2

\* The event is taken off the queue; what is abandoned keeps the queue.
LEMMA DrainStep == ASSUME Sound, NEW s \in Sessions, Drain(s) PROVE Sound'
<1> DEFINE m == page[s].queue
           event == queue[m]
           new == Finished(event)
           order == <<"data", "context", "status", "run", "done", "running", "started",
                      "queue">>
<1>1. page[s] \in Page /\ m \in Runs /\ event \in Event /\ event = queue[page[s].queue]
  BY TypesOf DEF Drain, Sound, Page
<1>2. PICK fields :
        /\ page' = [page EXCEPT ![s] = Assigned(page[s], new, fields)]
        /\ \/ /\ fields = ToSet(order)
              /\ UNCHANGED <<breaks, abandoned>>
           \/ /\ Break
              /\ abandoned' = [abandoned EXCEPT ![s] = @ + 1]
              /\ \E k \in 0 .. Len(order) - 1 : fields = {order[i] : i \in 1 .. k}
  <2>1. Perform(s, new, order)
    BY DEF Drain
  <2> QED BY <2>1, PerformFacts
<1> DEFINE q == Assigned(page[s], new, fields)
<1>3. \/ /\ fields = {"data", "context", "status", "run", "done", "running", "started", "queue"}
         /\ UNCHANGED <<breaks, abandoned>>
      \/ /\ "queue" \notin fields /\ ("started" \in fields => "running" \in fields)
         /\ Break /\ abandoned' = [abandoned EXCEPT ![s] = @ + 1]
  <2>1. ToSet(order) = {"data", "context", "status", "run", "done", "running", "started", "queue"}
    BY DEF ToSet
  <2>2. ASSUME NEW k \in 0 .. Len(order) - 1
        PROVE  LET part == {order[i] : i \in 1 .. k}
               IN "queue" \notin part /\ ("started" \in part => "running" \in part)
    OBVIOUS
  <2> QED BY <1>2, <2>1, <2>2
<1>4. UNCHANGED <<script, thread, launched, clock, data, context, history, lock, clicks, answered>>
      /\ queue' = [queue EXCEPT ![m] = None] /\ script[s] = None
  BY DEF Drain, storeVars, Idle
<1> HIDE DEF m, event, order
<1>5. q \in Page
  <2>1. CASE event.kind = "result"
    <3> DEFINE full == [data |-> event.artifact, context |-> event.artifact,
                        status |-> event.artifact.status, run |-> event.run,
                        done |-> TRUE, running |-> FALSE, started |-> FALSE, queue |-> 0]
    <3>1. event.artifact \in Artifact /\ event.run \in Ids
      BY <1>1, <2>1 DEF Event
    <3>2. full \in Page
      BY <3>1 DEF Page, Artifact
    <3>3. new = full
      BY <2>1 DEF Finished
    <3> HIDE DEF full, new
    <3> QED BY <1>1, <3>2, <3>3, AssignedIsPage
  <2>2. CASE event.kind # "result"
    <3> DEFINE full == [data |-> page[s].data, context |-> page[s].context,
                        status |-> page[s].status, run |-> page[s].run,
                        done |-> TRUE, running |-> FALSE, started |-> FALSE, queue |-> 0]
    <3>2. full \in Page
      BY <1>1 DEF Page
    <3>3. new = [done |-> TRUE, running |-> FALSE, started |-> FALSE, queue |-> 0]
      BY <2>2 DEF Finished
    <3> HIDE DEF new
    <3>4. /\ DOMAIN new = {"done", "running", "started", "queue"}
          /\ new["done"] = TRUE /\ new["running"] = FALSE
          /\ new["started"] = FALSE /\ new["queue"] = 0
      BY <3>3
    <3>1. /\ full["done"] = TRUE /\ full["running"] = FALSE
          /\ full["started"] = FALSE /\ full["queue"] = 0
      OBVIOUS
    <3> HIDE DEF full
    <3>5. \A f \in fields \cap DOMAIN new : new[f] = full[f]
      <4> SUFFICES ASSUME NEW f \in {"done", "running", "started", "queue"} PROVE new[f] = full[f]
        BY <3>4
      <4>1. CASE f = "done"
        BY <3>1, <3>4, <4>1
      <4>2. CASE f = "running"
        BY <3>1, <3>4, <4>2
      <4>3. CASE f = "started"
        BY <3>1, <3>4, <4>3
      <4>4. CASE f = "queue"
        BY <3>1, <3>4, <4>4
      <4> QED BY <4>1, <4>2, <4>3, <4>4
    <3> QED BY <1>1, <3>2, <3>5, AssignedIsPage
  <2> QED BY <2>1, <2>2
<1> DEFINE p == page[s]
<1>6. /\ new.queue = 0 /\ new.running = FALSE /\ new.started = FALSE /\ new.done = TRUE
      /\ {"queue", "running", "started", "done"} \subseteq DOMAIN new
      /\ event.kind = "result" =>
           /\ {"data", "context", "status", "run"} \subseteq DOMAIN new
           /\ new.data = event.artifact /\ new.context = event.artifact
           /\ new.status = event.artifact.status /\ new.run = event.run
      /\ event.kind # "result" => {"data", "context", "status", "run"} \cap DOMAIN new = {}
  BY DEF Finished
<1>7. /\ q.running = IF "running" \in fields THEN FALSE ELSE p.running
      /\ q.done = IF "done" \in fields THEN TRUE ELSE p.done
      /\ q.started = IF "started" \in fields THEN FALSE ELSE p.started
      /\ q.queue = IF "queue" \in fields THEN 0 ELSE p.queue
      /\ q.data = IF "data" \in fields /\ event.kind = "result" THEN event.artifact ELSE p.data
      /\ q.context = IF "context" \in fields /\ event.kind = "result"
                     THEN event.artifact ELSE p.context
      /\ q.status = IF "status" \in fields /\ event.kind = "result"
                    THEN event.artifact.status ELSE p.status
      /\ q.run = IF "run" \in fields /\ event.kind = "result" THEN event.run ELSE p.run
  <2> HIDE DEF new
  <2>1. /\ q.running = IF "running" \in fields /\ "running" \in DOMAIN new
                         THEN new.running ELSE p.running
        /\ q.done = IF "done" \in fields /\ "done" \in DOMAIN new THEN new.done ELSE p.done
        /\ q.started = IF "started" \in fields /\ "started" \in DOMAIN new
                         THEN new.started ELSE p.started
        /\ q.queue = IF "queue" \in fields /\ "queue" \in DOMAIN new
                       THEN new.queue ELSE p.queue
        /\ q.data = IF "data" \in fields /\ "data" \in DOMAIN new THEN new.data ELSE p.data
        /\ q.context = IF "context" \in fields /\ "context" \in DOMAIN new
                         THEN new.context ELSE p.context
        /\ q.status = IF "status" \in fields /\ "status" \in DOMAIN new
                        THEN new.status ELSE p.status
        /\ q.run = IF "run" \in fields /\ "run" \in DOMAIN new THEN new.run ELSE p.run
    BY <1>1, AssignedFields
  <2> HIDE DEF q
  <2>2. /\ "running" \in DOMAIN new /\ "done" \in DOMAIN new
        /\ "started" \in DOMAIN new /\ "queue" \in DOMAIN new
    BY <1>6
  <2>3. CASE event.kind = "result"
    <3>1. /\ "data" \in DOMAIN new /\ "context" \in DOMAIN new
          /\ "status" \in DOMAIN new /\ "run" \in DOMAIN new
      BY <1>6, <2>3
    <3> QED BY <1>6, <2>1, <2>2, <2>3, <3>1
  <2>4. CASE event.kind # "result"
    <3>1. /\ "data" \notin DOMAIN new /\ "context" \notin DOMAIN new
          /\ "status" \notin DOMAIN new /\ "run" \notin DOMAIN new
      BY <1>6, <2>4
    <3> QED BY <1>6, <2>1, <2>2, <2>4, <3>1
  <2> QED BY <2>3, <2>4
<1> HIDE DEF q, new
<1>8. page'[s] = q /\ \A x \in Sessions : x # s => page'[x] = page[x]
  BY <1>2 DEF q, Sound, TypeOK
<1>9. TypeOK'
  <2>1. queue' \in [Runs -> Event \cup {None}]
    BY <1>4 DEF Sound, TypeOK
  <2>2. page' \in [Sessions -> Page]
    BY <1>2, <1>5 DEF q, Sound, TypeOK
  <2>3. breaks' \in 0 .. MaxBreaks
    BY <1>3, SessionAssumption DEF Sound, TypeOK, Break
  <2>4. abandoned' \in [Sessions -> Nat]
    BY <1>3 DEF Sound, TypeOK
  <2> QED BY <1>4, <2>1, <2>2, <2>3, <2>4 DEF Sound, TypeOK
<1>10. \A n \in Runs : ThreadHolds(n)'
  <2>1. \A x \in Sessions : page'[x].queue \in {0, page[x].queue}
    BY <1>7, <1>8
  <2>2. \A n \in Runs : queue'[n] = queue[n] \/ queue'[n] = None
    BY <1>4 DEF Sound, TypeOK
  <2> QED BY <1>4, <2>1, <2>2, ThreadsStay
<1>11. \A i \in Ids : StoreHolds(i)'
  BY <1>4, StoresStay
<1>12. \A x \in Sessions : CallHolds(x)'
  <2>1. \A a : Genuine(a) => Genuine(a)'
    BY <1>4, GenuineStays
  <2>2. clicks \in Nat
    BY SessionAssumption DEF Sound, TypeOK
  <2>3. ASSUME NEW x \in Sessions, x # s PROVE CallHolds(x)'
    BY <1>4, <1>8, <2>1, <2>2, <2>3, CallStays
  <2>4. CallHolds(s)'
    BY <1>4 DEF CallHolds
  <2> QED BY <2>3, <2>4
<1>13. PageHolds(s)'
  <2>1. PageHolds(s) /\ ThreadHolds(m) /\ abandoned[s] \in Nat
    BY <1>1, TypesOf DEF Sound
  <2>2. event # None
    BY <1>1 DEF Drain
  <2>3. event.kind = "result" =>
          Genuine(event.artifact) /\ event.artifact.run = event.run /\ event.artifact # None
    BY <2>1, <2>2, NoneIsNothing DEF ThreadHolds, event, Genuine
  <2>4. \A a : Genuine(a) => Genuine(a)'
    BY <1>4, GenuineStays
  <2>5. \A r \in Sessions : page'[s].queue # 0 /\ page'[s].queue = page'[r].queue => s = r
    BY <1>7, <1>8, <2>1 DEF PageHolds
  <2>6. m # 0 /\ m = p.queue
    BY SessionAssumption, <1>1 DEF m
  <2>7. CASE UNCHANGED abandoned /\
             fields = {"data", "context", "status", "run", "done", "running", "started", "queue"}
    <3>1. /\ q.running = FALSE /\ q.done = TRUE /\ q.queue = 0
      BY <1>7, <2>7
    <3>2. CASE event.kind = "result"
      <4>1. /\ q.data = event.artifact /\ q.context = event.artifact
            /\ q.status = event.artifact.status /\ q.run = event.run
        BY <1>7, <2>7, <3>2
      <4> QED BY <1>8, <2>3, <2>4, <3>1, <3>2, <4>1 DEF PageHolds, Live
    <3>3. CASE event.kind # "result"
      <4>1. q.data = p.data /\ q.context = p.context /\ q.run = p.run
        BY <1>7, <3>3
      <4>2. abandoned[s] = 0 => p.run = 0
        BY <2>1, <2>6 DEF PageHolds
      <4> QED BY <1>8, <2>1, <2>4, <2>7, <3>1, <4>1, <4>2 DEF PageHolds, Live
    <3> QED BY <3>2, <3>3
  <2>8. CASE "queue" \notin fields /\ ("started" \in fields => "running" \in fields)
             /\ abandoned' = [abandoned EXCEPT ![s] = @ + 1]
    <3>1. abandoned'[s] = abandoned[s] + 1 /\ abandoned'[s] > 0
      BY <2>1, <2>8 DEF Sound, TypeOK
    <3>2. p.running = TRUE => q.running = FALSE \/ q.started = p.started
      BY <1>7, <2>8
    <3>3. (page[s].data # None => Genuine(page[s].data))'
          /\ (page[s].context # None => Genuine(page[s].context))'
      <4>1. /\ q.data = p.data \/ (event.kind = "result" /\ q.data = event.artifact)
            /\ q.context = p.context \/ (event.kind = "result" /\ q.context = event.artifact)
        BY <1>7
      <4> QED BY <1>8, <2>1, <2>3, <2>4, <4>1 DEF PageHolds
    <3>4. q.queue = m /\ launched' = launched
      BY <1>4, <1>7, <2>6, <2>8
    <3>5. q.running => q.started \/ abandoned'[s] > 1 \/ launched'[q.queue] = <<>>
      <4>1. q.running => p.running /\ q.started = p.started
        BY <1>7, <3>2
      <4> QED BY <2>1, <2>6, <3>1, <3>4, <4>1 DEF PageHolds
    <3>6. abandoned'[s] # 0
      BY <2>1, <3>1
    <3> QED BY <1>8, <2>5, <3>1, <3>3, <3>5, <3>6 DEF PageHolds
  <2> QED BY <1>3, <2>7, <2>8
<1>14. \A x \in Sessions : PageHolds(x)'
  <2>1. \A x \in Sessions \ {s} : abandoned'[x] = abandoned[x]
    BY <1>3 DEF Sound, TypeOK
  <2>2. \A x \in Sessions \ {s} : page[x].queue # 0 =>
           q.queue # page[x].queue /\ launched'[page[x].queue] = launched[page[x].queue]
    <3>1. \A x \in Sessions : PageHolds(x)
      BY DEF Sound
    <3> QED BY <1>4, <1>7, <3>1 DEF PageHolds
  <2>3. page' = [page EXCEPT ![s] = q]
    BY <1>2 DEF q
  <2>4. \A a : Genuine(a) => Genuine(a)'
    BY <1>4, GenuineStays
  <2> QED BY <1>5, <1>13, <2>1, <2>2, <2>3, <2>4, OtherPages
<1> QED BY <1>9, <1>10, <1>11, <1>12, <1>14 DEF Sound

\* A thread takes an id more: what its run had is still of its run.
LEMMA BornFacts ==
  ASSUME TypeOK, NEW n \in Runs, Born(n)
  PROVE  /\ clock' \in Ids /\ launched' = [launched EXCEPT ![n] = Append(launched[n], clock')]
         /\ launched' \in [Runs -> Seq(Ids)]
         /\ \A m \in Runs : \A i : Took(m, i) => Took(m, i)'
         /\ Took(n, clock)'
         /\ \A a : Genuine(a) => Genuine(a)'
<1>1. clock' \in Ids /\ launched' = [launched EXCEPT ![n] = Append(launched[n], clock')]
  BY DEF Born
<1>2. launched[n] \in Seq(Ids) /\ DOMAIN launched[n] = 1 .. Len(launched[n])
  BY DEF TypeOK
<1>3. /\ launched'[n] = Append(launched[n], clock') /\ launched'[n] \in Seq(Ids)
      /\ \A m \in Runs \ {n} : launched'[m] = launched[m]
      /\ launched' \in [Runs -> Seq(Ids)]
  BY <1>1, <1>2 DEF TypeOK
<1>4. Took(n, clock)'
  <2>1. launched'[n][Len(launched[n]) + 1] = clock' /\ Len(launched[n]) + 1 \in DOMAIN launched'[n]
    BY <1>1, <1>2, <1>3
  <2> QED BY <2>1 DEF Took
<1>5. ASSUME NEW m \in Runs, NEW i, Took(m, i) PROVE Took(m, i)'
  <2>1. CASE m = n
    <3>1. PICK k \in 1 .. Len(launched[n]) : launched[n][k] = i
      BY <1>2, <1>5, <2>1 DEF Took
    <3>2. k \in DOMAIN launched'[n] /\ launched'[n][k] = i
      BY <1>1, <1>2, <1>3, <3>1
    <3> QED BY <2>1, <3>2 DEF Took
  <2>2. CASE m # n
    BY <1>3, <1>5, <2>2 DEF Took
  <2> QED BY <2>1, <2>2
<1>6. \A a : Genuine(a) => Genuine(a)'
  BY <1>5 DEF Genuine, Artifact
<1> QED BY <1>1, <1>3, <1>4, <1>5, <1>6

LEMMA LaunchStep == ASSUME Sound, NEW s \in Sessions, Launch(s) PROVE Sound'
<1>0. PICK n \in Runs : n = page[s].queue
  BY TypesOf DEF Launch, Sound, Page
<1> DEFINE q == [page[s] EXCEPT !.started = TRUE]
<1>1. /\ page[s] \in Page /\ n # 0 /\ script[s] = None /\ TypeOK
      /\ page[s].running /\ ~ page[s].done
  BY TypesOf, SessionAssumption DEF Launch, Idle, Live, Sound, Page
<1>2. Born(n)
  BY <1>0 DEF Launch
<1>3. /\ page' = [page EXCEPT ![s] = q]
      /\ UNCHANGED <<script, breaks, abandoned, queue, data, context, history, lock, clicks, answered>>
  BY DEF Launch, storeVars
<1>4. q \in Page /\ q.started = TRUE /\ q.queue = page[s].queue /\ q.running = page[s].running
      /\ q.done = page[s].done /\ q.data = page[s].data /\ q.context = page[s].context
      /\ q.status = page[s].status /\ q.run = page[s].run
  BY <1>1 DEF Page
<1>5. /\ clock' \in Ids /\ launched' \in [Runs -> Seq(Ids)]
      /\ \A m \in Runs : \A i : Took(m, i) => Took(m, i)'
      /\ Took(n, clock)'
      /\ \A a : Genuine(a) => Genuine(a)'
      /\ \A m \in Runs \ {n} : launched'[m] = launched[m]
  <2>1. launched' = [launched EXCEPT ![n] = Append(launched[n], clock')]
    BY <1>1, <1>2, BornFacts
  <2>2. /\ clock' \in Ids /\ launched' \in [Runs -> Seq(Ids)]
        /\ \A m \in Runs : \A i : Took(m, i) => Took(m, i)'
        /\ Took(n, clock)'
        /\ \A a : Genuine(a) => Genuine(a)'
    BY <1>1, <1>2, BornFacts
  <2>3. \A m \in Runs \ {n} : launched'[m] = launched[m]
    BY <1>1, <2>1 DEF TypeOK
  <2> QED BY <2>2, <2>3
<1>6. /\ thread' \in [Runs -> [stage : Stage, id : Ids \cup {0}, artifact : Artifact \cup {None}]]
      /\ thread'[n].stage = "working" /\ thread'[n].id = clock'
      /\ \A m \in Runs \ {n} : thread'[m] = thread[m]
  <2>1. thread' = [thread EXCEPT ![n].stage = "working", ![n].id = clock']
    BY <1>2 DEF Born
  <2> DEFINE t == [thread[n] EXCEPT !.stage = "working", !.id = clock']
  <2>2. thread' = [thread EXCEPT ![n] = t]
    BY <2>1
  <2>3. thread[n] \in [stage : Stage, id : Ids \cup {0}, artifact : Artifact \cup {None}]
    BY <1>1 DEF TypeOK
  <2>4. /\ t \in [stage : Stage, id : Ids \cup {0}, artifact : Artifact \cup {None}]
        /\ t.stage = "working" /\ t.id = clock'
    BY <1>5, <2>3 DEF Stage
  <2> HIDE DEF t
  <2> QED BY <1>1, <2>2, <2>4 DEF TypeOK
<1> HIDE DEF q
<1>7. page'[s] = q /\ \A x \in Sessions \ {s} : page'[x] = page[x]
  BY <1>3 DEF Sound, TypeOK
<1>8. TypeOK'
  <2>1. page' \in [Sessions -> Page]
    BY <1>3, <1>4 DEF Sound, TypeOK
  <2> QED BY <1>3, <1>5, <1>6, <2>1 DEF Sound, TypeOK
<1>9. \A m \in Runs : ThreadHolds(m)'
  <2> SUFFICES ASSUME NEW m \in Runs PROVE ThreadHolds(m)'
    OBVIOUS
  <2>1. ThreadHolds(m) /\ \A x \in Sessions : page'[x].queue = page[x].queue
    BY <1>4, <1>7 DEF Sound
  <2>2. CASE m = n
    <3>1. Took(m, thread[m].id)'
      BY <1>5, <1>6, <2>2 DEF Took
    <3>2. queue'[m] # None /\ queue'[m].kind = "result" =>
            (Genuine(queue[m].artifact) /\ queue[m].artifact.run = queue[m].run)'
      BY <1>3, <1>5, <2>1 DEF ThreadHolds
    <3> QED BY <1>5, <1>6, <2>2, <3>1, <3>2 DEF ThreadHolds
  <2>3. CASE m # n
    <3>1. Took(m, thread[m].id) => Took(m, thread[m].id)'
      BY <1>5, <1>6, <2>3
    <3> QED BY <1>3, <1>5, <1>6, <2>1, <2>3, <3>1 DEF ThreadHolds
  <2> QED BY <2>2, <2>3
<1>10. \A i \in Ids : StoreHolds(i)'
  BY <1>3, <1>5 DEF Sound, StoreHolds
<1>11. \A x \in Sessions : CallHolds(x)'
  <2>1. clicks \in Nat
    BY SessionAssumption DEF Sound, TypeOK
  <2>2. ASSUME NEW x \in Sessions, x # s PROVE CallHolds(x)'
    BY <1>3, <1>5, <1>7, <2>1, <2>2, CallStays
  <2>3. CallHolds(s)'
    BY <1>1, <1>3 DEF CallHolds
  <2> QED BY <2>2, <2>3
<1>12. PageHolds(s)
  BY DEF Sound
<1>13. PageHolds(s)'
  <2>1. \A r \in Sessions : page'[s].queue # 0 /\ page'[s].queue = page'[r].queue => s = r
    BY <1>4, <1>7, <1>12 DEF PageHolds
  <2> QED BY <1>1, <1>3, <1>4, <1>5, <1>7, <1>12, <2>1 DEF PageHolds, Live
<1>14. \A x \in Sessions \ {s} : page[x].queue # 0 =>
         q.queue # page[x].queue /\ launched'[page[x].queue] = launched[page[x].queue]
  <2> SUFFICES ASSUME NEW x \in Sessions \ {s}, page[x].queue # 0
               PROVE  q.queue # page[x].queue /\ launched'[page[x].queue] = launched[page[x].queue]
    OBVIOUS
  <2>1. page[x].queue \in Runs
    BY TypesOf DEF Sound, Page
  <2>2. page[x].queue # n
    BY <1>0, <1>12 DEF PageHolds
  <2> QED BY <1>4, <1>5, <2>1, <2>2, <1>0
<1>15. \A x \in Sessions : PageHolds(x)'
  BY <1>3, <1>4, <1>5, <1>13, <1>14, OtherPages
<1> QED BY <1>8, <1>9, <1>10, <1>11, <1>15 DEF Sound

\* A whole page of new values, or some of them.
LEMMA AssignedWhole ==
  ASSUME NEW p \in Page, NEW new \in Page, NEW fields
  PROVE  LET q == Assigned(p, new, fields)
         IN /\ q \in Page
            /\ q.running = IF "running" \in fields THEN new.running ELSE p.running
            /\ q.done = IF "done" \in fields THEN new.done ELSE p.done
            /\ q.started = IF "started" \in fields THEN new.started ELSE p.started
            /\ q.queue = IF "queue" \in fields THEN new.queue ELSE p.queue
            /\ q.data = IF "data" \in fields THEN new.data ELSE p.data
            /\ q.context = IF "context" \in fields THEN new.context ELSE p.context
            /\ q.status = IF "status" \in fields THEN new.status ELSE p.status
            /\ q.run = IF "run" \in fields THEN new.run ELSE p.run
<1> DEFINE q == Assigned(p, new, fields)
<1>1. q \in Page
  BY AssignedIsPage
<1>2. DOMAIN new = {"running", "done", "started", "queue", "data", "context", "status", "run"}
  BY DEF Page
<1>3. \A f \in DOMAIN new : q[f] = IF f \in fields THEN new[f] ELSE p[f]
  BY <1>2, AssignedFields
<1> HIDE DEF q
<1>4. /\ q["running"] = IF "running" \in fields THEN new["running"] ELSE p["running"]
      /\ q["done"] = IF "done" \in fields THEN new["done"] ELSE p["done"]
      /\ q["started"] = IF "started" \in fields THEN new["started"] ELSE p["started"]
      /\ q["queue"] = IF "queue" \in fields THEN new["queue"] ELSE p["queue"]
      /\ q["data"] = IF "data" \in fields THEN new["data"] ELSE p["data"]
      /\ q["context"] = IF "context" \in fields THEN new["context"] ELSE p["context"]
      /\ q["status"] = IF "status" \in fields THEN new["status"] ELSE p["status"]
      /\ q["run"] = IF "run" \in fields THEN new["run"] ELSE p["run"]
  BY <1>2, <1>3
<1> QED BY <1>1, <1>4 DEF q

\* The page counts the scripts that were abandoned.
LEMMA PerformCounts ==
  ASSUME TypeOK, NEW s \in Sessions,
         \/ UNCHANGED <<breaks, abandoned>>
         \/ Break /\ abandoned' = [abandoned EXCEPT ![s] = @ + 1]
  PROVE  /\ breaks' \in 0 .. MaxBreaks /\ abandoned' \in [Sessions -> Nat]
         /\ \A x \in Sessions \ {s} : abandoned'[x] = abandoned[x]
<1>1. breaks' \in 0 .. MaxBreaks
  BY SessionAssumption DEF TypeOK, Break
<1>2. abandoned \in [Sessions -> Nat]
  BY DEF TypeOK
<1>3. abandoned' = abandoned \/ abandoned' = [abandoned EXCEPT ![s] = abandoned[s] + 1]
  OBVIOUS
<1>4. abandoned' \in [Sessions -> Nat] /\ \A x \in Sessions \ {s} : abandoned'[x] = abandoned[x]
  BY <1>2, <1>3
<1> QED BY <1>1, <1>4

\* A run begins with a queue that no page and no thread has.
LEMMA StartStep == ASSUME Sound, NEW s \in Sessions, Start(s) PROVE Sound'
<1> DEFINE order == <<"running", "done", "started", "data", "context", "status", "run", "queue">>
<1>1. PICK n \in Runs :
        /\ thread[n].stage = "unborn"
        /\ thread' = [thread EXCEPT ![n].stage = "queued"]
        /\ Perform(s, [NewPage EXCEPT !.running = TRUE, !.queue = n], order)
  BY DEF Start
<1> DEFINE new == [NewPage EXCEPT !.running = TRUE, !.queue = n]
<1>2. PICK fields :
        /\ page' = [page EXCEPT ![s] = Assigned(page[s], new, fields)]
        /\ \/ /\ fields = ToSet(order)
              /\ UNCHANGED <<breaks, abandoned>>
           \/ /\ Break
              /\ abandoned' = [abandoned EXCEPT ![s] = @ + 1]
              /\ \E k \in 0 .. Len(order) - 1 : fields = {order[i] : i \in 1 .. k}
  <2> HIDE DEF new, order
  <2> QED BY <1>1, PerformFacts DEF new, order
<1> DEFINE p == page[s]
           q == Assigned(p, new, fields)
<1>3. \/ /\ fields = {"data", "context", "status", "run", "done", "running", "started", "queue"}
         /\ UNCHANGED <<breaks, abandoned>>
      \/ /\ "queue" \notin fields
         /\ Break /\ abandoned' = [abandoned EXCEPT ![s] = @ + 1]
  <2>1. ToSet(order) = {"data", "context", "status", "run", "done", "running", "started", "queue"}
    BY DEF ToSet
  <2>2. ASSUME NEW k \in 0 .. Len(order) - 1
        PROVE  "queue" \notin {order[i] : i \in 1 .. k}
    OBVIOUS
  <2> QED BY <1>2, <2>1, <2>2
<1> HIDE DEF order
<1>4. /\ UNCHANGED <<script, queue, launched, clock, data, context, history, lock, answered>>
      /\ clicks' = clicks + 1 /\ clicks < MaxClicks /\ script[s] = None /\ ~ p.running
  BY DEF Start, storeVars, Idle, Click
<1>5. p \in Page /\ n # 0 /\ TypeOK
  BY TypesOf, SessionAssumption DEF Sound
<1>6. /\ new \in Page
      /\ new.running = TRUE /\ new.done = FALSE /\ new.started = FALSE /\ new.queue = n
      /\ new.data = None /\ new.context = None /\ new.status = "none" /\ new.run = 0
  BY DEF Page, NewPage
<1> HIDE DEF new
<1>7. /\ q \in Page
      /\ q.running = IF "running" \in fields THEN new.running ELSE p.running
      /\ q.done = IF "done" \in fields THEN new.done ELSE p.done
      /\ q.started = IF "started" \in fields THEN new.started ELSE p.started
      /\ q.queue = IF "queue" \in fields THEN new.queue ELSE p.queue
      /\ q.data = IF "data" \in fields THEN new.data ELSE p.data
      /\ q.context = IF "context" \in fields THEN new.context ELSE p.context
      /\ q.status = IF "status" \in fields THEN new.status ELSE p.status
      /\ q.run = IF "run" \in fields THEN new.run ELSE p.run
  BY <1>5, <1>6, AssignedWhole
<1> HIDE DEF q
<1>8. page'[s] = q /\ \A x \in Sessions : x # s => page'[x] = page[x]
  BY <1>2 DEF q, Sound, TypeOK
<1>9. /\ thread' \in [Runs -> [stage : Stage, id : Ids \cup {0}, artifact : Artifact \cup {None}]]
      /\ thread'[n].stage = "queued" /\ \A m \in Runs \ {n} : thread'[m] = thread[m]
  BY <1>1, <1>5 DEF TypeOK, Stage
<1>10. TypeOK'
  <2>1. page' \in [Sessions -> Page]
    BY <1>2, <1>7 DEF q, Sound, TypeOK
  <2>2. breaks' \in 0 .. MaxBreaks /\ abandoned' \in [Sessions -> Nat]
    BY <1>3, <1>5, PerformCounts
  <2>3. clicks' \in 0 .. MaxClicks
    BY <1>4, <1>5, SessionAssumption DEF TypeOK
  <2> QED BY <1>4, <1>9, <2>1, <2>2, <2>3 DEF Sound, TypeOK
<1>11. \A a : Genuine(a) => Genuine(a)'
  BY <1>4, GenuineStays
<1>12. launched[n] = <<>> /\ queue[n] = None /\ \A x \in Sessions : page[x].queue # n
  BY <1>1 DEF Sound, ThreadHolds
<1>13. \A m \in Runs : ThreadHolds(m)'
  <2> SUFFICES ASSUME NEW m \in Runs PROVE ThreadHolds(m)'
    OBVIOUS
  <2>1. CASE m = n
    BY <1>4, <1>9, <1>12, <2>1 DEF ThreadHolds
  <2>2. CASE m # n
    <3>1. ThreadHolds(m) /\ thread'[m] = thread[m] /\ (Took(m, thread[m].id) => Took(m, thread[m].id)')
      BY <1>4, <1>9, <2>2 DEF Sound, Took
    <3>2. \A x \in Sessions : page'[x].queue \in {page[x].queue, n}
      BY <1>6, <1>7, <1>8
    <3> QED BY <1>4, <1>11, <2>2, <3>1, <3>2 DEF ThreadHolds
  <2> QED BY <2>1, <2>2
<1>14. \A i \in Ids : StoreHolds(i)'
  BY <1>4, StoresStay
<1>15. \A x \in Sessions : CallHolds(x)'
  <2>1. clicks \in Nat /\ clicks' \in Nat /\ clicks <= clicks'
    BY <1>4, SessionAssumption DEF Sound, TypeOK
  <2>2. ASSUME NEW x \in Sessions, x # s PROVE CallHolds(x)'
    BY <1>4, <1>8, <1>11, <2>1, <2>2, CallStays
  <2>3. CallHolds(s)'
    BY <1>4 DEF CallHolds
  <2> QED BY <2>2, <2>3
<1>16. PageHolds(s)'
  <2>1. PageHolds(s) /\ abandoned[s] \in Nat
    BY TypesOf DEF Sound
  <2>2. \A r \in Sessions : page'[s].queue # 0 /\ page'[s].queue = page'[r].queue => s = r
    BY <1>6, <1>7, <1>8, <1>12, <2>1 DEF PageHolds
  <2>3. (page[s].data # None => Genuine(page[s].data))'
        /\ (page[s].context # None => Genuine(page[s].context))'
    BY <1>6, <1>7, <1>8, <1>11, <2>1 DEF PageHolds
  <2>4. CASE UNCHANGED abandoned /\
             fields = {"data", "context", "status", "run", "done", "running", "started", "queue"}
    <3>1. q.running = TRUE /\ q.done = FALSE /\ q.started = FALSE /\ q.queue = n /\ q.run = 0
      BY <1>6, <1>7, <2>4
    <3>2. launched'[n] = <<>>
      BY <1>4, <1>12
    <3> QED BY <1>5, <1>8, <2>2, <2>3, <3>1, <3>2 DEF PageHolds, Live
  <2>5. CASE "queue" \notin fields /\ abandoned' = [abandoned EXCEPT ![s] = @ + 1]
    <3>1. abandoned'[s] = abandoned[s] + 1 /\ abandoned'[s] > 0
      BY <2>1, <2>5 DEF Sound, TypeOK
    <3>2. q.queue = p.queue /\ (p.queue # 0 => abandoned'[s] > 1)
      BY <1>4, <1>7, <2>1, <2>5, <3>1 DEF PageHolds
    <3>3. abandoned'[s] # 0
      BY <2>1, <3>1
    <3> QED BY <1>8, <2>2, <2>3, <3>1, <3>2, <3>3 DEF PageHolds
  <2> QED BY <1>3, <2>4, <2>5
<1>17. \A x \in Sessions : PageHolds(x)'
  <2>1. \A x \in Sessions \ {s} : abandoned'[x] = abandoned[x]
    BY <1>3, <1>5, PerformCounts
  <2>2. \A x \in Sessions \ {s} : page[x].queue # 0 =>
           q.queue # page[x].queue /\ launched'[page[x].queue] = launched[page[x].queue]
    <3>1. PageHolds(s)
      BY DEF Sound
    <3> QED BY <1>4, <1>6, <1>7, <1>12, <3>1 DEF PageHolds
  <2>3. page' = [page EXCEPT ![s] = q]
    BY <1>2 DEF q
  <2> QED BY <1>7, <1>11, <1>16, <2>1, <2>2, <2>3, OtherPages
<1> QED BY <1>10, <1>13, <1>14, <1>15, <1>17 DEF Sound

\* The page is as new; the thread it waited for goes on.
LEMMA ReloadStep == ASSUME Sound, NEW s \in Sessions, Reload(s) PROVE Sound'
<1>1. /\ page' = [page EXCEPT ![s] = NewPage] /\ abandoned' = [abandoned EXCEPT ![s] = 0]
      /\ UNCHANGED <<script, thread, queue, launched, clock, data, context, history, lock, clicks,
                     answered>>
      /\ Break /\ script[s] = None /\ TypeOK
  BY DEF Reload, runVars, storeVars, Idle, Sound
<1>2. NewPage \in Page /\ NewPage.queue = 0 /\ NewPage.data = None /\ NewPage.context = None
      /\ NewPage.running = FALSE /\ NewPage.run = 0
  BY DEF NewPage, Page
<1>3. page'[s] = NewPage /\ \A x \in Sessions : x # s => page'[x] = page[x]
  BY <1>1 DEF TypeOK
<1>4. TypeOK'
  <2>1. page' \in [Sessions -> Page]
    BY <1>1, <1>2 DEF TypeOK
  <2>2. breaks' \in 0 .. MaxBreaks
    BY <1>1, SessionAssumption DEF TypeOK, Break
  <2>3. abandoned' \in [Sessions -> Nat]
    BY <1>1 DEF TypeOK
  <2> QED BY <1>1, <2>1, <2>2, <2>3 DEF TypeOK
<1>5. \A n \in Runs : ThreadHolds(n)'
  BY <1>1, <1>2, <1>3, ThreadsStay
<1>6. \A i \in Ids : StoreHolds(i)'
  BY <1>1, StoresStay
<1>7. \A a : Genuine(a) => Genuine(a)'
  BY <1>1, GenuineStays
<1>8. \A x \in Sessions : CallHolds(x)'
  <2>1. clicks \in Nat
    BY <1>1, SessionAssumption DEF TypeOK
  <2>2. ASSUME NEW x \in Sessions, x # s PROVE CallHolds(x)'
    BY <1>1, <1>3, <1>7, <2>1, <2>2, CallStays
  <2>3. CallHolds(s)'
    BY <1>1 DEF CallHolds
  <2> QED BY <2>2, <2>3
<1>9. PageHolds(s)'
  BY <1>2, <1>3 DEF PageHolds, Live
<1>10. \A x \in Sessions : PageHolds(x)'
  <2>1. \A x \in Sessions \ {s} : abandoned'[x] = abandoned[x]
    BY <1>1 DEF TypeOK
  <2> QED BY <1>1, <1>2, <1>7, <1>9, <2>1, OtherPages
<1> QED BY <1>4, <1>5, <1>6, <1>8, <1>10 DEF Sound

\* A step that leaves the pages alone.
LEMMA PagesStay ==
  ASSUME Sound, UNCHANGED <<page, abandoned, launched>>
  PROVE  \A x \in Sessions : PageHolds(x)'
<1> SUFFICES ASSUME NEW x \in Sessions PROVE PageHolds(x)'
  OBVIOUS
<1>1. PageHolds(x) /\ (Live(x)' <=> Live(x))
  BY DEF Sound, Live
<1>2. \A a : Genuine(a) => Genuine(a)'
  BY GenuineStays
<1> QED BY <1>1, <1>2 DEF PageHolds

\* What a thread does: its own stage, artifact and queue, and the store of its id.
LEMMA WorkStep ==
  ASSUME Sound, NEW n \in Runs, NEW t,
         t \in [stage : Stage, id : Ids \cup {0}, artifact : Artifact \cup {None}],
         thread' = [thread EXCEPT ![n] = t],
         NEW e \in Event \cup {None}, queue' = [queue EXCEPT ![n] = e],
         thread[n].stage \in {"working", "data"}, t.stage \in {"data", "over"},
         t.stage = "data" => /\ t.id \in Ids /\ Took(n, t.id) /\ t.artifact \in Artifact
                             /\ t.artifact.by = n /\ t.artifact.run = t.id,
         e # None /\ e.kind = "result" => Genuine(e.artifact) /\ e.artifact.run = e.run,
         data' \in [Ids -> Artifact \cup {None}], context' \in [Ids -> Artifact \cup {None}],
         \A i \in Ids : data'[i] = data[i] \/ (Genuine(data'[i]) /\ data'[i].run = i),
         \A i \in Ids : context'[i] = context[i] \/ (Genuine(context'[i]) /\ context'[i].run = i),
         UNCHANGED <<page, breaks, abandoned, script, launched, clock, history, lock, clicks,
                     answered>>
  PROVE  Sound'
<1>1. TypeOK'
  BY DEF Sound, TypeOK
<1>2. \A a : Genuine(a) <=> Genuine(a)'
  BY DEF Genuine, Took
<1>3. \A m \in Runs : ThreadHolds(m)'
  <2> SUFFICES ASSUME NEW m \in Runs PROVE ThreadHolds(m)'
    OBVIOUS
  <2>1. ThreadHolds(m)
    BY DEF Sound
  <2>2. CASE m = n
    <3>1. thread'[m] = t /\ queue'[m] = e
      BY <2>2 DEF Sound, TypeOK
    <3>2. Took(n, t.id) => Took(m, thread[m].id)'
      BY <2>2, <3>1 DEF Took
    <3>3. t.stage \notin {"unborn", "queued", "working"}
      OBVIOUS
    <3> QED BY <1>2, <2>2, <3>1, <3>2, <3>3 DEF ThreadHolds
  <2>3. CASE m # n
    <3>1. thread'[m] = thread[m] /\ queue'[m] = queue[m]
      BY <2>3 DEF Sound, TypeOK
    <3>2. Took(m, thread[m].id) => Took(m, thread[m].id)'
      BY <3>1 DEF Took
    <3> QED BY <1>2, <2>1, <3>1, <3>2 DEF ThreadHolds
  <2> QED BY <2>2, <2>3
<1>4. \A i \in Ids : StoreHolds(i)'
  BY <1>2 DEF Sound, StoreHolds
<1>5. \A x \in Sessions : CallHolds(x)'
  <2>1. clicks \in Nat
    BY SessionAssumption DEF Sound, TypeOK
  <2>2. \A i \in Ids : context[i] # None => context'[i] # None
    BY NoneIsNothing DEF Genuine
  <2> QED BY <1>2, <2>1, <2>2, CallStays
<1>6. \A x \in Sessions : PageHolds(x)'
  BY PagesStay
<1> QED BY <1>1, <1>3, <1>4, <1>5, <1>6 DEF Sound

LEMMA ExportDataStep == ASSUME Sound, NEW n \in Runs, ExportData(n) PROVE Sound'
<1>1. PICK status \in Resolved \cup {Paused} :
        LET a == [by |-> n, run |-> thread[n].id, export |-> "run", status |-> status]
        IN /\ thread' = [thread EXCEPT ![n].stage = "data", ![n].artifact = a]
           /\ data' = [data EXCEPT ![thread[n].id] = a]
  BY DEF ExportData
<1> DEFINE a == [by |-> n, run |-> thread[n].id, export |-> "run", status |-> status]
           t == [thread[n] EXCEPT !.stage = "data", !.artifact = a]
<1>2. /\ thread[n] \in [stage : Stage, id : Ids \cup {0}, artifact : Artifact \cup {None}]
      /\ thread[n].stage = "working" /\ thread[n].id \in Ids /\ Took(n, thread[n].id)
      /\ queue[n] \in Event \cup {None} /\ ThreadHolds(n) /\ TypeOK
  BY DEF Sound, TypeOK, ThreadHolds, ExportData
<1>3. a \in Artifact /\ a.by = n /\ a.run = thread[n].id /\ Genuine(a)
  BY <1>2 DEF Artifact, Genuine
<1>4. UNCHANGED <<page, breaks, abandoned, script, queue, launched, clock, context, history, lock,
                  clicks, answered>>
  BY DEF ExportData, pageVars
<1>5. data' = [data EXCEPT ![thread[n].id] = a] /\ data' \in [Ids -> Artifact \cup {None}]
  BY <1>1, <1>2, <1>3 DEF TypeOK
<1>6. \A i \in Ids : data'[i] = data[i] \/ (data'[i] = a /\ thread[n].id = i)
  <2> HIDE DEF a
  <2> QED BY <1>2, <1>5 DEF TypeOK
<1> HIDE DEF a
<1>7. thread' = [thread EXCEPT ![n] = t]
  BY <1>1 DEF a
<1>8. /\ t \in [stage : Stage, id : Ids \cup {0}, artifact : Artifact \cup {None}]
      /\ t.stage = "data" /\ t.id = thread[n].id /\ t.artifact = a
  BY <1>2, <1>3 DEF Stage
<1> HIDE DEF t
<1>9. \A i \in Ids : data'[i] = data[i] \/ (Genuine(data'[i]) /\ data'[i].run = i)
  BY <1>3, <1>6
<1>10. queue' = [queue EXCEPT ![n] = queue[n]]
  BY <1>2, <1>4 DEF TypeOK
<1>11. queue[n] # None /\ queue[n].kind = "result" =>
         Genuine(queue[n].artifact) /\ queue[n].artifact.run = queue[n].run
  BY <1>2 DEF ThreadHolds
<1>12. context' \in [Ids -> Artifact \cup {None}] /\ \A i \in Ids : context'[i] = context[i]
  BY <1>2, <1>4 DEF TypeOK
<1>13. /\ t.id \in Ids /\ Took(n, t.id) /\ t.artifact \in Artifact
       /\ t.artifact.by = n /\ t.artifact.run = t.id
  BY <1>2, <1>3, <1>8
<1>14. thread[n].stage \in {"working", "data"} /\ t.stage \in {"data", "over"}
  BY <1>2, <1>8
<1>15. queue[n] \in Event \cup {None} /\ data' \in [Ids -> Artifact \cup {None}]
  BY <1>2, <1>5
<1> QED BY <1>4, <1>7, <1>8, <1>9, <1>10, <1>11, <1>12, <1>13, <1>14, <1>15, WorkStep

\* A thread that is done leaves an event in its queue.
LEMMA OverStep ==
  ASSUME Sound, NEW n \in Runs, thread[n].stage \in {"working", "data"}, Stand(n, "over"),
         NEW e \in Event, queue' = [queue EXCEPT ![n] = e],
         e.kind = "result" => Genuine(e.artifact) /\ e.artifact.run = e.run,
         context' \in [Ids -> Artifact \cup {None}],
         \A i \in Ids : context'[i] = context[i] \/ (Genuine(context'[i]) /\ context'[i].run = i),
         UNCHANGED <<page, breaks, abandoned, script, launched, clock, data, history, lock, clicks,
                     answered>>
  PROVE  Sound'
<1> DEFINE t == [thread[n] EXCEPT !.stage = "over"]
<1>1. thread' = [thread EXCEPT ![n] = t]
  BY DEF Stand
<1>2. /\ t \in [stage : Stage, id : Ids \cup {0}, artifact : Artifact \cup {None}]
      /\ t.stage = "over"
  BY DEF Sound, TypeOK, Stage
<1> HIDE DEF t
<1>3. data' \in [Ids -> Artifact \cup {None}] /\ \A i \in Ids : data'[i] = data[i]
  BY DEF Sound, TypeOK
<1> QED BY <1>1, <1>2, <1>3, WorkStep

LEMMA ResultIsEvent ==
  \A i \in Ids, a \in Artifact :
    LET e == [kind |-> "result", run |-> i, artifact |-> a]
    IN e \in Event /\ e.kind = "result" /\ e.run = i /\ e.artifact = a
BY DEF Event

LEMMA ExportContextStep == ASSUME Sound, NEW n \in Runs, ExportContext(n) PROVE Sound'
<1> DEFINE a == thread[n].artifact
           i == thread[n].id
           e == [kind |-> "result", run |-> i, artifact |-> a]
<1>1. ThreadHolds(n) /\ thread[n].stage = "data" /\ TypeOK
  BY DEF Sound, ExportContext
<1>2. i \in Ids /\ a \in Artifact /\ a.by = n /\ a.run = i /\ Genuine(a)
  BY <1>1 DEF ThreadHolds, Genuine
<1>3. /\ context' = [context EXCEPT ![i] = a] /\ queue' = [queue EXCEPT ![n] = e]
      /\ Stand(n, "over")
      /\ UNCHANGED <<page, breaks, abandoned, script, launched, clock, data, history, lock, clicks,
                     answered>>
  BY DEF ExportContext, Posted, pageVars
<1>4. e \in Event /\ e.kind = "result" /\ e.run = i /\ e.artifact = a
  BY <1>2, ResultIsEvent
<1> HIDE DEF a, i, e
<1>5. context' \in [Ids -> Artifact \cup {None}]
  BY <1>1, <1>2, <1>3 DEF TypeOK
<1>6. \A j \in Ids : context'[j] = context[j] \/ (Genuine(context'[j]) /\ context'[j].run = j)
  BY <1>1, <1>2, <1>3 DEF TypeOK
<1> QED BY <1>1, <1>2, <1>3, <1>4, <1>5, <1>6, OverStep

LEMMA RefuseStep == ASSUME Sound, NEW n \in Runs, Refuse(n) PROVE Sound'
<1> DEFINE i == thread[n].id
           a == [by |-> n, run |-> i, export |-> "run", status |-> "failed"]
           e == [kind |-> "result", run |-> i, artifact |-> a]
<1>1. ThreadHolds(n) /\ thread[n].stage = "working" /\ TypeOK
  BY DEF Sound, Refuse
<1>2. i \in Ids /\ a \in Artifact /\ a.by = n /\ a.run = i /\ Genuine(a)
  BY <1>1 DEF ThreadHolds, Genuine, Artifact
<1>3. /\ queue' = [queue EXCEPT ![n] = e] /\ Stand(n, "over")
      /\ UNCHANGED <<page, breaks, abandoned, script, launched, clock, data, context, history,
                     lock, clicks, answered>>
  BY DEF Refuse, Posted, pageVars, storeVars
<1> HIDE DEF a
<1>4. e \in Event /\ e.kind = "result" /\ e.run = i /\ e.artifact = a
  BY <1>2, ResultIsEvent
<1> HIDE DEF i, e
<1>5. context' \in [Ids -> Artifact \cup {None}] /\ \A j \in Ids : context'[j] = context[j]
  BY <1>1, <1>3 DEF TypeOK
<1> QED BY <1>1, <1>2, <1>3, <1>4, <1>5, OverStep

LEMMA RaiseStep == ASSUME Sound, NEW n \in Runs, Raise(n) PROVE Sound'
<1> DEFINE e == [kind |-> "error"]
<1>1. e \in Event /\ e.kind # "result"
  BY DEF Event
<1>2. /\ queue' = [queue EXCEPT ![n] = e] /\ Stand(n, "over")
      /\ thread[n].stage \in {"working", "data"}
      /\ UNCHANGED <<page, breaks, abandoned, script, launched, clock, data, context, history,
                     lock, clicks, answered>>
  BY DEF Raise, pageVars, storeVars
<1> HIDE DEF e
<1>3. context' \in [Ids -> Artifact \cup {None}] /\ \A j \in Ids : context'[j] = context[j]
  BY <1>2 DEF Sound, TypeOK
<1> QED BY <1>1, <1>2, <1>3, OverStep

\* A step of one script, with what it does to the store; pages and threads wait.
LEMMA ScriptStep ==
  ASSUME Sound, NEW s \in Sessions, NEW c \in Script \cup {None},
         script' = [script EXCEPT ![s] = c], CallHolds(s)',
         data' \in [Ids -> Artifact \cup {None}],
         \A i \in Ids : data'[i] = data[i] \/ (Genuine(data'[i]) /\ data'[i].run = i),
         history' \in [Ids -> Seq(Answer)], lock' \in [Ids -> Sessions \cup {"free"}],
         clicks' \in 0 .. MaxClicks, clicks <= clicks', answered' \subseteq Answer,
         UNCHANGED <<page, breaks, abandoned, thread, queue, launched, clock, context>>
  PROVE  Sound'
<1>1. TypeOK'
  BY DEF Sound, TypeOK
<1>2. \A a : Genuine(a) <=> Genuine(a)'
  BY DEF Genuine, Took
<1>3. \A n \in Runs : ThreadHolds(n)'
  <2>1. \A x \in Sessions : page'[x].queue \in {0, page[x].queue}
    OBVIOUS
  <2> QED BY <2>1, ThreadsStay
<1>4. \A i \in Ids : StoreHolds(i)'
  BY <1>2 DEF Sound, StoreHolds
<1>5. \A x \in Sessions : CallHolds(x)'
  <2>1. clicks \in Nat /\ clicks' \in Nat
    BY SessionAssumption DEF Sound, TypeOK
  <2>2. ASSUME NEW x \in Sessions, x # s PROVE CallHolds(x)'
    <3>1. script'[x] = script[x]
      BY <2>2 DEF Sound, TypeOK
    <3> QED BY <1>2, <2>1, <3>1, CallStays
  <2> QED BY <2>2
<1>6. \A x \in Sessions : PageHolds(x)'
  BY PagesStay
<1> QED BY <1>1, <1>3, <1>4, <1>5, <1>6 DEF Sound

\* A call that begins, from a page that waits for nothing else.
LEMMA BeginStep ==
  ASSUME Sound, NEW s \in Sessions, NEW c \in Script,
         script' = [script EXCEPT ![s] = c], CallHolds(s)', Click,
         UNCHANGED <<pageVars, runVars, storeVars, answered>>
  PROVE  Sound'
<1>1. /\ UNCHANGED <<page, breaks, abandoned, thread, queue, launched, clock, data, context,
                     history, lock, answered>>
      /\ TypeOK
  BY DEF pageVars, runVars, storeVars, Sound
<1>2. clicks' \in 0 .. MaxClicks /\ clicks <= clicks'
  BY <1>1, SessionAssumption DEF Click, TypeOK
<1>3. /\ data' \in [Ids -> Artifact \cup {None}] /\ history' \in [Ids -> Seq(Answer)]
      /\ lock' \in [Ids -> Sessions \cup {"free"}] /\ answered' \subseteq Answer
      /\ \A i \in Ids : data'[i] = data[i]
  BY <1>1 DEF TypeOK
<1> QED BY <1>1, <1>2, <1>3, ScriptStep

LEMMA LoadStep == ASSUME Sound, NEW s \in Sessions, Load(s) PROVE Sound'
<1>1. PICK i \in Ids :
        /\ data[i] # None
        /\ script' = [script EXCEPT ![s] = [call |-> "load", run |-> i, data |-> data[i],
                                            answer |-> None, history |-> <<>>]]
  BY DEF Load
<1> DEFINE c == [call |-> "load", run |-> i, data |-> data[i], answer |-> None, history |-> <<>>]
<1>2. /\ ~ page[s].running /\ Click /\ UNCHANGED <<pageVars, runVars, storeVars, answered>>
      /\ page' = page /\ data' = data /\ launched' = launched
  BY DEF Load, pageVars, runVars, storeVars
<1>3. data[i] \in Artifact /\ Genuine(data[i]) /\ data[i].run = i
  BY <1>1, TypesOf DEF Sound, StoreHolds
<1>4. c \in Script /\ c.call = "load" /\ c.run = i /\ c.data = data[i]
  BY <1>3 DEF Script
<1> HIDE DEF c
<1>5. script' = [script EXCEPT ![s] = c] /\ script'[s] = c
  BY <1>1 DEF c, Sound, TypeOK
<1>6. CallHolds(s)'
  <2>1. Genuine(script'[s].data) /\ \A a : Genuine(a) => Genuine(a)'
    BY <1>2, <1>3, <1>4, <1>5, GenuineStays
  <2>2. Genuine(script[s].data)'
    BY <2>1
  <2> QED BY <1>2, <1>3, <1>4, <1>5, <2>2 DEF CallHolds
<1> QED BY <1>2, <1>4, <1>5, <1>6, BeginStep

LEMMA AskStep == ASSUME Sound, NEW s \in Sessions, Ask(s) PROVE Sound'
<1>1. PICK i \in Ids :
        script' = [script EXCEPT ![s] =
                     [call |-> "answer", run |-> i, data |-> None,
                      answer |-> [run |-> i, number |-> clicks + 1], history |-> <<>>]]
  BY DEF Ask
<1> DEFINE a == [run |-> i, number |-> clicks + 1]
           c == [call |-> "answer", run |-> i, data |-> None, answer |-> a, history |-> <<>>]
<1>2. Click /\ UNCHANGED <<pageVars, runVars, storeVars, answered>>
  BY DEF Ask
<1>3. a \in Answer /\ a.run = i /\ a.number = clicks + 1 /\ clicks' = clicks + 1
      /\ clicks + 1 \in Nat
  BY <1>2, SessionAssumption DEF Answer, Click, Sound, TypeOK
<1> HIDE DEF a
<1>4. c \in Script /\ c.call = "answer" /\ c.run = i /\ c.answer = a
  BY <1>3 DEF Script
<1> HIDE DEF c
<1>5. script' = [script EXCEPT ![s] = c] /\ script'[s] = c
  BY <1>1 DEF a, c, Sound, TypeOK
<1>6. CallHolds(s)'
  BY <1>3, <1>4, <1>5 DEF CallHolds
<1> QED BY <1>2, <1>4, <1>5, <1>6, BeginStep

LEMMA ResumeStep == ASSUME Sound, NEW s \in Sessions, Resume(s) PROVE Sound'
<1> DEFINE c == [call |-> "resume", run |-> page[s].run, data |-> None, answer |-> None,
                 history |-> <<>>]
<1>1. /\ page[s].run # 0 /\ context[page[s].run] # None /\ Click
      /\ UNCHANGED <<pageVars, runVars, storeVars, answered>>
      /\ page' = page /\ context' = context
  BY DEF Resume, Shows, pageVars, storeVars
<1>2. script' = [script EXCEPT ![s] = c]
  BY DEF Resume, Call
<1>3. page[s].run \in Ids
  BY <1>1, TypesOf DEF Sound, Page
<1>4. c \in Script /\ c.call = "resume" /\ c.run = page[s].run
  BY <1>3 DEF Script
<1> HIDE DEF c
<1>5. script'[s] = c
  BY <1>2 DEF Sound, TypeOK
<1>6. CallHolds(s)'
  BY <1>1, <1>4, <1>5 DEF CallHolds
<1> QED BY <1>1, <1>2, <1>4, <1>6, BeginStep

LEMMA ReadHistoryStep == ASSUME Sound, NEW s \in Sessions, ReadHistory(s) PROVE Sound'
<1> DEFINE i == script[s].run
           c == [script[s] EXCEPT !.call = "append", !.history = history[i]]
<1>1. /\ script[s] # None /\ script[s].call = "answer" /\ TypeOK /\ CallHolds(s)
      /\ lock' = IF Production THEN lock ELSE [lock EXCEPT ![i] = s]
      /\ UNCHANGED <<page, breaks, abandoned, thread, queue, launched, clock, data, context,
                     history, clicks, answered>>
  BY DEF ReadHistory, Idle, Sound, pageVars, runVars
<1>2. script[s] \in Script /\ i \in Ids /\ history[i] \in Seq(Answer)
  BY <1>1, TypesOf DEF Script, TypeOK
<1>3. script' = [script EXCEPT ![s] = c]
  BY DEF ReadHistory
<1>4. c \in Script /\ c.call = "append" /\ c.answer = script[s].answer /\ c.run = i
  BY <1>2 DEF Script
<1> HIDE DEF c, i
<1>5. script'[s] = c
  BY <1>1, <1>3 DEF TypeOK
<1>6. CallHolds(s)'
  BY <1>1, <1>4, <1>5 DEF CallHolds, i
<1>7. lock' \in [Ids -> Sessions \cup {"free"}]
  BY <1>1, <1>2 DEF TypeOK
<1>8. /\ data' \in [Ids -> Artifact \cup {None}] /\ history' \in [Ids -> Seq(Answer)]
      /\ answered' \subseteq Answer /\ clicks' \in 0 .. MaxClicks /\ clicks <= clicks'
      /\ \A j \in Ids : data'[j] = data[j]
  BY <1>1, SessionAssumption DEF TypeOK
<1> QED BY <1>1, <1>3, <1>4, <1>6, <1>7, <1>8, ScriptStep

LEMMA AppendAnswerStep == ASSUME Sound, NEW s \in Sessions, AppendAnswer(s) PROVE Sound'
<1> DEFINE i == script[s].run
           a == script[s].answer
<1>1. /\ script[s] # None /\ script[s].call = "append" /\ TypeOK /\ CallHolds(s)
      /\ history' = [history EXCEPT ![i] = Append(script[s].history, a)]
      /\ answered' = answered \cup {a}
      /\ lock' = IF Production THEN lock ELSE [lock EXCEPT ![i] = "free"]
      /\ script' = [script EXCEPT ![s] = None]
      /\ UNCHANGED <<page, breaks, abandoned, thread, queue, launched, clock, data, context,
                     clicks>>
  BY DEF AppendAnswer, Return, Idle, Sound, pageVars, runVars
<1>2. script[s] \in Script /\ i \in Ids /\ script[s].history \in Seq(Answer) /\ a \in Answer
  BY <1>1, TypesOf DEF Script, CallHolds
<1> HIDE DEF i, a
<1>3. CallHolds(s)'
  BY <1>1 DEF CallHolds, TypeOK
<1>4. Append(script[s].history, a) \in Seq(Answer)
  BY <1>2
<1>5. history' \in [Ids -> Seq(Answer)]
  BY <1>1, <1>4 DEF TypeOK
<1>6. lock' \in [Ids -> Sessions \cup {"free"}]
  BY <1>1 DEF TypeOK
<1>7. /\ data' \in [Ids -> Artifact \cup {None}]
      /\ answered' \subseteq Answer /\ clicks' \in 0 .. MaxClicks /\ clicks <= clicks'
      /\ \A j \in Ids : data'[j] = data[j]
  BY <1>1, <1>2, SessionAssumption DEF TypeOK
<1> QED BY <1>1, <1>3, <1>5, <1>6, <1>7, ScriptStep

LEMMA ResumeDataStep == ASSUME Sound, NEW s \in Sessions, ResumeData(s) PROVE Sound'
<1> DEFINE i == script[s].run
<1>1. PICK status \in Resolved :
        LET a == [context[i] EXCEPT !.export = s, !.status = status]
        IN /\ data' = [data EXCEPT ![i] = a]
           /\ script' = [script EXCEPT ![s].call = "export", ![s].data = a]
  BY DEF ResumeData
<1> DEFINE a == [context[i] EXCEPT !.export = s, !.status = status]
           c == [script[s] EXCEPT !.call = "export", !.data = a]
<1>2. /\ script[s] # None /\ script[s].call = "resume" /\ TypeOK /\ CallHolds(s)
      /\ UNCHANGED <<page, breaks, abandoned, thread, queue, launched, clock, context, history,
                     lock, clicks, answered>>
  BY DEF ResumeData, Idle, Sound, pageVars, runVars
<1>3. script[s] \in Script /\ i \in Ids
  BY <1>2, TypesOf DEF Script
<1>4. context[i] \in Artifact /\ Genuine(context[i]) /\ context[i].run = i
      /\ page[s].run = i /\ context[i] # None
  BY <1>2, <1>3, TypesOf DEF CallHolds, Sound, StoreHolds
<1>5. a \in Artifact /\ a.by = context[i].by /\ a.run = i
  BY <1>4 DEF Artifact
<1>6. data' = [data EXCEPT ![i] = a] /\ script' = [script EXCEPT ![s] = c]
  BY <1>1
<1> HIDE DEF a
<1>7. Genuine(a)
  BY <1>4, <1>5 DEF Genuine
<1>8. c \in Script /\ c.call = "export" /\ c.data = a /\ c.run = i
  BY <1>3, <1>5 DEF Script
<1> HIDE DEF c, i
<1>9. script'[s] = c
  BY <1>2, <1>6 DEF TypeOK
<1>10. CallHolds(s)'
  <2>1. \A b : Genuine(b) => Genuine(b)'
    BY <1>2, GenuineStays
  <2>2. Genuine(script'[s].data)
    BY <1>7, <1>8, <1>9
  <2>3. Genuine(script[s].data)'
    BY <2>1, <2>2
  <2> QED BY <1>2, <1>4, <1>5, <1>8, <1>9, <2>3 DEF CallHolds
<1>11. /\ data' \in [Ids -> Artifact \cup {None}]
       /\ \A j \in Ids : data'[j] = data[j] \/ (Genuine(data'[j]) /\ data'[j].run = j)
  BY <1>2, <1>3, <1>5, <1>6, <1>7 DEF TypeOK
<1>12. /\ history' \in [Ids -> Seq(Answer)] /\ lock' \in [Ids -> Sessions \cup {"free"}]
       /\ answered' \subseteq Answer /\ clicks' \in 0 .. MaxClicks /\ clicks <= clicks'
  BY <1>2, SessionAssumption DEF TypeOK
<1> QED BY <1>2, <1>6, <1>8, <1>10, <1>11, <1>12, ScriptStep

\* A call returns and its page shows what it brought, or some of it.
LEMMA ReturnStep ==
  ASSUME Sound, NEW s \in Sessions, script' = [script EXCEPT ![s] = None],
         NEW q \in Page, page' = [page EXCEPT ![s] = q], q.queue \in {0, page[s].queue},
         PageHolds(s)',
         \/ UNCHANGED <<breaks, abandoned>>
         \/ Break /\ abandoned' = [abandoned EXCEPT ![s] = @ + 1],
         context' \in [Ids -> Artifact \cup {None}],
         \A i \in Ids : context'[i] = context[i] \/ (Genuine(context'[i]) /\ context'[i].run = i),
         UNCHANGED <<thread, queue, launched, clock, data, history, lock, clicks, answered>>
  PROVE  Sound'
<1>1. /\ TypeOK /\ page'[s] = q /\ script'[s] = None
      /\ \A x \in Sessions \ {s} : page'[x] = page[x] /\ script'[x] = script[x]
  BY DEF Sound, TypeOK
<1>2. /\ breaks' \in 0 .. MaxBreaks /\ abandoned' \in [Sessions -> Nat]
      /\ \A x \in Sessions \ {s} : abandoned'[x] = abandoned[x]
  BY <1>1, PerformCounts
<1>3. TypeOK'
  BY <1>1, <1>2 DEF TypeOK
<1>4. \A a : Genuine(a) <=> Genuine(a)'
  BY DEF Genuine, Took
<1>5. \A n \in Runs : ThreadHolds(n)'
  <2>1. \A x \in Sessions : page'[x].queue \in {0, page[x].queue}
    BY <1>1
  <2> QED BY <2>1, ThreadsStay
<1>6. \A i \in Ids : StoreHolds(i)'
  BY <1>4 DEF Sound, StoreHolds
<1>7. \A x \in Sessions : CallHolds(x)'
  <2>1. clicks \in Nat
    BY <1>1, SessionAssumption DEF TypeOK
  <2>2. \A i \in Ids : context[i] # None => context'[i] # None
    BY NoneIsNothing DEF Genuine
  <2>3. ASSUME NEW x \in Sessions, x # s PROVE CallHolds(x)'
    BY <1>1, <1>4, <2>1, <2>2, <2>3, CallStays
  <2>4. CallHolds(s)'
    BY <1>1 DEF CallHolds
  <2> QED BY <2>3, <2>4
<1>8. \A x \in Sessions : PageHolds(x)'
  <2>1. \A x \in Sessions \ {s} : page[x].queue # 0 =>
           q.queue # page[x].queue /\ launched'[page[x].queue] = launched[page[x].queue]
    <3>1. PageHolds(s)
      BY DEF Sound
    <3> QED BY <3>1 DEF PageHolds
  <2> QED BY <1>2, <1>4, <2>1, OtherPages
<1> QED BY <1>3, <1>5, <1>6, <1>7, <1>8 DEF Sound

\* What the page kept or got is of some thread.
LEMMA LoadedStep == ASSUME Sound, NEW s \in Sessions, Loaded(s) PROVE Sound'
<1> DEFINE call == script[s]
           p == page[s]
           new == Restored(call)
           order == <<"running", "done", "started", "data", "context", "run", "status", "queue">>
<1>1. /\ script[s] # None /\ script[s].call = "load" /\ TypeOK /\ CallHolds(s) /\ PageHolds(s)
      /\ script' = [script EXCEPT ![s] = None] /\ p \in Page
      /\ UNCHANGED <<thread, queue, launched, clock, data, context, history, lock, clicks, answered>>
  BY TypesOf DEF Loaded, Return, Idle, Sound, runVars, storeVars
<1>2. script[s] \in Script /\ call.run \in Ids /\ ~ p.running /\ Genuine(call.data)
      /\ call.data.run = call.run
  BY <1>1, TypesOf DEF Script, CallHolds
<1>3. \A a : Genuine(a) => Genuine(a)'
  BY <1>1, GenuineStays
<1>4. /\ context' \in [Ids -> Artifact \cup {None}] /\ \A j \in Ids : context'[j] = context[j]
  BY <1>1 DEF TypeOK
<1>5. CASE context[call.run] = None
  <2>1. UNCHANGED <<page, breaks, abandoned>>
    BY <1>5 DEF Loaded, pageVars
  <2>2. page' = [page EXCEPT ![s] = p] /\ p.queue \in {0, p.queue}
    BY <1>1, <2>1 DEF TypeOK
  <2>3. PageHolds(s)'
    BY <1>1, <2>1, PagesStay
  <2> HIDE DEF p
  <2> QED BY <1>1, <1>4, <2>1, <2>2, <2>3, ReturnStep DEF p
<1>6. CASE context[call.run] # None
  <2>1. PICK fields :
          /\ page' = [page EXCEPT ![s] = Assigned(page[s], new, fields)]
          /\ \/ /\ fields = ToSet(order)
                /\ UNCHANGED <<breaks, abandoned>>
             \/ /\ Break
                /\ abandoned' = [abandoned EXCEPT ![s] = @ + 1]
                /\ \E k \in 0 .. Len(order) - 1 : fields = {order[i] : i \in 1 .. k}
    <3>1. Perform(s, new, order)
      BY <1>6 DEF Loaded
    <3> HIDE DEF new, order
    <3> QED BY <3>1, PerformFacts
  <2>2. \/ /\ fields = {"data", "context", "status", "run", "done", "running", "started", "queue"}
           /\ UNCHANGED <<breaks, abandoned>>
        \/ /\ "queue" \notin fields
           /\ Break /\ abandoned' = [abandoned EXCEPT ![s] = @ + 1]
    <3>1. ToSet(order) = {"data", "context", "status", "run", "done", "running", "started", "queue"}
      BY DEF ToSet
    <3>2. ASSUME NEW k \in 0 .. Len(order) - 1
          PROVE  "queue" \notin {order[i] : i \in 1 .. k}
      OBVIOUS
    <3> QED BY <2>1, <3>1, <3>2
  <2>3. context[call.run] \in Artifact /\ Genuine(context[call.run])
        /\ context[call.run].run = call.run
    BY <1>1, <1>2, <1>6, TypesOf DEF Sound, StoreHolds
  <2>4. /\ new \in Page
        /\ new.running = FALSE /\ new.done = TRUE /\ new.started = FALSE /\ new.queue = 0
        /\ new.data = call.data /\ new.context = context[call.run]
        /\ new.status = context[call.run].status /\ new.run = call.run
    BY <1>2, <2>3 DEF Restored, Page, Artifact, Genuine
  <2> DEFINE q == Assigned(p, new, fields)
  <2> HIDE DEF new
  <2>5. /\ q \in Page
        /\ q.running = IF "running" \in fields THEN new.running ELSE p.running
        /\ q.done = IF "done" \in fields THEN new.done ELSE p.done
        /\ q.started = IF "started" \in fields THEN new.started ELSE p.started
        /\ q.queue = IF "queue" \in fields THEN new.queue ELSE p.queue
        /\ q.data = IF "data" \in fields THEN new.data ELSE p.data
        /\ q.context = IF "context" \in fields THEN new.context ELSE p.context
        /\ q.status = IF "status" \in fields THEN new.status ELSE p.status
        /\ q.run = IF "run" \in fields THEN new.run ELSE p.run
    BY <1>1, <2>4, AssignedWhole
  <2>6. page' = [page EXCEPT ![s] = q]
    BY <2>1
  <2> HIDE DEF q
  <2>7. page'[s] = q /\ q.queue \in {0, p.queue} /\ ~ q.running
    BY <1>1, <1>2, <2>4, <2>5, <2>6 DEF TypeOK
  <2>8. PageHolds(s)'
    <3>1. \A r \in Sessions : page'[s].queue # 0 /\ page'[s].queue = page'[r].queue => s = r
      BY <1>1, <2>6, <2>7 DEF PageHolds, TypeOK
    <3>2. (page[s].data # None => Genuine(page[s].data))'
          /\ (page[s].context # None => Genuine(page[s].context))'
      BY <1>1, <1>2, <1>3, <2>3, <2>4, <2>5, <2>7 DEF PageHolds
    <3>3. CASE UNCHANGED abandoned /\
               fields = {"data", "context", "status", "run", "done", "running", "started", "queue"}
      <4>1. q.queue = 0 /\ q.data = call.data /\ q.context = context[call.run]
            /\ q.status = q.context.status /\ q.run = call.run
        BY <2>4, <2>5, <3>3
      <4>2. q.data # None /\ q.context # None
        BY <1>2, <1>6, <4>1, NoneIsNothing DEF Genuine
      <4> QED BY <1>2, <2>3, <2>7, <3>1, <3>2, <4>1, <4>2 DEF PageHolds, Live
    <3>4. CASE "queue" \notin fields /\ abandoned' = [abandoned EXCEPT ![s] = @ + 1]
      <4>1. abandoned[s] \in Nat /\ abandoned'[s] = abandoned[s] + 1
        BY <1>1, <3>4 DEF TypeOK
      <4>2. abandoned'[s] > 0 /\ abandoned'[s] # 0
        BY <4>1
      <4> QED BY <2>7, <3>1, <3>2, <4>2 DEF PageHolds
    <3> QED BY <2>2, <3>3, <3>4
  <2>9. \/ UNCHANGED <<breaks, abandoned>>
        \/ Break /\ abandoned' = [abandoned EXCEPT ![s] = @ + 1]
    BY <2>2
  <2> QED BY <1>1, <1>4, <2>5, <2>6, <2>7, <2>8, <2>9, ReturnStep
<1> QED BY <1>5, <1>6

\* The run that was resumed is the one shown, and it keeps its thread.
LEMMA ResumeContextStep == ASSUME Sound, NEW s \in Sessions, ResumeContext(s) PROVE Sound'
<1> DEFINE i == script[s].run
           a == script[s].data
           p == page[s]
           new == [status |-> a.status, context |-> a, data |-> a]
           order == <<"status", "context", "data">>
<1>1. /\ script[s] # None /\ script[s].call = "export" /\ TypeOK /\ CallHolds(s) /\ PageHolds(s)
      /\ script' = [script EXCEPT ![s] = None] /\ p \in Page
      /\ context' = [context EXCEPT ![i] = a]
      /\ UNCHANGED <<thread, queue, launched, clock, data, history, lock, clicks, answered>>
  BY TypesOf DEF ResumeContext, Return, Idle, Sound, runVars
<1>2. script[s] \in Script /\ i \in Ids /\ Genuine(a) /\ a \in Artifact /\ a.run = i /\ p.run = i
  BY <1>1, TypesOf DEF Script, CallHolds, Genuine
<1>3. \A b : Genuine(b) => Genuine(b)'
  BY <1>1, GenuineStays
<1>4. PICK fields :
        /\ page' = [page EXCEPT ![s] = Assigned(page[s], new, fields)]
        /\ \/ /\ fields = ToSet(order)
              /\ UNCHANGED <<breaks, abandoned>>
           \/ /\ Break
              /\ abandoned' = [abandoned EXCEPT ![s] = @ + 1]
              /\ \E k \in 0 .. Len(order) - 1 : fields = {order[j] : j \in 1 .. k}
  <2>1. Perform(s, new, order)
    BY DEF ResumeContext
  <2> HIDE DEF new, order
  <2> QED BY <2>1, PerformFacts
<1>5. \/ fields = {"status", "context", "data"} /\ UNCHANGED <<breaks, abandoned>>
      \/ Break /\ abandoned' = [abandoned EXCEPT ![s] = @ + 1]
  <2>1. ToSet(order) = {"status", "context", "data"}
    BY DEF ToSet
  <2> QED BY <1>4, <2>1
<1> DEFINE q == Assigned(p, new, fields)
           full == [p EXCEPT !.status = a.status, !.context = a, !.data = a]
<1>6. page' = [page EXCEPT ![s] = q]
  BY <1>4
<1>7. /\ DOMAIN new = {"status", "context", "data"}
      /\ new["status"] = a.status /\ new["context"] = a /\ new["data"] = a
  OBVIOUS
<1>8. full \in Page /\ full["status"] = a.status /\ full["context"] = a /\ full["data"] = a
  BY <1>1, <1>2 DEF Page, Artifact
<1> HIDE DEF new, full
<1>9. q \in Page
  <2>1. \A f \in fields \cap DOMAIN new : new[f] = full[f]
    <3> SUFFICES ASSUME NEW f \in {"status", "context", "data"} PROVE new[f] = full[f]
      BY <1>7
    <3>1. CASE f = "status"
      BY <1>7, <1>8, <3>1
    <3>2. CASE f = "context"
      BY <1>7, <1>8, <3>2
    <3>3. CASE f = "data"
      BY <1>7, <1>8, <3>3
    <3> QED BY <3>1, <3>2, <3>3
  <2> QED BY <1>1, <1>8, <2>1, AssignedIsPage
<1>10. /\ q.running = p.running /\ q.done = p.done /\ q.started = p.started /\ q.queue = p.queue
       /\ q.run = p.run
       /\ q.data = IF "data" \in fields THEN a ELSE p.data
       /\ q.context = IF "context" \in fields THEN a ELSE p.context
       /\ q.status = IF "status" \in fields THEN a.status ELSE p.status
  <2>1. \A f \in DOMAIN p : q[f] = IF f \in fields /\ f \in DOMAIN new THEN new[f] ELSE p[f]
    BY <1>1, AssignedFields
  <2>2. DOMAIN p = {"running", "done", "started", "queue", "data", "context", "status", "run"}
    BY <1>1, AssignedFields
  <2> HIDE DEF q
  <2>3. /\ q["running"] = p["running"] /\ q["done"] = p["done"] /\ q["started"] = p["started"]
        /\ q["queue"] = p["queue"] /\ q["run"] = p["run"]
    BY <1>7, <2>1, <2>2
  <2>4. /\ q["data"] = IF "data" \in fields THEN a ELSE p["data"]
        /\ q["context"] = IF "context" \in fields THEN a ELSE p["context"]
        /\ q["status"] = IF "status" \in fields THEN a.status ELSE p["status"]
    BY <1>7, <2>1, <2>2
  <2> QED BY <2>3, <2>4
<1> HIDE DEF q
<1>11. page'[s] = q
  BY <1>1, <1>6 DEF TypeOK
<1>12. PageHolds(s)'
  <2>1. \A r \in Sessions : page'[s].queue # 0 /\ page'[s].queue = page'[r].queue => s = r
    BY <1>1, <1>6, <1>10, <1>11 DEF PageHolds, TypeOK
  <2>2. (page[s].data # None => Genuine(page[s].data))'
        /\ (page[s].context # None => Genuine(page[s].context))'
    BY <1>1, <1>2, <1>3, <1>10, <1>11 DEF PageHolds
  <2>3. abandoned[s] \in Nat
    BY <1>1 DEF TypeOK
  <2>4. CASE fields = {"status", "context", "data"} /\ UNCHANGED <<breaks, abandoned>>
    <3>1. q.data = a /\ q.context = a /\ q.status = a.status
      BY <1>10, <2>4
    <3>2. a # None
      BY <1>2, NoneIsNothing
    <3> QED BY <1>1, <1>2, <1>10, <1>11, <2>1, <2>2, <2>4, <3>1, <3>2 DEF PageHolds, Live
  <2>5. CASE abandoned' = [abandoned EXCEPT ![s] = @ + 1]
    <3>1. abandoned'[s] = abandoned[s] + 1
      BY <1>1, <2>5 DEF TypeOK
    <3>2. abandoned'[s] > 0 /\ abandoned'[s] # 0 /\ (abandoned[s] > 1 => abandoned'[s] > 1)
      BY <2>3, <3>1
    <3> QED BY <1>1, <1>10, <1>11, <2>1, <2>2, <3>2 DEF PageHolds
  <2> QED BY <1>5, <2>4, <2>5
<1> HIDE DEF i, a
<1>13. /\ context' \in [Ids -> Artifact \cup {None}]
       /\ \A j \in Ids : context'[j] = context[j] \/ (Genuine(context'[j]) /\ context'[j].run = j)
  BY <1>1, <1>2 DEF TypeOK
<1>14. q.queue \in {0, p.queue}
  BY <1>10
<1>15. \/ UNCHANGED <<breaks, abandoned>>
       \/ Break /\ abandoned' = [abandoned EXCEPT ![s] = @ + 1]
  BY <1>5
<1> QED BY <1>1, <1>6, <1>9, <1>12, <1>13, <1>14, <1>15, ReturnStep

LEMMA InitSound == Init => Sound
<1> SUFFICES ASSUME Init PROVE Sound
  OBVIOUS
<1>1. NewPage \in Page /\ NewPage.queue = 0 /\ NewPage.data = None /\ NewPage.context = None
      /\ NewPage.running = FALSE /\ NewPage.run = 0
  BY DEF NewPage, Page
<1>2. \A s \in Sessions : page[s] = NewPage /\ script[s] = None
  BY DEF Init
<1>3. TypeOK
  <2>1. page \in [Sessions -> Page] /\ script \in [Sessions -> Script \cup {None}]
    BY <1>1 DEF Init
  <2>2. thread \in [Runs -> [stage : Stage, id : Ids \cup {0}, artifact : Artifact \cup {None}]]
    BY DEF Init, Stage
  <2>3. clock \in Ids /\ clicks \in 0 .. MaxClicks /\ breaks \in 0 .. MaxBreaks
    BY SessionAssumption DEF Init, Ids
  <2> QED BY <2>1, <2>2, <2>3 DEF Init, TypeOK
<1>4. \A n \in Runs : ThreadHolds(n)
  <2> SUFFICES ASSUME NEW n \in Runs PROVE ThreadHolds(n)
    OBVIOUS
  <2>1. thread[n].stage = "unborn" /\ queue[n] = None /\ launched[n] = <<>> /\ n # 0
    BY SessionAssumption DEF Init
  <2> QED BY <1>1, <1>2, <2>1 DEF ThreadHolds
<1>5. \A i \in Ids : StoreHolds(i)
  BY DEF Init, StoreHolds
<1>6. \A s \in Sessions : CallHolds(s) /\ PageHolds(s)
  BY <1>1, <1>2 DEF CallHolds, PageHolds, Live
<1> QED BY <1>3, <1>4, <1>5, <1>6 DEF Sound

LEMMA StutterSound == Sound /\ UNCHANGED vars => Sound'
<1> SUFFICES ASSUME Sound, UNCHANGED vars PROVE Sound'
  OBVIOUS
<1>1. UNCHANGED <<page, breaks, abandoned, script, thread, queue, launched, clock, data, context,
                  history, lock, clicks, answered>>
  BY DEF vars, pageVars, runVars, storeVars
<1>2. TypeOK'
  BY <1>1 DEF Sound, TypeOK
<1>3. \A n \in Runs : ThreadHolds(n)'
  <2>1. \A x \in Sessions : page'[x].queue \in {0, page[x].queue}
    BY <1>1
  <2> QED BY <1>1, <2>1, ThreadsStay
<1>4. \A i \in Ids : StoreHolds(i)'
  BY <1>1, StoresStay
<1>5. \A x \in Sessions : PageHolds(x)'
  BY <1>1, PagesStay
<1>6. \A x \in Sessions : CallHolds(x)'
  <2>1. clicks \in Nat /\ \A a : Genuine(a) => Genuine(a)'
    BY <1>1, GenuineStays, SessionAssumption DEF Sound, TypeOK
  <2> QED BY <1>1, <2>1, CallStays
<1> QED BY <1>2, <1>3, <1>4, <1>5, <1>6 DEF Sound

LEMMA StepSound == Sound /\ [Next]_vars => Sound'
<1> SUFFICES ASSUME Sound, [Next]_vars PROVE Sound'
  OBVIOUS
<1>1. CASE UNCHANGED vars
  BY <1>1, StutterSound
<1>2. ASSUME NEW s \in Sessions, Rerun(s) PROVE Sound'
  BY <1>2, DrainStep, LaunchStep DEF Rerun
<1>3. ASSUME NEW s \in Sessions, Proceed(s) PROVE Sound'
  BY <1>3, LoadedStep, ReadHistoryStep, AppendAnswerStep, ResumeDataStep, ResumeContextStep
     DEF Proceed
<1>4. ASSUME NEW s \in Sessions, Start(s) \/ Reload(s) \/ Load(s) \/ Ask(s) \/ Resume(s)
      PROVE  Sound'
  BY <1>4, StartStep, ReloadStep, LoadStep, AskStep, ResumeStep
<1>5. ASSUME NEW n \in Runs, Work(n) PROVE Sound'
  BY <1>5, ExportDataStep, ExportContextStep, RefuseStep, RaiseStep DEF Work
<1> QED BY <1>1, <1>2, <1>3, <1>4, <1>5 DEF Next

LEMMA SpecSound == Spec => []Sound
BY InitSound, StepSound, PTL DEF Spec

LEMMA SoundShows == Sound => ShownIsOneRun
<1> SUFFICES ASSUME Sound, Distinct, NEW s \in Undisturbed, page[s].done, page[s].run # 0
             PROVE  /\ page[s].data.run = page[s].run
                    /\ page[s].context.run = page[s].run
                    /\ page[s].context.by = page[s].data.by
                    /\ page[s].status = page[s].context.status
  BY DEF ShownIsOneRun
<1>1. s \in Sessions /\ abandoned[s] = 0 /\ PageHolds(s)
  BY DEF Undisturbed, Sound
<1>2. /\ Genuine(page[s].data) /\ page[s].data.run = page[s].run
      /\ Genuine(page[s].context) /\ page[s].context.run = page[s].run
      /\ page[s].status = page[s].context.status
  BY <1>1 DEF PageHolds
<1>3. \A m, n \in Runs : \A i : Took(m, i) /\ Took(n, i) => m = n
  BY DEF Took, Distinct
<1>4. page[s].data.by \in Runs /\ page[s].context.by \in Runs
  BY <1>2 DEF Genuine, Artifact
<1> QED BY <1>2, <1>3, <1>4 DEF Genuine

LEMMA SoundStarts == Sound => StartsAreSingle
<1> SUFFICES ASSUME Sound PROVE OneThreadPerStart
  BY DEF Sound, StartsAreSingle
<1>1. \A s \in Sessions : PageHolds(s)
  BY DEF Sound
<1> QED BY <1>1 DEF PageHolds, OneThreadPerStart, Undisturbed, Live

-----------------------------------------------------------------------------
(* Follow-up answers, with files.                                           *)

\* Scripts that neither ask nor append leave the histories alone.
LEMMA KeptQuiet ==
  ASSUME Kept, Sound, NEW s \in Sessions, ~ Asking(s), ~ Asking(s)',
         \A x \in Sessions \ {s} : script'[x] = script[x],
         UNCHANGED <<history, lock, answered>>, clicks <= clicks', clicks' \in Nat
  PROVE  Kept'
<1>1. \A x \in Sessions : (Asking(x)' <=> Asking(x)) /\ (Appending(x)' <=> Appending(x))
  BY DEF Asking, Appending
<1>2. \A x \in Sessions : Asking(x) => script'[x] = script[x]
  OBVIOUS
<1>3. \A x \in Sessions : Appending(x) => Asking(x)
  BY DEF Asking, Appending
<1>4. \A a \in answered : a.number <= clicks'
  <2> SUFFICES ASSUME NEW a \in answered PROVE a.number <= clicks'
    OBVIOUS
  <2>1. a.number \in Nat /\ clicks \in Nat
    BY SessionAssumption DEF Sound, TypeOK, Answer
  <2>2. a.number <= clicks
    BY DEF Kept
  <2> QED BY <2>1, <2>2
<1>5. \A i \in Ids, x \in Sessions : (lock[i] = x <=> Appending(x) /\ script[x].run = i)'
  <2> SUFFICES ASSUME NEW i \in Ids, NEW x \in Sessions
               PROVE  (lock[i] = x <=> Appending(x) /\ script[x].run = i)'
    OBVIOUS
  <2>1. lock[i] = x <=> Appending(x) /\ script[x].run = i
    BY DEF Kept
  <2> QED BY <1>1, <1>2, <1>3, <2>1
<1> QED BY <1>1, <1>2, <1>3, <1>4, <1>5 DEF Kept

\* The number of a question is that of no answer before it.
LEMMA KeptAsk == ASSUME Kept, Sound, NEW s \in Sessions, Ask(s) PROVE Kept'
<1>1. PICK i \in Ids :
        script' = [script EXCEPT ![s] =
                     [call |-> "answer", run |-> i, data |-> None,
                      answer |-> [run |-> i, number |-> clicks + 1], history |-> <<>>]]
  BY DEF Ask
<1> DEFINE a == [run |-> i, number |-> clicks + 1]
<1>2. /\ UNCHANGED <<history, lock, answered>> /\ clicks' = clicks + 1 /\ clicks \in Nat
      /\ script[s] = None
  BY SessionAssumption DEF Ask, Shows, Idle, Click, storeVars, Sound, TypeOK
<1>3. /\ script'[s].call = "answer" /\ script'[s].answer = a /\ script'[s] # None
      /\ \A x \in Sessions \ {s} : script'[x] = script[x]
  <2>1. [call |-> "answer", run |-> i, data |-> None,
         answer |-> [run |-> i, number |-> clicks + 1], history |-> <<>>] # None
    BY DEF None
  <2> QED BY <1>1, <2>1 DEF Sound, TypeOK
<1>4. a.number = clicks + 1
  OBVIOUS
<1> HIDE DEF a
<1>5. \A b \in answered : b # a /\ b.number <= clicks'
  <2> SUFFICES ASSUME NEW b \in answered PROVE b # a /\ b.number <= clicks'
    OBVIOUS
  <2>1. b.number \in Nat /\ b.number <= clicks
    BY DEF Sound, TypeOK, Answer, Kept
  <2> QED BY <1>2, <1>4, <2>1
<1>6. \A x \in Sessions : Asking(x) => script[x].answer # a
  <2> SUFFICES ASSUME NEW x \in Sessions, Asking(x) PROVE script[x].answer # a
    OBVIOUS
  <2>1. script[x].answer \in Answer /\ script[x].answer.number <= clicks
    BY DEF Asking, Sound, CallHolds
  <2>2. script[x].answer.number \in Nat
    BY <2>1 DEF Answer
  <2> QED BY <1>2, <1>4, <2>1, <2>2
<1>7. \A x \in Sessions : (Appending(x)' <=> Appending(x)) /\ (Appending(x) => script'[x] = script[x])
  BY <1>2, <1>3 DEF Appending
<1>8. \A x \in Sessions : (Asking(x)' <=> x = s \/ Asking(x)) /\ (x # s => script'[x] = script[x])
  BY <1>2, <1>3 DEF Asking
<1>9. \A j \in Ids, x \in Sessions : (lock[j] = x <=> Appending(x) /\ script[x].run = j)'
  <2> SUFFICES ASSUME NEW j \in Ids, NEW x \in Sessions
               PROVE  (lock[j] = x <=> Appending(x) /\ script[x].run = j)'
    OBVIOUS
  <2>1. lock[j] = x <=> Appending(x) /\ script[x].run = j
    BY DEF Kept
  <2> QED BY <1>2, <1>7, <2>1
<1>10. \A x \in Sessions : (Appending(x) => script[x].history = history[script[x].run])'
  BY <1>2, <1>7 DEF Kept
<1>11. \A x \in Sessions : (Asking(x) => script[x].answer \notin answered)'
  BY <1>2, <1>3, <1>5, <1>8 DEF Kept
<1>12. \A x, y \in Sessions :
         (Asking(x) /\ Asking(y) /\ script[x].answer = script[y].answer => x = y)'
  <2> SUFFICES ASSUME NEW x \in Sessions, NEW y \in Sessions, Asking(x)', Asking(y)',
                      script'[x].answer = script'[y].answer
               PROVE  x = y
    OBVIOUS
  <2>1. CASE x # s /\ y # s
    BY <1>8, <2>1 DEF Kept
  <2>2. CASE x = s \/ y = s
    BY <1>3, <1>6, <1>8, <2>2
  <2> QED BY <2>1, <2>2
<1> QED BY <1>2, <1>5, <1>9, <1>10, <1>11, <1>12 DEF Kept

\* Whoever finds the lock free takes it and reads the newest history.
LEMMA KeptReadHistory ==
  ASSUME Kept, Sound, ~ Production, NEW s \in Sessions, ReadHistory(s) PROVE Kept'
<1>0. PICK i \in Ids : i = script[s].run
  BY TypesOf DEF ReadHistory, Idle, Sound, Script
<1>1. /\ lock[i] = "free" /\ lock' = [lock EXCEPT ![i] = s] /\ script[s] # None
      /\ script[s].call = "answer"
      /\ script' = [script EXCEPT ![s].call = "append", ![s].history = history[i]]
      /\ UNCHANGED <<history, answered, clicks>>
  BY <1>0 DEF ReadHistory, Idle
<1> DEFINE c == [script[s] EXCEPT !.call = "append", !.history = history[i]]
<1>2. script[s] \in Script
  BY <1>1, TypesOf DEF Sound
<1>3. /\ c \in Script /\ c.call = "append" /\ c.history = history[i] /\ c.run = i
      /\ c.answer = script[s].answer
  BY <1>0, <1>2 DEF Script, Sound, TypeOK
<1>4. script' = [script EXCEPT ![s] = c]
  BY <1>1
<1> HIDE DEF c
<1>5. /\ script'[s] = c /\ c # None /\ \A x \in Sessions \ {s} : script'[x] = script[x]
      /\ lock'[i] = s /\ \A j \in Ids \ {i} : lock'[j] = lock[j]
  BY <1>1, <1>3, <1>4, NoneIsNothing DEF Sound, TypeOK
<1>6. \A x \in Sessions : (Asking(x)' <=> Asking(x)) /\ (Asking(x) => script'[x].answer = script[x].answer)
  BY <1>1, <1>3, <1>5 DEF Asking
<1>7. /\ Appending(s)' /\ ~ Appending(s)
      /\ \A x \in Sessions \ {s} : Appending(x)' <=> Appending(x)
  BY <1>1, <1>3, <1>5 DEF Appending
<1>8. \A j \in Ids, x \in Sessions : (lock[j] = x <=> Appending(x) /\ script[x].run = j)'
  <2> SUFFICES ASSUME NEW j \in Ids, NEW x \in Sessions
               PROVE  (lock[j] = x <=> Appending(x) /\ script[x].run = j)'
    OBVIOUS
  <2>1. lock[j] = x <=> Appending(x) /\ script[x].run = j
    BY DEF Kept
  <2>2. "free" # x
    BY SessionAssumption
  <2>3. CASE x = s
    BY <1>3, <1>5, <1>7, <2>1, <2>3
  <2>4. CASE x # s /\ j = i
    BY <1>1, <1>5, <1>7, <2>1, <2>2, <2>4
  <2>5. CASE x # s /\ j # i
    BY <1>5, <1>7, <2>1, <2>5
  <2> QED BY <2>3, <2>4, <2>5
<1>9. \A x \in Sessions : (Appending(x) => script[x].history = history[script[x].run])'
  <2> SUFFICES ASSUME NEW x \in Sessions, Appending(x)'
               PROVE  script'[x].history = history'[script'[x].run]
    OBVIOUS
  <2>1. CASE x = s
    BY <1>1, <1>3, <1>5, <2>1
  <2>2. CASE x # s
    <3>1. Appending(x) /\ script'[x] = script[x] /\ history' = history
      BY <1>1, <1>5, <1>7, <2>2
    <3>2. script[x].history = history[script[x].run]
      BY <3>1 DEF Kept
    <3> QED BY <3>1, <3>2
  <2> QED BY <2>1, <2>2
<1>10. \A x \in Sessions : (Asking(x) => script[x].answer \notin answered)'
  <2>1. \A x \in Sessions : Asking(x) => script[x].answer \notin answered
    BY DEF Kept
  <2>2. answered' = answered
    BY <1>1
  <2> QED BY <1>6, <2>1, <2>2
<1>11. \A x, y \in Sessions :
         (Asking(x) /\ Asking(y) /\ script[x].answer = script[y].answer => x = y)'
  BY <1>6 DEF Kept
<1>12. /\ \A j \in Ids : \A k \in DOMAIN history[j] : history[j][k] \in answered
       /\ \A a \in answered :
            /\ a.number <= clicks
            /\ \E k \in DOMAIN history[a.run] :
                 \A j \in DOMAIN history[a.run] : history[a.run][j] = a <=> j = k
  BY DEF Kept
<1>13. history' = history /\ answered' = answered /\ clicks' = clicks
  BY <1>1
<1> QED BY <1>8, <1>9, <1>10, <1>11, <1>12, <1>13 DEF Kept

\* Who appends held the lock: nobody else appended since it read the history.
LEMMA KeptAppendAnswer ==
  ASSUME Kept, Sound, ~ Production, NEW s \in Sessions, AppendAnswer(s) PROVE Kept'
<1>0. PICK i \in Ids : i = script[s].run
  BY TypesOf DEF AppendAnswer, Idle, Sound, Script
<1>1. /\ Appending(s) /\ Asking(s) /\ lock[i] = s /\ script[s].history = history[i]
  BY <1>0 DEF AppendAnswer, Idle, Asking, Appending, Kept
<1>2. PICK a \in Answer : a = script[s].answer
  BY <1>1 DEF Asking, Sound, CallHolds
<1>3. a \notin answered /\ a.run = i /\ a.number <= clicks
  BY <1>0, <1>1, <1>2 DEF Asking, Sound, CallHolds, Kept
<1>4. /\ history' = [history EXCEPT ![i] = Append(history[i], a)]
      /\ answered' = answered \cup {a} /\ lock' = [lock EXCEPT ![i] = "free"]
      /\ script' = [script EXCEPT ![s] = None] /\ clicks' = clicks
  BY <1>0, <1>1, <1>2 DEF AppendAnswer, Return
<1>5. /\ history[i] \in Seq(Answer) /\ DOMAIN history[i] = 1 .. Len(history[i])
      /\ history'[i] = Append(history[i], a)
      /\ \A j \in Ids \ {i} : history'[j] = history[j]
  BY <1>4 DEF Sound, TypeOK
<1> DEFINE n == Len(history[i]) + 1
<1>6. /\ DOMAIN history'[i] = 1 .. n /\ history'[i][n] = a /\ n \in 1 .. n
      /\ \A k \in DOMAIN history[i] : k # n /\ k \in 1 .. n /\ history'[i][k] = history[i][k]
      /\ \A k \in 1 .. n : k = n \/ k \in DOMAIN history[i]
  BY <1>5
<1>7. /\ ~ Asking(s)' /\ ~ Appending(s)' /\ lock'[i] = "free"
      /\ \A j \in Ids \ {i} : lock'[j] = lock[j]
      /\ \A x \in Sessions \ {s} : script'[x] = script[x]
  BY <1>4 DEF Asking, Appending, Sound, TypeOK
<1> HIDE DEF n
<1>8. \A x \in Sessions \ {s} : (Asking(x)' <=> Asking(x)) /\ (Appending(x)' <=> Appending(x))
  BY <1>7 DEF Asking, Appending
<1>9. \A x \in Sessions \ {s} : Appending(x) => script[x].run \in Ids \ {i}
  <2> SUFFICES ASSUME NEW x \in Sessions \ {s}, Appending(x) PROVE script[x].run \in Ids \ {i}
    OBVIOUS
  <2>1. script[x].run \in Ids
    BY TypesOf DEF Appending, Sound, Script
  <2>2. script[x].run = i => lock[i] = x
    BY DEF Kept
  <2> QED BY <1>1, <2>1, <2>2
<1>10. \A j \in Ids, x \in Sessions : (lock[j] = x <=> Appending(x) /\ script[x].run = j)'
  <2> SUFFICES ASSUME NEW j \in Ids, NEW x \in Sessions
               PROVE  (lock[j] = x <=> Appending(x) /\ script[x].run = j)'
    OBVIOUS
  <2>1. lock[j] = x <=> Appending(x) /\ script[x].run = j
    BY DEF Kept
  <2>2. lock[j] = s <=> j = i
    BY <1>0, <1>1 DEF Kept
  <2>3. "free" # x
    BY SessionAssumption
  <2>4. CASE x = s
    BY <1>7, <2>2, <2>3, <2>4
  <2>5. CASE x # s /\ j = i
    BY <1>7, <1>8, <1>9, <2>3, <2>5
  <2>6. CASE x # s /\ j # i
    BY <1>7, <1>8, <2>1, <2>6
  <2> QED BY <2>4, <2>5, <2>6
<1>11. \A x \in Sessions : (Appending(x) => script[x].history = history[script[x].run])'
  <2> SUFFICES ASSUME NEW x \in Sessions, Appending(x)'
               PROVE  script'[x].history = history'[script'[x].run]
    OBVIOUS
  <2>1. x # s /\ Appending(x) /\ script'[x] = script[x]
    BY <1>7, <1>8
  <2>2. script[x].history = history[script[x].run] /\ script[x].run \in Ids \ {i}
    BY <1>9, <2>1 DEF Kept
  <2> QED BY <1>5, <2>1, <2>2
<1>12. \A x \in Sessions : (Asking(x) => script[x].answer \notin answered)'
  <2> SUFFICES ASSUME NEW x \in Sessions, Asking(x)' PROVE script'[x].answer \notin answered'
    OBVIOUS
  <2>1. x # s /\ Asking(x) /\ script'[x] = script[x]
    BY <1>7, <1>8
  <2>2. script[x].answer \notin answered /\ script[x].answer # a
    BY <1>1, <1>2, <2>1 DEF Kept
  <2> QED BY <1>4, <2>1, <2>2
<1>13. \A x, y \in Sessions :
         (Asking(x) /\ Asking(y) /\ script[x].answer = script[y].answer => x = y)'
  <2> SUFFICES ASSUME NEW x \in Sessions, NEW y \in Sessions, Asking(x)', Asking(y)',
                      script'[x].answer = script'[y].answer
               PROVE  x = y
    OBVIOUS
  <2>1. x # s /\ Asking(x) /\ script'[x] = script[x] /\ y # s /\ Asking(y) /\ script'[y] = script[y]
    BY <1>7, <1>8
  <2> QED BY <2>1 DEF Kept
<1>14. \A j \in Ids : \A k \in DOMAIN history'[j] : history'[j][k] \in answered'
  <2>1. \A j \in Ids : \A k \in DOMAIN history[j] : history[j][k] \in answered
    BY DEF Kept
  <2>2. \A k \in DOMAIN history'[i] : history'[i][k] \in answered'
    BY <1>4, <1>6, <2>1
  <2>3. \A j \in Ids \ {i} : \A k \in DOMAIN history'[j] : history'[j][k] \in answered'
    BY <1>4, <1>5, <2>1
  <2> QED BY <2>2, <2>3
<1>15. \A b \in answered' :
         /\ b.number <= clicks'
         /\ \E k \in DOMAIN history'[b.run] :
              \A j \in DOMAIN history'[b.run] : history'[b.run][j] = b <=> j = k
  <2> SUFFICES ASSUME NEW b \in answered'
               PROVE  /\ b.number <= clicks'
                      /\ \E k \in DOMAIN history'[b.run] :
                           \A j \in DOMAIN history'[b.run] : history'[b.run][j] = b <=> j = k
    OBVIOUS
  <2>1. \A k \in DOMAIN history[i] : history[i][k] \in answered
    BY DEF Kept
  <2>2. CASE b = a
    <3>1. \A j \in DOMAIN history'[i] : history'[i][j] = a <=> j = n
      BY <1>3, <1>6, <2>1
    <3>2. n \in DOMAIN history'[i] /\ b.run = i /\ b.number <= clicks'
      BY <1>3, <1>4, <1>6, <2>2
    <3>3. \A j \in DOMAIN history'[b.run] : history'[b.run][j] = b <=> j = n
      BY <2>2, <3>1, <3>2
    <3> QED BY <3>2, <3>3
  <2>3. CASE b # a
    <3>1. b \in answered /\ b.number <= clicks /\ b.run \in Ids
      BY <1>4, <2>3 DEF Kept, Sound, TypeOK, Answer
    <3>2. PICK k \in DOMAIN history[b.run] :
            \A j \in DOMAIN history[b.run] : history[b.run][j] = b <=> j = k
      BY <3>1 DEF Kept
    <3>3. CASE b.run = i
      <4>1. k \in DOMAIN history'[i]
        BY <1>6, <3>2, <3>3
      <4>2. \A j \in DOMAIN history'[i] : history'[i][j] = b <=> j = k
        BY <1>6, <2>3, <3>2, <3>3
      <4> QED BY <1>4, <3>1, <3>3, <4>1, <4>2
    <3>4. CASE b.run # i
      BY <1>4, <1>5, <3>1, <3>2, <3>4
    <3> QED BY <3>3, <3>4
  <2> QED BY <2>2, <2>3
<1> QED BY <1>10, <1>11, <1>12, <1>13, <1>14, <1>15 DEF Kept

LEMMA InitKept == Init => Kept
<1> SUFFICES ASSUME Init PROVE Kept
  OBVIOUS
<1>1. \A s \in Sessions : ~ Appending(s) /\ ~ Asking(s) /\ s # "free"
  BY SessionAssumption DEF Init, Appending, Asking
<1>2. \A i \in Ids : lock[i] = "free" /\ DOMAIN history[i] = {}
  BY DEF Init
<1> QED BY <1>1, <1>2 DEF Init, Kept

LEMMA StepKept == ~ Production /\ Sound /\ Kept /\ [Next]_vars => Kept'
<1> SUFFICES ASSUME ~ Production, Sound, Kept, [Next]_vars PROVE Kept'
  OBVIOUS
<1>1. clicks \in Nat /\ TypeOK
  BY SessionAssumption DEF Sound, TypeOK
<1>2. ASSUME UNCHANGED <<script, history, lock, answered>>, clicks' = clicks \/ Click PROVE Kept'
  <2>1. clicks <= clicks' /\ clicks' \in Nat
    BY <1>1, <1>2 DEF Click
  <2>2. \A x \in Sessions : (Asking(x)' <=> Asking(x)) /\ (Appending(x)' <=> Appending(x))
    BY <1>2 DEF Asking, Appending
  <2>3. \A a \in answered : a.number <= clicks'
    <3> SUFFICES ASSUME NEW a \in answered PROVE a.number <= clicks'
      OBVIOUS
    <3>1. a.number \in Nat /\ a.number <= clicks
      BY <1>1 DEF TypeOK, Answer, Kept
    <3> QED BY <1>1, <2>1, <3>1
  <2> QED BY <1>2, <2>2, <2>3 DEF Kept
<1>3. CASE UNCHANGED vars
  BY <1>2, <1>3 DEF vars, storeVars
<1>4. ASSUME NEW s \in Sessions, Drain(s) \/ Launch(s) \/ Reload(s) PROVE Kept'
  BY <1>2, <1>4 DEF Drain, Launch, Reload, storeVars
<1>5. ASSUME NEW s \in Sessions, Start(s) PROVE Kept'
  BY <1>2, <1>5 DEF Start, storeVars
<1>6. ASSUME NEW n \in Runs, Work(n) PROVE Kept'
  BY <1>2, <1>6 DEF Work, ExportData, ExportContext, Refuse, Raise, storeVars
<1>7. ASSUME NEW s \in Sessions,
             Loaded(s) \/ ResumeData(s) \/ ResumeContext(s) \/ Load(s) \/ Resume(s)
      PROVE  Kept'
  <2>1. UNCHANGED <<history, lock, answered>> /\ (clicks' = clicks \/ Click)
    BY <1>7 DEF Loaded, ResumeData, ResumeContext, Load, Resume, storeVars
  <2>2. clicks <= clicks' /\ clicks' \in Nat
    BY <1>1, <2>1 DEF Click
  <2>3. ~ Asking(s)
    BY <1>7 DEF Loaded, ResumeData, ResumeContext, Load, Resume, Shows, Idle, Asking
  <2>4. \E c : script' = [script EXCEPT ![s] = c] /\ (c = None \/ c.call \notin {"answer", "append"})
    <3>1. CASE Loaded(s) \/ ResumeContext(s)
      BY <3>1 DEF Loaded, ResumeContext, Return
    <3>2. CASE ResumeData(s)
      <4>1. script[s] \in Script
        BY <1>1, <3>2, TypesOf DEF ResumeData, Idle
      <4>2. PICK a : script' = [script EXCEPT ![s].call = "export", ![s].data = a]
        BY <3>2 DEF ResumeData
      <4> DEFINE c == [script[s] EXCEPT !.call = "export", !.data = a]
      <4>3. c.call = "export"
        BY <4>1 DEF Script
      <4>4. script' = [script EXCEPT ![s] = c]
        BY <4>2
      <4> HIDE DEF c
      <4> QED BY <4>3, <4>4
    <3>3. CASE Load(s)
      <4>1. PICK i \in Ids :
              script' = [script EXCEPT ![s] = [call |-> "load", run |-> i, data |-> data[i],
                                              answer |-> None, history |-> <<>>]]
        BY <3>3 DEF Load
      <4> DEFINE c == [call |-> "load", run |-> i, data |-> data[i], answer |-> None,
                       history |-> <<>>]
      <4>2. c.call = "load" /\ script' = [script EXCEPT ![s] = c]
        BY <4>1
      <4> HIDE DEF c
      <4> QED BY <4>2
    <3>4. CASE Resume(s)
      <4> DEFINE c == [call |-> "resume", run |-> page[s].run, data |-> None, answer |-> None,
                       history |-> <<>>]
      <4>1. c.call = "resume" /\ script' = [script EXCEPT ![s] = c]
        BY <3>4 DEF Resume, Call
      <4> HIDE DEF c
      <4> QED BY <4>1
    <3> QED BY <1>7, <3>1, <3>2, <3>3, <3>4
  <2>5. ~ Asking(s)' /\ \A x \in Sessions \ {s} : script'[x] = script[x]
    BY <1>1, <2>4 DEF Asking, TypeOK
  <2> QED BY <2>1, <2>2, <2>3, <2>5, KeptQuiet
<1>8. ASSUME NEW s \in Sessions, Ask(s) \/ ReadHistory(s) \/ AppendAnswer(s) PROVE Kept'
  BY <1>8, KeptAsk, KeptReadHistory, KeptAppendAnswer
<1> QED BY <1>3, <1>4, <1>5, <1>6, <1>7, <1>8 DEF Next, Rerun, Proceed

LEMMA KeptAnswers == Kept => AnswersAreKept
<1> SUFFICES ASSUME Kept, NEW a \in answered
             PROVE  Cardinality({k \in DOMAIN history[a.run] : history[a.run][k] = a}) = 1
  BY DEF AnswersAreKept
<1>1. PICK k \in DOMAIN history[a.run] :
        \A j \in DOMAIN history[a.run] : history[a.run][j] = a <=> j = k
  BY DEF Kept
<1>2. {j \in DOMAIN history[a.run] : history[a.run][j] = a} = {k}
  BY <1>1
<1> QED BY <1>2, FS_Singleton

-----------------------------------------------------------------------------
\* Every page, script, thread, queue and artifact is one of the kinds that
\* recherche.py and follow_up.py make.
THEOREM TypeCorrect == Spec => []TypeOK
<1>1. Sound => TypeOK
  BY DEF Sound
<1> QED BY <1>1, SpecSound, PTL

\* What a page shows under a run id is of one run, data, context and status, if
\* no two threads took that id and none of its scripts was abandoned: whether
\* it was drained from a queue, loaded, or resumed in the meantime.
THEOREM ShownOneRun == Spec => []ShownIsOneRun
BY SpecSound, SoundShows, PTL

\* A page starts a thread for a queue that had none, until a second script of
\* it is abandoned; no two pages wait for one queue.
THEOREM StartsSingle == Spec => []StartsAreSingle
BY SpecSound, SoundStarts, PTL

\* With the lock file of export_follow_up, an answer that was returned stays in
\* the history of its run, once, however many sessions ask about the run.
THEOREM AnswersKept == ~ Production => (Spec => []AnswersAreKept)
<1> SUFFICES ASSUME ~ Production PROVE Spec => []AnswersAreKept
  OBVIOUS
<1>1. Init => Sound /\ Kept
  BY InitSound, InitKept
<1>2. Sound /\ Kept /\ [Next]_vars => Sound' /\ Kept'
  BY StepSound, StepKept
<1>3. Sound /\ Kept => AnswersAreKept
  BY KeptAnswers
<1> QED BY <1>1, <1>2, <1>3, PTL DEF Spec
=============================================================================
