---------------------------- MODULE WorkingSets ----------------------------
(***************************************************************************)
(* The short-term memory of a run during the first round                    *)
(* (memory/short_term_store.py, orchestration/supervisor_loop.py).           *)
(*                                                                         *)
(* The departments of the parallel batch write to working sets of their own, *)
(* the main thread puts what their packages hold into the main store as they *)
(* complete, and merges the working sets when all of them have; departments  *)
(* that run afterwards write to the main store directly.  A department may   *)
(* raise, and the exported store is what a resume is built on.               *)
(*                                                                         *)
(* Facts stand for all lists of a report that are compared by content,       *)
(* packets for those compared by their id, of which only matters how often   *)
(* each is there; task_statuses is SupervisorLoop's.                         *)
(***************************************************************************)
EXTENDS Naturals, Sequences, FiniteSets, SequencesExt

CONSTANTS Parallel,     \* the departments of the batch, in canonical order
          Sequential,   \* those that run afterwards, in order
          TasksOf,      \* department -> its tasks
          FactsOf,      \* task -> the facts a report on it brings
          AttemptsOf,   \* bound: task -> reports on it
          ReviewsOf,    \* bound: task -> reviews of it
          Nothing

Departments == ToSet(Parallel) \cup ToSet(Sequential)
Tasks == UNION {TasksOf[d] : d \in Departments}

Verdict == [attempt : Nat \ {0}, approved : BOOLEAN]

ASSUME BatchAssumption ==
  /\ Parallel \in Seq(ToSet(Parallel)) /\ Sequential \in Seq(ToSet(Sequential))
  /\ ToSet(Parallel) \cap ToSet(Sequential) = {}
  /\ IsInjective(Parallel) /\ IsInjective(Sequential)
  /\ \A d, e \in Departments : d # e => TasksOf[d] \cap TasksOf[e] = {}

ASSUME ReportsAssumption ==
  /\ \A t \in Tasks : FactsOf[t] \in Seq(ToSet(FactsOf[t]))
  /\ AttemptsOf \in [Tasks -> Nat] /\ ReviewsOf \in [Tasks -> Nat]
  /\ Nothing \notin Verdict \cup {"package", "exception"}

VARIABLES stage,     \* of the main thread
          turn,      \* the sequential department whose turn it is
          future,    \* department -> how its run ended, Nothing before
          admitted,  \* departments whose package has been reviewed
          work,      \* department of the batch -> its working set
          main       \* the store of the run

storeVars == <<stage, turn, future, admitted, work, main>>

-----------------------------------------------------------------------------
(* ShortTermMemoryStore.                                                    *)

\* The items that are in a set, in their order.
Chosen(items, set) ==
  LET upTo[n \in 0 .. Len(items)] ==
        IF n = 0 THEN <<>>
        ELSE IF items[n] \in set THEN Append(upTo[n - 1], items[n]) ELSE upTo[n - 1]
  IN upTo[Len(items)]

\* Equal items once, where the first of them is.
Distinct(items) ==
  LET upTo[n \in 0 .. Len(items)] ==
        IF n = 0 THEN <<>>
        ELSE IF Contains(upTo[n - 1], items[n]) THEN upTo[n - 1] ELSE Append(upTo[n - 1], items[n])
  IN upTo[Len(items)]

\* A report is the task and how manieth on it; what it found is a packet.
Report == UNION {{t} \X (1 .. AttemptsOf[t]) : t \in Tasks}

Empty ==
  [facts |-> <<>>, reports |-> <<>>, packets |-> [r \in Report |-> 0], usage |-> 0,
   outputs |-> [t \in Tasks |-> 0],        \* the attempt a payload is from, 0 if none
   review |-> [t \in Tasks |-> Nothing], history |-> [t \in Tasks |-> <<>>],
   packages |-> {}]

\* create_working_set: lists are seeded, reports and usage are not.
Seeded(s) == [Empty EXCEPT !.facts = s.facts, !.packets = s.packets]

\* ingest_worker_report.
Ingested(s, t) ==
  LET report == <<t, s.outputs[t] + 1>>
  IN [s EXCEPT !.facts = @ \o FactsOf[t],
               !.reports = Append(@, report),
               !.packets[report] = @ + 1,
               !.outputs[t] = @ + 1,
               !.usage = @ + 1]

\* mark_critic_review.
Marked(s, t, approved) ==
  LET verdict == [attempt |-> s.outputs[t], approved |-> approved]
  IN [s EXCEPT !.review[t] = verdict, !.history[t] = Append(@, verdict)]

\* store_department_package, with the run state and the conversation.
Stored(s, d) == [s EXCEPT !.packages = @ \cup {d}]

\* delta_from: items that are not in the baseline, keys that it lacks.
DeltaFrom(s, baseline) ==
  [facts |-> Chosen(s.facts, ToSet(s.facts) \ ToSet(baseline.facts)),
   reports |-> SubSeq(s.reports, Len(baseline.reports) + 1, Len(s.reports)),
   packets |-> [r \in Report |->
                  IF \E b \in Report : b[1] = r[1] /\ baseline.packets[b] > 0 THEN 0
                  ELSE s.packets[r]],
   usage |-> s.usage - baseline.usage,
   outputs |-> [t \in Tasks |-> IF baseline.outputs[t] = 0 THEN s.outputs[t] ELSE 0],
   review |-> [t \in Tasks |-> IF baseline.review[t] = Nothing THEN s.review[t] ELSE Nothing],
   history |-> [t \in Tasks |-> IF baseline.history[t] = <<>> THEN s.history[t] ELSE <<>>],
   packages |-> s.packages]

\* merge_from: lists are extended, keys overwritten, usage added.
MergedFrom(s, other) ==
  [facts |-> s.facts \o other.facts,
   reports |-> s.reports \o other.reports,
   packets |-> [r \in Report |-> s.packets[r] + other.packets[r]],
   usage |-> s.usage + other.usage,
   outputs |-> [t \in Tasks |-> IF other.outputs[t] # 0 THEN other.outputs[t] ELSE s.outputs[t]],
   review |-> [t \in Tasks |-> IF other.review[t] # Nothing THEN other.review[t] ELSE s.review[t]],
   history |-> [t \in Tasks |-> s.history[t] \o other.history[t]],
   packages |-> s.packages \cup other.packages]

\* snapshot: equal entries of the lists compared by content are written once.
Exported(s) == [s EXCEPT !.facts = Distinct(@)]

\* Mutant: the totals are not read back.
FromSnapshotUncounted(payload) == [payload EXCEPT !.usage = 0]

\* from_snapshot: every field as the snapshot has it.
FromSnapshot(payload) == [Empty EXCEPT !.facts = payload.facts, !.reports = payload.reports,
                                       !.packets = payload.packets, !.usage = payload.usage,
                                       !.outputs = payload.outputs, !.review = payload.review,
                                       !.history = payload.history, !.packages = payload.packages]

-----------------------------------------------------------------------------
(* A department's run, in a thread of its own or in the main thread.         *)

StoreInit ==
  /\ stage = "parallel"
  /\ turn = 1
  /\ future = [d \in Departments |-> Nothing]
  /\ admitted = {}
  /\ main = Empty
  /\ work = [d \in ToSet(Parallel) |-> Seeded(Empty)]

Running(d) ==
  /\ future[d] = Nothing
  /\ \/ stage = "parallel" /\ Contains(Parallel, d)
     \/ stage = "sequential" /\ turn <= Len(Sequential) /\ Sequential[turn] = d

Store(d) == IF Contains(Parallel, d) THEN work[d] ELSE main

WriteTo(d, s) ==
  IF Contains(Parallel, d) THEN work' = [work EXCEPT ![d] = s] /\ UNCHANGED main
                           ELSE main' = s /\ UNCHANGED work

Research(d, t) ==
  /\ Running(d)
  /\ Store(d).outputs[t] < AttemptsOf[t]
  /\ WriteTo(d, Ingested(Store(d), t))
  /\ UNCHANGED <<stage, turn, future, admitted>>

Review(d, t) ==
  /\ Running(d)
  /\ Store(d).outputs[t] > 0
  /\ Len(Store(d).history[t]) < ReviewsOf[t]
  /\ \E approved \in BOOLEAN : WriteTo(d, Marked(Store(d), t, approved))
  /\ UNCHANGED <<stage, turn, future, admitted>>

\* The package, assembled or made up, is stored, and holds the evidence of the
\* latest report on each task.
HandIn(d) ==
  /\ Running(d)
  /\ WriteTo(d, Stored(Store(d), d))
  /\ future' = [future EXCEPT ![d] = "package"]
  /\ UNCHANGED <<stage, turn, admitted>>

Abort(d) ==
  /\ Running(d)
  /\ future' = [future EXCEPT ![d] = "exception"]
  /\ UNCHANGED <<stage, turn, admitted, work, main>>

Packaged(s, d) == {r \in ToSet(s.reports) : r[1] \in TasksOf[d] /\ r[2] = s.outputs[r[1]]}

-----------------------------------------------------------------------------
(* The main thread.                                                         *)

\* _apply_structured_runtime_artifacts, whatever the acceptance gate says.
Applied(s, d) ==
  LET evidence == Packaged(Store(d), d)
  IN [s EXCEPT !.packets = [r \in Report |-> @[r] + (IF r \in evidence THEN 1 ELSE 0)]]

\* Mutant: a working set is merged as soon as its package has been reviewed.
CompleteAndMerge(d) ==
  /\ stage = "parallel"
  /\ Contains(Parallel, d) /\ d \notin admitted
  /\ \/ /\ future[d] = "package"
        /\ main' = MergedFrom(Applied(main, d), DeltaFrom(work[d], Empty))
        /\ admitted' = admitted \cup {d}
        /\ UNCHANGED stage
     \/ /\ future[d] = "exception"
        /\ stage' = "failed"
        /\ UNCHANGED <<main, admitted>>
  /\ UNCHANGED <<turn, future, work>>

\* as_completed: packages are reviewed in the order of completion, and an
\* exception ends the round.
Complete(d) ==
  /\ stage = "parallel"
  /\ Contains(Parallel, d) /\ d \notin admitted
  /\ \/ /\ future[d] = "package"
        /\ main' = Applied(main, d)
        /\ admitted' = admitted \cup {d}
        /\ UNCHANGED stage
     \/ /\ future[d] = "exception"
        /\ stage' = "failed"
        /\ UNCHANGED <<main, admitted>>
  /\ UNCHANGED <<turn, future, work>>

\* Deltas are merged in canonical order.  Nothing wrote to the main store
\* between the baselines and the threads, so that all baselines are the same.
MergedAll ==
  LET upTo[n \in 0 .. Len(Parallel)] ==
        IF n = 0 THEN main
        ELSE MergedFrom(upTo[n - 1], DeltaFrom(work[Parallel[n]], Seeded(Empty)))
  IN upTo[Len(Parallel)]

Merge ==
  /\ stage = "parallel"
  /\ ToSet(Parallel) \subseteq admitted
  /\ main' = MergedAll
  /\ stage' = "sequential"
  /\ UNCHANGED <<turn, future, admitted, work>>

Follow ==
  /\ stage = "sequential"
  /\ turn <= Len(Sequential)
  /\ LET d == Sequential[turn]
     IN \/ /\ future[d] = "package"
           /\ main' = Applied(main, d)
           /\ admitted' = admitted \cup {d}
           /\ turn' = turn + 1
           /\ UNCHANGED stage
        \/ /\ future[d] = "exception"
           /\ stage' = "failed"
           /\ UNCHANGED <<main, admitted, turn>>
  /\ UNCHANGED <<future, work>>

Begun(d) == \E t \in TasksOf[d] : main.outputs[t] > 0

\* No task of the department meets its run condition.
Skip ==
  /\ stage = "sequential"
  /\ turn <= Len(Sequential)
  /\ future[Sequential[turn]] = Nothing /\ ~ Begun(Sequential[turn])
  /\ turn' = turn + 1
  /\ UNCHANGED <<stage, future, admitted, work, main>>

\* The hard token cap, tested after a department, leaves out those that follow.
Close ==
  /\ stage = "sequential"
  /\ turn <= Len(Sequential) =>
       turn > 1 /\ future[Sequential[turn]] = Nothing /\ ~ Begun(Sequential[turn])
  /\ stage' = "done"
  /\ UNCHANGED <<turn, future, admitted, work, main>>

\* The context is exported, and read again by a resume.
Reload ==
  /\ stage = "done"
  /\ main' = FromSnapshot(Exported(main))
  /\ UNCHANGED <<stage, turn, future, admitted, work>>

StoreNext ==
  \/ \E d \in Departments : \/ \E t \in TasksOf[d] : Research(d, t) \/ Review(d, t)
                            \/ HandIn(d) \/ Abort(d) \/ Complete(d)
  \/ Merge \/ Follow \/ Skip \/ Close \/ Reload

StoreSpec == StoreInit /\ [][StoreNext]_storeVars

-----------------------------------------------------------------------------
(* What readers of the store rely on.                                       *)

Fact == UNION {ToSet(FactsOf[t]) : t \in Tasks}

Stores ==
  [facts : Seq(Fact),
   reports : Seq(Report), packets : [Report -> Nat], usage : Nat,
   outputs : [Tasks -> Nat],
   review : [Tasks -> Verdict \cup {Nothing}], history : [Tasks -> Seq(Verdict)],
   packages : SUBSET Departments]

\* Every variable has its type.
StoreTypeOK ==
  /\ stage \in {"parallel", "sequential", "done", "failed"}
  /\ turn \in 1 .. Len(Sequential) + 1
  /\ future \in [Departments -> {"package", "exception", Nothing}]
  /\ admitted \subseteq Departments
  /\ work \in [ToSet(Parallel) -> Stores]
  /\ main \in Stores

\* The reports that the threads of the batch have made, department after department.
BatchReports(sets) ==
  LET upTo[n \in 0 .. Len(Parallel)] ==
        IF n = 0 THEN <<>> ELSE upTo[n - 1] \o sets[Parallel[n]].reports
  IN upTo[Len(Parallel)]

OfBatch(r) == \E d \in ToSet(Parallel) : r[1] \in TasksOf[d]

HasBatch(s) ==
  LET batch == BatchReports(work)
  IN /\ IsPrefix(batch, s.reports)
     /\ \A i \in Len(batch) + 1 .. Len(s.reports) : ~ OfBatch(s.reports[i])

\* The reports of the batch reach the store all at once or not at all, each once,
\* department after department in canonical order, whatever order the threads
\* finished in and whichever of them raised; and the usage that is billed is that
\* of the reports there (delta_from, merge_from).
BatchIsAtomic ==
  /\ stage = "parallel" => main.reports = <<>>
  /\ stage \in {"sequential", "done"} => HasBatch(main)
  /\ stage = "failed" => main.reports = <<>> \/ HasBatch(main)
  /\ main.usage = Len(main.reports)

\* No evidence is lost or made up: in every state a packet is in the store once if the
\* report that found it is there and once more if a reviewed package has it, and before
\* the merge only evidence of reviewed packages is there.
EvidenceIsAccounted ==
  /\ \A r \in Report :
       main.packets[r] = (IF r \in ToSet(main.reports) THEN 1 ELSE 0)
                         + Cardinality({d \in admitted : r \in Packaged(Store(d), d)})
  /\ stage = "parallel" =>
       \A r \in Report : main.packets[r] > 0 => \E d \in admitted : r \in ToSet(work[d].reports)

\* The review is the last of the history, and none is of a report that is not there.
ReviewsAgree(s, t) ==
  /\ s.review[t] = IF s.history[t] = <<>> THEN Nothing ELSE Last(s.history[t])
  /\ \A i \in DOMAIN s.history[t] : s.history[t][i].attempt <= s.outputs[t]

\* What the store says of a task is one story: its reports are there from the first to
\* the one the payload is of, each once, the review is the last one of its history, and
\* no review is of a report that is not there.
StoriesAgree ==
  /\ IsInjective(main.reports)
  /\ \A r \in Report : r \in ToSet(main.reports) <=> r[2] <= main.outputs[r[1]]
  /\ \A t \in Tasks : ReviewsAgree(main, t)

\* The main store is whole whatever the threads do: a department's working set arrives all
\* or not at all, evidence is counted as often as it was admitted, and task, report and
\* review tell one story (create_working_set, delta_from, merge_from).
StoreIsWhole == StoreTypeOK /\ BatchIsAtomic /\ EvidenceIsAccounted /\ StoriesAgree

\* Who reads the context again sees what the run saw: neither an export nor the
\* resumes after it change what the next export says (snapshot, from_snapshot).
ExportsAreStable == [][stage = "done" => Exported(main') = Exported(main)]_storeVars
=============================================================================
