--------------------------- MODULE SupervisorLoop ---------------------------
(***************************************************************************)
(* The first round (orchestration/supervisor_loop.py, run_supervisor_loop). *)
(*                                                                         *)
(* The parallel departments run in threads on isolated working sets of the  *)
(* memory store; the main thread admits each package as its future          *)
(* completes and merges the working sets afterwards.  The sequential        *)
(* departments then run one by one on the main store.  A department is what *)
(* its contract promises (DepartmentContract): any promised result, or an   *)
(* exception.                                                               *)
(*                                                                         *)
(* A section follows from the admission in packages.  The gaps a package    *)
(* lists are left open until the round is classified, and so is whether the *)
(* hard token cap is reached.                                               *)
(***************************************************************************)
EXTENDS Naturals, Sequences, FiniteSets, Packages

CONSTANTS Parallel,       \* the parallel batch, in canonical order
          Sequential,     \* the departments after it, in order
          TasksOf,        \* department -> its task keys, in assignment order
          NeedsAccepted,  \* department -> require_any_accepted_task
          RunCondition,   \* task key -> its run_condition
          QuestionsOf,    \* task key -> the meeting questions it covers
          Questions       \* every meeting question, synthesis included

SetOf(s) == {s[i] : i \in DOMAIN s}

ParallelSet == SetOf(Parallel)
Departments == ParallelSet \cup SetOf(Sequential)
TaskSet(d) == SetOf(TasksOf[d])
Tasks == UNION {TaskSet(d) : d \in Departments}
ParallelTasks == UNION {TaskSet(d) : d \in ParallelSet}

\* run_supervisor_loop has another branch for a batch of one; every runtime
\* is built with both parallel departments.  Only the sequential part of the
\* loop evaluates run conditions, and no task of the batch has one.
ASSUME DepartmentsAssumption ==
  /\ Parallel \in Seq(STRING)
  /\ Len(Parallel) > 1
  /\ Sequential \in Seq(STRING)
  /\ TasksOf \in [Departments -> Seq(STRING)]
  /\ \A d, e \in Departments : d # e => TaskSet(d) \cap TaskSet(e) = {}
  /\ \A i, j \in DOMAIN Parallel : Parallel[i] = Parallel[j] => i = j
  /\ \A i, j \in DOMAIN Sequential : Sequential[i] = Sequential[j] => i = j
  /\ ParallelSet \cap SetOf(Sequential) = {}

ASSUME TasksAssumption ==
  /\ NeedsAccepted \in [Departments -> BOOLEAN]
  /\ RunCondition \in [Tasks -> STRING]
  /\ \A t \in ParallelTasks : RunCondition[t] = "none"
  /\ QuestionsOf \in [Tasks -> SUBSET Questions]

VARIABLES
  phase,        \* "parallel", "draining", "sequential", "done" or "failed"
  future,       \* parallel department -> None while it runs, its result, Raised
  reviewed,     \* parallel departments in the order their packages were reviewed
  next,         \* index of the next sequential department
  running,      \* tasks of the sequential department that runs now, {} if none
  runStatus,    \* run_context.active_tasks: task -> status
  memory,       \* short_term_memory.task_statuses: task -> status
  matrix,       \* answer_matrix: question -> status
  packages,     \* department_packages: department -> admission decision
  buyerPoints,  \* the Buyer's raw package has accepted points
  backlog,      \* completed_backlog: the entries of each task, in order
  facts,        \* whose facts the main store holds, in list order
  capped,       \* the hard token cap stopped the loop
  bucket        \* first_round_resolution

board == <<runStatus, memory, matrix, packages, buyerPoints, backlog, facts>>
vars == <<phase, future, reviewed, next, running, board, capped,
          bucket>>

Raised == [raised |-> TRUE]

RunStatus == {"assigned", "skipped"} \cup TaskStatus
StoreStatus == {"absent", "pending", "skipped"} \cup TaskStatus

Results(d) == Promised(TaskSet(d), NeedsAccepted[d])

(***************************************************************************)
(* Initially the tasks are recorded and the parallel departments assigned   *)
(* and submitted in canonical order.                                        *)
(***************************************************************************)
Init ==
  /\ phase = "parallel"
  /\ future = [d \in ParallelSet |-> None]
  /\ reviewed = <<>>
  /\ next = 1
  /\ running = {}
  /\ runStatus = [t \in Tasks |-> "assigned"]
  /\ memory = [t \in Tasks |-> "absent"]
  /\ matrix = [q \in Questions |-> "pending"]
  /\ packages = [d \in Departments |-> "none"]
  /\ buyerPoints = FALSE
  /\ backlog = [t \in Tasks |-> <<>>]
  /\ facts = <<>>
  /\ capped = FALSE
  /\ bucket = "none"

(***************************************************************************)
(* Recording what became of tasks.                                          *)
(***************************************************************************)

\* f with the values of g at the points of S.
Overlay(f, S, g) == [x \in DOMAIN f |-> IF x \in S THEN g[x] ELSE f[x]]

\* The status the review records for each task of d: completed_tasks has an
\* entry for each task the department ran.
Reported(d, r) ==
  [t \in TaskSet(d) |-> IF t \in DOMAIN r.status THEN r.status[t] ELSE "degraded"]

\* The tasks of d are recorded in assignment order: of those in S that cover
\* q, the last one decides.
Covering(d, S, q) ==
  {i \in DOMAIN TasksOf[d] : TasksOf[d][i] \in S /\ q \in QuestionsOf[TasksOf[d][i]]}

\* Mutant: a skipped or blocked task leaves the entry of its question alone.
UpdateMatrixDegradedOnly(d, S, status) ==
  [q \in Questions |->
     LET I == Covering(d, S, q) IN
     IF I = {} THEN matrix[q]
     ELSE IF status[TasksOf[d][CHOOSE i \in I : \A j \in I : j <= i]] = "degraded"
          THEN "partially_answered" ELSE "answered"]

\* _update_answer_matrix_from_task for the tasks of d in S
UpdateMatrix(d, S, status) ==
  [q \in Questions |->
     LET I == Covering(d, S, q)
         last == CHOOSE i \in I : \A j \in I : j <= i
     IN IF I = {} THEN matrix[q] ELSE MatrixStatus(status[TasksOf[d][last]])]

\* store is the main store as the department left it.
Record(d, S, status, store) ==
  /\ runStatus' = Overlay(runStatus, S, status)
  /\ memory' = Overlay(store, S, status)
  /\ matrix' = UpdateMatrix(d, S, status)
  /\ backlog' = [t \in Tasks |-> IF t \in S THEN Append(backlog[t], status[t])
                                 ELSE backlog[t]]

\* _apply_acceptance_gate; the raw package stays in the envelope, and with it
\* the accepted points the run conditions ask the Buyer's package for.
AdmitPackage(d, r) ==
  /\ \E substantive \in BOOLEAN :
       packages' = [packages EXCEPT ![d] = Admit(r, substantive)]
  /\ IF d = "BuyerDepartment" THEN buyerPoints' \in BOOLEAN
     ELSE UNCHANGED buyerPoints

(***************************************************************************)
(* The parallel batch.                                                      *)
(***************************************************************************)

\* A department thread returns, or run raises.
Complete(d, r) ==
  /\ phase \in {"parallel", "draining"}
  /\ future[d] = None
  /\ future' = [future EXCEPT ![d] = r]
  /\ UNCHANGED <<phase, reviewed, next, running, board, capped,
                 bucket>>

\* The main thread takes any finished future as_completed yields.
Review(d) ==
  /\ phase = "parallel"
  /\ future[d] \notin {None, Raised}
  /\ d \notin SetOf(reviewed)
  /\ reviewed' = Append(reviewed, d)
  /\ AdmitPackage(d, future[d])
  /\ Record(d, TaskSet(d), Reported(d, future[d]), memory)
  /\ UNCHANGED <<phase, future, next, running, facts, capped, bucket>>

\* future.result() raises in the main thread: no other package is reviewed,
\* no working set merged.
ReviewRaised(d) ==
  /\ phase = "parallel"
  /\ future[d] = Raised
  /\ phase' = "draining"
  /\ UNCHANGED <<future, reviewed, next, running, board, capped,
                 bucket>>

\* Mutant: waits until every department has delivered.
DrainDelivered ==
  /\ phase = "draining"
  /\ \A d \in ParallelSet : future[d] \notin {None, Raised}
  /\ phase' = "failed"
  /\ UNCHANGED <<future, reviewed, next, running, board, capped,
                 bucket>>

\* The pool's exit waits for the threads that still run.
Drain ==
  /\ phase = "draining"
  /\ \A d \in ParallelSet : future[d] # None
  /\ phase' = "failed"
  /\ UNCHANGED <<future, reviewed, next, running, board, capped,
                 bucket>>

\* merge_from on one task status: value is the working set's, "absent" when
\* its delta has none.  A pending one does not overwrite; any other conflict
\* is logged and the working set wins.
MergedStatus(current, value) ==
  IF \/ value = "absent"
     \/ value = "pending" /\ current \notin {"pending", "absent"}
  THEN current ELSE value

\* Mutant: the deltas are merged in the order the packages were reviewed.
MergedFactsAsReviewed == facts \o reviewed

\* Deltas are merged in canonical department order.
MergedFacts == facts \o Parallel

\* The futures and the working sets are not read again.
Merge ==
  /\ phase = "parallel"
  /\ SetOf(reviewed) = ParallelSet
  /\ memory' = [t \in Tasks |->
                  IF t \in ParallelTasks
                  THEN LET d == CHOOSE d \in ParallelSet : t \in TaskSet(d)
                       IN MergedStatus(memory[t], future[d].memory[t])
                  ELSE memory[t]]
  /\ facts' = MergedFacts
  /\ future' = [d \in ParallelSet |-> None]
  /\ phase' = "sequential"
  /\ UNCHANGED <<reviewed, next, running, runStatus, matrix, packages,
                 buyerPoints, backlog, capped, bucket>>

(***************************************************************************)
(* The sequential departments.                                              *)
(***************************************************************************)

\* Mutant: what the Supervisor rejected counts too.
ConditionMetRejectedToo(condition) ==
  CASE condition = "buyer_department_has_prioritized_firms" -> buyerPoints
    [] condition = "contact_discovery_completed" ->
         /\ "contact_discovery" \in Tasks
         /\ memory["contact_discovery"] \in {"accepted", "degraded"}
    [] OTHER -> TRUE

\* _CONDITION_EVALUATORS; a task with no condition, or one nobody knows, runs.
ConditionMet(condition) ==
  CASE condition = "buyer_department_has_prioritized_firms" ->
         /\ "BuyerDepartment" \in Departments
         /\ packages["BuyerDepartment"] \notin {"none", "rejected"}
         /\ buyerPoints
    [] condition = "contact_discovery_completed" ->
         /\ "contact_discovery" \in Tasks
         /\ memory["contact_discovery"] \in {"accepted", "degraded"}
    [] OTHER -> TRUE

\* evaluate_run_conditions: all conditions of a department are evaluated on
\* the state before it runs.
Runnable(d) == {t \in TaskSet(d) : ConditionMet(RunCondition[t])}

Current == Sequential[next]

\* The department is assigned, its conditions evaluated, the skipped tasks
\* recorded.  With nothing to run the loop goes on.
StartSequential ==
  /\ phase = "sequential"
  /\ next <= Len(Sequential)
  /\ running = {}
  /\ running' = Runnable(Current)
  /\ next' = IF Runnable(Current) = {} THEN next + 1 ELSE next
  /\ Record(Current, TaskSet(Current) \ Runnable(Current),
            [t \in TaskSet(Current) |-> "skipped"], memory)
  /\ UNCHANGED <<phase, future, reviewed, packages, buyerPoints, facts, capped,
                 bucket>>

\* The hard token cap leaves out the departments that are left; beyond the
\* soft budget there is only a warning.
NextDepartment(hard) == next' = IF hard THEN Len(Sequential) + 1 ELSE next + 1

\* Mutant: the review loop goes over `da` as the assignment step does.
FinishSequentialStale ==
  /\ phase = "sequential"
  /\ running # {}
  /\ \E r \in Promised(running, NeedsAccepted[Current]) :
       /\ AdmitPackage(Current, r)
       /\ Record(reviewed[Len(reviewed)], TaskSet(reviewed[Len(reviewed)]),
                 Reported(reviewed[Len(reviewed)], r),
                 Overlay(memory, running, r.memory))
  /\ facts' = Append(facts, Current)
  /\ running' = {}
  /\ capped' \in BOOLEAN
  /\ NextDepartment(capped')
  /\ UNCHANGED <<phase, future, reviewed, bucket>>

\* The department wrote to the main store as it went.  The review then goes
\* over all its tasks, the skipped ones included.
FinishSequential ==
  /\ phase = "sequential"
  /\ running # {}
  /\ \E r \in Promised(running, NeedsAccepted[Current]) :
       /\ AdmitPackage(Current, r)
       /\ Record(Current, TaskSet(Current), Reported(Current, r),
                 Overlay(memory, running, r.memory))
  /\ facts' = Append(facts, Current)
  /\ running' = {}
  /\ capped' \in BOOLEAN
  /\ NextDepartment(capped')
  /\ UNCHANGED <<phase, future, reviewed, bucket>>

\* run raises: nothing is reviewed, what the department wrote stays.
RaiseSequential ==
  /\ phase = "sequential"
  /\ running # {}
  /\ phase' = "failed"
  /\ \E m \in [running -> WorkingStatus] : memory' = Overlay(memory, running, m)
  /\ facts' \in {facts, Append(facts, Current)}
  /\ UNCHANGED <<future, reviewed, next, running, runStatus, matrix, packages,
                 buyerPoints, backlog, capped, bucket>>

\* ResolutionController.classify; gaps are the reviewed departments whose
\* package lists typed gaps.
BucketFor(gaps) ==
  Classified(\/ \E d \in Departments : packages[d] = "rejected"
             \/ \E t \in Tasks : memory[t] = "blocked",
             gaps \ {"ContactDepartment"} # {},
             gaps # {},
             \E q \in Questions : matrix[q] \in {"pending", "blocked"})

Classify ==
  /\ phase = "sequential"
  /\ next > Len(Sequential)
  /\ \E gaps \in SUBSET {d \in Departments : packages[d] # "none"} :
       bucket' = BucketFor(gaps)
  /\ phase' = "done"
  /\ UNCHANGED <<future, reviewed, next, running, board, capped>>

Next ==
  \/ \E d \in ParallelSet : \E r \in Results(d) \cup {Raised} : Complete(d, r)
  \/ \E d \in ParallelSet : Review(d)
  \/ \E d \in ParallelSet : ReviewRaised(d)
  \/ Drain
  \/ Merge
  \/ StartSequential
  \/ FinishSequential
  \/ RaiseSequential
  \/ Classify

Spec == Init /\ [][Next]_vars

\* Every department returns: its chat is limited in rounds and has a fallback
\* package.  The main thread runs whenever it can.
FairSpec == Spec /\ WF_vars(Next)

-----------------------------------------------------------------------------
(* What the round promises.                                                 *)

\* Types of the state: what the run context, the memory store, the answer
\* matrix and the resolution may hold.
TypeOK ==
  /\ phase \in {"parallel", "draining", "sequential", "done", "failed"}
  /\ DOMAIN future = ParallelSet
  /\ \A d \in ParallelSet : future[d] \in Results(d) \cup {None, Raised}
  /\ reviewed \in Seq(ParallelSet)
  /\ next \in 1 .. (Len(Sequential) + 1)
  /\ running \in SUBSET Tasks
  /\ runStatus \in [Tasks -> RunStatus]
  /\ memory \in [Tasks -> StoreStatus]
  /\ matrix \in [Questions -> MatrixValue]
  /\ packages \in [Departments -> AdmissionDecision \cup {"none"}]
  /\ buyerPoints \in BOOLEAN
  /\ backlog \in [Tasks -> Seq(RunStatus)]
  /\ facts \in Seq(Departments)
  /\ capped \in BOOLEAN
  /\ bucket \in Bucket \cup {"none"}

\* The three records of a task's fate agree at every moment, although they
\* are written by the review, and the memory store by the department and the
\* merge as well: the last backlog entry is the run status, and so is the
\* memory store's unless the merge put a Critic's approval in its place.  No
\* intermediate "pending" of a working set survives a verdict.
VerdictsAgree ==
  \A t \in Tasks :
    runStatus[t] # "assigned" =>
      /\ backlog[t] # <<>>
      /\ backlog[t][Len(backlog[t])] = runStatus[t]
      /\ \/ memory[t] = runStatus[t]
         \/ t \in ParallelTasks /\ memory[t] = "accepted"

\* A verdict stands: once the review has recorded what became of a task or
\* how a package was admitted, no later department's review touches it.
VerdictsStand ==
  [][/\ \A t \in Tasks : runStatus[t] \in TaskStatus => runStatus'[t] = runStatus[t]
     /\ \A d \in Departments : packages[d] # "none" => packages'[d] = packages[d]]_vars

\* A package is admitted without reservation only on an accepted task of its
\* department, recorded as such in the run context.
AdmissionIsEarned ==
  \A d \in Departments :
    packages[d] = "accepted" => \E t \in TaskSet(d) : runStatus[t] = "accepted"

\* A meeting question counts as answered only while some task that covers it
\* is accepted in the run context, whichever of several tasks wrote last.
AnswersAreEarned ==
  \A q \in Questions :
    matrix[q] = "answered" =>
      \E t \in Tasks : q \in QuestionsOf[t] /\ runStatus[t] = "accepted"

\* No package and no question is credited with more than some accepted task
\* earned (accept_department_package, the answer matrix).
CreditIsEarned == AdmissionIsEarned /\ AnswersAreEarned

\* Work that depends on prioritized buyer firms has a verdict of its own only
\* if the Buyer's package was admitted with accepted points, and still is.  (A
\* degraded task may be a skipped one the review recorded again.)
ContactsNeedBuyers ==
  \A t \in Tasks :
    /\ RunCondition[t] = "buyer_department_has_prioritized_firms"
    /\ runStatus[t] \in {"accepted", "blocked"}
    => /\ buyerPoints
       /\ packages["BuyerDepartment"] \in {"accepted", "accepted_with_gaps"}

\* Nothing is forgotten: when the round is classified every task has a
\* verdict in the run context, the memory store and the backlog, unless the
\* hard token cap left its department out.
EveryTaskSettled ==
  phase = "done" /\ ~ capped =>
    \A t \in Tasks :
      /\ runStatus[t] # "assigned"
      /\ memory[t] \notin {"absent", "pending"}
      /\ backlog[t] # <<>>

\* The facts of the main store are in canonical department order, each
\* department's once, whatever order the threads finished in.
FactsInRunOrder ==
  LET order == Parallel \o Sequential
      at(d) == CHOOSE i \in DOMAIN order : order[i] = d
  IN \A i, j \in DOMAIN facts : i < j => at(facts[i]) < at(facts[j])

\* What the first round leaves is one account of what happened, whatever order
\* the threads finished in: no record contradicts another, forgets a task or
\* depends on the schedule (_review_package, merge_from).
OneAccount == VerdictsAgree /\ EveryTaskSettled /\ FactsInRunOrder

\* The round ends, in a classification or in an exception of a department.
LoopEnds == <>(phase \in {"done", "failed"})

(* What the repository says of the program, and it does not do.             *)

\* contact_qualification runs when contact discovery was completed; but its
\* condition is evaluated before the department that discovers runs.
QualificationFollowsDiscovery ==
  phase = "done" /\ runStatus["contact_discovery"] = "accepted" =>
    "skipped" \notin SetOf(backlog["contact_qualification"])
=============================================================================
