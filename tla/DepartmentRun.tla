--------------------------- MODULE DepartmentRun ---------------------------
(***************************************************************************)
(* One department's group chat (agents/lead.py, DepartmentLeadAgent.run).  *)
(*                                                                         *)
(* The Lead, the Researcher, the Critic, the Coding specialist and the     *)
(* Judge are language-model agents: the code decides what each of their    *)
(* tools does to the shared DepartmentRunState, the models decide in which *)
(* order the tools are called and for which task.  Every tool is one       *)
(* action here and every order of calls is a behaviour; the speaker        *)
(* selector does not exclude any of them.                                  *)
(*                                                                         *)
(* A research report is abstracted to what the deterministic Critic and    *)
(* the dependency guard read of it: how many core rules it passes, whether *)
(* it passes everything the Critic asks for, and whether it carries facts. *)
(***************************************************************************)
EXTENDS Naturals, Sequences, FiniteSets, Packages

CONSTANTS Assignments,     \* the department's task keys, in assignment order
          DependsOn,       \* task key -> the task keys it depends on
          MaxTaskRetries,  \* settings.MAX_TASK_RETRIES
          NeedsAccepted,   \* require_any_accepted_task of the policy gate
          Reports,         \* the kinds of research report the worker returns
          AttemptBound,    \* model bound: executions of one task
          FailureBound     \* model bound: worker failures in one chat

Tasks == {Assignments[i] : i \in DOMAIN Assignments}

\* How much of the core rules a payload passes.
CoreLevel == {"none", "some", "all"}

\* What the Critic and is_dependency_satisfied read of a worker report.
ReportType == [core : CoreLevel, approved : BOOLEAN, facts : BOOLEAN]

ASSUME AssignmentsAssumption ==
  /\ Assignments \in Seq(STRING)
  /\ Len(Assignments) > 0
  /\ \A i, j \in DOMAIN Assignments : Assignments[i] = Assignments[j] => i = j

ASSUME DependsOnAssumption == DependsOn \in [Tasks -> SUBSET STRING]

ASSUME NeedsAcceptedAssumption == NeedsAccepted \in BOOLEAN

ASSUME BoundsAssumption ==
  /\ MaxTaskRetries \in Nat \ {0}
  /\ AttemptBound \in Nat
  /\ FailureBound \in Nat
  /\ FailureBound < AttemptBound   \* the bounds never stop the auto-recovery

\* The Critic approves only a payload that fails no rule at all.
ASSUME ReportsAssumption ==
  /\ Reports \subseteq ReportType
  /\ \A r \in Reports : r.approved => r.core = "all"

VARIABLES
  attempts,      \* run_state.attempts
  artifacts,     \* run_state.task_artifacts, oldest first
  review,        \* the latest entry of run_state.review_artifacts, per task
  decision,      \* the latest entry of run_state.decision_artifacts, per task
  failures,      \* Len(tool_errors) of run_research
  blockedFinalizeAttempts,
  memoryStatus,  \* task_statuses of the memory store handed to the department
  package,       \* self._completed_package
  chat           \* the group chat: running, terminating (TERMINATE sent), ended

vars == <<attempts, artifacts, review, decision, failures,
          blockedFinalizeAttempts, memoryStatus, package, chat>>

\* The variables no tool but run_research changes.
researchVars == <<attempts, artifacts, failures>>

Outcome == {"accepted", "accepted_with_gaps", "closed_unresolved",
            "blocked_by_dependency"}

\* OUTCOME_TO_TASK_STATUS, as the judge and the runtime fill task_status.
StatusOf(outcome) ==
  CASE outcome = "accepted"              -> "accepted"
    [] outcome = "blocked_by_dependency" -> "blocked"
    [] OTHER                             -> "degraded"

Artifact == [attempt : Nat, report : ReportType, blocked : BOOLEAN]

\* "unrated" is the review judge_decision invents when the Critic never ran:
\* no core rule is counted in it.
Review == [attempt : Nat, approved : BOOLEAN, core : CoreLevel \cup {"unrated"}]

Decision == [attempt : Nat, outcome : Outcome, by : {"lead", "judge", "runtime"}]

Package == [kind   : {"finalized", "fallback"},
            status : [Tasks -> TaskStatus],
            gate   : Gate]

TypeOK ==
  /\ attempts \in [Tasks -> Nat]
  /\ artifacts \in [Tasks -> Seq(Artifact)]
  /\ review \in [Tasks -> Review \cup {None}]
  /\ decision \in [Tasks -> Decision \cup {None}]
  /\ failures \in Nat
  /\ blockedFinalizeAttempts \in Nat
  /\ memoryStatus \in [Tasks -> WorkingStatus]
  /\ package \in Package \cup {None}
  /\ chat \in {"running", "terminating", "ended"}

Init ==
  /\ attempts = [t \in Tasks |-> 0]
  /\ artifacts = [t \in Tasks |-> <<>>]
  /\ review = [t \in Tasks |-> None]
  /\ decision = [t \in Tasks |-> None]
  /\ failures = 0
  /\ blockedFinalizeAttempts = 0
  /\ memoryStatus = [t \in Tasks |-> "absent"]
  /\ package = None
  /\ chat = "running"

-----------------------------------------------------------------------------
(* Accessors of DepartmentRunState.                                         *)

HasArtifact(t) == artifacts[t] # <<>>

LatestArtifact(t) == artifacts[t][Len(artifacts[t])]

\* A key outside this department has no decision, review or artifact here, so
\* it is never satisfied.
IsDependencySatisfied(d) ==
  /\ d \in Tasks
  /\ \/ /\ decision[d] # None
        /\ decision[d].outcome \in {"accepted", "accepted_with_gaps"}
     \/ /\ decision[d] = None
        /\ \/ /\ review[d] # None
              /\ review[d].approved
           \/ /\ HasArtifact(d)
              /\ LatestArtifact(d).report.facts

LocalDependencies(t) == DependsOn[t] \cap Tasks

DependencyBlocked(t) ==
  \E d \in LocalDependencies(t) : ~ IsDependencySatisfied(d)

WasBlocked(t) ==
  /\ decision[t] # None
  /\ decision[t].outcome = "blocked_by_dependency"

\* Mutant: an approved review is retried too.
NeedsRetryAlways(t) == review[t] # None

NeedsRetry(t) ==
  /\ review[t] # None
  /\ ~ review[t].approved

\* Mutant: without counted core rules nothing failed, so the Judge accepts.
JudgeOutcomeLenient(core) ==
  CASE core = "none" -> "closed_unresolved"
    [] core = "some" -> "accepted_with_gaps"
    [] OTHER         -> "accepted"

\* JudgeAgent.decide on the core counts of a review.
JudgeOutcome(core) ==
  CASE core = "none"    -> "closed_unresolved"
    [] core = "some"    -> "accepted_with_gaps"
    [] core = "unrated" -> "accepted_with_gaps"
    [] core = "all"     -> "accepted"

\* CriticAgent.review: a function of the payload alone.
CriticReview(a) ==
  [attempt |-> a.attempt, approved |-> a.report.approved, core |-> a.report.core]

\* The review judge_decision stores when there is none.
RuntimeFallbackReview(a) ==
  [attempt |-> a.attempt, approved |-> FALSE, core |-> "unrated"]

EmptyReport == [core |-> "none", approved |-> FALSE, facts |-> FALSE]

-----------------------------------------------------------------------------
(* run_research: the dependency guard, the duplicate / retry policy, then   *)
(* the worker.                                                              *)

\* The guard records an empty artifact and a blocked decision.
ResearchBlocked(t) ==
  /\ DependencyBlocked(t)
  /\ attempts[t] < AttemptBound
  /\ attempts' = [attempts EXCEPT ![t] = @ + 1]
  /\ artifacts' = [artifacts EXCEPT ![t] = Append(@,
                     [attempt |-> attempts[t] + 1, report |-> EmptyReport,
                      blocked |-> TRUE])]
  /\ decision' = [decision EXCEPT ![t] =
                     [attempt |-> attempts[t] + 1,
                      outcome |-> "blocked_by_dependency", by |-> "runtime"]]
  /\ UNCHANGED <<failures, memoryStatus>>

\* Mutant: one execution too many.
MayExecuteOffByOne(t) ==
  /\ ~ DependencyBlocked(t)
  /\ \/ ~ HasArtifact(t)
     \/ WasBlocked(t) /\ \A d \in DependsOn[t] : IsDependencySatisfied(d)
     \/ ~ WasBlocked(t) /\ NeedsRetry(t) /\ attempts[t] <= MaxTaskRetries

\* The worker may run: nothing recorded yet, a block that all dependencies
\* lifted, or a rejected latest review with retries left.
MayExecute(t) ==
  /\ ~ DependencyBlocked(t)
  /\ \/ ~ HasArtifact(t)
     \/ WasBlocked(t) /\ \A d \in DependsOn[t] : IsDependencySatisfied(d)
     \/ ~ WasBlocked(t) /\ NeedsRetry(t) /\ attempts[t] < MaxTaskRetries

\* Mutant: the memory store never learns of the report.
ResearchExecuteNotIngested(t) ==
  /\ MayExecute(t)
  /\ attempts[t] < AttemptBound
  /\ attempts' = [attempts EXCEPT ![t] = @ + 1]
  /\ \/ /\ \E r \in Reports :
             artifacts' = [artifacts EXCEPT ![t] = Append(@,
                             [attempt |-> attempts[t] + 1, report |-> r,
                              blocked |-> FALSE])]
        /\ UNCHANGED failures
     \/ /\ failures < FailureBound
        /\ failures' = failures + 1
        /\ UNCHANGED artifacts
  /\ UNCHANGED <<decision, memoryStatus>>

ResearchExecute(t) ==
  /\ MayExecute(t)
  /\ attempts[t] < AttemptBound
  /\ attempts' = [attempts EXCEPT ![t] = @ + 1]
  /\ \/ \E r \in Reports :
          /\ artifacts' = [artifacts EXCEPT ![t] = Append(@,
                             [attempt |-> attempts[t] + 1, report |-> r,
                              blocked |-> FALSE])]
          /\ memoryStatus' = [memoryStatus EXCEPT
                                ![t] = IF @ = "absent" THEN "pending" ELSE @]
          /\ UNCHANGED failures
     \/ /\ failures < FailureBound
        /\ failures' = failures + 1
        /\ UNCHANGED <<artifacts, memoryStatus>>
  /\ UNCHANGED decision

\* A rejected review with no retry left closes the task.
ResearchRetryLimit(t) ==
  /\ ~ DependencyBlocked(t)
  /\ HasArtifact(t)
  /\ ~ WasBlocked(t)
  /\ NeedsRetry(t)
  /\ attempts[t] >= MaxTaskRetries
  /\ decision' = [decision EXCEPT ![t] =
                    [attempt |-> attempts[t], outcome |-> "closed_unresolved",
                     by |-> "runtime"]]
  /\ UNCHANGED <<attempts, artifacts, failures, memoryStatus>>

\* The remaining calls ("already_completed", "still_blocked") change nothing.
Research(t) ==
  /\ ResearchBlocked(t) \/ ResearchExecute(t) \/ ResearchRetryLimit(t)
  /\ UNCHANGED <<review, package>>

RunResearch(t) ==
  /\ chat = "running"
  /\ Research(t)
  /\ UNCHANGED <<blockedFinalizeAttempts, chat>>

-----------------------------------------------------------------------------
(* The Critic's and the Judge's tools.  (The Coding specialist's tool only  *)
(* stores search queries for the next worker call; which report that call    *)
(* returns is left open anyway.)                                             *)

ReviewResearch(t) ==
  /\ chat = "running"
  /\ HasArtifact(t)
  /\ review' = [review EXCEPT ![t] = CriticReview(LatestArtifact(t))]
  /\ memoryStatus' = [memoryStatus EXCEPT ![t] =
                        IF LatestArtifact(t).report.approved THEN "accepted"
                                                             ELSE "pending"]
  /\ UNCHANGED <<researchVars, decision,
                 blockedFinalizeAttempts, package, chat>>

\* Before any research the Judge closes the task; without a Critic review it
\* rules on an invented one.
JudgeDecision(t) ==
  /\ chat = "running"
  /\ IF HasArtifact(t)
     THEN LET a == LatestArtifact(t)
              r == IF review[t] = None THEN RuntimeFallbackReview(a) ELSE review[t]
          IN /\ review' = [review EXCEPT ![t] = r]
             /\ decision' = [decision EXCEPT ![t] =
                               [attempt |-> a.attempt,
                                outcome |-> JudgeOutcome(r.core), by |-> "judge"]]
     ELSE /\ decision' = [decision EXCEPT ![t] =
                            [attempt |-> attempts[t],
                             outcome |-> "closed_unresolved", by |-> "judge"]]
          /\ UNCHANGED review
  /\ UNCHANGED <<researchVars, blockedFinalizeAttempts,
                 memoryStatus, package, chat>>

-----------------------------------------------------------------------------
(* finalize_package, the Lead's own tool.                                   *)

\* The tasks that keep finalize_package from assembling a package.
Incomplete == {t \in Tasks : ~ HasArtifact(t) /\ decision[t] = None}

\* t is incomplete_tasks[0].
IsNextRequired(t) ==
  \E i \in DOMAIN Assignments :
    /\ Assignments[i] = t
    /\ t \in Incomplete
    /\ \A j \in 1 .. (i - 1) : Assignments[j] \notin Incomplete

\* The first premature call only reports; from the second on it runs the
\* first missing research itself (_AUTO_RECOVER_FINALIZE_AFTER_BLOCKS = 2).
FinalizeBlocked ==
  /\ chat = "running"
  /\ Incomplete # {}
  /\ blockedFinalizeAttempts' = blockedFinalizeAttempts + 1
  /\ IF blockedFinalizeAttempts' >= 2
     THEN \E t \in Tasks : IsNextRequired(t) /\ Research(t)
     ELSE UNCHANGED <<researchVars, review, decision, memoryStatus, package>>
  /\ UNCHANGED chat

\* The decision each task is packaged with: the stored one, else the Lead's
\* implicit acceptance of an approved review, else the inline Judge.  (For an
\* approved review with a contract violation the code asks the Judge as well, who
\* accepts it: an approved review has all core rules.)
FinalDecision(t) ==
  IF decision[t] # None
  THEN decision[t]
  ELSE LET a == LatestArtifact(t)
           r == IF review[t] = None THEN CriticReview(a) ELSE review[t]
       IN IF review[t] # None /\ r.approved
          THEN [attempt |-> a.attempt, outcome |-> "accepted", by |-> "lead"]
          ELSE [attempt |-> a.attempt, outcome |-> JudgeOutcome(r.core),
                by |-> "judge"]

\* A decision that no artifact backs never counts as more than degraded.
FinalStatus(t) ==
  IF HasArtifact(t) THEN StatusOf(FinalDecision(t).outcome) ELSE "degraded"

FinalStatuses == [t \in Tasks |-> FinalStatus(t)]

\* evaluate_department_policy_gate: where the policy says so it fails without
\* an accepted task, and it may fail for missing fields or thin sources.
PolicyGate(status) ==
  {"blocked"} \cup
  (IF NeedsAccepted /\ ~ \E t \in Tasks : status[t] = "accepted"
   THEN {} ELSE {"passed"})

\* Mutant: the answer to the Lead lacks TERMINATE.
FinalizePackageNoTerminate ==
  /\ chat \in {"running", "terminating"}
  /\ Incomplete = {}
  /\ decision' = [t \in Tasks |-> FinalDecision(t)]
  /\ \E gate \in PolicyGate(FinalStatuses) :
       package' = [kind |-> "finalized", status |-> FinalStatuses, gate |-> gate]
  /\ UNCHANGED <<researchVars, review, blockedFinalizeAttempts, memoryStatus,
                 chat>>

\* One message of the Lead may carry the call more than once, so the package
\* can be assembled again before the chat notices TERMINATE.
FinalizePackage ==
  /\ chat \in {"running", "terminating"}
  /\ Incomplete = {}
  /\ decision' = [t \in Tasks |-> FinalDecision(t)]
  /\ \E gate \in IF package = None THEN PolicyGate(FinalStatuses)
                                   ELSE {package.gate} :
       package' = [kind |-> "finalized", status |-> FinalStatuses, gate |-> gate]
  /\ chat' = "terminating"
  /\ UNCHANGED <<researchVars, review,
                 blockedFinalizeAttempts, memoryStatus>>

-----------------------------------------------------------------------------
(* The end of the chat: TERMINATE was sent, or max_round was hit.           *)

\* _build_fallback_package: stored decisions first, else Critic and Judge on
\* the latest artifact.  No policy gate is evaluated.
FallbackStatus(t) ==
  CASE decision[t] # None -> StatusOf(decision[t].outcome)
    [] decision[t] = None /\ HasArtifact(t)
         -> StatusOf(JudgeOutcome(LatestArtifact(t).report.core))
    [] OTHER -> "degraded"

EndChat ==
  /\ chat = "terminating"
  /\ chat' = "ended"
  /\ UNCHANGED <<researchVars, review, decision,
                 blockedFinalizeAttempts, memoryStatus, package>>

MaxRoundHit ==
  /\ chat = "running"
  /\ chat' = "ended"
  /\ package' = [kind |-> "fallback",
                 status |-> [t \in Tasks |-> FallbackStatus(t)],
                 gate |-> "absent"]
  /\ UNCHANGED <<researchVars, review, decision,
                 blockedFinalizeAttempts, memoryStatus>>

Next ==
  \/ \E t \in Tasks : \/ RunResearch(t)
                      \/ ReviewResearch(t)
                      \/ JudgeDecision(t)
  \/ FinalizeBlocked
  \/ FinalizePackage
  \/ EndChat
  \/ MaxRoundHit

Spec == Init /\ [][Next]_vars

-----------------------------------------------------------------------------
(* What the chat promises.                                                  *)

\* Some execution of t, not necessarily the last one, passed every core rule.
CoreEvidence(t) ==
  \E i \in DOMAIN artifacts[t] : artifacts[t][i].report.core = "all"

EverBlocked(t) == \E i \in DOMAIN artifacts[t] : artifacts[t][i].blocked

\* Whatever order the agents call the tools in, and whether the package comes
\* from finalize_package or from the fallback, a task is packaged "accepted"
\* only if a research attempt of it really passed all core rules: neither a
\* judge call without research or without review, nor a stale decision, nor a
\* dependency block can conjure an acceptance.
AcceptedHasEvidence ==
  package # None =>
    \A t \in Tasks : package.status[t] = "accepted" => CoreEvidence(t)

\* Outside dependency blocks the retry limit of run_research holds: a task
\* that was executed more than once stays within MAX_TASK_RETRIES, however
\* often the agents ask (worker failures before the first artifact are free).
RetryBudget ==
  \A t \in Tasks :
    Len(artifacts[t]) > 1 /\ ~ EverBlocked(t) => attempts[t] <= MaxTaskRetries

\* An approval is never stale: unless the dependency guard has blocked the
\* task, the approved review in force is a review of the artifact that will be
\* shipped, so its accepted points describe the packaged payload.
ApprovalIsCurrent ==
  \A t \in Tasks :
    /\ review[t] # None
    /\ review[t].approved
    /\ ~ EverBlocked(t)
    => review[t].attempt = LatestArtifact(t).attempt

\* The status the memory store carries to the Supervisor is the Critic's
\* verdict in force, never the Judge's or the runtime's: it is "accepted"
\* exactly when the review in force approves, and then the evidence exists.
MemoryFollowsCritic ==
  \A t \in Tasks :
    memoryStatus[t] = "accepted"
      <=> /\ review[t] # None
          /\ review[t].approved
          /\ CoreEvidence(t)

\* The review in force binds what is shipped and what the Supervisor hears,
\* although run_research, review_research and judge_decision come in any order.
ReviewsAreBinding == ApprovalIsCurrent /\ MemoryFollowsCritic

\* Premature finalize calls make progress: after the first one, each of them
\* completes a missing task or is charged to a failure of the worker, so a
\* Lead that does nothing but call finalize_package gets its package after at
\* most one call per task, plus two, plus one per failure.
AutoRecoverProgress ==
  Cardinality(Incomplete) + blockedFinalizeAttempts
    <= Cardinality(Tasks) + 1 + failures

\* However often the agents repeat their calls, neither research nor premature
\* finalize calls go on for ever (MAX_TASK_RETRIES, blocked_finalize_attempts).
CallsAreBounded == RetryBudget /\ AutoRecoverProgress

\* Once a package exists, assembling it again never changes a task's status:
\* the decisions recorded by the first assembly decide the second one.
PackageStable ==
  [][package # None => /\ package' # None
                       /\ package'.status = package.status]_vars

\* What the caller of run sees once the chat has ended.
Delivered ==
  IF chat = "ended"
  THEN [status |-> package.status, memory |-> memoryStatus, gate |-> package.gate]
  ELSE None

Contract == INSTANCE DepartmentContract WITH result <- Delivered

\* The chat implements the department's contract with the Supervisor: it
\* delivers one package, once, in which accepted tasks come with a worker
\* report in the memory store, and a passed gate with what the policy asks.
ImplementsContract == Contract!Spec
=============================================================================
