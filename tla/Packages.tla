------------------------------ MODULE Packages ------------------------------
(***************************************************************************)
(* The vocabulary departments and Supervisor share (orchestration/          *)
(* contracts.py), what a department's package may say, and the pure rules   *)
(* the Supervisor applies to it.                                            *)
(***************************************************************************)

\* Task statuses a package may carry: the values of OUTCOME_TO_TASK_STATUS for
\* terminal outcomes.
TaskStatus == {"accepted", "degraded", "blocked"}

\* task_statuses of the memory store while a department works: the worker
\* writes "pending", the Critic "accepted" or "pending".
WorkingStatus == {"absent", "pending", "accepted"}

\* The department policy gate; a fallback package carries none.
Gate == {"passed", "blocked", "absent"}

AdmissionDecision == {"accepted", "accepted_with_gaps", "rejected"}

\* No value: a record, so that it compares with records.
None == [none |-> TRUE]

\* The results run may return for these tasks.  A task is accepted only on a
\* worker report, which the memory store has seen too; where the policy asks
\* for an accepted task, the gate passes only with one.  Nothing else ties the
\* status of a task to the Critic's verdict in the memory store.
Promised(tasks, needsAccepted) ==
  {r \in [status : [tasks -> TaskStatus],
          memory : [tasks -> WorkingStatus],
          gate   : Gate] :
     /\ \A t \in tasks : r.status[t] = "accepted" => r.memory[t] # "absent"
     /\ r.gate = "passed" /\ needsAccepted
          => \E t \in tasks : r.status[t] = "accepted"}

\* SupervisorAgent.accept_department_package.  Every blocker the policy gate
\* produces is "hard", and a missing gate counts as passed; substantive says
\* whether the section payload holds more than defaults.
Admit(r, substantive) ==
  IF /\ substantive
     /\ r.gate # "blocked"
     /\ \E t \in DOMAIN r.status : r.status[t] = "accepted"
  THEN "accepted"
  ELSE IF r.gate = "blocked" THEN "rejected"
  ELSE IF substantive THEN "accepted_with_gaps"
  ELSE "rejected"

\* matrix_status_for_task_status
MatrixStatus(status) ==
  CASE status = "accepted"              -> "answered"
    [] status \in {"degraded", "blocked"} -> "partially_answered"
    [] status = "skipped"               -> "blocked"
    [] OTHER                            -> "pending"

\* The statuses of an entry of the answer matrix.
MatrixValue == {"pending", "answered", "partially_answered", "blocked"}

\* What the gate reads of assess_research_readiness and of the quality review:
\* a usable run has fair evidence, no hard blocker and the minimum package; a
\* run is discovery-ready only for the want of customer data.
Readiness ==
  {rd \in [usable : BOOLEAN, discovery : BOOLEAN, weak : BOOLEAN,
           public : BOOLEAN, internal : BOOLEAN] :
     /\ rd.usable => ~ (rd.discovery \/ rd.weak \/ rd.public \/ rd.internal)
     /\ rd.discovery => rd.internal /\ ~ rd.public}

\* The buckets of a first round.
Bucket == {"BLOCKING_FAILURE", "AUTO_CLOSE_REQUIRED", "USER_DECISION_REQUIRED",
           "CUSTOMER_CONFIRMATION_REQUIRED", "NOT_MEETING_CRITICAL"}

\* ResolutionController.classify: one bucket, in this order of priority.
Classified(blocking, publicGaps, contactGaps, unresolved) ==
  CASE blocking                                     -> "BLOCKING_FAILURE"
    [] ~ blocking /\ publicGaps                     -> "AUTO_CLOSE_REQUIRED"
    [] ~ blocking /\ ~ publicGaps /\ contactGaps    -> "CUSTOMER_CONFIRMATION_REQUIRED"
    [] ~ blocking /\ ~ publicGaps /\ ~ contactGaps /\ unresolved
         -> "USER_DECISION_REQUIRED"
    [] OTHER                                        -> "NOT_MEETING_CRITICAL"
=============================================================================
