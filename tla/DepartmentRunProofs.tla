------------------------ MODULE DepartmentRunProofs ------------------------
(***************************************************************************)
(* Proofs about DepartmentRun for every department: any task list, any      *)
(* dependencies, any retry limit.                                           *)
(***************************************************************************)
EXTENDS DepartmentRun, FiniteSetTheorems, TLAPS

USE DEF Tasks, WorkingStatus

-----------------------------------------------------------------------------
(* Facts about the state functions.                                         *)

\* Values outside a record's type are not the record None.
LEMMA NoneIsNoRecord ==
  /\ None \notin Review
  /\ None \notin Decision
  /\ None \notin Package
BY DEF None, Review, Decision, Package

\* The latest artifact of a task that has one is an artifact.
LEMMA LatestArtifactType ==
  ASSUME TypeOK, NEW t \in Tasks, HasArtifact(t)
  PROVE  /\ LatestArtifact(t) \in Artifact
         /\ Len(artifacts[t]) \in DOMAIN artifacts[t]
BY DEF TypeOK, HasArtifact, LatestArtifact

\* Every outcome has a task status.
LEMMA StatusOfType ==
  ASSUME NEW o \in Outcome
  PROVE  StatusOf(o) \in TaskStatus
BY DEF Outcome, StatusOf, TaskStatus

\* The Judge rules on every core level.
LEMMA JudgeOutcomeType ==
  ASSUME NEW c \in CoreLevel \cup {"unrated"}
  PROVE  JudgeOutcome(c) \in Outcome
BY DEF CoreLevel, JudgeOutcome, Outcome

\* Before finalize_package assembles, every task has a decision to be packaged
\* with: the stored one, or one made from its latest artifact.
LEMMA FinalDecisionType ==
  ASSUME TypeOK, NEW t \in Tasks, t \notin Incomplete
  PROVE  FinalDecision(t) \in Decision
<1>1. CASE decision[t] # None
  BY <1>1 DEF TypeOK, FinalDecision
<1>2. CASE decision[t] = None
  <2>1. HasArtifact(t)
    BY <1>2 DEF Incomplete
  <2>2. LatestArtifact(t) \in Artifact
    BY <2>1, LatestArtifactType
  <2> DEFINE a == LatestArtifact(t)
             r == IF review[t] = None THEN CriticReview(a) ELSE review[t]
  <2>3. r \in Review
    BY <2>2 DEF TypeOK, CriticReview, Review, Artifact, ReportType
  <2>4. JudgeOutcome(r.core) \in Outcome
    BY <2>3, JudgeOutcomeType DEF Review
  <2>5. a.attempt \in Nat
    BY <2>2 DEF Artifact
  <2> QED
    BY <1>2, <2>4, <2>5 DEF FinalDecision, Decision, Outcome
<1> QED BY <1>1, <1>2

-----------------------------------------------------------------------------
(* Type correctness.                                                        *)

LEMMA InitTypeOK == Init => TypeOK
BY DEF Init, TypeOK, None

\* What one call of run_research leaves: types, and histories that only grow.
LEMMA ResearchTypeOK ==
  ASSUME TypeOK, NEW t \in Tasks, Research(t)
  PROVE  /\ attempts' \in [Tasks -> Nat]
         /\ artifacts' \in [Tasks -> Seq(Artifact)]
         /\ decision' \in [Tasks -> Decision \cup {None}]
         /\ memoryStatus' \in [Tasks -> WorkingStatus]
         /\ failures' \in Nat
         /\ review' = review
         /\ package' = package
<1> USE DEF TypeOK
<1>0. review' = review /\ package' = package
  BY DEF Research
<1>1. CASE ResearchBlocked(t)
  <2> DEFINE a == [attempt |-> attempts[t] + 1, report |-> EmptyReport,
                   blocked |-> TRUE]
             d == [attempt |-> attempts[t] + 1,
                   outcome |-> "blocked_by_dependency", by |-> "runtime"]
  <2>1. a \in Artifact
    BY DEF Artifact, EmptyReport, ReportType, CoreLevel
  <2>2. d \in Decision
    BY DEF Decision, Outcome
  <2>3. artifacts' = [artifacts EXCEPT ![t] = Append(@, a)]
    BY <1>1 DEF ResearchBlocked
  <2>4. Append(artifacts[t], a) \in Seq(Artifact)
    BY <2>1
  <2>5. decision' = [decision EXCEPT ![t] = d]
    BY <1>1 DEF ResearchBlocked
  <2> QED
    BY <1>0, <1>1, <2>2, <2>3, <2>4, <2>5 DEF ResearchBlocked
<1>2. CASE ResearchExecute(t)
  <2>1. attempts' \in [Tasks -> Nat] /\ decision' = decision
    BY <1>2 DEF ResearchExecute
  <2>2. CASE \E r \in Reports :
               /\ artifacts' = [artifacts EXCEPT ![t] = Append(@,
                     [attempt |-> attempts[t] + 1, report |-> r,
                      blocked |-> FALSE])]
               /\ memoryStatus' = [memoryStatus EXCEPT
                     ![t] = IF @ = "absent" THEN "pending" ELSE @]
               /\ UNCHANGED failures
    <3> PICK r \in Reports :
               /\ artifacts' = [artifacts EXCEPT ![t] = Append(@,
                     [attempt |-> attempts[t] + 1, report |-> r,
                      blocked |-> FALSE])]
               /\ memoryStatus' = [memoryStatus EXCEPT
                     ![t] = IF @ = "absent" THEN "pending" ELSE @]
               /\ UNCHANGED failures
      BY <2>2
    <3> DEFINE a == [attempt |-> attempts[t] + 1, report |-> r,
                     blocked |-> FALSE]
    <3>1. a \in Artifact
      BY ReportsAssumption DEF Artifact
    <3>2. Append(artifacts[t], a) \in Seq(Artifact)
      BY <3>1
    <3> QED
      BY <1>0, <2>1, <3>2
  <2>3. CASE /\ failures < FailureBound
             /\ failures' = failures + 1
             /\ UNCHANGED <<artifacts, memoryStatus>>
    BY <1>0, <2>1, <2>3
  <2> QED BY <1>2, <2>2, <2>3 DEF ResearchExecute
<1>3. CASE ResearchRetryLimit(t)
  <2>1. [attempt |-> attempts[t], outcome |-> "closed_unresolved",
         by |-> "runtime"] \in Decision
    BY DEF Decision, Outcome
  <2> QED
    BY <1>0, <1>3, <2>1 DEF ResearchRetryLimit
<1> QED BY <1>1, <1>2, <1>3 DEF Research

\* Every step keeps the types.
LEMMA NextTypeOK == TypeOK /\ [Next]_vars => TypeOK'
<1> SUFFICES ASSUME TypeOK, [Next]_vars
             PROVE  TypeOK'
  OBVIOUS
<1>1. ASSUME NEW t \in Tasks, RunResearch(t)
      PROVE  TypeOK'
  <2>1. Research(t)
    BY <1>1 DEF RunResearch
  <2> QED
    BY <1>1, <2>1, ResearchTypeOK DEF TypeOK, RunResearch
<1>2. ASSUME NEW t \in Tasks, ReviewResearch(t)
      PROVE  TypeOK'
  <2>1. LatestArtifact(t) \in Artifact
    BY <1>2, LatestArtifactType DEF ReviewResearch
  <2>2. CriticReview(LatestArtifact(t)) \in Review
    BY <2>1 DEF CriticReview, Review, Artifact, ReportType
  <2> QED
    BY <1>2, <2>2 DEF ReviewResearch, TypeOK, researchVars
<1>3. ASSUME NEW t \in Tasks, JudgeDecision(t)
      PROVE  TypeOK'
  <2>1. CASE HasArtifact(t)
    <3> DEFINE a == LatestArtifact(t)
               r == IF review[t] = None THEN RuntimeFallbackReview(a)
                                        ELSE review[t]
               d == [attempt |-> a.attempt, outcome |-> JudgeOutcome(r.core),
                     by |-> "judge"]
    <3>1. a \in Artifact
      BY <2>1, LatestArtifactType
    <3>2. r \in Review
      BY <3>1 DEF TypeOK, RuntimeFallbackReview, Review, Artifact
    <3>3. d \in Decision
      BY <3>1, <3>2, JudgeOutcomeType DEF Decision, Review, Artifact
    <3>4. /\ review' = [review EXCEPT ![t] = r]
          /\ decision' = [decision EXCEPT ![t] = d]
          /\ UNCHANGED <<attempts, artifacts, failures, memoryStatus,
                         blockedFinalizeAttempts, package, chat>>
      BY <1>3, <2>1 DEF JudgeDecision, researchVars
    <3> HIDE DEF r, d
    <3> QED
      BY <3>2, <3>3, <3>4 DEF TypeOK
  <2>2. CASE ~ HasArtifact(t)
    <3>1. [attempt |-> attempts[t], outcome |-> "closed_unresolved",
           by |-> "judge"] \in Decision
      BY DEF Decision, Outcome, TypeOK
    <3> QED
      BY <1>3, <2>2, <3>1 DEF JudgeDecision, TypeOK, researchVars
  <2> QED BY <2>1, <2>2
<1>4. CASE FinalizeBlocked
  <2>1. blockedFinalizeAttempts' \in Nat /\ chat' = chat
    BY <1>4 DEF FinalizeBlocked, TypeOK
  <2>2. CASE \E t \in Tasks : Research(t)
    <3> PICK t \in Tasks : Research(t)
      BY <2>2
    <3> QED
      BY <2>1, ResearchTypeOK DEF TypeOK
  <2>3. CASE UNCHANGED <<researchVars, review, decision, memoryStatus, package>>
    BY <2>1, <2>3 DEF TypeOK, researchVars
  <2> QED BY <1>4, <2>2, <2>3 DEF FinalizeBlocked
<1>5. CASE FinalizePackage
  <2>1. \A t \in Tasks : FinalDecision(t) \in Decision
    BY <1>5, FinalDecisionType DEF FinalizePackage
  <2>2. FinalStatuses \in [Tasks -> TaskStatus]
    <3>1. \A t \in Tasks : FinalStatus(t) \in TaskStatus
      BY <2>1, StatusOfType DEF FinalStatus, Decision, TaskStatus
    <3> QED BY <3>1 DEF FinalStatuses
  <2>3. package' \in Package
    <3>1. PolicyGate(FinalStatuses) \subseteq {"passed", "blocked"}
      BY DEF PolicyGate
    <3> QED
      BY <1>5, <2>2, <3>1 DEF FinalizePackage, Package, Gate, TypeOK
  <2> QED
    BY <1>5, <2>1, <2>3 DEF FinalizePackage, TypeOK, researchVars
<1>6. CASE EndChat
  BY <1>6 DEF EndChat, TypeOK, researchVars
<1>7. CASE MaxRoundHit
  <2>1. \A t \in Tasks : FallbackStatus(t) \in TaskStatus
    <3> TAKE t \in Tasks
    <3>1. CASE decision[t] # None
      BY <3>1, StatusOfType DEF FallbackStatus, TypeOK, Decision
    <3>2. CASE decision[t] = None /\ HasArtifact(t)
      BY <3>2, StatusOfType, JudgeOutcomeType, LatestArtifactType
         DEF FallbackStatus, Artifact, ReportType
    <3>3. CASE decision[t] = None /\ ~ HasArtifact(t)
      BY <3>3 DEF FallbackStatus, TaskStatus
    <3> QED BY <3>1, <3>2, <3>3
  <2>2. package' \in Package
    BY <1>7, <2>1 DEF MaxRoundHit, Package, Gate
  <2> QED
    BY <1>7, <2>2 DEF MaxRoundHit, TypeOK, researchVars
<1>8. CASE UNCHANGED vars
  BY <1>8 DEF vars, TypeOK
<1> QED
  BY <1>1, <1>2, <1>3, <1>4, <1>5, <1>6, <1>7, <1>8 DEF Next

\* The state of the chat always has its types: in particular no task is ever
\* packaged with a status the Supervisor does not know.
THEOREM TypeCorrect == Spec => []TypeOK
BY InitTypeOK, NextTypeOK, PTL DEF Spec

-----------------------------------------------------------------------------
(* Histories only grow.                                                     *)

\* Appending keeps what a history held.
LEMMA AppendKeeps ==
  ASSUME NEW s \in Seq(Artifact), NEW a \in Artifact
  PROVE  /\ DOMAIN Append(s, a) = DOMAIN s \cup {Len(s) + 1}
         /\ \A i \in DOMAIN s : Append(s, a)[i] = s[i]
         /\ Append(s, a)[Len(s) + 1] = a
         /\ Append(s, a) # <<>>
         /\ Len(Append(s, a)) = Len(s) + 1
OBVIOUS

\* A step leaves each task's artifacts alone or appends one to them.
LEMMA StepAppends ==
  ASSUME TypeOK, [Next]_vars, NEW t \in Tasks
  PROVE  \/ artifacts'[t] = artifacts[t]
         \/ /\ \E u \in Tasks : Research(u)
            /\ \E a \in Artifact : artifacts'[t] = Append(artifacts[t], a)
<1>1. ASSUME NEW u \in Tasks, Research(u)
      PROVE  \/ artifacts'[t] = artifacts[t]
             \/ \E a \in Artifact : artifacts'[t] = Append(artifacts[t], a)
  <2>1. CASE ResearchBlocked(u)
    <3>1. [attempt |-> attempts[u] + 1, report |-> EmptyReport,
           blocked |-> TRUE] \in Artifact
      BY DEF TypeOK, Artifact, EmptyReport, ReportType, CoreLevel
    <3> QED BY <2>1, <3>1 DEF ResearchBlocked, TypeOK
  <2>2. CASE ResearchExecute(u)
    <3>1. \A r \in Reports :
            [attempt |-> attempts[u] + 1, report |-> r,
             blocked |-> FALSE] \in Artifact
      BY ReportsAssumption DEF TypeOK, Artifact
    <3>2. CASE UNCHANGED artifacts
      BY <3>2
    <3>3. CASE \E r \in Reports :
                 artifacts' = [artifacts EXCEPT ![u] = Append(@,
                                [attempt |-> attempts[u] + 1, report |-> r,
                                 blocked |-> FALSE])]
      <4> PICK r \in Reports :
                 artifacts' = [artifacts EXCEPT ![u] = Append(@,
                                [attempt |-> attempts[u] + 1, report |-> r,
                                 blocked |-> FALSE])]
        BY <3>3
      <4> QED BY <3>1 DEF TypeOK
    <3> QED BY <2>2, <3>2, <3>3 DEF ResearchExecute
  <2>3. CASE ResearchRetryLimit(u)
    BY <2>3 DEF ResearchRetryLimit
  <2> QED BY <1>1, <2>1, <2>2, <2>3 DEF Research
<1>2. CASE \E u \in Tasks : RunResearch(u)
  BY <1>1, <1>2 DEF RunResearch
<1>3. CASE FinalizeBlocked
  BY <1>1, <1>3 DEF FinalizeBlocked, researchVars
<1> QED
  BY <1>2, <1>3 DEF Next, ReviewResearch, JudgeDecision, FinalizePackage,
                    EndChat, MaxRoundHit, researchVars, vars

\* What an artifact proved once stays proved.
LEMMA EvidenceStable ==
  ASSUME TypeOK, [Next]_vars, NEW t \in Tasks
  PROVE  /\ CoreEvidence(t) => CoreEvidence(t)'
         /\ EverBlocked(t) => EverBlocked(t)'
         /\ HasArtifact(t) => HasArtifact(t)'
<1>1. CASE artifacts'[t] = artifacts[t]
  BY <1>1 DEF CoreEvidence, EverBlocked, HasArtifact
<1>2. CASE \E a \in Artifact : artifacts'[t] = Append(artifacts[t], a)
  <2> PICK a \in Artifact : artifacts'[t] = Append(artifacts[t], a)
    BY <1>2
  <2>1. artifacts[t] \in Seq(Artifact)
    BY DEF TypeOK
  <2> QED
    BY <2>1, AppendKeeps DEF CoreEvidence, EverBlocked, HasArtifact
<1> QED BY <1>1, <1>2, StepAppends

-----------------------------------------------------------------------------
(* Acceptance needs evidence.                                               *)

\* Every approval and every acceptance in force rests on an artifact that
\* passed all core rules.
Evidence ==
  \A t \in Tasks :
    /\ \A i \in DOMAIN artifacts[t] :
         artifacts[t][i].report.approved => artifacts[t][i].report.core = "all"
    /\ review[t] # None /\ review[t].approved => review[t].core = "all"
    /\ review[t] # None /\ review[t].core = "all" => CoreEvidence(t)
    /\ decision[t] # None /\ decision[t].outcome = "accepted" => CoreEvidence(t)

\* A review of the latest artifact that counts all core rules is evidence.
LEMMA LatestArtifactEvidence ==
  ASSUME TypeOK, Evidence, NEW t \in Tasks, HasArtifact(t)
  PROVE  /\ LatestArtifact(t).report.core = "all" => CoreEvidence(t)
         /\ LatestArtifact(t).report.approved
              => LatestArtifact(t).report.core = "all"
BY LatestArtifactType DEF Evidence, CoreEvidence, LatestArtifact

\* The Judge accepts on all core rules only.
LEMMA JudgeAccepts ==
  ASSUME NEW c \in CoreLevel \cup {"unrated"}, JudgeOutcome(c) = "accepted"
  PROVE  c = "all"
BY DEF CoreLevel, JudgeOutcome

\* The decision finalize_package ships accepts on evidence only.
LEMMA FinalDecisionEvidence ==
  ASSUME TypeOK, Evidence, NEW t \in Tasks, t \notin Incomplete,
         FinalDecision(t).outcome = "accepted"
  PROVE  CoreEvidence(t)
<1>1. CASE decision[t] # None
  BY <1>1 DEF FinalDecision, Evidence
<1>2. CASE decision[t] = None
  <2>1. HasArtifact(t)
    BY <1>2 DEF Incomplete
  <2> DEFINE a == LatestArtifact(t)
             r == IF review[t] = None THEN CriticReview(a) ELSE review[t]
  <2>2. a \in Artifact
    BY <2>1, LatestArtifactType
  <2>3. r.core \in CoreLevel \cup {"unrated"}
    BY <2>2 DEF TypeOK, CriticReview, Review, Artifact, ReportType
  <2>4. r.core = "all" => CoreEvidence(t)
    BY <2>1, LatestArtifactEvidence DEF Evidence, CriticReview
  <2>5. CASE review[t] # None /\ r.approved
    BY <2>4, <2>5 DEF Evidence
  <2>6. CASE ~ (review[t] # None /\ r.approved)
    <3>1. JudgeOutcome(r.core) = "accepted"
      BY <1>2, <2>6 DEF FinalDecision
    <3> QED BY <2>3, <2>4, <3>1, JudgeAccepts
  <2> QED BY <2>5, <2>6
<1> QED BY <1>1, <1>2

LEMMA InitEvidence == Init => Evidence
BY DEF Init, Evidence

\* run_research brings no approval and no acceptance; its reports respect the
\* Critic's rule that an approved payload passes all core rules.
LEMMA ResearchEvidence ==
  ASSUME TypeOK, Evidence, [Next]_vars, NEW u \in Tasks, Research(u)
  PROVE  Evidence'
<1>1. /\ review' = review
      /\ \A t \in Tasks : \/ decision'[t] = decision[t]
                          \/ decision'[t].outcome # "accepted"
  BY DEF Research, ResearchBlocked, ResearchExecute, ResearchRetryLimit, TypeOK
<1>2. ASSUME NEW t \in Tasks, NEW i \in DOMAIN artifacts'[t],
             artifacts'[t][i].report.approved
      PROVE  artifacts'[t][i].report.core = "all"
  <2>1. artifacts[t] \in Seq(Artifact)
    BY DEF TypeOK
  <2>0. \A j \in DOMAIN artifacts[t] :
          artifacts[t][j].report.approved => artifacts[t][j].report.core = "all"
    BY DEF Evidence
  <2>2. CASE ResearchBlocked(u)
    <3> DEFINE a == [attempt |-> attempts[u] + 1, report |-> EmptyReport,
                     blocked |-> TRUE]
    <3>1. artifacts' = [artifacts EXCEPT ![u] = Append(@, a)]
      BY <2>2 DEF ResearchBlocked
    <3>2. a \in Artifact /\ ~ a.report.approved
      BY DEF Artifact, EmptyReport, ReportType, CoreLevel, TypeOK
    <3> HIDE DEF a
    <3>3. CASE t = u
      BY <1>2, <2>0, <2>1, <3>1, <3>2, <3>3, AppendKeeps DEF TypeOK
    <3>4. CASE t # u
      BY <1>2, <2>0, <3>1, <3>4 DEF TypeOK
    <3> QED BY <3>3, <3>4
  <2>3. CASE ResearchExecute(u)
    <3>1. CASE UNCHANGED artifacts
      BY <1>2, <3>1 DEF Evidence
    <3>2. CASE \E r \in Reports :
                 artifacts' = [artifacts EXCEPT ![u] = Append(@,
                                [attempt |-> attempts[u] + 1, report |-> r,
                                 blocked |-> FALSE])]
      <4> PICK r \in Reports :
                 artifacts' = [artifacts EXCEPT ![u] = Append(@,
                                [attempt |-> attempts[u] + 1, report |-> r,
                                 blocked |-> FALSE])]
        BY <3>2
      <4> DEFINE a == [attempt |-> attempts[u] + 1, report |-> r,
                       blocked |-> FALSE]
      <4>1. artifacts' = [artifacts EXCEPT ![u] = Append(@, a)]
        OBVIOUS
      <4>2. a \in Artifact /\ (a.report.approved => a.report.core = "all")
        BY ReportsAssumption DEF Artifact, TypeOK
      <4> HIDE DEF a
      <4>3. CASE t = u
        BY <1>2, <2>0, <2>1, <4>1, <4>2, <4>3, AppendKeeps DEF TypeOK
      <4>4. CASE t # u
        BY <1>2, <2>0, <4>1, <4>4 DEF TypeOK
      <4> QED BY <4>3, <4>4
    <3> QED BY <2>3, <3>1, <3>2 DEF ResearchExecute
  <2>4. CASE ResearchRetryLimit(u)
    BY <1>2, <2>4 DEF ResearchRetryLimit, Evidence
  <2> QED BY <2>2, <2>3, <2>4 DEF Research
<1> QED
  BY <1>1, <1>2, EvidenceStable DEF Evidence

LEMMA NextEvidence == TypeOK /\ Evidence /\ [Next]_vars => Evidence'
<1> SUFFICES ASSUME TypeOK, Evidence, [Next]_vars
             PROVE  Evidence'
  OBVIOUS
<1>0. \A t \in Tasks : CoreEvidence(t) => CoreEvidence(t)'
  BY EvidenceStable
<1>1. CASE \E t \in Tasks : RunResearch(t)
  BY <1>1, ResearchEvidence DEF RunResearch
<1>2. ASSUME NEW t \in Tasks, ReviewResearch(t)
      PROVE  Evidence'
  <2>1. HasArtifact(t)
    BY <1>2 DEF ReviewResearch
  <2>2. /\ review' = [review EXCEPT ![t] = CriticReview(LatestArtifact(t))]
        /\ artifacts' = artifacts
        /\ decision' = decision
    BY <1>2 DEF ReviewResearch, researchVars
  <2> QED
    BY <1>0, <2>1, <2>2, LatestArtifactEvidence
       DEF Evidence, CriticReview, TypeOK
<1>3. ASSUME NEW t \in Tasks, JudgeDecision(t)
      PROVE  Evidence'
  <2>0. artifacts' = artifacts
    BY <1>3 DEF JudgeDecision, researchVars
  <2>1. CASE HasArtifact(t)
    <3> DEFINE a == LatestArtifact(t)
               r == IF review[t] = None THEN RuntimeFallbackReview(a)
                                        ELSE review[t]
               o == JudgeOutcome(r.core)
    <3>1. r.core \in CoreLevel \cup {"unrated"}
      BY DEF TypeOK, RuntimeFallbackReview, Review
    <3>2. /\ r.approved => r.core = "all"
          /\ r.core = "all" => CoreEvidence(t)
      BY DEF Evidence, RuntimeFallbackReview
    <3>3. o = "accepted" => CoreEvidence(t)
      BY <3>1, <3>2, JudgeAccepts
    <3>4. /\ review' = [review EXCEPT ![t] = r]
          /\ decision' = [decision EXCEPT ![t] =
                            [attempt |-> a.attempt, outcome |-> o, by |-> "judge"]]
      BY <1>3, <2>1 DEF JudgeDecision
    <3> HIDE DEF a, r, o
    <3>5. ASSUME NEW u \in Tasks
          PROVE  /\ review'[u] = IF u = t THEN r ELSE review[u]
                 /\ \/ decision'[u] = decision[u]
                    \/ u = t /\ decision'[u].outcome = o
      BY <3>4 DEF TypeOK
    <3>6. \A u \in Tasks :
            /\ review'[u] # None /\ review'[u].approved
                 => review'[u].core = "all"
            /\ review'[u] # None /\ review'[u].core = "all" => CoreEvidence(u)
            /\ decision'[u] # None /\ decision'[u].outcome = "accepted"
                 => CoreEvidence(u)
      BY <3>2, <3>3, <3>5 DEF Evidence
    <3> QED
      BY <1>0, <2>0, <3>6 DEF Evidence
  <2>2. CASE ~ HasArtifact(t)
    <3>1. \A u \in Tasks : \/ decision'[u] = decision[u]
                          \/ decision'[u].outcome # "accepted"
      BY <1>3, <2>2 DEF JudgeDecision, TypeOK
    <3>2. review' = review
      BY <1>3, <2>2 DEF JudgeDecision
    <3> QED
      BY <1>0, <2>0, <3>1, <3>2 DEF Evidence
  <2> QED BY <2>1, <2>2
<1>4. CASE FinalizeBlocked
  <2>1. CASE \E t \in Tasks : Research(t)
    BY <2>1, ResearchEvidence
  <2>2. CASE UNCHANGED <<researchVars, review, decision>>
    BY <2>2 DEF Evidence, CoreEvidence, researchVars
  <2> QED BY <1>4, <2>1, <2>2 DEF FinalizeBlocked
<1>5. CASE FinalizePackage
  <2>1. /\ decision' = [t \in Tasks |-> FinalDecision(t)]
        /\ artifacts' = artifacts
        /\ review' = review
    BY <1>5 DEF FinalizePackage, researchVars
  <2>2. \A t \in Tasks :
          FinalDecision(t).outcome = "accepted" => CoreEvidence(t)
    BY <1>5, FinalDecisionEvidence DEF FinalizePackage
  <2> QED
    BY <1>0, <2>1, <2>2 DEF Evidence
<1>6. CASE EndChat \/ MaxRoundHit \/ UNCHANGED vars
  BY <1>6 DEF EndChat, MaxRoundHit, vars, researchVars, Evidence, CoreEvidence
<1> QED BY <1>1, <1>2, <1>3, <1>4, <1>5, <1>6 DEF Next

\* Accepting statuses come from accepting outcomes.
LEMMA StatusAccepted ==
  ASSUME NEW o \in Outcome, StatusOf(o) = "accepted"
  PROVE  o = "accepted"
BY DEF Outcome, StatusOf

\* A new package accepts on evidence only.
LEMMA NextAcceptedHasEvidence ==
  TypeOK /\ Evidence /\ AcceptedHasEvidence /\ [Next]_vars
    => AcceptedHasEvidence'
<1> SUFFICES ASSUME TypeOK, Evidence, AcceptedHasEvidence, [Next]_vars
             PROVE  AcceptedHasEvidence'
  OBVIOUS
<1>0. \A t \in Tasks : CoreEvidence(t) => CoreEvidence(t)'
  BY EvidenceStable
<1>1. CASE package' = package
  BY <1>0, <1>1 DEF AcceptedHasEvidence
<1>2. CASE FinalizePackage
  <2>1. package'.status = FinalStatuses /\ Incomplete = {}
    BY <1>2 DEF FinalizePackage
  <2>2. ASSUME NEW t \in Tasks, FinalStatus(t) = "accepted"
        PROVE  CoreEvidence(t)
    <3>1. FinalDecision(t) \in Decision
      BY <2>1, FinalDecisionType
    <3>2. FinalDecision(t).outcome = "accepted"
      BY <2>2, <3>1, StatusAccepted DEF FinalStatus, Decision
    <3> QED BY <2>1, <3>2, FinalDecisionEvidence
  <2> QED
    BY <1>0, <2>1, <2>2 DEF AcceptedHasEvidence, FinalStatuses
<1>3. CASE MaxRoundHit
  <2>1. \A t \in Tasks : package'.status[t] = FallbackStatus(t)
    BY <1>3 DEF MaxRoundHit
  <2>2. ASSUME NEW t \in Tasks, FallbackStatus(t) = "accepted"
        PROVE  CoreEvidence(t)
    <3>1. CASE decision[t] # None
      BY <2>2, <3>1, StatusAccepted
         DEF FallbackStatus, Evidence, TypeOK, Decision
    <3>2. CASE decision[t] = None /\ HasArtifact(t)
      <4>1. LatestArtifact(t).report.core \in CoreLevel \cup {"unrated"}
        BY <3>2, LatestArtifactType DEF Artifact, ReportType
      <4>2. LatestArtifact(t).report.core = "all"
        BY <2>2, <3>2, <4>1, StatusAccepted, JudgeOutcomeType, JudgeAccepts
           DEF FallbackStatus
      <4> QED BY <3>2, <4>2, LatestArtifactEvidence
    <3> QED BY <2>2, <3>1, <3>2 DEF FallbackStatus
  <2> QED BY <1>0, <2>1, <2>2 DEF AcceptedHasEvidence
<1> QED
  BY <1>1, <1>2, <1>3
     DEF Next, RunResearch, Research, ReviewResearch, JudgeDecision,
         FinalizeBlocked, EndChat, vars

\* No order of tool calls conjures an acceptance: a task is packaged
\* "accepted" only if one of its research attempts passed all core rules.
THEOREM AcceptanceIsEarned == Spec => []AcceptedHasEvidence
<1>1. Init => AcceptedHasEvidence
  BY DEF Init, AcceptedHasEvidence
<1> QED
  BY <1>1, TypeCorrect, InitEvidence, NextEvidence, NextAcceptedHasEvidence,
     PTL DEF Spec

-----------------------------------------------------------------------------
(* Executions: the retry budget and the currency of approvals.              *)

\* A block in force left its placeholder, and a review has its artifact.
Recorded ==
  \A t \in Tasks :
    /\ WasBlocked(t) => EverBlocked(t)
    /\ review[t] # None => HasArtifact(t)

\* What one call of run_research may have done to the called task.
LEMMA ResearchEffect ==
  ASSUME TypeOK, NEW u \in Tasks, Research(u)
  PROVE  /\ review' = review
         /\ \A t \in Tasks \ {u} : /\ attempts'[t] = attempts[t]
                                  /\ artifacts'[t] = artifacts[t]
                                  /\ decision'[t] = decision[t]
         /\ \/ \E a \in Artifact :
                  /\ a.blocked
                  /\ artifacts'[u] = Append(artifacts[u], a)
            \/ /\ MayExecute(u)
               /\ decision'[u] = decision[u]
               /\ attempts'[u] = attempts[u] + 1
               /\ \/ artifacts'[u] = artifacts[u]
                  \/ \E a \in Artifact :
                       artifacts'[u] = Append(artifacts[u], a)
            \/ /\ attempts'[u] = attempts[u]
               /\ artifacts'[u] = artifacts[u]
               /\ decision'[u].outcome = "closed_unresolved"
<1>0. review' = review
  BY DEF Research
<1>1. CASE ResearchBlocked(u)
  <2> DEFINE a == [attempt |-> attempts[u] + 1, report |-> EmptyReport,
                   blocked |-> TRUE]
  <2>1. a \in Artifact /\ a.blocked
    BY DEF TypeOK, Artifact, EmptyReport, ReportType, CoreLevel
  <2>2. artifacts' = [artifacts EXCEPT ![u] = Append(@, a)]
    BY <1>1 DEF ResearchBlocked
  <2> HIDE DEF a
  <2>3. artifacts'[u] = Append(artifacts[u], a)
    BY <2>2 DEF TypeOK
  <2> QED BY <1>0, <1>1, <2>1, <2>2, <2>3 DEF ResearchBlocked, TypeOK
<1>2. CASE ResearchExecute(u)
  <2>1. /\ MayExecute(u)
        /\ decision' = decision
        /\ attempts' = [attempts EXCEPT ![u] = @ + 1]
    BY <1>2 DEF ResearchExecute
  <2>2. CASE UNCHANGED artifacts
    BY <1>0, <2>1, <2>2 DEF TypeOK
  <2>3. CASE \E r \in Reports :
               artifacts' = [artifacts EXCEPT ![u] = Append(@,
                              [attempt |-> attempts[u] + 1, report |-> r,
                               blocked |-> FALSE])]
    <3> PICK r \in Reports :
               artifacts' = [artifacts EXCEPT ![u] = Append(@,
                              [attempt |-> attempts[u] + 1, report |-> r,
                               blocked |-> FALSE])]
      BY <2>3
    <3> DEFINE a == [attempt |-> attempts[u] + 1, report |-> r,
                     blocked |-> FALSE]
    <3>1. a \in Artifact
      BY ReportsAssumption DEF TypeOK, Artifact
    <3>2. artifacts' = [artifacts EXCEPT ![u] = Append(@, a)]
      OBVIOUS
    <3> HIDE DEF a
    <3> QED BY <1>0, <2>1, <3>1, <3>2 DEF TypeOK
  <2> QED BY <1>2, <2>2, <2>3 DEF ResearchExecute
<1>3. CASE ResearchRetryLimit(u)
  BY <1>0, <1>3 DEF ResearchRetryLimit, TypeOK
<1> QED BY <1>1, <1>2, <1>3 DEF Research

\* The invariants below concern what run_research records; every other step
\* leaves attempts and artifacts alone.
LEMMA OtherSteps ==
  ASSUME [Next]_vars, ~ \E u \in Tasks : Research(u)
  PROVE  attempts' = attempts /\ artifacts' = artifacts /\ failures' = failures
BY DEF Next, RunResearch, FinalizeBlocked, ReviewResearch, JudgeDecision,
       FinalizePackage, EndChat, MaxRoundHit, researchVars, vars

\* Nothing but the guard of run_research blocks a task.
LEMMA FinalDecisionNotBlocked ==
  ASSUME TypeOK, NEW t \in Tasks, t \notin Incomplete, decision[t] = None
  PROVE  FinalDecision(t).outcome # "blocked_by_dependency"
<1>1. HasArtifact(t)
  BY DEF Incomplete
<1> DEFINE a == LatestArtifact(t)
           r == IF review[t] = None THEN CriticReview(a) ELSE review[t]
<1>2. r.core \in CoreLevel \cup {"unrated"}
  BY <1>1, LatestArtifactType
     DEF TypeOK, CriticReview, Review, Artifact, ReportType
<1>3. JudgeOutcome(r.core) # "blocked_by_dependency"
  BY <1>2 DEF JudgeOutcome, CoreLevel
<1> QED BY <1>3 DEF FinalDecision

LEMMA NextRecorded == TypeOK /\ Recorded /\ [Next]_vars => Recorded'
<1> SUFFICES ASSUME TypeOK, Recorded, [Next]_vars, NEW t \in Tasks
             PROVE  /\ WasBlocked(t)' => EverBlocked(t)'
                    /\ review'[t] # None => HasArtifact(t)'
  BY DEF Recorded
<1>0. /\ EverBlocked(t) => EverBlocked(t)'
      /\ HasArtifact(t) => HasArtifact(t)'
      /\ WasBlocked(t) => EverBlocked(t)
      /\ review[t] # None => HasArtifact(t)
  BY EvidenceStable DEF Recorded
<1>1. ASSUME NEW u \in Tasks, Research(u)
      PROVE  /\ WasBlocked(t)' => EverBlocked(t)'
             /\ review'[t] # None => HasArtifact(t)'
  <2>1. artifacts[u] \in Seq(Artifact)
    BY DEF TypeOK
  <2>2. CASE \E a \in Artifact :
               a.blocked /\ artifacts'[u] = Append(artifacts[u], a)
    <3>1. EverBlocked(u)'
      BY <2>1, <2>2, AppendKeeps DEF EverBlocked
    <3> QED BY <1>0, <1>1, <3>1, ResearchEffect DEF WasBlocked
  <2>3. CASE \/ decision'[u] = decision[u]
             \/ decision'[u].outcome = "closed_unresolved"
    BY <1>0, <1>1, <2>3, ResearchEffect DEF WasBlocked
  <2> QED BY <1>1, <2>2, <2>3, ResearchEffect
<1>2. ASSUME NEW u \in Tasks, ReviewResearch(u)
      PROVE  /\ WasBlocked(t)' => EverBlocked(t)'
             /\ review'[t] # None => HasArtifact(t)'
  BY <1>0, <1>2 DEF ReviewResearch, WasBlocked, TypeOK
<1>3. ASSUME NEW u \in Tasks, JudgeDecision(u)
      PROVE  /\ WasBlocked(t)' => EverBlocked(t)'
             /\ review'[t] # None => HasArtifact(t)'
  <2>1. CASE HasArtifact(u)
    <3> DEFINE r == IF review[u] = None
                    THEN RuntimeFallbackReview(LatestArtifact(u))
                    ELSE review[u]
               o == JudgeOutcome(r.core)
    <3>1. o # "blocked_by_dependency"
      BY DEF TypeOK, RuntimeFallbackReview, Review, CoreLevel, JudgeOutcome
    <3>2. /\ review' = [review EXCEPT ![u] = r]
          /\ decision' = [decision EXCEPT ![u] =
                            [attempt |-> LatestArtifact(u).attempt,
                             outcome |-> o, by |-> "judge"]]
      BY <1>3, <2>1 DEF JudgeDecision
    <3> HIDE DEF r, o
    <3>3. CASE t = u
      BY <1>0, <2>1, <3>1, <3>2, <3>3 DEF WasBlocked, TypeOK
    <3>4. CASE t # u
      BY <1>0, <3>2, <3>4 DEF WasBlocked, TypeOK
    <3> QED BY <3>3, <3>4
  <2>2. CASE ~ HasArtifact(u)
    <3>1. decision'[t] = decision[t] \/ decision'[t].outcome = "closed_unresolved"
      BY <1>3, <2>2 DEF JudgeDecision, TypeOK
    <3>2. review' = review
      BY <1>3, <2>2 DEF JudgeDecision
    <3> QED BY <1>0, <3>1, <3>2 DEF WasBlocked
  <2> QED BY <2>1, <2>2
<1>4. CASE FinalizePackage
  <2>1. /\ decision'[t] = FinalDecision(t)
        /\ review' = review
        /\ Incomplete = {}
    BY <1>4 DEF FinalizePackage
  <2>2. CASE decision[t] # None
    BY <1>0, <2>1, <2>2 DEF FinalDecision, WasBlocked
  <2>3. CASE decision[t] = None
    BY <1>0, <2>1, <2>3, FinalDecisionNotBlocked DEF WasBlocked
  <2> QED BY <2>2, <2>3
<1>5. CASE UNCHANGED <<review, decision>>
  BY <1>0, <1>5 DEF WasBlocked
<1> QED
  BY <1>1, <1>2, <1>3, <1>4, <1>5
     DEF Next, RunResearch, FinalizeBlocked, EndChat, MaxRoundHit, vars

\* An execution of a task that was never blocked needs a free retry, unless it
\* is the first one.
LEMMA NextRetryBudget ==
  TypeOK /\ Recorded /\ RetryBudget /\ [Next]_vars => RetryBudget'
<1> SUFFICES ASSUME TypeOK, Recorded, RetryBudget, [Next]_vars, NEW t \in Tasks,
                    Len(artifacts'[t]) > 1, ~ EverBlocked(t)'
             PROVE  attempts'[t] <= MaxTaskRetries
  BY DEF RetryBudget
<1>0. /\ ~ EverBlocked(t)
      /\ ~ WasBlocked(t)
      /\ attempts[t] \in Nat
      /\ artifacts[t] \in Seq(Artifact)
  BY EvidenceStable DEF Recorded, TypeOK
<1>1. CASE attempts'[t] = attempts[t] /\ artifacts'[t] = artifacts[t]
  BY <1>0, <1>1 DEF RetryBudget
<1>2. CASE Research(t)
  <2>1. CASE \E a \in Artifact :
               a.blocked /\ artifacts'[t] = Append(artifacts[t], a)
    BY <1>0, <2>1, AppendKeeps DEF EverBlocked
  <2>2. CASE /\ MayExecute(t)
             /\ attempts'[t] = attempts[t] + 1
             /\ \/ artifacts'[t] = artifacts[t]
                \/ \E a \in Artifact :
                     artifacts'[t] = Append(artifacts[t], a)
    <3>1. HasArtifact(t)
      BY <1>0, <2>2, AppendKeeps DEF HasArtifact
    <3>2. attempts[t] < MaxTaskRetries
      BY <1>0, <2>2, <3>1 DEF MayExecute
    <3> QED BY <1>0, <2>2, <3>2, BoundsAssumption
  <2> QED BY <1>1, <1>2, <2>1, <2>2, ResearchEffect
<1>3. CASE \E u \in Tasks \ {t} : Research(u)
  BY <1>1, <1>3, ResearchEffect
<1> QED BY <1>1, <1>2, <1>3, OtherSteps

\* No order of calls executes a task that was never blocked beyond
\* MAX_TASK_RETRIES, once it has an artifact.
THEOREM RetriesAreBounded == Spec => []RetryBudget
<1>1. Init => Recorded /\ RetryBudget
  BY DEF Init, Recorded, RetryBudget, WasBlocked, HasArtifact
<1> QED
  BY <1>1, TypeCorrect, NextRecorded, NextRetryBudget, PTL DEF Spec

LEMMA NextApprovalIsCurrent ==
  TypeOK /\ Recorded /\ ApprovalIsCurrent /\ [Next]_vars => ApprovalIsCurrent'
<1> SUFFICES ASSUME TypeOK, Recorded, ApprovalIsCurrent, [Next]_vars,
                    NEW t \in Tasks,
                    review'[t] # None, review'[t].approved, ~ EverBlocked(t)'
             PROVE  review'[t].attempt = LatestArtifact(t)'.attempt
  BY DEF ApprovalIsCurrent
<1>0. ~ EverBlocked(t) /\ ~ WasBlocked(t) /\ artifacts[t] \in Seq(Artifact)
  BY EvidenceStable DEF Recorded, TypeOK
<1>1. CASE review'[t] = review[t] /\ artifacts'[t] = artifacts[t]
  BY <1>0, <1>1 DEF ApprovalIsCurrent, LatestArtifact
<1>2. CASE Research(t)
  <2>0. HasArtifact(t) /\ ~ NeedsRetry(t)
    BY <1>2, ResearchEffect DEF Recorded, NeedsRetry
  <2>1. ~ MayExecute(t)
    BY <1>0, <2>0 DEF MayExecute
  <2>2. CASE \E a \in Artifact :
               a.blocked /\ artifacts'[t] = Append(artifacts[t], a)
    BY <1>0, <2>2, AppendKeeps DEF EverBlocked
  <2> QED BY <1>1, <1>2, <2>1, <2>2, ResearchEffect
<1>3. CASE \E u \in Tasks \ {t} : Research(u)
  BY <1>1, <1>3, ResearchEffect
<1>4. ASSUME NEW u \in Tasks, ReviewResearch(u)
      PROVE  review'[t].attempt = LatestArtifact(t)'.attempt
  <2>1. CASE t = u
    BY <1>4, <2>1
       DEF ReviewResearch, CriticReview, LatestArtifact, researchVars, TypeOK
  <2>2. CASE t # u
    BY <1>1, <1>4, <2>2 DEF ReviewResearch, researchVars, TypeOK
  <2> QED BY <2>1, <2>2
<1>5. ASSUME NEW u \in Tasks, JudgeDecision(u)
      PROVE  review'[t].attempt = LatestArtifact(t)'.attempt
  <2>1. artifacts' = artifacts
    BY <1>5 DEF JudgeDecision, researchVars
  <2>2. review'[t] = review[t]
    <3>1. CASE t = u /\ review[u] = None
      BY <1>5, <3>1 DEF JudgeDecision, RuntimeFallbackReview, TypeOK
    <3>2. CASE ~ (t = u /\ review[u] = None)
      BY <1>5, <3>2 DEF JudgeDecision, TypeOK
    <3> QED BY <3>1, <3>2
  <2> QED BY <1>1, <2>1, <2>2
<1>6. CASE review' = review /\ artifacts' = artifacts
  BY <1>1, <1>6
<1> QED
  BY <1>2, <1>3, <1>4, <1>5, <1>6
     DEF Next, RunResearch, FinalizeBlocked, FinalizePackage, EndChat,
         MaxRoundHit, researchVars, vars

\* Unless the dependency guard has blocked the task, the approval in force is
\* that of the artifact the package ships.
THEOREM ApprovalsAreCurrent == Spec => []ApprovalIsCurrent
<1>1. Init => Recorded /\ ApprovalIsCurrent
  BY DEF Init, Recorded, ApprovalIsCurrent, WasBlocked, HasArtifact
<1> QED
  BY <1>1, TypeCorrect, NextRecorded, NextApprovalIsCurrent, PTL DEF Spec

-----------------------------------------------------------------------------
(* The memory store and the Critic.                                         *)

\* run_research never moves a task's memory status to or from "accepted".
LEMMA ResearchMemory ==
  ASSUME TypeOK, NEW u \in Tasks, Research(u), NEW t \in Tasks
  PROVE  memoryStatus'[t] = "accepted" <=> memoryStatus[t] = "accepted"
<1>1. CASE memoryStatus' = memoryStatus
  BY <1>1
<1>2. CASE memoryStatus' = [memoryStatus EXCEPT
                              ![u] = IF @ = "absent" THEN "pending" ELSE @]
  BY <1>2 DEF TypeOK
<1> QED
  BY <1>1, <1>2
     DEF Research, ResearchBlocked, ResearchExecute, ResearchRetryLimit

LEMMA NextMemoryFollowsCritic ==
  TypeOK /\ Evidence /\ MemoryFollowsCritic /\ [Next]_vars
    => MemoryFollowsCritic'
<1> SUFFICES ASSUME TypeOK, Evidence, MemoryFollowsCritic, [Next]_vars,
                    NEW t \in Tasks
             PROVE  memoryStatus'[t] = "accepted"
                      <=> /\ review'[t] # None
                          /\ review'[t].approved
                          /\ CoreEvidence(t)'
  BY DEF MemoryFollowsCritic
\* An approval brings its evidence, so only the review and the memory matter.
<1>0. review[t] # None /\ review[t].approved => CoreEvidence(t)
  BY DEF Evidence
<1>1. CASE /\ review'[t] = review[t]
           /\ memoryStatus'[t] = "accepted" <=> memoryStatus[t] = "accepted"
  BY <1>0, <1>1, EvidenceStable DEF MemoryFollowsCritic
<1>2. CASE \E u \in Tasks : Research(u)
  BY <1>1, <1>2, ResearchMemory, ResearchEffect
<1>3. ASSUME NEW u \in Tasks, ReviewResearch(u)
      PROVE  memoryStatus'[t] = "accepted"
               <=> /\ review'[t] # None
                   /\ review'[t].approved
                   /\ CoreEvidence(t)'
  <2>1. CASE t = u
    <3>1. LatestArtifact(t) \in Artifact /\ HasArtifact(t)
      BY <1>3, <2>1, LatestArtifactType DEF ReviewResearch
    <3>2. LatestArtifact(t).report.approved => CoreEvidence(t)'
      BY <3>1, LatestArtifactEvidence, EvidenceStable
    <3>3. /\ review'[t] = CriticReview(LatestArtifact(t))
          /\ memoryStatus'[t] = IF LatestArtifact(t).report.approved
                                THEN "accepted" ELSE "pending"
      BY <1>3, <2>1 DEF ReviewResearch, TypeOK
    <3>4. CriticReview(LatestArtifact(t)) # None
      BY <3>1, NoneIsNoRecord
         DEF CriticReview, Review, Artifact, ReportType
    <3> QED BY <3>2, <3>3, <3>4 DEF CriticReview
  <2>2. CASE t # u
    BY <1>1, <1>3, <2>2 DEF ReviewResearch, TypeOK
  <2> QED BY <2>1, <2>2
<1>4. ASSUME NEW u \in Tasks, JudgeDecision(u)
      PROVE  memoryStatus'[t] = "accepted"
               <=> /\ review'[t] # None
                   /\ review'[t].approved
                   /\ CoreEvidence(t)'
  <2>1. memoryStatus' = memoryStatus
    BY <1>4 DEF JudgeDecision
  <2>2. CASE t = u /\ review[u] = None
    <3>1. review'[t] # review[t] => ~ review'[t].approved
      BY <1>4, <2>2 DEF JudgeDecision, RuntimeFallbackReview, TypeOK
    <3> QED BY <1>1, <2>1, <2>2, <3>1 DEF MemoryFollowsCritic
  <2>3. CASE ~ (t = u /\ review[u] = None)
    <3>1. review'[t] = review[t]
      BY <1>4, <2>3 DEF JudgeDecision, TypeOK
    <3> QED BY <1>1, <2>1, <3>1
  <2> QED BY <2>2, <2>3
<1>5. CASE review' = review /\ memoryStatus' = memoryStatus
  BY <1>1, <1>5
<1> QED
  BY <1>2, <1>3, <1>4, <1>5
     DEF Next, RunResearch, FinalizeBlocked, FinalizePackage, EndChat,
         MaxRoundHit, vars

\* The status the Supervisor reads from the memory store is the Critic's
\* verdict in force, whatever the Judge and the runtime decided.
THEOREM MemoryIsTheCritics == Spec => []MemoryFollowsCritic
<1>1. Init => MemoryFollowsCritic
  BY DEF Init, MemoryFollowsCritic
<1> QED
  BY <1>1, TypeCorrect, InitEvidence, NextEvidence, NextMemoryFollowsCritic,
     PTL DEF Spec

-----------------------------------------------------------------------------
(* The package, once assembled.                                             *)

\* While the chat runs there is no package; once TERMINATE is sent the package
\* says what assembling it again would say.
Assembled ==
  /\ chat = "running" => package = None
  /\ chat = "terminating" => /\ package # None
                             /\ package.status = FinalStatuses
                             /\ \A t \in Tasks : decision[t] # None

\* Assembling records the decisions it ships.
LEMMA FinalizeRecords ==
  ASSUME TypeOK, FinalizePackage
  PROVE  /\ package' # None
         /\ package'.status = FinalStatuses
         /\ FinalStatuses' = FinalStatuses
         /\ \A t \in Tasks : decision'[t] # None
<1>1. PICK gate : package' = [kind |-> "finalized", status |-> FinalStatuses,
                              gate |-> gate]
  BY DEF FinalizePackage
<1>2. \A t \in Tasks : /\ FinalDecision(t) \in Decision
                       /\ decision'[t] = FinalDecision(t)
  BY FinalDecisionType DEF FinalizePackage
<1>3. \A t \in Tasks : decision'[t] # None
  BY <1>2, NoneIsNoRecord
<1>4. \A t \in Tasks : FinalDecision(t)' = FinalDecision(t)
  BY <1>2, <1>3 DEF FinalDecision
<1>5. \A t \in Tasks : FinalStatus(t)' = FinalStatus(t)
  BY <1>4 DEF FinalStatus, HasArtifact, FinalizePackage, researchVars
<1>6. FinalStatuses' = FinalStatuses
  BY <1>5 DEF FinalStatuses
<1>7. package' # None
  BY <1>1 DEF None
<1> QED BY <1>1, <1>3, <1>6, <1>7

LEMMA NextAssembled == TypeOK /\ Assembled /\ [Next]_vars => Assembled'
<1> SUFFICES ASSUME TypeOK, Assembled, [Next]_vars
             PROVE  Assembled'
  OBVIOUS
<1>1. CASE FinalizePackage
  BY <1>1, FinalizeRecords DEF FinalizePackage, Assembled
<1>2. CASE EndChat \/ MaxRoundHit
  BY <1>2 DEF EndChat, MaxRoundHit, Assembled
<1>3. CASE chat = "running" /\ chat' = chat /\ package' = package
  BY <1>3 DEF Assembled
<1>4. CASE UNCHANGED vars
  BY <1>4 DEF vars, Assembled, FinalStatuses, FinalStatus, FinalDecision,
              HasArtifact, LatestArtifact
<1> QED
  BY <1>1, <1>2, <1>3, <1>4
     DEF Next, RunResearch, Research, ReviewResearch, JudgeDecision,
         FinalizeBlocked

LEMMA NextPackageStable ==
  ASSUME TypeOK, Assembled, [Next]_vars, package # None
  PROVE  package' # None /\ package'.status = package.status
<1>1. CASE FinalizePackage
  BY <1>1, FinalizeRecords DEF FinalizePackage, Assembled
<1>2. CASE package' = package
  BY <1>2
<1>3. chat # "running"
  BY DEF Assembled
<1> QED
  BY <1>1, <1>2, <1>3
     DEF Next, RunResearch, ReviewResearch, JudgeDecision, FinalizeBlocked,
         EndChat, MaxRoundHit, vars

\* Repeating finalize_package in the Lead's last message never changes what
\* the department reports about a task.
THEOREM PackageIsStable == Spec => PackageStable
<1>1. Init => Assembled
  BY DEF Init, Assembled
<1>2. TypeOK /\ Assembled /\ [Next]_vars
        => [package # None => /\ package' # None
                              /\ package'.status = package.status]_vars
  BY NextPackageStable
<1> QED
  BY <1>1, <1>2, TypeCorrect, NextAssembled, PTL DEF Spec, PackageStable

-----------------------------------------------------------------------------
(* Progress of premature finalize calls.                                    *)

LEMMA TasksFinite == IsFiniteSet(Tasks)
<1>1. 1 .. Len(Assignments) = DOMAIN Assignments
  BY AssignmentsAssumption
<1>2. IsFiniteSet(1 .. Len(Assignments))
  BY FS_Interval, AssignmentsAssumption
<1>3. Assignments \in Surjection(DOMAIN Assignments, Tasks)
  BY AssignmentsAssumption DEF Surjection
<1> QED BY <1>1, <1>2, <1>3, FS_Surjection

\* A task that is no longer missing never is again.
LEMMA IncompleteShrinks ==
  ASSUME TypeOK, [Next]_vars
  PROVE  Incomplete' \subseteq Incomplete
<1> SUFFICES ASSUME NEW t \in Tasks, t \notin Incomplete
             PROVE  t \notin Incomplete'
  BY DEF Incomplete
<1>1. HasArtifact(t) \/ decision[t] # None
  BY DEF Incomplete
<1>2. CASE HasArtifact(t)
  BY <1>2, EvidenceStable DEF Incomplete
<1>3. CASE decision[t] # None
  <2>1. \/ decision'[t] = decision[t]
        \/ decision'[t] # None
    <3>0. ASSUME NEW u \in Tasks, NEW n, NEW o, NEW b,
                 decision' = [decision EXCEPT ![u] =
                               [attempt |-> n, outcome |-> o, by |-> b]]
          PROVE  decision'[t] = decision[t] \/ decision'[t] # None
      <4>1. [attempt |-> n, outcome |-> o, by |-> b] # None
        BY DEF None
      <4> QED BY <3>0, <4>1 DEF TypeOK
    <3>1. ASSUME NEW u \in Tasks, Research(u)
          PROVE  decision'[t] = decision[t] \/ decision'[t] # None
      BY <3>0, <3>1 DEF Research, ResearchBlocked, ResearchExecute,
                        ResearchRetryLimit
    <3>2. ASSUME NEW u \in Tasks, JudgeDecision(u)
          PROVE  decision'[t] = decision[t] \/ decision'[t] # None
      BY <3>0, <3>2 DEF JudgeDecision
    <3>3. CASE FinalizePackage
      BY <1>3, <3>3 DEF FinalizePackage, FinalDecision
    <3> QED
      BY <3>1, <3>2, <3>3
         DEF Next, RunResearch, ReviewResearch, FinalizeBlocked, EndChat,
             MaxRoundHit, vars
  <2> QED BY <1>3, <2>1 DEF Incomplete
<1> QED BY <1>1, <1>2, <1>3

\* The research finalize_package runs for a missing task either leaves an
\* artifact or is a failure of the worker.
LEMMA RecoveryCounts ==
  ASSUME TypeOK, NEW t \in Incomplete, Research(t)
  PROVE  \/ t \notin Incomplete' /\ failures' = failures
         \/ failures' = failures + 1
<1>1. t \in Tasks /\ ~ HasArtifact(t) /\ artifacts[t] \in Seq(Artifact)
  BY DEF Incomplete, TypeOK
<1>2. CASE ResearchBlocked(t)
  <2> DEFINE a == [attempt |-> attempts[t] + 1, report |-> EmptyReport,
                   blocked |-> TRUE]
  <2>0. /\ a \in Artifact
        /\ artifacts' = [artifacts EXCEPT ![t] = Append(@, a)]
    BY <1>1, <1>2 DEF ResearchBlocked, TypeOK, Artifact, EmptyReport,
                      ReportType, CoreLevel
  <2> HIDE DEF a
  <2>1. artifacts'[t] # <<>>
    BY <1>1, <2>0, AppendKeeps DEF TypeOK
  <2> QED BY <1>2, <2>1 DEF ResearchBlocked, Incomplete, HasArtifact
<1>3. CASE ResearchExecute(t)
  <2>1. CASE failures' = failures + 1
    BY <2>1
  <2>2. CASE \E r \in Reports :
               /\ artifacts' = [artifacts EXCEPT ![t] = Append(@,
                                  [attempt |-> attempts[t] + 1, report |-> r,
                                   blocked |-> FALSE])]
               /\ UNCHANGED failures
    <3>1. artifacts'[t] # <<>>
      BY <1>1, <2>2 DEF TypeOK
    <3> QED BY <2>2, <3>1 DEF Incomplete, HasArtifact
  <2> QED BY <1>3, <2>1, <2>2 DEF ResearchExecute
<1>4. CASE ResearchRetryLimit(t)
  BY <1>1, <1>4 DEF ResearchRetryLimit
<1> QED BY <1>2, <1>3, <1>4 DEF Research

LEMMA NextAutoRecoverProgress ==
  TypeOK /\ AutoRecoverProgress /\ [Next]_vars => AutoRecoverProgress'
<1> SUFFICES ASSUME TypeOK, AutoRecoverProgress, [Next]_vars
             PROVE  AutoRecoverProgress'
  OBVIOUS
<1> DEFINE m == Cardinality(Incomplete)
           n == Cardinality(Incomplete')
<1>0. /\ IsFiniteSet(Incomplete)
      /\ IsFiniteSet(Incomplete')
      /\ m \in Nat
      /\ n \in Nat
      /\ n <= m
      /\ m <= Cardinality(Tasks)
      /\ Cardinality(Tasks) \in Nat
  <2>1. Incomplete \subseteq Tasks /\ Incomplete' \subseteq Incomplete
    BY IncompleteShrinks DEF Incomplete
  <2> QED BY <2>1, TasksFinite, FS_Subset, FS_CardinalityType
<1>1. failures \in Nat /\ blockedFinalizeAttempts \in Nat
  BY DEF TypeOK
<1>2. CASE FinalizeBlocked /\ blockedFinalizeAttempts' >= 2
  <2>1. PICK t \in Tasks : IsNextRequired(t) /\ Research(t)
    BY <1>2 DEF FinalizeBlocked
  <2>2. t \in Incomplete
    BY <2>1 DEF IsNextRequired
  <2>3. \/ n < m /\ failures' = failures
        \/ failures' = failures + 1
    <3>1. CASE t \notin Incomplete' /\ failures' = failures
      <4>1. Incomplete' \subseteq Incomplete /\ Incomplete' # Incomplete
        BY <2>2, <3>1, IncompleteShrinks
      <4> QED BY <1>0, <3>1, <4>1, FS_Subset
    <3> QED BY <2>1, <2>2, <3>1, RecoveryCounts
  <2>4. blockedFinalizeAttempts' = blockedFinalizeAttempts + 1
    BY <1>2 DEF FinalizeBlocked
  <2> QED BY <1>0, <1>1, <2>3, <2>4 DEF AutoRecoverProgress
<1>3. CASE FinalizeBlocked /\ ~ blockedFinalizeAttempts' >= 2
  <2>1. /\ blockedFinalizeAttempts' = blockedFinalizeAttempts + 1
        /\ blockedFinalizeAttempts = 0
        /\ failures' = failures
    BY <1>1, <1>3 DEF FinalizeBlocked, researchVars
  <2> QED BY <1>0, <1>1, <2>1 DEF AutoRecoverProgress
<1>4. CASE /\ blockedFinalizeAttempts' = blockedFinalizeAttempts
           /\ failures' \in {failures, failures + 1}
  BY <1>0, <1>1, <1>4 DEF AutoRecoverProgress
<1>5. ASSUME NEW t \in Tasks, Research(t)
      PROVE  failures' \in {failures, failures + 1}
  BY <1>5 DEF Research, ResearchBlocked, ResearchExecute, ResearchRetryLimit
<1> QED
  BY <1>2, <1>3, <1>4, <1>5
     DEF Next, RunResearch, ReviewResearch, JudgeDecision, FinalizePackage,
         EndChat, MaxRoundHit, researchVars, vars

\* A Lead that does nothing but call finalize_package too early still gets its
\* package: every call after the first one completes a missing task or is
\* paid for by a worker failure.
THEOREM FinalizeRecovers == Spec => []AutoRecoverProgress
<1>1. Init => AutoRecoverProgress
  <2> SUFFICES ASSUME Init
               PROVE  AutoRecoverProgress
    OBVIOUS
  <2>1. Incomplete = Tasks
    BY DEF Init, Incomplete, HasArtifact
  <2>2. Cardinality(Tasks) \in Nat
    BY TasksFinite, FS_CardinalityType
  <2>3. Cardinality(Incomplete) = Cardinality(Tasks)
    BY <2>1
  <2>4. blockedFinalizeAttempts = 0 /\ failures = 0
    BY DEF Init
  <2> QED BY <2>2, <2>3, <2>4 DEF AutoRecoverProgress
<1> QED
  BY <1>1, TypeCorrect, NextAutoRecoverProgress, PTL DEF Spec

-----------------------------------------------------------------------------
(* The department's contract.                                               *)

\* What the memory store and the policy gate owe the caller.
Deliverable ==
  /\ \A t \in Tasks : CoreEvidence(t) => memoryStatus[t] # "absent"
  /\ package # None /\ package.gate = "passed" /\ NeedsAccepted
       => \E t \in Tasks : package.status[t] = "accepted"
  /\ chat = "ended" => package # None

\* A task's memory status, once written, is never unwritten.
LEMMA MemoryStays ==
  ASSUME TypeOK, [Next]_vars, NEW t \in Tasks, memoryStatus[t] # "absent"
  PROVE  memoryStatus'[t] # "absent"
<1>1. ASSUME NEW u \in Tasks, Research(u)
      PROVE  memoryStatus'[t] # "absent"
  <2>1. CASE memoryStatus' = memoryStatus
    BY <2>1
  <2>2. CASE memoryStatus' = [memoryStatus EXCEPT
                                ![u] = IF @ = "absent" THEN "pending" ELSE @]
    BY <2>2 DEF TypeOK
  <2> QED
    BY <1>1, <2>1, <2>2
       DEF Research, ResearchBlocked, ResearchExecute, ResearchRetryLimit
<1>2. ASSUME NEW u \in Tasks, ReviewResearch(u)
      PROVE  memoryStatus'[t] # "absent"
  BY <1>2 DEF ReviewResearch, TypeOK
<1> QED
  BY <1>1, <1>2
     DEF Next, RunResearch, JudgeDecision, FinalizeBlocked, FinalizePackage,
         EndChat, MaxRoundHit, vars

\* Evidence is new only in a report the worker brings, and that report is
\* ingested by the memory store.
LEMMA EvidenceIsIngested ==
  ASSUME TypeOK, NEW u \in Tasks, Research(u), NEW t \in Tasks,
         CoreEvidence(t)', ~ CoreEvidence(t)
  PROVE  memoryStatus'[t] # "absent"
<1>0. artifacts[t] \in Seq(Artifact)
  BY DEF TypeOK
<1>1. CASE ResearchBlocked(u)
  <2> DEFINE a == [attempt |-> attempts[u] + 1, report |-> EmptyReport,
                   blocked |-> TRUE]
  <2>1. /\ a \in Artifact
        /\ a.report.core = "none"
        /\ artifacts' = [artifacts EXCEPT ![u] = Append(@, a)]
    BY <1>1 DEF ResearchBlocked, TypeOK, Artifact, EmptyReport, ReportType,
                CoreLevel
  <2> HIDE DEF a
  <2>2. artifacts'[t] \in {artifacts[t], Append(artifacts[t], a)}
    BY <2>1 DEF TypeOK
  <2> QED BY <1>0, <2>1, <2>2, AppendKeeps DEF CoreEvidence
<1>2. CASE ResearchExecute(u)
  <2>1. CASE UNCHANGED artifacts
    BY <2>1 DEF CoreEvidence
  <2>2. CASE \E r \in Reports :
               /\ artifacts' = [artifacts EXCEPT ![u] = Append(@,
                                  [attempt |-> attempts[u] + 1, report |-> r,
                                   blocked |-> FALSE])]
               /\ memoryStatus' = [memoryStatus EXCEPT
                                     ![u] = IF @ = "absent" THEN "pending" ELSE @]
    <3>1. CASE t = u
      BY <2>2, <3>1 DEF TypeOK
    <3>2. CASE t # u
      BY <2>2, <3>2 DEF TypeOK, CoreEvidence
    <3> QED BY <3>1, <3>2
  <2> QED BY <1>2, <2>1, <2>2 DEF ResearchExecute
<1>3. CASE ResearchRetryLimit(u)
  BY <1>3 DEF ResearchRetryLimit, CoreEvidence
<1> QED BY <1>1, <1>2, <1>3 DEF Research

LEMMA NextDeliverable ==
  TypeOK /\ Assembled /\ Deliverable /\ [Next]_vars => Deliverable'
<1> SUFFICES ASSUME TypeOK, Assembled, Deliverable, [Next]_vars
             PROVE  Deliverable'
  OBVIOUS
<1>1. ASSUME NEW t \in Tasks, CoreEvidence(t)'
      PROVE  memoryStatus'[t] # "absent"
  <2>1. CASE CoreEvidence(t)
    BY <2>1, MemoryStays DEF Deliverable
  <2>2. CASE ~ CoreEvidence(t)
    <3>1. \E u \in Tasks : Research(u)
      BY <1>1, <2>2, OtherSteps DEF CoreEvidence
    <3> QED BY <1>1, <2>2, <3>1, EvidenceIsIngested
  <2> QED BY <2>1, <2>2
<1>2. ASSUME package' # None, package'.gate = "passed", NeedsAccepted
      PROVE  \E t \in Tasks : package'.status[t] = "accepted"
  <2>1. CASE package' = package
    BY <1>2, <2>1 DEF Deliverable
  <2>2. CASE FinalizePackage
    <3>1. package'.status = FinalStatuses
      BY <2>2, FinalizeRecords
    <3>2. CASE package = None
      <4>1. "passed" \in PolicyGate(FinalStatuses)
        BY <1>2, <2>2, <3>2 DEF FinalizePackage
      <4> QED BY <1>2, <3>1, <4>1 DEF PolicyGate
    <3>3. CASE package # None
      <4>1. package.status = FinalStatuses
        BY <2>2, <3>3 DEF FinalizePackage, Assembled
      <4>2. package'.gate = package.gate
        BY <2>2, <3>3 DEF FinalizePackage
      <4> QED BY <1>2, <3>1, <3>3, <4>1, <4>2 DEF Deliverable
    <3> QED BY <3>2, <3>3
  <2>3. CASE MaxRoundHit
    BY <1>2, <2>3 DEF MaxRoundHit
  <2> QED
    BY <2>1, <2>2, <2>3
       DEF Next, RunResearch, Research, ReviewResearch, JudgeDecision,
           FinalizeBlocked, EndChat, vars
<1>3. chat' = "ended" => package' # None
  BY DEF Next, RunResearch, ReviewResearch, JudgeDecision, FinalizeBlocked,
         FinalizePackage, EndChat, MaxRoundHit, vars, Deliverable, Assembled,
         None
<1> QED BY <1>1, <1>2, <1>3 DEF Deliverable

\* What the caller sees when the chat has ended keeps the contract.
ResultPromised == chat = "ended" => Delivered \in Promised(Tasks, NeedsAccepted)

LEMMA DeliveredIsPromised ==
  TypeOK /\ AcceptedHasEvidence /\ Deliverable => ResultPromised
<1> SUFFICES ASSUME TypeOK, AcceptedHasEvidence, Deliverable, chat = "ended"
             PROVE  Delivered \in Promised(Tasks, NeedsAccepted)
  BY DEF ResultPromised
<1>1. package \in Package /\ package # None
  BY DEF TypeOK, Deliverable
<1>2. Delivered = [status |-> package.status, memory |-> memoryStatus,
                   gate |-> package.gate]
  BY DEF Delivered
<1>3. /\ package.status \in [Tasks -> TaskStatus]
      /\ memoryStatus \in [Tasks -> WorkingStatus]
      /\ package.gate \in Gate
  BY <1>1 DEF Package, TypeOK
<1>4. \A t \in Tasks :
        package.status[t] = "accepted" => memoryStatus[t] # "absent"
  BY <1>1 DEF AcceptedHasEvidence, Deliverable
<1>5. package.gate = "passed" /\ NeedsAccepted
        => \E t \in Tasks : package.status[t] = "accepted"
  BY <1>1 DEF Deliverable
<1> QED BY <1>2, <1>3, <1>4, <1>5 DEF Promised

\* Every step of the chat is a step of the contract or invisible to it.
LEMMA NextContract ==
  ASSUME [Next]_vars, ResultPromised'
  PROVE  [Contract!Deliver]_Delivered
<1>1. CASE chat' # "ended"
  <2>1. chat # "ended"
    BY <1>1 DEF Next, RunResearch, ReviewResearch, JudgeDecision,
                FinalizeBlocked, FinalizePackage, EndChat, MaxRoundHit, vars
  <2> QED BY <1>1, <2>1 DEF Delivered
<1>2. CASE chat = "ended"
  BY <1>2 DEF Next, RunResearch, ReviewResearch, JudgeDecision,
              FinalizeBlocked, FinalizePackage, EndChat, MaxRoundHit, vars,
              Delivered
<1>3. CASE chat # "ended" /\ chat' = "ended"
  <2>1. Delivered = None
    BY <1>3 DEF Delivered
  <2>2. Delivered' \in Promised(Tasks, NeedsAccepted)
    BY <1>3 DEF ResultPromised
  <2>3. Delivered = Contract!None
    BY <2>1 DEF None, Contract!None
  <2>4. Delivered' \in Contract!Promised(Tasks, NeedsAccepted)
    BY <2>2 DEF Promised, Contract!Promised, TaskStatus, Contract!TaskStatus,
                Contract!WorkingStatus, Gate, Contract!Gate
  <2> QED BY <2>3, <2>4 DEF Contract!Deliver
<1> QED BY <1>1, <1>2, <1>3

\* The group chat implements the contract the Supervisor relies on, whatever
\* the agents do.
THEOREM ChatKeepsContract == Spec => ImplementsContract
<1>1. Init => Assembled /\ Deliverable
  BY DEF Init, Assembled, Deliverable, CoreEvidence
<1>2. Init => Contract!Init
  BY DEF Init, Contract!Init, Delivered, None, Contract!None
<1>3. [Next]_vars /\ ResultPromised' => [Contract!Deliver]_Delivered
  BY NextContract
<1> QED
  BY <1>1, <1>2, <1>3, TypeCorrect, AcceptanceIsEarned, NextAssembled,
     NextDeliverable, DeliveredIsPromised, PTL
     DEF Spec, ImplementsContract, Contract!Spec

\* However often the agents repeat their calls, research and premature finalize
\* calls are bounded (run_research, finalize_package).
THEOREM CallsBounded == Spec => []CallsAreBounded
BY RetriesAreBounded, FinalizeRecovers, PTL DEF CallsAreBounded

\* The review in force binds what is shipped and what the Supervisor hears
\* (review_research, judge_decision, mark_critic_review).
THEOREM ReviewsBind == Spec => []ReviewsAreBinding
BY ApprovalsAreCurrent, MemoryIsTheCritics, PTL DEF ReviewsAreBinding
=============================================================================
