------------------------ MODULE SupervisorLoopProofs ------------------------
(***************************************************************************)
(* Proofs about SupervisorLoop for any departments, task catalogue, run     *)
(* conditions and question coverage.                                        *)
(***************************************************************************)
EXTENDS SupervisorLoop, WellFoundedInduction, TLAPS

-----------------------------------------------------------------------------
(* Facts about the constants and the pure operators.                        *)

\* The parallel batch is not empty.
LEMMA BatchNotEmpty == ParallelSet # {}
<1>1. 1 \in DOMAIN Parallel
  BY DepartmentsAssumption
<1> QED BY <1>1 DEF ParallelSet, SetOf

\* A task has one department.
LEMMA OneOwner ==
  ASSUME NEW d \in Departments, NEW e \in Departments, d # e
  PROVE  \A t \in TaskSet(d) : t \notin TaskSet(e)
BY DepartmentsAssumption

\* A department's tasks are tasks.
LEMMA TaskSetTasks ==
  ASSUME NEW d \in Departments
  PROVE  TaskSet(d) \subseteq Tasks
BY DEF Tasks

\* The places of a sequence hold its members, and the sequential departments
\* are departments, each in one place.
LEMMA SequentialPlaces ==
  /\ Len(Sequential) \in Nat
  /\ \A i \in 1 .. Len(Sequential) :
       /\ Sequential[i] \in Departments
       /\ Sequential[i] \notin ParallelSet
       /\ \A j \in 1 .. Len(Sequential) : i # j => Sequential[i] # Sequential[j]
<1>1. Sequential \in Seq(STRING)
  BY DepartmentsAssumption
<1>2. Len(Sequential) \in Nat /\ DOMAIN Sequential = 1 .. Len(Sequential)
  BY <1>1
<1>3. \A i \in 1 .. Len(Sequential) : Sequential[i] \in SetOf(Sequential)
  BY <1>2 DEF SetOf
<1> QED BY <1>2, <1>3, DepartmentsAssumption DEF Departments

\* Appending adds one member.
LEMMA SetOfAppend ==
  ASSUME NEW T, NEW s \in Seq(T), NEW x \in T
  PROVE  SetOf(Append(s, x)) = SetOf(s) \cup {x}
<1>1. DOMAIN s = 1 .. Len(s) /\ DOMAIN Append(s, x) = 1 .. Len(s) + 1
  OBVIOUS
<1>2. \A i \in 1 .. Len(s) : Append(s, x)[i] = s[i]
  OBVIOUS
<1>3. Append(s, x)[Len(s) + 1] = x
  OBVIOUS
<1>4. Len(s) \in Nat
  OBVIOUS
<1> QED BY <1>1, <1>2, <1>3, <1>4 DEF SetOf

\* A non-empty set of places has a last one.
LEMMA LastPlace ==
  ASSUME NEW n \in Nat, NEW I \in SUBSET (1 .. n), I # {}
  PROVE  \E i \in I : \A j \in I : j <= i
<1> DEFINE Less == {ss \in Nat \X Nat : ss[1] < ss[2]}
           T == {n - i : i \in I}
<1>1. IsWellFoundedOn(Less, Nat)
  BY NatLessThanWellFounded DEF OpToRel
<1>2. \A i \in I : n - i \in Nat /\ n - i \in T
  OBVIOUS
<1>3. T \subseteq Nat
  BY <1>2
<1>4. T # {}
  BY <1>2
<1>5. \A k \in T : \E i \in I : k = n - i
  OBVIOUS
<1> HIDE DEF T
<1>6. PICK m \in T : \A k \in T : ~ (<<k, m>> \in Less)
  BY <1>1, <1>3, <1>4, WFMin
<1>7. \A k, l \in Nat : k < l => <<k, l>> \in Less
  OBVIOUS
<1> HIDE DEF Less
<1>8. \A k \in T : m <= k
  <2> TAKE k \in T
  <2>1. k \in Nat /\ m \in Nat
    BY <1>3
  <2>2. ~ (k < m)
    BY <1>6, <1>7, <2>1
  <2> QED BY <2>1, <2>2
<1>9. PICK i \in I : m = n - i
  BY <1>5
<1>10. \A j \in I : j <= i
  BY <1>2, <1>8, <1>9
<1> QED BY <1>10

\* The Supervisor always decides, and "accepted" only on an accepted task.
LEMMA AdmitDecides ==
  ASSUME NEW r, NEW b \in BOOLEAN
  PROVE  /\ Admit(r, b) \in AdmissionDecision
         /\ Admit(r, b) = "accepted" =>
              \E t \in DOMAIN r.status : r.status[t] = "accepted"
BY DEF Admit, AdmissionDecision

\* A question is answered by an accepted task only.
LEMMA MatrixStatusOf ==
  ASSUME NEW s
  PROVE  /\ MatrixStatus(s) \in MatrixValue
         /\ MatrixStatus(s) = "answered" => s = "accepted"
<1>1. CASE s = "accepted"
  BY <1>1 DEF MatrixStatus, MatrixValue
<1>2. CASE s \in {"degraded", "blocked"}
  BY <1>2 DEF MatrixStatus, MatrixValue
<1>3. CASE s = "skipped"
  BY <1>3 DEF MatrixStatus, MatrixValue
<1>4. CASE s \notin {"accepted", "degraded", "blocked", "skipped"}
  BY <1>4 DEF MatrixStatus, MatrixValue
<1> QED BY <1>1, <1>2, <1>3, <1>4

\* The review gives each task of the department a terminal status.
LEMMA ReportedType ==
  ASSUME NEW d \in Departments, NEW S, NEW b, NEW r \in Promised(S, b)
  PROVE  /\ Reported(d, r) \in [TaskSet(d) -> TaskStatus]
         /\ r.status \in [S -> TaskStatus]
         /\ r.memory \in [S -> WorkingStatus]
         /\ \A t \in TaskSet(d) :
              Reported(d, r)[t] = IF t \in S THEN r.status[t] ELSE "degraded"
<1>1. r.status \in [S -> TaskStatus] /\ r.memory \in [S -> WorkingStatus]
  BY DEF Promised
<1> QED BY <1>1 DEF Reported, TaskStatus

-----------------------------------------------------------------------------
(* What recording the tasks of a department does.                           *)

\* The tasks in S of d get their verdict, in all three records; a question is
\* answered afterwards only if it was and none of them covers it, or if one of
\* them answers it.
Settles(d, S) ==
  /\ runStatus' \in [Tasks -> RunStatus]
  /\ memory' \in [Tasks -> StoreStatus]
  /\ matrix' \in [Questions -> MatrixValue]
  /\ backlog' \in [Tasks -> Seq(RunStatus)]
  /\ \A t \in S : /\ runStatus'[t] # "assigned"
                  /\ memory'[t] = runStatus'[t]
                  /\ backlog'[t] = Append(backlog[t], runStatus'[t])
  /\ \A t \in Tasks \ S : /\ runStatus'[t] = runStatus[t]
                          /\ backlog'[t] = backlog[t]
  /\ \A q \in Questions :
       matrix'[q] = "answered" =>
         \/ matrix[q] = "answered" /\ \A t \in S : q \notin QuestionsOf[t]
         \/ \E t \in S : q \in QuestionsOf[t] /\ runStatus'[t] = "accepted"

\* The matrix after recording: the last task that covers a question decides.
LEMMA UpdateMatrixAnswers ==
  ASSUME TypeOK, NEW d \in Departments, NEW S \in SUBSET TaskSet(d), NEW status,
         NEW q \in Questions
  PROVE  /\ UpdateMatrix(d, S, status)[q] \in MatrixValue
         /\ UpdateMatrix(d, S, status)[q] = "answered" =>
              \/ matrix[q] = "answered" /\ \A t \in S : q \notin QuestionsOf[t]
              \/ \E t \in S : q \in QuestionsOf[t] /\ status[t] = "accepted"
<1> DEFINE I == Covering(d, S, q)
           last == CHOOSE i \in I : \A j \in I : j <= i
<1>0. TasksOf[d] \in Seq(STRING)
  BY DepartmentsAssumption
<1>1. CASE I = {}
  <2>1. UpdateMatrix(d, S, status)[q] = matrix[q]
    BY <1>1 DEF UpdateMatrix
  <2>2. \A t \in S : q \notin QuestionsOf[t]
    BY <1>1 DEF Covering, TaskSet, SetOf
  <2> QED BY <2>1, <2>2 DEF TypeOK
<1>2. CASE I # {}
  <2>1. I \in SUBSET (1 .. Len(TasksOf[d])) /\ Len(TasksOf[d]) \in Nat
    BY <1>0 DEF Covering
  <2>2. \E i \in I : \A j \in I : j <= i
    BY <1>2, <2>1, LastPlace
  <2>3. last \in I
    BY <2>2
  <2>4. TasksOf[d][last] \in S /\ q \in QuestionsOf[TasksOf[d][last]]
    BY <2>3 DEF Covering
  <2>5. UpdateMatrix(d, S, status)[q] = MatrixStatus(status[TasksOf[d][last]])
    BY <1>2 DEF UpdateMatrix
  <2> HIDE DEF last
  <2> QED BY <2>4, <2>5, MatrixStatusOf
<1> QED BY <1>1, <1>2

\* Record settles.
LEMMA RecordSettles ==
  ASSUME TypeOK, NEW d \in Departments, NEW S \in SUBSET TaskSet(d),
         NEW status \in [TaskSet(d) -> RunStatus \ {"assigned"}],
         NEW store \in [Tasks -> StoreStatus],
         Record(d, S, status, store)
  PROVE  /\ Settles(d, S)
         /\ \A t \in S : runStatus'[t] = status[t]
         /\ \A t \in Tasks \ S : memory'[t] = store[t]
<1>1. S \subseteq Tasks
  BY TaskSetTasks
<1>2. \A t \in S : status[t] \in RunStatus /\ status[t] # "assigned"
  OBVIOUS
<1>3. /\ runStatus' \in [Tasks -> RunStatus]
      /\ \A t \in S : runStatus'[t] = status[t]
      /\ \A t \in Tasks \ S : runStatus'[t] = runStatus[t]
  BY <1>1, <1>2 DEF Record, Overlay, TypeOK
<1>4. /\ memory' \in [Tasks -> StoreStatus]
      /\ \A t \in S : memory'[t] = status[t]
      /\ \A t \in Tasks \ S : memory'[t] = store[t]
  <2>1. \A t \in S : status[t] \in StoreStatus
    BY <1>2 DEF RunStatus, StoreStatus
  <2> QED BY <1>1, <2>1 DEF Record, Overlay
<1>5. /\ backlog' \in [Tasks -> Seq(RunStatus)]
      /\ \A t \in S : backlog'[t] = Append(backlog[t], status[t])
      /\ \A t \in Tasks \ S : backlog'[t] = backlog[t]
  <2>1. \A t \in S : Append(backlog[t], status[t]) \in Seq(RunStatus)
    BY <1>1, <1>2 DEF TypeOK
  <2> QED BY <1>1, <2>1 DEF Record, TypeOK
<1>6. /\ matrix' \in [Questions -> MatrixValue]
      /\ \A q \in Questions :
           matrix'[q] = "answered" =>
             \/ matrix[q] = "answered" /\ \A t \in S : q \notin QuestionsOf[t]
             \/ \E t \in S : q \in QuestionsOf[t] /\ status[t] = "accepted"
  <2>1. matrix' = UpdateMatrix(d, S, status)
    BY DEF Record
  <2>2. DOMAIN matrix' = Questions /\ matrix' = [q \in Questions |-> matrix'[q]]
    BY <2>1 DEF UpdateMatrix
  <2> QED BY <2>1, <2>2, UpdateMatrixAnswers
<1> QED BY <1>2, <1>3, <1>4, <1>5, <1>6 DEF Settles
-----------------------------------------------------------------------------
(* What the actions do to the records.                                      *)

\* The package of d is admitted, one way or another.
Admits(d) ==
  /\ packages' \in [Departments -> AdmissionDecision \cup {"none"}]
  /\ packages'[d] # "none"
  /\ packages'[d] = "accepted" => \E t \in TaskSet(d) : runStatus'[t] = "accepted"
  /\ \A e \in Departments \ {d} : packages'[e] = packages[e]
  /\ buyerPoints' \in BOOLEAN
  /\ d # "BuyerDepartment" => buyerPoints' = buyerPoints

\* An admission decision is not "none".
LEMMA DecisionIsNotNone == "none" \notin AdmissionDecision
BY DEF AdmissionDecision

LEMMA AdmitPackageAdmits ==
  ASSUME TypeOK, NEW d \in Departments, NEW S \in SUBSET TaskSet(d), NEW b,
         NEW r \in Promised(S, b), AdmitPackage(d, r),
         \A t \in TaskSet(d) : runStatus'[t] = Reported(d, r)[t]
  PROVE  Admits(d)
<1>1. PICK substantive \in BOOLEAN :
        packages' = [packages EXCEPT ![d] = Admit(r, substantive)]
  BY DEF AdmitPackage
<1> DEFINE a == Admit(r, substantive)
<1>2. /\ a \in AdmissionDecision
      /\ a = "accepted" => \E t \in DOMAIN r.status : r.status[t] = "accepted"
  BY AdmitDecides
<1>3. packages' = [packages EXCEPT ![d] = a]
  BY <1>1
<1> HIDE DEF a
<1>4. packages \in [Departments -> AdmissionDecision \cup {"none"}]
  BY DEF TypeOK
<1>5. /\ packages' \in [Departments -> AdmissionDecision \cup {"none"}]
      /\ packages'[d] = a
      /\ \A e \in Departments \ {d} : packages'[e] = packages[e]
  BY <1>2, <1>3, <1>4
<1>6. a = "accepted" => \E t \in TaskSet(d) : runStatus'[t] = "accepted"
  BY <1>2, ReportedType
<1>7. buyerPoints' \in BOOLEAN /\ (d # "BuyerDepartment" => buyerPoints' = buyerPoints)
  <2>1. buyerPoints \in BOOLEAN
    BY DEF TypeOK
  <2> QED BY <2>1 DEF AdmitPackage
<1> QED BY <1>2, <1>5, <1>6, <1>7, DecisionIsNotNone DEF Admits

\* Terminal statuses are run statuses, and not "assigned".
LEMMA TerminalStatus == TaskStatus \cup {"skipped"} = RunStatus \ {"assigned"}
BY DEF TaskStatus, RunStatus

\* The review of a parallel department.
LEMMA ReviewEffect ==
  ASSUME TypeOK, NEW d \in ParallelSet, Review(d)
  PROVE  /\ d \in Departments
         /\ Settles(d, TaskSet(d))
         /\ Admits(d)
         /\ \A t \in TaskSet(d) : runStatus'[t] \in TaskStatus
         /\ \A t \in Tasks \ TaskSet(d) : memory'[t] = memory[t]
<1>1. d \in Departments
  BY DEF Departments
<1>2. PICK r : r = future[d]
  OBVIOUS
<1>3. r \in Promised(TaskSet(d), NeedsAccepted[d])
  BY <1>2 DEF Review, TypeOK, Results
<1> DEFINE status == Reported(d, r)
<1>4. status \in [TaskSet(d) -> TaskStatus]
  BY <1>1, <1>3, ReportedType
<1>5. PICK store : store = memory
  OBVIOUS
<1>6. store \in [Tasks -> StoreStatus]
  BY <1>5 DEF TypeOK
<1>7. Record(d, TaskSet(d), status, store)
  BY <1>2, <1>5 DEF Review
<1>8. status \in [TaskSet(d) -> RunStatus \ {"assigned"}]
  BY <1>4, TerminalStatus
<1> HIDE DEF status
<1>9. /\ Settles(d, TaskSet(d))
      /\ \A t \in TaskSet(d) : runStatus'[t] = status[t]
      /\ \A t \in Tasks \ TaskSet(d) : memory'[t] = store[t]
  BY <1>1, <1>6, <1>7, <1>8, RecordSettles
<1>10. Admits(d)
  <2>1. AdmitPackage(d, r)
    BY <1>2 DEF Review
  <2>2. \A t \in TaskSet(d) : runStatus'[t] = Reported(d, r)[t]
    BY <1>9 DEF status
  <2> QED BY <1>1, <1>3, <2>1, <2>2, AdmitPackageAdmits
<1> QED BY <1>1, <1>4, <1>5, <1>9, <1>10

\* The assignment of a sequential department.
LEMMA StartEffect ==
  ASSUME TypeOK, StartSequential
  PROVE  /\ Current \in Departments
         /\ running' \in SUBSET TaskSet(Current)
         /\ \A t \in running' : ConditionMet(RunCondition[t])
         /\ Settles(Current, TaskSet(Current) \ running')
         /\ \A t \in TaskSet(Current) \ running' : runStatus'[t] = "skipped"
         /\ \A t \in Tasks \ (TaskSet(Current) \ running') : memory'[t] = memory[t]
<1>1. PICK d : d = Current
  OBVIOUS
<1>2. d \in Departments
  BY <1>1, SequentialPlaces DEF StartSequential, Current, TypeOK
<1>3. PICK S : S = TaskSet(d) \ Runnable(d)
  OBVIOUS
<1>4. /\ running' = Runnable(d)
      /\ running' \in SUBSET TaskSet(d)
      /\ S = TaskSet(d) \ running'
      /\ \A t \in running' : ConditionMet(RunCondition[t])
  BY <1>1, <1>3 DEF StartSequential, Runnable
<1>5. PICK store : store = memory
  OBVIOUS
<1> DEFINE status == [t \in TaskSet(d) |-> "skipped"]
<1>6. Record(d, S, status, store)
  BY <1>1, <1>3, <1>5 DEF StartSequential
<1>7. status \in [TaskSet(d) -> RunStatus \ {"assigned"}]
  BY TerminalStatus
<1>8. \A t \in S : status[t] = "skipped"
  BY <1>3
<1> HIDE DEF status
<1>9. /\ Settles(d, S)
      /\ \A t \in S : runStatus'[t] = status[t]
      /\ \A t \in Tasks \ S : memory'[t] = store[t]
  <2>1. store \in [Tasks -> StoreStatus]
    BY <1>5 DEF TypeOK
  <2>2. S \in SUBSET TaskSet(d)
    BY <1>3
  <2> QED BY <1>2, <1>6, <1>7, <2>1, <2>2, RecordSettles
<1> QED BY <1>1, <1>2, <1>4, <1>5, <1>8, <1>9

\* The review of a sequential department.
LEMMA FinishEffect ==
  ASSUME TypeOK, FinishSequential, Current \in Departments,
         running \subseteq TaskSet(Current)
  PROVE  /\ Settles(Current, TaskSet(Current))
         /\ Admits(Current)
         /\ \A t \in TaskSet(Current) :
              /\ runStatus'[t] \in TaskStatus
              /\ t \notin running => runStatus'[t] = "degraded"
         /\ \A t \in Tasks \ TaskSet(Current) : memory'[t] = memory[t]
<1>1. PICK d, S : d = Current /\ S = running
  OBVIOUS
<1>2. PICK r \in Promised(S, NeedsAccepted[d]) :
        /\ AdmitPackage(d, r)
        /\ Record(d, TaskSet(d), Reported(d, r), Overlay(memory, S, r.memory))
  BY <1>1 DEF FinishSequential
<1>3. d \in Departments /\ S \in SUBSET TaskSet(d)
  BY <1>1
<1> DEFINE status == Reported(d, r)
<1>4. /\ status \in [TaskSet(d) -> TaskStatus]
      /\ r.memory \in [S -> WorkingStatus]
      /\ \A t \in TaskSet(d) : t \notin S => status[t] = "degraded"
  BY <1>3, ReportedType
<1>5. PICK store : store = Overlay(memory, S, r.memory)
  OBVIOUS
<1>6. /\ store \in [Tasks -> StoreStatus]
      /\ \A t \in Tasks \ S : store[t] = memory[t]
  <2>1. \A t \in S : r.memory[t] \in StoreStatus
    BY <1>4 DEF WorkingStatus, StoreStatus, TaskStatus
  <2>2. memory \in [Tasks -> StoreStatus]
    BY DEF TypeOK
  <2> QED BY <1>5, <2>1, <2>2 DEF Overlay
<1>7. Record(d, TaskSet(d), status, store)
  BY <1>2, <1>5
<1>8. status \in [TaskSet(d) -> RunStatus \ {"assigned"}]
  BY <1>4, TerminalStatus
<1> HIDE DEF status
<1>9. /\ Settles(d, TaskSet(d))
      /\ \A t \in TaskSet(d) : runStatus'[t] = status[t]
      /\ \A t \in Tasks \ TaskSet(d) : memory'[t] = store[t]
  BY <1>3, <1>6, <1>7, <1>8, RecordSettles
<1>10. Admits(d)
  <2>1. \A t \in TaskSet(d) : runStatus'[t] = Reported(d, r)[t]
    BY <1>9 DEF status
  <2> QED BY <1>2, <1>3, <2>1, AdmitPackageAdmits
<1> QED BY <1>1, <1>3, <1>4, <1>6, <1>9, <1>10

\* Merging keeps a settled status or puts the Critic's approval in its place.
LEMMA MergedStatusOf ==
  ASSUME NEW current \in StoreStatus, NEW value \in WorkingStatus
  PROVE  /\ MergedStatus(current, value) \in StoreStatus
         /\ current \notin {"absent", "pending"} =>
              MergedStatus(current, value) \in {current, "accepted"}
BY DEF MergedStatus, StoreStatus, WorkingStatus, TaskStatus
-----------------------------------------------------------------------------
(* Type correctness.  The loop has a shape that types alone do not give: who *)
(* is reviewed has delivered, after the merge everybody is reviewed, and     *)
(* what runs is part of the current sequential department.                   *)

Shape ==
  /\ phase = "parallel" => \A d \in SetOf(reviewed) : future[d] \notin {None, Raised}
  /\ phase \in {"sequential", "done"} => SetOf(reviewed) = ParallelSet
  /\ phase \in {"parallel", "draining"} => next = 1 /\ running = {}
  /\ running # {} => /\ next <= Len(Sequential)
                     /\ running \subseteq TaskSet(Sequential[next])
  /\ phase = "done" => next > Len(Sequential)

LEMMA InitTypeOK == Init => TypeOK /\ Shape
<1> SUFFICES ASSUME Init PROVE TypeOK /\ Shape
  OBVIOUS
<1> USE DEF Init
<1>1. \A i \in DOMAIN Parallel : Parallel[i] \in Departments
  BY DEF Departments, ParallelSet, SetOf
<1>3. backlog \in [Tasks -> Seq(RunStatus)]
  OBVIOUS
<1>4. 1 \in 1 .. (Len(Sequential) + 1)
  BY SequentialPlaces
<1>5. SetOf(reviewed) = {}
  BY DEF SetOf
<1>6. TypeOK
  <2>1. /\ DOMAIN future = ParallelSet
        /\ \A d \in ParallelSet : future[d] \in Results(d) \cup {None, Raised}
    OBVIOUS
  <2>2. reviewed \in Seq(ParallelSet) /\ facts \in Seq(Departments)
    OBVIOUS
  <2>3. /\ runStatus \in [Tasks -> RunStatus]
        /\ memory \in [Tasks -> StoreStatus]
        /\ matrix \in [Questions -> MatrixValue]
        /\ packages \in [Departments -> AdmissionDecision \cup {"none"}]
    BY DEF RunStatus, StoreStatus, MatrixValue
  <2> QED BY <1>3, <1>4, <2>1, <2>2, <2>3 DEF TypeOK
<1>7. Shape
  BY <1>5 DEF Shape
<1> QED BY <1>6, <1>7

\* What the merge leaves of each status.
LEMMA MergeEffect ==
  ASSUME TypeOK, Shape, Merge
  PROVE  /\ memory' \in [Tasks -> StoreStatus]
         /\ \A t \in Tasks \ ParallelTasks : memory'[t] = memory[t]
         /\ \A t \in Tasks : memory[t] \notin {"absent", "pending"} =>
              memory'[t] \in {memory[t], "accepted"}
<1> DEFINE owner(t) == CHOOSE d \in ParallelSet : t \in TaskSet(d)
           merged(t) == IF t \in ParallelTasks
                        THEN MergedStatus(memory[t], future[owner(t)].memory[t])
                        ELSE memory[t]
<1>1. memory' = [t \in Tasks |-> merged(t)]
  BY DEF Merge
<1>2. memory \in [Tasks -> StoreStatus]
  BY DEF TypeOK
<1>3. \A t \in ParallelTasks : future[owner(t)].memory[t] \in WorkingStatus
  <2> SUFFICES ASSUME NEW t \in ParallelTasks
               PROVE  future[owner(t)].memory[t] \in WorkingStatus
    OBVIOUS
  <2>1. \E d \in ParallelSet : t \in TaskSet(d)
    BY DEF ParallelTasks
  <2>2. owner(t) \in ParallelSet /\ t \in TaskSet(owner(t))
    BY <2>1
  <2> HIDE DEF owner
  <2>3. future[owner(t)] \notin {None, Raised}
    BY <2>2 DEF Merge, Shape
  <2>4. future[owner(t)] \in Promised(TaskSet(owner(t)), NeedsAccepted[owner(t)])
    BY <2>2, <2>3 DEF TypeOK, Results
  <2>5. future[owner(t)].memory \in [TaskSet(owner(t)) -> WorkingStatus]
    BY <2>4 DEF Promised
  <2> QED BY <2>2, <2>5
<1> HIDE DEF owner
<1>4. \A t \in Tasks :
        /\ merged(t) \in StoreStatus
        /\ t \notin ParallelTasks => merged(t) = memory[t]
        /\ memory[t] \notin {"absent", "pending"} => merged(t) \in {memory[t], "accepted"}
  BY <1>2, <1>3, MergedStatusOf
<1> HIDE DEF merged
<1> QED BY <1>1, <1>4

LEMMA NextTypeOK == TypeOK /\ Shape /\ [Next]_vars => TypeOK'
<1> SUFFICES ASSUME TypeOK, Shape, [Next]_vars
             PROVE  TypeOK'
  OBVIOUS
<1>0. Len(Sequential) \in Nat
  BY SequentialPlaces
<1>1. ASSUME NEW d \in ParallelSet, NEW r \in Results(d) \cup {Raised}, Complete(d, r)
      PROVE  TypeOK'
  <2>1. /\ DOMAIN future' = ParallelSet
        /\ \A e \in ParallelSet : future'[e] \in Results(e) \cup {None, Raised}
    BY <1>1 DEF Complete, TypeOK
  <2> QED BY <1>1, <2>1 DEF Complete, TypeOK, board
<1>2. ASSUME NEW d \in ParallelSet, Review(d)
      PROVE  TypeOK'
  <2>1. reviewed' \in Seq(ParallelSet)
    BY <1>2 DEF Review, TypeOK
  <2>2. Settles(d, TaskSet(d)) /\ Admits(d)
    BY <1>2, ReviewEffect
  <2> QED BY <1>2, <2>1, <2>2 DEF Review, TypeOK, Settles, Admits
<1>3. ASSUME NEW d \in ParallelSet, ReviewRaised(d)
      PROVE  TypeOK'
  BY <1>3 DEF ReviewRaised, TypeOK, board
<1>4. CASE Drain
  BY <1>4 DEF Drain, TypeOK, board
<1>5. CASE Merge
  <2>1. memory' \in [Tasks -> StoreStatus]
    BY <1>5, MergeEffect
  <2>2. facts' \in Seq(Departments)
    <3>1. Parallel \in Seq(Departments)
      <4>1. Parallel \in Seq(STRING)
        BY DepartmentsAssumption
      <4>2. \A i \in DOMAIN Parallel : Parallel[i] \in Departments
        BY DEF Departments, ParallelSet, SetOf
      <4> QED BY <4>1, <4>2
    <3> QED BY <1>5, <3>1 DEF Merge, MergedFacts, TypeOK
  <2>3. /\ DOMAIN future' = ParallelSet
        /\ \A e \in ParallelSet : future'[e] \in Results(e) \cup {None, Raised}
    BY <1>5 DEF Merge
  <2> QED BY <1>5, <2>1, <2>2, <2>3 DEF Merge, TypeOK
<1>6. CASE StartSequential
  <2>1. /\ Current \in Departments
        /\ running' \in SUBSET TaskSet(Current)
        /\ Settles(Current, TaskSet(Current) \ running')
    BY <1>6, StartEffect
  <2>2. running' \in SUBSET Tasks
    BY <2>1, TaskSetTasks
  <2>4. next' \in 1 .. (Len(Sequential) + 1)
    BY <1>0, <1>6 DEF StartSequential, TypeOK
  <2> QED BY <1>6, <2>1, <2>2, <2>4 DEF StartSequential, TypeOK, Settles
<1>7. CASE FinishSequential
  <2>1. Current \in Departments /\ running \subseteq TaskSet(Current)
    BY <1>7, SequentialPlaces DEF FinishSequential, Shape, Current, TypeOK
  <2>2. Settles(Current, TaskSet(Current)) /\ Admits(Current)
    BY <1>7, <2>1, FinishEffect
  <2>3. facts' \in Seq(Departments)
    BY <1>7, <2>1 DEF FinishSequential, TypeOK
  <2>4. next' \in 1 .. (Len(Sequential) + 1)
    BY <1>0, <1>7 DEF FinishSequential, NextDepartment, TypeOK, Shape
  <2>5. running' \in SUBSET Tasks /\ capped' \in BOOLEAN
    BY <1>7 DEF FinishSequential
  <2> QED BY <1>7, <2>2, <2>3, <2>4, <2>5 DEF FinishSequential, TypeOK, Settles, Admits
<1>8. CASE RaiseSequential
  <2>1. Current \in Departments
    BY <1>8, SequentialPlaces DEF RaiseSequential, Shape, Current, TypeOK
  <2>2. facts' \in Seq(Departments)
    <3>1. facts' \in {facts, Append(facts, Current)}
      BY <1>8 DEF RaiseSequential
    <3>2. facts \in Seq(Departments)
      BY DEF TypeOK
    <3>3. Append(facts, Current) \in Seq(Departments)
      BY <2>1, <3>2
    <3> QED BY <3>1, <3>2, <3>3
  <2>3. memory' \in [Tasks -> StoreStatus]
    <3>1. PICK m \in [running -> WorkingStatus] : memory' = Overlay(memory, running, m)
      BY <1>8 DEF RaiseSequential
    <3>2. \A t \in running : m[t] \in StoreStatus
      BY DEF WorkingStatus, StoreStatus, TaskStatus
    <3> QED BY <3>1, <3>2 DEF Overlay, TypeOK
  <2> QED BY <1>8, <2>2, <2>3 DEF RaiseSequential, TypeOK
<1>9. CASE Classify
  <2>1. bucket' \in Bucket
    BY <1>9 DEF Classify, BucketFor, Classified, Bucket
  <2> QED BY <1>9, <2>1 DEF Classify, TypeOK, board
<1>10. CASE UNCHANGED vars
  BY <1>10 DEF vars, board, TypeOK
<1> QED
  BY <1>1, <1>2, <1>3, <1>4, <1>5, <1>6, <1>7, <1>8, <1>9, <1>10 DEF Next

LEMMA NextShape == TypeOK /\ Shape /\ [Next]_vars => Shape'
<1> SUFFICES ASSUME TypeOK, Shape, [Next]_vars
             PROVE  Shape'
  OBVIOUS
<1> USE DEF Shape
<1>1. ASSUME NEW d \in ParallelSet, NEW r \in Results(d) \cup {Raised}, Complete(d, r)
      PROVE  Shape'
  <2>1. \A e \in SetOf(reviewed) :
          phase = "parallel" /\ future[e] # None => future'[e] = future[e]
    <3>1. SetOf(reviewed) \subseteq ParallelSet
      BY DEF TypeOK, SetOf
    <3> QED BY <1>1, <3>1 DEF Complete, TypeOK
  <2> QED BY <1>1, <2>1 DEF Complete, board
<1>2. ASSUME NEW d \in ParallelSet, Review(d)
      PROVE  Shape'
  <2>1. SetOf(reviewed') = SetOf(reviewed) \cup {d}
    BY <1>2, SetOfAppend DEF Review, TypeOK
  <2> QED BY <1>2, <2>1 DEF Review
<1>3. ASSUME NEW d \in ParallelSet, ReviewRaised(d)
      PROVE  Shape'
  BY <1>3 DEF ReviewRaised, board
<1>4. CASE Drain
  BY <1>4 DEF Drain, board
<1>5. CASE Merge
  BY <1>5 DEF Merge
<1>6. CASE StartSequential
  <2>1. running' \in SUBSET TaskSet(Current) /\ running' = Runnable(Current)
    BY <1>6, StartEffect DEF StartSequential
  <2> QED BY <1>6, <2>1 DEF StartSequential, Current
<1>7. CASE FinishSequential
  BY <1>7 DEF FinishSequential
<1>8. CASE RaiseSequential
  BY <1>8 DEF RaiseSequential
<1>9. CASE Classify
  BY <1>9 DEF Classify, board
<1>10. CASE UNCHANGED vars
  BY <1>10 DEF vars, board
<1> QED
  BY <1>1, <1>2, <1>3, <1>4, <1>5, <1>6, <1>7, <1>8, <1>9, <1>10 DEF Next

\* The state is always well typed, whatever the departments return and in
\* whatever order the threads finish.
THEOREM TypeCorrect == Spec => []TypeOK
<1>1. Init => TypeOK /\ Shape
  BY InitTypeOK
<1>2. TypeOK /\ Shape /\ [Next]_vars => (TypeOK /\ Shape)'
  BY NextTypeOK, NextShape
<1> QED BY <1>1, <1>2, PTL DEF Spec
-----------------------------------------------------------------------------
(* Every verdict is given once.                                             *)

\* Steps that leave the records and the position in the loop alone.
Quiet == UNCHANGED <<board, reviewed, next, running, capped>>

LEMMA Steps ==
  ASSUME [Next]_vars
  PROVE  \/ \E d \in ParallelSet : Review(d)
         \/ Merge
         \/ StartSequential
         \/ FinishSequential
         \/ RaiseSequential
         \/ Quiet
BY DEF Next, vars, Complete, ReviewRaised, Drain, Classify, Quiet, board

\* Departments that are still to be reviewed have no package and no verdicts;
\* tasks the current one has skipped are the only ones that are not "assigned".
Untouched ==
  /\ \A d \in ParallelSet \ SetOf(reviewed) :
       /\ packages[d] = "none"
       /\ \A t \in TaskSet(d) : runStatus[t] = "assigned"
  /\ \A i \in next .. Len(Sequential) :
       /\ packages[Sequential[i]] = "none"
       /\ \A t \in TaskSet(Sequential[i]) :
            /\ runStatus[t] \in {"assigned", "skipped"}
            /\ i > next \/ running = {} \/ t \in running => runStatus[t] = "assigned"

LEMMA InitUntouched == Init => Untouched
<1> SUFFICES ASSUME Init PROVE Untouched
  OBVIOUS
<1>1. \A d \in Departments :
        packages[d] = "none" /\ \A t \in TaskSet(d) : runStatus[t] = "assigned"
  BY DEF Init, Tasks
<1>2. \A i \in next .. Len(Sequential) : Sequential[i] \in Departments
  BY SequentialPlaces DEF Init
<1>3. ParallelSet \subseteq Departments
  BY DEF Departments
<1> QED BY <1>1, <1>2, <1>3 DEF Untouched

\* The position of a sequential step.
LEMMA CurrentPlace ==
  ASSUME TypeOK, Shape, next <= Len(Sequential)
  PROVE  /\ next \in 1 .. Len(Sequential)
         /\ Current = Sequential[next]
         /\ Current \in Departments
         /\ Current \notin ParallelSet
         /\ running \subseteq TaskSet(Current)
         /\ \A i \in next .. Len(Sequential) :
              /\ Sequential[i] \in Departments
              /\ i # next => Sequential[i] # Current
BY SequentialPlaces DEF TypeOK, Shape, Current

LEMMA NextUntouched == TypeOK /\ Shape /\ Untouched /\ [Next]_vars => Untouched'
<1> SUFFICES ASSUME TypeOK, Shape, Untouched, [Next]_vars
             PROVE  Untouched'
  OBVIOUS
<1>0. Len(Sequential) \in Nat /\ next \in Nat
  BY SequentialPlaces DEF TypeOK
<1>1. ASSUME NEW d \in ParallelSet, Review(d)
      PROVE  Untouched'
  <2>1. /\ d \in Departments /\ Settles(d, TaskSet(d)) /\ Admits(d)
    BY <1>1, ReviewEffect
  <2>2. SetOf(reviewed') = SetOf(reviewed) \cup {d}
    BY <1>1, SetOfAppend DEF Review, TypeOK
  <2>3. \A e \in Departments \ {d} :
          /\ packages'[e] = packages[e]
          /\ \A t \in TaskSet(e) : runStatus'[t] = runStatus[t]
    BY <2>1, OneOwner, TaskSetTasks DEF Settles, Admits
  <2>4. /\ next' = next /\ running' = running
    BY <1>1 DEF Review
  <2>5. \A i \in next .. Len(Sequential) : Sequential[i] \in Departments \ {d}
    BY SequentialPlaces DEF TypeOK
  <2>6. \A e \in ParallelSet \ SetOf(reviewed') : e \in Departments \ {d} /\ e \notin SetOf(reviewed)
    BY <2>2 DEF Departments
  <2> QED BY <2>3, <2>4, <2>5, <2>6 DEF Untouched
<1>2. CASE Merge
  BY <1>2 DEF Merge, Untouched
<1>3. CASE StartSequential
  <2> DEFINE S == TaskSet(Current) \ running'
  <2>1. /\ Settles(Current, S)
        /\ \A t \in S : runStatus'[t] = "skipped"
        /\ running' \in SUBSET TaskSet(Current)
    BY <1>3, StartEffect
  <2>2. /\ next \in 1 .. Len(Sequential)
        /\ Current = Sequential[next]
        /\ Current \in Departments
        /\ Current \notin ParallelSet
        /\ \A i \in next .. Len(Sequential) :
             Sequential[i] \in Departments /\ (i # next => Sequential[i] # Current)
    BY <1>3, CurrentPlace DEF StartSequential
  <2>3. \A t \in Tasks \ S : runStatus'[t] = runStatus[t]
    BY <2>1 DEF Settles
  <2>4. \A e \in Departments \ {Current} : \A t \in TaskSet(e) : runStatus'[t] = runStatus[t]
    BY <2>2, <2>3, OneOwner, TaskSetTasks
  <2>5. \A t \in running' : runStatus'[t] = runStatus[t]
    BY <2>1, <2>2, <2>3, TaskSetTasks
  <2>6. /\ packages' = packages /\ reviewed' = reviewed /\ running = {}
        /\ next' = IF running' = {} THEN next + 1 ELSE next
    BY <1>3 DEF StartSequential
  <2>7. \A i \in next' .. Len(Sequential) : i \in next .. Len(Sequential)
    BY <1>0, <2>6
  <2>8. \A d \in ParallelSet : d \in Departments \ {Current}
    BY <2>2 DEF Departments
  <2>9. \A d \in ParallelSet \ SetOf(reviewed') :
          packages'[d] = "none" /\ \A t \in TaskSet(d) : runStatus'[t] = "assigned"
    BY <2>4, <2>6, <2>8 DEF Untouched
  <2>10. ASSUME NEW i \in next' .. Len(Sequential)
         PROVE  /\ packages'[Sequential[i]] = "none"
                /\ \A t \in TaskSet(Sequential[i]) :
                     /\ runStatus'[t] \in {"assigned", "skipped"}
                     /\ i > next' \/ running' = {} \/ t \in running' =>
                          runStatus'[t] = "assigned"
    <3>1. CASE i # next
      <4>1. Sequential[i] \in Departments \ {Current} /\ i > next
        BY <1>0, <2>2, <2>7, <3>1
      <4> QED BY <2>4, <2>6, <2>7, <4>1 DEF Untouched
    <3>2. CASE i = next
      <4>1. running' # {} /\ next' = next
        BY <1>0, <2>6, <3>2
      <4>2. \A t \in TaskSet(Current) : runStatus[t] = "assigned"
        BY <1>0, <2>2, <2>6, <2>7, <3>2 DEF Untouched
      <4>3. packages[Current] = "none"
        BY <1>0, <2>2, <2>7, <3>2 DEF Untouched
      <4> QED BY <1>0, <2>1, <2>2, <2>5, <2>6, <3>2, <4>1, <4>2, <4>3
    <3> QED BY <3>1, <3>2
  <2> QED BY <2>9, <2>10 DEF Untouched
<1>4. CASE FinishSequential
  <2>1. /\ next \in 1 .. Len(Sequential)
        /\ Current = Sequential[next]
        /\ Current \in Departments
        /\ Current \notin ParallelSet
        /\ running \subseteq TaskSet(Current)
        /\ \A i \in next .. Len(Sequential) :
             Sequential[i] \in Departments /\ (i # next => Sequential[i] # Current)
    BY <1>4, CurrentPlace DEF FinishSequential, Shape
  <2>2. Settles(Current, TaskSet(Current)) /\ Admits(Current)
    BY <1>4, <2>1, FinishEffect
  <2>3. \A e \in Departments \ {Current} :
          /\ packages'[e] = packages[e]
          /\ \A t \in TaskSet(e) : runStatus'[t] = runStatus[t]
    BY <2>1, <2>2, OneOwner, TaskSetTasks DEF Settles, Admits
  <2>4. reviewed' = reviewed /\ running' = {} /\ next' > next /\ next' \in Nat
    BY <1>0, <1>4, <2>1 DEF FinishSequential, NextDepartment
  <2>5. \A d \in ParallelSet : d \in Departments \ {Current}
    BY <2>1 DEF Departments
  <2>6. \A i \in next' .. Len(Sequential) :
          i \in next .. Len(Sequential) /\ i > next /\ Sequential[i] \in Departments \ {Current}
    BY <1>0, <2>1, <2>4
  <2> QED BY <2>3, <2>4, <2>5, <2>6 DEF Untouched
<1>5. CASE RaiseSequential
  BY <1>5 DEF RaiseSequential, Untouched
<1>6. CASE Quiet
  BY <1>6 DEF Quiet, board, Untouched
<1> QED BY <1>1, <1>2, <1>3, <1>4, <1>5, <1>6, Steps

\* The review of a department is its first one.
LEMMA FirstReview ==
  ASSUME TypeOK, Shape, Untouched, NEW d \in ParallelSet, Review(d)
  PROVE  packages[d] = "none" /\ \A t \in TaskSet(d) : runStatus[t] = "assigned"
BY DEF Review, Untouched

LEMMA FirstSequential ==
  ASSUME TypeOK, Shape, Untouched, next <= Len(Sequential)
  PROVE  /\ packages[Current] = "none"
         /\ \A t \in TaskSet(Current) :
              /\ runStatus[t] \in {"assigned", "skipped"}
              /\ running = {} \/ t \in running => runStatus[t] = "assigned"
<1>1. next \in next .. Len(Sequential) /\ Current = Sequential[next]
  BY CurrentPlace, SequentialPlaces
<1> QED BY <1>1 DEF Untouched

\* A recorded verdict or admission is never touched again, whatever a later
\* department returns.
THEOREM VerdictsAreFinal == Spec => VerdictsStand
<1>1. Init => TypeOK /\ Shape /\ Untouched
  BY InitTypeOK, InitUntouched
<1>2. TypeOK /\ Shape /\ Untouched /\ [Next]_vars => (TypeOK /\ Shape /\ Untouched)'
  BY NextTypeOK, NextShape, NextUntouched
<1> DEFINE Stand ==
      /\ \A t \in Tasks : runStatus[t] \in TaskStatus => runStatus'[t] = runStatus[t]
      /\ \A d \in Departments : packages[d] # "none" => packages'[d] = packages[d]
<1>3. TypeOK /\ Shape /\ Untouched /\ [Next]_vars => Stand
  <2> SUFFICES ASSUME TypeOK, Shape, Untouched, [Next]_vars
               PROVE  Stand
    OBVIOUS
  <2>0. "assigned" \notin TaskStatus /\ "skipped" \notin TaskStatus
    BY DEF TaskStatus
  <2>1. ASSUME NEW d \in ParallelSet, Review(d)
        PROVE  Stand
    <3>1. Settles(d, TaskSet(d)) /\ Admits(d)
      BY <2>1, ReviewEffect
    <3>2. packages[d] = "none" /\ \A t \in TaskSet(d) : runStatus[t] = "assigned"
      BY <2>1, FirstReview
    <3> QED BY <2>0, <3>1, <3>2 DEF Settles, Admits
  <2>2. CASE Merge
    BY <2>2 DEF Merge
  <2>3. CASE StartSequential
    <3>1. Settles(Current, TaskSet(Current) \ running')
      BY <2>3, StartEffect
    <3>2. \A t \in TaskSet(Current) : runStatus[t] \notin TaskStatus
      BY <2>0, <2>3, FirstSequential DEF StartSequential
    <3>3. packages' = packages
      BY <2>3 DEF StartSequential
    <3> QED BY <3>1, <3>2, <3>3 DEF Settles
  <2>4. CASE FinishSequential
    <3>1. next <= Len(Sequential)
      BY <2>4 DEF FinishSequential, Shape
    <3>2. Settles(Current, TaskSet(Current)) /\ Admits(Current)
      BY <2>4, <3>1, CurrentPlace, FinishEffect
    <3>3. packages[Current] = "none" /\ \A t \in TaskSet(Current) : runStatus[t] \notin TaskStatus
      BY <2>0, <3>1, FirstSequential
    <3> QED BY <3>2, <3>3 DEF Settles, Admits
  <2>5. CASE RaiseSequential
    BY <2>5 DEF RaiseSequential
  <2>6. CASE Quiet
    BY <2>6 DEF Quiet, board
  <2> QED BY <2>1, <2>2, <2>3, <2>4, <2>5, <2>6, Steps
<1> QED BY <1>1, <1>2, <1>3, PTL DEF Spec, VerdictsStand
-----------------------------------------------------------------------------
(* The three records agree.                                                 *)

LEMMA NextVerdictsAgree ==
  TypeOK /\ Shape /\ Untouched /\ VerdictsAgree /\ [Next]_vars => VerdictsAgree'
<1> SUFFICES ASSUME TypeOK, Shape, Untouched, VerdictsAgree, [Next]_vars
             PROVE  VerdictsAgree'
  OBVIOUS
<1> DEFINE Agree(t) ==
      runStatus[t] # "assigned" =>
        /\ backlog[t] # <<>>
        /\ backlog[t][Len(backlog[t])] = runStatus[t]
        /\ \/ memory[t] = runStatus[t]
           \/ t \in ParallelTasks /\ memory[t] = "accepted"
\* Tasks that are recorded now agree, and so do those that are left alone.
<1>1. ASSUME NEW d, NEW S \in SUBSET Tasks, Settles(d, S),
             \A t \in Tasks \ S : memory'[t] = memory[t]
      PROVE  VerdictsAgree'
  <2>1. ASSUME NEW t \in S
        PROVE  Agree(t)'
    <3>1. backlog'[t] = Append(backlog[t], runStatus'[t])
      BY <1>1, <2>1 DEF Settles
    <3>2. backlog[t] \in Seq(RunStatus)
      BY DEF TypeOK
    <3>3. backlog'[t] # <<>> /\ backlog'[t][Len(backlog'[t])] = runStatus'[t]
      BY <3>1, <3>2
    <3> QED BY <1>1, <3>3 DEF Settles
  <2>2. ASSUME NEW t \in Tasks \ S
        PROVE  Agree(t)'
    BY <1>1 DEF Settles, VerdictsAgree
  <2> QED BY <2>1, <2>2 DEF VerdictsAgree
<1>2. ASSUME NEW d \in ParallelSet, Review(d)
      PROVE  VerdictsAgree'
  BY <1>1, <1>2, ReviewEffect, TaskSetTasks
<1>3. CASE Merge
  <2>1. \A t \in Tasks :
          /\ t \notin ParallelTasks => memory'[t] = memory[t]
          /\ memory[t] \notin {"absent", "pending"} => memory'[t] \in {memory[t], "accepted"}
    BY <1>3, MergeEffect
  <2>2. runStatus' = runStatus /\ backlog' = backlog
    BY <1>3 DEF Merge
  <2>3. \A t \in Tasks : runStatus[t] # "assigned" => memory[t] \notin {"absent", "pending"}
    BY DEF TypeOK, VerdictsAgree, RunStatus, TaskStatus
  <2> QED BY <2>1, <2>2, <2>3 DEF VerdictsAgree
<1>4. CASE StartSequential
  <2>1. TaskSet(Current) \ running' \in SUBSET Tasks
    BY <1>4, StartEffect, TaskSetTasks
  <2>2. PICK S : S = TaskSet(Current) \ running'
    OBVIOUS
  <2>3. PICK d : d = Current
    OBVIOUS
  <2>4. Settles(d, S) /\ \A t \in Tasks \ S : memory'[t] = memory[t]
    BY <1>4, <2>2, <2>3, StartEffect
  <2> QED BY <1>1, <2>1, <2>2, <2>4
<1>5. CASE FinishSequential
  <2>1. Current \in Departments /\ running \subseteq TaskSet(Current)
    BY <1>5, CurrentPlace DEF FinishSequential, Shape
  <2>2. PICK d : d = Current
    OBVIOUS
  <2>3. Settles(d, TaskSet(d)) /\ \A t \in Tasks \ TaskSet(d) : memory'[t] = memory[t]
    BY <1>5, <2>1, <2>2, FinishEffect
  <2> QED BY <1>1, <2>1, <2>2, <2>3, TaskSetTasks
<1>6. CASE RaiseSequential
  <2>1. next <= Len(Sequential) /\ running \subseteq TaskSet(Current)
    BY <1>6, CurrentPlace DEF RaiseSequential, Shape
  <2>2. \A t \in running : runStatus[t] = "assigned"
    BY <1>6, <2>1, FirstSequential DEF RaiseSequential
  <2>3. \A t \in Tasks \ running : memory'[t] = memory[t]
    BY <1>6 DEF RaiseSequential, Overlay, TypeOK
  <2>4. runStatus' = runStatus /\ backlog' = backlog
    BY <1>6 DEF RaiseSequential
  <2> QED BY <2>2, <2>3, <2>4 DEF VerdictsAgree
<1>7. CASE Quiet
  BY <1>7 DEF Quiet, board, VerdictsAgree
<1> QED BY <1>2, <1>3, <1>4, <1>5, <1>6, <1>7, Steps

\* Run context, memory store and backlog agree on every recorded task.
THEOREM RecordsAgree == Spec => []VerdictsAgree
<1>1. Init => TypeOK /\ Shape /\ Untouched /\ VerdictsAgree
  <2>1. Init => VerdictsAgree
    BY DEF Init, VerdictsAgree
  <2> QED BY <2>1, InitTypeOK, InitUntouched
<1>2. TypeOK /\ Shape /\ Untouched /\ VerdictsAgree /\ [Next]_vars
        => (TypeOK /\ Shape /\ Untouched /\ VerdictsAgree)'
  BY NextTypeOK, NextShape, NextUntouched, NextVerdictsAgree
<1> QED BY <1>1, <1>2, PTL DEF Spec

-----------------------------------------------------------------------------
(* Admissions and answers rest on accepted tasks.                           *)

LEMMA NextEarned ==
  TypeOK /\ Shape /\ Untouched /\ AdmissionIsEarned /\ AnswersAreEarned /\ [Next]_vars
    => AdmissionIsEarned' /\ AnswersAreEarned'
<1> SUFFICES ASSUME TypeOK, Shape, Untouched, AdmissionIsEarned, AnswersAreEarned,
                    [Next]_vars
             PROVE  AdmissionIsEarned' /\ AnswersAreEarned'
  OBVIOUS
\* An answered question still has its accepted task: it is not recorded anew,
\* or it would cover the question.
<1>1. ASSUME NEW d, NEW S \in SUBSET Tasks, Settles(d, S)
      PROVE  AnswersAreEarned'
  <2> SUFFICES ASSUME NEW q \in Questions, matrix'[q] = "answered"
               PROVE  \E t \in Tasks : q \in QuestionsOf[t] /\ runStatus'[t] = "accepted"
    BY DEF AnswersAreEarned
  <2>1. CASE matrix[q] = "answered" /\ \A t \in S : q \notin QuestionsOf[t]
    <3>1. PICK t \in Tasks : q \in QuestionsOf[t] /\ runStatus[t] = "accepted"
      BY <2>1 DEF AnswersAreEarned
    <3> QED BY <1>1, <2>1, <3>1 DEF Settles
  <2>2. CASE \E t \in S : q \in QuestionsOf[t] /\ runStatus'[t] = "accepted"
    BY <2>2
  <2> QED BY <1>1, <2>1, <2>2 DEF Settles
\* Another department's tasks are not recorded with this one's.
<1>2. ASSUME NEW d \in Departments, NEW S \in SUBSET TaskSet(d), Settles(d, S),
             \A e \in Departments \ {d} : packages'[e] = packages[e],
             packages'[d] = "accepted" => \E t \in TaskSet(d) : runStatus'[t] = "accepted"
      PROVE  AdmissionIsEarned'
  <2>1. \A e \in Departments \ {d} : \A t \in TaskSet(e) : runStatus'[t] = runStatus[t]
    BY <1>2, OneOwner, TaskSetTasks DEF Settles
  <2> QED BY <1>2, <2>1 DEF AdmissionIsEarned
<1>3. ASSUME NEW d \in ParallelSet, Review(d)
      PROVE  AdmissionIsEarned' /\ AnswersAreEarned'
  <2>1. d \in Departments /\ Settles(d, TaskSet(d)) /\ Admits(d)
    BY <1>3, ReviewEffect
  <2> QED BY <1>1, <1>2, <2>1, TaskSetTasks DEF Admits
<1>4. CASE Merge
  BY <1>4 DEF Merge, AdmissionIsEarned, AnswersAreEarned
<1>5. CASE StartSequential
  <2>1. PICK d, S : d = Current /\ S = TaskSet(Current) \ running'
    OBVIOUS
  <2>2. d \in Departments /\ S \in SUBSET TaskSet(d) /\ Settles(d, S)
    BY <1>5, <2>1, StartEffect
  <2>3. packages' = packages
    BY <1>5 DEF StartSequential
  <2>4. packages[d] = "none"
    BY <1>5, <2>1, FirstSequential DEF StartSequential
  <2> QED BY <1>1, <1>2, <2>2, <2>3, <2>4, TaskSetTasks
<1>6. CASE FinishSequential
  <2>1. Current \in Departments /\ running \subseteq TaskSet(Current)
    BY <1>6, CurrentPlace DEF FinishSequential, Shape
  <2>2. PICK d : d = Current
    OBVIOUS
  <2>3. d \in Departments /\ Settles(d, TaskSet(d)) /\ Admits(d)
    BY <1>6, <2>1, <2>2, FinishEffect
  <2> QED BY <1>1, <1>2, <2>3, TaskSetTasks DEF Admits
<1>7. CASE RaiseSequential
  BY <1>7 DEF RaiseSequential, AdmissionIsEarned, AnswersAreEarned
<1>8. CASE Quiet
  BY <1>8 DEF Quiet, board, AdmissionIsEarned, AnswersAreEarned
<1> QED BY <1>3, <1>4, <1>5, <1>6, <1>7, <1>8, Steps

LEMMA AlwaysEarned == Spec => [](AdmissionIsEarned /\ AnswersAreEarned)
<1>1. Init => TypeOK /\ Shape /\ Untouched /\ AdmissionIsEarned /\ AnswersAreEarned
  <2>1. Init => AdmissionIsEarned /\ AnswersAreEarned
    BY DEF Init, AdmissionIsEarned, AnswersAreEarned
  <2> QED BY <2>1, InitTypeOK, InitUntouched
<1>2. TypeOK /\ Shape /\ Untouched /\ AdmissionIsEarned /\ AnswersAreEarned /\ [Next]_vars
        => (TypeOK /\ Shape /\ Untouched /\ AdmissionIsEarned /\ AnswersAreEarned)'
  BY NextTypeOK, NextShape, NextUntouched, NextEarned
<1> QED BY <1>1, <1>2, PTL DEF Spec

\* A package is admitted without reservation only on an accepted task.
THEOREM AdmissionsAreEarned == Spec => []AdmissionIsEarned
BY AlwaysEarned, PTL

\* A question shown as answered has an accepted task.
THEOREM AnsweredMeansAccepted == Spec => []AnswersAreEarned
BY AlwaysEarned, PTL
-----------------------------------------------------------------------------
(* Conditional work.                                                        *)

BuyersAdmitted ==
  /\ "BuyerDepartment" \in Departments
  /\ buyerPoints
  /\ packages["BuyerDepartment"] \in {"accepted", "accepted_with_gaps"}

\* A task whose condition asks for prioritized buyers runs, and has a verdict
\* of its own, only under an admitted Buyer package with accepted points.
ConditionHeld ==
  \A t \in Tasks :
    /\ RunCondition[t] = "buyer_department_has_prioritized_firms"
    /\ runStatus[t] \in {"accepted", "blocked"} \/ t \in running
    => BuyersAdmitted

\* The evaluated condition.
LEMMA BuyerCondition ==
  ASSUME TypeOK, NEW t \in Tasks,
         RunCondition[t] = "buyer_department_has_prioritized_firms",
         ConditionMet(RunCondition[t])
  PROVE  BuyersAdmitted
<1>1. /\ "BuyerDepartment" \in Departments
      /\ packages["BuyerDepartment"] \notin {"none", "rejected"}
      /\ buyerPoints
  BY DEF ConditionMet
<1>2. packages["BuyerDepartment"] \in AdmissionDecision \cup {"none"}
  BY <1>1 DEF TypeOK
<1> QED BY <1>1, <1>2 DEF BuyersAdmitted, AdmissionDecision

\* The admission of another department, or the first one of the Buyer.
LEMMA AdmittedStays ==
  ASSUME NEW d \in Departments, Admits(d), packages[d] = "none", BuyersAdmitted
  PROVE  BuyersAdmitted'
<1>1. d # "BuyerDepartment"
  BY DEF BuyersAdmitted
<1> QED BY <1>1 DEF Admits, BuyersAdmitted

LEMMA NextConditionHeld ==
  TypeOK /\ Shape /\ Untouched /\ ConditionHeld /\ [Next]_vars => ConditionHeld'
<1> SUFFICES ASSUME TypeOK, Shape, Untouched, ConditionHeld, [Next]_vars,
                    NEW t \in Tasks,
                    RunCondition[t] = "buyer_department_has_prioritized_firms",
                    runStatus'[t] \in {"accepted", "blocked"} \/ t \in running'
             PROVE  BuyersAdmitted'
  BY DEF ConditionHeld
<1>1. ASSUME NEW d \in ParallelSet, Review(d)
      PROVE  BuyersAdmitted'
  <2>1. d \in Departments /\ Settles(d, TaskSet(d)) /\ Admits(d) /\ packages[d] = "none"
    BY <1>1, ReviewEffect, FirstReview
  <2>2. t \notin TaskSet(d)
    <3>1. TaskSet(d) \subseteq ParallelTasks
      BY DEF ParallelTasks
    <3> QED BY <3>1, TasksAssumption
  <2>3. runStatus'[t] = runStatus[t] /\ running' = running
    BY <1>1, <2>1, <2>2 DEF Settles, Review
  <2>4. BuyersAdmitted
    BY <2>3 DEF ConditionHeld
  <2> QED BY <2>1, <2>4, AdmittedStays
<1>2. CASE Merge
  BY <1>2 DEF Merge, ConditionHeld, BuyersAdmitted
<1>3. CASE StartSequential
  <2>1. /\ \A u \in running' : ConditionMet(RunCondition[u])
        /\ Settles(Current, TaskSet(Current) \ running')
        /\ \A u \in TaskSet(Current) \ running' : runStatus'[u] = "skipped"
    BY <1>3, StartEffect
  <2>2. BuyersAdmitted
    <3>1. CASE t \in running'
      BY <2>1, <3>1, BuyerCondition
    <3>2. CASE t \notin running'
      <4>1. runStatus'[t] = runStatus[t]
        BY <2>1, <3>2 DEF Settles
      <4> QED BY <3>2, <4>1 DEF ConditionHeld
    <3> QED BY <3>1, <3>2
  <2> QED BY <1>3, <2>2 DEF StartSequential, BuyersAdmitted
<1>4. CASE FinishSequential
  <2>1. next <= Len(Sequential) /\ running' = {}
    BY <1>4 DEF FinishSequential, Shape
  <2>2. Current \in Departments /\ running \subseteq TaskSet(Current)
    BY <2>1, CurrentPlace
  <2>3. /\ Settles(Current, TaskSet(Current))
        /\ Admits(Current)
        /\ \A u \in TaskSet(Current) : u \notin running => runStatus'[u] = "degraded"
    BY <1>4, <2>2, FinishEffect
  <2>4. packages[Current] = "none"
    BY <2>1, FirstSequential
  <2>5. BuyersAdmitted
    <3>1. CASE t \in running
      BY <3>1 DEF ConditionHeld
    <3>2. CASE t \notin running
      <4>1. t \notin TaskSet(Current)
        BY <2>1, <2>3, <3>2
      <4>2. runStatus'[t] = runStatus[t]
        BY <2>3, <4>1 DEF Settles
      <4> QED BY <2>1, <4>2 DEF ConditionHeld
    <3> QED BY <3>1, <3>2
  <2> QED BY <2>2, <2>3, <2>4, <2>5, AdmittedStays
<1>5. CASE RaiseSequential
  BY <1>5 DEF RaiseSequential, ConditionHeld, BuyersAdmitted
<1>6. CASE Quiet
  BY <1>6 DEF Quiet, board, ConditionHeld, BuyersAdmitted
<1> QED BY <1>1, <1>2, <1>3, <1>4, <1>5, <1>6, Steps

\* Contact work on buyer firms is never done for a Buyer package the
\* Supervisor did not admit.
THEOREM ContactsFollowBuyers == Spec => []ContactsNeedBuyers
<1>1. Init => TypeOK /\ Shape /\ Untouched /\ ConditionHeld
  <2>1. Init => ConditionHeld
    BY DEF Init, ConditionHeld
  <2> QED BY <2>1, InitTypeOK, InitUntouched
<1>2. TypeOK /\ Shape /\ Untouched /\ ConditionHeld /\ [Next]_vars
        => (TypeOK /\ Shape /\ Untouched /\ ConditionHeld)'
  BY NextTypeOK, NextShape, NextUntouched, NextConditionHeld
<1>3. ConditionHeld => ContactsNeedBuyers
  BY DEF ConditionHeld, ContactsNeedBuyers, BuyersAdmitted
<1> QED BY <1>1, <1>2, <1>3, PTL DEF Spec

-----------------------------------------------------------------------------
(* Nothing is forgotten.                                                    *)

\* The departments behind the loop have no task left "assigned", unless the
\* hard cap stopped it.
Worked ==
  /\ \A d \in SetOf(reviewed) : \A t \in TaskSet(d) : runStatus[t] # "assigned"
  /\ capped => next > Len(Sequential)
  /\ ~ capped =>
       \A i \in 1 .. Len(Sequential) :
         i < next => \A t \in TaskSet(Sequential[i]) : runStatus[t] # "assigned"

LEMMA InitWorked == Init => Worked
<1> SUFFICES ASSUME Init PROVE Worked
  OBVIOUS
<1>1. SetOf(reviewed) = {}
  BY DEF Init, SetOf
<1> QED BY <1>1 DEF Init, Worked

LEMMA NextWorked == TypeOK /\ Shape /\ Worked /\ [Next]_vars => Worked'
<1> SUFFICES ASSUME TypeOK, Shape, Worked, [Next]_vars
             PROVE  Worked'
  OBVIOUS
<1>0. /\ Len(Sequential) \in Nat /\ next \in Nat
      /\ \A i \in 1 .. Len(Sequential) : Sequential[i] \in Departments
      /\ SetOf(reviewed) \subseteq Departments
  BY SequentialPlaces DEF TypeOK, SetOf, Departments
\* No task goes back to "assigned".
<1>1. ASSUME NEW d, NEW S, Settles(d, S)
      PROVE  \A e \in Departments : \A t \in TaskSet(e) :
               runStatus[t] # "assigned" => runStatus'[t] # "assigned"
  BY <1>1, TaskSetTasks DEF Settles
<1>2. ASSUME NEW d \in ParallelSet, Review(d)
      PROVE  Worked'
  <2>1. d \in Departments /\ Settles(d, TaskSet(d))
    BY <1>2, ReviewEffect
  <2>2. SetOf(reviewed') = SetOf(reviewed) \cup {d}
    BY <1>2, SetOfAppend DEF Review, TypeOK
  <2>3. next' = next /\ capped' = capped
    BY <1>2 DEF Review
  <2>4. \A t \in TaskSet(d) : runStatus'[t] # "assigned"
    BY <2>1 DEF Settles
  <2> QED BY <1>0, <1>1, <2>1, <2>2, <2>3, <2>4 DEF Worked
<1>3. CASE Merge
  BY <1>3 DEF Merge, Worked
<1>4. CASE StartSequential
  <2>1. PICK d, S : d = Current /\ S = TaskSet(Current) \ running'
    OBVIOUS
  <2>2. Settles(d, S)
    BY <1>4, <2>1, StartEffect
  <2>3. /\ reviewed' = reviewed /\ capped' = capped
        /\ next' = IF running' = {} THEN next + 1 ELSE next
    BY <1>4 DEF StartSequential
  <2>4. running' = {} => \A t \in TaskSet(Sequential[next]) : runStatus'[t] # "assigned"
    BY <2>1, <2>2 DEF Settles, Current
  <2> QED BY <1>0, <1>1, <2>2, <2>3, <2>4 DEF Worked
<1>5. CASE FinishSequential
  <2>1. next <= Len(Sequential)
    BY <1>5 DEF FinishSequential, Shape
  <2>2. PICK d : d = Current
    OBVIOUS
  <2>3. Settles(d, TaskSet(d))
    BY <1>5, <2>1, <2>2, CurrentPlace, FinishEffect
  <2>4. /\ reviewed' = reviewed /\ ~ capped
        /\ next' = IF capped' THEN Len(Sequential) + 1 ELSE next + 1
    BY <1>0, <1>5, <2>1 DEF FinishSequential, NextDepartment, Worked
  <2>5. \A t \in TaskSet(Sequential[next]) : runStatus'[t] # "assigned"
    BY <2>2, <2>3 DEF Settles, Current
  <2> QED BY <1>0, <1>1, <2>3, <2>4, <2>5 DEF Worked
<1>6. CASE RaiseSequential
  BY <1>6 DEF RaiseSequential, Worked
<1>7. CASE Quiet
  BY <1>7 DEF Quiet, board, Worked
<1> QED BY <1>2, <1>3, <1>4, <1>5, <1>6, <1>7, Steps

\* When the round is classified every task has a verdict everywhere, unless
\* the hard token cap left its department out.
THEOREM NothingIsForgotten == Spec => []EveryTaskSettled
<1>1. Init => TypeOK /\ Shape /\ Untouched /\ VerdictsAgree /\ Worked
  <2>1. Init => VerdictsAgree
    BY DEF Init, VerdictsAgree
  <2> QED BY <2>1, InitTypeOK, InitUntouched, InitWorked
<1>2. TypeOK /\ Shape /\ Untouched /\ VerdictsAgree /\ Worked /\ [Next]_vars
        => (TypeOK /\ Shape /\ Untouched /\ VerdictsAgree /\ Worked)'
  BY NextTypeOK, NextShape, NextUntouched, NextVerdictsAgree, NextWorked
<1>3. TypeOK /\ Shape /\ VerdictsAgree /\ Worked => EveryTaskSettled
  <2> SUFFICES ASSUME TypeOK, Shape, VerdictsAgree, Worked, phase = "done", ~ capped,
                      NEW t \in Tasks
               PROVE  /\ runStatus[t] # "assigned"
                      /\ memory[t] \notin {"absent", "pending"}
                      /\ backlog[t] # <<>>
    BY DEF EveryTaskSettled
  <2>1. PICK d \in Departments : t \in TaskSet(d)
    BY DEF Tasks
  <2>2. d \in ParallelSet => runStatus[t] # "assigned"
    BY <2>1 DEF Shape, Worked
  <2>3. ASSUME d \in SetOf(Sequential)
        PROVE  runStatus[t] # "assigned"
    <3>1. PICK i \in DOMAIN Sequential : d = Sequential[i]
      BY <2>3 DEF SetOf
    <3>2. i \in 1 .. Len(Sequential)
      BY DepartmentsAssumption
    <3>3. i < next
      BY <3>2, SequentialPlaces DEF Shape, TypeOK
    <3> QED BY <2>1, <3>1, <3>2, <3>3 DEF Worked
  <2>4. runStatus[t] # "assigned"
    BY <2>1, <2>2, <2>3 DEF Departments, Shape, Worked
  <2>5. runStatus[t] \in RunStatus
    BY DEF TypeOK
  <2> QED BY <2>4, <2>5 DEF VerdictsAgree, RunStatus, TaskStatus
<1> QED BY <1>1, <1>2, <1>3, PTL DEF Spec
-----------------------------------------------------------------------------
(* The order of the facts.                                                  *)

RunOrder == Parallel \o Sequential
Place(d) == CHOOSE i \in DOMAIN RunOrder : RunOrder[i] = d

\* Every department has one place in the run order.
LEMMA Places ==
  /\ Len(Parallel) \in Nat /\ Len(Sequential) \in Nat
  /\ \A i \in 1 .. Len(Parallel) : Place(Parallel[i]) = i
  /\ \A i \in 1 .. Len(Sequential) : Place(Sequential[i]) = Len(Parallel) + i
<1> DEFINE p == Len(Parallel)
           n == Len(Sequential)
<1>1. /\ Parallel \in Seq(STRING) /\ Sequential \in Seq(STRING)
      /\ DOMAIN Parallel = 1 .. p /\ DOMAIN Sequential = 1 .. n
      /\ p \in Nat /\ n \in Nat
  BY DepartmentsAssumption
<1>2. /\ DOMAIN RunOrder = 1 .. (p + n)
      /\ \A i \in 1 .. p : RunOrder[i] = Parallel[i]
      /\ \A i \in 1 .. n : RunOrder[p + i] = Sequential[i]
  BY <1>1 DEF RunOrder
<1>3. /\ \A i \in 1 .. p : Parallel[i] \in ParallelSet
      /\ \A i \in 1 .. n : Sequential[i] \in SetOf(Sequential)
  BY <1>1 DEF ParallelSet, SetOf
<1>4. \A i \in 1 .. (p + n) : i \in 1 .. p \/ \E k \in 1 .. n : i = p + k
  <2> SUFFICES ASSUME NEW i \in 1 .. (p + n), i \notin 1 .. p
               PROVE  \E k \in 1 .. n : i = p + k
    OBVIOUS
  <2>1. i - p \in 1 .. n /\ i = p + (i - p)
    BY <1>1
  <2> QED BY <2>1
<1> HIDE DEF p, n
<1>5. \A i, j \in 1 .. (p + n) : RunOrder[i] = RunOrder[j] => i = j
  <2> SUFFICES ASSUME NEW i \in 1 .. (p + n), NEW j \in 1 .. (p + n),
                      RunOrder[i] = RunOrder[j]
               PROVE  i = j
    OBVIOUS
  <2>1. CASE i \in 1 .. p /\ j \in 1 .. p
    BY <1>1, <1>2, <2>1, DepartmentsAssumption
  <2>2. CASE i \in 1 .. p /\ j \notin 1 .. p
    BY <1>2, <1>3, <1>4, <2>2, DepartmentsAssumption
  <2>3. CASE i \notin 1 .. p /\ j \in 1 .. p
    BY <1>2, <1>3, <1>4, <2>3, DepartmentsAssumption
  <2>4. CASE i \notin 1 .. p /\ j \notin 1 .. p
    <3>1. PICK k \in 1 .. n, l \in 1 .. n : i = p + k /\ j = p + l
      BY <1>4, <2>4
    <3>2. Sequential[k] = Sequential[l]
      BY <1>2, <3>1
    <3>3. k = l
      BY <1>1, <3>2, DepartmentsAssumption
    <3> QED BY <3>1, <3>3
  <2> QED BY <2>1, <2>2, <2>3, <2>4
<1>6. \A i \in 1 .. (p + n) : Place(RunOrder[i]) = i
  BY <1>2, <1>5 DEF Place
<1>7. \A i \in 1 .. p : i \in 1 .. (p + n)
  BY <1>1
<1>8. \A i \in 1 .. n : p + i \in 1 .. (p + n)
  BY <1>1
<1>9. p \in Nat /\ n \in Nat
  BY <1>1
<1> QED BY <1>2, <1>6, <1>7, <1>8, <1>9 DEF p, n

\* The facts come from departments in run order, none of them beyond the
\* position of the loop.
InOrder ==
  /\ phase \in {"parallel", "draining"} => facts = <<>>
  /\ \A i \in DOMAIN facts :
       /\ Place(facts[i]) \in Nat
       /\ phase = "sequential" => Place(facts[i]) < Len(Parallel) + next
  /\ \A i, j \in DOMAIN facts : i < j => Place(facts[i]) < Place(facts[j])

LEMMA NextInOrder == TypeOK /\ Shape /\ InOrder /\ [Next]_vars => InOrder'
<1> SUFFICES ASSUME TypeOK, Shape, InOrder, [Next]_vars
             PROVE  InOrder'
  OBVIOUS
<1>0. next \in Nat /\ facts \in Seq(Departments)
  BY SequentialPlaces DEF TypeOK
\* Facts of the current department come after all the others.
<1>1. ASSUME next <= Len(Sequential), phase = "sequential",
             facts' = Append(facts, Current)
      PROVE  /\ \A i, j \in DOMAIN facts' : i < j => Place(facts'[i]) < Place(facts'[j])
             /\ \A i \in DOMAIN facts' : /\ Place(facts'[i]) \in Nat
                                         /\ Place(facts'[i]) <= Len(Parallel) + next
  <2>1. Place(Current) = Len(Parallel) + next
    BY <1>1, Places, CurrentPlace
  <2>2. Current \in Departments
    BY <1>1, CurrentPlace
  <2> DEFINE n == Len(facts)
  <2>3. /\ n \in Nat /\ DOMAIN facts = 1 .. n /\ DOMAIN facts' = 1 .. (n + 1)
        /\ \A i \in 1 .. n : facts'[i] = facts[i]
        /\ facts'[n + 1] = Current
    BY <1>0, <1>1, <2>2
  <2> HIDE DEF n
  <2>4. \A i \in 1 .. n : Place(facts[i]) \in Nat /\ Place(facts[i]) < Len(Parallel) + next
    BY <1>1, <2>3 DEF InOrder
  <2>5. ASSUME NEW i \in DOMAIN facts', NEW j \in DOMAIN facts', i < j
        PROVE  Place(facts'[i]) < Place(facts'[j])
    <3>1. i \in 1 .. n
      BY <2>3, <2>5
    <3>2. CASE j \in 1 .. n
      BY <2>3, <2>5, <3>1, <3>2 DEF InOrder
    <3>3. CASE j = n + 1
      BY <2>1, <2>3, <2>4, <3>1, <3>3
    <3> QED BY <2>3, <3>2, <3>3
  <2>6. ASSUME NEW i \in DOMAIN facts'
        PROVE  Place(facts'[i]) \in Nat /\ Place(facts'[i]) <= Len(Parallel) + next
    <3>1. CASE i = n + 1
      BY <1>0, <2>1, <2>3, <3>1, Places
    <3>2. CASE i \in 1 .. n
      BY <1>0, <2>3, <2>4, <3>2, Places
    <3> QED BY <2>3, <3>1, <3>2
  <2> QED BY <2>5, <2>6
<1>2. ASSUME NEW d \in ParallelSet, Review(d)
      PROVE  InOrder'
  BY <1>2 DEF Review, InOrder
<1>3. CASE Merge
  <2>1. facts' = Parallel
    <3>1. Parallel \in Seq(STRING)
      BY DepartmentsAssumption
    <3>2. facts' = <<>> \o Parallel
      BY <1>3 DEF Merge, MergedFacts, InOrder
    <3> QED BY <3>1, <3>2
  <2>2. DOMAIN Parallel = 1 .. Len(Parallel)
    BY DepartmentsAssumption
  <2>3. next' \in Nat /\ next' >= 1
    BY <1>3, SequentialPlaces DEF Merge, TypeOK
  <2>4. \A i \in DOMAIN facts' :
          /\ i \in Nat
          /\ Place(facts'[i]) = i
          /\ i < Len(Parallel) + next'
    BY <2>1, <2>2, <2>3, Places
  <2>5. phase' = "sequential"
    BY <1>3 DEF Merge
  <2> QED BY <2>4, <2>5 DEF InOrder
<1>4. CASE StartSequential
  <2>1. facts' = facts /\ phase' = phase /\ next' \in Nat /\ next' >= next
    BY <1>0, <1>4 DEF StartSequential
  <2> QED BY <1>0, <2>1, Places DEF InOrder
<1>5. CASE FinishSequential
  <2>1. /\ facts' = Append(facts, Current) /\ next <= Len(Sequential)
        /\ phase = "sequential" /\ phase' = phase
    BY <1>5 DEF FinishSequential, Shape
  <2>2. next' \in Nat /\ next' >= next + 1
    BY <1>0, <1>5, <2>1, SequentialPlaces DEF FinishSequential, NextDepartment
  <2> QED BY <1>0, <1>1, <2>1, <2>2, Places DEF InOrder
<1>6. CASE RaiseSequential
  <2>1. /\ facts' \in {facts, Append(facts, Current)} /\ next <= Len(Sequential)
        /\ phase = "sequential" /\ phase' = "failed"
    BY <1>6 DEF RaiseSequential, Shape
  <2>2. CASE facts' = facts
    BY <2>1, <2>2 DEF InOrder
  <2>3. CASE facts' = Append(facts, Current)
    BY <1>1, <2>1, <2>3 DEF InOrder
  <2> QED BY <2>1, <2>2, <2>3
\* The other steps add no facts, and none of them starts the sequential part.
<1>7. ASSUME Quiet, phase' # "sequential" \/ phase' = phase,
             phase' \in {"parallel", "draining"} => phase \in {"parallel", "draining"}
      PROVE  InOrder'
  BY <1>7 DEF Quiet, board, InOrder
<1>8. ASSUME NEW d \in ParallelSet, NEW r, Complete(d, r)
      PROVE  InOrder'
  BY <1>7, <1>8 DEF Complete, Quiet
<1>9. ASSUME NEW d \in ParallelSet, ReviewRaised(d)
      PROVE  InOrder'
  BY <1>7, <1>9 DEF ReviewRaised, Quiet
<1>10. CASE Drain
  BY <1>7, <1>10 DEF Drain, Quiet
<1>11. CASE Classify
  BY <1>7, <1>11 DEF Classify, Quiet
<1>12. CASE UNCHANGED vars
  BY <1>7, <1>12 DEF vars, Quiet
<1> QED
  BY <1>2, <1>3, <1>4, <1>5, <1>6, <1>8, <1>9, <1>10, <1>11, <1>12 DEF Next

\* Whatever order the threads finish in, the store's facts are in run order.
THEOREM FactsAreCanonical == Spec => []FactsInRunOrder
<1>1. Init => TypeOK /\ Shape /\ InOrder
  <2>1. Init => InOrder
    BY DEF Init, InOrder
  <2> QED BY <2>1, InitTypeOK
<1>2. TypeOK /\ Shape /\ InOrder /\ [Next]_vars => (TypeOK /\ Shape /\ InOrder)'
  BY NextTypeOK, NextShape, NextInOrder
<1>3. InOrder => FactsInRunOrder
  BY DEF InOrder, FactsInRunOrder, Place, RunOrder
<1> QED BY <1>1, <1>2, <1>3, PTL DEF Spec

\* The records of the first round are one account of what happened, in any order
\* of completions (_review_package, merge_from).
THEOREM AccountIsOne == Spec => []OneAccount
BY RecordsAgree, NothingIsForgotten, FactsAreCanonical, PTL DEF OneAccount

\* No package and no question is credited with more than an accepted task earned
\* (accept_department_package, the answer matrix).
THEOREM CreditsAreEarned == Spec => []CreditIsEarned
BY AdmissionsAreEarned, AnsweredMeansAccepted, PTL DEF CreditIsEarned
=============================================================================
