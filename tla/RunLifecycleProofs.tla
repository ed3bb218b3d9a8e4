------------------------- MODULE RunLifecycleProofs -------------------------
(***************************************************************************)
(* Proofs about RunLifecycle, for any questions, gaps, budgets and number of *)
(* resume calls, and for both storage profiles.                             *)
(*                                                                         *)
(* Each property of the stored artifacts holds because of what the callers   *)
(* that may still write hold in memory.  The inductive invariant says, per   *)
(* caller, what it holds and how far its export is: of the run (RunHolds),    *)
(* of each resume (ResumeHolds), and of the checkpoints so far (Written).    *)
(***************************************************************************)
EXTENDS RunLifecycle, TLAPS, FiniteSetTheorems

\* What a caller that is about to export may claim.
Earned(c, d) ==
  c.status = "meeting_ready" =>
    /\ \A q \in Questions \ Exempt : c.matrix[q] \in {"answered", "partially_answered"}
    /\ ~ c.remaining
    /\ d # None
    /\ d.usable

Active(r) == pc[r] \in {"resuming", "exporting"}

\* Which calls there are: resumes only once the run has ended.
Shape ==
  /\ ctx["run"] \in Context
  /\ pc["run"] \notin {"idle", "resuming"}
  /\ \A r \in Resumers :
       /\ pc[r] \in {"idle", "resuming", "exporting"} \cup Ended
       /\ pc[r] # "idle" => pc["run"] \in Ended
       /\ Active(r) => ctx[r] \in Context
       /\ pc[r] \in {"idle", "resuming"} => next[r] = 1
  /\ pc["run"] \in Working => next["run"] = 1

\* Nothing is stored before the export, which then writes what the run holds.
RunHolds ==
  /\ pc["run"] \in Working => error = None /\ \A f \in DOMAIN stored : stored[f] = None
  /\ pc["run"] \in {"report_and_export", "consolidate", "exporting"} =>
       /\ ctx["run"].status \in Final \cup {Paused}
       /\ ctx["run"].status = Paused => ctx["run"].bucket = "USER_DECISION_REQUIRED"
       /\ ctx["run"].assessment = ctx["run"].status
       /\ data["run"] # None
       /\ Earned(ctx["run"], data["run"])
  /\ pc["run"] = "exporting" =>
       /\ next["run"] > 1 => /\ stored["run_meta"] # None
                             /\ stored["run_meta"].status = ctx["run"].status
       /\ next["run"] > 3 => /\ stored["pipeline_data"] # None
                             /\ stored["pipeline_data"].readiness = data["run"]
                             /\ stored["pipeline_data"].assessment = ctx["run"].assessment
       /\ IF next["run"] > 4 THEN stored["run_context"] = ctx["run"]
                             ELSE stored["run_context"] = None
  /\ pc["run"] = "failing" =>
       /\ error # None
       /\ ctx["run"].status = "failed"
       /\ next["run"] > 1 => MetaFailed
       /\ Outcome \in Final => ctx["run"].assessment # Paused

\* A resume found the run paused, writes the readiness it read, and decides.
ResumeHolds(r) ==
  /\ Active(r) =>
       /\ stored["pipeline_data"] # None
       /\ data[r] = stored["pipeline_data"].readiness
       /\ Outcome \in Final \cup {Paused}
       /\ "after_closure" \notin checkpoints
       /\ Outcome = "meeting_ready" => data[r] # None /\ data[r].usable
  /\ pc[r] = "exporting" =>
       /\ ctx[r].status \in Final
       /\ ctx[r].assessment = ctx[r].status
       /\ ctx[r].bucket = "NOT_MEETING_CRITICAL"
       /\ Earned(ctx[r], data[r])
       /\ next[r] > 1 => stored["run_meta"] # None /\ stored["run_meta"].status # Paused
       /\ next[r] > 3 => stored["pipeline_data"].assessment # Paused
       /\ next[r] > 4 => Outcome \in Final
  /\ pc[r] = "returned" => Outcome \in Final

\* The checkpoints of the phases the run is through with.
Written ==
  /\ pc["run"] \in {"first_pass", "auto_close", "synthesis", "finalization",
                    "report_and_export", "consolidate", "exporting"}
       => "after_supervisor_brief" \in checkpoints
  /\ pc["run"] \in {"auto_close", "synthesis", "finalization", "report_and_export",
                    "consolidate", "exporting"}
       => "after_first_pass" \in checkpoints
  /\ pc["run"] \in {"initialize", "supervisor_brief", "first_pass", "auto_close"}
       => "after_closure" \notin checkpoints
  /\ pc["run"] = "auto_close" => ctx["run"].bucket = "AUTO_CLOSE_REQUIRED"
  /\ pc["run"] \in {"synthesis", "finalization", "report_and_export", "consolidate",
                    "exporting"}
       => (ctx["run"].bucket = "AUTO_CLOSE_REQUIRED" <=> "after_closure" \in checkpoints)
  /\ pc["run"] \in {"finalization", "report_and_export", "consolidate", "exporting"}
       => "after_synthesis" \in checkpoints
  /\ pc["run"] \in {"consolidate", "exporting"} => "after_finalization" \in checkpoints

\* What is stored.
StoredIsSound ==
  /\ Outcome \in {"none", "failed", Paused} \cup Final
  /\ Outcome = Paused => stored["run_context"].bucket = "USER_DECISION_REQUIRED"
  /\ ReadyIsEarned
  /\ PauseCanResume
  /\ ContextCommits
  /\ PhasesAreCheckpointed

IInv ==
  /\ TypeOK
  /\ Shape
  /\ RunHolds
  /\ \A r \in Resumers : ResumeHolds(r)
  /\ Written
  /\ StoredIsSound

(***************************************************************************)
(* Facts about the data.                                                    *)
(***************************************************************************)
Stores == {"run_meta", "chat_history", "pipeline_data", "run_context", "snapshots"}

\* The six artifacts of export_run, two of them merged, by their place.
LEMMA ArtifactNames ==
  /\ DOMAIN Artifacts = 1 .. 5
  /\ Len(Artifacts) = 5
  /\ {Artifacts[i] : i \in DOMAIN Artifacts} = Stores
  /\ Artifacts[1] = "run_meta" /\ Artifacts[2] = "chat_history"
  /\ Artifacts[3] = "pipeline_data" /\ Artifacts[4] = "run_context"
  /\ Artifacts[5] = "snapshots"
<1>1. DOMAIN Artifacts = 1 .. 5 /\ Len(Artifacts) = 5
  BY DEF Artifacts
<1>2. /\ Artifacts[1] = "run_meta" /\ Artifacts[2] = "chat_history"
      /\ Artifacts[3] = "pipeline_data" /\ Artifacts[4] = "run_context"
      /\ Artifacts[5] = "snapshots"
  BY DEF Artifacts
<1>3. 1 .. 5 = {1, 2, 3, 4, 5}
  OBVIOUS
<1> HIDE DEF Artifacts
<1>4. {Artifacts[i] : i \in DOMAIN Artifacts} = Stores
  BY <1>1, <1>2, <1>3 DEF Stores
<1> QED
  BY <1>1, <1>2, <1>4

\* An absent context or readiness is told from a present one.
LEMMA NoneIsNoData ==
  /\ None \notin Context
  /\ None \notin Readiness
BY DEF None, Context, Readiness

\* A run starts with a context of the right type.
LEMMA FreshContextType == FreshContext \in Context
BY DEF FreshContext, Context, Status, Phase, MatrixValue

\* The fields of a context.
LEMMA ContextFields ==
  ASSUME NEW c \in Context
  PROVE  /\ c.status \in Status
         /\ c.matrix \in [Questions -> MatrixValue]
         /\ c.assessment \in Status
         /\ c.briefing \in Status \cup {"none"}
         /\ c.lastCheckpoint \in Phase \cup {"none"}
         /\ c.offered \subseteq Questions
BY DEF Context

\* The updates the phases make keep a context's type.
LEMMA ContextUpdates ==
  ASSUME NEW c \in Context
  PROVE  /\ \A s \in Status : [c EXCEPT !.status = s] \in Context
         /\ \A s \in Status : Synced(c, s) \in Context
         /\ \A p \in Phase : [c EXCEPT !.lastCheckpoint = p] \in Context
         /\ \A mx \in [Questions -> MatrixValue] : [c EXCEPT !.matrix = mx] \in Context
<1>1. \A s \in Status : [c EXCEPT !.status = s] \in Context
  BY DEF Context
<1>2. \A s \in Status : Synced(c, s) \in Context
  BY DEF Context, Synced
<1>3. \A p \in Phase : [c EXCEPT !.lastCheckpoint = p] \in Context
  BY DEF Context
<1>4. \A mx \in [Questions -> MatrixValue] : [c EXCEPT !.matrix = mx] \in Context
  BY DEF Context
<1> QED
  BY <1>1, <1>2, <1>3, <1>4

(***************************************************************************)
(* The three parts of the type invariant, and what a step leaves alone.      *)
(***************************************************************************)
CallersOK ==
  /\ pc \in [Callers -> Working \cup Ended \cup {"exporting", "failing", "idle", "resuming"}]
  /\ ctx \in [Callers -> Context \cup {None}]
  /\ data \in [Callers -> Readiness \cup {None}]
  /\ next \in [Callers -> 1 .. 5]
  /\ error \in [phase : Working \cup {"step1_handoff"},
                lastCheckpoint : Phase \cup {"none"}] \cup {None}

GapsOK ==
  /\ gaps \in UNION {[1 .. n -> GapScopes] : n \in 0 .. GapBound}
  /\ open \subseteq DOMAIN gaps

StoreOK ==
  /\ DOMAIN stored = Stores
  /\ stored["run_meta"] \in [status : Status, assessment : Status] \cup {None}
  /\ stored["chat_history"] \in [trace : BOOLEAN] \cup {None}
  /\ stored["pipeline_data"] \in
       [readiness : Readiness \cup {None}, assessment : Status,
        briefing : Status \cup {"none"}] \cup {None}
  /\ stored["run_context"] \in Context \cup {None}
  /\ stored["snapshots"] \in [of : Status] \cup {None}

\* The type invariant, part by part.
LEMMA TypeParts ==
  TypeOK <=> CallersOK /\ GapsOK /\ StoreOK /\ learned \in BOOLEAN /\ checkpoints \subseteq Phase
BY ArtifactNames DEF TypeOK, CallersOK, GapsOK, StoreOK

\* The same, after a step.
LEMMA TypePartsNext ==
  TypeOK' <=> CallersOK' /\ GapsOK' /\ StoreOK' /\ learned' \in BOOLEAN
              /\ checkpoints' \subseteq Phase
BY ArtifactNames DEF TypeOK, CallersOK, GapsOK, StoreOK

OthersKeep(a) ==
  \A b \in Callers \ {a} :
    pc'[b] = pc[b] /\ ctx'[b] = ctx[b] /\ data'[b] = data[b] /\ next'[b] = next[b]

\* A step of the run before its export, and one in which it fails.
RunWorks ==
  /\ pc["run"] \in Working
  /\ stored' = stored
  /\ OthersKeep("run")

Failing ==
  /\ pc'["run"] = "failing"
  /\ next'["run"] = 1
  /\ error' # None
  /\ ctx'["run"] \in Context
  /\ ctx'["run"].status = "failed"
  /\ OthersKeep("run")

\* _pipeline_error_result leaves a typed state in which the run is failing.
LEMMA FailFails ==
  ASSUME CallersOK, NEW c \in Context, NEW phase \in Working \cup {"step1_handoff"},
         Fail(c, phase)
  PROVE  CallersOK' /\ Failing /\ ctx'["run"].assessment = c.assessment
<1> DEFINE failed == [c EXCEPT !.status = "failed"]
<1>1. failed \in Context /\ failed.status = "failed" /\ failed.assessment = c.assessment
  BY DEF Context, Status
<1>2. error' \in [phase : Working \cup {"step1_handoff"},
                    lastCheckpoint : Phase \cup {"none"}]
  <2>1. c.lastCheckpoint \in Phase \cup {"none"}
    BY ContextFields
  <2> QED
    BY <2>1 DEF Fail
<1>3. error' # None
  BY DEF Fail, None
<1>4. "run" \in Callers
  BY DEF Callers
<1> HIDE DEF failed
<1>5. /\ pc' = [pc EXCEPT !["run"] = "failing"]
      /\ ctx' = [ctx EXCEPT !["run"] = failed]
      /\ data' = [data EXCEPT !["run"] = None]
      /\ next' = [next EXCEPT !["run"] = 1]
  BY DEF Fail, failed
<1>6. CallersOK'
  BY <1>1, <1>2, <1>4, <1>5 DEF CallersOK
<1>7. Failing /\ ctx'["run"].assessment = c.assessment
  BY <1>1, <1>3, <1>4, <1>5 DEF CallersOK, Failing, OthersKeep
<1> QED
  BY <1>6, <1>7

\* The phase an exception is reported for.
LEMMA PhaseName ==
  ASSUME pc["run"] \in Working \cup {"exporting"}
  PROVE  CurrentPhase \in Working
BY DEF CurrentPhase, Working

\* _write_checkpoint either completes, and the phase with it, or fails the run.
LEMMA CheckpointedKeeps ==
  ASSUME CallersOK, checkpoints \subseteq Phase, pc["run"] \in Working,
         NEW c \in Context, NEW phase \in Phase, NEW goto \in Working,
         Checkpointed(c, phase, goto)
  PROVE  /\ CallersOK'
         /\ checkpoints' \subseteq Phase
         /\ OthersKeep("run")
         /\ ctx'["run"] \in Context
         /\ \/ Failing
            \/ /\ pc'["run"] = goto
               /\ ctx'["run"] = [c EXCEPT !.lastCheckpoint = phase]
               /\ checkpoints' = checkpoints \cup {phase}
               /\ UNCHANGED <<data, next, error>>
<1> DEFINE named == [c EXCEPT !.lastCheckpoint = phase]
<1>1. named \in Context
  BY ContextUpdates
<1>2. "run" \in Callers
  BY DEF Callers
<1> HIDE DEF named
<1>3. CASE /\ checkpoints' = checkpoints \cup {phase}
           /\ ctx' = [ctx EXCEPT !["run"] = named]
           /\ pc' = [pc EXCEPT !["run"] = goto]
           /\ UNCHANGED <<data, next, error>>
  <2>1. CallersOK'
    BY <1>1, <1>2, <1>3 DEF CallersOK
  <2>2. OthersKeep("run") /\ pc'["run"] = goto /\ ctx'["run"] = named
    BY <1>1, <1>2, <1>3 DEF CallersOK, OthersKeep
  <2> QED
    BY <1>1, <1>3, <2>1, <2>2 DEF named
<1>4. CASE Fail(named, CurrentPhase) /\ UNCHANGED checkpoints
  <2>1. CallersOK' /\ Failing
    BY <1>1, <1>4, FailFails, PhaseName
  <2> QED
    BY <1>4, <2>1 DEF Failing
<1> QED
  BY <1>3, <1>4 DEF Checkpointed, named

\* The gate's word is earned.
LEMMA GateEarns ==
  ASSUME NEW c \in Context, NEW rd \in Readiness
  PROVE  /\ FinalStatus(c, rd) \in Final \cup {Paused}
         /\ FinalStatus(c, rd) = Paused <=> c.bucket = "USER_DECISION_REQUIRED"
         /\ Earned(Synced(c, FinalStatus(c, rd)), rd)
<1> DEFINE status == FinalStatus(c, rd)
<1>1. status \in Final \cup {Paused} /\ (status = Paused <=> c.bucket = "USER_DECISION_REQUIRED")
  BY DEF FinalStatus, GateStatus, Final, Paused
<1>2. status = "meeting_ready" => rd.usable /\ ~ PublicHardBlockers(c, rd)
  BY DEF FinalStatus, GateStatus, Final, Paused
<1>3. ~ PublicHardBlockers(c, rd) =>
        /\ ~ c.remaining
        /\ \A q \in Questions \ Exempt : c.matrix[q] \notin {"pending", "blocked"}
  BY DEF PublicHardBlockers, OpenCore
<1>4. \A q \in Questions : c.matrix[q] \in MatrixValue
  BY ContextFields
<1>5. rd # None
  BY NoneIsNoData
<1>6. \A s : /\ Synced(c, s).status = s
             /\ Synced(c, s).matrix = c.matrix
             /\ Synced(c, s).remaining = c.remaining
  BY DEF Synced, Context
<1> HIDE DEF status
<1>7. Earned(Synced(c, status), rd)
  BY <1>2, <1>3, <1>4, <1>5, <1>6 DEF Earned, MatrixValue
<1> QED
  BY <1>1, <1>7 DEF status

\* What _sync_finalization_artifacts leaves in the context.
LEMMA SyncedFields ==
  ASSUME NEW c \in Context, NEW s \in Status
  PROVE  /\ Synced(c, s) \in Context
         /\ Synced(c, s).status = s
         /\ Synced(c, s).assessment = s
         /\ Synced(c, s).bucket = c.bucket
<1>1. Synced(c, s) \in Context
  BY ContextUpdates
<1>2. /\ Synced(c, s).status = s
      /\ Synced(c, s).assessment = s
      /\ Synced(c, s).bucket = c.bucket
  BY DEF Synced, Context
<1> QED
  BY <1>1, <1>2

(***************************************************************************)
(* The run before its export: nothing is stored, nobody resumes.             *)
(***************************************************************************)
\* No resume has begun while the run's own call is under way.
LEMMA NobodyResumes ==
  ASSUME Shape, pc["run"] \notin Ended
  PROVE  \A r \in Resumers : pc[r] = "idle" /\ next[r] = 1
BY DEF Shape

\* A step before the export keeps the invariant if it keeps the part about the run.
LEMMA WorksKeeps ==
  ASSUME IInv, RunWorks, TypeOK', RunHolds', Written',
         ctx'["run"] \in Context,
         pc'["run"] \notin {"idle", "resuming"},
         pc'["run"] \in Working => next'["run"] = 1
  PROVE  IInv'
<1>1. \A r \in Resumers : pc'[r] = "idle" /\ next'[r] = 1
  <2>1. pc["run"] \notin Ended
    BY DEF RunWorks, Working, Ended
  <2>2. \A r \in Resumers : r \in Callers \ {"run"}
    BY CallsAssumption DEF Callers
  <2> QED
    BY <2>1, <2>2, NobodyResumes DEF IInv, RunWorks, OthersKeep
<1>2. Shape'
  BY <1>1 DEF Shape, Active
<1>3. \A r \in Resumers : ResumeHolds(r)'
  BY <1>1 DEF ResumeHolds, Active
<1>4. Outcome' = "none"
  BY DEF IInv, RunWorks, RunHolds, TypeOK, Outcome, StoreOK, Stores, Artifacts
<1>5. StoredIsSound'
  BY <1>4 DEF StoredIsSound, ReadyIsEarned, PauseCanResume, ContextCommits,
              PhasesAreCheckpointed, Final, Paused
<1> QED
  BY <1>2, <1>3, <1>5 DEF IInv

\* So does a failure before the export.
LEMMA FailsWhileWorking ==
  ASSUME IInv, RunWorks, TypeOK', Failing
  PROVE  IInv'
<1>1. Outcome' = "none"
  BY DEF IInv, RunWorks, RunHolds, TypeOK, Outcome, Artifacts
<1>2. RunHolds'
  BY <1>1 DEF Failing, RunHolds, Working, Final
<1>3. Written'
  BY DEF Failing, Written
<1> QED
  BY <1>2, <1>3, WorksKeeps DEF Failing, Working

\* run_pipeline refuses, or starts.
LEMMA StartSteps ==
  ASSUME IInv, Reject \/ Initialize
  PROVE  IInv'
<1>1. /\ pc["run"] = "initialize"
      /\ pc' = [pc EXCEPT !["run"] = pc'["run"]]
      /\ pc'["run"] \in {"returned", "supervisor_brief"}
      /\ UNCHANGED <<ctx, data, next, gapVars, error, learned, checkpoints, stored>>
  BY DEF Reject, Initialize, IInv, TypeOK, Callers
<1>2. TypeOK'
  BY <1>1 DEF IInv, TypeOK, gapVars, Working, Ended
<1>3. RunWorks
  BY <1>1 DEF RunWorks, Working, OthersKeep, IInv, TypeOK
<1>4. RunHolds' /\ Written'
  BY <1>1 DEF IInv, RunHolds, Written, Working
<1> QED
  BY <1>1, <1>2, <1>3, <1>4, WorksKeeps DEF IInv, Shape, Working

Advanced(c, phase, goto) ==
  /\ pc'["run"] = goto
  /\ ctx'["run"] \in Context
  /\ ctx'["run"] = [c EXCEPT !.lastCheckpoint = phase]
  /\ checkpoints' = checkpoints \cup {phase}
  /\ data' = data /\ next' = next /\ error' = error

\* A phase that ends with a checkpoint, for a context c: c and goto must keep
\* RunHolds and Written, and the gaps their type.
LEMMA PhaseStep ==
  ASSUME IInv, pc["run"] \in Working,
         NEW c \in Context, NEW phase \in Phase, NEW goto \in Working,
         Checkpointed(c, phase, goto),
         GapsOK', UNCHANGED <<learned, stored>>,
         Advanced(c, phase, goto) => RunHolds' /\ Written'
  PROVE  IInv'
<1>1. CallersOK /\ StoreOK /\ checkpoints \subseteq Phase
  BY TypeParts DEF IInv
<1>2. /\ CallersOK'
      /\ checkpoints' \subseteq Phase
      /\ OthersKeep("run")
      /\ ctx'["run"] \in Context
      /\ \/ Failing
         \/ /\ pc'["run"] = goto
            /\ ctx'["run"] = [c EXCEPT !.lastCheckpoint = phase]
            /\ checkpoints' = checkpoints \cup {phase}
            /\ UNCHANGED <<data, next, error>>
  BY <1>1, CheckpointedKeeps
<1>3. StoreOK'
  BY <1>1 DEF StoreOK
<1>4. TypeOK'
  <2>1. learned' \in BOOLEAN
    BY DEF IInv, TypeOK
  <2> QED
    BY <1>2, <1>3, <2>1, TypePartsNext
<1>5. RunWorks
  BY <1>2 DEF RunWorks
<1>6. CASE Failing
  BY <1>4, <1>5, <1>6, FailsWhileWorking
<1>7. CASE ~ Failing
  <2>1. Advanced(c, phase, goto)
    BY <1>2, <1>7 DEF Advanced
  <2>2. next'["run"] = 1
    BY <2>1 DEF Advanced, IInv, Shape
  <2>3. pc'["run"] \notin {"idle", "resuming"}
    BY <2>1 DEF Advanced, Working
  <2> QED
    BY <1>2, <1>4, <1>5, <2>1, <2>2, <2>3, WorksKeeps
<1> QED
  BY <1>6, <1>7

\* _build_supervisor_brief.
LEMMA BriefStep ==
  ASSUME IInv, BuildBrief
  PROVE  IInv'
<1> DEFINE named == [ctx["run"] EXCEPT !.lastCheckpoint = "after_supervisor_brief"]
<1>1. /\ pc["run"] = "supervisor_brief"
      /\ UNCHANGED <<gapVars, learned, stored>>
  BY DEF BuildBrief
<1>2. /\ ctx["run"] \in Context /\ named \in Context
      /\ "after_supervisor_brief" \in Phase
  BY ContextUpdates DEF IInv, Shape, Phase
<1>3. CallersOK /\ GapsOK /\ StoreOK /\ learned \in BOOLEAN /\ checkpoints \subseteq Phase
  BY TypeParts DEF IInv
<1>4. GapsOK' /\ StoreOK' /\ learned' \in BOOLEAN
  BY <1>1, <1>3 DEF GapsOK, StoreOK, gapVars
<1>5. pc["run"] \in Working
  BY <1>1 DEF Working
<1> HIDE DEF named
<1>6. CASE /\ checkpoints' = checkpoints \cup {"after_supervisor_brief"}
           /\ ctx' = [ctx EXCEPT !["run"] = named]
           /\ pc' = [pc EXCEPT !["run"] = "first_pass"]
           /\ UNCHANGED <<data, next, error>>
  <2>1. CallersOK' /\ checkpoints' \subseteq Phase
    BY <1>2, <1>3, <1>6 DEF CallersOK, Working
  <2>2. TypeOK'
    BY <1>4, <2>1, TypePartsNext
  <2>3. /\ OthersKeep("run") /\ pc'["run"] = "first_pass" /\ ctx'["run"] = named
        /\ next'["run"] = 1
    BY <1>3, <1>5, <1>6 DEF CallersOK, OthersKeep, Callers, IInv, Shape
  <2>4. RunWorks
    BY <1>1, <1>5, <2>3 DEF RunWorks
  <2>5. RunHolds' /\ Written'
    BY <1>1, <1>5, <1>6, <2>3 DEF IInv, RunHolds, Written, Working
  <2> QED
    BY <1>2, <2>2, <2>3, <2>4, <2>5, WorksKeeps
<1>7. CASE /\ checkpoints' \in {checkpoints, checkpoints \cup {"after_supervisor_brief"}}
           /\ Fail(named, "step1_handoff")
  <2>1. CallersOK' /\ Failing
    BY <1>2, <1>3, <1>7, FailFails
  <2>2. TypeOK'
    BY <1>2, <1>3, <1>4, <1>7, <2>1, TypePartsNext
  <2>3. RunWorks
    BY <1>1, <1>5, <2>1 DEF RunWorks, Failing
  <2> QED
    BY <2>1, <2>2, <2>3, FailsWhileWorking
<1> QED
  BY <1>6, <1>7 DEF BuildBrief, named

\* classify returns one of the buckets.
LEMMA BucketOf ==
  ASSUME NEW a \in BOOLEAN, NEW b \in BOOLEAN, NEW c \in BOOLEAN, NEW d \in BOOLEAN
  PROVE  Classified(a, b, c, d) \in Bucket
BY DEF Classified, Bucket

\* _run_first_pass.
LEMMA FirstPassStep ==
  ASSUME IInv, FirstPass
  PROVE  IInv'
<1>1. PICK core \in [Questions \ SynthesisQuestions -> MatrixValue],
           found \in UNION {[1 .. n -> GapScopes] : n \in 0 .. GapBound},
           blocking \in BOOLEAN, contactGaps \in BOOLEAN :
        LET matrix == [q \in Questions |->
                         IF q \in SynthesisQuestions THEN "pending" ELSE core[q]]
            unresolved == {q \in Questions : matrix[q] \in {"pending", "blocked"}}
            bucket == Classified(blocking, found # <<>>, contactGaps, unresolved # {})
        IN /\ gaps' = found
           /\ open' = DOMAIN found
           /\ Checkpointed([ctx["run"] EXCEPT !.matrix = matrix, !.bucket = bucket,
                                              !.offered = unresolved],
                           "after_first_pass",
                           IF bucket = "AUTO_CLOSE_REQUIRED" THEN "auto_close" ELSE "synthesis")
  BY DEF FirstPass
<1> DEFINE matrix == [q \in Questions |->
                        IF q \in SynthesisQuestions THEN "pending" ELSE core[q]]
           unresolved == {q \in Questions : matrix[q] \in {"pending", "blocked"}}
           bucket == Classified(blocking, found # <<>>, contactGaps, unresolved # {})
           c == [ctx["run"] EXCEPT !.matrix = matrix, !.bucket = bucket, !.offered = unresolved]
           goto == IF bucket = "AUTO_CLOSE_REQUIRED" THEN "auto_close" ELSE "synthesis"
<1>2. pc["run"] = "first_pass" /\ UNCHANGED <<learned, stored>>
  BY DEF FirstPass
<1>3. matrix \in [Questions -> MatrixValue]
  BY DEF MatrixValue
<1>4. bucket \in Bucket
  BY BucketOf
<1>5. unresolved \subseteq Questions
  OBVIOUS
<1>6. gaps' = found /\ open' = DOMAIN found /\ Checkpointed(c, "after_first_pass", goto)
  BY <1>1
<1>7. GapsOK'
  BY <1>6 DEF GapsOK
<1>8. goto \in Working /\ "after_first_pass" \in Phase
  BY DEF Working, Phase
<1>9. (goto = "auto_close" /\ bucket = "AUTO_CLOSE_REQUIRED")
      \/ (goto = "synthesis" /\ bucket # "AUTO_CLOSE_REQUIRED")
  OBVIOUS
<1> HIDE DEF matrix, unresolved, bucket, goto
<1>10. c \in Context /\ c.bucket = bucket
  BY <1>3, <1>4, <1>5 DEF IInv, Shape, Context
<1> HIDE DEF c
<1>11. ASSUME Advanced(c, "after_first_pass", goto)
       PROVE  RunHolds' /\ Written'
  <2>1. ctx'["run"].bucket = bucket
    BY <1>10, <1>11 DEF Advanced, Context
  <2>2. RunHolds'
    BY <1>2, <1>9, <1>11 DEF Advanced, IInv, RunHolds, Working
  <2>3. Written'
    BY <1>2, <1>9, <1>11, <2>1 DEF Advanced, IInv, Written
  <2> QED
    BY <2>2, <2>3
<1>12. pc["run"] \in Working
  BY <1>2 DEF Working
<1> QED
  BY <1>2, <1>6, <1>7, <1>8, <1>10, <1>11, <1>12, PhaseStep

\* _run_auto_close_if_required.
LEMMA AutoCloseStep ==
  ASSUME IInv, AutoClose
  PROVE  IInv'
<1>1. PICK resolved \in SUBSET Attempted :
        /\ open' = open \ resolved
        /\ Checkpointed([ctx["run"] EXCEPT !.matrix = Credited(@, resolved),
                                           !.remaining = Attempted \ resolved # {}],
                        "after_closure", "synthesis")
  BY DEF AutoClose
<1> DEFINE matrix == Credited(ctx["run"].matrix, resolved)
           remaining == Attempted \ resolved # {}
           c == [ctx["run"] EXCEPT !.matrix = matrix, !.remaining = remaining]
<1>2. pc["run"] = "auto_close" /\ UNCHANGED <<gaps, learned, stored>>
  BY DEF AutoClose
<1>3. ctx["run"] \in Context
  BY DEF IInv, Shape
<1>4. matrix \in [Questions -> MatrixValue]
  BY <1>3, ContextFields DEF Credited, MatrixValue
<1>5. remaining \in BOOLEAN
  OBVIOUS
<1>6. Checkpointed(c, "after_closure", "synthesis")
  BY <1>1
<1> HIDE DEF matrix, remaining
<1>7. c \in Context /\ c.bucket = ctx["run"].bucket
  BY <1>3, <1>4, <1>5 DEF Context
<1> HIDE DEF c
<1>8. GapsOK'
  BY <1>1, <1>2 DEF GapsOK, IInv, TypeOK
<1>9. ASSUME Advanced(c, "after_closure", "synthesis")
      PROVE  RunHolds' /\ Written'
  <2>1. ctx'["run"].bucket = "AUTO_CLOSE_REQUIRED"
    BY <1>2, <1>7, <1>9 DEF Advanced, Context, IInv, Written
  <2>2. RunHolds'
    BY <1>2, <1>9 DEF Advanced, IInv, RunHolds, Working
  <2>3. Written'
    BY <1>2, <1>9, <2>1 DEF Advanced, IInv, Written
  <2> QED
    BY <2>2, <2>3
<1>10. pc["run"] \in Working /\ "synthesis" \in Working /\ "after_closure" \in Phase
  BY <1>2 DEF Working, Phase
<1> QED
  BY <1>2, <1>6, <1>7, <1>8, <1>9, <1>10, PhaseStep

\* _run_synthesis_phase.
LEMMA SynthesizeStep ==
  ASSUME IInv, Synthesize
  PROVE  IInv'
<1>1. PICK status \in {"accepted", "degraded"} :
        Checkpointed([ctx["run"] EXCEPT !.matrix =
                        [q \in Questions |-> IF q \in SynthesisQuestions
                                             THEN MatrixStatus(status) ELSE @[q]]],
                     "after_synthesis", "finalization")
  BY DEF Synthesize, WithSynthesis
<1> DEFINE matrix == [q \in Questions |-> IF q \in SynthesisQuestions
                                          THEN MatrixStatus(status) ELSE ctx["run"].matrix[q]]
           c == [ctx["run"] EXCEPT !.matrix = matrix]
<1>2. pc["run"] = "synthesis" /\ UNCHANGED <<gapVars, learned, stored>>
  BY DEF Synthesize
<1>3. ctx["run"] \in Context
  BY DEF IInv, Shape
<1>4. MatrixStatus(status) \in MatrixValue
  BY DEF MatrixStatus, MatrixValue
<1>5. matrix \in [Questions -> MatrixValue]
  BY <1>3, <1>4, ContextFields
<1>6. Checkpointed(c, "after_synthesis", "finalization")
  BY <1>1
<1> HIDE DEF matrix
<1>7. c \in Context /\ c.bucket = ctx["run"].bucket
  BY <1>3, <1>5 DEF Context
<1> HIDE DEF c
<1>8. GapsOK'
  BY <1>2 DEF GapsOK, gapVars, IInv, TypeOK
<1>9. ASSUME Advanced(c, "after_synthesis", "finalization")
      PROVE  RunHolds' /\ Written'
  <2>1. ctx'["run"].bucket = ctx["run"].bucket
    BY <1>7, <1>9 DEF Advanced, Context
  <2>2. RunHolds'
    BY <1>2, <1>9 DEF Advanced, IInv, RunHolds, Working
  <2>3. Written'
    BY <1>2, <1>9, <2>1 DEF Advanced, IInv, Written
  <2> QED
    BY <2>2, <2>3
<1>10. pc["run"] \in Working /\ "finalization" \in Working /\ "after_synthesis" \in Phase
  BY <1>2 DEF Working, Phase
<1> QED
  BY <1>2, <1>6, <1>7, <1>8, <1>9, <1>10, PhaseStep

\* _finalize_readiness.
LEMMA FinalizeStep ==
  ASSUME IInv, Finalize
  PROVE  IInv'
<1>1. PICK rd \in Readiness :
        /\ data' = [data EXCEPT !["run"] = rd]
        /\ ctx' = [ctx EXCEPT !["run"] = Synced(ctx["run"], FinalStatus(ctx["run"], rd))]
  BY DEF Finalize, Concluded, IInv, TypeOK, Callers
<1> DEFINE status == FinalStatus(ctx["run"], rd)
           c == Synced(ctx["run"], status)
<1>2. /\ pc["run"] = "finalization"
      /\ pc' = [pc EXCEPT !["run"] = "report_and_export"]
      /\ UNCHANGED <<next, gapVars, error, learned, checkpoints, stored>>
  BY DEF Finalize
<1>3. ctx["run"] \in Context
  BY DEF IInv, Shape
<1>4. /\ status \in Final \cup {Paused}
      /\ status = Paused <=> ctx["run"].bucket = "USER_DECISION_REQUIRED"
      /\ Earned(c, rd)
  BY <1>3, GateEarns
<1>5. status \in Status
  BY <1>4 DEF Status
<1> HIDE DEF status
<1>6. c \in Context /\ c.status = status /\ c.assessment = status
      /\ c.bucket = ctx["run"].bucket
  BY <1>3, <1>5, SyncedFields
<1>7. ctx' = [ctx EXCEPT !["run"] = c]
  BY <1>1 DEF status
<1> HIDE DEF c
<1>8. "run" \in Callers /\ rd # None /\ pc["run"] \in Working
      /\ "report_and_export" \in Working
  BY <1>2, NoneIsNoData DEF Callers, Working
<1>9. CallersOK
  BY TypeParts DEF IInv
<1>10. CallersOK'
  BY <1>1, <1>2, <1>6, <1>7, <1>8, <1>9 DEF CallersOK
<1>11. TypeOK'
  BY <1>2, <1>10, TypeParts, TypePartsNext DEF IInv, gapVars, GapsOK, StoreOK
<1>12. /\ OthersKeep("run") /\ pc'["run"] = "report_and_export" /\ ctx'["run"] = c
       /\ data'["run"] = rd
  BY <1>1, <1>2, <1>7, <1>8, <1>9 DEF CallersOK, OthersKeep
<1>13. RunWorks
  BY <1>2, <1>8, <1>12 DEF RunWorks
<1>14. Earned(ctx'["run"], data'["run"])
  BY <1>4, <1>12
<1>15. RunHolds'
  BY <1>2, <1>4, <1>6, <1>8, <1>12, <1>14 DEF IInv, RunHolds, Working
<1>16. Written'
  BY <1>2, <1>6, <1>12 DEF IInv, Written
<1>17. next'["run"] = 1
  BY <1>2, <1>8 DEF IInv, Shape
<1> QED
  BY <1>6, <1>11, <1>12, <1>13, <1>15, <1>16, <1>17, WorksKeeps

\* _assemble_report_and_export, up to its checkpoint.
LEMMA ReportStep ==
  ASSUME IInv, Report
  PROVE  IInv'
<1>1. /\ pc["run"] = "report_and_export" /\ UNCHANGED <<gapVars, learned, stored>>
      /\ Checkpointed(ctx["run"], "after_finalization", "consolidate")
  BY DEF Report
<1>2. pc["run"] \in Working /\ "consolidate" \in Working /\ "after_finalization" \in Phase
  BY <1>1 DEF Working, Phase
<1>3. ctx["run"] \in Context
  BY DEF IInv, Shape
<1>4. GapsOK'
  BY <1>1 DEF GapsOK, gapVars, IInv, TypeOK
<1>5. ASSUME Advanced(ctx["run"], "after_finalization", "consolidate")
      PROVE  RunHolds' /\ Written'
  <2>1. /\ ctx'["run"].bucket = ctx["run"].bucket
        /\ ctx'["run"].status = ctx["run"].status
        /\ ctx'["run"].assessment = ctx["run"].assessment
        /\ ctx'["run"].matrix = ctx["run"].matrix
        /\ ctx'["run"].remaining = ctx["run"].remaining
        /\ data'["run"] = data["run"]
    BY <1>3, <1>5 DEF Advanced, Context
  <2>2. Earned(ctx["run"], data["run"]) => Earned(ctx'["run"], data'["run"])
    BY <2>1 DEF Earned
  <2>3. RunHolds'
    BY <1>1, <1>5, <2>1, <2>2 DEF Advanced, IInv, RunHolds, Working
  <2>4. Written'
    BY <1>1, <1>5, <2>1 DEF Advanced, IInv, Written
  <2> QED
    BY <2>3, <2>4
<1> QED
  BY <1>1, <1>2, <1>3, <1>4, <1>5, PhaseStep

\* _assemble_report_and_export, up to the export.
LEMMA ConsolidateStep ==
  ASSUME IInv, Consolidate
  PROVE  IInv'
<1>1. /\ pc["run"] = "consolidate"
      /\ pc' = [pc EXCEPT !["run"] = "exporting"]
      /\ learned' \in BOOLEAN
      /\ UNCHANGED <<ctx, data, next, gapVars, error, checkpoints, stored>>
  BY DEF Consolidate
<1>2. "run" \in Callers /\ pc["run"] \in Working /\ "exporting" \notin Working
  BY <1>1 DEF Callers, Working
<1>3. /\ pc'["run"] = "exporting" /\ OthersKeep("run")
  BY <1>1, <1>2 DEF OthersKeep, IInv, TypeOK
<1>4. TypeOK'
  BY <1>1 DEF IInv, TypeOK, gapVars
<1>5. RunWorks
  BY <1>1, <1>2, <1>3 DEF RunWorks
<1>6. next["run"] = 1 /\ stored["run_context"] = None
  BY <1>2 DEF IInv, Shape, RunHolds, TypeOK, Artifacts
<1>7. RunHolds'
  BY <1>1, <1>2, <1>3, <1>6 DEF IInv, RunHolds
<1>8. Written'
  BY <1>1, <1>3 DEF IInv, Written
<1>9. ctx'["run"] \in Context
  BY <1>1 DEF IInv, Shape
<1> QED
  BY <1>2, <1>3, <1>4, <1>5, <1>7, <1>8, <1>9, WorksKeeps

(***************************************************************************)
(* The run fails, before its export or during it.                            *)
(***************************************************************************)
\* An exception, wherever it comes from.
LEMMA RaiseStep ==
  ASSUME IInv, Raise
  PROVE  IInv'
<1>1. UNCHANGED <<gapVars, learned, checkpoints, stored>> /\ pc["run"] \notin Ended
  BY DEF Raise, Working, Ended
<1>2. /\ CallersOK /\ ctx["run"] \in Context /\ "run" \in Callers
      /\ \A r \in Resumers : pc[r] = "idle" /\ next[r] = 1 /\ r \in Callers \ {"run"}
  BY <1>1, NobodyResumes, TypeParts, CallsAssumption DEF IInv, Shape, Callers
<1>3. ASSUME CallersOK', OthersKeep("run")
      PROVE  TypeOK' /\ \A r \in Resumers : pc'[r] = "idle" /\ next'[r] = 1
  <2>1. TypeOK'
    BY <1>1, <1>3, TypeParts, TypePartsNext DEF IInv, gapVars, GapsOK, StoreOK
  <2> QED
    BY <1>2, <1>3, <2>1 DEF OthersKeep
<1>4. ASSUME \A r \in Resumers : pc'[r] = "idle"
      PROVE  \A r \in Resumers : ResumeHolds(r)'
  BY <1>4 DEF ResumeHolds, Active
<1>5. ASSUME error # None => error' # None
      PROVE  StoredIsSound'
  BY <1>1, <1>5 DEF IInv, StoredIsSound, ReadyIsEarned, PauseCanResume, ContextCommits,
                    PhasesAreCheckpointed, Outcome, MetaFailed
<1>6. CASE pc["run"] \in Working \cup {"exporting"} /\ Fail(ctx["run"], CurrentPhase)
  <2>1. CallersOK' /\ Failing /\ ctx'["run"].assessment = ctx["run"].assessment
    BY <1>2, <1>6, FailFails, PhaseName
  <2>2. TypeOK' /\ \A r \in Resumers : pc'[r] = "idle" /\ next'[r] = 1
    BY <1>3, <2>1 DEF Failing
  <2>3. CASE pc["run"] \in Working
    <3>1. RunWorks
      BY <1>1, <2>1, <2>3 DEF RunWorks, Failing
    <3> QED
      BY <2>1, <2>2, <3>1, FailsWhileWorking
  <2>4. CASE pc["run"] = "exporting"
    <3>1. Outcome' \in Final => ctx'["run"].assessment # Paused
      <4>1. Outcome \in Final =>
              ctx["run"].assessment = ctx["run"].status /\ Outcome = ctx["run"].status
        BY <2>4 DEF IInv, RunHolds, Outcome, Final
      <4>2. Outcome' = Outcome
        BY <1>1 DEF Outcome
      <4> QED
        BY <2>1, <4>1, <4>2 DEF Final, Paused
    <3>2. RunHolds'
      BY <2>1, <3>1 DEF Failing, RunHolds, Working
    <3>3. Written'
      BY <2>1 DEF Failing, Written
    <3>4. Shape'
      BY <2>1, <2>2 DEF Failing, Shape, Active, Working
    <3> QED
      BY <1>4, <1>5, <2>1, <2>2, <3>2, <3>3, <3>4 DEF Failing, IInv
  <2> QED
    BY <1>6, <2>3, <2>4
<1>7. CASE /\ pc["run"] = "failing" /\ pc' = [pc EXCEPT !["run"] = "dead"]
           /\ UNCHANGED <<ctx, data, next, error>>
  <2>1. CallersOK' /\ OthersKeep("run") /\ pc'["run"] = "dead"
    BY <1>2, <1>7 DEF CallersOK, Ended, OthersKeep
  <2>2. TypeOK' /\ \A r \in Resumers : pc'[r] = "idle" /\ next'[r] = 1
    BY <1>3, <2>1
  <2>3. RunHolds' /\ Written'
    BY <2>1 DEF RunHolds, Written, Working
  <2>4. Shape'
    BY <1>2, <1>7, <2>1, <2>2 DEF Shape, Active, Working
  <2> QED
    BY <1>4, <1>5, <1>7, <2>2, <2>3, <2>4 DEF IInv
<1> QED
  BY <1>6, <1>7 DEF Raise

(***************************************************************************)
(* The export, artifact by artifact.                                        *)
(***************************************************************************)
MetaOf(a) == [status |-> ctx[a].status, assessment |-> ctx[a].assessment]
DataOf(a) == [readiness |-> data[a], assessment |-> ctx[a].assessment,
              briefing |-> ctx[a].briefing]

\* What one write of export_run does to the stored artifacts.
LEMMA WriteOne ==
  ASSUME TypeOK, NEW a \in Callers, ctx[a] \in Context, WriteArtifact(a)
  PROVE  /\ next[a] \in 1 .. 5
         /\ StoreOK'
         /\ stored'["run_meta"] = IF next[a] = 1 THEN MetaOf(a) ELSE stored["run_meta"]
         /\ stored'["pipeline_data"] = IF next[a] = 3 THEN DataOf(a) ELSE stored["pipeline_data"]
         /\ stored'["run_context"] = IF next[a] = 4 THEN ctx[a] ELSE stored["run_context"]
<1>1. CallersOK /\ StoreOK
  BY TypeParts
<1>2. next[a] \in 1 .. 5 /\ data[a] \in Readiness \cup {None}
  BY <1>1 DEF CallersOK
<1>3. stored' = [stored EXCEPT ![Artifacts[next[a]]] = Content(a)[Artifacts[next[a]]]]
  BY DEF WriteArtifact
<1>4. /\ Content(a)["run_meta"] = MetaOf(a)
      /\ Content(a)["chat_history"] = [trace |-> a = "run"]
      /\ Content(a)["pipeline_data"] = DataOf(a)
      /\ Content(a)["run_context"] = ctx[a]
      /\ Content(a)["snapshots"] = [of |-> ctx[a].status]
  BY DEF Content, MetaOf, DataOf
<1>5. /\ MetaOf(a) \in [status : Status, assessment : Status]
      /\ DataOf(a) \in [readiness : Readiness \cup {None}, assessment : Status,
                        briefing : Status \cup {"none"}]
      /\ [of |-> ctx[a].status] \in [of : Status]
  BY <1>2, ContextFields DEF MetaOf, DataOf
<1>6. [trace |-> a = "run"] \in [trace : BOOLEAN]
  OBVIOUS
<1> HIDE DEF MetaOf, DataOf
<1>7. CASE next[a] = 1
  <2>1. stored' = [stored EXCEPT !["run_meta"] = MetaOf(a)]
    BY <1>3, <1>4, <1>7, ArtifactNames
  <2> QED
    BY <1>1, <1>2, <1>5, <1>7, <2>1 DEF StoreOK, Stores
<1>8. CASE next[a] = 2
  <2>1. stored' = [stored EXCEPT !["chat_history"] = [trace |-> a = "run"]]
    BY <1>3, <1>4, <1>8, ArtifactNames
  <2> QED
    BY <1>1, <1>2, <1>6, <1>8, <2>1 DEF StoreOK, Stores
<1>9. CASE next[a] = 3
  <2>1. stored' = [stored EXCEPT !["pipeline_data"] = DataOf(a)]
    BY <1>3, <1>4, <1>9, ArtifactNames
  <2> QED
    BY <1>1, <1>2, <1>5, <1>9, <2>1 DEF StoreOK, Stores
<1>10. CASE next[a] = 4
  <2>1. stored' = [stored EXCEPT !["run_context"] = ctx[a]]
    BY <1>3, <1>4, <1>10, ArtifactNames
  <2> QED
    BY <1>1, <1>2, <1>10, <2>1 DEF StoreOK, Stores
<1>11. CASE next[a] = 5
  <2>1. stored' = [stored EXCEPT !["snapshots"] = [of |-> ctx[a].status]]
    BY <1>3, <1>4, <1>11, ArtifactNames
  <2> QED
    BY <1>1, <1>2, <1>5, <1>11, <2>1 DEF StoreOK, Stores
<1> QED
  BY <1>2, <1>7, <1>8, <1>9, <1>10, <1>11

\* What one write of export_run does to its caller.
LEMMA WriteMoves ==
  ASSUME TypeOK, NEW a \in Callers, ctx[a] \in Context, WriteArtifact(a)
  PROVE  /\ TypeOK'
         /\ OthersKeep(a)
         /\ pc[a] \in {"exporting", "failing"}
         /\ UNCHANGED <<ctx, data, gapVars, error, learned, checkpoints>>
         /\ \/ next[a] = 5 /\ pc'[a] = "returned" /\ next'[a] = 5
            \/ next[a] < 5 /\ pc'[a] = pc[a] /\ next'[a] = next[a] + 1
<1>1. CallersOK /\ GapsOK /\ learned \in BOOLEAN /\ checkpoints \subseteq Phase
  BY TypeParts
<1>2. /\ pc[a] \in {"exporting", "failing"}
      /\ IF next[a] = 5
         THEN pc' = [pc EXCEPT ![a] = "returned"] /\ next' = next
         ELSE next' = [next EXCEPT ![a] = next[a] + 1] /\ pc' = pc
      /\ UNCHANGED <<ctx, data, gapVars, error, learned, checkpoints>>
  BY <1>1, ArtifactNames DEF WriteArtifact, CallersOK
<1>3. next[a] \in 1 .. 5 /\ StoreOK'
  BY WriteOne
<1>4. pc' \in [Callers -> Working \cup Ended \cup {"exporting", "failing", "idle", "resuming"}]
      /\ next' \in [Callers -> 1 .. 5]
  BY <1>1, <1>2, <1>3 DEF CallersOK, Ended
<1>5. CallersOK'
  BY <1>1, <1>2, <1>4 DEF CallersOK
<1>6. TypeOK'
  BY <1>1, <1>2, <1>3, <1>5, TypePartsNext DEF GapsOK, gapVars
<1>7. OthersKeep(a)
  BY <1>1, <1>2 DEF OthersKeep, CallersOK
<1>8. \/ next[a] = 5 /\ pc'[a] = "returned" /\ next'[a] = 5
      \/ next[a] < 5 /\ pc'[a] = pc[a] /\ next'[a] = next[a] + 1
  BY <1>1, <1>2, <1>3 DEF CallersOK
<1> QED
  BY <1>2, <1>6, <1>7, <1>8

\* The records an export writes.
LEMMA RecordsAreNotNone ==
  ASSUME NEW a \in Callers
  PROVE  /\ MetaOf(a) # None /\ MetaOf(a).status = ctx[a].status
         /\ DataOf(a) # None /\ DataOf(a).readiness = data[a]
         /\ DataOf(a).assessment = ctx[a].assessment
BY DEF MetaOf, DataOf, None

\* A write of the run's export, or of its error export.
LEMMA RunWriteStep ==
  ASSUME IInv, WriteArtifact("run")
  PROVE  IInv'
<1> DEFINE n == next["run"]
           c == ctx["run"]
<1>1. TypeOK /\ "run" \in Callers /\ c \in Context
  BY DEF IInv, Shape, Callers
<1>2. /\ n \in 1 .. 5
      /\ stored'["run_meta"] = IF n = 1 THEN MetaOf("run") ELSE stored["run_meta"]
      /\ stored'["pipeline_data"] = IF n = 3 THEN DataOf("run") ELSE stored["pipeline_data"]
      /\ stored'["run_context"] = IF n = 4 THEN c ELSE stored["run_context"]
  BY <1>1, WriteOne
<1>3. /\ TypeOK'
      /\ OthersKeep("run")
      /\ pc["run"] \in {"exporting", "failing"}
      /\ UNCHANGED <<ctx, data, gapVars, error, learned, checkpoints>>
      /\ \/ n = 5 /\ pc'["run"] = "returned" /\ next'["run"] = 5
         \/ n < 5 /\ pc'["run"] = pc["run"] /\ next'["run"] = n + 1
  BY <1>1, WriteMoves
<1>4. /\ MetaOf("run") # None /\ MetaOf("run").status = c.status
      /\ DataOf("run") # None /\ DataOf("run").readiness = data["run"]
      /\ DataOf("run").assessment = c.assessment
      /\ c # None
  BY <1>1, RecordsAreNotNone, NoneIsNoData
<1>5. \A r \in Resumers : pc'[r] = "idle" /\ next'[r] = 1
  <2>1. \A r \in Resumers : r \in Callers \ {"run"}
    BY CallsAssumption DEF Callers
  <2> QED
    BY <1>3, <2>1, NobodyResumes DEF IInv, OthersKeep, Ended
<1>6. Shape'
  BY <1>1, <1>3, <1>5 DEF Shape, Active, Working
<1>7. \A r \in Resumers : ResumeHolds(r)'
  BY <1>5 DEF ResumeHolds, Active
<1>8. Written'
  BY <1>3 DEF IInv, Written
<1> HIDE DEF n, c
<1>9. CASE pc["run"] = "exporting"
  <2>1. /\ c.status \in Final \cup {Paused}
        /\ c.status = Paused => c.bucket = "USER_DECISION_REQUIRED"
        /\ c.assessment = c.status
        /\ data["run"] # None
        /\ Earned(c, data["run"])
        /\ n > 1 => stored["run_meta"] # None /\ stored["run_meta"].status = c.status
        /\ n > 3 => /\ stored["pipeline_data"] # None
                    /\ stored["pipeline_data"].readiness = data["run"]
                    /\ stored["pipeline_data"].assessment = c.assessment
        /\ IF n > 4 THEN stored["run_context"] = c ELSE stored["run_context"] = None
    BY <1>9 DEF IInv, RunHolds, n, c
  <2>2. /\ stored'["run_meta"] # None /\ stored'["run_meta"].status = c.status
        /\ n >= 3 => /\ stored'["pipeline_data"] # None
                     /\ stored'["pipeline_data"].readiness = data["run"]
                     /\ stored'["pipeline_data"].assessment = c.assessment
        /\ stored'["run_context"] = IF n >= 4 THEN c ELSE None
    BY <1>2, <1>4, <2>1
  <2>3. RunHolds'
    <3>1. ctx'["run"] = c /\ data'["run"] = data["run"]
      BY <1>3 DEF c
    <3>2. Earned(ctx'["run"], data'["run"])
      BY <2>1, <3>1
    <3>3. pc'["run"] = "exporting" => n < 5 /\ next'["run"] = n + 1
      BY <1>3
    <3>4. pc'["run"] \in {"exporting", "returned"}
      BY <1>3, <1>9
    <3> QED
      BY <1>2, <2>1, <2>2, <3>1, <3>2, <3>3, <3>4 DEF RunHolds, Working
  <2>4. Outcome' = IF n >= 4 THEN c.status ELSE "none"
    BY <1>4, <2>2 DEF Outcome
  <2>5. ReadyIsEarned'
    <3> SUFFICES ASSUME Outcome' = "meeting_ready"
                 PROVE  /\ \A q \in Questions \ Exempt :
                             stored'["run_context"].matrix[q] \in {"answered", "partially_answered"}
                        /\ ~ stored'["run_context"].remaining
                        /\ stored'["pipeline_data"].readiness # None
                        /\ stored'["pipeline_data"].readiness.usable
      BY DEF ReadyIsEarned
    <3>1. n >= 4 /\ c.status = "meeting_ready"
      BY <1>2, <2>4
    <3>2. /\ stored'["run_context"] = c
          /\ stored'["pipeline_data"].readiness = data["run"]
      BY <1>2, <2>2, <3>1
    <3> QED
      BY <2>1, <3>1, <3>2 DEF Earned
  <2>6. PauseCanResume' /\ ContextCommits'
    BY <1>2, <2>1, <2>2, <2>4 DEF PauseCanResume, ContextCommits, Final, Paused
  <2>7. PhasesAreCheckpointed'
    <3>1. /\ {"after_supervisor_brief", "after_first_pass", "after_synthesis",
               "after_finalization"} \subseteq checkpoints'
          /\ c.bucket = "AUTO_CLOSE_REQUIRED" <=> "after_closure" \in checkpoints'
      BY <1>3, <1>9 DEF IInv, Written, c
    <3> QED
      BY <2>2, <2>4, <3>1 DEF PhasesAreCheckpointed, Final, Paused
  <2>8. StoredIsSound'
    BY <2>1, <2>2, <2>4, <2>5, <2>6, <2>7 DEF StoredIsSound, Final, Paused
  <2> QED
    BY <1>3, <1>6, <1>7, <1>8, <2>3, <2>8 DEF IInv
<1>10. CASE pc["run"] = "failing"
  <2>1. /\ error # None
        /\ c.status = "failed"
        /\ n > 1 => MetaFailed
        /\ Outcome \in Final => c.assessment # Paused
    BY <1>10 DEF IInv, RunHolds, n, c
  <2>2. MetaFailed'
    BY <1>2, <1>4, <2>1 DEF MetaFailed
  <2>3. Outcome' = IF n = 4 THEN "failed" ELSE Outcome
    BY <1>2, <1>4, <2>1 DEF Outcome
  <2>4. error' # None /\ ctx'["run"] = c /\ checkpoints' = checkpoints
    BY <1>3, <2>1 DEF c
  <2>5. RunHolds'
    BY <1>3, <1>10, <2>1, <2>2, <2>3, <2>4 DEF RunHolds, Working, Final
  <2>6. Outcome' # "failed" => stored'["run_context"] = stored["run_context"]
                               /\ Outcome' = Outcome
    BY <1>2, <2>3
  <2>7. ReadyIsEarned'
    BY <2>2, <2>6 DEF IInv, StoredIsSound, ReadyIsEarned
  <2>8. PauseCanResume'
    BY <1>2, <1>4, <2>4, <2>6 DEF IInv, StoredIsSound, PauseCanResume, Paused
  <2>9. ContextCommits'
    BY <1>2, <1>4, <2>1, <2>2, <2>6 DEF IInv, StoredIsSound, ContextCommits, MetaFailed,
                                             Final, Paused
  <2>10. PhasesAreCheckpointed'
    BY <2>4, <2>6 DEF IInv, StoredIsSound, PhasesAreCheckpointed, Final, Paused
  <2>11. StoredIsSound'
    BY <2>3, <2>6, <2>7, <2>8, <2>9, <2>10 DEF IInv, StoredIsSound, Paused
  <2> QED
    BY <1>3, <1>6, <1>7, <1>8, <2>5, <2>11 DEF IInv
<1> QED
  BY <1>3, <1>9, <1>10

(***************************************************************************)
(* The calls that resume, and the crash of the process.                      *)
(***************************************************************************)
\* A step that touches neither artifacts nor checkpoints keeps what is stored sound.
LEMMA QuietStore ==
  ASSUME StoredIsSound, UNCHANGED <<stored, checkpoints, error>>
  PROVE  StoredIsSound' /\ Outcome' = Outcome
BY DEF StoredIsSound, ReadyIsEarned, PauseCanResume, ContextCommits,
       PhasesAreCheckpointed, Outcome, MetaFailed

\* Nothing is claimed of a run whose call has ended.
LEMMA RunIsOver ==
  ASSUME pc'["run"] \in Ended
  PROVE  RunHolds' /\ Written'
BY DEF RunHolds, Written, Ended, Working

\* A step of one caller keeps what another holds, if it writes nothing.
LEMMA OthersHold ==
  ASSUME NEW a \in Callers, OthersKeep(a), stored' = stored,
         "after_closure" \in checkpoints' <=> "after_closure" \in checkpoints,
         NEW q \in Resumers \ {a}, ResumeHolds(q)
  PROVE  ResumeHolds(q)'
<1>1. pc'[q] = pc[q] /\ ctx'[q] = ctx[q] /\ data'[q] = data[q] /\ next'[q] = next[q]
  BY DEF OthersKeep, Callers
<1>2. Outcome' = Outcome
  BY DEF Outcome
<1> QED
  BY <1>1, <1>2 DEF ResumeHolds, Active, Earned

\* resume_pipeline reads the run.
LEMMA BeginStep ==
  ASSUME IInv, NEW r \in Resumers, BeginResume(r)
  PROVE  IInv'
<1>1. /\ pc[r] = "idle" /\ pc["run"] \in Ended
      /\ stored["run_context"] # None /\ stored["run_context"].status = Paused
      /\ ctx' = [ctx EXCEPT ![r] = stored["run_context"]]
      /\ UNCHANGED <<next, gapVars, error, learned, checkpoints, stored>>
  BY DEF BeginResume, LoadRun
<1>2. Outcome = Paused
  BY <1>1 DEF Outcome
<1>3. stored["pipeline_data"] # None /\ "after_closure" \notin checkpoints
  BY <1>2 DEF IInv, StoredIsSound, PauseCanResume, PhasesAreCheckpointed
<1>4. /\ pc' = [pc EXCEPT ![r] = "resuming"]
      /\ data' = [data EXCEPT ![r] = stored["pipeline_data"].readiness]
  BY <1>3 DEF BeginResume, LoadRun
<1>5. r \in Callers /\ "run" \in Callers /\ r # "run"
  BY CallsAssumption DEF Callers
<1>6. CallersOK /\ GapsOK /\ StoreOK /\ learned \in BOOLEAN /\ checkpoints \subseteq Phase
  BY TypeParts DEF IInv
<1>7. /\ stored["run_context"] \in Context
      /\ stored["pipeline_data"].readiness \in Readiness \cup {None}
  BY <1>1, <1>3, <1>6 DEF StoreOK
<1>8. CallersOK'
  BY <1>1, <1>4, <1>5, <1>6, <1>7 DEF CallersOK
<1>9. TypeOK'
  BY <1>1, <1>6, <1>8, TypePartsNext DEF GapsOK, StoreOK, gapVars
<1>10. /\ OthersKeep(r) /\ pc'[r] = "resuming" /\ ctx'[r] = stored["run_context"]
       /\ data'[r] = stored["pipeline_data"].readiness /\ next'[r] = next[r]
  BY <1>1, <1>4, <1>5, <1>6 DEF OthersKeep, CallersOK
<1>11. pc'["run"] = pc["run"] /\ ctx'["run"] = ctx["run"] /\ next'["run"] = next["run"]
  BY <1>5, <1>10 DEF OthersKeep
<1>12. Shape'
  BY <1>1, <1>5, <1>7, <1>10, <1>11 DEF IInv, Shape, Active, OthersKeep, Callers, Working, Ended
<1>13. StoredIsSound' /\ Outcome' = Outcome
  BY <1>1, QuietStore DEF IInv
<1>14. ResumeHolds(r)'
  BY <1>1, <1>2, <1>3, <1>10, <1>13 DEF ResumeHolds, Active, Paused
<1>15. \A q \in Resumers : ResumeHolds(q)'
  BY <1>1, <1>5, <1>10, <1>14, OthersHold DEF IInv
<1> QED
  BY <1>1, <1>9, <1>11, <1>12, <1>13, <1>15, RunIsOver DEF IInv

\* resume_pipeline applies the selections.
LEMMA ApplyStep ==
  ASSUME IInv, NEW r \in Resumers, ApplySelections(r)
  PROVE  IInv'
<1>1. PICK selected \in SUBSET ctx[r].offered :
        ctx' = [ctx EXCEPT ![r] = Synced(Selected(ctx[r], selected),
                                         FinalStatus(Selected(ctx[r], selected),
                                                     LoadedReadiness(r)))]
  BY DEF ApplySelections, Concluded
<1> DEFINE c == Selected(ctx[r], selected)
           rd == LoadedReadiness(r)
           final == Synced(c, FinalStatus(c, rd))
<1>2. /\ pc[r] = "resuming" /\ pc' = [pc EXCEPT ![r] = "exporting"]
      /\ checkpoints' \in {checkpoints, checkpoints \cup {"after_dashboard_resume"}}
      /\ UNCHANGED <<data, next, gapVars, error, learned, stored>>
  BY DEF ApplySelections
<1>3. r \in Callers /\ "run" \in Callers /\ r # "run"
  BY CallsAssumption DEF Callers
<1>4. CallersOK /\ GapsOK /\ StoreOK /\ learned \in BOOLEAN /\ checkpoints \subseteq Phase
  BY TypeParts DEF IInv
<1>5. /\ ctx[r] \in Context /\ next[r] = 1 /\ pc["run"] \in Ended
      /\ data[r] \in Readiness \cup {None}
  BY <1>2, <1>3, <1>4 DEF IInv, Shape, Active, CallersOK
<1>6. c \in Context /\ c.bucket = "NOT_MEETING_CRITICAL"
  <2> DEFINE matrix == [q \in Questions |->
                          IF q \in selected THEN "partially_answered"
                          ELSE IF q \in ctx[r].offered THEN "blocked"
                          ELSE ctx[r].matrix[q]]
  <2>1. matrix \in [Questions -> MatrixValue]
    BY <1>5, ContextFields DEF MatrixValue
  <2>2. c = [ctx[r] EXCEPT !.bucket = "NOT_MEETING_CRITICAL",
                           !.lastCheckpoint = "after_dashboard_resume",
                           !.matrix = matrix]
    BY DEF Selected
  <2> HIDE DEF matrix
  <2> QED
    BY <1>5, <2>1, <2>2 DEF Context, Phase, Bucket
<1> HIDE DEF c
<1>7. rd \in Readiness /\ (data[r] = None => ~ rd.usable) /\ (data[r] # None => rd = data[r])
  BY <1>5 DEF LoadedReadiness, NoReadiness, Readiness
<1> HIDE DEF rd
<1>8. /\ FinalStatus(c, rd) \in Final
      /\ Earned(final, rd)
  BY <1>6, <1>7, GateEarns DEF Final, Paused
<1>9. /\ final \in Context /\ final.status \in Final /\ final.assessment = final.status
      /\ final.bucket = "NOT_MEETING_CRITICAL"
  BY <1>6, <1>8, SyncedFields DEF Status
<1>10. ctx' = [ctx EXCEPT ![r] = final]
  BY <1>1 DEF c, rd
<1> HIDE DEF final
<1>11. Earned(final, data[r])
  BY <1>7, <1>8 DEF Earned
<1>12. CallersOK' /\ checkpoints' \subseteq Phase
  BY <1>2, <1>3, <1>4, <1>9, <1>10 DEF CallersOK, Phase
<1>13. TypeOK'
  BY <1>2, <1>4, <1>12, TypePartsNext DEF GapsOK, StoreOK, gapVars
<1>14. /\ OthersKeep(r) /\ pc'[r] = "exporting" /\ ctx'[r] = final
       /\ data'[r] = data[r] /\ next'[r] = 1
  BY <1>2, <1>3, <1>4, <1>5, <1>10 DEF OthersKeep, CallersOK
<1>15. pc'["run"] = pc["run"] /\ ctx'["run"] = ctx["run"] /\ next'["run"] = next["run"]
  BY <1>3, <1>14 DEF OthersKeep
<1>16. Shape'
  BY <1>3, <1>5, <1>9, <1>14, <1>15 DEF IInv, Shape, Active, OthersKeep, Callers, Working, Ended
<1>17. Outcome' = Outcome /\ ("after_closure" \in checkpoints' <=> "after_closure" \in checkpoints)
  BY <1>2 DEF Outcome
<1>18. StoredIsSound'
  BY <1>2, <1>17 DEF IInv, StoredIsSound, ReadyIsEarned, PauseCanResume, ContextCommits,
                     PhasesAreCheckpointed, MetaFailed
<1>19. ResumeHolds(r)'
  BY <1>2, <1>9, <1>11, <1>14, <1>17 DEF IInv, ResumeHolds, Active
<1>20. \A q \in Resumers \ {r} : ResumeHolds(q)'
  BY <1>2, <1>3, <1>14, <1>17, OthersHold DEF IInv
<1> QED
  BY <1>5, <1>13, <1>15, <1>16, <1>18, <1>19, <1>20, RunIsOver DEF IInv

\* A write of a resume's export.
LEMMA ResumeWriteStep ==
  ASSUME IInv, NEW r \in Resumers, WriteArtifact(r)
  PROVE  IInv'
<1> DEFINE n == next[r]
           c == ctx[r]
<1>1. TypeOK /\ r \in Callers /\ "run" \in Callers /\ r # "run"
  BY CallsAssumption DEF IInv, Callers
<1>2. pc[r] = "exporting" /\ pc["run"] \in Ended /\ c \in Context
  BY <1>1 DEF WriteArtifact, IInv, Shape, Active, Ended
<1>3. /\ n \in 1 .. 5
      /\ stored'["run_meta"] = IF n = 1 THEN MetaOf(r) ELSE stored["run_meta"]
      /\ stored'["pipeline_data"] = IF n = 3 THEN DataOf(r) ELSE stored["pipeline_data"]
      /\ stored'["run_context"] = IF n = 4 THEN c ELSE stored["run_context"]
  BY <1>1, <1>2, WriteOne
<1>4. /\ TypeOK'
      /\ OthersKeep(r)
      /\ ctx' = ctx /\ data' = data /\ error' = error /\ checkpoints' = checkpoints
      /\ \/ n = 5 /\ pc'[r] = "returned" /\ next'[r] = 5
         \/ n < 5 /\ pc'[r] = "exporting" /\ next'[r] = n + 1
  BY <1>1, <1>2, WriteMoves
<1>5. /\ MetaOf(r) # None /\ MetaOf(r).status = c.status
      /\ DataOf(r) # None /\ DataOf(r).readiness = data[r]
      /\ DataOf(r).assessment = c.assessment
      /\ c # None
  BY <1>1, <1>2, RecordsAreNotNone, NoneIsNoData
<1> HIDE DEF n, c
<1>6. /\ stored["pipeline_data"] # None
      /\ data[r] = stored["pipeline_data"].readiness
      /\ Outcome \in Final \cup {Paused}
      /\ "after_closure" \notin checkpoints
      /\ Outcome = "meeting_ready" => data[r] # None /\ data[r].usable
      /\ c.status \in Final
      /\ c.assessment = c.status
      /\ c.bucket = "NOT_MEETING_CRITICAL"
      /\ Earned(c, data[r])
      /\ n > 1 => stored["run_meta"] # None /\ stored["run_meta"].status # Paused
      /\ n > 3 => stored["pipeline_data"].assessment # Paused
      /\ n > 4 => Outcome \in Final
  BY <1>2 DEF IInv, ResumeHolds, Active, n, c
<1>7. c.status # Paused
  BY <1>6 DEF Final, Paused
<1>8. /\ stored'["run_meta"] # None => stored["run_meta"] # None \/ n = 1
      /\ n >= 1 => stored'["run_meta"] # None /\ stored'["run_meta"].status # Paused
      /\ stored'["pipeline_data"] # None /\ stored'["pipeline_data"].readiness = data[r]
      /\ n >= 3 => stored'["pipeline_data"].assessment # Paused
      /\ stored'["pipeline_data"].assessment
           \in {stored["pipeline_data"].assessment, c.status}
  BY <1>3, <1>5, <1>6, <1>7
<1>9. Outcome' = IF n = 4 THEN c.status ELSE Outcome
  BY <1>3, <1>5 DEF Outcome
<1>10. /\ Outcome' \in Final \cup {Paused}
       /\ n >= 4 => Outcome' \in Final
       /\ Outcome \in Final => Outcome' \in Final
  BY <1>3, <1>6, <1>9
<1>11. Outcome' = "meeting_ready" => data[r] # None /\ data[r].usable
  BY <1>6, <1>9 DEF Earned
<1>12. ResumeHolds(r)'
  <2>1. pc'[r] = "exporting" => n < 5 /\ next'[r] = n + 1
    BY <1>4
  <2>2. pc'[r] = "returned" => n = 5
    BY <1>4
  <2>3. /\ ctx'[r] = c /\ data'[r] = data[r] /\ checkpoints' = checkpoints
        /\ Earned(ctx'[r], data'[r])
    BY <1>4, <1>6 DEF c
  <2> QED
    BY <1>3, <1>4, <1>6, <1>8, <1>10, <1>11, <2>1, <2>2, <2>3 DEF ResumeHolds, Active
<1>13. ASSUME NEW q \in Resumers \ {r}
       PROVE  ResumeHolds(q)'
  <2>1. pc'[q] = pc[q] /\ ctx'[q] = ctx[q] /\ data'[q] = data[q] /\ next'[q] = next[q]
    BY <1>4 DEF OthersKeep, Callers
  <2>2. ResumeHolds(q)
    BY DEF IInv
  <2>3. Active(q) => data[q] = data[r]
    BY <1>6, <2>2 DEF ResumeHolds
  <2>4. Active(q)' <=> Active(q)
    BY <2>1 DEF Active
  <2>5. Earned(ctx[q], data[q]) => Earned(ctx'[q], data'[q])
    BY <2>1
  <2>6. /\ Active(q)' =>
             /\ stored'["pipeline_data"] # None
             /\ data'[q] = stored'["pipeline_data"].readiness
             /\ Outcome' \in Final \cup {Paused}
             /\ "after_closure" \notin checkpoints'
             /\ Outcome' = "meeting_ready" => data'[q] # None /\ data'[q].usable
    BY <1>4, <1>6, <1>8, <1>10, <1>11, <2>1, <2>3, <2>4
  <2>7. stored["pipeline_data"].assessment # Paused
          => stored'["pipeline_data"].assessment # Paused
    BY <1>3, <1>5, <1>6, <1>7
  <2>8. stored'["run_meta"] # None /\ stored'["run_meta"].status # Paused
    BY <1>3, <1>8
  <2> QED
    BY <1>4, <1>10, <2>1, <2>2, <2>4, <2>5, <2>6, <2>7, <2>8 DEF ResumeHolds, Active
<1>14. ReadyIsEarned'
  <2> SUFFICES ASSUME Outcome' = "meeting_ready"
               PROVE  /\ \A q \in Questions \ Exempt :
                           stored'["run_context"].matrix[q] \in {"answered", "partially_answered"}
                      /\ ~ stored'["run_context"].remaining
                      /\ stored'["pipeline_data"].readiness # None
                      /\ stored'["pipeline_data"].readiness.usable
    BY DEF ReadyIsEarned
  <2>1. CASE n = 4
    BY <1>3, <1>6, <1>8, <1>9, <1>11, <2>1 DEF Earned
  <2>2. CASE n # 4
    <3>1. stored'["run_context"] = stored["run_context"] /\ Outcome = "meeting_ready"
      BY <1>3, <1>9, <2>2
    <3> QED
      BY <1>8, <1>11, <3>1 DEF IInv, StoredIsSound, ReadyIsEarned
  <2> QED
    BY <2>1, <2>2
<1>15. PauseCanResume'
  <2>1. Outcome' = Paused => Outcome = Paused
    BY <1>7, <1>9
  <2>2. Outcome = Paused => data[r] # None \/ error # None
    BY <1>6 DEF IInv, StoredIsSound, PauseCanResume
  <2> QED
    BY <1>4, <1>8, <2>1, <2>2 DEF PauseCanResume
<1>16. ContextCommits'
  <2>1. Outcome' \in Final /\ n # 4 => Outcome \in Final
    BY <1>9
  <2>2. Outcome \in Final => stored["pipeline_data"].assessment # Paused
    BY DEF IInv, StoredIsSound, ContextCommits
  <2> QED
    BY <1>3, <1>7, <1>8, <2>1, <2>2 DEF ContextCommits
<1>17. PhasesAreCheckpointed'
  <2>1. {"after_supervisor_brief", "after_first_pass", "after_synthesis",
         "after_finalization"} \subseteq checkpoints'
    BY <1>4, <1>6 DEF IInv, StoredIsSound, PhasesAreCheckpointed
  <2>2. stored'["run_context"].bucket # "AUTO_CLOSE_REQUIRED"
    BY <1>3, <1>6 DEF IInv, StoredIsSound, PhasesAreCheckpointed
  <2> QED
    BY <1>4, <1>6, <2>1, <2>2 DEF PhasesAreCheckpointed
<1>18. StoredIsSound'
  <2>1. Outcome' = Paused => stored'["run_context"].bucket = "USER_DECISION_REQUIRED"
    BY <1>3, <1>7, <1>9 DEF IInv, StoredIsSound
  <2> QED
    BY <1>10, <1>14, <1>15, <1>16, <1>17, <2>1 DEF StoredIsSound
<1>19. pc'["run"] = pc["run"] /\ next'["run"] = next["run"]
  BY <1>1, <1>4 DEF OthersKeep
<1>20. Shape'
  BY <1>1, <1>2, <1>4, <1>19 DEF IInv, Shape, Active, OthersKeep, Callers, Working, Ended
<1> QED
  BY <1>2, <1>4, <1>12, <1>13, <1>18, <1>19, <1>20, RunIsOver DEF IInv

\* resume_pipeline raises.
LEMMA RaiseResumeStep ==
  ASSUME IInv, NEW r \in Resumers, RaiseResume(r)
  PROVE  IInv'
<1>1. /\ pc[r] \in {"resuming", "exporting"} /\ pc' = [pc EXCEPT ![r] = "dead"]
      /\ UNCHANGED <<ctx, data, next, gapVars, error, learned, checkpoints, stored>>
  BY DEF RaiseResume
<1>2. r \in Callers /\ "run" \in Callers /\ r # "run"
  BY CallsAssumption DEF Callers
<1>3. TypeOK'
  BY <1>1, <1>2 DEF IInv, TypeOK, gapVars, Ended
<1>4. OthersKeep(r) /\ pc'[r] = "dead" /\ pc'["run"] = pc["run"]
  BY <1>1, <1>2 DEF IInv, TypeOK, OthersKeep
<1>5. pc["run"] \in Ended
  BY <1>1 DEF IInv, Shape
<1>6. Shape'
  BY <1>1, <1>2, <1>4, <1>5 DEF IInv, Shape, Active, OthersKeep, Callers, Ended, Working
<1>7. StoredIsSound'
  BY <1>1, QuietStore DEF IInv
<1>8. ResumeHolds(r)'
  BY <1>4 DEF ResumeHolds, Active
<1>9. \A q \in Resumers \ {r} : ResumeHolds(q)'
  BY <1>1, <1>2, <1>4, OthersHold DEF IInv
<1> QED
  BY <1>3, <1>4, <1>5, <1>6, <1>7, <1>8, <1>9, RunIsOver DEF IInv

\* The process dies.
LEMMA CrashStep ==
  ASSUME IInv, Crash
  PROVE  IInv'
<1>1. /\ pc' = [a \in Callers |-> IF pc[a] \in Ended \cup {"idle"} THEN pc[a] ELSE "dead"]
      /\ UNCHANGED <<ctx, data, next, gapVars, error, learned, checkpoints, stored>>
  BY DEF Crash
<1>2. "run" \in Callers /\ Resumers \subseteq Callers
  BY DEF Callers
<1>3. TypeOK'
  BY <1>1 DEF IInv, TypeOK, gapVars, Ended
<1>4. pc'["run"] \in Ended
  BY <1>1, <1>2 DEF IInv, Shape, Ended
<1>5. \A r \in Resumers : pc'[r] \in Ended \cup {"idle"}
                          /\ (pc'[r] \in {"idle", "returned"} => pc'[r] = pc[r])
  BY <1>1, <1>2 DEF Ended
<1>6. Shape'
  BY <1>1, <1>4, <1>5 DEF IInv, Shape, Active, Ended, Working
<1>7. StoredIsSound' /\ Outcome' = Outcome
  BY <1>1, QuietStore DEF IInv
<1>8. \A r \in Resumers : ResumeHolds(r)'
  BY <1>5, <1>7 DEF IInv, ResumeHolds, Active, Ended
<1> QED
  BY <1>3, <1>4, <1>6, <1>7, <1>8, RunIsOver DEF IInv

\* Nothing happens.
LEMMA StutterStep ==
  ASSUME IInv, UNCHANGED vars
  PROVE  IInv'
<1>1. TypeOK'
  BY DEF IInv, TypeOK, vars, gapVars
<1>2. Shape' /\ RunHolds' /\ Written' /\ StoredIsSound'
  BY DEF IInv, vars, gapVars, Shape, Active, RunHolds, Earned, Written, StoredIsSound,
         ReadyIsEarned, PauseCanResume, ContextCommits, PhasesAreCheckpointed, Outcome,
         MetaFailed
<1>3. \A r \in Resumers : ResumeHolds(r)'
  BY DEF IInv, vars, ResumeHolds, Active, Earned, Outcome
<1> QED
  BY <1>1, <1>2, <1>3 DEF IInv

(***************************************************************************)
(* The invariant.                                                           *)
(***************************************************************************)
\* The invariant holds before the run.
LEMMA InitHolds ==
  ASSUME Init
  PROVE  IInv
<1>1. /\ pc["run"] = "initialize" /\ ctx["run"] = FreshContext /\ next["run"] = 1
      /\ \A r \in Resumers : pc[r] = "idle" /\ next[r] = 1
      /\ \A f \in Stores : stored[f] = None
      /\ DOMAIN stored = Stores
  BY CallsAssumption, ArtifactNames DEF Init, Callers
<1>2. CallersOK
  BY FreshContextType DEF Init, CallersOK, Working
<1>3. GapsOK
  <2>1. <<>> \in [1 .. 0 -> GapScopes]
    OBVIOUS
  <2>2. 0 \in 0 .. GapBound
    BY BoundsAssumption
  <2> QED
    BY <2>1, <2>2 DEF Init, GapsOK
<1>4. StoreOK
  BY <1>1 DEF StoreOK, Stores
<1>5. TypeOK
  BY <1>2, <1>3, <1>4, TypeParts DEF Init
<1>6. Shape /\ RunHolds /\ Written /\ \A r \in Resumers : ResumeHolds(r)
  BY <1>1, FreshContextType DEF Init, Shape, RunHolds, Written, ResumeHolds, Active,
                                Working, Ended
<1>7. Outcome = "none"
  BY <1>1 DEF Outcome, Stores
<1>8. StoredIsSound
  BY <1>7 DEF StoredIsSound, ReadyIsEarned, PauseCanResume, ContextCommits,
              PhasesAreCheckpointed, Final, Paused
<1> QED
  BY <1>5, <1>6, <1>8 DEF IInv

\* Every step keeps it.
LEMMA StepHolds ==
  ASSUME IInv, [Next]_vars
  PROVE  IInv'
<1>1. CASE RunStep
  BY <1>1, StartSteps, BriefStep, FirstPassStep, AutoCloseStep, SynthesizeStep, FinalizeStep,
     ReportStep, ConsolidateStep, RunWriteStep DEF RunStep
<1>2. CASE Raise
  BY <1>2, RaiseStep
<1>3. ASSUME NEW r \in Resumers, BeginResume(r) \/ ResumeStep(r) \/ RaiseResume(r)
      PROVE  IInv'
  BY <1>3, BeginStep, ApplyStep, ResumeWriteStep, RaiseResumeStep DEF ResumeStep
<1>4. CASE Crash
  BY <1>4, CrashStep
<1>5. CASE UNCHANGED vars
  BY <1>5, StutterStep
<1> QED
  BY <1>1, <1>2, <1>3, <1>4, <1>5 DEF Next

\* So it always holds.
LEMMA Inductive == Spec => []IInv
BY InitHolds, StepHolds, PTL DEF Spec

(***************************************************************************)
(* The theorems.                                                            *)
(***************************************************************************)

\* Whatever the run, its resumes and its crashes do, the state of run_pipeline,
\* of resume_pipeline and of the stored artifacts keeps its types.
THEOREM TypeCorrect == Spec => []TypeOK
<1>1. IInv => TypeOK
  BY DEF IInv
<1> QED
  BY <1>1, Inductive, PTL

\* A run is stored as meeting-ready only with every core question answered, no
\* gap tried in vain, and a usable assessment or the mark of a failure beside it.
THEOREM ReadinessIsEarned == Spec => []ReadyIsEarned
<1>1. IInv => ReadyIsEarned
  BY DEF IInv, StoredIsSound
<1> QED
  BY <1>1, Inductive, PTL

\* Whoever finds a run paused finds the pipeline data a resume reads, whatever
\* died between the writes of the export.
THEOREM PausesCanResume == Spec => []PauseCanResume
<1>1. IInv => PauseCanResume
  BY DEF IInv, StoredIsSound
<1> QED
  BY <1>1, Inductive, PTL

\* The stored context turns final last: from then on neither metadata nor
\* pipeline data show the pause.
THEOREM ContextIsLast == Spec => []ContextCommits
<1>1. IInv => ContextCommits
  BY DEF IInv, StoredIsSound
<1> QED
  BY <1>1, Inductive, PTL

\* A run that is stored with an outcome other than failed has the checkpoint of
\* each phase it went through.
THEOREM OutcomeHasCheckpoints == Spec => []PhasesAreCheckpointed
<1>1. IInv => PhasesAreCheckpointed
  BY DEF IInv, StoredIsSound
<1> QED
  BY <1>1, Inductive, PTL

(***************************************************************************)
(* What a run reports is backed by checkpoints: inductive on top of IInv,    *)
(* with the last checkpoint a run names while it works.                     *)
(***************************************************************************)
Backed ==
  /\ ReportsAreBacked
  /\ pc["run"] \in Working \cup {"exporting"} =>
       ctx["run"].lastCheckpoint \in checkpoints \cup {"none"}

\* A failure is backed if the context that fails is.
LEMMA FailBacks ==
  ASSUME IInv, Backed, NEW c, NEW phase, Fail(c, phase), learned' = learned,
         checkpoints \subseteq checkpoints',
         \/ c.lastCheckpoint \in checkpoints' \cup {"none"}
         \/ phase \in DOMAIN Due /\ c.lastCheckpoint = Due[phase]
  PROVE  Backed'
<1>1. error'.phase = phase /\ error'.lastCheckpoint = c.lastCheckpoint
  BY DEF Fail
<1>2. pc'["run"] = "failing"
  BY DEF Fail, IInv, TypeOK, Callers
<1> QED
  BY <1>1, <1>2 DEF Backed, ReportsAreBacked, Working

\* A phase that ends with its checkpoint is backed, whether or not it is written.
LEMMA CheckpointedBacks ==
  ASSUME IInv, Backed, NEW c, "lastCheckpoint" \in DOMAIN c, NEW phase, NEW goto,
         Checkpointed(c, phase, goto), learned' = learned,
         CurrentPhase \in DOMAIN Due, Due[CurrentPhase] = phase
  PROVE  Backed'
<1> DEFINE named == [c EXCEPT !.lastCheckpoint = phase]
<1>1. named.lastCheckpoint = phase
  OBVIOUS
<1> HIDE DEF named
<1>2. CASE /\ checkpoints' = checkpoints \cup {phase}
           /\ ctx' = [ctx EXCEPT !["run"] = named]
           /\ pc' = [pc EXCEPT !["run"] = goto]
           /\ UNCHANGED <<data, next, error>>
  <2>1. ctx'["run"] = named
    BY <1>2 DEF IInv, TypeOK, Callers
  <2> QED
    BY <1>1, <1>2, <2>1 DEF Backed, ReportsAreBacked
<1>3. CASE Fail(named, CurrentPhase) /\ UNCHANGED checkpoints
  BY <1>1, <1>3, FailBacks
<1> QED
  BY <1>2, <1>3 DEF Checkpointed, named

\* So is a step that changes neither the run's context nor what is learned.
LEMMA QuietBacks ==
  ASSUME Backed, error' = error, learned' = learned, checkpoints \subseteq checkpoints',
         ctx'["run"].lastCheckpoint = ctx["run"].lastCheckpoint,
         pc'["run"] \in Working \cup {"exporting"} => pc["run"] \in Working \cup {"exporting"}
  PROVE  Backed'
BY DEF Backed, ReportsAreBacked

\* The phases of run_pipeline.
LEMMA RunStepBacks ==
  ASSUME IInv, Backed, RunStep
  PROVE  Backed'
<1>1. /\ ctx["run"] \in Context /\ "run" \in Callers
      /\ pc \in [Callers -> Working \cup Ended \cup {"exporting", "failing", "idle", "resuming"}]
      /\ ctx \in [Callers -> Context \cup {None}]
  BY DEF IInv, Shape, TypeOK, Callers
<1>2. "lastCheckpoint" \in DOMAIN ctx["run"]
  BY <1>1 DEF Context
<1>3. CASE Reject \/ Initialize
  <2>1. pc["run"] = "initialize" /\ UNCHANGED <<ctx, error, learned, checkpoints>>
    BY <1>3 DEF Reject, Initialize
  <2> QED
    BY <2>1, QuietBacks DEF Working
<1>4. CASE BuildBrief
  <2> DEFINE named == [ctx["run"] EXCEPT !.lastCheckpoint = "after_supervisor_brief"]
  <2>1. named.lastCheckpoint = "after_supervisor_brief" /\ learned' = learned
    BY <1>2, <1>4 DEF BuildBrief
  <2> HIDE DEF named
  <2>2. CASE /\ checkpoints' = checkpoints \cup {"after_supervisor_brief"}
             /\ ctx' = [ctx EXCEPT !["run"] = named]
             /\ error' = error
    <3>1. ctx'["run"] = named
      BY <1>1, <2>2
    <3> QED
      BY <2>1, <2>2, <3>1 DEF Backed, ReportsAreBacked
  <2>3. CASE /\ checkpoints' \in {checkpoints, checkpoints \cup {"after_supervisor_brief"}}
             /\ Fail(named, "step1_handoff")
    <3>1. "step1_handoff" \in DOMAIN Due /\ Due["step1_handoff"] = "after_supervisor_brief"
      BY DEF Due
    <3> QED
      BY <2>1, <2>3, <3>1, FailBacks
  <2> QED
    BY <1>4, <2>2, <2>3 DEF BuildBrief, named
<1>5. CASE FirstPass
  <2>1. /\ pc["run"] = "first_pass" /\ learned' = learned
        /\ \E matrix, bucket, offered, goto :
             Checkpointed([ctx["run"] EXCEPT !.matrix = matrix, !.bucket = bucket,
                                             !.offered = offered],
                          "after_first_pass", goto)
    BY <1>5 DEF FirstPass
  <2>2. CurrentPhase \in DOMAIN Due /\ Due[CurrentPhase] = "after_first_pass"
    BY <2>1 DEF CurrentPhase, Due
  <2> QED
    BY <1>2, <2>1, <2>2, CheckpointedBacks
<1>6. CASE AutoClose
  <2>1. /\ pc["run"] = "auto_close" /\ learned' = learned
        /\ \E matrix, remaining :
             Checkpointed([ctx["run"] EXCEPT !.matrix = matrix, !.remaining = remaining],
                          "after_closure", "synthesis")
    BY <1>6 DEF AutoClose
  <2>2. CurrentPhase \in DOMAIN Due /\ Due[CurrentPhase] = "after_closure"
    BY <2>1 DEF CurrentPhase, Due
  <2> QED
    BY <1>2, <2>1, <2>2, CheckpointedBacks
<1>7. CASE Synthesize
  <2>1. /\ pc["run"] = "synthesis" /\ learned' = learned
        /\ \E matrix : Checkpointed([ctx["run"] EXCEPT !.matrix = matrix],
                                    "after_synthesis", "finalization")
    BY <1>7 DEF Synthesize, WithSynthesis, gapVars
  <2>2. CurrentPhase \in DOMAIN Due /\ Due[CurrentPhase] = "after_synthesis"
    BY <2>1 DEF CurrentPhase, Due
  <2> QED
    BY <1>2, <2>1, <2>2, CheckpointedBacks
<1>8. CASE Finalize
  <2>1. /\ pc["run"] = "finalization" /\ UNCHANGED <<error, learned, checkpoints>>
        /\ \E s : ctx'["run"] = Synced(ctx["run"], s)
    BY <1>1, <1>8 DEF Finalize, Concluded
  <2>2. ctx'["run"].lastCheckpoint = ctx["run"].lastCheckpoint
    BY <1>1, <2>1 DEF Synced, Context
  <2> QED
    BY <2>1, <2>2, QuietBacks DEF Working
<1>9. CASE Report
  <2>1. /\ pc["run"] = "report_and_export" /\ learned' = learned
        /\ Checkpointed(ctx["run"], "after_finalization", "consolidate")
    BY <1>9 DEF Report
  <2>2. CurrentPhase \in DOMAIN Due /\ Due[CurrentPhase] = "after_finalization"
    BY <2>1 DEF CurrentPhase, Due
  <2> QED
    BY <1>2, <2>1, <2>2, CheckpointedBacks
<1>10. CASE Consolidate
  <2>1. pc["run"] = "consolidate" /\ UNCHANGED <<ctx, error, checkpoints>>
    BY <1>10 DEF Consolidate
  <2>2. "after_finalization" \in checkpoints
    BY <2>1 DEF IInv, Written
  <2> QED
    BY <2>1, <2>2 DEF Backed, ReportsAreBacked, Working
<1>11. CASE WriteArtifact("run")
  <2>1. /\ UNCHANGED <<ctx, error, learned, checkpoints>>
        /\ pc'["run"] \in {pc["run"], "returned"}
    BY <1>1, <1>11 DEF WriteArtifact
  <2> QED
    BY <2>1, QuietBacks DEF Working
<1> QED
  BY <1>3, <1>4, <1>5, <1>6, <1>7, <1>8, <1>9, <1>10, <1>11 DEF RunStep

\* Every step.
LEMMA StepBacks ==
  ASSUME IInv, Backed, [Next]_vars
  PROVE  Backed'
<1>1. /\ ctx["run"] \in Context /\ "run" \in Callers
      /\ pc \in [Callers -> Working \cup Ended \cup {"exporting", "failing", "idle", "resuming"}]
      /\ ctx \in [Callers -> Context \cup {None}]
  BY DEF IInv, Shape, TypeOK, Callers
<1>2. CASE Raise
  <2>1. CASE pc["run"] \in Working \cup {"exporting"} /\ Fail(ctx["run"], CurrentPhase)
    BY <1>2, <2>1, FailBacks DEF Raise, Backed
  <2>2. CASE pc["run"] = "failing" /\ pc' = [pc EXCEPT !["run"] = "dead"]
             /\ UNCHANGED <<ctx, data, next, error>>
    BY <1>1, <1>2, <2>2, QuietBacks DEF Raise, Working
  <2> QED
    BY <1>2, <2>1, <2>2 DEF Raise
<1>3. ASSUME NEW r \in Resumers, BeginResume(r) \/ ResumeStep(r) \/ RaiseResume(r)
      PROVE  Backed'
  <2>1. r # "run"
    BY CallsAssumption
  <2>2. /\ error' = error /\ learned' = learned /\ checkpoints \subseteq checkpoints'
        /\ ctx'["run"] = ctx["run"]
        /\ pc'["run"] = pc["run"]
    BY <1>1, <1>3, <2>1 DEF BeginResume, LoadRun, ResumeStep, ApplySelections, WriteArtifact,
                            RaiseResume
  <2> QED
    BY <2>2, QuietBacks
<1>4. CASE Crash
  <2>1. /\ UNCHANGED <<ctx, error, learned, checkpoints>>
        /\ pc'["run"] \in {pc["run"], "dead"}
    BY <1>1, <1>4 DEF Crash
  <2> QED
    BY <2>1, QuietBacks DEF Working
<1>5. CASE UNCHANGED vars
  BY <1>5, QuietBacks DEF vars
<1> QED
  BY <1>2, <1>3, <1>4, <1>5, RunStepBacks DEF Next

\* The failure record of a run names a stored checkpoint or the one due in the
\* phase that failed, and only a checkpointed finalization is learned from.
THEOREM FailuresAreBacked == Spec => []ReportsAreBacked
<1>1. Init => Backed
  BY FreshContextType DEF Init, Backed, ReportsAreBacked, Callers, FreshContext
<1>2. Backed => ReportsAreBacked
  BY DEF Backed
<1> QED
  BY <1>1, <1>2, StepBacks, Inductive, PTL DEF Spec

\* Once a resume has returned, the stored run is decided, however many sessions
\* resumed it.
THEOREM ResumesDecide == Spec => []ResumeDecides
<1>1. IInv => ResumeDecides
  BY DEF IInv, ResumeHolds, ResumeDecides
<1> QED
  BY <1>1, Inductive, PTL

\* Every write of an export to the stored context is a step RunOutcome allows.
LEMMA WriteKeepsPromise ==
  ASSUME IInv, NEW a \in Callers, WriteArtifact(a)
  PROVE  [Promise!Next]_<<Outcome, Deciding>>
<1>1. TypeOK /\ ctx[a] \in Context
  BY DEF IInv, Shape, Active, WriteArtifact, Callers, Ended
<1>2. /\ next[a] \in 1 .. 5
      /\ stored'["run_context"] = IF next[a] = 4 THEN ctx[a] ELSE stored["run_context"]
      /\ ctx[a] # None
  BY <1>1, WriteOne, NoneIsNoData
<1>3. /\ OthersKeep(a)
      /\ pc[a] \in {"exporting", "failing"}
      /\ \/ next[a] = 5 /\ pc'[a] = "returned" /\ next'[a] = 5
         \/ next[a] < 5 /\ pc'[a] = pc[a] /\ next'[a] = next[a] + 1
  BY <1>1, WriteMoves
<1>4. Outcome' = IF next[a] = 4 THEN ctx[a].status ELSE Outcome
  BY <1>2 DEF Outcome
<1>5. CASE a = "run"
  <2>1. \A r \in Resumers : pc[r] = "idle" /\ pc'[r] = "idle"
    <3>1. \A r \in Resumers : r \in Callers \ {"run"}
      BY CallsAssumption DEF Callers
    <3> QED
      BY <1>3, <1>5, <3>1, NobodyResumes DEF IInv, OthersKeep, Ended
  <2>2. Deciding = {} /\ Deciding' = {}
    BY <2>1 DEF Deciding
  <2>3. CASE next[a] # 4
    BY <1>4, <2>2, <2>3
  <2>4. CASE next[a] = 4 /\ pc["run"] = "exporting"
    <3>1. Outcome = "none" /\ ctx["run"].status \in Final \cup {Paused}
      BY <2>4, <1>5 DEF IInv, RunHolds, Outcome
    <3> QED
      BY <1>4, <1>5, <2>2, <2>4, <3>1
         DEF Promise!Next, Promise!Settle, Promise!Final, Promise!Paused, Final, Paused
  <2>5. CASE next[a] = 4 /\ pc["run"] = "failing"
    <3>1. Outcome \in {"none", "failed", Paused} \cup Final /\ ctx["run"].status = "failed"
      BY <2>5 DEF IInv, RunHolds, StoredIsSound
    <3> QED
      BY <1>4, <1>5, <2>2, <2>5, <3>1
         DEF Promise!Next, Promise!Settle, Promise!Fail, Promise!Final, Promise!Paused,
             Final, Paused
  <2> QED
    BY <1>3, <1>5, <2>3, <2>4, <2>5
<1>6. CASE a # "run"
  <2>1. a \in Resumers
    BY <1>6 DEF Callers
  <2>2. pc[a] = "exporting" /\ ctx[a].status \in Final
    BY <1>3, <2>1 DEF IInv, Shape, ResumeHolds, Ended
  <2>3. \A r \in Resumers \ {a} : pc'[r] = pc[r] /\ next'[r] = next[r]
    BY <1>3 DEF OthersKeep, Callers
  <2>4. a \in Deciding <=> next[a] <= 4
    BY <2>1, <2>2 DEF Deciding
  <2>5. a \in Deciding' <=> next[a] < 4
    BY <1>2, <1>3, <2>1, <2>2 DEF Deciding
  <2>6. \A r \in Resumers \ {a} : r \in Deciding' <=> r \in Deciding
    BY <2>3 DEF Deciding
  <2>7. Deciding \subseteq Resumers /\ Deciding' \subseteq Resumers
    BY DEF Deciding
  <2>8. CASE next[a] = 4
    <3>1. a \in Deciding /\ Deciding' = Deciding \ {a}
      BY <2>4, <2>5, <2>6, <2>7, <2>8
    <3>2. Promise!Decide(a)
      BY <1>4, <2>2, <2>8, <3>1 DEF Promise!Decide, Promise!Final, Final
    <3> QED
      BY <2>1, <3>2 DEF Promise!Next
  <2>9. CASE next[a] # 4
    <3>1. Deciding' = Deciding
      BY <1>2, <2>4, <2>5, <2>6, <2>7, <2>9
    <3> QED
      BY <1>4, <2>9, <3>1
  <2> QED
    BY <2>8, <2>9
<1> QED
  BY <1>5, <1>6

\* So is every other step: it begins a resume, abandons some, or shows nothing.
LEMMA StepKeepsPromise ==
  ASSUME IInv, [Next]_vars
  PROVE  [Promise!Next]_<<Outcome, Deciding>>
<1>1. ASSUME UNCHANGED <<stored, next>>, \A r \in Resumers : pc'[r] = pc[r]
      PROVE  UNCHANGED <<Outcome, Deciding>>
  BY <1>1 DEF Outcome, Deciding
<1>2. ASSUME NEW r \in Resumers, BeginResume(r)
      PROVE  Promise!Begin(r)
  <2>1. /\ pc[r] = "idle" /\ next[r] = 1 /\ Outcome = Paused
        /\ pc' = [pc EXCEPT ![r] = "resuming"] /\ next' = next /\ Outcome' = Outcome
    <3>1. Outcome = Paused
      BY <1>2 DEF BeginResume, LoadRun, Outcome
    <3>2. stored["pipeline_data"] # None
      BY <3>1 DEF IInv, StoredIsSound, PauseCanResume
    <3> QED
      BY <1>2, <3>1, <3>2 DEF BeginResume, LoadRun, IInv, Shape, Outcome
  <2>2. r \notin Deciding /\ Deciding' = Deciding \cup {r}
    <3>1. /\ pc'[r] = "resuming" /\ next'[r] = 1
          /\ \A q \in Resumers \ {r} : pc'[q] = pc[q] /\ next'[q] = next[q]
      BY <2>1 DEF IInv, TypeOK, Callers
    <3> QED
      BY <2>1, <3>1 DEF Deciding
  <2> QED
    BY <2>1, <2>2 DEF Promise!Begin, Promise!Paused, Paused
<1>3. ASSUME Outcome' = Outcome, next' = next,
             \A r \in Resumers : Active(r)' => Active(r)
      PROVE  Promise!Abandon
  BY <1>3 DEF Promise!Abandon, Deciding, Active
<1>4. CASE RunStep \/ Raise
  <2>1. CASE WriteArtifact("run")
    BY <2>1, WriteKeepsPromise DEF Callers
  <2>2. CASE ~ WriteArtifact("run")
    <3>1. /\ stored' = stored
          /\ \A r \in Resumers : pc'[r] = pc[r] /\ next'[r] = next[r]
      <4>1. \A r \in Resumers : r \in Callers \ {"run"}
        BY CallsAssumption DEF Callers
      <4>2. /\ stored' = stored
            /\ \E p : pc' = [pc EXCEPT !["run"] = p]
            /\ \E i : next' = [next EXCEPT !["run"] = i] \/ next' = next
        <5>0. ASSUME NEW c, NEW phase, NEW goto, Checkpointed(c, phase, goto)
              PROVE  /\ \E p : pc' = [pc EXCEPT !["run"] = p]
                     /\ \E i : next' = [next EXCEPT !["run"] = i] \/ next' = next
          BY <5>0 DEF Checkpointed, Fail
        <5>1. CASE Reject
          BY <5>1 DEF Reject
        <5>2. CASE Initialize
          BY <5>2 DEF Initialize, Fail, Checkpointed
        <5>3. CASE BuildBrief
          BY <5>3 DEF BuildBrief, Fail, Checkpointed
        <5>4. CASE FirstPass
          <6>1. stored' = stored /\ \E c, phase, goto : Checkpointed(c, phase, goto)
            BY <5>4 DEF FirstPass
          <6> QED
            BY <5>0, <6>1
        <5>5. CASE AutoClose
          BY <5>5 DEF AutoClose, Fail, Checkpointed
        <5>6. CASE Synthesize
          BY <5>6 DEF Synthesize, Fail, Checkpointed
        <5>7. CASE Finalize
          BY <5>7 DEF Finalize, Fail, Checkpointed
        <5>8. CASE Report
          BY <5>8 DEF Report, Fail, Checkpointed
        <5>9. CASE Consolidate
          BY <5>9 DEF Consolidate, Fail, Checkpointed
        <5>10. CASE Raise
          BY <5>10 DEF Raise, Fail
        <5> QED
          BY <1>4, <2>2, <5>1, <5>2, <5>3, <5>4, <5>5, <5>6, <5>7, <5>8, <5>9, <5>10 DEF RunStep
      <4> QED
        BY <4>1, <4>2 DEF IInv, TypeOK
    <3>2. Outcome' = Outcome /\ Deciding' = Deciding
      BY <3>1 DEF Outcome, Deciding
    <3> QED
      BY <3>2
  <2> QED
    BY <2>1, <2>2
<1>5. ASSUME NEW r \in Resumers, BeginResume(r) \/ ResumeStep(r) \/ RaiseResume(r)
      PROVE  [Promise!Next]_<<Outcome, Deciding>>
  <2>1. CASE BeginResume(r)
    BY <1>2, <2>1 DEF Promise!Next
  <2>2. CASE WriteArtifact(r)
    BY <2>2, WriteKeepsPromise DEF Callers
  <2>3. CASE ApplySelections(r)
    <3>1. /\ pc[r] = "resuming" /\ pc' = [pc EXCEPT ![r] = "exporting"]
          /\ Outcome' = Outcome /\ next' = next
      BY <2>3 DEF ApplySelections, Outcome
    <3>2. \A q \in Resumers : Active(q)' => Active(q)
      BY <3>1 DEF Active, IInv, TypeOK, Callers
    <3> QED
      BY <1>3, <3>1, <3>2 DEF Promise!Next
  <2>4. CASE RaiseResume(r)
    <3>1. /\ pc' = [pc EXCEPT ![r] = "dead"] /\ Outcome' = Outcome /\ next' = next
      BY <2>4 DEF RaiseResume, Outcome
    <3>2. \A q \in Resumers : Active(q)' => Active(q)
      BY <3>1 DEF Active, IInv, TypeOK, Callers
    <3> QED
      BY <1>3, <3>1, <3>2 DEF Promise!Next
  <2> QED
    BY <1>5, <2>1, <2>2, <2>3, <2>4 DEF ResumeStep
<1>6. CASE Crash
  <2>1. Outcome' = Outcome /\ next' = next
    BY <1>6 DEF Crash, Outcome
  <2>2. \A q \in Resumers : Active(q)' => Active(q)
    BY <1>6 DEF Crash, Active, Callers, Ended
  <2> QED
    BY <1>3, <2>1, <2>2 DEF Promise!Next
<1>7. CASE UNCHANGED vars
  BY <1>1, <1>7 DEF vars
<1> QED
  BY <1>4, <1>5, <1>6, <1>7 DEF Next

\* The stored outcome of a run, whatever crashes and however many sessions resume
\* it, settles once, is decided only by calls that found it paused, and never
\* pauses again: run_pipeline and resume_pipeline implement RunOutcome.
THEOREM RunKeepsPromise == Spec => ImplementsOutcome
<1>1. Init => Promise!Init
  <2>1. ASSUME Init PROVE Outcome = "none" /\ Deciding = {}
    <3>1. stored["run_context"] = None /\ \A r \in Resumers : pc[r] = "idle"
      BY <2>1, ArtifactNames, CallsAssumption DEF Init, Stores, Callers
    <3> QED
      BY <3>1 DEF Outcome, Deciding
  <2> QED
    BY <2>1 DEF Promise!Init
<1>2. IInv /\ [Next]_vars => [Promise!Next]_<<Outcome, Deciding>>
  BY StepKeepsPromise
<1> QED
  BY <1>1, <1>2, Inductive, PTL DEF Spec, ImplementsOutcome, Promise!Spec

\* A stored pause can be resumed, and a resume decides the run for every reader
\* (export_run, resume_pipeline).
THEOREM ResumesSafe == Spec => []ResumesAreSafe
BY PausesCanResume, ContextIsLast, ResumesDecide, PTL DEF ResumesAreSafe

\* Outcomes and failures claim no phase that the checkpoints do not show
\* (_write_checkpoint).
THEOREM RecordsBacked == Spec => []RecordsAreBacked
BY OutcomeHasCheckpoints, FailuresAreBacked, PTL DEF RecordsAreBacked
=============================================================================
