---------------------------- MODULE RunLifecycle ----------------------------
(***************************************************************************)
(* A run from intake to export, and its resumption (pipeline_runner.py):    *)
(* run_pipeline phase by phase, the checkpoints between the phases, the      *)
(* readiness gate, the export artifact by artifact, the error export, and    *)
(* resume_pipeline, which works on what was exported.                        *)
(*                                                                         *)
(* No transaction surrounds a checkpoint or an export, any call may raise,   *)
(* and the process may die.  What the first round leaves behind is any       *)
(* matrix, any gaps, any verdict (SupervisorLoop says which); what synthesis *)
(* and the assessment of the sections find is free within the bounds of      *)
(* assess_research_readiness.                                                *)
(***************************************************************************)
EXTENDS Naturals, Sequences, FiniteSets, Packages

CONSTANTS Questions,           \* the meeting questions
          SynthesisQuestions,  \* those only the synthesis tasks cover
          Exempt,              \* those the readiness gate does not insist on
          GapScopes,           \* the sets of questions a gap may be about
          GapBound,            \* bound: the public gaps of a first round
          MaxQuestions,        \* the gaps one auto-close pass attempts
          MinAnswered,         \* answers that outweigh weak evidence
          Resumers,            \* calls of resume_pipeline
          Production           \* the storage profile: database, or else files

ASSUME QuestionsAssumption ==
  /\ SynthesisQuestions \subseteq Exempt
  /\ Exempt \subseteq Questions
  /\ IsFiniteSet(Questions)
  /\ GapScopes \subseteq SUBSET (Questions \ SynthesisQuestions)

ASSUME BoundsAssumption ==
  /\ GapBound \in Nat
  /\ MaxQuestions \in Nat
  /\ MinAnswered \in Nat

ASSUME CallsAssumption ==
  /\ "run" \notin Resumers
  /\ Production \in BOOLEAN

VARIABLES
  pc,           \* caller -> where its call is
  ctx,          \* caller -> its run_context, None before it has one
  data,         \* caller -> the readiness in its pipeline_data, None if empty
  next,         \* caller -> the artifact its export writes next
  gaps,         \* the public gaps of the first round: what each is about
  open,         \* those no follow-up has resolved
  error,        \* how the run failed, None if it did not
  learned,      \* patterns of the run are in the long-term memory
  checkpoints,  \* the phases whose checkpoint is stored
  stored        \* artifact -> its stored content, None if there is none

gapVars == <<gaps, open>>
vars == <<pc, ctx, data, next, gapVars, error, learned, checkpoints, stored>>

Callers == {"run"} \cup Resumers

Final == {"meeting_ready", "discovery_ready_not_execution_ready",
          "blocked_not_meeting_ready"}
Paused == "needs_user_selection"
Status == Final \cup {"running", Paused, "failed"}

Phase == {"after_supervisor_brief", "after_first_pass", "after_closure",
          "after_synthesis", "after_finalization", "after_dashboard_resume"}

Context ==
  [status         : Status,
   matrix         : [Questions -> MatrixValue],
   bucket         : Bucket \cup {"none"},
   offered        : SUBSET Questions,     \* unresolved_matrix_questions
   remaining      : BOOLEAN,              \* remaining_public_gaps is not empty
   assessment     : Status,               \* meeting_readiness_assessment.run_status
   briefing       : Status \cup {"none"}, \* final_briefing.status
   lastCheckpoint : Phase \cup {"none"}]

\* empty_pipeline_data()
NoReadiness == [usable |-> FALSE, discovery |-> FALSE, weak |-> TRUE,
                public |-> FALSE, internal |-> FALSE]

\* Mutant: the context is written first.
ContextFirst == <<"run_context", "run_meta", "chat_history", "pipeline_data", "snapshots">>

\* The order of export_run; step_trace and memory_snapshot are one here.
Artifacts == <<"run_meta", "chat_history", "pipeline_data", "run_context", "snapshots">>

Working == {"initialize", "supervisor_brief", "first_pass", "auto_close",
            "synthesis", "finalization", "report_and_export", "consolidate"}
Ended == {"returned", "dead"}

(***************************************************************************)
(* A caller starts.  The answer matrix counts as pending before the brief    *)
(* builds it: nothing reads it earlier.                                      *)
(***************************************************************************)
FreshContext ==
  [status |-> "running", matrix |-> [q \in Questions |-> "pending"],
   bucket |-> "none", offered |-> {}, remaining |-> FALSE,
   assessment |-> "running", briefing |-> "none", lastCheckpoint |-> "none"]

Init ==
  /\ pc = [a \in Callers |-> IF a = "run" THEN "initialize" ELSE "idle"]
  /\ ctx = [a \in Callers |-> IF a = "run" THEN FreshContext ELSE None]
  /\ data = [a \in Callers |-> None]
  /\ next = [a \in Callers |-> 1]
  /\ gaps = <<>>
  /\ open = {}
  /\ error = None
  /\ learned = FALSE
  /\ checkpoints = {}
  /\ stored = [f \in {Artifacts[i] : i \in DOMAIN Artifacts} |-> None]

(***************************************************************************)
(* The readiness gate and the final status.                                 *)
(***************************************************************************)
\* Mutant: only a pending question is open.
OpenCorePendingOnly(c) == {q \in Questions \ Exempt : c.matrix[q] = "pending"}

OpenCore(c) == {q \in Questions \ Exempt : c.matrix[q] \in {"pending", "blocked"}}
Answered(c) == {q \in Questions : c.matrix[q] \in {"answered", "partially_answered"}}

PublicHardBlockers(c, rd) ==
  \/ c.remaining
  \/ OpenCore(c) # {}
  \/ (~ rd.usable \/ rd.weak) /\ Cardinality(Answered(c)) < MinAnswered
  \/ rd.public

\* MeetingReadinessGate.evaluate.  It is never called with a selection still
\* pending: the dashboard state is set after the run's call and cleared
\* before the resume's.
GateStatus(c, rd) ==
  IF rd.usable /\ ~ PublicHardBlockers(c, rd) /\ ~ rd.internal
  THEN "meeting_ready"
  ELSE IF rd.discovery /\ ~ PublicHardBlockers(c, rd) /\ rd.internal
  THEN "discovery_ready_not_execution_ready"
  ELSE "blocked_not_meeting_ready"

\* determine_final_status, and the gate's word where it is not ready.
FinalStatus(c, rd) ==
  IF c.bucket = "USER_DECISION_REQUIRED" THEN Paused ELSE GateStatus(c, rd)

\* _sync_finalization_artifacts puts one status everywhere.
Synced(c, status) ==
  [c EXCEPT !.status = status, !.assessment = status, !.briefing = status]

\* The gate's assessment, the final status and the artifacts that carry it.
Concluded(c, rd) == Synced(c, FinalStatus(c, rd))

(***************************************************************************)
(* What every phase may do: write its checkpoint, or raise.                 *)
(***************************************************************************)
CurrentPhase ==
  IF pc["run"] \in {"consolidate", "exporting"} THEN "report_and_export" ELSE pc["run"]

\* _pipeline_error_result, up to its export: the context c fails in phase.
Fail(c, phase) ==
  /\ error' = [phase |-> phase, lastCheckpoint |-> c.lastCheckpoint]
  /\ ctx' = [ctx EXCEPT !["run"] = [c EXCEPT !.status = "failed"]]
  /\ data' = [data EXCEPT !["run"] = None]
  /\ pc' = [pc EXCEPT !["run"] = "failing"]
  /\ next' = [next EXCEPT !["run"] = 1]

\* Mutant: a checkpoint that could not be written does not stop the run.
CheckpointedIfPossible(c, phase, goto) ==
  /\ checkpoints' \in {checkpoints, checkpoints \cup {phase}}
  /\ ctx' = [ctx EXCEPT !["run"] = [c EXCEPT !.lastCheckpoint = phase]]
  /\ pc' = [pc EXCEPT !["run"] = goto]
  /\ UNCHANGED <<data, next, error>>

\* The phase leaves context c and calls _write_checkpoint, which names the
\* checkpoint before it writes it and lets the error of a failed write through.
\* What raises after the write counts as raised by the next phase.
Checkpointed(c, phase, goto) ==
  LET named == [c EXCEPT !.lastCheckpoint = phase]
  IN \/ /\ checkpoints' = checkpoints \cup {phase}
        /\ ctx' = [ctx EXCEPT !["run"] = named]
        /\ pc' = [pc EXCEPT !["run"] = goto]
        /\ UNCHANGED <<data, next, error>>
     \/ /\ Fail(named, CurrentPhase)
        /\ UNCHANGED checkpoints

(***************************************************************************)
(* run_pipeline.                                                            *)
(***************************************************************************)

\* Intake, agent factory or storage check refuse: a result, nothing stored.
Reject ==
  /\ pc["run"] = "initialize"
  /\ pc' = [pc EXCEPT !["run"] = "returned"]
  /\ UNCHANGED <<ctx, data, next, gapVars, error, learned, checkpoints, stored>>

Initialize ==
  /\ pc["run"] = "initialize"
  /\ pc' = [pc EXCEPT !["run"] = "supervisor_brief"]
  /\ UNCHANGED <<ctx, data, next, gapVars, error, learned, checkpoints, stored>>

\* A handoff that is not valid, be it for a checkpoint that was not written,
\* is to be reported as such; but the report is called with arguments it does
\* not take, and the TypeError is handled like any other.
BuildBrief ==
  /\ pc["run"] = "supervisor_brief"
  /\ LET named == [ctx["run"] EXCEPT !.lastCheckpoint = "after_supervisor_brief"]
     IN \/ /\ checkpoints' = checkpoints \cup {"after_supervisor_brief"}
           /\ ctx' = [ctx EXCEPT !["run"] = named]
           /\ pc' = [pc EXCEPT !["run"] = "first_pass"]
           /\ UNCHANGED <<data, next, error>>
        \/ /\ checkpoints' \in {checkpoints, checkpoints \cup {"after_supervisor_brief"}}
           /\ Fail(named, "step1_handoff")
  /\ UNCHANGED <<gapVars, learned, stored>>

\* The first round leaves a matrix without the answers of synthesis, gaps, and
\* the verdict of the classification.
FirstPass ==
  /\ pc["run"] = "first_pass"
  /\ \E core \in [Questions \ SynthesisQuestions -> MatrixValue],
        found \in UNION {[1 .. n -> GapScopes] : n \in 0 .. GapBound},
        blocking, contactGaps \in BOOLEAN :
       LET matrix == [q \in Questions |->
                        IF q \in SynthesisQuestions THEN "pending" ELSE core[q]]
           unresolved == {q \in Questions : matrix[q] \in {"pending", "blocked"}}
           bucket == Classified(blocking, found # <<>>, contactGaps, unresolved # {})
       IN /\ gaps' = found
          /\ open' = DOMAIN found
          /\ Checkpointed([ctx["run"] EXCEPT !.matrix = matrix, !.bucket = bucket,
                                             !.offered = unresolved],
                          "after_first_pass",
                          IF bucket = "AUTO_CLOSE_REQUIRED" THEN "auto_close" ELSE "synthesis")
  /\ UNCHANGED <<learned, stored>>

\* run_bounded_follow_up: the gaps within the budget are attempted, and what is
\* left of those remains.
Attempted == {i \in DOMAIN gaps : i <= MaxQuestions}

\* The questions of resolved gaps, so far open or partial, become partial.
Credited(matrix, resolved) ==
  [q \in Questions |->
     IF /\ \E i \in resolved : q \in gaps[i]
        /\ matrix[q] \in {"pending", "blocked", "partially_answered"}
     THEN "partially_answered"
     ELSE matrix[q]]

AutoClose ==
  /\ pc["run"] = "auto_close"
  /\ \E resolved \in SUBSET Attempted :
       /\ open' = open \ resolved
       /\ Checkpointed([ctx["run"] EXCEPT !.matrix = Credited(@, resolved),
                                          !.remaining = Attempted \ resolved # {}],
                       "after_closure", "synthesis")
  /\ UNCHANGED <<gaps, learned, stored>>

\* The synthesis tasks' own questions take their status.
WithSynthesis(matrix, status) ==
  [q \in Questions |-> IF q \in SynthesisQuestions THEN MatrixStatus(status) ELSE matrix[q]]

\* The synthesis tasks end accepted or degraded, even if synthesis is rejected.
Synthesize ==
  /\ pc["run"] = "synthesis"
  /\ \E status \in {"accepted", "degraded"} :
       Checkpointed([ctx["run"] EXCEPT !.matrix = WithSynthesis(@, status)],
                    "after_synthesis", "finalization")
  /\ UNCHANGED <<gapVars, learned, stored>>

Finalize ==
  /\ pc["run"] = "finalization"
  /\ \E rd \in Readiness :
       /\ data' = [data EXCEPT !["run"] = rd]
       /\ ctx' = [ctx EXCEPT !["run"] = Concluded(@, rd)]
  /\ pc' = [pc EXCEPT !["run"] = "report_and_export"]
  /\ UNCHANGED <<next, gapVars, error, learned, checkpoints, stored>>

Report ==
  /\ pc["run"] = "report_and_export"
  /\ Checkpointed(ctx["run"], "after_finalization", "consolidate")
  /\ UNCHANGED <<gapVars, learned, stored>>

\* Patterns of a whole run that is ready and usable, or of single accepted
\* tasks of a run that is not paused.
Consolidate ==
  /\ pc["run"] = "consolidate"
  /\ learned' \in BOOLEAN
  /\ learned' => ctx["run"].status \in Final
  /\ pc' = [pc EXCEPT !["run"] = "exporting"]
  /\ UNCHANGED <<ctx, data, next, gapVars, error, checkpoints, stored>>

\* Mutant: an error export that raises is started again.
RaiseAndRetry ==
  /\ pc["run"] \in Working \cup {"exporting", "failing"}
  /\ Fail(ctx["run"], "report_and_export")
  /\ UNCHANGED <<gapVars, learned, checkpoints, stored>>

\* Any call of a phase may raise, and what raises out of the export of an
\* error leaves run_pipeline.
Raise ==
  /\ \/ /\ pc["run"] \in Working \cup {"exporting"}
        /\ Fail(ctx["run"], CurrentPhase)
     \/ /\ pc["run"] = "failing"
        /\ pc' = [pc EXCEPT !["run"] = "dead"]
        /\ UNCHANGED <<ctx, data, next, error>>
  /\ UNCHANGED <<gapVars, learned, checkpoints, stored>>

(***************************************************************************)
(* export_run, of the run, of its failure, and of a resume.                 *)
(***************************************************************************)

\* A resume exports no messages.
Content(a) ==
  [run_meta      |-> [status |-> ctx[a].status, assessment |-> ctx[a].assessment],
   chat_history  |-> [trace |-> a = "run"],
   pipeline_data |-> [readiness |-> data[a], assessment |-> ctx[a].assessment,
                      briefing |-> ctx[a].briefing],
   run_context   |-> ctx[a],
   snapshots     |-> [of |-> ctx[a].status]]

\* One file replaced, or one row inserted; readers take the latest.
WriteArtifact(a) ==
  /\ pc[a] \in {"exporting", "failing"}
  /\ LET f == Artifacts[next[a]]
     IN stored' = [stored EXCEPT ![f] = Content(a)[f]]
  /\ IF next[a] = Len(Artifacts)
     THEN pc' = [pc EXCEPT ![a] = "returned"] /\ UNCHANGED next
     ELSE next' = [next EXCEPT ![a] = @ + 1] /\ UNCHANGED pc
  /\ UNCHANGED <<ctx, data, gapVars, error, learned, checkpoints>>

(***************************************************************************)
(* resume_pipeline.  The user interface offers it for a run that has ended   *)
(* and is stored as paused; each session that shows the run may call it.     *)
(***************************************************************************)

\* The call reads context and pipeline data of the ended run.
LoadRun(r) ==
  /\ pc[r] = "idle"
  /\ pc["run"] \in Ended
  /\ stored["run_context"] # None
  /\ ctx' = [ctx EXCEPT ![r] = stored["run_context"]]
  /\ IF stored["pipeline_data"] = None
     THEN pc' = [pc EXCEPT ![r] = "dead"] /\ UNCHANGED data
     ELSE /\ pc' = [pc EXCEPT ![r] = "resuming"]
          /\ data' = [data EXCEPT ![r] = stored["pipeline_data"].readiness]
  /\ UNCHANGED <<next, gapVars, error, learned, checkpoints, stored>>

\* A call that finds the run not paused returns without effect.
BeginResume(r) == LoadRun(r) /\ stored["run_context"].status = Paused

LoadedReadiness(r) == IF data[r] = None THEN NoReadiness ELSE data[r]

\* Every offered question is selected or skipped.
Selected(c, selected) ==
  [c EXCEPT !.bucket = "NOT_MEETING_CRITICAL",
            !.lastCheckpoint = "after_dashboard_resume",
            !.matrix = [q \in Questions |->
                          IF q \in selected THEN "partially_answered"
                          ELSE IF q \in c.offered THEN "blocked"
                          ELSE @[q]]]

\* The selection, the gate, the checkpoint.  The call has no database store for
\* the checkpoint, and in production there are no files.
ApplySelections(r) ==
  /\ pc[r] = "resuming"
  /\ \E selected \in SUBSET ctx[r].offered :
       LET c == Selected(ctx[r], selected)
       IN ctx' = [ctx EXCEPT ![r] = Concluded(c, LoadedReadiness(r))]
  /\ checkpoints' = IF Production THEN checkpoints
                    ELSE checkpoints \cup {"after_dashboard_resume"}
  /\ pc' = [pc EXCEPT ![r] = "exporting"]
  /\ UNCHANGED <<data, next, gapVars, error, learned, stored>>

\* Nobody catches what a resume raises.
RaiseResume(r) ==
  /\ pc[r] \in {"resuming", "exporting"}
  /\ pc' = [pc EXCEPT ![r] = "dead"]
  /\ UNCHANGED <<ctx, data, next, gapVars, error, learned, checkpoints, stored>>

\* The process dies, and every call in it.
Crash ==
  /\ \E a \in Callers : pc[a] \notin Ended \cup {"idle"}
  /\ pc' = [a \in Callers |-> IF pc[a] \in Ended \cup {"idle"} THEN pc[a] ELSE "dead"]
  /\ UNCHANGED <<ctx, data, next, gapVars, error, learned, checkpoints, stored>>

RunStep ==
  \/ Reject \/ Initialize \/ BuildBrief \/ FirstPass \/ AutoClose \/ Synthesize
  \/ Finalize \/ Report \/ Consolidate \/ WriteArtifact("run")

ResumeStep(r) == ApplySelections(r) \/ WriteArtifact(r)

Next ==
  \/ RunStep
  \/ Raise
  \/ \E r \in Resumers : BeginResume(r) \/ ResumeStep(r) \/ RaiseResume(r)
  \/ Crash

Spec == Init /\ [][Next]_vars

\* A caller is a plain sequence of calls, each of which returns or raises: the
\* thread of a run, and of a resume that began, keeps moving.
FairSpec == Spec /\ WF_vars(RunStep) /\ \A r \in Resumers : WF_vars(ResumeStep(r))

(***************************************************************************)
(* Properties.                                                              *)
(***************************************************************************)

TypeOK ==
  /\ pc \in [Callers -> Working \cup Ended \cup {"exporting", "failing", "idle", "resuming"}]
  /\ ctx \in [Callers -> Context \cup {None}]
  /\ data \in [Callers -> Readiness \cup {None}]
  /\ next \in [Callers -> DOMAIN Artifacts]
  /\ gaps \in UNION {[1 .. n -> GapScopes] : n \in 0 .. GapBound}
  /\ open \subseteq DOMAIN gaps
  /\ error \in [phase : Working \cup {"step1_handoff"},
                lastCheckpoint : Phase \cup {"none"}] \cup {None}
  /\ learned \in BOOLEAN
  /\ checkpoints \subseteq Phase
  /\ DOMAIN stored = {Artifacts[i] : i \in DOMAIN Artifacts}
  /\ stored["run_meta"] \in [status : Status, assessment : Status] \cup {None}
  /\ stored["chat_history"] \in [trace : BOOLEAN] \cup {None}
  /\ stored["pipeline_data"] \in
       [readiness : Readiness \cup {None}, assessment : Status,
        briefing : Status \cup {"none"}] \cup {None}
  /\ stored["run_context"] \in Context \cup {None}
  /\ stored["snapshots"] \in [of : Status] \cup {None}

Outcome == IF stored["run_context"] = None THEN "none" ELSE stored["run_context"].status

MetaFailed == stored["run_meta"] # None /\ stored["run_meta"].status = "failed"

\* A run stored as meeting-ready has no core question pending or blocked, no
\* gap its follow-up tried in vain, and a usable assessment beside it, unless its
\* metadata say that it failed after all: the gate's word survives selections,
\* resumes, crashes and half-written exports (MeetingReadinessGate.evaluate,
\* determine_final_status, export_run).
ReadyIsEarned ==
  Outcome = "meeting_ready" =>
    /\ \A q \in Questions \ Exempt :
         stored["run_context"].matrix[q] \in {"answered", "partially_answered"}
    /\ ~ stored["run_context"].remaining
    /\ \/ MetaFailed
       \/ /\ stored["pipeline_data"].readiness # None
          /\ stored["pipeline_data"].readiness.usable

\* Whoever finds a run paused finds what a resume reads: the pipeline data are
\* stored before the context, and hold the readiness of the run unless its error
\* export died halfway (export_run, resume_pipeline).
PauseCanResume ==
  Outcome = Paused =>
    /\ stored["pipeline_data"] # None
    /\ stored["pipeline_data"].readiness # None \/ error # None

\* The context is what a run is resumed by, so it must turn final last: once
\* it is, metadata and pipeline data no longer show the pause, whatever died
\* between the writes (export_run).
ContextCommits ==
  Outcome \in Final =>
    /\ stored["run_meta"] # None
    /\ stored["run_meta"].status # Paused
    /\ stored["pipeline_data"] # None
    /\ stored["pipeline_data"].assessment # Paused

\* A resume that returned has decided the run (resume_pipeline overrides the
\* bucket for that).
ResumeDecides ==
  (\E r \in Resumers : pc[r] = "returned") => Outcome \in Final

\* A pause is never lost: from what is stored a resume can start, it decides the
\* run, and readers never see the run decided and still waiting (export_run,
\* resume_pipeline).
ResumesAreSafe == PauseCanResume /\ ContextCommits /\ ResumeDecides

\* A run stored with a status other than failed has the checkpoint of each phase
\* it went through, and of the auto-close pass exactly if one was required.
PhasesAreCheckpointed ==
  Outcome \in Final \cup {Paused} =>
    /\ {"after_supervisor_brief", "after_first_pass", "after_synthesis",
        "after_finalization"} \subseteq checkpoints
    /\ stored["run_context"].bucket = "AUTO_CLOSE_REQUIRED"
         <=> "after_closure" \in checkpoints

\* The checkpoint each phase ends with.
Due == [step1_handoff |-> "after_supervisor_brief", first_pass |-> "after_first_pass",
        auto_close |-> "after_closure", synthesis |-> "after_synthesis",
        report_and_export |-> "after_finalization"]

\* What a run reports is backed by checkpoints, whichever write failed: a
\* failure names as the last one a checkpoint that is stored or, since it is named
\* before it is written, the one due in the phase that failed; and patterns are
\* learned only of a run whose finalization is checkpointed (_write_checkpoint,
\* _pipeline_error_result, _assemble_report_and_export).
ReportsAreBacked ==
  /\ error # None =>
       \/ error.lastCheckpoint \in checkpoints \cup {"none"}
       \/ error.phase \in DOMAIN Due /\ error.lastCheckpoint = Due[error.phase]
  /\ learned => "after_finalization" \in checkpoints

\* Neither an outcome nor a failure claims more phases than the checkpoints show,
\* whichever write failed (_write_checkpoint).
RecordsAreBacked == PhasesAreCheckpointed /\ ReportsAreBacked

\* The stored outcome keeps the promises of RunOutcome: settled once, decided by
\* callers that found it paused, never paused again, failed for good.
Deciding ==
  {r \in Resumers : /\ pc[r] \in {"resuming", "exporting"}
                    /\ next[r] <= 4}

Promise == INSTANCE RunOutcome WITH outcome <- Outcome, deciding <- Deciding

ImplementsOutcome == Promise!Spec

\* Every call ends, with a result or with an exception.
CallsEnd == \A a \in Callers : pc[a] \notin Ended \cup {"idle"} ~> pc[a] \in Ended
=============================================================================
