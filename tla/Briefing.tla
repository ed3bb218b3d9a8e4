------------------------------ MODULE Briefing ------------------------------
(***************************************************************************)
(* run_pipeline from the call to the start of the departments               *)
(* (pipeline_runner.py, orchestration/step1_handoff.py): the intake is      *)
(* checked, the agents and the stores are made, the run is created, the     *)
(* Supervisor's brief is built from the homepage, announced and stored in a *)
(* checkpoint, and the handoff decides whether the departments may start.   *)
(* Every call out of the process may fail; what a failure leaves behind and *)
(* what the caller is told is the subject.                                  *)
(***************************************************************************)
EXTENDS IntakeBrief, SequencesExt

CONSTANTS Questions,   \* MEETING_QUESTION_REGISTRY
          MaxFaults,   \* bound: checks an intake fails at once
          Arguments,   \* what the Supervisor gets as the domain
          Production   \* the storage profile

ASSUME BriefingAssumption ==
  /\ MaxFaults \in Nat
  /\ Arguments \subseteq DomainArgument
  /\ Production \in BOOLEAN
  /\ IsFiniteSet(Questions) /\ Questions # {}

None == "none"
NoSite == NoPage(None)
NoBrief == [status |-> None]
NoResult == [phase |-> None, code |-> None, exported |-> FALSE]

VARIABLES
  stage,       \* the call run_pipeline is about to make
  request,     \* the intake: its faults, its name and the domain argument
  site,        \* the snapshot the fetch returned
  context,     \* RunContext
  checkpoint,  \* CheckpointInfo.written of the last write: none, yes, no
  stored,      \* the row of the run and the checkpoints it has
  announced,   \* supervisor events the caller's hook was given
  result       \* the failed result run_pipeline returns

vars == <<stage, request, site, context, checkpoint, stored, announced, result>>

Stage == {"validate", "compose", "open", "create", "retrieve", "fetch", "build",
          "refresh", "announce", "write", "hand over", "rewrite", "rebuild",
          "decide", "fail", "departments", "failed", "raised"}

\* One row of resolution_state["step1_handoff"], as far as it is read.
Allowed == {"ready_for_department_routing", "ready_with_gaps"}
Blocked == "blocked_step1_handoff"
Handoff == Allowed \cup {Blocked, None}

Request == [faults : {f \in SUBSET Fault : Cardinality(f) <= MaxFaults},
            name : SUBSET Words, argument : Arguments]

Init ==
  /\ stage = "validate"
  /\ request \in Request
  /\ site = NoSite
  /\ context = [phase |-> None, status |-> "running", brief |-> NoBrief,
                matrix |-> {}, handoff |-> None, last |-> None]
  /\ checkpoint = None
  /\ stored = [run |-> FALSE, checkpoints |-> <<>>]
  /\ announced = 0
  /\ result = NoResult

-----------------------------------------------------------------------------

\* _failed_intake_result, _failed_factory_result, _failed_storage_result: the
\* caller gets a failed result with a code, and nothing is exported.
Refuse(phase, code) ==
  /\ result' = [phase |-> phase, code |-> code, exported |-> FALSE]
  /\ stage' = "failed"

\* An exception: caught by run_pipeline, which exports the run as failed.
Raise == stage' = "fail" /\ UNCHANGED result

Validate ==
  /\ stage = "validate"
  /\ \/ \E code \in FirstCodes(request.faults) : Refuse("intake_validation", code)
     \/ /\ request.faults = {}
        /\ \E resolution \in Resolution :
             IF resolution = "public"
             THEN stage' = "compose" /\ UNCHANGED result
             ELSE Refuse("intake_validation", ResolutionCode(resolution))
  /\ UNCHANGED <<request, site, context, checkpoint, stored, announced>>

\* The strict validation of the composition, or a constructor that raised.
CompositionErrors == {"none", "incomplete", "crashed"}
Compose ==
  /\ stage = "compose"
  /\ \E error \in CompositionErrors :
       IF error = "none" THEN stage' = "open" /\ UNCHANGED result
       ELSE Refuse("runtime_agent_factory", "agent_factory_failed")
  /\ UNCHANGED <<request, site, context, checkpoint, stored, announced>>

\* Only the production profile has a health to check: without a DSN its stores
\* are the Failed... ones, with one they ask the database.
Health == {"ok"} \cup {h \in {"dsn_missing", "schema_missing", "no_connection"} : Production}
OpenStores ==
  /\ stage = "open"
  /\ \E health \in Health :
       IF health = "ok" THEN stage' = "create" /\ UNCHANGED result
       ELSE Refuse("storage_init", health)
  /\ UNCHANGED <<request, site, context, checkpoint, stored, announced>>

\* The row of the run, for which the local profile has no table.
InsertRun == stored' = [stored EXCEPT !.run = Production]
CreateRun ==
  /\ stage = "create"
  /\ \/ /\ InsertRun
        /\ context' = [context EXCEPT !.phase = "initialized"]
        /\ stage' = "retrieve" /\ UNCHANGED result
     \/ /\ Production
        /\ context' = [context EXCEPT !.phase = "initialize"]
        /\ Raise /\ UNCHANGED stored
  /\ UNCHANGED <<request, site, checkpoint, announced>>

\* The initial retrieval; _build_supervisor_brief begins.  An exception in
\* _initialize_run loses its context: a fresh one is exported.  The row stays.
RetrieveInitial ==
  /\ stage = "retrieve"
  /\ \/ /\ context' = [context EXCEPT !.phase = "supervisor_brief"]
        /\ stage' = "fetch" /\ UNCHANGED result
     \/ context' = [context EXCEPT !.phase = "initialize"] /\ Raise
  /\ UNCHANGED <<request, site, checkpoint, stored, announced>>

\* fetch_website_snapshot catches whatever the fetch raises.
FetchSite ==
  /\ stage = "fetch"
  /\ site' \in Answer
  /\ stage' = "build"
  /\ UNCHANGED <<request, context, checkpoint, stored, announced, result>>

BuildBrief ==
  /\ stage = "build"
  /\ context' = [context EXCEPT
       !.brief = IntakeBrief(request.name, request.argument, site),
       !.matrix = Questions]
  /\ stage' = "refresh"
  /\ UNCHANGED <<request, site, checkpoint, stored, announced, result>>

\* The retrieval with the brief's industry, and one for every role.
Refresh ==
  /\ stage = "refresh"
  /\ \/ stage' = "announce" /\ UNCHANGED result
     \/ Raise
  /\ UNCHANGED <<request, site, context, checkpoint, stored, announced>>

\* The hook is called before the event is kept: when it raises, the caller has
\* seen an event the run does not have.
Announce ==
  /\ stage = "announce"
  /\ announced' = announced + 1
  /\ \/ stage' = "write" /\ UNCHANGED result
     \/ Raise
  /\ UNCHANGED <<request, site, context, checkpoint, stored>>

-----------------------------------------------------------------------------

\* _write_checkpoint: the snapshot names itself first; the file replaces the
\* earlier one of the phase, the database keeps a row per sequence number; the
\* step that reports the write comes last, and any of them may raise.
Snapshot == [brief |-> context.brief, matrix |-> context.matrix,
             handoff |-> context.handoff]
Keep(snapshot) ==
  stored' = [stored EXCEPT !.checkpoints =
               IF Production THEN Append(@, snapshot) ELSE <<snapshot>>]
\* Not written at all, written but not reported, written.
WriteCheckpoint(next, failed) ==
  \/ UNCHANGED stored /\ checkpoint' = "no" /\ stage' = failed
  \/ Keep(Snapshot) /\ checkpoint' = "no" /\ stage' = failed
  \/ Keep(Snapshot) /\ checkpoint' = "yes" /\ stage' = next

\* build_step1_handoff and its validation.
HandoffErrors ==
  {e \in {"supervisor_message_invalid"} : context.brief = NoBrief}
  \cup {e \in {"answer_matrix_invalid"} : context.matrix # Questions}
  \cup {e \in {"checkpoint_write_failed"} : checkpoint # "yes"}
BuildHandoff ==
  CASE HandoffErrors # {} -> Blocked
    [] HandoffErrors = {} /\ context.brief.status = "ready_for_department_routing" ->
         "ready_for_department_routing"
    [] OTHER -> "ready_with_gaps"

Write ==
  /\ stage = "write"
  /\ context' = [context EXCEPT !.last = "after_supervisor_brief"]
  /\ WriteCheckpoint("hand over", "hand over")
  /\ UNCHANGED <<request, site, announced, result>>

\* Mutant: the checkpoint is not written again with the handoff.
HandOverOnce ==
  /\ stage = "hand over"
  /\ context' = [context EXCEPT !.handoff = BuildHandoff]
  /\ stage' = "decide"
  /\ UNCHANGED <<request, site, checkpoint, stored, announced, result>>

\* The handoff enters the context, and only an allowed one is written again.
HandOver ==
  /\ stage = "hand over"
  /\ context' = [context EXCEPT !.handoff = BuildHandoff]
  /\ stage' = IF BuildHandoff \in Allowed THEN "rewrite" ELSE "decide"
  /\ UNCHANGED <<request, site, checkpoint, stored, announced, result>>

Rewrite ==
  /\ stage = "rewrite"
  /\ WriteCheckpoint("rebuild", "rebuild")
  /\ UNCHANGED <<request, site, context, announced, result>>

Rebuild ==
  /\ stage = "rebuild"
  /\ context' = [context EXCEPT !.handoff = BuildHandoff]
  /\ stage' = "decide"
  /\ UNCHANGED <<request, site, checkpoint, stored, announced, result>>

\* Mutant: the early return is missing.
DecideWhenAllowed ==
  /\ stage = "decide"
  /\ context.handoff \in Allowed
  /\ context' = [context EXCEPT !.phase = "first_pass"]
  /\ stage' = "departments"
  /\ UNCHANGED <<request, site, checkpoint, stored, announced, result>>

\* A refused handoff ends the run: the error result is called with arguments it
\* does not have, so it is the TypeError that is exported.
Decide ==
  /\ stage = "decide"
  /\ IF context.handoff \in Allowed
     THEN /\ context' = [context EXCEPT !.phase = "first_pass"]
          /\ stage' = "departments"
     ELSE /\ context' = [context EXCEPT !.phase = "step1_handoff",
                                        !.status = "blocked"]
          /\ stage' = "fail"
  /\ UNCHANGED <<request, site, checkpoint, stored, announced, result>>

\* _pipeline_error_result: no code, the phase of the context; the export itself
\* may raise, and then the caller has no result.
Fail ==
  /\ stage = "fail"
  /\ context' = [context EXCEPT !.status = "failed"]
  /\ \/ /\ result' = [phase |-> context.phase, code |-> None, exported |-> TRUE]
        /\ stage' = "failed"
     \/ stage' = "raised" /\ UNCHANGED result
  /\ UNCHANGED <<request, site, checkpoint, stored, announced>>

Next ==
  \/ Validate \/ Compose \/ OpenStores \/ CreateRun \/ RetrieveInitial
  \/ FetchSite \/ BuildBrief \/ Refresh \/ Announce \/ Write \/ HandOver
  \/ Rewrite \/ Rebuild \/ Decide \/ Fail

Spec == Init /\ [][Next]_vars
\* Every call has a timeout of its own, so run_pipeline goes on.
FairSpec == Spec /\ WF_vars(Next)

-----------------------------------------------------------------------------
(* What must hold.                                                           *)

Phase == {None, "initialize", "initialized", "supervisor_brief", "step1_handoff",
          "first_pass"}
Status == {"running", "blocked", "failed"}
LastCheckpoint == {None, "after_supervisor_brief"}
Brief == IntakeBrief(request.name, request.argument, site)
StoredSnapshot == [brief : {NoBrief, Brief}, matrix : {{}, Questions},
                   handoff : Handoff]

\* Requests, the context and the checkpoints have their types; a brief is the
\* one of the site that was fetched.
TypeOK ==
  /\ request \in Request
  /\ stage \in Stage
  /\ context.brief \in {NoBrief, Brief}
  /\ context.matrix \in {{}, Questions}
  /\ context.handoff \in Handoff
  /\ context \in [phase : Phase, status : Status, brief : {NoBrief, Brief},
                  matrix : {{}, Questions}, handoff : Handoff, last : LastCheckpoint]
  /\ stored \in [run : BOOLEAN, checkpoints : Seq(StoredSnapshot)]

\* The brief says of the company what the homepage supports, whatever the page
\* and however the classes overlap: another company's title is a conflict that
\* no redirect hides, a foreign host is a gap that no conflict hides, a site
\* that did not answer supports nothing, no field is both claimed and missing,
\* and only a page that names the company makes a brief ready.
BriefIsHonest ==
  context.brief # NoBrief => Honest(request.name, site, context.brief)

\* Departments start on what a later reader of the run finds: the brief and the
\* open questions are stored with a handoff that allows the routing, the caller
\* has been told once, and the last write is known to have succeeded.  A start
\* that was refused has left nothing behind and names a fault the intake has;
\* one that failed later is exported.
StartsAreAccounted ==
  /\ stage = "departments" =>
       /\ context.handoff \in Allowed /\ checkpoint = "yes"
       /\ stored.checkpoints # <<>>
       /\ LET last == stored.checkpoints[Len(stored.checkpoints)]
          IN /\ last.handoff \in Allowed
             /\ last.brief = Brief
             /\ last.matrix = Questions
       /\ announced = 1 /\ stored.run = Production
       /\ request.faults = {}
  /\ stage = "failed" =>
       /\ result # NoResult
       /\ result.exported <=> result.code = None
       /\ ~ result.exported =>
            stored.checkpoints = <<>> /\ ~ stored.run /\ announced = 0
       /\ result.phase = "intake_validation" /\ request.faults # {} =>
            \E fault \in request.faults : result.code = RejectionCode(fault)
       /\ request.faults # {} => result.phase = "intake_validation"

\* Every start comes to an end: the departments run, the caller gets a failed
\* result, or the exception of the export.
StartsEnd == <>(stage \in {"departments", "failed", "raised"})
=============================================================================
